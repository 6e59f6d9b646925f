------------------------------ MODULE Numbering ------------------------------
(***************************************************************************)
(* The allocation of part numbers (app/services/numbering.py and           *)
(* app/views/numbering.py).  A scheme renders a part number from fixed     *)
(* text, an optional date and one automatic counter.  The counter keeps no *)
(* "next value": every value ever used in a series is a permanent claim, a *)
(* document under a unique index, and an allocation scans upward from the  *)
(* requested start to the first value it can claim.                        *)
(*                                                                         *)
(* The application runs as several worker processes without transactions,  *)
(* so a request is a sequence of steps, one per database round-trip, and   *)
(* the steps of all requests interleave.  A worker may die between any two *)
(* of them.                                                                *)
(***************************************************************************)
EXTENDS Integers, FiniteSets

CONSTANTS
  Workers,      \* threads of the worker processes, each serving one request
  Schemes,      \* scheme ids; an id is never used again after a deletion
  Literals,     \* the fixed texts of patterns
  Scopes,       \* values of the context field a scoped scheme counts by
  Revisions,    \* revisions a scheme may give to a new part
  Settings,     \* the scheme documents an administrator may write
  Manual,       \* the starts requests ask for themselves; 0 is none
  MaxSeq,       \* largest counter value the padding can hold, base^padding - 1
  MaxPeriod,    \* bound on the calendar periods a behaviour spans
  MaxRequests,  \* bound on the requests of a behaviour
  MaxEvents,    \* bound on what administrators, other writers and time do
  Crashes,      \* whether a worker process may die
  NoPattern,    \* the literal of a document without pattern segments
  NoRevision,   \* the empty revision
  Absent, NoTask

Pattern   == [literal : Literals \cup {NoPattern}, dated : BOOLEAN]
Sequence  == [start : Nat \ {0}, ceiling : Nat, reset : BOOLEAN]
Setting   == [pattern : Pattern, seq : Sequence, scoped : BOOLEAN,
              revision : Revisions, active : BOOLEAN]

ASSUME NumberingAssumption ==
  /\ MaxSeq \in Nat \ {0} /\ MaxPeriod \in Nat \ {0} /\ MaxRequests \in Nat /\ MaxEvents \in Nat
  /\ Settings \subseteq Setting /\ Manual \subseteq Nat
  /\ Crashes \in BOOLEAN
  /\ NoRevision \in Revisions

VARIABLES
  schemes,   \* scheme documents: [Schemes -> Setting], or Absent
  editor,    \* an administrator's update between its read and its save
  retired,   \* history: schemes whose counters delete_scheme has removed
  claims,    \* the numbering_counters collection
  parts,     \* the parts collection, as <<part number, revision>>
  history,   \* the part_revision_history collection, likewise
  period,    \* the calendar
  pc, task,  \* each worker's position and the request it serves
  value,     \* each worker's place in its scan
  seen,      \* the claimed values each worker read before its scan
  requests,  \* number of requests so far; numbers them
  events,    \* number of steps of the environment so far
  issued,    \* history: the numbers answered to clients
  skipped,   \* history: claims recorded because the number was in use
  refused,   \* history: claims of requests refused at the ceiling
  failed     \* history: allocations that ended without a number

catalog == <<schemes, editor, retired>>
store   == <<parts, history>>
scan    == <<pc, task, value, seen>>
log     == <<issued, skipped, refused, failed>>
vars    == <<catalog, claims, store, period, scan, requests, events, log>>

-----------------------------------------------------------------------------
(* Documents and keys.                                                     *)

Idle == "idle"

\* A counter document is keyed by scheme, scope, reset bucket and rendered text.
Key == [scheme : Schemes, scope : Scopes \cup {"global"}, bucket : 0..MaxPeriod,
        text : (Literals \cup {NoPattern}) \X (0..MaxPeriod)]
Claim == [key : Key, value : 1..MaxSeq]
Claimed(k, v) == [key |-> k, value |-> v]

\* The text around the counter: the literal and, for a dated pattern, the period.
Text(s, p) == <<s.pattern.literal, IF s.pattern.dated THEN p ELSE 0>>

CounterKey(id, s, scope, p) ==
  [scheme |-> id,
   scope  |-> IF s.scoped THEN scope ELSE "global",
   bucket |-> IF s.seq.reset THEN p ELSE 0,
   text   |-> Text(s, p)]

\* Scheme, scope and bucket tell series apart but are not part of the number.
Number(c) == <<c.key.text, c.value>>

PartNumberExists(n) == \E p \in parts : p[1] = n

\* A preview, an allocation of a number alone, or one that creates the part.
Op   == {"preview", "number", "part"}
Task == [op : Op, key : Key,
         start : Nat \ {0}, ceiling : Nat, revision : Revisions, id : Nat]

Current(w) == Claimed(task[w].key, value[w])

\* A worker holds the value it claimed until it answers or fails.
Holding == {"recheck", "save", "history"}
\* With a candidate at hand, a worker looks it up, claims it or holds it.
Candidate == {"mark", "claim"} \cup Holding
Busy == {"scan", "loop", "blank", "blank_history"} \cup Candidate

\* The unique index on counter_key refuses a claim that is already there.
CanClaimWithoutIndex(c) == TRUE
CanClaim(c) == c \notin claims

LastValueOffByOne == MaxSeq + 1
LastValue == MaxSeq

\* The scan begins at the requested start itself.
ScanStartAfter(t) == t.start + 1
ScanStart(t) == t.start

TypeOK ==
  /\ schemes \in [Schemes -> Setting \cup {Absent}]
  /\ retired \subseteq Schemes
  /\ claims \subseteq Claim
  /\ period \in 1..MaxPeriod
  /\ pc \in [Workers -> Busy \cup {Idle}]
  /\ value \in [Workers -> Nat]
  /\ seen \in [Workers -> SUBSET Nat]
  /\ DOMAIN task = Workers
  /\ \A w \in Workers : pc[w] # Idle => task[w] \in Task
  /\ \A w \in Workers : pc[w] = "loop" => value[w] > 0
  /\ \A w \in Workers : pc[w] \in Candidate => value[w] \in 1..MaxSeq
  /\ requests \in Nat /\ events \in Nat /\ failed \in Nat
  /\ skipped \subseteq Claim /\ refused \subseteq Claim
  /\ issued \subseteq [task : Task, value : 1..MaxSeq]

\* What a scheme document lacks is read as the model's defaults.
DefaultSetting ==
  [pattern |-> [literal |-> NoPattern, dated |-> FALSE],
   seq |-> [start |-> 1, ceiling |-> 0, reset |-> FALSE],
   scoped |-> FALSE, revision |-> NoRevision, active |-> TRUE]

Init ==
  /\ schemes \in [Schemes -> Settings \cup {DefaultSetting, Absent}]
  /\ editor = NoTask
  /\ retired = {} /\ claims = {} /\ parts = {} /\ history = {}
  /\ period = 1
  /\ pc = [w \in Workers |-> Idle]
  /\ task = [w \in Workers |-> NoTask]
  /\ value = [w \in Workers |-> 0]
  /\ seen = [w \in Workers |-> {}]
  /\ requests = 0 /\ events = 0 /\ failed = 0
  /\ issued = {} /\ skipped = {} /\ refused = {}

-----------------------------------------------------------------------------
(* A request.                                                              *)

Goto(w, l) == pc' = [pc EXCEPT ![w] = l]

\* The worker is free again: nothing of the request outlives it in memory.
Finish(w) ==
  /\ pc' = [pc EXCEPT ![w] = Idle]
  /\ task' = [task EXCEPT ![w] = NoTask]
  /\ value' = [value EXCEPT ![w] = 0]
  /\ seen' = [seen EXCEPT ![w] = {}]

\* A request that ends in an error; a failed preview loses nothing.
Fail(w) ==
  /\ Finish(w)
  /\ failed' = IF task[w].op # "preview" THEN failed + 1 ELSE failed

Answer(w) ==
  /\ Finish(w)
  /\ issued' = issued \cup {[task |-> task[w], value |-> value[w]]}

\* What allocate_number works with from here on: scope, bucket and text are
\* fixed now, and the request may ask for a start of its own (sequence_values).
Request(id, op, scope, manual) ==
  LET s == schemes[id] IN
  [op |-> op, key |-> CounterKey(id, s, scope, period),
   start |-> IF manual = 0 THEN s.seq.start ELSE manual,
   ceiling |-> s.seq.ceiling, revision |-> s.revision, id |-> requests]

\* The views load the scheme and refuse a missing or an inactive one; without
\* a counter in its pattern there is nothing to scan.
LoadScheme(w) ==
  /\ pc[w] = Idle /\ requests < MaxRequests
  /\ \E id \in Schemes, op \in Op, scope \in Scopes, manual \in Manual :
       /\ schemes[id] # Absent
       /\ schemes[id].active
       /\ task' = [task EXCEPT ![w] = Request(id, op, scope, manual)]
       /\ Goto(w, IF schemes[id].pattern.literal = NoPattern THEN "blank" ELSE "scan")
  /\ requests' = requests + 1
  /\ UNCHANGED <<catalog, claims, store, period, value, seen, events, log>>

\* _claimed_sequence_values: one read of every claim of the series.
ReadClaims(w) ==
  /\ pc[w] = "scan"
  /\ seen' = [seen EXCEPT ![w] = {v \in 1..LastValue : Claimed(task[w].key, v) \in claims}]
  /\ value' = [value EXCEPT ![w] = ScanStart(task[w])]
  /\ Goto(w, "loop")
  /\ UNCHANGED <<catalog, claims, store, period, task, requests, events, log>>

\* No value from the current one up to the last is left.
Exhausted(w) ==
  /\ pc[w] = "loop"
  /\ value[w]..LastValue \subseteq seen[w]
  /\ Fail(w)
  /\ UNCHANGED <<catalog, claims, store, period, requests, events, issued, skipped, refused>>

\* The next value the worker did not see claimed: look its number up.
CheckCandidate(w) ==
  /\ pc[w] = "loop"
  /\ \E v \in value[w]..LastValue :
       /\ v \notin seen[w]
       /\ \A u \in value[w]..(v - 1) : u \in seen[w]
       /\ value' = [value EXCEPT ![w] = v]
       /\ Goto(w, IF PartNumberExists(Number(Claimed(task[w].key, v))) THEN "mark"
                  ELSE "claim")
  /\ UNCHANGED <<catalog, claims, store, period, task, seen, requests, events, log>>

\* The number is in use already: record a claim, lost or not, and go on.
MarkTaken(w) ==
  /\ pc[w] = "mark"
  /\ claims' = claims \cup {Current(w)}
  /\ skipped' = IF CanClaim(Current(w)) THEN skipped \cup {Current(w)} ELSE skipped
  /\ value' = [value EXCEPT ![w] = @ + 1]
  /\ Goto(w, "loop")
  /\ UNCHANGED <<catalog, store, period, task, seen, requests, events, issued,
                 refused, failed>>

AnswerPreviewConsuming(w) ==
  /\ pc[w] = "claim" /\ task[w].op = "preview"
  /\ Finish(w)
  /\ claims' = claims \cup {Current(w)}
  /\ UNCHANGED <<catalog, store, period, requests, events, log>>

\* A preview answers with the candidate and claims nothing.
AnswerPreview(w) ==
  /\ pc[w] = "claim" /\ task[w].op = "preview"
  /\ Finish(w)
  /\ UNCHANGED <<catalog, claims, store, period, requests, events, log>>

LoseRaceStays(w) ==
  /\ pc[w] = "claim" /\ task[w].op # "preview"
  /\ ~CanClaim(Current(w))
  /\ Goto(w, "loop")
  /\ UNCHANGED <<catalog, claims, store, period, task, value, seen, requests, events, log>>

\* Another request claimed the value first: keep scanning upward.
LoseRace(w) ==
  /\ pc[w] = "claim" /\ task[w].op # "preview"
  /\ ~CanClaim(Current(w))
  /\ value' = [value EXCEPT ![w] = @ + 1]
  /\ Goto(w, "loop")
  /\ UNCHANGED <<catalog, claims, store, period, task, seen, requests, events, log>>

\* The value is claimed, and only then compared with the scheme's ceiling.
ClaimValue(w) ==
  /\ pc[w] = "claim" /\ task[w].op # "preview"
  /\ CanClaim(Current(w))
  /\ claims' = claims \cup {Current(w)}
  /\ IF task[w].ceiling # 0 /\ value[w] > task[w].ceiling
     THEN /\ Fail(w)
          /\ refused' = refused \cup {Current(w)}
     ELSE /\ Goto(w, "recheck")
          /\ UNCHANGED <<task, value, seen, refused, failed>>
  /\ UNCHANGED <<catalog, store, period, requests, events, issued, skipped>>

\* The second look at the parts, after the claim; a number without a part is
\* answered here.
Recheck(w) ==
  /\ pc[w] = "recheck"
  /\ \/ /\ PartNumberExists(Number(Current(w)))
        /\ Fail(w) /\ UNCHANGED issued
     \/ /\ ~PartNumberExists(Number(Current(w))) /\ task[w].op = "part"
        /\ Goto(w, "save") /\ UNCHANGED <<task, value, seen, issued, failed>>
     \/ /\ ~PartNumberExists(Number(Current(w))) /\ task[w].op = "number"
        /\ Answer(w) /\ UNCHANGED failed
  /\ UNCHANGED <<catalog, claims, store, period, requests, events, skipped, refused>>

NewPart(w) == <<Number(Current(w)), task[w].revision>>

\* Part.save under the unique (part_number, revision) index; a duplicate is an
\* uncaught error of the request.
SaveNew(w, next) ==
  IF NewPart(w) \in parts
  THEN /\ Fail(w) /\ UNCHANGED parts
  ELSE /\ parts' = parts \cup {NewPart(w)}
       /\ Goto(w, next) /\ UNCHANGED <<task, value, seen, failed>>

SavePart(w) ==
  /\ pc[w] = "save"
  /\ SaveNew(w, "history")
  /\ UNCHANGED <<catalog, claims, history, period, requests, events, issued, skipped, refused>>

RecordHistory(w) ==
  /\ pc[w] = "history"
  /\ history' = history \cup {NewPart(w)}
  /\ Answer(w)
  /\ UNCHANGED <<catalog, claims, parts, period, requests, events, skipped, refused, failed>>

\* A document without segments gives the empty number, at value 0: it is not
\* found in use, and one part of each revision can be saved under it.
ServeBlank(w) ==
  /\ pc[w] = "blank"
  /\ \/ task[w].op = "part" /\ SaveNew(w, "blank_history")
     \/ task[w].op # "part" /\ Finish(w) /\ UNCHANGED <<parts, failed>>
  /\ UNCHANGED <<catalog, claims, history, period, requests, events, issued, skipped, refused>>

RecordBlank(w) ==
  /\ pc[w] = "blank_history"
  /\ history' = history \cup {NewPart(w)}
  /\ Finish(w)
  /\ UNCHANGED <<catalog, claims, parts, period, requests, events, log>>

\* The process is killed (a gunicorn timeout, a restart): nothing is undone.
Crash(w) ==
  /\ Crashes /\ pc[w] # Idle
  /\ Fail(w)
  /\ UNCHANGED <<catalog, claims, store, period, requests, events, issued, skipped, refused>>

-----------------------------------------------------------------------------
(* Administration, other writers of parts, and time.                       *)

Event == events < MaxEvents /\ events' = events + 1

CreateScheme(id) ==
  /\ Event
  /\ schemes[id] = Absent /\ id \notin retired
  /\ \E s \in Settings : schemes' = [schemes EXCEPT ![id] = s]
  /\ UNCHANGED <<editor, retired, claims, store, period, scan, requests, log>>

\* update_scheme reads the document ...
EditScheme(id) ==
  /\ Event
  /\ editor = NoTask /\ schemes[id] # Absent
  /\ \E s \in Settings : editor' = [id |-> id, base |-> schemes[id], new |-> s]
  /\ UNCHANGED <<schemes, retired, claims, store, period, scan, requests, log>>

\* ... and saves only the fields it changed, as an upsert: a scheme deleted in
\* the meantime comes back with those fields alone.
SaveScheme ==
  /\ Event
  /\ editor # NoTask
  /\ LET old == IF schemes[editor.id] = Absent THEN DefaultSetting
                ELSE schemes[editor.id]
         Field(f) == IF editor.new[f] # editor.base[f] THEN editor.new[f] ELSE old[f]
     IN schemes' = [schemes EXCEPT ![editor.id] =
          [pattern |-> Field("pattern"), seq |-> Field("seq"), scoped |-> Field("scoped"),
           revision |-> Field("revision"), active |-> Field("active")]]
  /\ editor' = NoTask
  /\ UNCHANGED <<retired, claims, store, period, scan, requests, log>>

\* delete_scheme removes the counters first ...
DeleteCounters(id) ==
  /\ Event
  /\ schemes[id] # Absent
  /\ retired' = retired \cup {id}
  /\ claims' = {c \in claims : c.key.scheme # id}
  /\ UNCHANGED <<schemes, editor, store, period, scan, requests, log>>

\* ... and the document last; requests that loaded it go on.
DeleteScheme(id) ==
  /\ Event
  /\ id \in retired /\ schemes[id] # Absent
  /\ schemes' = [schemes EXCEPT ![id] = Absent]
  /\ UNCHANGED <<editor, retired, claims, store, period, scan, requests, log>>

\* Parts also come from upload packs and manual entry, under any number.
ImportPart ==
  /\ Event
  /\ \E s \in Settings, r \in Revisions, v \in 1..MaxSeq :
       parts' = parts \cup {<<<<Text(s, period), v>>, r>>}
  /\ UNCHANGED <<catalog, claims, history, period, scan, requests, log>>

DeletePartFreesNumber ==
  /\ Event
  /\ \E p \in parts :
       /\ parts' = parts \ {p} /\ history' = history \ {p}
       /\ claims' = {c \in claims : Number(c) # p[1]}
  /\ UNCHANGED <<catalog, period, scan, requests, log>>

\* delete_part_and_refs takes the part and its revision history.
DeletePart ==
  /\ Event
  /\ \E p \in parts : parts' = parts \ {p} /\ history' = history \ {p}
  /\ UNCHANGED <<catalog, claims, period, scan, requests, log>>

NextPeriod ==
  /\ Event
  /\ period < MaxPeriod
  /\ period' = period + 1
  /\ UNCHANGED <<catalog, claims, store, scan, requests, log>>

-----------------------------------------------------------------------------
Serve(w) ==
  \/ ReadClaims(w) \/ Exhausted(w) \/ CheckCandidate(w) \/ MarkTaken(w)
  \/ AnswerPreview(w) \/ LoseRace(w) \/ ClaimValue(w) \/ Recheck(w)
  \/ SavePart(w) \/ RecordHistory(w) \/ ServeBlank(w) \/ RecordBlank(w)

Administer ==
  \/ \E id \in Schemes : CreateScheme(id) \/ EditScheme(id)
                         \/ DeleteCounters(id) \/ DeleteScheme(id)
  \/ SaveScheme

Next ==
  \/ \E w \in Workers : LoadScheme(w) \/ Serve(w) \/ Crash(w)
  \/ Administer
  \/ ImportPart \/ DeletePart \/ NextPeriod

Spec == Init /\ [][Next]_vars

-----------------------------------------------------------------------------
(* Properties.                                                             *)

\* The claims of requests under way, and the numbers answered.
Held     == {Current(w) : w \in {x \in Workers : pc[x] \in Holding}}
Answered == {Claimed(r.task.key, r.value) : r \in issued}
Live(S)  == {c \in S : c.key.scheme \notin retired}
Lost     == claims \ (Held \cup Answered)

\* A value of a series is answered to one request only and never while another
\* request holds it, whatever the interleaving, the crashes and the parts
\* deleted since ("once a value has been issued for a series it is never issued
\* again ... and concurrent allocations can never obtain the same value").  The
\* promise ends when delete_scheme removes the series' claims.
IssuedOnce ==
  /\ \A a, b \in issued :
       /\ Claimed(a.task.key, a.value) = Claimed(b.task.key, b.value)
       /\ a.task.key.scheme \notin retired
       => a = b
  /\ \A v, w \in Workers :
       /\ pc[v] \in Holding /\ pc[w] \in Holding
       /\ Current(v) = Current(w) /\ task[v].key.scheme \notin retired
       => v = w
  /\ Live(Held \cap Answered) = {}

\* The counter fills gaps: between the start a request asked for and the value
\* it holds or was answered there is no value the series has not used.
GapsFilled ==
  /\ \A w \in Workers : pc[w] \in Holding /\ task[w].key.scheme \notin retired =>
       \A u \in task[w].start..(value[w] - 1) : Claimed(task[w].key, u) \in claims
  /\ \A r \in issued : r.task.key.scheme \notin retired =>
       \A u \in r.task.start..r.value : Claimed(r.task.key, u) \in claims

\* Values disappear from a series only through allocations that failed, one
\* value each, and through numbers found in use: a preview uses up nothing.
FailureLosesAtMostOne ==
  Cardinality(Live(Lost) \ skipped) <= failed

\* The scan never returns to a value it has passed, however many values other
\* requests take from it: each step of a request moves on to a later stage of
\* the same value or to a larger value, which MaxSeq bounds, so that a worker
\* that keeps running comes to the end of its request.
Stage(l) == CASE l \in {"scan", "blank"} -> 0 [] l = "loop" -> 1
              [] l \in {"mark", "claim"} -> 2 [] l = "recheck" -> 3 [] l = "save" -> 4
              [] l \in {"history", "blank_history"} -> 5 [] OTHER -> 6
ScanAdvances ==
  [][\A w \in Workers :
       \/ pc[w] = Idle \/ pc'[w] = Idle \/ UNCHANGED <<pc[w], value[w]>>
       \/ value[w] < value'[w]
       \/ value[w] = value'[w] /\ Stage(pc[w]) < Stage(pc'[w])]_scan

\* The documents implement the register, seen through the live series.
Register == INSTANCE NumberRegister WITH
  held <- Live(Held), issued <- Live(Answered), lost <- Live(Lost)
RegisterSpec == Register!Spec

\* numbering.py on the ceiling: "reaching the limit allocates nothing at all".
\* A value refused at the ceiling would then still be free in its series.
RefusalAllocatesNothing == Live(refused \cap claims) = {}
=============================================================================
