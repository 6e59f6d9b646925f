--------------------------- MODULE NumberingProofs ---------------------------
(***************************************************************************)
(* Proofs about Numbering, for every number of workers, schemes, values    *)
(* and requests: no interleaving, crash or deletion of a part makes the    *)
(* counter answer a value twice, or leave one out.                         *)
(***************************************************************************)
EXTENDS Numbering, TLAPS, FiniteSetTheorems

\* What an administrator's update holds between its read and its save.
EditorOK == editor # NoTask => editor \in [id : Schemes, base : Setting, new : Setting]

Types == TypeOK /\ EditorOK

LEMMA DefaultType == DefaultSetting \in Setting
  BY NumberingAssumption DEF DefaultSetting, Setting, Pattern, Sequence

LEMMA InitTypes == Init => Types
  BY NumberingAssumption, DefaultType DEF Init, Types, TypeOK, EditorOK, Busy, Candidate, Holding, Idle

\* The keys the code computes are keys.
LEMMA KeyType ==
  ASSUME NEW id \in Schemes, NEW s \in Setting, NEW scope \in Scopes, NEW p \in 0..MaxPeriod
  PROVE  CounterKey(id, s, scope, p) \in Key
  <1>1. s.pattern.literal \in Literals \cup {NoPattern}
    BY DEF Setting, Pattern
  <1>2. (IF s.pattern.dated THEN p ELSE 0) \in 0..MaxPeriod
    BY NumberingAssumption
  <1>3. Text(s, p) \in (Literals \cup {NoPattern}) \X (0..MaxPeriod)
    BY <1>1, <1>2 DEF Text
  <1>4. (IF s.seq.reset THEN p ELSE 0) \in 0..MaxPeriod
    BY NumberingAssumption
  <1> QED BY <1>3, <1>4 DEF CounterKey, Key

\* A worker with a candidate at hand stands at a value of its series.
LEMMA CurrentType ==
  ASSUME Types, NEW w \in Workers, pc[w] \in Candidate
  PROVE  /\ task[w] \in Task /\ value[w] \in 1..MaxSeq
         /\ Current(w) \in Claim
  <1>1. pc[w] # Idle
    BY DEF Candidate, Holding, Idle
  <1>2. task[w] \in Task /\ value[w] \in 1..MaxSeq
    BY <1>1 DEF Types, TypeOK
  <1> QED BY <1>2 DEF Current, Claimed, Claim, Task

\* The steps of one request keep the types.
LEMMA ServeTypes ==
  ASSUME Types, NEW w \in Workers, Serve(w) \/ Crash(w)
  PROVE  Types'
  <1> USE DEF Types, TypeOK, EditorOK, Goto, catalog, store, log,
              Busy, Candidate, Holding, Idle
  <1>0. MaxSeq \in Nat /\ MaxSeq > 0
    BY NumberingAssumption
  <1>1. CASE ReadClaims(w)
    <2>1. task[w] \in Task
      BY <1>1 DEF ReadClaims
    <2>2. ScanStart(task[w]) \in Nat /\ ScanStart(task[w]) > 0
      BY <2>1 DEF ScanStart, Task
    <2> QED BY <1>0, <1>1, <2>1, <2>2 DEF ReadClaims, LastValue
  <1>2. CASE Exhausted(w)
    BY <1>2 DEF Exhausted, Fail, Finish
  <1>3. CASE CheckCandidate(w)
    BY <1>0, <1>3 DEF CheckCandidate, LastValue
  <1>4. CASE MarkTaken(w)
    <2>1. Current(w) \in Claim /\ value[w] \in 1..MaxSeq
      BY <1>4, CurrentType DEF MarkTaken
    <2> QED BY <1>0, <1>4, <2>1 DEF MarkTaken
  <1>5. CASE AnswerPreview(w)
    BY <1>5 DEF AnswerPreview, Finish
  <1>6. CASE LoseRace(w)
    BY <1>0, <1>6 DEF LoseRace
  <1>7. CASE ClaimValue(w)
    <2>1. Current(w) \in Claim /\ value[w] \in 1..MaxSeq
      BY <1>7, CurrentType DEF ClaimValue
    <2>2. CASE Fail(w)
      BY <1>7, <2>1, <2>2 DEF ClaimValue, Fail, Finish
    <2>3. CASE ~Fail(w)
      BY <1>7, <2>1, <2>3 DEF ClaimValue
    <2> QED BY <2>2, <2>3
  <1>8. CASE Recheck(w)
    <2>1. task[w] \in Task /\ value[w] \in 1..MaxSeq
      BY <1>8, CurrentType DEF Recheck
    <2>2. CASE Fail(w) /\ UNCHANGED issued
      BY <1>8, <2>2 DEF Recheck, Fail, Finish
    <2>3. CASE Goto(w, "save") /\ UNCHANGED <<task, value, seen, issued, failed>>
      BY <1>8, <2>1, <2>3 DEF Recheck
    <2>4. CASE Answer(w) /\ UNCHANGED failed
      BY <1>8, <2>1, <2>4 DEF Recheck, Answer, Finish
    <2> QED BY <1>8, <2>2, <2>3, <2>4 DEF Recheck
  <1>9. CASE SavePart(w)
    <2>1. CASE Fail(w)
      BY <1>9, <2>1 DEF SavePart, SaveNew, Fail, Finish
    <2>2. CASE ~Fail(w)
      BY <1>9, <2>2 DEF SavePart, SaveNew
    <2> QED BY <2>1, <2>2
  <1>10. CASE RecordHistory(w)
    <2>1. task[w] \in Task /\ value[w] \in 1..MaxSeq
      BY <1>10, CurrentType DEF RecordHistory
    <2> QED BY <1>10, <2>1 DEF RecordHistory, Answer, Finish
  <1>11. CASE Crash(w)
    BY <1>11 DEF Crash, Fail, Finish
  <1>12. CASE ServeBlank(w)
    <2>1. CASE Finish(w)
      BY <1>12, <2>1 DEF ServeBlank, SaveNew, Fail, Finish
    <2>2. CASE ~Finish(w)
      BY <1>12, <2>2 DEF ServeBlank, SaveNew, Fail
    <2> QED BY <2>1, <2>2
  <1>13. CASE RecordBlank(w)
    BY <1>13 DEF RecordBlank, Finish
  <1> QED BY <1>1, <1>2, <1>3, <1>4, <1>5, <1>6, <1>7, <1>8, <1>9, <1>10, <1>11, <1>12, <1>13
          DEF Serve

\* Requests that load a scheme carry a well-formed task.
LEMMA LoadTypes ==
  ASSUME Types, NEW w \in Workers, LoadScheme(w)
  PROVE  Types'
  <1>1. PICK id \in Schemes, op \in Op, scope \in Scopes, manual \in Manual :
          /\ schemes[id] # Absent
          /\ task' = [task EXCEPT ![w] = Request(id, op, scope, manual)]
    BY DEF LoadScheme
  <1>7. pc' = [pc EXCEPT ![w] = "blank"] \/ pc' = [pc EXCEPT ![w] = "scan"]
    BY DEF LoadScheme, Goto
  <1> USE DEF Types, TypeOK, EditorOK, Goto, catalog, store, log,
              Busy, Candidate, Holding, Idle
  <1>2. schemes[id] \in Setting
    BY <1>1
  <1>3. CounterKey(id, schemes[id], scope, period) \in Key
    BY <1>2, KeyType
  <1>4. (IF manual = 0 THEN schemes[id].seq.start ELSE manual) \in Nat \ {0}
    BY <1>2, NumberingAssumption DEF Setting, Sequence
  <1>5. schemes[id].seq.ceiling \in Nat /\ schemes[id].revision \in Revisions
    BY <1>2 DEF Setting, Sequence
  <1>6. Request(id, op, scope, manual) \in Task
    BY <1>3, <1>4, <1>5 DEF Request, Task
  <1> QED BY <1>1, <1>6, <1>7 DEF LoadScheme

\* Administrators, other writers of parts and the calendar.
LEMMA EnvironmentTypes ==
  ASSUME Types, Administer \/ ImportPart \/ DeletePart \/ NextPeriod
  PROVE  Types'
  <1> USE DEF Types, TypeOK, EditorOK, Event, catalog, store, scan, log,
              Busy, Candidate, Holding, Idle
  <1>1. ASSUME NEW id \in Schemes, CreateScheme(id)
        PROVE  Types'
    BY <1>1, NumberingAssumption DEF CreateScheme
  <1>2. ASSUME NEW id \in Schemes, EditScheme(id)
        PROVE  Types'
    <2>1. schemes[id] \in Setting
      BY <1>2 DEF EditScheme
    <2>2. editor' \in [id : Schemes, base : Setting, new : Setting]
      BY <1>2, <2>1, NumberingAssumption DEF EditScheme
    <2> QED BY <1>2, <2>2 DEF EditScheme
  <1>3. ASSUME NEW id \in Schemes, DeleteCounters(id)
        PROVE  Types'
    BY <1>3 DEF DeleteCounters
  <1>4. ASSUME NEW id \in Schemes, DeleteScheme(id)
        PROVE  Types'
    BY <1>4 DEF DeleteScheme
  <1>5. ASSUME SaveScheme
        PROVE  Types'
    <2>1. editor \in [id : Schemes, base : Setting, new : Setting]
      BY <1>5 DEF SaveScheme
    <2>2. DefaultSetting \in Setting
      BY DefaultType
    <2> DEFINE old == IF schemes[editor.id] = Absent THEN DefaultSetting
                      ELSE schemes[editor.id]
               Field(f) == IF editor.new[f] # editor.base[f] THEN editor.new[f]
                           ELSE old[f]
               saved == [pattern |-> Field("pattern"), seq |-> Field("seq"),
                         scoped |-> Field("scoped"), revision |-> Field("revision"),
                         active |-> Field("active")]
    <2>3. old \in Setting
      BY <2>1, <2>2
    <2>4. saved \in Setting
      <3>1. editor.new \in Setting
        BY <2>1
      <3> HIDE DEF old
      <3> QED BY <2>3, <3>1 DEF Setting
    <2>5. schemes' = [schemes EXCEPT ![editor.id] = saved]
      BY <1>5 DEF SaveScheme
    <2> HIDE DEF saved
    <2> QED BY <1>5, <2>1, <2>4, <2>5 DEF SaveScheme
  <1>6. ASSUME ImportPart
        PROVE  Types'
    BY <1>6 DEF ImportPart
  <1>7. ASSUME DeletePart
        PROVE  Types'
    BY <1>7 DEF DeletePart
  <1>8. ASSUME NextPeriod
        PROVE  Types'
    BY <1>8, NumberingAssumption DEF NextPeriod
  <1> QED BY <1>1, <1>2, <1>3, <1>4, <1>5, <1>6, <1>7, <1>8 DEF Administer

LEMMA StutterTypes == Types /\ UNCHANGED vars => Types'
  BY DEF vars, catalog, store, scan, log, Types, TypeOK, EditorOK,
         Busy, Candidate, Holding, Idle

LEMMA NextTypes == Types /\ [Next]_vars => Types'
  BY ServeTypes, LoadTypes, EnvironmentTypes, StutterTypes DEF Next

\* Every document, claim, request and answer stays well-formed: a scan never
\* leaves the values the padding can hold, and a scheme saved back by an update
\* that overlapped its deletion is still a scheme.
THEOREM TypeCorrect == Spec => []TypeOK
  <1>1. Spec => []Types
    BY InitTypes, NextTypes, PTL DEF Spec
  <1>2. Types => TypeOK
    BY DEF Types
  <1> QED BY <1>1, <1>2, PTL
-----------------------------------------------------------------------------
(***************************************************************************)
(* The inductive invariant.  IssuedOnce alone is not inductive: a claim    *)
(* has to be known to survive as long as its value is held or answered,    *)
(* and what a scan has passed to be claimed, whoever claimed it.           *)
(***************************************************************************)
Scanning == {"loop"} \cup Candidate
Alive(t) == t.key.scheme \notin retired

\* What a worker read before its scan is still claimed.
SeenClaimed ==
  \A w \in Workers : pc[w] \in Scanning /\ Alive(task[w]) =>
    \A u \in seen[w] : Claimed(task[w].key, u) \in claims

\* What it has scanned is claimed, by itself or by others.
ScannedClaimed ==
  \A w \in Workers : pc[w] \in Scanning =>
    /\ task[w].start <= value[w]
    /\ Alive(task[w]) =>
         \A u \in task[w].start..(value[w] - 1) : Claimed(task[w].key, u) \in claims

\* A value held by a request stays claimed ...
HeldClaimed ==
  \A w \in Workers : pc[w] \in Holding /\ Alive(task[w]) => Current(w) \in claims

\* ... and so does every value up to one that was answered.
AnsweredClaimed ==
  \A r \in issued : Alive(r.task) =>
    /\ Claimed(r.task.key, r.value) \in claims
    /\ \A u \in r.task.start..r.value : Claimed(r.task.key, u) \in claims

\* A held value has not been answered and has no other holder.
HeldAlone ==
  /\ \A w \in Workers, r \in issued :
       pc[w] \in Holding /\ Alive(task[w]) => Current(w) # Claimed(r.task.key, r.value)
  /\ \A v, w \in Workers :
       pc[v] \in Holding /\ pc[w] \in Holding /\ Alive(task[v]) /\ v # w
       => Current(v) # Current(w)

AnsweredOnce ==
  \A a, b \in issued :
    Alive(a.task) /\ Claimed(a.task.key, a.value) = Claimed(b.task.key, b.value) => a = b

Ledger == /\ SeenClaimed /\ ScannedClaimed /\ HeldClaimed
          /\ AnsweredClaimed /\ HeldAlone /\ AnsweredOnce

IInv == Types /\ Ledger

LEMMA InitLedger == Init => Ledger
  BY DEF Init, Ledger, SeenClaimed, ScannedClaimed, HeldClaimed, AnsweredClaimed,
         HeldAlone, AnsweredOnce, Idle, Scanning, Candidate, Holding

\* A step that grows the claims and touches neither workers nor answers.
LEMMA QuietLedger ==
  ASSUME Ledger, claims \subseteq claims', retired \subseteq retired',
         UNCHANGED <<scan, issued>>
  PROVE  Ledger'
  BY DEF Ledger, SeenClaimed, ScannedClaimed, HeldClaimed, AnsweredClaimed, HeldAlone,
         AnsweredOnce, Alive, scan, Current, Claimed

\* A worker that becomes idle without an answer takes nothing with it.
LEMMA FinishLedger ==
  ASSUME Types, Ledger, NEW w \in Workers, Finish(w), claims \subseteq claims',
         UNCHANGED <<retired, issued>>
  PROVE  Ledger'
  <1>1. /\ pc'[w] = Idle
        /\ \A v \in Workers : v # w => /\ pc'[v] = pc[v] /\ task'[v] = task[v]
                                       /\ value'[v] = value[v] /\ seen'[v] = seen[v]
    BY DEF Finish, Types, TypeOK
  <1>2. pc'[w] \notin Scanning /\ pc'[w] \notin Holding
    BY <1>1 DEF Idle, Scanning, Candidate, Holding
  <1>3. SeenClaimed' /\ ScannedClaimed' /\ HeldClaimed' /\ AnsweredClaimed'
    BY <1>1, <1>2 DEF Ledger, SeenClaimed, ScannedClaimed, HeldClaimed, AnsweredClaimed,
       Alive, Current
  <1>4. HeldAlone' /\ AnsweredOnce'
    <2>1. \A v \in Workers : pc'[v] \in Holding =>
            v # w /\ pc[v] \in Holding /\ Current(v)' = Current(v)
              /\ (Alive(task[v])' <=> Alive(task[v]))
      BY <1>1, <1>2 DEF Current, Alive
    <2> QED BY <1>1, <2>1 DEF Ledger, HeldAlone, AnsweredOnce, Alive, Claimed
  <1> QED BY <1>3, <1>4 DEF Ledger

\* The holder of a value answers it.
LEMMA AnswerLedger ==
  ASSUME Types, Ledger, NEW w \in Workers, Answer(w), pc[w] \in Holding,
         UNCHANGED <<retired, claims>>
  PROVE  Ledger'
  <1> DEFINE answer == [task |-> task[w], value |-> value[w]]
  <1>1. /\ pc'[w] = Idle
        /\ \A v \in Workers : v # w => /\ pc'[v] = pc[v] /\ task'[v] = task[v]
                                       /\ value'[v] = value[v] /\ seen'[v] = seen[v]
        /\ issued' = issued \cup {answer}
    BY DEF Answer, Finish, Types, TypeOK
  <1>2. pc'[w] \notin Scanning /\ pc'[w] \notin Holding
    BY <1>1 DEF Idle, Scanning, Candidate, Holding
  <1>3. pc[w] \in Scanning /\ pc[w] \in Candidate
    BY DEF Scanning, Candidate
  <1>4. task[w] \in Task /\ value[w] \in 1..MaxSeq
    BY <1>3, CurrentType
  <1>5. answer.task = task[w] /\ answer.value = value[w]
    OBVIOUS
  <1> HIDE DEF answer
  <1>6. SeenClaimed' /\ ScannedClaimed' /\ HeldClaimed'
    BY <1>1, <1>2 DEF Ledger, SeenClaimed, ScannedClaimed, HeldClaimed, Alive, Current
  <1>7. AnsweredClaimed'
    <2>1. Alive(task[w]) =>
            /\ Claimed(task[w].key, value[w]) \in claims
            /\ \A u \in task[w].start..value[w] : Claimed(task[w].key, u) \in claims
      <3>1. task[w].start \in Nat /\ value[w] \in Nat
        BY <1>4, NumberingAssumption DEF Task
      <3> QED BY <1>3, <3>1 DEF Ledger, ScannedClaimed, HeldClaimed, Current
    <2> QED BY <1>1, <1>5, <2>1 DEF Ledger, AnsweredClaimed, Alive
  <1>8. HeldAlone'
    <2>1. \A v \in Workers : pc'[v] \in Holding =>
            v # w /\ pc[v] \in Holding /\ Current(v)' = Current(v)
              /\ (Alive(task[v])' <=> Alive(task[v]))
      BY <1>1, <1>2 DEF Current, Alive
    <2>2. \A v \in Workers : v # w /\ pc[v] \in Holding /\ Alive(task[v]) =>
            Current(v) # Claimed(answer.task.key, answer.value)
      BY <1>5 DEF Ledger, HeldAlone, Current
    <2>3. \A v \in Workers, r \in issued' : pc'[v] \in Holding /\ Alive(task[v])' =>
            Current(v)' # Claimed(r.task.key, r.value)
      BY <1>1, <2>1, <2>2 DEF Ledger, HeldAlone
    <2>4. \A u, v \in Workers : /\ pc'[u] \in Holding /\ pc'[v] \in Holding
                                /\ Alive(task[u])' /\ u # v
            => Current(u)' # Current(v)'
      BY <2>1 DEF Ledger, HeldAlone
    <2> QED BY <2>3, <2>4 DEF HeldAlone, Claimed
  <1>9. AnsweredOnce'
    <2>1. \A r \in issued : Alive(task[w]) =>
            Claimed(task[w].key, value[w]) # Claimed(r.task.key, r.value)
      BY DEF Ledger, HeldAlone, Current
    <2>2. \A r \in issued : Claimed(task[w].key, value[w]) = Claimed(r.task.key, r.value)
            => (Alive(task[w]) <=> Alive(r.task))
      BY DEF Claimed, Alive
    <2> QED BY <1>1, <1>5, <2>1, <2>2 DEF Ledger, AnsweredOnce, Alive
  <1> QED BY <1>6, <1>7, <1>8, <1>9 DEF Ledger

\* A worker moves on within its request.  It must show that what it has scanned
\* and seen is claimed, and that a value it comes to hold was not claimed before.
LEMMA MoveLedger ==
  ASSUME Ledger, NEW w \in Workers,
         claims \subseteq claims', UNCHANGED <<retired, issued>>,
         \A v \in Workers : v # w => /\ pc'[v] = pc[v] /\ task'[v] = task[v]
                                    /\ value'[v] = value[v] /\ seen'[v] = seen[v],
         pc'[w] \in Scanning =>
           /\ task'[w].start <= value'[w]
           /\ Alive(task[w])' =>
                /\ \A u \in seen'[w] : Claimed(task'[w].key, u) \in claims'
                /\ \A u \in task'[w].start..(value'[w] - 1) :
                     Claimed(task'[w].key, u) \in claims',
         pc'[w] \in Holding =>
           \/ pc[w] \in Holding /\ Current(w)' = Current(w) /\ task'[w] = task[w]
           \/ Current(w)' \in claims' /\ Current(w)' \notin claims
  PROVE  Ledger'
  <1>1. \A v \in Workers : v # w =>
          Current(v)' = Current(v) /\ (Alive(task[v])' <=> Alive(task[v]))
    BY DEF Current, Alive
  <1>2. SeenClaimed' /\ ScannedClaimed'
    BY <1>1 DEF Ledger, SeenClaimed, ScannedClaimed
  <1>3. HeldClaimed'
    BY <1>1 DEF Ledger, HeldClaimed, Alive
  <1>4. AnsweredClaimed' /\ AnsweredOnce'
    BY DEF Ledger, AnsweredClaimed, AnsweredOnce, Alive, Claimed
  <1>5. HeldAlone'
    <2>1. \A r \in issued : /\ pc'[w] \in Holding /\ Alive(task[w])'
            => Current(w)' # Claimed(r.task.key, r.value)
      <3>1. CASE pc[w] \in Holding /\ Current(w)' = Current(w) /\ task'[w] = task[w]
        BY <3>1 DEF Ledger, HeldAlone, Alive
      <3>2. CASE Current(w)' \notin claims
        <4>1. \A r \in issued : Current(w)' = Claimed(r.task.key, r.value)
                => (Alive(task[w])' => Alive(r.task))
          BY DEF Current, Claimed, Alive
        <4> QED BY <3>2, <4>1 DEF Ledger, AnsweredClaimed
      <3> QED BY <3>1, <3>2
    <2>2. \A v \in Workers : /\ pc'[w] \in Holding /\ pc[v] \in Holding /\ v # w
                             /\ Alive(task[v]) \/ Alive(task[w])'
            => Current(w)' # Current(v)
      <3>0. \A v \in Workers : Current(w)' = Current(v)
              => (Alive(task[w])' <=> Alive(task[v]))
        BY DEF Current, Claimed, Alive
      <3>1. CASE pc[w] \in Holding /\ Current(w)' = Current(w) /\ task'[w] = task[w]
        BY <3>0, <3>1 DEF Ledger, HeldAlone
      <3>2. CASE Current(w)' \notin claims
        BY <3>0, <3>2 DEF Ledger, HeldClaimed
      <3> QED BY <3>1, <3>2
    <2>3. \A v \in Workers, r \in issued' : pc'[v] \in Holding /\ Alive(task[v])' =>
            Current(v)' # Claimed(r.task.key, r.value)
      BY <1>1, <2>1 DEF Ledger, HeldAlone
    <2>4. \A u, v \in Workers : /\ pc'[u] \in Holding /\ pc'[v] \in Holding
                                /\ Alive(task[u])' /\ u # v
            => Current(u)' # Current(v)'
      BY <1>1, <2>2 DEF Ledger, HeldAlone
    <2> QED BY <2>3, <2>4 DEF HeldAlone, Claimed
  <1> QED BY <1>2, <1>3, <1>4, <1>5 DEF Ledger

LEMMA ServeLedger ==
  ASSUME Types, Ledger, NEW w \in Workers, Serve(w) \/ Crash(w)
  PROVE  Ledger'
  <1>0. MaxSeq \in Nat /\ MaxSeq > 0
    BY NumberingAssumption
  <1> DEFINE Apart(v) == /\ pc'[v] = pc[v] /\ task'[v] = task[v]
                         /\ value'[v] = value[v] /\ seen'[v] = seen[v]
  <1>1. CASE ReadClaims(w)
    <2>1. task[w] \in Task /\ task[w].start \in Nat
      BY <1>1 DEF ReadClaims, Types, TypeOK, Idle, Task
    <2>2. /\ pc'[w] = "loop" /\ task'[w] = task[w] /\ value'[w] = task[w].start
          /\ seen'[w] = {v \in 1..MaxSeq : Claimed(task[w].key, v) \in claims}
          /\ \A v \in Workers : v # w => Apart(v)
          /\ UNCHANGED <<retired, issued, claims>>
      BY <1>1 DEF ReadClaims, Goto, ScanStart, LastValue, catalog, log, Types, TypeOK
    <2>3. pc'[w] \notin Holding
      BY <2>2 DEF Holding
    <2> QED BY <2>1, <2>2, <2>3, MoveLedger
  <1>2. CASE Exhausted(w)
    BY <1>2, FinishLedger DEF Exhausted, Fail, catalog
  <1>3. CASE CheckCandidate(w)
    <2>1. /\ task[w] \in Task /\ task[w].start \in Nat /\ value[w] \in Nat
          /\ pc[w] \in Scanning
      BY <1>3 DEF CheckCandidate, Types, TypeOK, Idle, Task, Scanning
    <2>2. PICK v \in value[w]..MaxSeq :
            /\ \A u \in value[w]..(v - 1) : u \in seen[w]
            /\ value' = [value EXCEPT ![w] = v]
            /\ Goto(w, IF PartNumberExists(Number(Claimed(task[w].key, v)))
                       THEN "mark" ELSE "claim")
      BY <1>3 DEF CheckCandidate, LastValue
    <2>3. /\ pc'[w] \in {"mark", "claim"} /\ task'[w] = task[w] /\ value'[w] = v
          /\ seen'[w] = seen[w]
          /\ \A x \in Workers : x # w => Apart(x)
          /\ UNCHANGED <<retired, issued, claims>>
      BY <1>3, <2>2 DEF CheckCandidate, Goto, catalog, log, Types, TypeOK
    <2>4. pc'[w] \notin Holding
      BY <2>3 DEF Holding
    <2>5. task[w].start <= v
      BY <1>0, <2>1, <2>2 DEF Ledger, ScannedClaimed
    <2>6. Alive(task[w]) => \A u \in task[w].start..(v - 1) : Claimed(task[w].key, u) \in claims
      <3>1. Alive(task[w]) => \A u \in task[w].start..(value[w] - 1) :
                                Claimed(task[w].key, u) \in claims
        BY <2>1 DEF Ledger, ScannedClaimed
      <3>2. Alive(task[w]) => \A u \in value[w]..(v - 1) : Claimed(task[w].key, u) \in claims
        BY <2>1, <2>2 DEF Ledger, SeenClaimed
      <3>3. \A u \in task[w].start..(v - 1) :
              u \in task[w].start..(value[w] - 1) \/ u \in value[w]..(v - 1)
        BY <1>0, <2>1, <2>2
      <3> QED BY <3>1, <3>2, <3>3
    <2>7. Alive(task[w])' => Alive(task[w])
      BY <2>3 DEF Alive
    <2>8. Alive(task[w]) => \A u \in seen[w] : Claimed(task[w].key, u) \in claims
      BY <2>1 DEF Ledger, SeenClaimed
    <2> QED BY <2>3, <2>4, <2>5, <2>6, <2>7, <2>8, MoveLedger
  <1>4. CASE MarkTaken(w) \/ LoseRace(w)
    <2>1. /\ task[w] \in Task /\ task[w].start \in Nat /\ value[w] \in Nat
          /\ pc[w] \in Scanning
      BY <1>0, <1>4, CurrentType DEF MarkTaken, LoseRace, Scanning, Candidate, Task
    <2>2. /\ pc'[w] = "loop" /\ task'[w] = task[w] /\ value'[w] = value[w] + 1
          /\ seen'[w] = seen[w]
          /\ \A x \in Workers : x # w => Apart(x)
          /\ UNCHANGED <<retired, issued>>
          /\ claims \subseteq claims' /\ Claimed(task[w].key, value[w]) \in claims'
      BY <1>4 DEF MarkTaken, LoseRace, CanClaim, Current, Goto, catalog, log, Types, TypeOK
    <2>3. pc'[w] \notin Holding
      BY <2>2 DEF Holding
    <2>4. task[w].start <= value[w] + 1
      BY <2>1 DEF Ledger, ScannedClaimed
    <2>5. Alive(task[w]) => \A u \in task[w].start..(value[w] + 1 - 1) :
                              Claimed(task[w].key, u) \in claims'
      <3>1. \A u \in task[w].start..(value[w] + 1 - 1) :
              u \in task[w].start..(value[w] - 1) \/ u = value[w]
        BY <2>1
      <3> QED BY <2>1, <2>2, <3>1 DEF Ledger, ScannedClaimed
    <2>6. Alive(task[w])' => Alive(task[w])
      BY <2>2 DEF Alive
    <2>7. Alive(task[w]) => \A u \in seen[w] : Claimed(task[w].key, u) \in claims'
      BY <2>1, <2>2 DEF Ledger, SeenClaimed
    <2>8. /\ task'[w].start <= value'[w]
          /\ Alive(task[w])' =>
               /\ \A u \in seen'[w] : Claimed(task'[w].key, u) \in claims'
               /\ \A u \in task'[w].start..(value'[w] - 1) :
                    Claimed(task'[w].key, u) \in claims'
      <3>0. value'[w] = value[w] + 1
        BY <2>2
      <3>1. value'[w] - 1 = value[w] + 1 - 1
        BY <2>1, <3>0
      <3>2. task'[w] = task[w] /\ seen'[w] = seen[w]
        BY <2>2
      <3>3. task'[w].start <= value'[w]
        BY <2>2, <2>4
      <3>4. Alive(task[w])' => \A u \in seen'[w] : Claimed(task'[w].key, u) \in claims'
        BY <2>6, <2>7, <3>2
      <3>5. Alive(task[w])' => \A u \in task'[w].start..(value'[w] - 1) :
                                 Claimed(task'[w].key, u) \in claims'
        <4> SUFFICES ASSUME Alive(task[w])' PROVE \A u \in task[w].start..(value'[w] - 1) :
                                 Claimed(task[w].key, u) \in claims'
          BY <3>2
        <4> QED BY ONLY <2>5, <2>6, <3>1, Alive(task[w])'
      <3> QED BY <3>3, <3>4, <3>5
    <2> QED BY <2>2, <2>3, <2>8, MoveLedger
  <1>5. CASE AnswerPreview(w)
    BY <1>5, FinishLedger DEF AnswerPreview, catalog, log
  <1>6. CASE ClaimValue(w) /\ Fail(w)
    BY <1>6, FinishLedger DEF ClaimValue, Fail, catalog
  <1>7. ASSUME pc[w] \in Scanning, pc'[w] \in Holding, UNCHANGED <<task, value, seen>>,
               \A x \in Workers : x # w => Apart(x),
               UNCHANGED <<retired, issued>>, claims \subseteq claims',
               \/ pc[w] \in Holding
               \/ Current(w) \in claims' /\ Current(w) \notin claims
        PROVE  Ledger'
    <2>1. Current(w)' = Current(w) /\ (Alive(task[w])' <=> Alive(task[w]))
      BY <1>7 DEF Current, Alive
    <2>2. /\ task[w].start <= value[w]
          /\ Alive(task[w]) =>
               /\ \A u \in seen[w] : Claimed(task[w].key, u) \in claims'
               /\ \A u \in task[w].start..(value[w] - 1) : Claimed(task[w].key, u) \in claims'
      BY <1>7 DEF Ledger, SeenClaimed, ScannedClaimed
    <2> QED BY <1>7, <2>1, <2>2, MoveLedger
  <1>8. CASE ClaimValue(w) /\ ~Fail(w)
    BY <1>7, <1>8 DEF ClaimValue, CanClaim, Goto, Scanning, Candidate, Holding,
       catalog, log, Types, TypeOK
  <1>9. CASE Recheck(w)
    <2>1. CASE Fail(w) /\ UNCHANGED issued
      BY <1>9, <2>1, FinishLedger DEF Recheck, Fail, catalog
    <2>2. CASE Goto(w, "save") /\ UNCHANGED <<task, value, seen, issued, failed>>
      BY <1>7, <1>9, <2>2 DEF Recheck, Goto, Scanning, Candidate, Holding,
         catalog, log, Types, TypeOK
    <2>3. CASE Answer(w) /\ UNCHANGED failed
      BY <1>9, <2>3, AnswerLedger DEF Recheck, Holding, catalog
    <2> QED BY <1>9, <2>1, <2>2, <2>3 DEF Recheck
  <1>10. CASE SavePart(w)
    <2>1. CASE Fail(w)
      BY <1>10, <2>1, FinishLedger DEF SavePart, SaveNew, Fail, catalog
    <2>2. CASE ~Fail(w)
      BY <1>7, <1>10, <2>2 DEF SavePart, SaveNew, Goto, Scanning, Candidate, Holding,
         catalog, log, Types, TypeOK
    <2> QED BY <2>1, <2>2
  <1>11. CASE RecordHistory(w)
    BY <1>11, AnswerLedger DEF RecordHistory, Holding, catalog
  <1>12. CASE Crash(w)
    BY <1>12, FinishLedger DEF Crash, Fail, catalog
  <1>13. CASE ServeBlank(w)
    <2>1. CASE Finish(w)
      BY <1>13, <2>1, FinishLedger DEF ServeBlank, SaveNew, Fail, catalog, log
    <2>2. CASE ~Finish(w)
      <3>1. /\ pc'[w] = "blank_history" /\ \A v \in Workers : v # w => Apart(v)
            /\ UNCHANGED <<retired, issued, claims>>
        BY <1>13, <2>2 DEF ServeBlank, SaveNew, Fail, Goto, catalog, log, Types, TypeOK
      <3>2. pc'[w] \notin Scanning /\ pc'[w] \notin Holding
        BY <3>1 DEF Scanning, Candidate, Holding
      <3> QED BY <3>1, <3>2, MoveLedger
    <2> QED BY <2>1, <2>2
  <1>14. CASE RecordBlank(w)
    BY <1>14, FinishLedger DEF RecordBlank, catalog, log
  <1> QED BY <1>1, <1>2, <1>3, <1>4, <1>5, <1>6, <1>8, <1>9, <1>10, <1>11, <1>12, <1>13, <1>14 DEF Serve

LEMMA LoadLedger ==
  ASSUME Types, Ledger, NEW w \in Workers, LoadScheme(w)
  PROVE  Ledger'
  <1>1. /\ pc'[w] \in {"scan", "blank"}
        /\ \A v \in Workers : v # w => /\ pc'[v] = pc[v] /\ task'[v] = task[v]
                                       /\ value'[v] = value[v] /\ seen'[v] = seen[v]
        /\ UNCHANGED <<retired, issued, claims>>
    BY DEF LoadScheme, Goto, catalog, log, Types, TypeOK
  <1>2. pc'[w] \notin Scanning /\ pc'[w] \notin Holding
    BY <1>1 DEF Scanning, Candidate, Holding
  <1> QED BY <1>1, <1>2, MoveLedger

\* delete_scheme forgets the claims of its own series only.
LEMMA DeleteCountersLedger ==
  ASSUME Ledger, NEW id \in Schemes, DeleteCounters(id)
  PROVE  Ledger'
  <1>1. /\ UNCHANGED <<pc, task, value, seen, issued>>
        /\ retired' = retired \cup {id}
        /\ claims' = {c \in claims : c.key.scheme # id}
    BY DEF DeleteCounters, scan, log
  <1>2. \A t : Alive(t)' => Alive(t) /\ t.key.scheme # id
    BY <1>1 DEF Alive
  <1>3. \A k, v : Claimed(k, v) \in claims /\ k.scheme # id => Claimed(k, v) \in claims'
    BY <1>1 DEF Claimed
  <1>4. \A w \in Workers : Current(w)' = Current(w)
    BY <1>1 DEF Current
  <1>5. \A w \in Workers : Alive(task[w])' => Alive(task[w]) /\ task[w].key.scheme # id
    BY <1>1 DEF Alive
  <1>6. \A r \in issued : Alive(r.task)' => Alive(r.task) /\ r.task.key.scheme # id
    BY <1>1 DEF Alive
  <1>7. SeenClaimed'
    BY <1>1, <1>3, <1>5 DEF Ledger, SeenClaimed
  <1>8. ScannedClaimed'
    BY <1>1, <1>3, <1>5 DEF Ledger, ScannedClaimed
  <1>9. HeldClaimed'
    BY <1>1, <1>3, <1>5 DEF Ledger, HeldClaimed, Current
  <1>10. AnsweredClaimed'
    BY <1>1, <1>3, <1>6 DEF Ledger, AnsweredClaimed
  <1>11. HeldAlone'
    BY <1>1, <1>4, <1>5 DEF Ledger, HeldAlone, Claimed
  <1>12. AnsweredOnce'
    BY <1>1, <1>6 DEF Ledger, AnsweredOnce, Claimed
  <1> QED BY <1>7, <1>8, <1>9, <1>10, <1>11, <1>12 DEF Ledger

LEMMA NextLedger ==
  ASSUME Types, Ledger, [Next]_vars
  PROVE  Ledger'
  <1>1. CASE UNCHANGED vars
    BY <1>1, QuietLedger DEF vars, catalog, log
  <1>2. ASSUME NEW w \in Workers, LoadScheme(w) \/ Serve(w) \/ Crash(w)
        PROVE  Ledger'
    BY <1>2, LoadLedger, ServeLedger
  <1>3. ASSUME NEW id \in Schemes, DeleteCounters(id)
        PROVE  Ledger'
    BY <1>3, DeleteCountersLedger
  <1>4. ASSUME NEW id \in Schemes, CreateScheme(id) \/ EditScheme(id) \/ DeleteScheme(id)
        PROVE  Ledger'
    BY <1>4, QuietLedger DEF CreateScheme, EditScheme, DeleteScheme, log
  <1>5. CASE SaveScheme \/ ImportPart \/ DeletePart \/ NextPeriod
    BY <1>5, QuietLedger DEF SaveScheme, ImportPart, DeletePart, NextPeriod, catalog, log
  <1> QED BY <1>1, <1>2, <1>3, <1>4, <1>5 DEF Next, Administer

\* The invariant is inductive.
THEOREM LedgerCorrect == Spec => []IInv
  <1>1. Init => IInv
    BY InitTypes, InitLedger DEF IInv
  <1>2. IInv /\ [Next]_vars => IInv'
    BY NextTypes, NextLedger DEF IInv
  <1> QED BY <1>1, <1>2, PTL DEF Spec

LEMMA LedgerIssuedOnce == IInv => IssuedOnce
  <1> SUFFICES ASSUME Types, Ledger PROVE IssuedOnce
    BY DEF IInv
  <1>1. \A a, b \in issued :
          /\ Claimed(a.task.key, a.value) = Claimed(b.task.key, b.value)
          /\ a.task.key.scheme \notin retired
          => a = b
    BY DEF Ledger, AnsweredOnce, Alive
  <1>2. \A v, w \in Workers :
          /\ pc[v] \in Holding /\ pc[w] \in Holding
          /\ Current(v) = Current(w) /\ task[v].key.scheme \notin retired
          => v = w
    BY DEF Ledger, HeldAlone, Alive
  <1>3. Live(Held \cap Answered) = {}
    <2> SUFFICES ASSUME NEW c \in Held, c \in Answered, c.key.scheme \notin retired
                 PROVE  FALSE
      BY DEF Live
    <2>1. PICK w \in Workers : pc[w] \in Holding /\ c = Current(w)
      BY DEF Held
    <2>2. PICK r \in issued : c = Claimed(r.task.key, r.value)
      BY DEF Answered
    <2>3. Alive(task[w])
      BY <2>1 DEF Alive, Current, Claimed
    <2> QED BY <2>1, <2>2, <2>3 DEF Ledger, HeldAlone
  <1> QED BY <1>1, <1>2, <1>3 DEF IssuedOnce

\* No value of a series is answered twice or held by two requests, nor held
\* again once answered, until delete_scheme removes the series.
THEOREM NumbersUnique == Spec => []IssuedOnce
  BY LedgerCorrect, LedgerIssuedOnce, PTL

LEMMA LedgerGaps == IInv => GapsFilled
  BY DEF IInv, Ledger, ScannedClaimed, AnsweredClaimed, GapsFilled, Alive,
         Scanning, Candidate

\* Every value below an answered one, down to the start its request asked for,
\* is in use: the counter leaves no gap behind it.
THEOREM NoGaps == Spec => []GapsFilled
  BY LedgerCorrect, LedgerGaps, PTL
-----------------------------------------------------------------------------
(***************************************************************************)
(* Numbering implements NumberRegister: every step of a worker takes, ends *)
(* or leaves one value of the register, or is invisible to it.             *)
(***************************************************************************)

LEMMA HeldMembers ==
  \A c : c \in Held <=> \E w \in Workers : pc[w] \in Holding /\ c = Current(w)
  BY DEF Held

\* What the register sees is claimed, held values are not answered ones.
LEMMA RegisterClaims ==
  ASSUME Types, Ledger
  PROVE  /\ Live(Held) \subseteq claims /\ Live(Answered) \subseteq claims
         /\ Live(Held) \cap Live(Answered) = {}
  <1>1. Live(Held) \subseteq claims
    <2> SUFFICES ASSUME NEW c \in Held, c.key.scheme \notin retired PROVE c \in claims
      BY DEF Live
    <2>1. PICK w \in Workers : pc[w] \in Holding /\ c = Current(w)
      BY HeldMembers
    <2> QED BY <2>1 DEF Ledger, HeldClaimed, Alive, Current, Claimed
  <1>2. Live(Answered) \subseteq claims
    <2> SUFFICES ASSUME NEW c \in Answered, c.key.scheme \notin retired PROVE c \in claims
      BY DEF Live
    <2>1. PICK r \in issued : c = Claimed(r.task.key, r.value)
      BY DEF Answered
    <2>2. Alive(r.task)
      BY <2>1 DEF Alive, Claimed
    <2> QED BY <2>1, <2>2 DEF Ledger, AnsweredClaimed
  <1>3. Live(Held) \cap Live(Answered) = {}
    BY LedgerIssuedOnce DEF IInv, IssuedOnce, Live
  <1> QED BY <1>1, <1>2, <1>3

\* A step that changes no holder leaves the held values.
LEMMA SameHolders ==
  ASSUME \A v \in Workers : /\ pc'[v] \in Holding <=> pc[v] \in Holding
                            /\ pc[v] \in Holding => Current(v)' = Current(v)
  PROVE  Held' = Held
  BY DEF Held

\* A worker that ends its request lets go of its value, and nobody else does.
LEMMA FinishHeld ==
  ASSUME Types, Ledger, NEW w \in Workers, Finish(w), UNCHANGED retired
  PROVE  /\ pc[w] \notin Holding => Held' = Held
         /\ pc[w] \in Holding /\ Alive(task[w]) => Live(Held)' = Live(Held) \ {Current(w)}
         /\ pc[w] \in Holding /\ ~Alive(task[w]) => Live(Held)' = Live(Held)
  <1>1. /\ pc'[w] \notin Holding
        /\ \A v \in Workers : v # w => pc'[v] = pc[v] /\ Current(v)' = Current(v)
    BY DEF Finish, Types, TypeOK, Idle, Holding, Current
  <1>2. ASSUME pc[w] \notin Holding PROVE Held' = Held
    BY <1>1, <1>2, SameHolders
  <1>3. \A c : c \in Held' <=> \E v \in Workers : v # w /\ pc[v] \in Holding /\ c = Current(v)
    BY <1>1 DEF Held
  <1>4. ASSUME pc[w] \in Holding, Alive(task[w])
        PROVE  Live(Held)' = Live(Held) \ {Current(w)}
    <2>1. \A v \in Workers : v # w /\ pc[v] \in Holding => Current(v) # Current(w)
      BY <1>4 DEF Ledger, HeldAlone
    <2>2. \A c : c \in Held' <=> c \in Held /\ c # Current(w)
      BY <1>3, <2>1, HeldMembers
    <2> QED BY <2>2 DEF Live
  <1>5. ASSUME pc[w] \in Holding, ~Alive(task[w])
        PROVE  Live(Held)' = Live(Held)
    <2>1. Current(w).key.scheme \in retired
      BY <1>5 DEF Alive, Current, Claimed
    <2>2. \A c : c.key.scheme \notin retired => (c \in Held' <=> c \in Held)
      BY <1>3, <2>1, HeldMembers
    <2> QED BY <2>2 DEF Live
  <1> QED BY <1>2, <1>4, <1>5

RegisterStep == [Register!Next]_(Register!regVars)

\* The lost values of the register are the claims that are neither held nor
\* answered.
LEMMA LostMembers ==
  /\ \A c : c \in Live(Lost) <=> /\ c \in claims /\ c \notin Live(Held)
                                /\ c \notin Live(Answered) /\ c.key.scheme \notin retired
  /\ \A c : c \in Live(Lost)' <=> /\ c \in claims' /\ c \notin Live(Held)'
                                 /\ c \notin Live(Answered)' /\ c.key.scheme \notin retired'
  BY DEF Live, Lost

\* A step that changes nothing the register sees.
LEMMA QuietRegister ==
  ASSUME UNCHANGED <<claims, retired, issued>>, Live(Held)' = Live(Held)
  PROVE  RegisterStep
  <1>1. Live(Answered)' = Live(Answered)
    BY DEF Live, Answered
  <1>2. \A c : c \in Live(Lost)' <=> c \in Live(Lost)
    BY <1>1, LostMembers
  <1>3. Live(Lost)' = Live(Lost)
    BY <1>2 DEF Live
  <1> QED BY <1>1, <1>3 DEF RegisterStep, Register!regVars

\* A request that ends without an answer loses the value it held.
LEMMA LoseRegister ==
  ASSUME Types, Ledger, NEW w \in Workers, Finish(w), UNCHANGED <<claims, retired, issued>>
  PROVE  RegisterStep
  <1>1. CASE ~(pc[w] \in Holding /\ Alive(task[w]))
    <2>1. Live(Held)' = Live(Held)
      BY <1>1, FinishHeld DEF Live
    <2> QED BY <2>1, QuietRegister
  <1>2. CASE pc[w] \in Holding /\ Alive(task[w])
    <2> DEFINE c == Current(w)
    <2>1. c \in Claim
      BY <1>2, CurrentType DEF Candidate
    <2>2. c \in Live(Held)
      BY <1>2, HeldMembers DEF Live, Alive, Current, Claimed
    <2>3. Live(Held)' = Live(Held) \ {c}
      BY <1>2, FinishHeld
    <2>4. Live(Answered)' = Live(Answered)
      BY DEF Live, Answered
    <2>5. c \in claims /\ c \notin Live(Answered) /\ c.key.scheme \notin retired
      BY <2>2, RegisterClaims DEF Live
    <2> HIDE DEF c
    <2>6. \A d : d \in Live(Lost)' <=> d \in Live(Lost) \cup {c}
      BY <2>2, <2>3, <2>4, <2>5, LostMembers
    <2>7. Live(Lost)' = Live(Lost) \cup {c}
      BY <2>6 DEF Live
    <2>8. Register!Lose(c)
      BY <2>2, <2>3, <2>4, <2>7 DEF Register!Lose
    <2> QED BY <2>1, <2>8 DEF RegisterStep, Register!Next
  <1> QED BY <1>1, <1>2

\* A request that answers hands its value to the client.
LEMMA IssueRegister ==
  ASSUME Types, Ledger, NEW w \in Workers, Answer(w), pc[w] \in Holding,
         UNCHANGED <<claims, retired>>
  PROVE  RegisterStep
  <1> DEFINE c == Current(w)
  <1>1. Finish(w) /\ issued' = issued \cup {[task |-> task[w], value |-> value[w]]}
    BY DEF Answer
  <1>2. Answered' = Answered \cup {c}
    <2> DEFINE answer == [task |-> task[w], value |-> value[w]]
    <2>1. c = Claimed(answer.task.key, answer.value)
      BY DEF Current
    <2>2. issued' = issued \cup {answer}
      BY <1>1
    <2> HIDE DEF answer, c
    <2>3. \A d : d \in Answered <=> \E r \in issued : d = Claimed(r.task.key, r.value)
      BY DEF Answered
    <2>4. \A d : d \in Answered' <=> \E r \in issued' : d = Claimed(r.task.key, r.value)
      BY DEF Answered, Claimed
    <2>5. \A d : d \in Answered' <=> d \in Answered \/ d = c
      BY <2>1, <2>2, <2>3, <2>4
    <2>6. Answered' \subseteq Answered \cup {c} /\ Answered \cup {c} \subseteq Answered'
      BY <2>5
    <2> QED BY <2>6
  <1>3. CASE ~Alive(task[w])
    <2>1. Live(Held)' = Live(Held)
      BY <1>1, <1>3, FinishHeld
    <2>2. Live(Answered)' = Live(Answered)
      BY <1>2, <1>3 DEF Live, Alive, Current, Claimed
    <2>3. \A d : d \in Live(Lost)' <=> d \in Live(Lost)
      BY <2>1, <2>2, LostMembers
    <2>4. Live(Lost)' = Live(Lost)
      BY <2>3 DEF Live
    <2> QED BY <2>1, <2>2, <2>4 DEF RegisterStep, Register!regVars
  <1>4. CASE Alive(task[w])
    <2>1. c \in Claim
      BY CurrentType DEF Candidate
    <2>2. c \in Live(Held)
      BY <1>4, HeldMembers DEF Live, Alive, Current, Claimed
    <2>3. Live(Held)' = Live(Held) \ {c}
      BY <1>1, <1>4, FinishHeld
    <2>4. Live(Answered)' = Live(Answered) \cup {c}
      BY <1>2, <2>2 DEF Live
    <2> HIDE DEF c
    <2>5. \A d : d \in Live(Lost)' <=> d \in Live(Lost)
      BY <2>2, <2>3, <2>4, LostMembers
    <2>6. Live(Lost)' = Live(Lost)
      BY <2>5 DEF Live
    <2>7. Register!Issue(c)
      BY <2>2, <2>3, <2>4, <2>6 DEF Register!Issue
    <2> QED BY <2>1, <2>7 DEF RegisterStep, Register!Next
  <1> QED BY <1>3, <1>4

\* A new claim either has a holder or is lost at once.
LEMMA ClaimRegister ==
  ASSUME Types, Ledger, NEW c \in Claim, c \notin claims, claims' = claims \cup {c},
         UNCHANGED <<retired, issued>>,
         Held' = Held \/ Held' = Held \cup {c}
  PROVE  RegisterStep
  <1>1. Live(Answered)' = Live(Answered)
    BY DEF Live, Answered
  <1>2. c \notin Live(Held) /\ c \notin Live(Answered) /\ c \notin Live(Lost)
    BY RegisterClaims DEF Live, Lost
  <1>3. CASE c.key.scheme \in retired
    <2>1. Live(Held)' = Live(Held)
      BY <1>3 DEF Live
    <2>2. \A d : d \in Live(Lost)' <=> d \in Live(Lost)
      BY <1>1, <1>3, <2>1, LostMembers
    <2>3. Live(Lost)' = Live(Lost)
      BY <2>2 DEF Live
    <2> QED BY <1>1, <2>1, <2>3 DEF RegisterStep, Register!regVars
  <1>4. CASE c.key.scheme \notin retired /\ Held' = Held
    <2>1. Live(Held)' = Live(Held)
      BY <1>4 DEF Live
    <2>2. \A d : d \in Live(Lost)' <=> d \in Live(Lost) \cup {c}
      BY <1>1, <1>2, <1>4, <2>1, LostMembers
    <2>3. Live(Lost)' = Live(Lost) \cup {c}
      BY <2>2 DEF Live
    <2>4. Register!Discard(c)
      BY <1>1, <1>2, <1>4, <2>1, <2>3 DEF Register!Discard
    <2> QED BY <2>4 DEF RegisterStep, Register!Next
  <1>5. CASE c.key.scheme \notin retired /\ Held' = Held \cup {c}
    <2>1. Live(Held)' = Live(Held) \cup {c}
      BY <1>5 DEF Live
    <2>2. \A d : d \in Live(Lost)' <=> d \in Live(Lost)
      BY <1>1, <2>1, LostMembers
    <2>3. Live(Lost)' = Live(Lost)
      BY <2>2 DEF Live
    <2>4. Register!Hold(c)
      BY <1>1, <1>2, <1>5, <2>1, <2>3 DEF Register!Hold
    <2> QED BY <2>4 DEF RegisterStep, Register!Next
  <1> QED BY <1>3, <1>4, <1>5

LEMMA ServeRegister ==
  ASSUME Types, Ledger, NEW w \in Workers, Serve(w) \/ Crash(w)
  PROVE  RegisterStep
  <1> DEFINE Others == \A v \in Workers : v # w => pc'[v] = pc[v] /\ Current(v)' = Current(v)
  <1>1. ASSUME Finish(w), UNCHANGED <<claims, retired, issued>>
        PROVE  RegisterStep
    BY <1>1, LoseRegister
  <1>2. ASSUME Others, pc[w] \notin Holding, pc'[w] \notin Holding
        PROVE  Held' = Held
    BY <1>2, SameHolders
  <1>3. CASE ReadClaims(w) \/ CheckCandidate(w) \/ LoseRace(w)
    <2>1. /\ Others /\ pc[w] \notin Holding /\ pc'[w] \notin Holding
          /\ UNCHANGED <<claims, retired, issued>>
      <3>1. CASE ReadClaims(w)
        BY <3>1 DEF ReadClaims, Goto, catalog, log, Types, TypeOK, Holding, Current
      <3>2. CASE CheckCandidate(w)
        BY <3>2 DEF CheckCandidate, Goto, catalog, log, Types, TypeOK, Holding, Current
      <3>3. CASE LoseRace(w)
        BY <3>3 DEF LoseRace, Goto, catalog, log, Types, TypeOK, Holding, Current
      <3> QED BY <1>3, <3>1, <3>2, <3>3
    <2>2. Held' = Held
      BY <1>2, <2>1
    <2>3. Live(Held)' = Live(Held)
      BY <2>1, <2>2 DEF Live
    <2> QED BY <2>1, <2>3, QuietRegister
  <1>4. CASE MarkTaken(w)
    <2>1. /\ Others /\ pc[w] \notin Holding /\ pc'[w] \notin Holding
          /\ UNCHANGED <<retired, issued>> /\ claims' = claims \cup {Current(w)}
      BY <1>4 DEF MarkTaken, Goto, catalog, log, Types, TypeOK, Holding, Current
    <2>2. Held' = Held
      BY <1>2, <2>1
    <2>3. Current(w) \in Claim
      BY <1>4, CurrentType DEF MarkTaken, Candidate
    <2>4. CASE Current(w) \in claims
      <3>1. claims' = claims
        BY <2>1, <2>4
      <3>2. Live(Held)' = Live(Held)
        BY <2>1, <2>2 DEF Live
      <3> QED BY <2>1, <3>1, <3>2, QuietRegister
    <2> QED BY <2>1, <2>2, <2>3, <2>4, ClaimRegister
  <1>5. CASE Exhausted(w)
    BY <1>1, <1>5 DEF Exhausted, Fail, catalog
  <1>6. CASE AnswerPreview(w)
    BY <1>1, <1>6 DEF AnswerPreview, catalog, log
  <1>7. CASE ClaimValue(w)
    <2>1. /\ Current(w) \in Claim /\ Current(w) \notin claims
          /\ claims' = claims \cup {Current(w)} /\ pc[w] \notin Holding
          /\ UNCHANGED <<retired, issued>>
      BY <1>7, CurrentType DEF ClaimValue, CanClaim, Candidate, Holding, catalog
    <2>2. CASE Fail(w)
      <3>1. Held' = Held
        BY <2>1, <2>2, FinishHeld DEF Fail
      <3> QED BY <2>1, <3>1, ClaimRegister
    <2>3. CASE ~Fail(w)
      <3>1. /\ Others /\ pc'[w] \in Holding /\ Current(w)' = Current(w)
        BY <1>7, <2>3 DEF ClaimValue, Goto, Types, TypeOK, Holding, Current
      <3>2. \A c : c \in Held' <=> \E v \in Workers : pc'[v] \in Holding /\ c = Current(v)'
        BY DEF Held, Current
      <3>3. \A c : c \in Held' <=> c \in Held \/ c = Current(w)
        BY <2>1, <3>1, <3>2, HeldMembers
      <3>4. Held' \subseteq Held \cup {Current(w)} /\ Held \cup {Current(w)} \subseteq Held'
        BY <3>3
      <3>5. Held' = Held \cup {Current(w)}
        BY <3>4
      <3> QED BY <2>1, <3>5, ClaimRegister
    <2> QED BY <2>2, <2>3
  <1>8. ASSUME Others, pc[w] \in Holding, pc'[w] \in Holding, Current(w)' = Current(w),
               UNCHANGED <<claims, retired, issued>>
        PROVE  RegisterStep
    <2>1. Held' = Held
      BY <1>8, SameHolders
    <2>2. Live(Held)' = Live(Held)
      BY <1>8, <2>1 DEF Live
    <2> QED BY <1>8, <2>2, QuietRegister
  <1>9. CASE Recheck(w)
    <2>1. CASE Fail(w) /\ UNCHANGED issued
      BY <1>1, <1>9, <2>1 DEF Recheck, Fail, catalog
    <2>2. CASE Goto(w, "save") /\ UNCHANGED <<task, value, seen, issued, failed>>
      <3>1. /\ Others /\ pc[w] \in Holding /\ pc'[w] \in Holding /\ Current(w)' = Current(w)
            /\ UNCHANGED <<claims, retired, issued>>
        BY <1>9, <2>2 DEF Recheck, Goto, Holding, catalog, Types, TypeOK, Current
      <3> QED BY <1>8, <3>1
    <2>3. CASE Answer(w) /\ UNCHANGED failed
      BY <1>9, <2>3, IssueRegister DEF Recheck, Holding, catalog
    <2> QED BY <1>9, <2>1, <2>2, <2>3 DEF Recheck
  <1>10. CASE SavePart(w)
    <2>1. CASE Fail(w)
      BY <1>1, <1>10, <2>1 DEF SavePart, SaveNew, Fail, catalog
    <2>2. CASE ~Fail(w)
      <3>1. /\ Others /\ pc[w] \in Holding /\ pc'[w] \in Holding /\ Current(w)' = Current(w)
            /\ UNCHANGED <<claims, retired, issued>>
        BY <1>10, <2>2 DEF SavePart, SaveNew, Goto, Holding, catalog, Types, TypeOK, Current
      <3> QED BY <1>8, <3>1
    <2> QED BY <2>1, <2>2
  <1>11. CASE RecordHistory(w)
    BY <1>11, IssueRegister DEF RecordHistory, Holding, catalog
  <1>12. CASE Crash(w)
    BY <1>1, <1>12 DEF Crash, Fail, catalog
  <1>13. CASE ServeBlank(w) \/ RecordBlank(w)
    <2>1. CASE Finish(w)
      BY <1>1, <1>13, <2>1 DEF ServeBlank, RecordBlank, SaveNew, Fail, catalog, log
    <2>2. CASE ~Finish(w)
      <3>1. /\ Others /\ pc[w] \notin Holding /\ pc'[w] \notin Holding
            /\ UNCHANGED <<claims, retired, issued>>
        BY <1>13, <2>2 DEF ServeBlank, RecordBlank, SaveNew, Fail, Goto, Holding, catalog, log, Types, TypeOK, Current
      <3>2. Live(Held)' = Live(Held)
        BY <3>1, SameHolders DEF Live
      <3> QED BY <3>1, <3>2, QuietRegister
    <2> QED BY <2>1, <2>2
  <1> QED BY <1>3, <1>4, <1>5, <1>6, <1>7, <1>9, <1>10, <1>11, <1>12, <1>13 DEF Serve

\* delete_scheme retires a scheme of the register.
LEMMA DeleteCountersRegister ==
  ASSUME NEW id \in Schemes, DeleteCounters(id)
  PROVE  RegisterStep
  <1>1. /\ UNCHANGED <<pc, task, value, issued>>
        /\ retired' = retired \cup {id}
        /\ claims' = {c \in claims : c.key.scheme # id}
    BY DEF DeleteCounters, scan, log
  <1>2. Held' = Held /\ Answered' = Answered
    BY <1>1 DEF Held, Answered, Current
  <1> DEFINE Kept(S) == {c \in S : c.key.scheme # id}
  <1>3. Live(Held)' = Kept(Live(Held)) /\ Live(Answered)' = Kept(Live(Answered))
    BY <1>1, <1>2 DEF Live
  <1>4. \A c : c \in Live(Lost)' <=> c \in Live(Lost) /\ c.key.scheme # id
    BY <1>1, <1>3, LostMembers
  <1>5. Live(Lost)' = Kept(Live(Lost))
    BY <1>4 DEF Live
  <1>6. Register!Retire(id)
    BY <1>1, <1>3, <1>5 DEF Register!Retire
  <1> QED BY <1>6 DEF RegisterStep, Register!Next

LEMMA NextRegister ==
  ASSUME Types, Ledger, [Next]_vars
  PROVE  RegisterStep
  <1>1. ASSUME UNCHANGED <<pc, task, value, claims, retired, issued>>
        PROVE  RegisterStep
    <2>1. Live(Held)' = Live(Held)
      BY <1>1 DEF Live, Held, Current
    <2> QED BY <1>1, <2>1, QuietRegister
  <1>2. ASSUME NEW w \in Workers, LoadScheme(w)
        PROVE  RegisterStep
    <2>1. /\ \A v \in Workers : v # w => pc'[v] = pc[v] /\ Current(v)' = Current(v)
          /\ pc[w] \notin Holding /\ pc'[w] \notin Holding
          /\ UNCHANGED <<claims, retired, issued>>
      BY <1>2 DEF LoadScheme, Goto, catalog, log, Types, TypeOK, Idle, Holding, Current
    <2>2. Held' = Held
      BY <2>1, SameHolders
    <2>3. Live(Held)' = Live(Held)
      BY <2>1, <2>2 DEF Live
    <2> QED BY <2>1, <2>3, QuietRegister
  <1>3. ASSUME NEW w \in Workers, Serve(w) \/ Crash(w)
        PROVE  RegisterStep
    BY <1>3, ServeRegister
  <1>4. ASSUME NEW id \in Schemes, DeleteCounters(id)
        PROVE  RegisterStep
    BY <1>4, DeleteCountersRegister
  <1>5. ASSUME NEW id \in Schemes, CreateScheme(id) \/ EditScheme(id) \/ DeleteScheme(id)
        PROVE  RegisterStep
    BY <1>1, <1>5 DEF CreateScheme, EditScheme, DeleteScheme, scan, log
  <1>6. CASE SaveScheme \/ ImportPart \/ DeletePart \/ NextPeriod \/ UNCHANGED vars
    BY <1>1, <1>6 DEF SaveScheme, ImportPart, DeletePart, NextPeriod, vars, catalog, scan, log
  <1> QED BY <1>2, <1>3, <1>4, <1>5, <1>6 DEF Next, Administer

LEMMA InitRegister == Init => Register!Init
  BY DEF Init, Register!Init, Live, Held, Answered, Lost, Idle, Holding

\* The documents of numbering.py, with all their workers, crashes and
\* administrators, behave like the register of free, held, issued and lost
\* values: nothing comes back and nothing has two owners.
THEOREM ImplementsRegister == Spec => RegisterSpec
  <1>1. IInv /\ [Next]_vars => RegisterStep
    BY NextRegister DEF IInv
  <1> QED BY <1>1, InitRegister, LedgerCorrect, PTL
          DEF Spec, RegisterSpec, Register!Spec, RegisterStep
-----------------------------------------------------------------------------
(***************************************************************************)
(* The scan moves upward.                                                  *)
(***************************************************************************)

\* A worker has no place in its scan before it has read the claims.
FreshScan == \A w \in Workers : pc[w] \in {Idle, "scan", "blank"} => value[w] = 0

ScanStep ==
  \A w \in Workers :
    \/ pc[w] = Idle \/ pc'[w] = Idle \/ UNCHANGED <<pc[w], value[w]>>
    \/ value[w] < value'[w]
    \/ value[w] = value'[w] /\ Stage(pc[w]) < Stage(pc'[w])

LEMMA StageOrder ==
  /\ Stage("scan") = 0 /\ Stage("loop") = 1 /\ Stage("mark") = 2 /\ Stage("claim") = 2
  /\ Stage("recheck") = 3 /\ Stage("save") = 4 /\ Stage("history") = 5
  /\ Stage("blank") = 0 /\ Stage("blank_history") = 5
  BY DEF Stage

LEMMA ServeScan ==
  ASSUME Types, Ledger, FreshScan, NEW w \in Workers, LoadScheme(w) \/ Serve(w) \/ Crash(w)
  PROVE  FreshScan' /\ [ScanStep]_scan
  <1>0. MaxSeq \in Nat /\ MaxSeq > 0
    BY NumberingAssumption
  <1>1. ASSUME \A v \in Workers : v # w => pc'[v] = pc[v] /\ value'[v] = value[v],
               pc'[w] \in {Idle, "scan", "blank"} => value'[w] = 0,
               \/ pc[w] = Idle \/ pc'[w] = Idle \/ value[w] < value'[w]
               \/ value[w] = value'[w] /\ Stage(pc[w]) < Stage(pc'[w])
        PROVE  FreshScan' /\ [ScanStep]_scan
    BY <1>1 DEF FreshScan, ScanStep
  <1>2. ASSUME Finish(w)
        PROVE  FreshScan' /\ [ScanStep]_scan
    BY <1>1, <1>2 DEF Finish, Types, TypeOK
  <1> USE DEF Goto, Types, TypeOK, Idle
  <1>3. CASE LoadScheme(w)
    BY <1>1, <1>3 DEF LoadScheme, FreshScan
  <1>4. CASE ReadClaims(w)
    <2>1. task[w] \in Task
      BY <1>4 DEF ReadClaims
    <2>2. ScanStart(task[w]) \in Nat /\ ScanStart(task[w]) > 0
      BY <2>1 DEF ScanStart, Task
    <2> QED BY <1>1, <1>4, <2>2 DEF ReadClaims, FreshScan
  <1>5. CASE CheckCandidate(w)
    <2>1. PICK v \in value[w]..MaxSeq :
            /\ value' = [value EXCEPT ![w] = v]
            /\ pc[w] = "loop"
            /\ pc' \in {[pc EXCEPT ![w] = "mark"], [pc EXCEPT ![w] = "claim"]}
      BY <1>5 DEF CheckCandidate, LastValue
    <2>2. value'[w] >= value[w] /\ pc'[w] \in {"mark", "claim"}
      BY <1>0, <2>1
    <2> QED BY <1>0, <1>1, <2>1, <2>2, StageOrder
  <1>6. CASE MarkTaken(w) \/ LoseRace(w)
    BY <1>1, <1>6 DEF MarkTaken, LoseRace
  <1>7. CASE ClaimValue(w) /\ ~Fail(w)
    BY <1>1, <1>7, StageOrder DEF ClaimValue
  <1>8. CASE Recheck(w) /\ ~Finish(w)
    BY <1>1, <1>8, StageOrder DEF Recheck, Fail, Answer
  <1>9. CASE SavePart(w) /\ ~Fail(w)
    BY <1>1, <1>9, StageOrder DEF SavePart, SaveNew
  <1>10. CASE Exhausted(w) \/ AnswerPreview(w) \/ RecordHistory(w) \/ Crash(w)
              \/ Finish(w) \/ Fail(w)
    BY <1>2, <1>10 DEF Exhausted, AnswerPreview, RecordHistory, Crash, Fail, Answer
  <1>11. CASE ServeBlank(w) \/ RecordBlank(w)
    <2>1. CASE ~Finish(w)
      BY <1>1, <1>11, <2>1, StageOrder DEF ServeBlank, RecordBlank, SaveNew, Fail
    <2> QED BY <1>2, <2>1
  <1> QED BY <1>3, <1>4, <1>5, <1>6, <1>7, <1>8, <1>9, <1>10, <1>11 DEF Serve

LEMMA NextScan ==
  ASSUME Types, Ledger, FreshScan, [Next]_vars
  PROVE  FreshScan' /\ [ScanStep]_scan
  <1>1. ASSUME UNCHANGED scan PROVE FreshScan' /\ [ScanStep]_scan
    BY <1>1 DEF FreshScan, scan
  <1>2. ASSUME NEW id \in Schemes, CreateScheme(id) \/ EditScheme(id)
                 \/ DeleteCounters(id) \/ DeleteScheme(id)
        PROVE  UNCHANGED scan
    BY <1>2 DEF CreateScheme, EditScheme, DeleteCounters, DeleteScheme
  <1>3. CASE SaveScheme \/ ImportPart \/ DeletePart \/ NextPeriod \/ UNCHANGED vars
    BY <1>1, <1>3 DEF SaveScheme, ImportPart, DeletePart, NextPeriod, vars
  <1> QED BY <1>1, <1>2, <1>3, ServeScan DEF Next, Administer

\* No step of a request takes its scan back: it moves to a larger value, to a
\* later stage of the same one, or ends.
THEOREM ScanMovesOn == Spec => ScanAdvances
  <1>1. Init => FreshScan
    BY DEF Init, FreshScan
  <1>2. IInv /\ FreshScan /\ [Next]_vars => FreshScan' /\ [ScanStep]_scan
    BY NextScan DEF IInv
  <1> QED BY <1>1, <1>2, LedgerCorrect, PTL DEF Spec, ScanAdvances, ScanStep
-----------------------------------------------------------------------------
(***************************************************************************)
(* What is lost.                                                           *)
(***************************************************************************)

\* The values of living series that no allocation has or answered, and that
\* were not found in use.
Unaccounted == Live(Lost) \ skipped

\* A preview never comes to hold a value, so whoever ends while holding one
\* counts as failed.
LossBound ==
  /\ \A w \in Workers : pc[w] \in Holding => task[w].op # "preview"
  /\ IsFiniteSet(Unaccounted) /\ Cardinality(Unaccounted) <= failed

\* At most one value is lost by a step, and by one that fails.
LossStep ==
  \/ Unaccounted' \subseteq Unaccounted /\ failed' >= failed
  \/ failed' = failed + 1 /\ \E c : Unaccounted' \subseteq Unaccounted \cup {c}

LEMMA LossCounted ==
  ASSUME Types, Types', IsFiniteSet(Unaccounted), Cardinality(Unaccounted) <= failed, LossStep
  PROVE  IsFiniteSet(Unaccounted') /\ Cardinality(Unaccounted') <= failed'
  <1>1. failed \in Nat /\ failed' \in Nat
    BY DEF Types, TypeOK
  <1>2. Cardinality(Unaccounted) \in Nat
    BY FS_CardinalityType
  <1>3. CASE Unaccounted' \subseteq Unaccounted /\ failed' >= failed
    <2>1. IsFiniteSet(Unaccounted') /\ Cardinality(Unaccounted') <= Cardinality(Unaccounted)
      BY <1>3, FS_Subset
    <2>2. Cardinality(Unaccounted') \in Nat
      BY <2>1, FS_CardinalityType
    <2> QED BY <1>1, <1>2, <1>3, <2>1, <2>2
  <1>4. CASE failed' = failed + 1 /\ \E c : Unaccounted' \subseteq Unaccounted \cup {c}
    <2>1. PICK c : Unaccounted' \subseteq Unaccounted \cup {c}
      BY <1>4
    <2>2. /\ IsFiniteSet(Unaccounted \cup {c})
          /\ Cardinality(Unaccounted \cup {c}) <= Cardinality(Unaccounted) + 1
      BY <1>2, FS_AddElement
    <2>3. /\ IsFiniteSet(Unaccounted')
          /\ Cardinality(Unaccounted') <= Cardinality(Unaccounted \cup {c})
      BY <2>1, <2>2, FS_Subset
    <2>4. Cardinality(Unaccounted') \in Nat /\ Cardinality(Unaccounted \cup {c}) \in Nat
      BY <2>2, <2>3, FS_CardinalityType
    <2> QED BY <1>1, <1>2, <1>4, <2>2, <2>3, <2>4
  <1> QED BY <1>3, <1>4 DEF LossStep

LEMMA UnaccountedMembers ==
  /\ \A c : c \in Unaccounted <=> /\ c \in claims /\ c \notin Held /\ c \notin Answered
                                 /\ c.key.scheme \notin retired /\ c \notin skipped
  /\ \A c : c \in Unaccounted' <=> /\ c \in claims' /\ c \notin Held' /\ c \notin Answered'
                                  /\ c.key.scheme \notin retired' /\ c \notin skipped'
  BY DEF Unaccounted, Live, Lost

\* Nothing is lost where only what was found in use is claimed and nobody lets
\* go of a value.
LEMMA NothingLost ==
  ASSUME Types, retired \subseteq retired', issued \subseteq issued', skipped \subseteq skipped',
         claims' \subseteq claims \cup skipped' \cup Held', Held \subseteq Held' \cup Answered',
         failed' \in {failed, failed + 1}
  PROVE  LossStep
  <1>1. Answered \subseteq Answered'
    BY DEF Answered, Claimed
  <1>2. Unaccounted' \subseteq Unaccounted
    BY <1>1, UnaccountedMembers
  <1>3. failed' >= failed
    BY DEF Types, TypeOK
  <1> QED BY <1>2, <1>3 DEF LossStep

\* A worker that ends lets go of its own value at most.
LEMMA OneLetGo ==
  ASSUME Types, NEW w \in Workers, Finish(w)
  PROVE  /\ pc'[w] \notin Holding
         /\ \A v \in Workers : v # w => pc'[v] = pc[v] /\ task'[v] = task[v]
         /\ pc[w] \notin Holding => Held' = Held
         /\ Held \subseteq Held' \cup {Current(w)}
  <1>1. /\ pc'[w] \notin Holding
        /\ \A v \in Workers : v # w => /\ pc'[v] = pc[v] /\ task'[v] = task[v]
                                       /\ Current(v)' = Current(v)
    BY DEF Finish, Types, TypeOK, Idle, Holding, Current
  <1>2. pc[w] \notin Holding => Held' = Held
    BY <1>1, SameHolders
  <1>3. \A c : c \in Held' <=> \E v \in Workers : pc'[v] \in Holding /\ c = Current(v)'
    BY DEF Held
  <1>4. \A c : c \in Held => c \in Held' \/ c = Current(w)
    BY <1>1, <1>3, HeldMembers
  <1> QED BY <1>1, <1>2, <1>4

\* A failure loses the value its worker holds, if any.
LEMMA FailLoses ==
  ASSUME Types, LossBound, NEW w \in Workers, Fail(w),
         UNCHANGED <<claims, retired, issued, skipped>>
  PROVE  LossStep
  <1>1. Finish(w) /\ failed' \in {failed, failed + 1}
    BY DEF Fail
  <1>2. CASE pc[w] \notin Holding
    BY <1>1, <1>2, OneLetGo, NothingLost
  <1>3. CASE pc[w] \in Holding
    <2>1. failed' = failed + 1
      BY <1>3 DEF Fail, LossBound
    <2>2. Answered' = Answered
      BY DEF Answered, Claimed
    <2>3. Held \subseteq Held' \cup {Current(w)}
      BY <1>1, OneLetGo
    <2>4. Unaccounted' \subseteq Unaccounted \cup {Current(w)}
      BY <2>2, <2>3, UnaccountedMembers
    <2> QED BY <2>1, <2>4 DEF LossStep
  <1> QED BY <1>2, <1>3

\* An answer is given for the value held.
LEMMA AnswerLoses ==
  ASSUME Types, NEW w \in Workers, Answer(w), UNCHANGED <<claims, retired, skipped, failed>>
  PROVE  LossStep
  <1>1. Finish(w) /\ issued' = issued \cup {[task |-> task[w], value |-> value[w]]}
    BY DEF Answer
  <1>2. Held \subseteq Held' \cup {Current(w)}
    BY <1>1, OneLetGo
  <1>3. Current(w) \in Answered'
    <2> DEFINE answer == [task |-> task[w], value |-> value[w]]
    <2>1. answer \in issued' /\ Current(w) = Claimed(answer.task.key, answer.value)
      BY <1>1 DEF Current
    <2>2. \A d : d \in Answered' <=> \E r \in issued' : d = Claimed(r.task.key, r.value)
      BY DEF Answered, Claimed
    <2> HIDE DEF answer
    <2> QED BY <2>1, <2>2
  <1> QED BY <1>1, <1>2, <1>3, NothingLost

LEMMA ServeLoses ==
  ASSUME Types, LossBound, NEW w \in Workers, Serve(w) \/ Crash(w)
  PROVE  LossStep
  <1> DEFINE Others == \A v \in Workers : v # w => pc'[v] = pc[v] /\ Current(v)' = Current(v)
  <1>1. CASE ReadClaims(w) \/ CheckCandidate(w) \/ LoseRace(w)
    <2>1. /\ Others /\ pc[w] \notin Holding /\ pc'[w] \notin Holding
          /\ UNCHANGED <<claims, retired, issued, skipped, failed>>
      <3>1. CASE ReadClaims(w)
        BY <3>1 DEF ReadClaims, Goto, catalog, log, Types, TypeOK, Holding, Current
      <3>2. CASE CheckCandidate(w)
        BY <3>2 DEF CheckCandidate, Goto, catalog, log, Types, TypeOK, Holding, Current
      <3>3. CASE LoseRace(w)
        BY <3>3 DEF LoseRace, Goto, catalog, log, Types, TypeOK, Holding, Current
      <3> QED BY <1>1, <3>1, <3>2, <3>3
    <2>2. Held' = Held
      BY <2>1, SameHolders
    <2> QED BY <2>1, <2>2, NothingLost
  <1>2. CASE MarkTaken(w)
    <2>1. /\ Others /\ pc[w] \notin Holding /\ pc'[w] \notin Holding
          /\ UNCHANGED <<retired, issued, failed>> /\ claims' = claims \cup {Current(w)}
          /\ skipped' = IF Current(w) \notin claims THEN skipped \cup {Current(w)} ELSE skipped
      BY <1>2 DEF MarkTaken, CanClaim, Goto, catalog, log, Types, TypeOK, Holding, Current
    <2>2. Held' = Held
      BY <2>1, SameHolders
    <2>3. claims' \subseteq claims \cup skipped' /\ skipped \subseteq skipped'
      BY <2>1
    <2> QED BY <2>1, <2>2, <2>3, NothingLost
  <1>3. CASE Exhausted(w) \/ Crash(w)
    BY <1>3, FailLoses DEF Exhausted, Crash, catalog
  <1>4. CASE AnswerPreview(w)
    <2>1. Finish(w) /\ pc[w] \notin Holding /\ UNCHANGED <<claims, retired, issued, skipped, failed>>
      BY <1>4 DEF AnswerPreview, catalog, log, Holding
    <2>2. Held' = Held
      BY <2>1, OneLetGo
    <2> QED BY <2>1, <2>2, NothingLost
  <1>5. CASE ClaimValue(w)
    <2>1. /\ claims' = claims \cup {Current(w)} /\ pc[w] \notin Holding
          /\ UNCHANGED <<retired, issued, skipped>>
      BY <1>5 DEF ClaimValue, Holding, catalog
    <2>2. CASE Fail(w)
      <3>1. failed' = failed + 1
        BY <1>5, <2>2 DEF ClaimValue, Fail
      <3>2. Held' = Held
        BY <2>1, <2>2, OneLetGo DEF Fail
      <3>3. Answered' = Answered
        BY <2>1 DEF Answered, Claimed
      <3>4. Unaccounted' \subseteq Unaccounted \cup {Current(w)}
        BY <2>1, <3>2, <3>3, UnaccountedMembers
      <3> QED BY <3>1, <3>4 DEF LossStep
    <2>3. CASE ~Fail(w)
      <3>1. Others /\ pc'[w] \in Holding /\ Current(w)' = Current(w) /\ UNCHANGED failed
        BY <1>5, <2>3 DEF ClaimValue, Goto, Types, TypeOK, Holding, Current
      <3>2. \A c : c \in Held' <=> \E v \in Workers : pc'[v] \in Holding /\ c = Current(v)'
        BY DEF Held
      <3>3. Held \subseteq Held' /\ Current(w) \in Held'
        BY <2>1, <3>1, <3>2, HeldMembers
      <3>4. claims' \subseteq claims \cup Held'
        BY <2>1, <3>3
      <3> QED BY <2>1, <3>1, <3>3, <3>4, NothingLost
    <2> QED BY <2>2, <2>3
  <1>6. ASSUME Others, pc[w] \in Holding, pc'[w] \in Holding, Current(w)' = Current(w),
               UNCHANGED <<claims, retired, issued, skipped, failed>>
        PROVE  LossStep
    <2>1. Held' = Held
      BY <1>6, SameHolders
    <2> QED BY <1>6, <2>1, NothingLost
  <1>7. CASE Recheck(w)
    <2>1. UNCHANGED <<claims, retired, skipped>> /\ pc[w] = "recheck"
      BY <1>7 DEF Recheck, catalog
    <2>2. CASE Fail(w) /\ UNCHANGED issued
      BY <2>1, <2>2, FailLoses
    <2>3. CASE Goto(w, "save") /\ UNCHANGED <<task, value, seen, issued, failed>>
      <3>1. Others /\ pc[w] \in Holding /\ pc'[w] \in Holding /\ Current(w)' = Current(w)
        BY <2>1, <2>3 DEF Goto, Holding, Types, TypeOK, Current
      <3> QED BY <1>6, <2>1, <2>3, <3>1
    <2>4. CASE Answer(w) /\ UNCHANGED failed
      BY <2>1, <2>4, AnswerLoses
    <2> QED BY <1>7, <2>2, <2>3, <2>4 DEF Recheck
  <1>8. CASE SavePart(w)
    <2>1. CASE Fail(w)
      BY <1>8, <2>1, FailLoses DEF SavePart, SaveNew, catalog
    <2>2. CASE ~Fail(w)
      <3>1. /\ Others /\ pc[w] \in Holding /\ pc'[w] \in Holding /\ Current(w)' = Current(w)
            /\ UNCHANGED <<claims, retired, issued, skipped, failed>>
        BY <1>8, <2>2 DEF SavePart, SaveNew, Goto, Holding, catalog, Types, TypeOK, Current
      <3> QED BY <1>6, <3>1
    <2> QED BY <2>1, <2>2
  <1>9. CASE RecordHistory(w)
    BY <1>9, AnswerLoses DEF RecordHistory, catalog
  <1>10. CASE ServeBlank(w) \/ RecordBlank(w)
    <2>1. CASE Fail(w)
      BY <1>10, <2>1, FailLoses DEF ServeBlank, RecordBlank, catalog, log
    <2>2. CASE ~Fail(w)
      <3>1. /\ Others /\ pc[w] \notin Holding /\ pc'[w] \notin Holding
            /\ UNCHANGED <<claims, retired, issued, skipped, failed>>
        BY <1>10, <2>2 DEF ServeBlank, RecordBlank, SaveNew, Finish, Goto, Holding, Idle, catalog, log,
           Types, TypeOK, Current
      <3>2. Held' = Held
        BY <3>1, SameHolders
      <3> QED BY <3>1, <3>2, NothingLost
    <2> QED BY <2>1, <2>2
  <1> QED BY <1>1, <1>2, <1>3, <1>4, <1>5, <1>7, <1>8, <1>9, <1>10 DEF Serve

LEMMA NextLoses ==
  ASSUME Types, LossBound, [Next]_vars
  PROVE  LossStep
  <1>1. ASSUME UNCHANGED <<pc, task, value, issued, skipped, failed>>,
               claims' \subseteq claims, retired \subseteq retired'
        PROVE  LossStep
    <2>1. Held' = Held
      BY <1>1 DEF Held, Current
    <2> QED BY <1>1, <2>1, NothingLost
  <1>2. ASSUME NEW w \in Workers, LoadScheme(w)
        PROVE  LossStep
    <2>1. /\ \A v \in Workers : v # w => pc'[v] = pc[v] /\ Current(v)' = Current(v)
          /\ pc[w] \notin Holding /\ pc'[w] \notin Holding
          /\ UNCHANGED <<claims, retired, issued, skipped, failed>>
      BY <1>2 DEF LoadScheme, Goto, catalog, log, Types, TypeOK, Idle, Holding, Current
    <2>2. Held' = Held
      BY <2>1, SameHolders
    <2> QED BY <2>1, <2>2, NothingLost
  <1>3. ASSUME NEW w \in Workers, Serve(w) \/ Crash(w)
        PROVE  LossStep
    BY <1>3, ServeLoses
  <1>4. ASSUME NEW id \in Schemes, CreateScheme(id) \/ EditScheme(id)
                 \/ DeleteCounters(id) \/ DeleteScheme(id)
        PROVE  LossStep
    BY <1>1, <1>4 DEF CreateScheme, EditScheme, DeleteCounters, DeleteScheme, scan, log
  <1>5. CASE SaveScheme \/ ImportPart \/ DeletePart \/ NextPeriod \/ UNCHANGED vars
    BY <1>1, <1>5 DEF SaveScheme, ImportPart, DeletePart, NextPeriod, vars, catalog, scan, log
  <1> QED BY <1>2, <1>3, <1>4, <1>5 DEF Next, Administer

\* Whoever holds a value has claimed it, and a preview claims nothing.
LEMMA NextHolds ==
  ASSUME Types, LossBound, [Next]_vars, NEW w \in Workers, pc'[w] \in Holding
  PROVE  task'[w].op # "preview"
  <1>1. ASSUME UNCHANGED <<pc, task>> PROVE task'[w].op # "preview"
    BY <1>1 DEF LossBound
  <1>2. ASSUME NEW v \in Workers, LoadScheme(v) \/ Serve(v) \/ Crash(v)
        PROVE  task'[w].op # "preview"
    <2>1. CASE v # w
      <3>1. pc'[w] = pc[w] /\ task'[w] = task[w]
        BY <1>2, <2>1 DEF LoadScheme, Serve, Crash, ReadClaims, Exhausted, CheckCandidate, MarkTaken,
           AnswerPreview, LoseRace, ClaimValue, Recheck, SavePart, SaveNew, RecordHistory,
           ServeBlank, RecordBlank, Goto, Fail, Answer, Finish, Types, TypeOK
      <3> QED BY <3>1 DEF LossBound
    <2>2. CASE v = w
      <3>1. ~Finish(w)
        BY OneLetGo
      <3>2. ClaimValue(w) \/ Recheck(w) \/ SavePart(w)
        BY <1>2, <2>2, <3>1 DEF LoadScheme, Serve, Crash, ReadClaims, Exhausted, CheckCandidate, MarkTaken,
           AnswerPreview, LoseRace, RecordHistory, ServeBlank, RecordBlank, SaveNew, Goto, Fail, Answer,
           Types, TypeOK, Holding, Idle
      <3>3. task' = task /\ (pc[w] \in Holding \/ task[w].op # "preview")
        BY <3>1, <3>2 DEF ClaimValue, Recheck, SavePart, SaveNew, Fail, Answer, Holding
      <3> QED BY <3>3 DEF LossBound
    <2> QED BY <2>1, <2>2
  <1>3. ASSUME NEW id \in Schemes, CreateScheme(id) \/ EditScheme(id)
                 \/ DeleteCounters(id) \/ DeleteScheme(id)
        PROVE  UNCHANGED <<pc, task>>
    BY <1>3 DEF CreateScheme, EditScheme, DeleteCounters, DeleteScheme, scan
  <1>4. CASE SaveScheme \/ ImportPart \/ DeletePart \/ NextPeriod \/ UNCHANGED vars
    BY <1>1, <1>4 DEF SaveScheme, ImportPart, DeletePart, NextPeriod, vars, scan
  <1> QED BY <1>1, <1>2, <1>3, <1>4 DEF Next, Administer

\* However many requests race, crash or are refused, the values a living series
\* has lost are no more than its failed allocations and those found in use.
THEOREM LossesCounted == Spec => []FailureLosesAtMostOne
  <1>1. Init => LossBound
    <2> SUFFICES ASSUME Init PROVE LossBound
      OBVIOUS
    <2>1. \A w \in Workers : pc[w] \notin Holding
      BY DEF Init, Idle, Holding
    <2>2. Unaccounted = {}
      BY DEF Init, Unaccounted, Live, Lost
    <2>3. IsFiniteSet(Unaccounted) /\ Cardinality(Unaccounted) = 0 /\ failed = 0
      BY <2>2, FS_EmptySet DEF Init
    <2> QED BY <2>1, <2>3 DEF LossBound
  <1>2. Types /\ LossBound /\ [Next]_vars => LossBound'
    <2> SUFFICES ASSUME Types, LossBound, [Next]_vars PROVE LossBound'
      OBVIOUS
    <2>1. Types' /\ LossStep
      BY NextTypes, NextLoses
    <2>2. IsFiniteSet(Unaccounted') /\ Cardinality(Unaccounted') <= failed'
      BY <2>1, LossCounted DEF LossBound
    <2>3. \A w \in Workers : pc'[w] \in Holding => task'[w].op # "preview"
      BY NextHolds
    <2> QED BY <2>2, <2>3 DEF LossBound
  <1>3. Spec => []Types
    BY InitTypes, NextTypes, PTL DEF Spec
  <1>4. LossBound => FailureLosesAtMostOne
    BY DEF LossBound, FailureLosesAtMostOne, Unaccounted
  <1> QED BY <1>1, <1>2, <1>3, <1>4, PTL DEF Spec

=============================================================================
