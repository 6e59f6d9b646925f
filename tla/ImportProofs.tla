------------------------------ MODULE ImportProofs -----------------------------
(***************************************************************************)
(* Proofs about ImportPack: whatever imports run side by side, fail or     *)
(* die, the journal of each bounds what it has done; and each keeps, on    *)
(* the pairs nobody else writes, to its plan and to the rights of its user *)
(* until it has committed it or rolled it back.                            *)
(***************************************************************************)
EXTENDS ImportPack, TLAPS, FiniteSetTheorems, WellFoundedInduction

(* The inductive invariant.                                                *)

RunFields == {"pc", "ask", "read", "plan", "todo", "created", "changed", "placed", "backup",
              "stuck", "told"}

Loading   == {"idle", "load_parts", "load_boms", "load_files"}
Early     == Loading \cup {"start"}
Saving    == {"save", "touch"}
Linking   == {"delete_links", "insert_links", "boms_written"}
Filing    == {"move_aside", "place", "files_written", "unplace"}
Recording == {"stat", "record", "discover", "thumbnails"}
Undoing   == {"undo", "undo_links"}

Saved(r) == ToSave(r.ask.pack, r.plan, r.read)

\* What an import was asked, has read and plans, and the lists it keeps.
RunTyped(r) ==
  /\ DOMAIN r = RunFields
  /\ r.pc # "idle" => r.ask \in Requests
  /\ r.pc \notin {"idle", "load_parts"} => r.read \in Store
  /\ r.pc \notin Loading => DOMAIN r.plan = r.ask.pack.parts
  /\ r.backup \in [Pairs -> Bytes \cup {Absent}]
  /\ r.created \subseteq Pairs /\ r.changed \subseteq Pairs
  /\ r.stuck \subseteq r.created
  /\ r.created = {} \/ r.created \subseteq {p \in Pairs : r.read.parts[p] = Absent}
  /\ r.placed = {} \/ r.placed \subseteq FileTargets(r.plan)
  /\ r.pc \in Early => r.created = {} /\ r.changed = {} /\ r.placed = {}

\* What is left of each loop.
LoopOK(r) ==
  /\ r.pc = "save" => r.todo # {} /\ r.todo \cup r.changed = Saved(r)
  /\ r.pc = "touch" => r.changed = Saved(r)
  /\ r.pc \in Saving => r.created \subseteq r.changed
  /\ r.pc = "delete_links" => r.todo # {} /\ r.todo \subseteq BomParents(r.plan)
  /\ r.pc = "insert_links" => r.todo \subseteq {l \in r.ask.pack.links : l[1] \in BomParents(r.plan)}
  /\ r.pc \in {"move_aside", "place"} => r.todo # {} /\ r.todo \subseteq FileTargets(r.plan)
  /\ r.pc = "unplace" => r.placed # {}
  /\ r.pc \in {"record", "discover"} => r.todo # {} /\ r.todo \subseteq Pairs
  /\ r.pc \in Undoing => r.todo # {} /\ r.todo \subseteq r.created

\* The journal is opened before the first write, is at the stage of the import,
\* and from the second stage on names every part the plan saves or creates.
JournalOK(r, entry) ==
  /\ entry = Absent \/ entry \in Entries
  /\ r.pc \in Early => entry = Absent
  /\ entry = Absent => r.pc \in Early \cup {"done"}
  /\ r.pc \in Saving => entry.stage = "parts" /\ entry.status = "started"
  /\ r.pc \in Linking => entry.stage = "boms"
  /\ r.pc \in Filing => entry.stage = "files"
  /\ r.pc \in Recording => entry.stage = "file_metadata"
  /\ r.pc \in Undoing => entry.status # "started"
  /\ entry # Absent /\ entry.stage # "parts" => Saved(r) \cup r.created \subseteq entry.touched

\* The part of JournalBounds that is about one effect.
Bounded(e, entry) ==
  /\ entry # Absent
  /\ e[1] = "bom" => entry.stage # "parts" \/ entry.status # "started"
  /\ e[1] = "file" => entry.stage \in {"files", "file_metadata", "done"}
  /\ e[1] = "record" => entry.stage \in {"file_metadata", "done"}
  /\ e[1] # "record" /\ entry.stage # "parts" => e[2] \in entry.touched

\* While parts are saved, what was done is among the changed parts.
Covered(e, r, entry) == Bounded(e, entry) /\ (r.pc \in Saving => e[2] \in r.changed)

ImportOK(r, entry, effs) ==
  /\ RunTyped(r) /\ LoopOK(r) /\ JournalOK(r, entry)
  /\ \A e \in effs : Covered(e, r, entry)

StoresOK ==
  /\ parts \in [Pairs -> Doc \cup {Absent}]
  /\ links \subseteq Link
  /\ records \in [Pairs -> Hashes]
  /\ disk \in [Pairs -> Bytes \cup {Absent}]

IInv ==
  /\ StoresOK /\ mishaps \in 0 .. MaxMishaps
  /\ DOMAIN run = Imports /\ DOMAIN effects = Imports
  /\ journal \in [Imports -> Entries \cup {Absent}]
  /\ \A i \in Imports : ImportOK(run[i], journal[i], effects[i])

-------------------------------------------------------------------------------
(* First and last of the pairs in a list.                                  *)

LEMMA Less ==
  ASSUME NEW x \in Nat, NEW y \in Nat, y < x
  PROVE  <<y, x>> \in OpToRel(<, Nat)
  <1>1. <<y, x>> \in {ss \in Nat \X Nat : ss[1] < ss[2]}
    OBVIOUS
  <1> QED BY <1>1, Zenon DEF OpToRel

LEMMA HasFirst ==
  ASSUME NEW T, T \subseteq Nat, T # {}
  PROVE  \E x \in T : \A y \in T : x <= y
  <1>1. PICK x \in T : \A y \in T : <<y, x>> \notin OpToRel(<, Nat)
    BY WFMin, NatLessThanWellFounded
  <1>2. ASSUME NEW y \in T PROVE x <= y
    <2>1. x \in Nat /\ y \in Nat
      OBVIOUS
    <2>2. ~(y < x)
      BY <1>1, <2>1, Less, Zenon
    <2> QED BY <2>1, <2>2
  <1> QED BY <1>2

LEMMA FirstIn ==
  ASSUME NEW T, T \subseteq Pairs, T # {}
  PROVE  Min(T) \in T
  BY HasFirst, PlanAssumption DEF Min

LEMMA LastIn ==
  ASSUME NEW T, T \subseteq Pairs, T # {}
  PROVE  Max(T) \in T
  <1>0. PICK m \in Nat : \A x \in T : x <= m
    BY ImportAssumption, PlanAssumption
  <1> DEFINE D == {m - x : x \in T}
  <1>1. T \subseteq Nat
    BY PlanAssumption
  <1>2. D \subseteq Nat /\ D # {}
    <2>1. \A x \in T : m - x \in Nat
      BY <1>0, <1>1
    <2> QED BY <2>1
  <1>3. PICK d \in D : \A y \in D : d <= y
    BY <1>2, HasFirst
  <1>4. PICK x \in T : d = m - x
    OBVIOUS
  <1>5. ASSUME NEW y \in T PROVE x >= y
    <2>1. m - x <= m - y
      BY <1>3, <1>4
    <2> QED BY <2>1, <1>1
  <1> QED BY <1>5 DEF Max

-------------------------------------------------------------------------------
(* The plan: what it writes is saved, and lies in the pack.                *)

LEMMA PlanSaves ==
  ASSUME NEW r, RunTyped(r), r.pc \notin Loading
  PROVE  /\ Saved(r) \subseteq r.ask.pack.parts /\ r.ask.pack.parts \subseteq Pairs
         /\ BomParents(r.plan) \subseteq Saved(r) /\ FileTargets(r.plan) \subseteq Saved(r)
         /\ r.ask.pack \in Pack /\ r.read \in Store
  <1>1. r.ask \in Requests /\ r.read \in Store /\ DOMAIN r.plan = r.ask.pack.parts
    BY DEF RunTyped, Loading
  <1>2. r.ask.pack \in Pack
    BY <1>1, ImportAssumption
  <1>3. r.ask.pack.parts \subseteq Pairs
    BY <1>2 DEF Pack
  <1>4. \A p \in DOMAIN r.plan : r.plan[p].bom \in Writes \/ r.plan[p].file \in Writes => Changed(r.plan[p])
    BY DEF Changed
  <1>5. BomParents(r.plan) \subseteq Saved(r) /\ FileTargets(r.plan) \subseteq Saved(r)
    BY <1>4 DEF BomParents, FileTargets, Saved, ToSave
  <1>6. Saved(r) \subseteq DOMAIN r.plan
    BY DEF Saved, ToSave
  <1> QED BY <1>1, <1>2, <1>3, <1>5, <1>6

LEMMA FieldsTyped ==
  ASSUME NEW r, RunTyped(r), r.pc \notin Loading, NEW p \in DOMAIN r.plan
  PROVE  /\ Fields(r.ask.pack, r.plan, r.read, p).data \in Values \cup {Blank}
         /\ Fields(r.ask.pack, r.plan, r.read, p).approved \in BOOLEAN
  <1>1. r.ask.pack \in Pack /\ r.read \in Store /\ p \in Pairs
    BY PlanSaves DEF RunTyped
  <1>2. r.read.parts[p] \in Doc \cup {Absent}
    BY <1>1 DEF Store
  <1>3. Before(r.read, p) \in Values \cup {Blank}
    BY <1>2 DEF Before, Doc
  <1>4. ApprovalBefore(r.read, p) \in BOOLEAN
    BY DEF ApprovalBefore
  <1>5. r.ask.pack.data \in Values \cup {Blank}
    BY <1>1 DEF Pack
  <1>6. (TRUE \in r.ask.pack.approval) \in BOOLEAN
    OBVIOUS
  <1> QED BY <1>3, <1>4, <1>5, <1>6 DEF Fields

-------------------------------------------------------------------------------
(* What a write to one store shows in the history.                         *)

PartKinds == {"create", "delete", "data", "approval"}

LEMMA NoEffect ==
  ASSUME UNCHANGED stores, NEW k \in Kinds, NEW p \in Pairs
  PROVE  ~Effect(k, p)
  <1>1. LinksOf(p)' = LinksOf(p)
    BY DEF LinksOf, stores
  <1> QED BY <1>1 DEF Effect, stores, Kinds

LEMMA EffectOnPart ==
  ASSUME NEW h, \A q \in Pairs \ {h} : parts'[q] = parts[q], UNCHANGED <<links, records, disk>>,
         NEW k \in Kinds, NEW p \in Pairs, Effect(k, p)
  PROVE  k \in PartKinds /\ p = h
  <1>1. LinksOf(p)' = LinksOf(p)
    BY DEF LinksOf
  <1> QED BY <1>1 DEF Effect, Kinds, PartKinds

LEMMA EffectOnLinks ==
  ASSUME NEW h, \A l : l.parent # h => (l \in links' <=> l \in links),
         UNCHANGED <<parts, records, disk>>, NEW k \in Kinds, NEW p \in Pairs, Effect(k, p)
  PROVE  k = "bom" /\ p = h
  <1>1. p # h => LinksOf(p)' = LinksOf(p)
    BY DEF LinksOf
  <1> QED BY <1>1 DEF Effect, Kinds

LEMMA EffectOnDisk ==
  ASSUME NEW h, \A q \in Pairs \ {h} : disk'[q] = disk[q], UNCHANGED <<parts, links, records>>,
         NEW k \in Kinds, NEW p \in Pairs, Effect(k, p)
  PROVE  k = "file" /\ p = h
  <1>1. LinksOf(p)' = LinksOf(p)
    BY DEF LinksOf
  <1> QED BY <1>1 DEF Effect, Kinds

LEMMA EffectOnRecords ==
  ASSUME UNCHANGED <<parts, links, disk>>, NEW k \in Kinds, NEW p \in Pairs, Effect(k, p)
  PROVE  k = "record"
  <1>1. LinksOf(p)' = LinksOf(p)
    BY DEF LinksOf
  <1> QED BY <1>1 DEF Effect, Kinds

-------------------------------------------------------------------------------
(* What has to be shown of a step of one import.                           *)

LEMMA Becomes ==
  ASSUME IInv, NEW i \in Imports, NEW STATE q, NEW STATE n, Move(i, q), Note(i, n), StoresOK',
         mishaps' \in 0 .. MaxMishaps, Observed(i),
         RunTyped(q), LoopOK(q), JournalOK(q, n),
         \A e \in effects[i] : Covered(e, q, n),
         \A k \in Kinds, p \in Pairs : Effect(k, p) => Covered(<<k, p>>, q, n)
  PROVE  IInv'
  <1>1. DOMAIN run' = Imports /\ DOMAIN effects' = Imports /\ run'[i] = q
    BY DEF IInv, Move, Observed
  <1>0. journal'[i] = n /\ journal' \in [Imports -> Entries \cup {Absent}]
    BY DEF IInv, Note, JournalOK
  <1>2. ASSUME NEW e \in effects'[i] PROVE Covered(e, q, n)
    <2> DEFINE new == {x \in Kinds \X Pairs : Effect(x[1], x[2])}
    <2>1. effects'[i] = effects[i] \cup new
      BY DEF Observed, IInv
    <2>2. ASSUME e \in new PROVE Covered(e, q, n)
      <3>1. e[1] \in Kinds /\ e[2] \in Pairs /\ e = <<e[1], e[2]>> /\ Effect(e[1], e[2])
        BY <2>2
      <3> QED BY <3>1
    <2> QED BY <2>1, <2>2
  <1>3. ImportOK(q, n, effects'[i])
    BY <1>2 DEF ImportOK
  <1>4. ASSUME NEW j \in Imports, j # i PROVE ImportOK(run'[j], journal'[j], effects'[j])
    <2>1. run'[j] = run[j] /\ journal'[j] = journal[j] /\ effects'[j] = effects[j]
      BY <1>4 DEF IInv, Move, Note, Observed
    <2> QED BY <2>1 DEF IInv
  <1> QED BY <1>0, <1>1, <1>3, <1>4 DEF IInv, StoresOK

LEMMA Moves ==
  ASSUME IInv, NEW i \in Imports, NEW STATE q, Move(i, q), UNCHANGED journal, StoresOK',
         mishaps' \in 0 .. MaxMishaps, Observed(i),
         RunTyped(q), LoopOK(q), JournalOK(q, journal[i]),
         \A e \in effects[i] : Covered(e, q, journal[i]),
         \A k \in Kinds, p \in Pairs : Effect(k, p) => Covered(<<k, p>>, q, journal[i])
  PROVE  IInv'
  <1>1. Note(i, journal[i])
    BY DEF IInv, Note
  <1> QED BY <1>1, Becomes

LEMMA QuietMoves ==
  ASSUME IInv, NEW i \in Imports, NEW STATE q, Move(i, q), UNCHANGED <<stores, journal>>,
         mishaps' \in 0 .. MaxMishaps, Observed(i),
         RunTyped(q), LoopOK(q), JournalOK(q, journal[i]),
         q.pc \in Saving => run[i].pc \in Saving /\ run[i].changed \subseteq q.changed
  PROVE  IInv'
  <1>1. StoresOK'
    BY DEF IInv, StoresOK, stores
  <1>2. \A e \in effects[i] : Covered(e, q, journal[i])
    BY DEF IInv, ImportOK, Covered
  <1>3. \A k \in Kinds, p \in Pairs : ~Effect(k, p)
    BY NoEffect
  <1> QED BY <1>1, <1>2, <1>3, Moves

LEMMA QuietNotes ==
  ASSUME IInv, NEW i \in Imports, NEW STATE q, NEW STATE n, Move(i, q), Note(i, n), UNCHANGED <<stores, mishaps>>,
         Observed(i), RunTyped(q), LoopOK(q), JournalOK(q, n),
         \A e \in effects[i] : Covered(e, q, n)
  PROVE  IInv'
  <1>1. StoresOK' /\ mishaps' \in 0 .. MaxMishaps
    BY DEF IInv, StoresOK, stores
  <1>2. \A k \in Kinds, p \in Pairs : ~Effect(k, p)
    BY NoEffect DEF stores
  <1> QED BY <1>1, <1>2, Becomes

-------------------------------------------------------------------------------
(* The request: nothing is written, no journal is opened.                  *)

LEMMA SubmitOK ==
  ASSUME IInv, NEW i \in Imports, Arrive(i)
  PROVE  IInv'
  <1>1. PICK r \in Requests : Move(i, [NewRun EXCEPT !.ask = r, !.pc = "load_parts"])
    BY DEF Arrive, Submit
  <1> DEFINE q == [NewRun EXCEPT !.ask = r, !.pc = "load_parts"]
  <1>2. UNCHANGED <<stores, journal, mishaps, effects>> /\ run[i].pc = "idle"
    BY DEF Arrive, Submit, At
  <1>3. journal[i] = Absent /\ effects[i] = {}
    <2>1. journal[i] = Absent
      BY <1>2 DEF IInv, ImportOK, JournalOK, Early, Loading
    <2> QED BY <2>1 DEF IInv, ImportOK, Covered, Bounded
  <1>4. RunTyped(q) /\ LoopOK(q) /\ JournalOK(q, journal[i])
    BY <1>3 DEF NewRun, RunTyped, LoopOK, JournalOK, RunFields, Early, Loading, Saving, Linking, Filing,
                Recording, Undoing
  <1>5. ImportOK(q, journal[i], effects[i])
    BY <1>3, <1>4 DEF ImportOK
  <1>6. run' = [run EXCEPT ![i] = q]
    BY <1>1 DEF Move
  <1> HIDE DEF q
  <1> QED BY <1>2, <1>5, <1>6 DEF IInv, StoresOK, stores

LEMMA LoadPartsOK ==
  ASSUME IInv, NEW i \in Imports, LoadParts(i), Observed(i), UNCHANGED mishaps
  PROVE  IInv'
  <1> DEFINE q == [run[i] EXCEPT !.pc = "load_boms",
        !.read = [parts |-> parts, links |-> {}, records |-> records, disk |-> disk]]
  <1>1. Move(i, q) /\ UNCHANGED <<stores, journal>> /\ run[i].pc = "load_parts" /\ mishaps' \in 0 .. MaxMishaps
    BY DEF LoadParts, At, IInv
  <1>2. q.read \in Store
    BY DEF Store, IInv, StoresOK, ImportOK, RunTyped, RunFields
  <1>3. RunTyped(q)
    BY <1>1, <1>2 DEF IInv, ImportOK, RunTyped, RunFields, Early, Loading
  <1>4. LoopOK(q) /\ JournalOK(q, journal[i]) /\ q.pc \notin Saving
    BY <1>1 DEF IInv, ImportOK, RunTyped, RunFields, LoopOK, JournalOK, Early, Loading, Saving, Linking,
                Filing, Recording, Undoing
  <1> QED BY <1>1, <1>3, <1>4, QuietMoves

LEMMA LoadBomsOK ==
  ASSUME IInv, NEW i \in Imports, LoadBoms(i), Observed(i), UNCHANGED mishaps
  PROVE  IInv'
  <1> DEFINE seen == {l \in links : l.parent \in {x[1] : x \in run[i].ask.pack.links}}
             q == [run[i] EXCEPT !.pc = "load_files", !.read.links = seen]
  <1>1. Move(i, q) /\ UNCHANGED <<stores, journal>> /\ run[i].pc = "load_boms" /\ mishaps' \in 0 .. MaxMishaps
    BY DEF LoadBoms, At, IInv
  <1>2. q.read \in Store
    <2>1. seen \subseteq Link
      BY DEF IInv, StoresOK
    <2>2. run[i].read \in Store /\ DOMAIN run[i] = RunFields
      BY <1>1 DEF IInv, ImportOK, RunTyped
    <2> HIDE DEF seen
    <2> QED BY <2>1, <2>2 DEF Store, RunFields
  <1> HIDE DEF seen
  <1>3. RunTyped(q)
    BY <1>1, <1>2 DEF IInv, ImportOK, RunTyped, RunFields, Early, Loading
  <1>4. LoopOK(q) /\ JournalOK(q, journal[i]) /\ q.pc \notin Saving
    BY <1>1 DEF IInv, ImportOK, RunTyped, RunFields, LoopOK, JournalOK, Early, Loading, Saving, Linking,
                Filing, Recording, Undoing
  <1> QED BY <1>1, <1>3, <1>4, QuietMoves

LEMMA LoadFilesOK ==
  ASSUME IInv, NEW i \in Imports, LoadFiles(i), Observed(i), UNCHANGED mishaps
  PROVE  IInv'
  <1> DEFINE r     == run[i].ask
             seen  == [run[i].read EXCEPT !.records = records, !.disk = disk]
             draft == Plan(r.pack, r.policy, seen)
             made  == [run[i] EXCEPT !.read = seen, !.plan = draft]
             q     == IF Refused(r, draft, seen) THEN [made EXCEPT !.pc = "done", !.told = "refused"]
                      ELSE [made EXCEPT !.pc = "start"]
  <1>1. /\ Move(i, q) /\ UNCHANGED <<stores, journal>> /\ run[i].pc = "load_files"
        /\ mishaps' \in 0 .. MaxMishaps
    BY DEF LoadFiles, At, IInv
  <1>2. seen \in Store
    <2>1. run[i].read \in Store
      BY <1>1 DEF IInv, ImportOK, RunTyped
    <2> QED BY <2>1 DEF Store, IInv, StoresOK
  <1>3. DOMAIN draft = r.pack.parts
    BY DEF Plan
  <1>4. RunTyped(run[i]) /\ journal[i] = Absent
    BY <1>1 DEF IInv, ImportOK, JournalOK, Early, Loading
  <1> HIDE DEF seen, draft
  <1>5. /\ DOMAIN q = RunFields /\ q.pc \in {"start", "done"} /\ q.read = seen /\ q.plan = draft
        /\ q.ask = r /\ q.created = run[i].created /\ q.changed = run[i].changed
        /\ q.placed = run[i].placed /\ q.backup = run[i].backup /\ q.stuck = run[i].stuck
    BY <1>4 DEF RunTyped, RunFields
  <1> HIDE DEF q
  <1>6. RunTyped(q)
    BY <1>1, <1>2, <1>3, <1>4, <1>5 DEF RunTyped, Early, Loading
  <1>7. LoopOK(q) /\ JournalOK(q, journal[i]) /\ q.pc \notin Saving
    BY <1>4, <1>5 DEF LoopOK, JournalOK, Early, Loading, Saving, Linking, Filing, Recording, Undoing
  <1> QED BY <1>1, <1>6, <1>7, QuietMoves

-------------------------------------------------------------------------------
(* Parts.                                                                  *)

LEMMA JournalStartOK ==
  ASSUME IInv, NEW i \in Imports, JournalStart(i), Observed(i), UNCHANGED mishaps
  PROVE  IInv'
  <1> DEFINE r == run[i]
             s == Saved(r)
             q == [r EXCEPT !.todo = s, !.pc = IF s = {} THEN "touch" ELSE "save"]
             nth == Cardinality({j \in Imports : journal[j] # Absent})
             n == [status |-> "started", stage |-> "parts", touched |-> {}, followup |-> {}, nth |-> nth]
  <1>1. Move(i, q) /\ Note(i, n) /\ UNCHANGED <<stores, mishaps>> /\ r.pc = "start"
    BY DEF JournalStart, At, Saved
  <1>2. RunTyped(r) /\ journal[i] = Absent /\ effects[i] = {}
    <2>1. RunTyped(r) /\ journal[i] = Absent
      BY <1>1 DEF IInv, ImportOK, JournalOK, Early
    <2> QED BY <2>1 DEF IInv, ImportOK, Covered, Bounded
  <1>3. n \in Entries
    <2>1. nth \in Nat
      BY FS_Subset, FS_CardinalityType, ImportAssumption
    <2> QED BY <2>1 DEF Entries, Stages
  <1>4. n # Absent
    BY <1>3, ImportAssumption
  <1> HIDE DEF nth
  <1>5. n.stage = "parts" /\ n.status = "started"
    OBVIOUS
  <1> HIDE DEF n
  <1>6. /\ DOMAIN q = RunFields /\ q.todo = s /\ q.pc = (IF s = {} THEN "touch" ELSE "save")
        /\ q.read = r.read /\ q.plan = r.plan /\ q.ask = r.ask /\ q.created = r.created
        /\ q.changed = r.changed /\ q.placed = r.placed /\ q.backup = r.backup /\ q.stuck = r.stuck
    BY <1>2 DEF RunTyped, RunFields
  <1>7. s = Saved(q)
    BY <1>6 DEF Saved
  <1> HIDE DEF q, s
  <1>8. RunTyped(q)
    BY <1>1, <1>2, <1>6 DEF RunTyped, Early, Loading
  <1>9. LoopOK(q)
    BY <1>1, <1>2, <1>6, <1>7 DEF LoopOK, RunTyped, Saving, Undoing, Early
  <1>10. JournalOK(q, n)
    BY <1>3, <1>4, <1>5, <1>6 DEF JournalOK, Early, Loading, Saving, Linking, Filing, Recording, Undoing
  <1> QED BY <1>1, <1>2, <1>8, <1>9, <1>10, QuietNotes

\* The first pair of a loop is a pair of the loop.
LEMMA HeadIn ==
  ASSUME IInv, NEW i \in Imports, run[i].todo # {}, run[i].todo \subseteq Pairs
  PROVE  Head1(i) \in run[i].todo /\ Head1(i) \in Pairs
  BY FirstIn DEF Head1

LEMMA SaveLoop ==
  ASSUME IInv, NEW i \in Imports, At(i, "save")
  PROVE  /\ RunTyped(run[i]) /\ DOMAIN run[i] = RunFields
         /\ run[i].todo \cup run[i].changed = Saved(run[i]) /\ run[i].created \subseteq run[i].changed
         /\ Head1(i) \in run[i].todo /\ Head1(i) \in Pairs /\ Head1(i) \in DOMAIN run[i].plan
         /\ Saved(run[i]) \subseteq Pairs /\ run[i].read \in Store
         /\ journal[i] \in Entries /\ journal[i] # Absent /\ journal[i].stage = "parts" /\ journal[i].status = "started"
         /\ \A e \in effects[i] : Bounded(e, journal[i]) /\ e[2] \in run[i].changed
  <1> DEFINE r == run[i]
  <1>1. r.pc = "save" /\ ImportOK(r, journal[i], effects[i])
    BY DEF At, IInv
  <1>2. /\ RunTyped(r) /\ r.todo # {} /\ r.todo \cup r.changed = Saved(r)
        /\ r.created \subseteq r.changed
    BY <1>1 DEF ImportOK, LoopOK, Saving
  <1>3. Saved(r) \subseteq Pairs /\ Saved(r) \subseteq DOMAIN r.plan /\ r.read \in Store
    BY <1>1, <1>2, PlanSaves DEF Loading, RunTyped
  <1>4. Head1(i) \in r.todo /\ Head1(i) \in Pairs
    BY <1>2, <1>3, HeadIn
  <1>5. /\ journal[i] # Absent /\ journal[i] \in Entries
        /\ journal[i].stage = "parts" /\ journal[i].status = "started"
    BY <1>1 DEF ImportOK, JournalOK, Early, Loading, Saving
  <1>6. \A e \in effects[i] : Bounded(e, journal[i]) /\ e[2] \in r.changed
    BY <1>1 DEF ImportOK, Covered, Saving
  <1> QED BY <1>2, <1>3, <1>4, <1>5, <1>6 DEF RunTyped

\* A part that was saved, created before or not.
LEMMA PartSaved ==
  ASSUME IInv, NEW i \in Imports, At(i, "save"), UNCHANGED <<links, records, disk, journal, mishaps>>,
         Observed(i), parts' \in [Pairs -> Doc \cup {Absent}],
         \A p \in Pairs \ {Head1(i)} : parts'[p] = parts[p],
         NEW STATE more, more \subseteq {Head1(i)}, more = {} \/ run[i].read.parts[Head1(i)] = Absent,
         Move(i, [After(i, "save", "touch") EXCEPT !.created = @ \cup more, !.changed = @ \cup {Head1(i)}])
  PROVE  IInv'
  <1> DEFINE r == run[i]
             h == Head1(i)
             rest == r.todo \ {h}
             q == [After(i, "save", "touch") EXCEPT !.created = @ \cup more, !.changed = @ \cup {h}]
  <1>1. /\ RunTyped(r) /\ DOMAIN r = RunFields /\ r.todo \cup r.changed = Saved(r)
        /\ r.created \subseteq r.changed /\ h \in r.todo /\ h \in Pairs
        /\ Saved(r) \subseteq Pairs /\ r.read \in Store /\ r.pc = "save"
    BY SaveLoop DEF At
  <1>2. /\ journal[i] \in Entries /\ journal[i] # Absent /\ journal[i].stage = "parts"
        /\ journal[i].status = "started" /\ \A e \in effects[i] : Bounded(e, journal[i]) /\ e[2] \in r.changed
    BY SaveLoop
  <1>3. /\ DOMAIN q = RunFields /\ q.todo = rest /\ q.pc = (IF rest = {} THEN "touch" ELSE "save")
        /\ q.read = r.read /\ q.plan = r.plan /\ q.ask = r.ask /\ q.created = r.created \cup more
        /\ q.changed = r.changed \cup {h} /\ q.placed = r.placed /\ q.backup = r.backup /\ q.stuck = r.stuck
    BY <1>1 DEF After, RunFields
  <1>4. Move(i, q) /\ StoresOK' /\ mishaps' \in 0 .. MaxMishaps
    BY DEF IInv, StoresOK
  <1>5. \A k \in Kinds, p \in Pairs : Effect(k, p) => k \in PartKinds /\ p = h
    BY EffectOnPart
  <1>6. more \subseteq {h} /\ (more = {} \/ r.read.parts[h] = Absent)
    OBVIOUS
  <1> HIDE DEF q, h
  <1>7. Saved(q) = Saved(r)
    BY <1>3 DEF Saved
  <1>8. RunTyped(q)
    BY <1>1, <1>3, <1>6 DEF RunTyped, Early, Loading
  <1>9. LoopOK(q)
    BY <1>1, <1>3, <1>6, <1>7 DEF LoopOK, Undoing
  <1>10. JournalOK(q, journal[i])
    BY <1>2, <1>3 DEF JournalOK, Early, Loading, Saving, Linking, Filing, Recording, Undoing
  <1>11. \A e \in effects[i] : Covered(e, q, journal[i])
    BY <1>2, <1>3 DEF Covered
  <1>12. \A k \in Kinds, p \in Pairs : Effect(k, p) => Covered(<<k, p>>, q, journal[i])
    BY <1>2, <1>3, <1>5 DEF Covered, Bounded, PartKinds
  <1> QED BY <1>4, <1>8, <1>9, <1>10, <1>11, <1>12, Moves

LEMMA CreatePartOK ==
  ASSUME IInv, NEW i \in Imports, CreatePart(i), Observed(i), UNCHANGED mishaps
  PROVE  IInv'
  <1> DEFINE r   == run[i]
             h   == Head1(i)
             new == Fields(r.ask.pack, r.plan, r.read, h)
             doc == [id |-> i, data |-> new.data, approved |-> new.approved]
             q   == [r EXCEPT !.created = @ \cup {h}, !.pc = "failed"]
  <1>1. At(i, "save") /\ r.read.parts[h] = Absent /\ UNCHANGED <<links, records, disk, journal>>
    BY DEF CreatePart
  <1>2. /\ RunTyped(r) /\ DOMAIN r = RunFields /\ h \in Pairs /\ h \in DOMAIN r.plan /\ r.read \in Store
        /\ journal[i] \in Entries /\ journal[i] # Absent /\ journal[i].stage = "parts"
    BY <1>1, SaveLoop
  <1>3. CASE parts[h] = Absent
    <2>1. parts' = [parts EXCEPT ![h] = doc]
      BY <1>3 DEF CreatePart
    <2>2. doc \in Doc
      <3>1. new.data \in Values \cup {Blank} /\ new.approved \in BOOLEAN
        BY <1>1, <1>2, FieldsTyped DEF At, Loading
      <3> HIDE DEF new
      <3> QED BY <3>1 DEF Doc
    <2> HIDE DEF doc
    <2>3. parts' \in [Pairs -> Doc \cup {Absent}] /\ \A p \in Pairs \ {h} : parts'[p] = parts[p]
      BY <1>2, <2>1, <2>2 DEF IInv, StoresOK
    <2>4. Move(i, [After(i, "save", "touch") EXCEPT !.created = @ \cup {h}, !.changed = @ \cup {h}])
      BY <1>3 DEF CreatePart
    <2> QED BY <1>1, <2>3, <2>4, PartSaved
  <1>4. CASE parts[h] # Absent
    <2>1. Move(i, q) /\ UNCHANGED <<stores, journal>> /\ mishaps' \in 0 .. MaxMishaps
      BY <1>1, <1>4 DEF CreatePart, stores, IInv
    <2>2. /\ DOMAIN q = RunFields /\ q.pc = "failed" /\ q.created = r.created \cup {h}
          /\ q.read = r.read /\ q.plan = r.plan /\ q.ask = r.ask /\ q.changed = r.changed
          /\ q.placed = r.placed /\ q.backup = r.backup /\ q.stuck = r.stuck
      BY <1>2 DEF RunFields
    <2> HIDE DEF q, h
    <2>3. RunTyped(q)
      BY <1>1, <1>2, <2>2 DEF RunTyped, Early, Loading, At
    <2>4. LoopOK(q) /\ JournalOK(q, journal[i]) /\ q.pc \notin Saving
      BY <1>2, <2>2 DEF LoopOK, JournalOK, Early, Loading, Saving, Linking, Filing, Recording, Undoing
    <2> QED BY <2>1, <2>3, <2>4, QuietMoves
  <1> QED BY <1>3, <1>4

LEMMA UpdatePartOK ==
  ASSUME IInv, NEW i \in Imports, UpdatePart(i), Observed(i), UNCHANGED mishaps
  PROVE  IInv'
  <1> DEFINE r   == run[i]
             h   == Head1(i)
             new == Fields(r.ask.pack, r.plan, r.read, h)
  <1>1. /\ At(i, "save") /\ UNCHANGED <<links, records, disk, journal>> /\ Overwrite(i, h)
        /\ Move(i, [After(i, "save", "touch") EXCEPT !.changed = @ \cup {h}])
    BY DEF UpdatePart
  <1>2. RunTyped(r) /\ DOMAIN r = RunFields /\ h \in Pairs /\ h \in DOMAIN r.plan /\ r.pc = "save"
    BY <1>1, SaveLoop DEF At
  <1>3. new.data \in Values \cup {Blank} /\ new.approved \in BOOLEAN
    BY <1>2, FieldsTyped DEF Loading
  <1>4. parts' \in [Pairs -> Doc \cup {Absent}] /\ \A p \in Pairs \ {h} : parts'[p] = parts[p]
    <2> HIDE DEF new
    <2>1. parts \in [Pairs -> Doc \cup {Absent}]
      BY DEF IInv, StoresOK
    <2>2. \/ parts' = parts
          \/ /\ parts[h] # Absent
             /\ parts' = [parts EXCEPT ![h] = [@ EXCEPT !.data = new.data, !.approved = new.approved]]
      BY <1>1 DEF Overwrite, new
    <2>3. parts[h] # Absent => [parts[h] EXCEPT !.data = new.data, !.approved = new.approved] \in Doc
      BY <1>2, <1>3, <2>1 DEF Doc
    <2> QED BY <1>2, <2>1, <2>2, <2>3
  <1> DEFINE more == {}
  <1>5. more \subseteq {h} /\ more = {}
    OBVIOUS
  <1>6. Move(i, [After(i, "save", "touch") EXCEPT !.created = @ \cup more, !.changed = @ \cup {h}])
    <2>1. [After(i, "save", "touch") EXCEPT !.changed = @ \cup {h}]
            = [After(i, "save", "touch") EXCEPT !.created = @ \cup more, !.changed = @ \cup {h}]
      BY <1>2 DEF After, RunFields
    <2> QED BY <1>1, <2>1
  <1> HIDE DEF more
  <1> QED BY <1>1, <1>4, <1>5, <1>6, PartSaved

\* What is known of an import once its journal is open.
LEMMA Opened ==
  ASSUME IInv, NEW i \in Imports, run[i].pc \notin Early \cup {"done"}
  PROVE  /\ RunTyped(run[i]) /\ DOMAIN run[i] = RunFields /\ LoopOK(run[i])
         /\ JournalOK(run[i], journal[i]) /\ journal[i] \in Entries /\ journal[i] # Absent
         /\ run[i].ask.pack \in Pack /\ run[i].read \in Store
         /\ Saved(run[i]) \subseteq Pairs
         /\ BomParents(run[i].plan) \subseteq Saved(run[i]) /\ FileTargets(run[i].plan) \subseteq Saved(run[i])
         /\ \A e \in effects[i] : Bounded(e, journal[i])
  <1>1. ImportOK(run[i], journal[i], effects[i])
    BY DEF IInv
  <1>2. RunTyped(run[i]) /\ LoopOK(run[i]) /\ JournalOK(run[i], journal[i])
    BY <1>1 DEF ImportOK
  <1>3. journal[i] \in Entries /\ journal[i] # Absent
    BY <1>2 DEF JournalOK
  <1>4. \A e \in effects[i] : Bounded(e, journal[i])
    BY <1>1 DEF ImportOK, Covered
  <1>5. run[i].pc \notin Loading
    BY DEF Early
  <1> QED BY <1>2, <1>3, <1>4, <1>5, PlanSaves DEF RunTyped

\* A run that differs from r in its place and in the rest of its loop only.
Onward(q, r) ==
  /\ DOMAIN q = RunFields /\ q.ask = r.ask /\ q.read = r.read /\ q.plan = r.plan
  /\ q.created = r.created /\ q.changed = r.changed /\ q.placed = r.placed
  /\ q.backup = r.backup /\ q.stuck = r.stuck

LEMMA OnwardTyped ==
  ASSUME NEW q, NEW r, RunTyped(r), Onward(q, r), r.pc \notin Early, q.pc \notin Early
  PROVE  RunTyped(q) /\ Saved(q) = Saved(r)
  BY DEF RunTyped, Onward, Saved, Early, Loading

LEMMA OnwardAfter ==
  ASSUME NEW i, DOMAIN run[i] = RunFields, NEW here, NEW next
  PROVE  LET q == After(i, here, next)
             rest == run[i].todo \ {Head1(i)}
         IN Onward(q, run[i]) /\ q.todo = rest /\ q.pc = (IF rest = {} THEN next ELSE here)
  BY DEF After, Onward, RunFields

\* A stage that writes without touching the journal.
LEMMA Writes1 ==
  ASSUME IInv, NEW i \in Imports, run[i].pc \notin Early \cup {"done"} \cup Saving, NEW STATE q, Move(i, q),
         UNCHANGED <<journal, mishaps>>, Observed(i), StoresOK',
         RunTyped(q), LoopOK(q), q.pc \notin Early \cup Saving,
         JournalOK(q, journal[i]),
         \A k \in Kinds, p \in Pairs : Effect(k, p) => Bounded(<<k, p>>, journal[i])
  PROVE  IInv'
  <1>1. \A e \in effects[i] : Covered(e, q, journal[i])
    BY Opened DEF Covered
  <1>2. \A k \in Kinds, p \in Pairs : Effect(k, p) => Covered(<<k, p>>, q, journal[i])
    BY DEF Covered
  <1>3. mishaps' \in 0 .. MaxMishaps
    BY DEF IInv
  <1> QED BY <1>1, <1>2, <1>3, Moves

-------------------------------------------------------------------------------
(* BOMs.                                                                   *)

LEMMA JournalBomsOK ==
  ASSUME IInv, NEW i \in Imports, JournalBoms(i), Observed(i), UNCHANGED mishaps
  PROVE  IInv'
  <1> DEFINE r == run[i]
             s == BomParents(r.plan)
             q == [r EXCEPT !.todo = s, !.pc = IF s = {} THEN "boms_written" ELSE "delete_links"]
             n == [journal[i] EXCEPT !.stage = "boms", !.touched = r.changed]
  <1>1. Move(i, q) /\ Note(i, n) /\ UNCHANGED <<stores, mishaps>> /\ r.pc = "touch"
    BY DEF JournalBoms, At
  <1>2. /\ RunTyped(r) /\ DOMAIN r = RunFields /\ LoopOK(r) /\ JournalOK(r, journal[i])
        /\ journal[i] \in Entries
    BY <1>1, Opened DEF Early, Loading
  <1>3. r.changed = Saved(r) /\ r.created \subseteq r.changed /\ r.changed \subseteq Pairs
    BY <1>1, <1>2 DEF LoopOK, RunTyped, Saving
  <1>4. \A e \in effects[i] : Bounded(e, journal[i]) /\ e[2] \in r.changed
    BY <1>1 DEF IInv, ImportOK, Covered, Saving
  <1>5. journal[i].stage = "parts" /\ journal[i].status = "started"
    BY <1>1, <1>2 DEF JournalOK, Saving
  <1>6. n \in Entries /\ n.stage = "boms" /\ n.touched = r.changed
    BY <1>2, <1>3 DEF Entries, Stages
  <1>7. n # Absent
    BY <1>6, ImportAssumption
  <1>8. /\ Onward(q, r) /\ q.todo = s
        /\ q.pc = (IF s = {} THEN "boms_written" ELSE "delete_links")
    BY <1>2 DEF Onward, RunFields
  <1> HIDE DEF n, q
  <1>9. RunTyped(q) /\ Saved(q) = Saved(r)
    BY <1>1, <1>2, <1>8, OnwardTyped DEF Early, Loading
  <1>10. LoopOK(q)
    BY <1>8 DEF LoopOK, Saving, Undoing, Onward
  <1>11. JournalOK(q, n)
    BY <1>3, <1>6, <1>7, <1>8, <1>9 DEF JournalOK, Early, Loading, Saving, Linking, Filing, Recording, Undoing, Onward
  <1>12. \A e \in effects[i] : Covered(e, q, n)
    BY <1>4, <1>5, <1>6, <1>7, <1>8 DEF Covered, Bounded, Saving
  <1> QED BY <1>1, <1>9, <1>10, <1>11, <1>12, QuietNotes

LEMMA DeleteLinksOK ==
  ASSUME IInv, NEW i \in Imports, DeleteLinks(i), Observed(i), UNCHANGED mishaps
  PROVE  IInv'
  <1> DEFINE r == run[i]
             h == Head1(i)
             a == After(i, "delete_links", "insert_links")
             q == IF a.pc = "delete_links" THEN a
                  ELSE [a EXCEPT !.todo = {l \in a.ask.pack.links : l[1] \in BomParents(a.plan)}]
  <1>1. /\ Move(i, q) /\ UNCHANGED <<parts, records, disk, journal, mishaps>> /\ r.pc = "delete_links"
        /\ links' = {l \in links : l.parent # h}
    BY DEF DeleteLinks, At
  <1>2. /\ RunTyped(r) /\ DOMAIN r = RunFields /\ LoopOK(r) /\ JournalOK(r, journal[i]) /\ journal[i] # Absent
        /\ journal[i] \in Entries /\ BomParents(r.plan) \subseteq Saved(r) /\ Saved(r) \subseteq Pairs
    BY <1>1, Opened DEF Early, Loading
  <1>3. r.todo # {} /\ r.todo \subseteq BomParents(r.plan)
    BY <1>1, <1>2 DEF LoopOK
  <1>4. h \in r.todo
    BY <1>2, <1>3, HeadIn
  <1>5. Onward(a, r) /\ a.todo = r.todo \ {h} /\ a.pc = (IF a.todo = {} THEN "insert_links" ELSE "delete_links")
    BY <1>2, OnwardAfter
  <1> HIDE DEF a
  <1>6. /\ Onward(q, r) /\ q.pc \in {"delete_links", "insert_links"}
        /\ q.pc = "delete_links" => q.todo # {} /\ q.todo \subseteq BomParents(r.plan)
        /\ q.pc = "insert_links" => q.todo = {l \in r.ask.pack.links : l[1] \in BomParents(r.plan)}
    BY <1>3, <1>5 DEF Onward, RunFields
  <1> HIDE DEF q
  <1>7. RunTyped(q) /\ Saved(q) = Saved(r)
    BY <1>1, <1>2, <1>6, OnwardTyped DEF Early, Loading
  <1>8. LoopOK(q)
    BY <1>6 DEF LoopOK, Saving, Undoing, Onward
  <1>9. JournalOK(q, journal[i]) /\ q.pc \notin Early \cup Saving
    BY <1>1, <1>2, <1>6, <1>7 DEF JournalOK, Early, Loading, Saving, Linking, Filing, Recording, Undoing, Onward
  <1>10. StoresOK'
    BY <1>1 DEF IInv, StoresOK
  <1>11. ASSUME NEW k \in Kinds, NEW p \in Pairs, Effect(k, p) PROVE Bounded(<<k, p>>, journal[i])
    <2>1. k = "bom" /\ p = h
      BY <1>1, <1>11, EffectOnLinks
    <2>2. journal[i].stage = "boms" /\ h \in journal[i].touched
      BY <1>1, <1>2, <1>3, <1>4 DEF JournalOK, Linking
    <2> QED BY <1>2, <2>1, <2>2 DEF Bounded
  <1> QED BY <1>1, <1>7, <1>8, <1>9, <1>10, <1>11, Writes1 DEF Early, Loading, Saving

LEMMA InsertLinkOK ==
  ASSUME IInv, NEW i \in Imports, InsertLink(i), Observed(i), UNCHANGED mishaps
  PROVE  IInv'
  <1> DEFINE r == run[i]
  <1>0. PICK l \in r.todo :
          /\ links' = links \cup {[parent |-> l[1], child |-> l[2], by |-> i]}
          /\ Move(i, [r EXCEPT !.todo = r.todo \ {l},
                               !.pc = IF r.todo \ {l} = {} THEN "boms_written" ELSE "insert_links"])
    BY DEF InsertLink
  <1> DEFINE rest == r.todo \ {l}
             q == [r EXCEPT !.todo = rest, !.pc = IF rest = {} THEN "boms_written" ELSE "insert_links"]
             link == [parent |-> l[1], child |-> l[2], by |-> i]
  <1>1. Move(i, q) /\ UNCHANGED <<parts, records, disk, journal, mishaps>> /\ r.pc = "insert_links"
    BY <1>0 DEF InsertLink, At
  <1>2. /\ RunTyped(r) /\ DOMAIN r = RunFields /\ LoopOK(r) /\ JournalOK(r, journal[i]) /\ journal[i] # Absent
        /\ journal[i] \in Entries /\ BomParents(r.plan) \subseteq Saved(r) /\ r.ask.pack \in Pack
    BY <1>1, Opened DEF Early, Loading
  <1>3. r.todo \subseteq {x \in r.ask.pack.links : x[1] \in BomParents(r.plan)}
    BY <1>1, <1>2 DEF LoopOK
  <1>4. l \in Pairs \X Pairs /\ l[1] \in BomParents(r.plan)
    BY <1>2, <1>3 DEF Pack
  <1>5. link \in Link
    BY <1>4 DEF Link
  <1>6. Onward(q, r) /\ q.todo = rest /\ q.pc = (IF rest = {} THEN "boms_written" ELSE "insert_links")
    BY <1>2 DEF Onward, RunFields
  <1> HIDE DEF q
  <1>7. RunTyped(q) /\ Saved(q) = Saved(r)
    BY <1>1, <1>2, <1>6, OnwardTyped DEF Early, Loading
  <1>8. LoopOK(q)
    BY <1>3, <1>6 DEF LoopOK, Saving, Undoing, Onward
  <1>9. JournalOK(q, journal[i]) /\ q.pc \notin Early \cup Saving
    BY <1>1, <1>2, <1>6, <1>7 DEF JournalOK, Early, Loading, Saving, Linking, Filing, Recording, Undoing, Onward
  <1>10. StoresOK'
    BY <1>0, <1>1, <1>5 DEF IInv, StoresOK
  <1>11. ASSUME NEW k \in Kinds, NEW p \in Pairs, Effect(k, p) PROVE Bounded(<<k, p>>, journal[i])
    <2>0. \A x : x.parent # l[1] => (x \in links' <=> x \in links)
      BY <1>0
    <2>1. k = "bom" /\ p = l[1]
      BY <1>1, <1>11, <2>0, EffectOnLinks
    <2>2. journal[i].stage = "boms" /\ l[1] \in journal[i].touched
      BY <1>1, <1>2, <1>4 DEF JournalOK, Linking
    <2> QED BY <1>2, <2>1, <2>2 DEF Bounded
  <1> QED BY <1>1, <1>7, <1>8, <1>9, <1>10, <1>11, Writes1 DEF Early, Loading, Saving

-------------------------------------------------------------------------------
(* Files and records.                                                      *)

\* The journal goes on to a later stage.
LEMMA NextStage ==
  ASSUME IInv, NEW i \in Imports, NEW STATE q, NEW STATE n, Move(i, q), Note(i, n),
         UNCHANGED <<stores, mishaps>>, Observed(i),
         run[i].pc \notin Early \cup {"done"}, q.pc \notin Early \cup Saving, Onward(q, run[i]), LoopOK(q),
         JournalOK(q, n), n \in Entries, n.touched = journal[i].touched,
         n.stage = journal[i].stage \/ (journal[i].stage # "parts" /\ n.stage \in {"file_metadata", "done"})
           \/ (journal[i].stage = "boms" /\ n.stage = "files"),
         journal[i].status # "started" => n.status # "started"
  PROVE  IInv'
  <1>1. \A e \in effects[i] : Bounded(e, journal[i])
    BY Opened
  <1>2. n # Absent
    BY ImportAssumption
  <1>3. \A e \in effects[i] : Covered(e, q, n)
    BY <1>1, <1>2 DEF Covered, Bounded
  <1>4. RunTyped(q)
    BY Opened, OnwardTyped
  <1> QED BY <1>3, <1>4, QuietNotes

LEMMA JournalFilesOK ==
  ASSUME IInv, NEW i \in Imports, JournalFiles(i), Observed(i), UNCHANGED mishaps
  PROVE  IInv'
  <1> DEFINE r == run[i]
             s == FileTargets(r.plan)
             q == [r EXCEPT !.todo = s, !.pc = IF s = {} THEN "files_written" ELSE "move_aside"]
             n == [journal[i] EXCEPT !.stage = "files"]
  <1>1. Move(i, q) /\ Note(i, n) /\ UNCHANGED <<stores, mishaps>> /\ r.pc = "boms_written"
    BY DEF JournalFiles, At
  <1>2. /\ RunTyped(r) /\ DOMAIN r = RunFields /\ JournalOK(r, journal[i])
        /\ journal[i] \in Entries /\ journal[i] # Absent
    BY <1>1, Opened DEF Early, Loading
  <1>3. journal[i].stage = "boms" /\ Saved(r) \cup r.created \subseteq journal[i].touched
    BY <1>1, <1>2 DEF JournalOK, Linking
  <1>4. n \in Entries /\ n.stage = "files" /\ n.touched = journal[i].touched /\ n.status = journal[i].status
    BY <1>2 DEF Entries, Stages
  <1>5. n # Absent
    BY <1>4, ImportAssumption
  <1>6. Onward(q, r) /\ q.todo = s /\ q.pc = (IF s = {} THEN "files_written" ELSE "move_aside")
    BY <1>2 DEF Onward, RunFields
  <1> HIDE DEF n, q
  <1>7. Saved(q) = Saved(r)
    BY <1>1, <1>2, <1>6, OnwardTyped DEF Early, Loading
  <1>8. LoopOK(q)
    BY <1>6 DEF LoopOK, Saving, Undoing, Onward
  <1>9. JournalOK(q, n)
    BY <1>3, <1>4, <1>5, <1>6, <1>7 DEF JournalOK, Early, Loading, Saving, Linking, Filing, Recording, Undoing, Onward
  <1>10. r.pc \notin Early \cup {"done"} /\ q.pc \notin Early \cup Saving
    BY <1>1, <1>6 DEF Early, Loading, Saving
  <1> QED BY <1>1, <1>3, <1>4, <1>6, <1>8, <1>9, <1>10, NextStage

\* A file is touched: the plan names it, so the journal does.
LEMMA FileTouched ==
  ASSUME IInv, NEW i \in Imports, run[i].pc \in Filing, NEW h \in FileTargets(run[i].plan),
         \A p \in Pairs \ {h} : disk'[p] = disk[p], UNCHANGED <<parts, links, records>>,
         NEW k \in Kinds, NEW p \in Pairs, Effect(k, p)
  PROVE  Bounded(<<k, p>>, journal[i])
  <1>1. k = "file" /\ p = h
    BY EffectOnDisk
  <1>2. /\ JournalOK(run[i], journal[i]) /\ journal[i] # Absent
        /\ FileTargets(run[i].plan) \subseteq Saved(run[i])
    BY Opened DEF Filing, Early, Loading
  <1>3. journal[i].stage = "files" /\ h \in journal[i].touched
    BY <1>2 DEF JournalOK
  <1> QED BY <1>1, <1>2, <1>3 DEF Bounded

LEMMA FilesLoop ==
  ASSUME IInv, NEW i \in Imports, run[i].pc \in {"move_aside", "place"}
  PROVE  /\ RunTyped(run[i]) /\ DOMAIN run[i] = RunFields /\ JournalOK(run[i], journal[i])
         /\ journal[i] # Absent /\ run[i].ask.pack \in Pack
         /\ run[i].todo # {} /\ run[i].todo \subseteq FileTargets(run[i].plan)
         /\ Head1(i) \in FileTargets(run[i].plan) /\ Head1(i) \in Pairs
         /\ run[i].pc \notin Early \cup {"done"} \cup Saving /\ run[i].pc \in Filing
  <1>1. run[i].pc \notin Early \cup {"done"} \cup Saving /\ run[i].pc \in Filing
    BY DEF Early, Loading, Saving, Filing
  <1>2. /\ RunTyped(run[i]) /\ DOMAIN run[i] = RunFields /\ LoopOK(run[i]) /\ JournalOK(run[i], journal[i])
        /\ journal[i] # Absent /\ run[i].ask.pack \in Pack
        /\ FileTargets(run[i].plan) \subseteq Saved(run[i]) /\ Saved(run[i]) \subseteq Pairs
    BY <1>1, Opened
  <1>3. run[i].todo # {} /\ run[i].todo \subseteq FileTargets(run[i].plan)
    BY <1>2 DEF LoopOK
  <1>4. Head1(i) \in run[i].todo
    BY <1>2, <1>3, HeadIn
  <1> QED BY <1>1, <1>2, <1>3, <1>4

LEMMA MoveAsideOK ==
  ASSUME IInv, NEW i \in Imports, MoveAside(i), Observed(i), UNCHANGED mishaps
  PROVE  IInv'
  <1> DEFINE r == run[i]
             h == Head1(i)
             q == [r EXCEPT !.backup[h] = disk[h], !.pc = "place"]
  <1>1. /\ Move(i, q) /\ UNCHANGED <<parts, links, records, journal, mishaps>> /\ r.pc = "move_aside"
        /\ disk' = [disk EXCEPT ![h] = Absent]
    BY DEF MoveAside, At
  <1>2. /\ RunTyped(r) /\ DOMAIN r = RunFields /\ JournalOK(r, journal[i]) /\ journal[i] # Absent
        /\ r.todo # {} /\ r.todo \subseteq FileTargets(r.plan) /\ h \in FileTargets(r.plan) /\ h \in Pairs
        /\ r.pc \notin Early \cup {"done"} \cup Saving /\ r.pc \in Filing
    BY <1>1, FilesLoop
  <1>3. /\ StoresOK' /\ disk[h] \in Bytes \cup {Absent} /\ \A p \in Pairs \ {h} : disk'[p] = disk[p]
    BY <1>1, <1>2 DEF IInv, StoresOK
  <1>4. /\ DOMAIN q = RunFields /\ q.ask = r.ask /\ q.read = r.read /\ q.plan = r.plan /\ q.todo = r.todo
        /\ q.created = r.created /\ q.changed = r.changed /\ q.placed = r.placed /\ q.stuck = r.stuck
        /\ q.pc = "place" /\ q.backup = [r.backup EXCEPT ![h] = disk[h]]
    BY <1>2 DEF RunFields
  <1> HIDE DEF q, h
  <1>5. RunTyped(q)
    BY <1>1, <1>2, <1>3, <1>4 DEF RunTyped, Early, Loading
  <1>6. LoopOK(q) /\ q.pc \notin Early \cup Saving
    BY <1>2, <1>4 DEF LoopOK, Saving, Undoing, Early, Loading
  <1>7. JournalOK(q, journal[i])
    BY <1>2, <1>4 DEF JournalOK, Early, Loading, Saving, Linking, Filing, Recording, Undoing, Saved
  <1>8. \A k \in Kinds, p \in Pairs : Effect(k, p) => Bounded(<<k, p>>, journal[i])
    BY <1>1, <1>2, <1>3, FileTouched
  <1> QED BY <1>1, <1>2, <1>3, <1>5, <1>6, <1>7, <1>8, Writes1

LEMMA PlaceFileOK ==
  ASSUME IInv, NEW i \in Imports, PlaceFile(i), Observed(i), UNCHANGED mishaps
  PROVE  IInv'
  <1> DEFINE r == run[i]
             h == Head1(i)
             rest == r.todo \ {h}
             q == [After(i, "move_aside", "files_written") EXCEPT !.placed = @ \cup {h}]
  <1>1. /\ Move(i, q) /\ UNCHANGED <<parts, links, records, journal, mishaps>> /\ r.pc = "place"
        /\ disk' = [disk EXCEPT ![h] = r.ask.pack.bytes]
    BY DEF PlaceFile, At
  <1>2. /\ RunTyped(r) /\ DOMAIN r = RunFields /\ JournalOK(r, journal[i]) /\ journal[i] # Absent
        /\ r.todo # {} /\ r.todo \subseteq FileTargets(r.plan) /\ h \in FileTargets(r.plan) /\ h \in Pairs
        /\ r.pc \notin Early \cup {"done"} \cup Saving /\ r.pc \in Filing /\ r.ask.pack \in Pack
    BY <1>1, FilesLoop
  <1>3. /\ StoresOK' /\ \A p \in Pairs \ {h} : disk'[p] = disk[p]
    BY <1>1, <1>2 DEF IInv, StoresOK, Pack
  <1>4. /\ DOMAIN q = RunFields /\ q.ask = r.ask /\ q.read = r.read /\ q.plan = r.plan /\ q.todo = rest
        /\ q.created = r.created /\ q.changed = r.changed /\ q.placed = r.placed \cup {h} /\ q.stuck = r.stuck
        /\ q.pc = (IF rest = {} THEN "files_written" ELSE "move_aside") /\ q.backup = r.backup
    BY <1>2 DEF After, RunFields
  <1> HIDE DEF q, h
  <1>5. RunTyped(q)
    BY <1>1, <1>2, <1>4 DEF RunTyped, Early, Loading
  <1>6. LoopOK(q) /\ q.pc \notin Early \cup Saving
    BY <1>2, <1>4 DEF LoopOK, Saving, Undoing, Early, Loading
  <1>7. JournalOK(q, journal[i])
    BY <1>2, <1>4 DEF JournalOK, Early, Loading, Saving, Linking, Filing, Recording, Undoing, Saved
  <1>8. \A k \in Kinds, p \in Pairs : Effect(k, p) => Bounded(<<k, p>>, journal[i])
    BY <1>1, <1>2, <1>3, FileTouched
  <1> QED BY <1>1, <1>2, <1>3, <1>5, <1>6, <1>7, <1>8, Writes1

LEMMA JournalMetadataOK ==
  ASSUME IInv, NEW i \in Imports, JournalMetadata(i), Observed(i), UNCHANGED mishaps
  PROVE  IInv'
  <1> DEFINE r == run[i]
             q == [r EXCEPT !.pc = "stat"]
             n == [journal[i] EXCEPT !.stage = "file_metadata"]
  <1>1. Move(i, q) /\ Note(i, n) /\ UNCHANGED <<stores, mishaps>> /\ r.pc = "files_written"
    BY DEF JournalMetadata, At, Goto
  <1>2. /\ RunTyped(r) /\ DOMAIN r = RunFields /\ JournalOK(r, journal[i])
        /\ journal[i] \in Entries /\ journal[i] # Absent
    BY <1>1, Opened DEF Early, Loading
  <1>3. journal[i].stage = "files" /\ Saved(r) \cup r.created \subseteq journal[i].touched
    BY <1>1, <1>2 DEF JournalOK, Filing
  <1>4. n \in Entries /\ n.stage = "file_metadata" /\ n.touched = journal[i].touched /\ n.status = journal[i].status
    BY <1>2 DEF Entries, Stages
  <1>5. n # Absent
    BY <1>4, ImportAssumption
  <1>6. Onward(q, r) /\ q.pc = "stat"
    BY <1>2 DEF Onward, RunFields
  <1> HIDE DEF n, q
  <1>7. Saved(q) = Saved(r)
    BY <1>1, <1>2, <1>6, OnwardTyped DEF Early, Loading
  <1>8. LoopOK(q)
    BY <1>6 DEF LoopOK, Saving, Undoing
  <1>9. JournalOK(q, n)
    BY <1>3, <1>4, <1>5, <1>6, <1>7 DEF JournalOK, Early, Loading, Saving, Linking, Filing, Recording, Undoing, Onward
  <1>10. r.pc \notin Early \cup {"done"} /\ q.pc \notin Early \cup Saving
    BY <1>1, <1>6 DEF Early, Loading, Saving
  <1> QED BY <1>1, <1>3, <1>4, <1>6, <1>8, <1>9, <1>10, NextStage

\* A step that writes nothing, after the journal was opened.
LEMMA Goes ==
  ASSUME IInv, NEW i \in Imports, run[i].pc \notin Early \cup {"done"}, NEW STATE q, Move(i, q),
         UNCHANGED <<stores, journal>>, mishaps' \in 0 .. MaxMishaps, Observed(i),
         Onward(q, run[i]), LoopOK(q), q.pc \notin Early \cup Saving,
         q.pc \in Filing => journal[i].stage = "files",
         q.pc \in Recording => journal[i].stage = "file_metadata",
         q.pc \notin Linking \cup Undoing
  PROVE  IInv'
  <1>1. RunTyped(q) /\ Saved(q) = Saved(run[i])
    BY Opened, OnwardTyped
  <1>2. JournalOK(run[i], journal[i])
    BY Opened
  <1>3. JournalOK(q, journal[i])
    BY <1>1, <1>2 DEF JournalOK, Onward
  <1> QED BY <1>1, <1>3, QuietMoves

LEMMA StatFilesOK ==
  ASSUME IInv, NEW i \in Imports, StatFiles(i), Observed(i), UNCHANGED mishaps
  PROVE  IInv'
  <1> DEFINE r == run[i]
             s == FileTargets(r.plan)
             d == Discovered(r.ask.pack, r.ask.policy, r.read)
             f == [r EXCEPT !.pc = "failed"]
             q == [r EXCEPT !.todo = s \cup d,
                     !.pc = IF s # {} THEN "record" ELSE IF d # {} THEN "discover" ELSE "thumbnails"]
  <1>1. /\ UNCHANGED <<stores, journal>> /\ r.pc = "stat" /\ mishaps' \in 0 .. MaxMishaps
        /\ Move(i, f) \/ Move(i, q)
    BY DEF StatFiles, At, Goto, IInv
  <1>2. r.pc \notin Early \cup {"done"}
    BY <1>1 DEF Early, Loading
  <1>3. /\ RunTyped(r) /\ DOMAIN r = RunFields /\ JournalOK(r, journal[i]) /\ r.ask.pack \in Pack
        /\ s \subseteq Pairs
    BY <1>2, Opened
  <1>4. d \subseteq Pairs
    BY <1>3 DEF Discovered, Pack
  <1>5. journal[i].stage = "file_metadata"
    BY <1>1, <1>3 DEF JournalOK, Recording
  <1>6. Onward(f, r) /\ f.pc = "failed"
    BY <1>3 DEF Onward, RunFields
  <1> HIDE DEF s, d
  <1>7. /\ Onward(q, r) /\ q.todo = s \cup d
        /\ q.pc = (IF s # {} THEN "record" ELSE IF d # {} THEN "discover" ELSE "thumbnails")
    BY <1>3 DEF Onward, RunFields
  <1> HIDE DEF f, q
  <1>8. LoopOK(f) /\ f.pc \notin Early \cup Saving \cup Filing \cup Linking \cup Undoing
    BY <1>6 DEF LoopOK, Early, Loading, Saving, Filing, Linking, Undoing
  <1>9. LoopOK(q) /\ q.pc \notin Early \cup Saving \cup Filing \cup Linking \cup Undoing
    BY <1>3, <1>4, <1>7 DEF LoopOK, Early, Loading, Saving, Filing, Linking, Undoing
  <1> QED BY <1>1, <1>2, <1>5, <1>6, <1>7, <1>8, <1>9, Goes

\* A record is written, or one is made for a file that was found.
LEMMA Recorded ==
  ASSUME IInv, NEW i \in Imports, NEW here \in {"record", "discover"}, At(i, here), NEW STATE value,
         value \in Hashes, records' = [records EXCEPT ![Head1(i)] = value],
         Move(i, After(i, here, "thumbnails")), UNCHANGED <<parts, links, disk, journal, mishaps>>, Observed(i)
  PROVE  IInv'
  <1> DEFINE r == run[i]
             q == After(i, here, "thumbnails")
  <1>1. r.pc = here /\ r.pc \notin Early \cup {"done"} \cup Saving /\ r.pc \in Recording
    BY DEF At, Early, Loading, Saving, Recording
  <1>2. RunTyped(r) /\ DOMAIN r = RunFields /\ LoopOK(r) /\ JournalOK(r, journal[i]) /\ journal[i] # Absent
    BY <1>1, Opened
  <1>3. /\ Onward(q, r) /\ q.todo = r.todo \ {Head1(i)}
        /\ q.pc = (IF q.todo = {} THEN "thumbnails" ELSE here)
    BY <1>2, OnwardAfter
  <1>9. Move(i, q)
    OBVIOUS
  <1> HIDE DEF q
  <1>4. q.pc \notin Early \cup Saving /\ LoopOK(q)
    BY <1>1, <1>2, <1>3 DEF LoopOK, Early, Loading, Saving, Undoing
  <1>5. RunTyped(q) /\ Saved(q) = Saved(r)
    BY <1>1, <1>2, <1>3, <1>4, OnwardTyped
  <1>6. JournalOK(q, journal[i])
    BY <1>1, <1>2, <1>3, <1>5 DEF JournalOK, Early, Loading, Saving, Linking, Filing, Recording, Undoing, Onward
  <1>7. StoresOK'
    BY DEF IInv, StoresOK
  <1>8. \A k \in Kinds, p \in Pairs : Effect(k, p) => Bounded(<<k, p>>, journal[i])
    <2>1. \A k \in Kinds, p \in Pairs : Effect(k, p) => k = "record"
      BY EffectOnRecords
    <2> QED BY <1>1, <1>2, <2>1 DEF Bounded, JournalOK
  <1> QED BY <1>1, <1>4, <1>5, <1>6, <1>7, <1>8, <1>9, Writes1

LEMMA WriteRecordOK ==
  ASSUME IInv, NEW i \in Imports, WriteRecord(i) \/ RecordDiscovered(i), Observed(i), UNCHANGED mishaps
  PROVE  IInv'
  <1>1. CASE WriteRecord(i)
    <2> DEFINE value == run[i].ask.pack.bytes
    <2>1. /\ At(i, "record") /\ records' = [records EXCEPT ![Head1(i)] = value]
          /\ Move(i, After(i, "record", "thumbnails")) /\ UNCHANGED <<parts, links, disk, journal>>
      BY <1>1 DEF WriteRecord
    <2>2. run[i].ask.pack \in Pack
      BY <2>1, Opened DEF At, Early, Loading
    <2>3. value \in Hashes
      BY <2>2 DEF Pack, Hashes
    <2> HIDE DEF value
    <2> QED BY <2>1, <2>3, Recorded
  <1>2. CASE RecordDiscovered(i)
    <2> DEFINE h == Head1(i)
               value == IF records[h] = Absent THEN Unhashed ELSE records[h]
    <2>1. /\ At(i, "discover") /\ records' = [records EXCEPT ![h] = value]
          /\ Move(i, After(i, "discover", "thumbnails")) /\ UNCHANGED <<parts, links, disk, journal>>
      BY <1>2 DEF RecordDiscovered
    <2>2. LoopOK(run[i])
      BY <2>1, Opened DEF At, Early, Loading
    <2>3. h \in Pairs
      BY <2>1, <2>2, HeadIn DEF LoopOK, At
    <2>4. value \in Hashes
      BY <2>3 DEF IInv, StoresOK, Hashes
    <2> HIDE DEF value
    <2> QED BY <2>1, <2>4, Recorded
  <1> QED BY <1>1, <1>2

LEMMA CommitOK ==
  ASSUME IInv, NEW i \in Imports, Commit(i), Observed(i), UNCHANGED mishaps
  PROVE  IInv'
  <1> DEFINE r == run[i]
             q == [r EXCEPT !.pc = "done", !.told = "committed"]
             n == [journal[i] EXCEPT !.status = "committed", !.stage = "done"]
  <1>1. Move(i, q) /\ Note(i, n) /\ UNCHANGED <<stores, mishaps>> /\ r.pc = "thumbnails"
    BY DEF Commit, At
  <1>2. r.pc \notin Early \cup {"done"} /\ r.pc \in Recording
    BY <1>1 DEF Early, Loading, Recording
  <1>3. /\ RunTyped(r) /\ DOMAIN r = RunFields /\ JournalOK(r, journal[i])
        /\ journal[i] \in Entries /\ journal[i] # Absent
    BY <1>2, Opened
  <1>4. journal[i].stage = "file_metadata" /\ Saved(r) \cup r.created \subseteq journal[i].touched
    BY <1>2, <1>3 DEF JournalOK
  <1>5. n \in Entries /\ n.stage = "done" /\ n.touched = journal[i].touched /\ n.status = "committed"
    BY <1>3 DEF Entries, Stages
  <1>6. n # Absent
    BY <1>5, ImportAssumption
  <1>7. Onward(q, r) /\ q.pc = "done"
    BY <1>3 DEF Onward, RunFields
  <1> HIDE DEF n, q
  <1>8. q.pc \notin Early \cup Saving /\ LoopOK(q)
    BY <1>7 DEF LoopOK, Early, Loading, Saving, Undoing
  <1>9. Saved(q) = Saved(r)
    BY <1>2, <1>3, <1>7, <1>8, OnwardTyped
  <1>10. JournalOK(q, n)
    BY <1>4, <1>5, <1>6, <1>7, <1>9 DEF JournalOK, Early, Loading, Saving, Linking, Filing, Recording, Undoing, Onward
  <1> QED BY <1>1, <1>2, <1>4, <1>5, <1>7, <1>8, <1>10, NextStage

-------------------------------------------------------------------------------
(* Failure.                                                                *)

\* One file is put back, or is left wherever the attempt ended.
LEMMA UnplaceOK ==
  ASSUME IInv, NEW i \in Imports, UnplaceFile(i) \/ UnplaceFails(i), mishaps' \in 0 .. MaxMishaps, Observed(i)
  PROVE  IInv'
  <1> DEFINE r    == run[i]
             h    == Max(r.placed)
             rest == r.placed \ {h}
             q    == [r EXCEPT !.placed = rest, !.pc = IF rest = {} THEN "failed" ELSE "unplace"]
  <1>0. r.pc = "unplace"
    BY DEF UnplaceFile, UnplaceFails, At
  <1>1. r.pc \notin Early \cup {"done"} \cup Saving /\ r.pc \in Filing
    BY <1>0 DEF Early, Loading, Saving, Filing
  <1>2. /\ RunTyped(r) /\ DOMAIN r = RunFields /\ LoopOK(r) /\ JournalOK(r, journal[i])
        /\ FileTargets(r.plan) \subseteq Pairs
    BY <1>1, Opened
  <1>3. r.placed # {} /\ r.placed \subseteq FileTargets(r.plan)
    BY <1>0, <1>2 DEF LoopOK, RunTyped
  <1>4. h \in r.placed /\ h \in FileTargets(r.plan) /\ h \in Pairs
    BY <1>2, <1>3, LastIn
  <1>5. PICK now \in {r.backup[h], disk[h], Absent} : disk' = [disk EXCEPT ![h] = now]
    BY DEF UnplaceFile, UnplaceFails
  <1>6. Move(i, q) /\ UNCHANGED <<parts, links, records, journal>>
    BY DEF UnplaceFile, UnplaceFails
  <1>7. /\ StoresOK' /\ \A p \in Pairs \ {h} : disk'[p] = disk[p]
    <2>1. now \in Bytes \cup {Absent}
      BY <1>2, <1>4 DEF RunTyped, IInv, StoresOK
    <2> QED BY <1>4, <1>5, <1>6, <2>1 DEF IInv, StoresOK
  <1>8. /\ DOMAIN q = RunFields /\ q.ask = r.ask /\ q.read = r.read /\ q.plan = r.plan /\ q.todo = r.todo
        /\ q.created = r.created /\ q.changed = r.changed /\ q.placed = rest /\ q.stuck = r.stuck
        /\ q.pc = (IF rest = {} THEN "failed" ELSE "unplace") /\ q.backup = r.backup
    BY <1>2 DEF RunFields
  <1> HIDE DEF q, h
  <1>9. RunTyped(q)
    BY <1>1, <1>2, <1>3, <1>8 DEF RunTyped, Early, Loading
  <1>10. LoopOK(q) /\ q.pc \notin Early \cup Saving
    BY <1>8 DEF LoopOK, Saving, Undoing, Early, Loading
  <1>11. JournalOK(q, journal[i])
    BY <1>1, <1>2, <1>8 DEF JournalOK, Early, Loading, Saving, Linking, Filing, Recording, Undoing, Saved
  <1>12. \A k \in Kinds, p \in Pairs : Effect(k, p) => Bounded(<<k, p>>, journal[i])
    BY <1>1, <1>4, <1>6, <1>7, FileTouched
  <1>13. \A e \in effects[i] : Covered(e, q, journal[i])
    BY <1>1, <1>10, Opened DEF Covered
  <1>14. \A k \in Kinds, p \in Pairs : Effect(k, p) => Covered(<<k, p>>, q, journal[i])
    BY <1>10, <1>12 DEF Covered
  <1> QED BY <1>6, <1>7, <1>9, <1>10, <1>11, <1>13, <1>14, Moves

LEMMA JournalFailedOK ==
  ASSUME IInv, NEW i \in Imports, JournalFailed(i), Observed(i), UNCHANGED mishaps
  PROVE  IInv'
  <1> DEFINE r == run[i]
             q == [r EXCEPT !.todo = r.created, !.pc = IF r.created = {} THEN "settle" ELSE "undo"]
             n == [journal[i] EXCEPT !.status = "failed"]
  <1>1. Move(i, q) /\ Note(i, n) /\ UNCHANGED <<stores, mishaps>> /\ r.pc = "failed"
    BY DEF JournalFailed, At
  <1>2. r.pc \notin Early \cup {"done"}
    BY <1>1 DEF Early, Loading
  <1>3. /\ RunTyped(r) /\ DOMAIN r = RunFields /\ JournalOK(r, journal[i])
        /\ journal[i] \in Entries /\ journal[i] # Absent
    BY <1>2, Opened
  <1>4. n \in Entries /\ n.stage = journal[i].stage /\ n.touched = journal[i].touched /\ n.status = "failed"
    BY <1>3 DEF Entries
  <1>5. n # Absent
    BY <1>4, ImportAssumption
  <1>6. Onward(q, r) /\ q.todo = r.created /\ q.pc = (IF r.created = {} THEN "settle" ELSE "undo")
    BY <1>3 DEF Onward, RunFields
  <1> HIDE DEF n, q
  <1>7. q.pc \notin Early \cup Saving /\ LoopOK(q)
    BY <1>6 DEF LoopOK, Early, Loading, Saving, Undoing, Onward
  <1>8. Saved(q) = Saved(r)
    BY <1>2, <1>3, <1>6, <1>7, OnwardTyped
  <1>9. JournalOK(q, n)
    BY <1>3, <1>4, <1>5, <1>6, <1>8 DEF JournalOK, Early, Loading, Saving, Linking, Filing, Recording, Undoing, Onward
  <1> QED BY <1>1, <1>2, <1>4, <1>6, <1>7, <1>9, NextStage

LEMMA UndoLoop ==
  ASSUME IInv, NEW i \in Imports, run[i].pc \in Undoing
  PROVE  /\ run[i].pc \notin Early \cup {"done"} \cup Saving /\ RunTyped(run[i]) /\ DOMAIN run[i] = RunFields
         /\ JournalOK(run[i], journal[i]) /\ journal[i] # Absent /\ journal[i].status # "started"
         /\ run[i].todo # {} /\ run[i].todo \subseteq run[i].created
         /\ Head1(i) \in run[i].todo /\ Head1(i) \in Pairs
         /\ journal[i].stage # "parts" => Head1(i) \in journal[i].touched
  <1>1. run[i].pc \notin Early \cup {"done"} \cup Saving
    BY DEF Early, Loading, Saving, Undoing
  <1>2. /\ RunTyped(run[i]) /\ DOMAIN run[i] = RunFields /\ LoopOK(run[i]) /\ JournalOK(run[i], journal[i])
        /\ journal[i] # Absent
    BY <1>1, Opened
  <1>3. run[i].todo # {} /\ run[i].todo \subseteq run[i].created /\ run[i].created \subseteq Pairs
    BY <1>2 DEF LoopOK, RunTyped
  <1>4. Head1(i) \in run[i].todo /\ Head1(i) \in Pairs
    BY <1>3, HeadIn
  <1>5. /\ journal[i].status # "started"
        /\ journal[i].stage # "parts" => run[i].created \subseteq journal[i].touched
    BY <1>2 DEF JournalOK
  <1> QED BY <1>1, <1>2, <1>3, <1>4, <1>5

LEMMA UndoPartOK ==
  ASSUME IInv, NEW i \in Imports, UndoPart(i), Observed(i), UNCHANGED mishaps
  PROVE  IInv'
  <1> DEFINE r == run[i]
             h == Head1(i)
             q == [r EXCEPT !.pc = "undo_links"]
  <1>1. /\ Move(i, q) /\ UNCHANGED <<links, records, disk, journal, mishaps>> /\ r.pc \in Undoing
        /\ parts' = [parts EXCEPT ![h] = Absent]
    BY DEF UndoPart, At, Goto, Undoing
  <1>2. /\ r.pc \notin Early \cup {"done"} \cup Saving /\ RunTyped(r) /\ DOMAIN r = RunFields
        /\ JournalOK(r, journal[i]) /\ journal[i] # Absent /\ journal[i].status # "started"
        /\ r.todo # {} /\ r.todo \subseteq r.created /\ h \in Pairs
        /\ journal[i].stage # "parts" => h \in journal[i].touched
    BY <1>1, UndoLoop
  <1>3. StoresOK' /\ \A p \in Pairs \ {h} : parts'[p] = parts[p]
    BY <1>1, <1>2 DEF IInv, StoresOK
  <1>4. Onward(q, r) /\ q.todo = r.todo /\ q.pc = "undo_links"
    BY <1>2 DEF Onward, RunFields
  <1> HIDE DEF q, h
  <1>5. LoopOK(q) /\ q.pc \notin Early \cup Saving
    BY <1>2, <1>4 DEF LoopOK, Saving, Undoing, Early, Loading, Onward
  <1>6. RunTyped(q) /\ Saved(q) = Saved(r)
    BY <1>2, <1>4, <1>5, OnwardTyped
  <1>7. JournalOK(q, journal[i])
    BY <1>2, <1>4, <1>6 DEF JournalOK, Early, Loading, Saving, Linking, Filing, Recording, Undoing, Onward
  <1>8. \A k \in Kinds, p \in Pairs : Effect(k, p) => Bounded(<<k, p>>, journal[i])
    <2>1. \A k \in Kinds, p \in Pairs : Effect(k, p) => k \in PartKinds /\ p = h
      BY <1>1, <1>3, EffectOnPart
    <2> QED BY <1>2, <2>1 DEF Bounded, PartKinds
  <1> QED BY <1>1, <1>2, <1>3, <1>5, <1>6, <1>7, <1>8, Writes1

LEMMA UndoLinksOK ==
  ASSUME IInv, NEW i \in Imports, UndoLinks(i), Observed(i), UNCHANGED mishaps
  PROVE  IInv'
  <1> DEFINE r == run[i]
             h == Head1(i)
             q == After(i, "undo", "settle")
  <1>1. /\ Move(i, q) /\ UNCHANGED <<parts, records, disk, journal, mishaps>> /\ r.pc \in Undoing
        /\ links' = {l \in links : l.parent # h}
    BY DEF UndoLinks, At, Undoing
  <1>2. /\ r.pc \notin Early \cup {"done"} \cup Saving /\ RunTyped(r) /\ DOMAIN r = RunFields
        /\ JournalOK(r, journal[i]) /\ journal[i] # Absent /\ journal[i].status # "started"
        /\ r.todo # {} /\ r.todo \subseteq r.created /\ h \in Pairs
        /\ journal[i].stage # "parts" => h \in journal[i].touched
    BY <1>1, UndoLoop
  <1>3. StoresOK'
    BY <1>1 DEF IInv, StoresOK
  <1>4. Onward(q, r) /\ q.todo = r.todo \ {h} /\ q.pc = (IF q.todo = {} THEN "settle" ELSE "undo")
    BY <1>2, OnwardAfter
  <1> HIDE DEF q, h
  <1>5. LoopOK(q) /\ q.pc \notin Early \cup Saving
    BY <1>2, <1>4 DEF LoopOK, Saving, Undoing, Early, Loading, Onward
  <1>6. RunTyped(q) /\ Saved(q) = Saved(r)
    BY <1>2, <1>4, <1>5, OnwardTyped
  <1>7. JournalOK(q, journal[i])
    BY <1>2, <1>4, <1>6 DEF JournalOK, Early, Loading, Saving, Linking, Filing, Recording, Undoing, Onward
  <1>8. \A k \in Kinds, p \in Pairs : Effect(k, p) => Bounded(<<k, p>>, journal[i])
    <2>1. \A k \in Kinds, p \in Pairs : Effect(k, p) => k = "bom" /\ p = h
      BY <1>1, EffectOnLinks
    <2> QED BY <1>2, <2>1 DEF Bounded
  <1> QED BY <1>1, <1>2, <1>3, <1>5, <1>6, <1>7, <1>8, Writes1

\* The stuck parts are of the created ones, so they are pairs.
LEMMA UndoFailsOK ==
  ASSUME IInv, NEW i \in Imports, UndoFails(i), mishaps' \in 0 .. MaxMishaps, Observed(i)
  PROVE  IInv'
  <1> DEFINE r == run[i]
             h == Head1(i)
             q == [After(i, "undo", "settle") EXCEPT !.stuck = @ \cup {h}]
  <1>1. Move(i, q) /\ UNCHANGED <<stores, journal>> /\ r.pc \in Undoing
    BY DEF UndoFails, Undoing
  <1>2. /\ r.pc \notin Early \cup {"done"} \cup Saving /\ RunTyped(r) /\ DOMAIN r = RunFields
        /\ JournalOK(r, journal[i]) /\ journal[i] # Absent /\ journal[i].status # "started"
        /\ r.todo # {} /\ r.todo \subseteq r.created /\ h \in r.todo
    BY <1>1, UndoLoop
  <1>3. /\ DOMAIN q = RunFields /\ q.ask = r.ask /\ q.read = r.read /\ q.plan = r.plan /\ q.todo = r.todo \ {h}
        /\ q.created = r.created /\ q.changed = r.changed /\ q.placed = r.placed /\ q.stuck = r.stuck \cup {h}
        /\ q.pc = (IF q.todo = {} THEN "settle" ELSE "undo") /\ q.backup = r.backup
    BY <1>2 DEF After, RunFields
  <1> HIDE DEF q, h
  <1>4. RunTyped(q)
    BY <1>2, <1>3 DEF RunTyped, Early, Loading
  <1>5. LoopOK(q) /\ q.pc \notin Saving
    BY <1>2, <1>3 DEF LoopOK, Saving, Undoing
  <1>6. JournalOK(q, journal[i])
    BY <1>2, <1>3 DEF JournalOK, Early, Loading, Saving, Linking, Filing, Recording, Undoing, Saved
  <1> QED BY <1>1, <1>4, <1>5, <1>6, QuietMoves

\* The journal is settled, with the parts somebody has to look at.
LEMMA SettleOK ==
  ASSUME IInv, NEW i \in Imports, JournalRolledBack(i) \/ JournalFollowup(i), Observed(i), UNCHANGED mishaps
  PROVE  IInv'
  <1> DEFINE r == run[i]
  <1>1. r.pc \in {"settle", "report"} /\ UNCHANGED <<stores, mishaps>>
    BY DEF JournalRolledBack, JournalFollowup, At
  <1>2. r.pc \notin Early \cup {"done"}
    BY <1>1 DEF Early, Loading
  <1>3. /\ RunTyped(r) /\ DOMAIN r = RunFields /\ JournalOK(r, journal[i])
        /\ journal[i] \in Entries /\ journal[i] # Absent
    BY <1>2, Opened
  <1>4. PICK next \in {"report", "answer"}, n \in Entries :
          /\ Move(i, [r EXCEPT !.pc = next]) /\ Note(i, n)
          /\ n.stage = journal[i].stage /\ n.touched = journal[i].touched
          /\ journal[i].status # "started" => n.status # "started"
    <2>1. CASE JournalRolledBack(i)
      <3> DEFINE n == [journal[i] EXCEPT !.status = "rolled_back", !.followup = r.stuck]
      <3>1. Note(i, n) /\ Move(i, [r EXCEPT !.pc = "report"])
        BY <2>1 DEF JournalRolledBack, Goto
      <3>2. n \in Entries /\ n.stage = journal[i].stage /\ n.touched = journal[i].touched /\ n.status = "rolled_back"
        BY <1>3 DEF Entries, RunTyped
      <3> QED BY <3>1, <3>2
    <2>2. CASE JournalFollowup(i)
      <3> DEFINE updated == r.changed \ r.created
                 n == [journal[i] EXCEPT !.followup = IF updated # {} THEN updated ELSE @]
      <3>1. Note(i, n) /\ Move(i, [r EXCEPT !.pc = "answer"])
        BY <2>2 DEF JournalFollowup, Goto
      <3>2. n \in Entries /\ n.stage = journal[i].stage /\ n.touched = journal[i].touched /\ n.status = journal[i].status
        BY <1>3 DEF Entries, RunTyped
      <3> QED BY <3>1, <3>2
    <2> QED BY <2>1, <2>2
  <1> DEFINE q == [r EXCEPT !.pc = next]
  <1>5. Onward(q, r) /\ q.pc \in {"report", "answer"} /\ Move(i, q)
    BY <1>3, <1>4 DEF Onward, RunFields
  <1> HIDE DEF q
  <1>6. n # Absent
    BY ImportAssumption
  <1>7. q.pc \notin Early \cup Saving /\ LoopOK(q)
    BY <1>5 DEF LoopOK, Early, Loading, Saving, Undoing
  <1>8. Saved(q) = Saved(r)
    BY <1>2, <1>3, <1>5, <1>7, OnwardTyped
  <1>9. JournalOK(q, n)
    BY <1>3, <1>4, <1>5, <1>6, <1>8 DEF JournalOK, Early, Loading, Saving, Linking, Filing, Recording, Undoing, Onward
  <1> QED BY <1>1, <1>2, <1>4, <1>5, <1>7, <1>9, NextStage

LEMMA AnswerOK ==
  ASSUME IInv, NEW i \in Imports, Answer(i), Observed(i), UNCHANGED mishaps
  PROVE  IInv'
  <1> DEFINE mine == {j \in Imports : journal[j] # Absent /\ run[j].ask.user = run[i].ask.user}
             last == CHOOSE j \in mine : \A k \in mine : journal[k].nth <= journal[j].nth
             q == [run[i] EXCEPT !.pc = "done", !.told = Summary(journal[last])]
  <1>1. /\ Move(i, q) /\ UNCHANGED <<stores, journal>> /\ run[i].pc = "answer" /\ mishaps' \in 0 .. MaxMishaps
    BY DEF Answer, At, IInv
  <1>2. run[i].pc \notin Early \cup {"done"}
    BY <1>1 DEF Early, Loading
  <1>3. DOMAIN run[i] = RunFields
    BY <1>2, Opened
  <1> HIDE DEF last
  <1>4. Onward(q, run[i]) /\ q.pc = "done"
    BY <1>3 DEF Onward, RunFields
  <1> HIDE DEF q
  <1>5. LoopOK(q) /\ q.pc \notin Early \cup Saving \cup Filing \cup Recording \cup Linking \cup Undoing
    BY <1>4 DEF LoopOK, Early, Loading, Saving, Linking, Filing, Recording, Undoing
  <1> QED BY <1>1, <1>2, <1>4, <1>5, Goes

\* An operation fails, or the worker dies.
LEMMA FaultOK ==
  ASSUME IInv, NEW i \in Imports, Fault(i) \/ Crash(i), mishaps' \in 0 .. MaxMishaps, Observed(i)
  PROVE  IInv'
  <1> DEFINE r == run[i]
  <1>1. r.pc \notin Early \cup {"done"}
    <2>1. journal[i] # Absent /\ r.pc # "done" => r.pc \notin Early
      BY DEF IInv, ImportOK, JournalOK
    <2> QED BY <2>1 DEF Fault, Crash, Fallible, Early, Loading
  <1>2. RunTyped(r) /\ DOMAIN r = RunFields /\ LoopOK(r) /\ JournalOK(r, journal[i])
    BY <1>1, Opened
  <1>3. PICK next \in {"failed", "crashed", "unplace"} :
          /\ Goto(i, next) /\ UNCHANGED <<stores, journal>>
          /\ next = "unplace" => r.pc \in Filing /\ r.placed # {}
    BY DEF Fault, Crash, Raised, Filing
  <1> DEFINE q == [r EXCEPT !.pc = next]
  <1>4. Move(i, q) /\ Onward(q, r) /\ q.pc = next
    BY <1>2, <1>3 DEF Goto, Onward, RunFields
  <1> HIDE DEF q
  <1>5. LoopOK(q) /\ q.pc \notin Early \cup Saving \cup Recording \cup Linking \cup Undoing
    BY <1>3, <1>4 DEF LoopOK, Early, Loading, Saving, Linking, Filing, Recording, Undoing, Onward
  <1>6. q.pc \in Filing => journal[i].stage = "files"
    BY <1>2, <1>3, <1>4 DEF JournalOK, Filing
  <1> QED BY <1>1, <1>3, <1>4, <1>5, <1>6, Goes

-------------------------------------------------------------------------------
(* The theorems.                                                           *)

LEMMA InitOK ==
  ASSUME Init
  PROVE  IInv
  <1>1. StoresOK
    <2>1. PICK s \in Stores : parts = s.parts /\ links = s.links /\ records = s.records /\ disk = s.disk
      BY DEF Init
    <2>2. s \in Store
      BY ImportAssumption
    <2> QED BY <2>1, <2>2 DEF StoresOK, Store
  <1>2. ImportOK(NewRun, Absent, {})
    BY DEF ImportOK, NewRun, RunTyped, LoopOK, JournalOK, RunFields, Early, Loading, Saving, Linking, Filing,
           Recording, Undoing
  <1>3. mishaps \in 0 .. MaxMishaps
    BY ImportAssumption DEF Init
  <1> QED BY <1>1, <1>2, <1>3 DEF Init, IInv

LEMMA StepOK ==
  ASSUME IInv, NEW i \in Imports, Step(i)
  PROVE  IInv'
  <1>1. Observed(i) /\ UNCHANGED mishaps
    BY DEF Step
  <1>2. CASE LoadParts(i) \/ LoadBoms(i) \/ LoadFiles(i) \/ JournalStart(i)
    BY <1>1, <1>2, LoadPartsOK, LoadBomsOK, LoadFilesOK, JournalStartOK
  <1>3. CASE CreatePart(i) \/ UpdatePart(i) \/ JournalBoms(i) \/ DeleteLinks(i) \/ InsertLink(i)
    BY <1>1, <1>3, CreatePartOK, UpdatePartOK, JournalBomsOK, DeleteLinksOK, InsertLinkOK
  <1>4. CASE \/ JournalFiles(i) \/ MoveAside(i) \/ PlaceFile(i) \/ JournalMetadata(i) \/ StatFiles(i)
             \/ WriteRecord(i) \/ RecordDiscovered(i) \/ Commit(i)
    BY <1>1, <1>4, JournalFilesOK, MoveAsideOK, PlaceFileOK, JournalMetadataOK, StatFilesOK, WriteRecordOK,
       CommitOK
  <1>5. CASE \/ UnplaceFile(i) \/ JournalFailed(i) \/ UndoPart(i) \/ UndoLinks(i)
             \/ JournalRolledBack(i) \/ JournalFollowup(i) \/ Answer(i)
    <2>1. mishaps' \in 0 .. MaxMishaps
      BY <1>1 DEF IInv
    <2> QED BY <1>1, <1>5, <2>1, UnplaceOK, JournalFailedOK, UndoPartOK, UndoLinksOK, SettleOK, AnswerOK
  <1> QED BY <1>2, <1>3, <1>4, <1>5 DEF Step

LEMMA MishapOK ==
  ASSUME IInv, NEW i \in Imports, Mishap(i)
  PROVE  IInv'
  <1>1. mishaps' \in 0 .. MaxMishaps /\ Observed(i)
    BY ImportAssumption DEF Mishap, IInv
  <1> QED BY <1>1, FaultOK, UnplaceOK, UndoFailsOK DEF Mishap

\* The inductive invariant of the import: documents are typed, the lists of each
\* attempt lie in its plan, and its journal is ahead of its writes.
THEOREM ImportInvariant == SafetySpec => []IInv
  <1>1. Init => IInv
    BY InitOK
  <1>2. IInv /\ [Next]_vars => IInv'
    <2> SUFFICES ASSUME IInv, [Next]_vars PROVE IInv'
      OBVIOUS
    <2>1. CASE Next
      BY <2>1, SubmitOK, StepOK, MishapOK DEF Next
    <2>2. CASE UNCHANGED vars
      BY <2>2 DEF IInv, StoresOK, vars, stores
    <2> QED BY <2>1, <2>2
  <1> QED BY <1>1, <1>2, PTL DEF SafetySpec

\* For any number of imports, packs, stores and mishaps, the documents have
\* their types and the lists an import keeps are about the parts of its plan.
THEOREM ImportTyped == SafetySpec => []TypeOK
  <1>1. IInv => TypeOK
    <2> SUFFICES ASSUME IInv PROVE TypeOK
      OBVIOUS
    <2>1. ASSUME NEW i \in Imports
          PROVE  /\ journal[i] = Absent \/ journal[i] \in Entries
                 /\ LET r == run[i] IN
                    /\ r.backup \in [Pairs -> Bytes \cup {Absent}]
                    /\ r.stuck \subseteq r.created
                    /\ r.created = {} \/ r.created \subseteq {p \in Pairs : r.read.parts[p] = Absent}
                    /\ r.placed = {} \/ r.placed \subseteq FileTargets(r.plan)
      BY DEF IInv, ImportOK, RunTyped, JournalOK
    <2> QED BY <2>1 DEF TypeOK, IInv, StoresOK
  <1> QED BY <1>1, ImportInvariant, PTL

\* For any number of imports, packs, stores and mishaps, what an import has done
\* never runs ahead of its journal, and once the parts are saved the journal
\* names all of it.
THEOREM ImportJournal == SafetySpec => []JournalBounds
  <1>1. IInv => JournalBounds
    <2> SUFFICES ASSUME IInv, NEW i \in Imports, NEW e \in effects[i] PROVE Bounded(e, journal[i])
      BY DEF JournalBounds, Bounded
    <2> QED BY DEF IInv, ImportOK, Covered
  <1> QED BY <1>1, ImportInvariant, PTL

-------------------------------------------------------------------------------
(* What an import keeps of its plan: the second inductive invariant, about *)
(* the pairs of its pack that nobody else wrote since it loaded them.      *)

Placing  == {"move_aside", "place"}
RolledBack(n) == n # Absent /\ n.status = "rolled_back"

\* The files are in place; the parts are saved; the created parts are gone.
Stored(r)    == r.pc \in Recording \cup {"files_written"} \/ r.told = "committed"
Forward(r)   == r.pc \in Linking \cup Placing \/ Stored(r)
Undone(r, n) == r.pc \in {"settle", "report", "answer"} \/ (r.pc = "done" /\ RolledBack(n))

\* The plan is of what was read and within the rights of the user, and the
\* journal says what was left by a rollback.
RunOK(r, n) ==
  /\ r.pc = "start" \/ n # Absent => /\ r.plan = Plan(r.ask.pack, r.ask.policy, r.read)
                                     /\ ~Refused(r.ask, r.plan, r.read)
                                     /\ r.created \subseteq Saved(r)
  /\ r.told = "committed" => r.pc = "done" /\ n # Absent /\ n.status = "committed"
  /\ r.pc = "save" => r.todo \cap r.changed = {}
  /\ Forward(r) => r.changed = Saved(r)
  /\ r.pc = "discover" => FileTargets(r.plan) = {}
  /\ r.pc \in Saving \cup Linking \cup Placing \cup Recording \cup {"files_written"} => n.status = "started"
  /\ r.pc \in Undoing \cup {"settle"} => n.status = "failed"
  /\ r.pc = "report" => n.status = "rolled_back" /\ n.followup = r.stuck
  /\ r.pc = "answer" \/ (r.pc = "done" /\ RolledBack(n)) =>
       (n.followup = {} => r.stuck = {} /\ r.changed \subseteq r.created)

\* Whether the plan, or the rollback, has an effect of this kind on this pair.
Planned(r, n, k, p) ==
  /\ k \in {"create", "delete"} => p \in Saved(r) /\ r.read.parts[p] = Absent
  /\ k = "data"     => r.plan[p].property \in {"add", "replace", "clear"} /\ r.read.parts[p] # Absent
  /\ k = "approval" => r.plan[p].approval \in {"add", "change", "clear"} /\ r.read.parts[p] # Absent
  /\ k = "bom"      => \/ p \in BomParents(r.plan)
                       \/ p \in r.created /\ n # Absent /\ n.status \in {"failed", "rolled_back"}
  /\ k = "file"     => p \in FileTargets(r.plan)

\* Below, doc, bom, file and record are the part of a pair, its links, its
\* deliverable and the record of it.  What the import has not saved is as it
\* was read.
Untouched(r, p, doc, bom) ==
  p \notin r.changed \cup r.created =>
    /\ doc = r.read.parts[p]
    /\ r.pc # "load_boms" /\ Children(r.ask.pack, p) # {} => bom = {l \in r.read.links : l.parent = p}

\* A saved part has the planned fields until a failure.
PartOK(r, p, doc) ==
  p \in r.changed /\ (r.pc \in Saving \/ Forward(r)) =>
    /\ doc # Absent
    /\ [data |-> doc.data, approved |-> doc.approved] = Fields(r.ask.pack, r.plan, r.read, p)

\* The pack's links below p that are not in todo.
Inserted(i, k, p, todo) == {[parent |-> p, child |-> l[2], by |-> i] : l \in {x \in k.links \ todo : x[1] = p}}

\* A BOM that is rewritten is first emptied, then filled link by link.
BomOK(i, r, p, bom) ==
  p \in BomParents(r.plan) =>
    /\ r.pc = "delete_links" /\ p \notin r.todo => bom = {}
    /\ r.pc = "insert_links" => bom = Inserted(i, r.ask.pack, p, r.todo)
    /\ Forward(r) /\ r.pc \notin {"delete_links", "insert_links"} => bom = Inserted(i, r.ask.pack, p, {})

\* A deliverable is placed, then recorded.
FileOK(r, p, file, record) ==
  p \in FileTargets(r.plan) =>
    /\ Stored(r) \/ (r.pc \in Placing /\ p \notin r.todo) => file = r.ask.pack.bytes
    /\ \/ r.pc = "thumbnails" \/ r.told = "committed"
       \/ r.pc = "record" /\ p \notin r.todo
       => record = r.ask.pack.bytes

\* A created part the rollback has dealt with is gone with its links.
UndoneOK(r, n, p, doc, bom) ==
  p \in r.created \ r.stuck =>
    /\ Undone(r, n) \/ (r.pc \in Undoing /\ p \notin r.todo) => doc = Absent /\ bom = {}
    /\ r.pc = "undo_links" /\ p = Min(r.todo) => doc = Absent

PairOK(i, r, n, p, doc, bom, file, record) ==
  /\ Untouched(r, p, doc, bom)
  /\ PartOK(r, p, doc)
  /\ BomOK(i, r, p, bom)
  /\ FileOK(r, p, file, record)
  /\ UndoneOK(r, n, p, doc, bom)

Unread == {"idle", "load_parts"}

Promised(i) ==
  /\ RunOK(run[i], journal[i])
  /\ run[i].pc \notin Unread => \A p \in Own(i) :
       /\ PairOK(i, run[i], journal[i], p, parts[p], LinksOf(p), disk[p], records[p])
       /\ \A k \in Kinds : <<k, p>> \in effects[i] => Planned(run[i], journal[i], k, p)

Promises ==
  /\ DOMAIN raced = Imports
  /\ \A i \in Imports : effects[i] \subseteq Kinds \X Pairs
  /\ \A i \in Imports : Promised(i)

-------------------------------------------------------------------------------
(* Imports beside each other.                                              *)

\* A document keeps its identity until it is deleted.
SameDocs == \A p \in Pairs : parts[p] # Absent /\ parts'[p] # Absent => parts'[p].id = parts[p].id

LEMMA DocsKept ==
  ASSUME IInv, IInv', NEW i \in Imports, Step(i) \/ Mishap(i)
  PROVE  SameDocs
  <1>1. parts \in [Pairs -> Doc \cup {Absent}]
    BY DEF IInv, StoresOK
  <1>2. CASE UNCHANGED parts
    BY <1>2 DEF SameDocs
  <1>3. CASE CreatePart(i)
    <2>1. \/ UNCHANGED parts
          \/ parts[Head1(i)] = Absent /\ \E doc : parts' = [parts EXCEPT ![Head1(i)] = doc]
      BY <1>3 DEF CreatePart
    <2> QED BY <1>1, <2>1 DEF SameDocs
  <1>4. CASE UpdatePart(i)
    <2>1. \/ UNCHANGED parts
          \/ /\ parts[Head1(i)] # Absent
             /\ \E x, y : parts' = [parts EXCEPT ![Head1(i)] = [@ EXCEPT !.data = x, !.approved = y]]
      BY <1>4 DEF UpdatePart, Overwrite
    <2>2. ASSUME NEW x, NEW y, parts[Head1(i)] # Absent,
                 parts' = [parts EXCEPT ![Head1(i)] = [@ EXCEPT !.data = x, !.approved = y]]
          PROVE  SameDocs
      <3>1. ASSUME NEW p \in Pairs, parts[p] # Absent PROVE parts'[p].id = parts[p].id
        <4>1. parts[p] \in Doc
          BY <1>1, <3>1
        <4> QED BY <1>1, <2>2, <4>1 DEF Doc
      <3> QED BY <3>1 DEF SameDocs
    <2> QED BY <2>1, <2>2 DEF SameDocs
  <1>5. CASE UndoPart(i)
    BY <1>1, <1>5 DEF UndoPart, SameDocs
  <1>6. Step(i) => UNCHANGED parts \/ CreatePart(i) \/ UpdatePart(i) \/ UndoPart(i)
    BY
       DEF Step, stores, LoadParts, LoadBoms, LoadFiles, JournalStart, JournalBoms, DeleteLinks, InsertLink, JournalFiles,
           MoveAside, PlaceFile, JournalMetadata, StatFiles, WriteRecord, RecordDiscovered, Commit, UnplaceFile,
           JournalFailed, UndoLinks, JournalRolledBack, JournalFollowup, Answer
  <1>7. Mishap(i) => UNCHANGED parts
    BY DEF Mishap, stores, Fault, UnplaceFails, UndoFails, Crash
  <1> QED BY <1>2, <1>3, <1>4, <1>5, <1>6, <1>7

\* Where nothing shows in the history, nothing was written.
LEMMA Unwritten ==
  ASSUME IInv, IInv', SameDocs, NEW p \in Pairs, \A k \in Kinds : ~Effect(k, p)
  PROVE  parts'[p] = parts[p] /\ LinksOf(p)' = LinksOf(p) /\ disk'[p] = disk[p] /\ records'[p] = records[p]
  <1>1. /\ ~Effect("create", p) /\ ~Effect("delete", p) /\ ~Effect("data", p) /\ ~Effect("approval", p)
        /\ ~Effect("bom", p) /\ ~Effect("file", p) /\ ~Effect("record", p)
    BY DEF Kinds
  <1>2. LinksOf(p)' = LinksOf(p) /\ disk'[p] = disk[p] /\ records'[p] = records[p]
    BY <1>1 DEF Effect
  <1>3. parts[p] \in Doc \cup {Absent} /\ parts'[p] \in Doc \cup {Absent}
    BY DEF IInv, StoresOK
  <1>4. CASE parts[p] = Absent \/ parts'[p] = Absent
    BY <1>1, <1>4 DEF Effect
  <1>5. CASE parts[p] # Absent /\ parts'[p] # Absent
    <2>1. parts'[p].data = parts[p].data /\ parts'[p].approved = parts[p].approved /\ parts'[p].id = parts[p].id
      BY <1>1, <1>5 DEF Effect, SameDocs
    <2>2. parts[p] \in Doc /\ parts'[p] \in Doc
      BY <1>3, <1>5
    <2> QED BY <1>2, <2>1, <2>2 DEF Doc
  <1> QED BY <1>2, <1>4, <1>5

LEMMA OthersKeep ==
  ASSUME IInv, IInv', SameDocs, Promises, NEW i \in Imports, NEW j \in Imports \ {i}, Observed(i),
         run'[j] = run[j], journal'[j] = journal[j]
  PROVE  Promised(j)'
  <1>1. effects'[j] = effects[j]
    BY DEF Observed, IInv
  <1>2. RunOK(run'[j], journal'[j])
    BY DEF Promises, Promised
  <1>3. ASSUME run[j].pc \notin Unread, NEW p \in Own(j)'
        PROVE  /\ PairOK(j, run'[j], journal'[j], p, parts'[p], LinksOf(p)', disk'[p], records'[p])
               /\ \A k \in Kinds : <<k, p>> \in effects'[j] => Planned(run'[j], journal'[j], k, p)
    <2> DEFINE new == {e \in Kinds \X Pairs : Effect(e[1], e[2])}
               hit == {e[2] : e \in new}
    <2>1. run[j].read \in Store /\ run[j].read # Absent /\ run[j].ask.pack \in Pack
      <3>1. RunTyped(run[j])
        BY DEF IInv, ImportOK
      <3> QED BY <1>3, <3>1, ImportAssumption DEF RunTyped, Unread
    <2>2. raced'[j] = raced[j] \cup hit
      BY <2>1 DEF Observed
    <2>3. p \in Pairs /\ p \in Own(j) /\ p \notin hit
      BY <1>3, <2>1, <2>2 DEF Own, Pack
    <2>4. \A k \in Kinds : ~Effect(k, p)
      <3>1. ASSUME NEW k \in Kinds, Effect(k, p) PROVE FALSE
        <4>1. <<k, p>> \in new
          BY <2>3, <3>1
        <4>2. <<k, p>>[2] \in hit
          BY <4>1
        <4> QED BY <2>3, <4>2
      <3> QED BY <3>1
    <2>5. parts'[p] = parts[p] /\ LinksOf(p)' = LinksOf(p) /\ disk'[p] = disk[p] /\ records'[p] = records[p]
      BY <2>3, <2>4, Unwritten
    <2>6. PairOK(j, run[j], journal[j], p, parts[p], LinksOf(p), disk[p], records[p])
      BY <1>3, <2>3 DEF Promises, Promised
    <2>7. \A k \in Kinds : <<k, p>> \in effects[j] => Planned(run[j], journal[j], k, p)
      BY <1>3, <2>3 DEF Promises, Promised
    <2> QED BY <1>1, <2>5, <2>6, <2>7
  <1> QED BY <1>2, <1>3 DEF Promised

-------------------------------------------------------------------------------
(* What has to be shown of a step of an import for itself.                 *)

\* The state of a pair in the next state.
PairNext(i, p) == PairOK(i, run'[i], journal'[i], p, parts'[p], LinksOf(p)', disk'[p], records'[p])

LEMMA OwnStep ==
  ASSUME IInv, NEW i \in Imports, Promised(i), Observed(i), DOMAIN raced = Imports,
         run[i].pc \notin Unread, run'[i].ask = run[i].ask,
         RunOK(run'[i], journal'[i]),
         \A p \in Own(i) : PairNext(i, p),
         \A p \in Own(i), k \in Kinds :
           Effect(k, p) \/ Planned(run[i], journal[i], k, p) => Planned(run'[i], journal'[i], k, p)
  PROVE  Promised(i)'
  <1>1. raced'[i] = raced[i]
    BY DEF Observed
  <1>2. Own(i)' = Own(i)
    BY <1>1 DEF Own
  <1>3. ASSUME NEW p \in Own(i), NEW k \in Kinds, <<k, p>> \in effects'[i]
        PROVE  Planned(run'[i], journal'[i], k, p)
    <2>1. effects'[i] = effects[i] \cup {e \in Kinds \X Pairs : Effect(e[1], e[2])}
      BY DEF Observed, IInv
    <2>2. <<k, p>> \in effects[i] \/ Effect(k, p)
      BY <1>3, <2>1
    <2>3. <<k, p>> \in effects[i] => Planned(run[i], journal[i], k, p)
      BY DEF Promised
    <2> QED BY <2>2, <2>3
  <1> QED BY <1>2, <1>3 DEF Promised, PairNext

\* The pairs of a pack.
LEMMA OwnPairs ==
  ASSUME IInv, NEW i \in Imports, run[i].pc # "idle"
  PROVE  run[i].ask \in Requests /\ run[i].ask.pack \in Pack /\ Own(i) \subseteq Pairs
  <1>1. run[i].ask \in Requests
    BY DEF IInv, ImportOK, RunTyped
  <1>2. run[i].ask.pack \in Pack
    BY <1>1, ImportAssumption
  <1> QED BY <1>1, <1>2 DEF Pack, Own

\* Runs with the same plan and lists.
Alike(q, r) == /\ q.ask = r.ask /\ q.read = r.read /\ q.plan = r.plan /\ q.created = r.created
               /\ q.changed = r.changed

LEMMA PlannedStays ==
  ASSUME NEW r, NEW n, NEW q, NEW m, NEW k, NEW p, q.ask = r.ask, q.read = r.read, q.plan = r.plan,
         r.created \subseteq q.created,
         n # Absent /\ n.status \in {"failed", "rolled_back"} => m # Absent /\ m.status \in {"failed", "rolled_back"},
         Planned(r, n, k, p)
  PROVE  Planned(q, m, k, p)
  BY DEF Planned, Saved

-------------------------------------------------------------------------------
(* Steps that write nothing or the journal.                                *)

\* A step that writes none of the stores and changes no list: what is known
\* of the pairs must be known in the new place.
LEMMA QuietStep ==
  ASSUME IInv, NEW i \in Imports, Promised(i), Observed(i), DOMAIN raced = Imports, UNCHANGED stores,
         run[i].pc \notin Unread \cup {"load_boms"}, run'[i].pc # "load_boms", Alike(run'[i], run[i]),
         LET n == journal[i] m == journal'[i] IN
           n # Absent /\ n.status \in {"failed", "rolled_back"} => m # Absent /\ m.status \in {"failed", "rolled_back"},
         RunOK(run'[i], journal'[i]),
         \A p \in Own(i) :
           /\ PartOK(run'[i], p, parts[p])
           /\ BomOK(i, run'[i], p, LinksOf(p))
           /\ FileOK(run'[i], p, disk[p], records[p])
           /\ UndoneOK(run'[i], journal'[i], p, parts[p], LinksOf(p))
  PROVE  Promised(i)'
  <1>1. ASSUME NEW p \in Own(i) PROVE PairNext(i, p)
    <2>1. LinksOf(p)' = LinksOf(p) /\ parts' = parts /\ disk' = disk /\ records' = records
      BY DEF stores, LinksOf
    <2>2. Untouched(run[i], p, parts[p], LinksOf(p))
      BY DEF Promised, PairOK
    <2>3. Untouched(run'[i], p, parts[p], LinksOf(p))
      BY <2>2 DEF Untouched, Alike
    <2> QED BY <2>1, <2>3 DEF PairNext, PairOK
  <1>2. \A p \in Own(i), k \in Kinds : ~Effect(k, p)
    <2>1. run[i].pc # "idle"
      BY DEF Unread
    <2> QED BY <2>1, NoEffect, OwnPairs
  <1>3. \A p \in Own(i), k \in Kinds : Planned(run[i], journal[i], k, p) => Planned(run'[i], journal'[i], k, p)
    BY PlannedStays DEF Alike
  <1>4. run'[i].ask = run[i].ask
    BY DEF Alike
  <1> QED BY <1>1, <1>2, <1>3, <1>4, OwnStep

\* Where an import is, for the definitions above.
LEMMA Pairwise ==
  ASSUME NEW i \in Imports, Promised(i), run[i].pc \notin Unread, NEW p \in Own(i)
  PROVE  /\ Untouched(run[i], p, parts[p], LinksOf(p))
         /\ PartOK(run[i], p, parts[p])
         /\ BomOK(i, run[i], p, LinksOf(p))
         /\ FileOK(run[i], p, disk[p], records[p])
         /\ UndoneOK(run[i], journal[i], p, parts[p], LinksOf(p))
  BY DEF Promised, PairOK

LEMMA JournalFilesKept ==
  ASSUME IInv, NEW i \in Imports, Promised(i), Observed(i), DOMAIN raced = Imports, JournalFiles(i)
  PROVE  Promised(i)'
  <1> DEFINE r == run[i]
             q == run'[i]
  <1>1. r.pc = "boms_written" /\ UNCHANGED stores
    BY DEF JournalFiles, At
  <1>2. RunTyped(r) /\ DOMAIN r = RunFields /\ journal[i] \in Entries /\ journal[i] # Absent
    BY <1>1, Opened DEF Early, Loading
  <1>3. /\ Alike(q, r) /\ q.told = r.told /\ q.todo = FileTargets(r.plan)
        /\ q.pc = (IF q.todo = {} THEN "files_written" ELSE "move_aside")
    BY <1>2 DEF JournalFiles, Move, IInv, Alike, RunFields
  <1>4. /\ journal'[i].status = journal[i].status /\ journal'[i] # Absent
    <2>1. journal'[i] = [journal[i] EXCEPT !.stage = "files"]
      BY DEF JournalFiles, Note, IInv
    <2>2. [journal[i] EXCEPT !.stage = "files"] \in Entries
      BY <1>2 DEF Entries, Stages
    <2> QED BY <1>2, <2>1, <2>2, ImportAssumption DEF Entries
  <1>5. RunOK(r, journal[i])
    BY DEF Promised
  <1> HIDE DEF q
  <1>6. RunOK(q, journal'[i])
    BY <1>1, <1>2, <1>3, <1>4, <1>5
       DEF RunOK, Alike, Saved, Forward, Stored, Saving, Linking, Placing, Recording, Undoing
  <1>7. ASSUME NEW p \in Own(i)
        PROVE  /\ PartOK(q, p, parts[p]) /\ BomOK(i, q, p, LinksOf(p))
               /\ FileOK(q, p, disk[p], records[p]) /\ UndoneOK(q, journal'[i], p, parts[p], LinksOf(p))
    <2>1. /\ PartOK(r, p, parts[p]) /\ BomOK(i, r, p, LinksOf(p))
      BY <1>1, Pairwise DEF Unread
    <2>2. PartOK(q, p, parts[p])
      BY <1>1, <1>3, <2>1 DEF PartOK, Alike, Forward, Stored, Saving, Linking, Placing, Recording
    <2>3. BomOK(i, q, p, LinksOf(p))
      BY <1>1, <1>3, <2>1 DEF BomOK, Alike, Forward, Stored, Linking, Placing, Recording
    <2>4. FileOK(q, p, disk[p], records[p])
      BY <1>1, <1>3, <1>5 DEF FileOK, Alike, Stored, Placing, Recording, RunOK
    <2>5. UndoneOK(q, journal'[i], p, parts[p], LinksOf(p))
      BY <1>3 DEF UndoneOK, Undone, Undoing
    <2> QED BY <2>2, <2>3, <2>4, <2>5
  <1>8. r.pc \notin Unread \cup {"load_boms"} /\ q.pc # "load_boms"
    BY <1>1, <1>3 DEF Unread
  <1> QED BY <1>1, <1>3, <1>4, <1>6, <1>7, <1>8, QuietStep DEF q

\* What is known of an import between the opening of its journal and its end.
LEMMA Running ==
  ASSUME IInv, NEW i \in Imports, Promised(i), run[i].pc \notin Early \cup {"done"}
  PROVE  /\ RunTyped(run[i]) /\ DOMAIN run[i] = RunFields /\ LoopOK(run[i]) /\ JournalOK(run[i], journal[i])
         /\ journal[i] \in Entries /\ journal[i] # Absent /\ RunOK(run[i], journal[i])
         /\ run[i].told # "committed" /\ run[i].pc \notin Unread \cup {"load_boms"}
  <1>1. RunOK(run[i], journal[i])
    BY DEF Promised
  <1>2. run[i].told # "committed" /\ run[i].pc \notin Unread \cup {"load_boms"}
    BY <1>1 DEF RunOK, Early, Loading, Unread
  <1> QED BY <1>1, <1>2, Opened

LEMMA NotedAs ==
  ASSUME IInv, NEW i \in Imports, NEW n \in Entries, Note(i, n)
  PROVE  journal'[i] = n /\ journal'[i] # Absent
  BY ImportAssumption DEF IInv, Note

LEMMA JournalMetadataKept ==
  ASSUME IInv, NEW i \in Imports, Promised(i), Observed(i), DOMAIN raced = Imports, JournalMetadata(i)
  PROVE  Promised(i)'
  <1> DEFINE r == run[i]
             q == run'[i]
             n == [journal[i] EXCEPT !.stage = "file_metadata"]
  <1>1. r.pc = "files_written" /\ UNCHANGED stores /\ Note(i, n)
    BY DEF JournalMetadata, At
  <1>2. /\ DOMAIN r = RunFields /\ journal[i] \in Entries /\ journal[i] # Absent /\ RunOK(r, journal[i])
        /\ r.told # "committed" /\ r.pc \notin Unread \cup {"load_boms"}
    BY <1>1, Running DEF Early, Loading
  <1>3. Alike(q, r) /\ q.told = r.told /\ q.todo = r.todo /\ q.pc = "stat"
    BY <1>2 DEF JournalMetadata, Goto, Move, IInv, Alike, RunFields
  <1>4. journal'[i].status = journal[i].status /\ journal'[i] # Absent
    <2>1. n \in Entries /\ n.status = journal[i].status
      BY <1>2 DEF Entries, Stages
    <2> QED BY <1>1, <2>1, NotedAs
  <1> HIDE DEF q
  <1>6. RunOK(q, journal'[i])
    BY <1>1, <1>2, <1>3, <1>4 DEF RunOK, Alike, Saved, Forward, Stored, Saving, Linking, Placing, Recording, Undoing
  <1>7. ASSUME NEW p \in Own(i)
        PROVE  /\ PartOK(q, p, parts[p]) /\ BomOK(i, q, p, LinksOf(p))
               /\ FileOK(q, p, disk[p], records[p]) /\ UndoneOK(q, journal'[i], p, parts[p], LinksOf(p))
    <2>1. PartOK(r, p, parts[p]) /\ BomOK(i, r, p, LinksOf(p)) /\ FileOK(r, p, disk[p], records[p])
      BY <1>2, Pairwise
    <2>2. PartOK(q, p, parts[p])
      BY <1>1, <1>3, <2>1 DEF PartOK, Alike, Forward, Stored, Saving, Linking, Placing, Recording
    <2>3. BomOK(i, q, p, LinksOf(p))
      BY <1>1, <1>3, <2>1 DEF BomOK, Alike, Forward, Stored, Linking, Placing, Recording
    <2>4. FileOK(q, p, disk[p], records[p])
      BY <1>1, <1>2, <1>3, <2>1 DEF FileOK, Alike, Stored, Placing, Recording
    <2>5. UndoneOK(q, journal'[i], p, parts[p], LinksOf(p))
      BY <1>3 DEF UndoneOK, Undone, Undoing
    <2> QED BY <2>2, <2>3, <2>4, <2>5
  <1> QED BY <1>1, <1>2, <1>3, <1>4, <1>6, <1>7, QuietStep DEF q

\* An import that stops, fails or begins to put its files back owes nothing.
LEMMA Stops ==
  ASSUME IInv, NEW i \in Imports, Promised(i), Observed(i), DOMAIN raced = Imports, UNCHANGED <<stores, journal>>,
         run[i].pc \notin Early \cup {"done"}, NEW next \in {"failed", "crashed", "unplace"}, Goto(i, next)
  PROVE  Promised(i)'
  <1> DEFINE r == run[i]
             q == run'[i]
  <1>2. /\ DOMAIN r = RunFields /\ journal[i] \in Entries /\ journal[i] # Absent /\ RunOK(r, journal[i])
        /\ r.told # "committed" /\ r.pc \notin Unread \cup {"load_boms"}
    BY Running
  <1>3. Alike(q, r) /\ q.told = r.told /\ q.todo = r.todo /\ q.pc \in {"failed", "crashed", "unplace"}
    BY <1>2 DEF Goto, Move, IInv, Alike, RunFields
  <1>4. UNCHANGED stores /\ journal'[i] = journal[i]
    OBVIOUS
  <1> HIDE DEF q
  <1>6. RunOK(q, journal'[i])
    BY <1>2, <1>3 DEF RunOK, Alike, Saved, Forward, Stored, Saving, Linking, Placing, Recording, Undoing
  <1>7. ASSUME NEW p \in Own(i)
        PROVE  /\ PartOK(q, p, parts[p]) /\ BomOK(i, q, p, LinksOf(p))
               /\ FileOK(q, p, disk[p], records[p]) /\ UndoneOK(q, journal'[i], p, parts[p], LinksOf(p))
    BY <1>2, <1>3 DEF PartOK, BomOK, FileOK, UndoneOK, Undone, Forward, Stored, Saving, Linking, Placing, Recording,
                      Undoing
  <1> QED BY <1>2, <1>3, <1>4, <1>6, <1>7, QuietStep DEF q

LEMMA FaultKept ==
  ASSUME IInv, NEW i \in Imports, Promised(i), Observed(i), DOMAIN raced = Imports, Fault(i) \/ Crash(i)
  PROVE  Promised(i)'
  <1>1. run[i].pc \notin Early \cup {"done"}
    <2>1. journal[i] # Absent /\ run[i].pc # "done" => run[i].pc \notin Early
      BY DEF IInv, ImportOK, JournalOK
    <2> QED BY <2>1 DEF Fault, Crash, Fallible, Early, Loading
  <1>2. PICK next \in {"failed", "crashed", "unplace"} : Goto(i, next) /\ UNCHANGED <<stores, journal>>
    BY DEF Fault, Crash, Raised
  <1> QED BY <1>1, <1>2, Stops

LEMMA StatFilesKept ==
  ASSUME IInv, NEW i \in Imports, Promised(i), Observed(i), DOMAIN raced = Imports, StatFiles(i)
  PROVE  Promised(i)'
  <1> DEFINE r == run[i]
             q == run'[i]
             s == FileTargets(r.plan)
             d == Discovered(r.ask.pack, r.ask.policy, r.read)
  <1>1. r.pc = "stat" /\ UNCHANGED <<stores, journal>> /\ r.pc \notin Early \cup {"done"}
    BY DEF StatFiles, At, Early, Loading
  <1>2. /\ DOMAIN r = RunFields /\ journal[i] \in Entries /\ journal[i] # Absent /\ RunOK(r, journal[i])
        /\ r.told # "committed" /\ r.pc \notin Unread \cup {"load_boms"}
    BY <1>1, Running
  <1>3. CASE Goto(i, "failed")
    BY <1>1, <1>3, Stops
  <1>4. CASE ~Goto(i, "failed")
    <2>1. /\ Alike(q, r) /\ q.told = r.told /\ q.todo = s \cup d
          /\ q.pc = (IF s # {} THEN "record" ELSE IF d # {} THEN "discover" ELSE "thumbnails")
      <3>1. Move(i, [r EXCEPT !.todo = s \cup d,
                       !.pc = IF s # {} THEN "record" ELSE IF d # {} THEN "discover" ELSE "thumbnails"])
        BY <1>4 DEF StatFiles
      <3> HIDE DEF s, d
      <3> QED BY <1>2, <3>1 DEF Move, IInv, Alike, RunFields
    <2>2. UNCHANGED stores /\ journal'[i] = journal[i] /\ q.pc \in {"record", "discover", "thumbnails"}
      BY <1>1, <2>1
    <2> HIDE DEF q, d
    <2>3. RunOK(q, journal'[i])
      BY <1>1, <1>2, <2>1, <2>2 DEF RunOK, Alike, Saved, Forward, Stored, Saving, Linking, Placing, Recording, Undoing
    <2>4. ASSUME NEW p \in Own(i)
          PROVE  /\ PartOK(q, p, parts[p]) /\ BomOK(i, q, p, LinksOf(p))
                 /\ FileOK(q, p, disk[p], records[p]) /\ UndoneOK(q, journal'[i], p, parts[p], LinksOf(p))
      <3>1. PartOK(r, p, parts[p]) /\ BomOK(i, r, p, LinksOf(p)) /\ FileOK(r, p, disk[p], records[p])
        BY <1>2, Pairwise
      <3>2. PartOK(q, p, parts[p])
        BY <1>1, <2>1, <2>2, <3>1 DEF PartOK, Alike, Forward, Stored, Saving, Linking, Placing, Recording
      <3>3. BomOK(i, q, p, LinksOf(p))
        BY <1>1, <2>1, <2>2, <3>1 DEF BomOK, Alike, Forward, Stored, Linking, Placing, Recording
      <3>4. FileOK(q, p, disk[p], records[p])
        BY <1>1, <1>2, <2>1, <2>2, <3>1 DEF FileOK, Alike, Stored, Placing, Recording
      <3>5. UndoneOK(q, journal'[i], p, parts[p], LinksOf(p))
        BY <2>2 DEF UndoneOK, Undone, Undoing
      <3> QED BY <3>2, <3>3, <3>4, <3>5
    <2>5. q.pc # "load_boms"
      BY <2>2
    <2> QED BY <1>2, <2>1, <2>2, <2>3, <2>4, <2>5, QuietStep DEF q
  <1> QED BY <1>3, <1>4

LEMMA CommitKept ==
  ASSUME IInv, NEW i \in Imports, Promised(i), Observed(i), DOMAIN raced = Imports, Commit(i)
  PROVE  Promised(i)'
  <1> DEFINE r == run[i]
             q == run'[i]
             n == [journal[i] EXCEPT !.status = "committed", !.stage = "done"]
  <1>1. r.pc = "thumbnails" /\ UNCHANGED stores /\ Note(i, n)
    BY DEF Commit, At
  <1>2. /\ DOMAIN r = RunFields /\ journal[i] \in Entries /\ journal[i] # Absent /\ RunOK(r, journal[i])
        /\ r.told # "committed" /\ r.pc \notin Unread \cup {"load_boms"} /\ JournalOK(r, journal[i])
    BY <1>1, Running DEF Early, Loading
  <1>3. Alike(q, r) /\ q.told = "committed" /\ q.todo = r.todo /\ q.pc = "done"
    BY <1>2 DEF Commit, Move, IInv, Alike, RunFields
  <1>4. journal'[i].status = "committed" /\ journal'[i] # Absent
    <2>1. n \in Entries /\ n.status = "committed"
      BY <1>2 DEF Entries, Stages
    <2> QED BY <1>1, <2>1, NotedAs
  <1> HIDE DEF q
  <1>6. RunOK(q, journal'[i])
    BY <1>1, <1>2, <1>3, <1>4
       DEF RunOK, Alike, Saved, Forward, Stored, Saving, Linking, Placing, Recording, Undoing, RolledBack
  <1>7. ASSUME NEW p \in Own(i)
        PROVE  /\ PartOK(q, p, parts[p]) /\ BomOK(i, q, p, LinksOf(p))
               /\ FileOK(q, p, disk[p], records[p]) /\ UndoneOK(q, journal'[i], p, parts[p], LinksOf(p))
    <2>1. PartOK(r, p, parts[p]) /\ BomOK(i, r, p, LinksOf(p)) /\ FileOK(r, p, disk[p], records[p])
      BY <1>2, Pairwise
    <2>2. PartOK(q, p, parts[p])
      BY <1>1, <1>3, <2>1 DEF PartOK, Alike, Forward, Stored, Saving, Linking, Placing, Recording
    <2>3. BomOK(i, q, p, LinksOf(p))
      BY <1>1, <1>3, <2>1 DEF BomOK, Alike, Forward, Stored, Linking, Placing, Recording
    <2>4. FileOK(q, p, disk[p], records[p])
      BY <1>1, <1>2, <1>3, <2>1 DEF FileOK, Alike, Stored, Placing, Recording
    <2>5. UndoneOK(q, journal'[i], p, parts[p], LinksOf(p))
      BY <1>3, <1>4 DEF UndoneOK, Undone, Undoing, RolledBack
    <2> QED BY <2>2, <2>3, <2>4, <2>5
  <1>8. journal[i].status \notin {"failed", "rolled_back"}
    BY <1>1, <1>2 DEF RunOK, Recording
  <1> QED BY <1>1, <1>2, <1>3, <1>4, <1>6, <1>7, <1>8, QuietStep DEF q

LEMMA JournalStartKept ==
  ASSUME IInv, NEW i \in Imports, Promised(i), Observed(i), DOMAIN raced = Imports, JournalStart(i)
  PROVE  Promised(i)'
  <1> DEFINE r == run[i]
             q == run'[i]
             s == Saved(r)
             nth == Cardinality({j \in Imports : journal[j] # Absent})
             n == [status |-> "started", stage |-> "parts", touched |-> {}, followup |-> {}, nth |-> nth]
  <1>1. /\ r.pc = "start" /\ UNCHANGED stores /\ Note(i, n)
        /\ Move(i, [r EXCEPT !.todo = s, !.pc = IF s = {} THEN "touch" ELSE "save"])
    BY DEF JournalStart, At, Saved
  <1>2. /\ RunTyped(r) /\ DOMAIN r = RunFields /\ RunOK(r, journal[i]) /\ journal[i] = Absent
        /\ r.created = {} /\ r.changed = {} /\ r.told # "committed"
    <2>1. RunTyped(r) /\ JournalOK(r, journal[i]) /\ RunOK(r, journal[i])
      BY DEF IInv, ImportOK, Promised
    <2> QED BY <1>1, <2>1 DEF RunTyped, JournalOK, RunOK, Early
  <1>3. /\ Alike(q, r) /\ q.told = r.told /\ q.todo = s /\ q.pc = (IF s = {} THEN "touch" ELSE "save")
    <2> HIDE DEF s
    <2> QED BY <1>1, <1>2 DEF Move, IInv, Alike, RunFields
  <1>4. journal'[i].status = "started" /\ journal'[i] # Absent
    <2>1. n \in Entries
      <3>1. nth \in Nat
        BY FS_Subset, FS_CardinalityType, ImportAssumption
      <3> QED BY <3>1 DEF Entries, Stages
    <2>2. n.status = "started"
      OBVIOUS
    <2> QED BY <1>1, <2>1, <2>2, NotedAs
  <1> HIDE DEF q, s, n
  <1>5. r.pc \notin Unread \cup {"load_boms"} /\ q.pc \in {"save", "touch"}
    BY <1>1, <1>3 DEF Unread
  <1>6. RunOK(q, journal'[i])
    BY <1>1, <1>2, <1>3, <1>4, <1>5
       DEF RunOK, Alike, Saved, Forward, Stored, Saving, Linking, Placing, Recording, Undoing
  <1>7. ASSUME NEW p \in Own(i)
        PROVE  /\ PartOK(q, p, parts[p]) /\ BomOK(i, q, p, LinksOf(p))
               /\ FileOK(q, p, disk[p], records[p]) /\ UndoneOK(q, journal'[i], p, parts[p], LinksOf(p))
    BY <1>2, <1>3, <1>5
       DEF PartOK, BomOK, FileOK, UndoneOK, Undone, Forward, Stored, Saving, Linking, Placing, Recording,
                      Undoing, Alike
  <1> QED BY <1>1, <1>2, <1>3, <1>4, <1>5, <1>6, <1>7, QuietStep DEF q

LEMMA JournalBomsKept ==
  ASSUME IInv, NEW i \in Imports, Promised(i), Observed(i), DOMAIN raced = Imports, JournalBoms(i)
  PROVE  Promised(i)'
  <1> DEFINE r == run[i]
             q == run'[i]
             s == BomParents(r.plan)
             n == [journal[i] EXCEPT !.stage = "boms", !.touched = r.changed]
  <1>1. /\ r.pc = "touch" /\ UNCHANGED stores /\ Note(i, n)
        /\ Move(i, [r EXCEPT !.todo = s, !.pc = IF s = {} THEN "boms_written" ELSE "delete_links"])
    BY DEF JournalBoms, At
  <1>2. /\ RunTyped(r) /\ DOMAIN r = RunFields /\ journal[i] \in Entries /\ journal[i] # Absent /\ RunOK(r, journal[i])
        /\ r.told # "committed" /\ r.pc \notin Unread \cup {"load_boms"} /\ LoopOK(r)
    BY <1>1, Running DEF Early, Loading
  <1>3. /\ Alike(q, r) /\ q.told = r.told /\ q.todo = s
        /\ q.pc = (IF s = {} THEN "boms_written" ELSE "delete_links")
    <2> HIDE DEF s
    <2> QED BY <1>1, <1>2 DEF Move, IInv, Alike, RunFields
  <1>4. journal'[i].status = journal[i].status /\ journal'[i] # Absent
    <2>1. n \in Entries /\ n.status = journal[i].status
      BY <1>2 DEF Entries, Stages, RunTyped
    <2> QED BY <1>1, <2>1, NotedAs
  <1>5. q.pc \in {"boms_written", "delete_links"} /\ r.changed = Saved(r)
    BY <1>1, <1>2, <1>3 DEF LoopOK
  <1> HIDE DEF q, n
  <1>6. RunOK(q, journal'[i])
    BY <1>1, <1>2, <1>3, <1>4, <1>5
       DEF RunOK, Alike, Saved, Forward, Stored, Saving, Linking, Placing, Recording, Undoing
  <1>7. ASSUME NEW p \in Own(i)
        PROVE  /\ PartOK(q, p, parts[p]) /\ BomOK(i, q, p, LinksOf(p))
               /\ FileOK(q, p, disk[p], records[p]) /\ UndoneOK(q, journal'[i], p, parts[p], LinksOf(p))
    <2>1. PartOK(r, p, parts[p])
      BY <1>2, Pairwise
    <2>2. PartOK(q, p, parts[p])
      BY <1>1, <1>3, <2>1 DEF PartOK, Alike, Saving
    <2>3. BomOK(i, q, p, LinksOf(p))
      BY <1>3 DEF BomOK, Alike
    <2>4. FileOK(q, p, disk[p], records[p]) /\ UndoneOK(q, journal'[i], p, parts[p], LinksOf(p))
      BY <1>2, <1>3, <1>5 DEF FileOK, UndoneOK, Undone, Stored, Placing, Recording, Undoing
    <2> QED BY <2>2, <2>3, <2>4
  <1>8. q.pc # "load_boms"
    BY <1>5
  <1> QED BY <1>1, <1>2, <1>3, <1>4, <1>6, <1>7, <1>8, QuietStep DEF q

LEMMA JournalFailedKept ==
  ASSUME IInv, NEW i \in Imports, Promised(i), Observed(i), DOMAIN raced = Imports, JournalFailed(i)
  PROVE  Promised(i)'
  <1> DEFINE r == run[i]
             q == run'[i]
             n == [journal[i] EXCEPT !.status = "failed"]
  <1>1. r.pc = "failed" /\ UNCHANGED stores /\ Note(i, n)
    BY DEF JournalFailed, At
  <1>2. /\ DOMAIN r = RunFields /\ journal[i] \in Entries /\ journal[i] # Absent /\ RunOK(r, journal[i])
        /\ r.told # "committed" /\ r.pc \notin Unread \cup {"load_boms"}
    BY <1>1, Running DEF Early, Loading
  <1>3. /\ Alike(q, r) /\ q.told = r.told /\ q.todo = r.created
        /\ q.pc = (IF r.created = {} THEN "settle" ELSE "undo")
    BY <1>2 DEF JournalFailed, Move, IInv, Alike, RunFields
  <1>4. journal'[i].status = "failed" /\ journal'[i] # Absent
    <2>1. n \in Entries /\ n.status = "failed"
      BY <1>2 DEF Entries
    <2> QED BY <1>1, <2>1, NotedAs
  <1>5. q.pc \in {"settle", "undo"}
    BY <1>3
  <1> HIDE DEF q, n
  <1>6. RunOK(q, journal'[i])
    BY <1>1, <1>2, <1>3, <1>4, <1>5
       DEF RunOK, Alike, Saved, Forward, Stored, Saving, Linking, Placing, Recording, Undoing
  <1>7. ASSUME NEW p \in Own(i)
        PROVE  /\ PartOK(q, p, parts[p]) /\ BomOK(i, q, p, LinksOf(p))
               /\ FileOK(q, p, disk[p], records[p]) /\ UndoneOK(q, journal'[i], p, parts[p], LinksOf(p))
    <2>1. PartOK(q, p, parts[p]) /\ BomOK(i, q, p, LinksOf(p)) /\ FileOK(q, p, disk[p], records[p])
      BY <1>2, <1>3, <1>5 DEF PartOK, BomOK, FileOK, Forward, Stored, Saving, Linking, Placing, Recording
    <2>2. UndoneOK(q, journal'[i], p, parts[p], LinksOf(p))
      BY <1>3, <1>5 DEF UndoneOK, Undone, Undoing, Alike
    <2> QED BY <2>1, <2>2
  <1>8. q.pc # "load_boms"
    BY <1>5
  <1> QED BY <1>1, <1>2, <1>3, <1>4, <1>6, <1>7, <1>8, QuietStep DEF q

LEMMA SettleKept ==
  ASSUME IInv, NEW i \in Imports, Promised(i), Observed(i), DOMAIN raced = Imports,
         JournalRolledBack(i) \/ JournalFollowup(i)
  PROVE  Promised(i)'
  <1> DEFINE r == run[i]
             q == run'[i]
             updated == r.changed \ r.created
             next == IF r.pc = "settle" THEN "report" ELSE "answer"
             left == IF r.pc = "settle" THEN r.stuck ELSE IF updated # {} THEN updated ELSE journal[i].followup
             n == IF r.pc = "settle" THEN [journal[i] EXCEPT !.status = "rolled_back", !.followup = left]
                  ELSE [journal[i] EXCEPT !.followup = left]
  <1>1. r.pc \in {"settle", "report"} /\ UNCHANGED stores /\ Note(i, n) /\ Goto(i, next)
    <2>1. CASE JournalRolledBack(i)
      BY <2>1 DEF JournalRolledBack, At
    <2>2. CASE JournalFollowup(i)
      BY <2>2 DEF JournalFollowup, At
    <2> QED BY <2>1, <2>2
  <1>2. /\ DOMAIN r = RunFields /\ journal[i] \in Entries /\ journal[i] # Absent /\ RunOK(r, journal[i])
        /\ r.told # "committed" /\ r.pc \notin Unread \cup {"load_boms"} /\ RunTyped(r)
    BY <1>1, Running DEF Early, Loading
  <1>3. Alike(q, r) /\ q.told = r.told /\ q.todo = r.todo /\ q.stuck = r.stuck /\ q.pc = next
    BY <1>1, <1>2 DEF Goto, Move, IInv, Alike, RunFields
  <1>4. journal'[i].status = "rolled_back" /\ journal'[i] # Absent /\ journal'[i].followup = left
    <2>1. left \subseteq Pairs
      BY <1>2 DEF RunTyped, Entries
    <2>2. r.pc = "report" => journal[i].status = "rolled_back"
      BY <1>2 DEF RunOK
    <2> HIDE DEF left
    <2>3. n \in Entries /\ n.status = "rolled_back" /\ n.followup = left
      BY <1>1, <1>2, <2>1, <2>2 DEF Entries
    <2> QED BY <1>1, <2>3, NotedAs
  <1>5. /\ r.pc = "settle" => q.pc = "report" /\ left = r.stuck
        /\ r.pc = "report" => /\ q.pc = "answer"
                              /\ left = {} => r.changed \subseteq r.created /\ journal[i].followup = {}
    BY <1>3
  <1> HIDE DEF q, n, left, next
  <1>6. RunOK(q, journal'[i])
    BY <1>1, <1>2, <1>3, <1>4, <1>5
       DEF RunOK, Alike, Saved, Forward, Stored, Saving, Linking, Placing, Recording, Undoing
  <1>7. ASSUME NEW p \in Own(i)
        PROVE  /\ PartOK(q, p, parts[p]) /\ BomOK(i, q, p, LinksOf(p))
               /\ FileOK(q, p, disk[p], records[p]) /\ UndoneOK(q, journal'[i], p, parts[p], LinksOf(p))
    <2>1. PartOK(q, p, parts[p]) /\ BomOK(i, q, p, LinksOf(p)) /\ FileOK(q, p, disk[p], records[p])
      BY <1>1, <1>2, <1>3, <1>5 DEF PartOK, BomOK, FileOK, Forward, Stored, Saving, Linking, Placing, Recording
    <2>2. UndoneOK(r, journal[i], p, parts[p], LinksOf(p))
      BY <1>2, Pairwise
    <2>3. UndoneOK(q, journal'[i], p, parts[p], LinksOf(p))
      BY <1>1, <1>3, <1>5, <2>2 DEF UndoneOK, Undone, Undoing, Alike
    <2> QED BY <2>1, <2>3
  <1>8. q.pc # "load_boms"
    BY <1>1, <1>5
  <1> QED BY <1>1, <1>2, <1>3, <1>4, <1>6, <1>7, <1>8, QuietStep DEF q

LEMMA AnswerKept ==
  ASSUME IInv, NEW i \in Imports, Promised(i), Observed(i), DOMAIN raced = Imports, Answer(i)
  PROVE  Promised(i)'
  <1> DEFINE r == run[i]
             q == run'[i]
  <1>1. /\ r.pc = "answer" /\ UNCHANGED <<stores, journal>>
        /\ \E e : Move(i, [r EXCEPT !.pc = "done", !.told = Summary(e)])
    BY DEF Answer, At
  <1>2. /\ DOMAIN r = RunFields /\ journal[i] \in Entries /\ journal[i] # Absent /\ RunOK(r, journal[i])
        /\ r.told # "committed" /\ r.pc \notin Unread \cup {"load_boms"}
    BY <1>1, Running DEF Early, Loading
  <1>3. Alike(q, r) /\ q.told # "committed" /\ q.stuck = r.stuck /\ q.pc = "done"
    <2>1. PICK e : Move(i, [r EXCEPT !.pc = "done", !.told = Summary(e)])
      BY <1>1
    <2>2. Summary(e) # "committed"
      BY DEF Summary
    <2> QED BY <1>2, <2>1, <2>2 DEF Move, IInv, Alike, RunFields
  <1>4. UNCHANGED stores /\ journal'[i] = journal[i]
    BY <1>1
  <1> HIDE DEF q
  <1>6. RunOK(q, journal'[i])
    BY <1>1, <1>2, <1>3, <1>4 DEF RunOK, Alike, Saved, Forward, Stored, Saving, Linking, Placing, Recording, Undoing
  <1>7. ASSUME NEW p \in Own(i)
        PROVE  /\ PartOK(q, p, parts[p]) /\ BomOK(i, q, p, LinksOf(p))
               /\ FileOK(q, p, disk[p], records[p]) /\ UndoneOK(q, journal'[i], p, parts[p], LinksOf(p))
    <2>1. PartOK(q, p, parts[p]) /\ BomOK(i, q, p, LinksOf(p)) /\ FileOK(q, p, disk[p], records[p])
      BY <1>3 DEF PartOK, BomOK, FileOK, Forward, Stored, Saving, Linking, Placing, Recording
    <2>2. UndoneOK(r, journal[i], p, parts[p], LinksOf(p))
      BY <1>2, Pairwise
    <2>3. UndoneOK(q, journal'[i], p, parts[p], LinksOf(p))
      BY <1>1, <1>3, <1>4, <2>2 DEF UndoneOK, Undone, Undoing, Alike
    <2> QED BY <2>1, <2>3
  <1> QED BY <1>2, <1>3, <1>4, <1>6, <1>7, QuietStep DEF q

LEMMA UndoFailsKept ==
  ASSUME IInv, NEW i \in Imports, Promised(i), Observed(i), DOMAIN raced = Imports, UndoFails(i)
  PROVE  Promised(i)'
  <1> DEFINE r == run[i]
             q == run'[i]
             h == Head1(i)
  <1>1. /\ r.pc \in Undoing /\ UNCHANGED <<stores, journal>>
        /\ Move(i, [After(i, "undo", "settle") EXCEPT !.stuck = @ \cup {h}])
    BY DEF UndoFails, Undoing
  <1>2. /\ DOMAIN r = RunFields /\ journal[i] \in Entries /\ journal[i] # Absent /\ RunOK(r, journal[i])
        /\ r.told # "committed" /\ r.pc \notin Unread \cup {"load_boms"}
    BY <1>1, Running DEF Early, Loading, Undoing
  <1>3. /\ Alike(q, r) /\ q.told = r.told /\ q.stuck = r.stuck \cup {h} /\ q.todo = r.todo \ {h}
        /\ q.pc = (IF q.todo = {} THEN "settle" ELSE "undo")
    <2> HIDE DEF h
    <2> QED BY <1>1, <1>2 DEF After, Move, IInv, Alike, RunFields, h
  <1>4. UNCHANGED stores /\ journal'[i] = journal[i]
    BY <1>1
  <1>5. q.pc \in {"settle", "undo"}
    BY <1>3
  <1> HIDE DEF q, h
  <1>6. RunOK(q, journal'[i])
    BY <1>1, <1>2, <1>3, <1>4, <1>5
       DEF RunOK, Alike, Saved, Forward, Stored, Saving, Linking, Placing, Recording, Undoing
  <1>7. ASSUME NEW p \in Own(i)
        PROVE  /\ PartOK(q, p, parts[p]) /\ BomOK(i, q, p, LinksOf(p))
               /\ FileOK(q, p, disk[p], records[p]) /\ UndoneOK(q, journal'[i], p, parts[p], LinksOf(p))
    <2>1. PartOK(q, p, parts[p]) /\ BomOK(i, q, p, LinksOf(p)) /\ FileOK(q, p, disk[p], records[p])
      BY <1>2, <1>3, <1>5 DEF PartOK, BomOK, FileOK, Forward, Stored, Saving, Linking, Placing, Recording
    <2>2. UndoneOK(r, journal[i], p, parts[p], LinksOf(p))
      BY <1>2, Pairwise
    <2>3. UndoneOK(q, journal'[i], p, parts[p], LinksOf(p))
      BY <1>1, <1>3, <1>4, <1>5, <2>2 DEF UndoneOK, Undone, Undoing, Alike
    <2> QED BY <2>1, <2>3
  <1>8. q.pc # "load_boms"
    BY <1>5
  <1> QED BY <1>2, <1>3, <1>4, <1>6, <1>7, <1>8, QuietStep DEF q

-------------------------------------------------------------------------------
(* The request: nothing is written, and there is no history.               *)

LEMMA Asking ==
  ASSUME IInv, NEW i \in Imports, Promised(i), run[i].pc \in Early
  PROVE  /\ RunTyped(run[i]) /\ DOMAIN run[i] = RunFields /\ journal[i] = Absent /\ effects[i] = {}
         /\ run[i].created = {} /\ run[i].changed = {} /\ run[i].told # "committed"
  <1>1. ImportOK(run[i], journal[i], effects[i]) /\ RunOK(run[i], journal[i])
    BY DEF IInv, Promised
  <1>2. RunTyped(run[i]) /\ journal[i] = Absent
    BY <1>1 DEF ImportOK, JournalOK
  <1>3. effects[i] = {}
    BY <1>1, <1>2 DEF ImportOK, Covered, Bounded
  <1>4. run[i].told # "committed"
    BY <1>1 DEF RunOK, Early, Loading
  <1> QED BY <1>2, <1>3, <1>4 DEF RunTyped

LEMMA ArriveKept ==
  ASSUME IInv, NEW i \in Imports, Promised(i), Arrive(i)
  PROVE  Promised(i)'
  <1> DEFINE q == run'[i]
  <1>1. run[i].pc = "idle" /\ UNCHANGED journal
    BY DEF Arrive, Submit, At
  <1>2. journal'[i] = Absent
    BY <1>1, Asking DEF Early, Loading
  <1>3. q.pc = "load_parts" /\ q.told = "nothing"
    <2>1. PICK r \in Requests : Move(i, [NewRun EXCEPT !.ask = r, !.pc = "load_parts"])
      BY DEF Arrive, Submit
    <2> QED BY <2>1 DEF Move, NewRun, IInv
  <1> HIDE DEF q
  <1>4. RunOK(q, journal'[i])
    BY <1>2, <1>3 DEF RunOK, Forward, Stored, RolledBack, Saving, Linking, Placing, Recording, Undoing
  <1> QED BY <1>3, <1>4 DEF Promised, Unread, q

LEMMA EarlyStep ==
  ASSUME IInv, NEW i \in Imports, Promised(i), Observed(i), DOMAIN raced = Imports,
         run[i].pc \in Early \ {"idle"}, UNCHANGED stores, run'[i].ask = run[i].ask,
         RunOK(run'[i], journal'[i]), \A p \in Own(i) : PairNext(i, p)
  PROVE  Promised(i)'
  <1>1. Own(i)' = Own(i)
    BY DEF Observed, Own
  <1>2. \A p \in Own(i), k \in Kinds : ~Effect(k, p)
    BY NoEffect, OwnPairs
  <1>3. \A p \in Own(i), k \in Kinds : <<k, p>> \notin effects'[i]
    <2>1. effects'[i] = {e \in Kinds \X Pairs : Effect(e[1], e[2])}
      BY Asking DEF Observed, IInv
    <2> QED BY <1>2, <2>1
  <1> QED BY <1>1, <1>3 DEF Promised, PairNext

LEMMA LoadPartsKept ==
  ASSUME IInv, NEW i \in Imports, Promised(i), Observed(i), DOMAIN raced = Imports, LoadParts(i)
  PROVE  Promised(i)'
  <1> DEFINE r == run[i]
             q == run'[i]
  <1>1. r.pc = "load_parts" /\ UNCHANGED <<stores, journal>>
    BY DEF LoadParts, At
  <1>2. /\ DOMAIN r = RunFields /\ journal'[i] = Absent /\ r.created = {} /\ r.changed = {} /\ r.told # "committed"
    BY <1>1, Asking DEF Early, Loading
  <1>3. /\ q.ask = r.ask /\ q.pc = "load_boms" /\ q.told = r.told /\ q.created = {} /\ q.changed = {}
        /\ q.read.parts = parts
    BY <1>2 DEF LoadParts, Move, IInv, RunFields
  <1> HIDE DEF q
  <1>4. RunOK(q, journal'[i])
    BY <1>2, <1>3 DEF RunOK, Forward, Stored, RolledBack, Saving, Linking, Placing, Recording, Undoing
  <1>5. ASSUME NEW p \in Own(i) PROVE PairOK(i, q, journal'[i], p, parts'[p], LinksOf(p)', disk'[p], records'[p])
    <2>1. parts' = parts
      BY <1>1 DEF stores
    <2>2. Untouched(q, p, parts'[p], LinksOf(p)')
      BY <1>3, <2>1 DEF Untouched
    <2>3. /\ PartOK(q, p, parts'[p]) /\ BomOK(i, q, p, LinksOf(p)') /\ FileOK(q, p, disk'[p], records'[p])
          /\ UndoneOK(q, journal'[i], p, parts'[p], LinksOf(p)')
      BY <1>2, <1>3 DEF PartOK, BomOK, FileOK, UndoneOK, Undone, Forward, Stored, Saving, Linking, Placing, Recording,
                        Undoing
    <2> QED BY <2>2, <2>3 DEF PairOK
  <1> QED BY <1>1, <1>3, <1>4, <1>5, EarlyStep DEF q, PairNext, Early, Loading

LEMMA LoadBomsKept ==
  ASSUME IInv, NEW i \in Imports, Promised(i), Observed(i), DOMAIN raced = Imports, LoadBoms(i)
  PROVE  Promised(i)'
  <1> DEFINE r == run[i]
             q == run'[i]
             parents == {l[1] : l \in r.ask.pack.links}
             seen == {l \in links : l.parent \in parents}
  <1>1. r.pc = "load_boms" /\ UNCHANGED <<stores, journal>>
    BY DEF LoadBoms, At
  <1>2. /\ DOMAIN r = RunFields /\ journal'[i] = Absent /\ r.created = {} /\ r.changed = {} /\ r.told # "committed"
        /\ RunTyped(r)
    BY <1>1, Asking DEF Early, Loading
  <1>3. /\ q.ask = r.ask /\ q.pc = "load_files" /\ q.told = r.told /\ q.created = {} /\ q.changed = {}
        /\ q.read = [r.read EXCEPT !.links = seen]
    <2>1. Move(i, [r EXCEPT !.pc = "load_files", !.read.links = seen])
      BY DEF LoadBoms
    <2> HIDE DEF seen
    <2> QED BY <1>2, <2>1 DEF Move, IInv, RunFields
  <1>4. q.read.parts = r.read.parts /\ q.read.links = seen
    <2>1. r.read \in Store
      BY <1>1, <1>2 DEF RunTyped
    <2> HIDE DEF seen
    <2> QED BY <1>3, <2>1 DEF Store
  <1> HIDE DEF q
  <1>5. RunOK(q, journal'[i])
    BY <1>2, <1>3 DEF RunOK, Forward, Stored, RolledBack, Saving, Linking, Placing, Recording, Undoing
  <1>6. ASSUME NEW p \in Own(i) PROVE PairOK(i, q, journal'[i], p, parts'[p], LinksOf(p)', disk'[p], records'[p])
    <2>1. parts' = parts /\ LinksOf(p)' = LinksOf(p)
      BY <1>1 DEF stores, LinksOf
    <2>2. parts[p] = r.read.parts[p]
      BY <1>1, <1>2, Pairwise DEF Untouched, Unread
    <2>3. Children(r.ask.pack, p) # {} => LinksOf(p) = {l \in seen : l.parent = p}
      BY DEF Children, LinksOf
    <2>4. Untouched(q, p, parts'[p], LinksOf(p)')
      BY <1>3, <1>4, <2>1, <2>2, <2>3 DEF Untouched
    <2>5. /\ PartOK(q, p, parts'[p]) /\ BomOK(i, q, p, LinksOf(p)') /\ FileOK(q, p, disk'[p], records'[p])
          /\ UndoneOK(q, journal'[i], p, parts'[p], LinksOf(p)')
      BY <1>2, <1>3 DEF PartOK, BomOK, FileOK, UndoneOK, Undone, Forward, Stored, Saving, Linking, Placing, Recording,
                        Undoing
    <2> QED BY <2>4, <2>5 DEF PairOK
  <1> QED BY <1>1, <1>3, <1>5, <1>6, EarlyStep DEF q, PairNext, Early, Loading

LEMMA LoadFilesKept ==
  ASSUME IInv, NEW i \in Imports, Promised(i), Observed(i), DOMAIN raced = Imports, LoadFiles(i)
  PROVE  Promised(i)'
  <1> DEFINE r == run[i]
             q == run'[i]
             seen == [r.read EXCEPT !.records = records, !.disk = disk]
             draft == Plan(r.ask.pack, r.ask.policy, seen)
             made == [r EXCEPT !.read = seen, !.plan = draft]
  <1>1. r.pc = "load_files" /\ UNCHANGED <<stores, journal>>
    BY DEF LoadFiles, At
  <1>2. /\ DOMAIN r = RunFields /\ journal'[i] = Absent /\ r.created = {} /\ r.changed = {} /\ r.told # "committed"
        /\ RunTyped(r)
    BY <1>1, Asking DEF Early, Loading
  <1>3. Move(i, IF Refused(r.ask, draft, seen) THEN [made EXCEPT !.pc = "done", !.told = "refused"]
                ELSE [made EXCEPT !.pc = "start"])
    BY DEF LoadFiles
  <1>4. seen.parts = r.read.parts /\ seen.links = r.read.links
    <2>1. r.read \in Store
      BY <1>1, <1>2 DEF RunTyped
    <2> QED BY <2>1 DEF Store
  <1>5. draft = Plan(r.ask.pack, r.ask.policy, seen)
    OBVIOUS
  <1> HIDE DEF seen, draft
  <1>6. /\ q.ask = r.ask /\ q.pc \in {"start", "done"} /\ q.told # "committed" /\ q.created = {} /\ q.changed = {}
        /\ q.read = seen /\ q.plan = draft
        /\ q.pc = "start" => ~Refused(r.ask, draft, seen)
    BY <1>2, <1>3 DEF Move, IInv, RunFields
  <1> HIDE DEF q
  <1>7. RunOK(q, journal'[i])
    BY <1>2, <1>5, <1>6 DEF RunOK, Forward, Stored, RolledBack, Saving, Linking, Placing, Recording, Undoing
  <1>8. ASSUME NEW p \in Own(i) PROVE PairOK(i, q, journal'[i], p, parts'[p], LinksOf(p)', disk'[p], records'[p])
    <2>1. parts' = parts /\ LinksOf(p)' = LinksOf(p)
      BY <1>1 DEF stores, LinksOf
    <2>2. /\ parts[p] = r.read.parts[p]
          /\ Children(r.ask.pack, p) # {} => LinksOf(p) = {l \in r.read.links : l.parent = p}
      BY <1>1, <1>2, Pairwise DEF Untouched, Unread
    <2>4. Untouched(q, p, parts'[p], LinksOf(p)')
      BY <1>4, <1>6, <2>1, <2>2 DEF Untouched
    <2>5. /\ PartOK(q, p, parts'[p]) /\ BomOK(i, q, p, LinksOf(p)') /\ FileOK(q, p, disk'[p], records'[p])
          /\ UndoneOK(q, journal'[i], p, parts'[p], LinksOf(p)')
      BY <1>2, <1>6 DEF PartOK, BomOK, FileOK, UndoneOK, Undone, Forward, Stored, Saving, Linking, Placing, Recording,
                        Undoing, RolledBack
    <2> QED BY <2>4, <2>5 DEF PairOK
  <1> QED BY <1>1, <1>6, <1>7, <1>8, EarlyStep DEF q, PairNext, Early, Loading

-------------------------------------------------------------------------------
(* Steps that write files and records.                                     *)

\* A step that writes the stores but no list and no journal.
LEMMA WriteStep ==
  ASSUME IInv, NEW i \in Imports, Promised(i), Observed(i), DOMAIN raced = Imports, UNCHANGED journal,
         run[i].pc \notin Early \cup {"done"}, run'[i].pc # "load_boms", Alike(run'[i], run[i]),
         RunOK(run'[i], journal[i]),
         \A p \in Own(i) :
           /\ p \in run[i].changed \cup run[i].created \/ (parts'[p] = parts[p] /\ LinksOf(p)' = LinksOf(p))
           /\ PartOK(run'[i], p, parts'[p])
           /\ BomOK(i, run'[i], p, LinksOf(p)')
           /\ FileOK(run'[i], p, disk'[p], records'[p])
           /\ UndoneOK(run'[i], journal[i], p, parts'[p], LinksOf(p)')
           /\ \A k \in Kinds : Effect(k, p) => Planned(run[i], journal[i], k, p)
  PROVE  Promised(i)'
  <1>1. ASSUME NEW p \in Own(i) PROVE PairNext(i, p)
    <2>1. Untouched(run[i], p, parts[p], LinksOf(p)) /\ run[i].pc # "load_boms"
      BY Pairwise, Running
    <2>2. Untouched(run'[i], p, parts'[p], LinksOf(p)')
      BY <2>1 DEF Untouched, Alike
    <2> QED BY <2>2 DEF PairNext, PairOK
  <1>2. \A p \in Own(i), k \in Kinds :
          Effect(k, p) \/ Planned(run[i], journal[i], k, p) => Planned(run'[i], journal'[i], k, p)
    BY PlannedStays DEF Alike
  <1>3. run'[i].ask = run[i].ask /\ run[i].pc \notin Unread
    BY Running DEF Alike
  <1> QED BY <1>1, <1>2, <1>3, OwnStep

\* A step of the files: effects and bounds of a disk write below the plan.
LEMMA DiskStep ==
  ASSUME IInv, NEW i \in Imports, Promised(i), Observed(i), DOMAIN raced = Imports,
         UNCHANGED <<parts, links, records, journal>>,
         run[i].pc \notin Early \cup {"done"}, run'[i].pc # "load_boms", Alike(run'[i], run[i]),
         RunOK(run'[i], journal[i]),
         NEW h \in FileTargets(run[i].plan), \A p \in Pairs \ {h} : disk'[p] = disk[p],
         \A p \in Own(i) :
           /\ PartOK(run'[i], p, parts[p])
           /\ BomOK(i, run'[i], p, LinksOf(p))
           /\ FileOK(run'[i], p, disk'[p], records[p])
           /\ UndoneOK(run'[i], journal[i], p, parts[p], LinksOf(p))
  PROVE  Promised(i)'
  <1>1. ASSUME NEW p \in Own(i)
        PROVE  parts'[p] = parts[p] /\ LinksOf(p)' = LinksOf(p) /\ records'[p] = records[p]
    BY DEF LinksOf
  <1>2. ASSUME NEW p \in Own(i), NEW k \in Kinds, Effect(k, p) PROVE Planned(run[i], journal[i], k, p)
    <2>1. p \in Pairs
      BY OwnPairs DEF Early, Loading
    <2>2. k = "file" /\ p = h
      BY <1>2, <2>1, EffectOnDisk
    <2> QED BY <2>2 DEF Planned
  <1> QED BY <1>1, <1>2, WriteStep

LEMMA MoveAsideKept ==
  ASSUME IInv, NEW i \in Imports, Promised(i), Observed(i), DOMAIN raced = Imports, MoveAside(i)
  PROVE  Promised(i)'
  <1> DEFINE r == run[i]
             q == run'[i]
             h == Head1(i)
  <1>1. /\ r.pc = "move_aside" /\ UNCHANGED <<parts, links, records, journal>>
        /\ disk' = [disk EXCEPT ![h] = Absent] /\ Move(i, [r EXCEPT !.backup[h] = disk[h], !.pc = "place"])
    BY DEF MoveAside, At
  <1>2. /\ h \in FileTargets(r.plan) /\ h \in Pairs /\ h \in r.todo /\ r.pc \notin Early \cup {"done"}
        /\ r.todo \subseteq FileTargets(r.plan)
    <2>1. FileTargets(r.plan) \subseteq Pairs
      BY <1>1, Opened DEF Early, Loading
    <2>2. r.todo \subseteq Pairs /\ r.todo # {}
      BY <1>1, <2>1, FilesLoop
    <2> QED BY <1>1, <2>2, FilesLoop, HeadIn
  <1>3. DOMAIN r = RunFields /\ RunOK(r, journal[i]) /\ r.told # "committed"
    BY <1>2, Running
  <1> HIDE DEF h
  <1>4. Alike(q, r) /\ q.told = r.told /\ q.todo = r.todo /\ q.pc = "place"
    BY <1>1, <1>3 DEF Move, IInv, Alike, RunFields
  <1> HIDE DEF q
  <1>5. RunOK(q, journal[i])
    BY <1>1, <1>3, <1>4
       DEF RunOK, Alike, Saved, Forward, Stored, Saving, Linking, Placing, Recording, Undoing, RolledBack
  <1>6. \A p \in Pairs \ {h} : disk'[p] = disk[p]
    BY <1>1, <1>2 DEF IInv, StoresOK
  <1>7. ASSUME NEW p \in Own(i)
        PROVE  /\ PartOK(q, p, parts[p]) /\ BomOK(i, q, p, LinksOf(p))
               /\ FileOK(q, p, disk'[p], records[p]) /\ UndoneOK(q, journal[i], p, parts[p], LinksOf(p))
    <2>1. PartOK(r, p, parts[p]) /\ BomOK(i, r, p, LinksOf(p)) /\ FileOK(r, p, disk[p], records[p]) /\ p \in Pairs
      BY <1>2, Pairwise, Running, OwnPairs DEF Early, Loading
    <2>2. PartOK(q, p, parts[p])
      BY <1>1, <1>4, <2>1 DEF PartOK, Alike, Forward, Stored, Saving, Linking, Placing, Recording
    <2>3. BomOK(i, q, p, LinksOf(p))
      BY <1>1, <1>4, <2>1 DEF BomOK, Alike, Forward, Stored, Linking, Placing, Recording
    <2>4. FileOK(q, p, disk'[p], records[p])
      BY <1>1, <1>2, <1>3, <1>4, <1>6, <2>1 DEF FileOK, Alike, Stored, Placing, Recording
    <2>5. UndoneOK(q, journal[i], p, parts[p], LinksOf(p))
      BY <1>4 DEF UndoneOK, Undone, Undoing
    <2> QED BY <2>2, <2>3, <2>4, <2>5
  <1>8. q.pc # "load_boms"
    BY <1>4
  <1> QED BY <1>1, <1>2, <1>4, <1>5, <1>6, <1>7, <1>8, DiskStep DEF q

LEMMA PlaceFileKept ==
  ASSUME IInv, NEW i \in Imports, Promised(i), Observed(i), DOMAIN raced = Imports, PlaceFile(i)
  PROVE  Promised(i)'
  <1> DEFINE r == run[i]
             q == run'[i]
             h == Head1(i)
             k == r.ask.pack
  <1>1. /\ r.pc = "place" /\ UNCHANGED <<parts, links, records, journal>>
        /\ disk' = [disk EXCEPT ![h] = k.bytes]
        /\ Move(i, [After(i, "move_aside", "files_written") EXCEPT !.placed = @ \cup {h}])
    BY DEF PlaceFile, At
  <1>2. /\ h \in FileTargets(r.plan) /\ h \in Pairs /\ h \in r.todo /\ r.pc \notin Early \cup {"done"}
        /\ r.todo \subseteq FileTargets(r.plan)
    <2>1. FileTargets(r.plan) \subseteq Pairs
      BY <1>1, Opened DEF Early, Loading
    <2>2. r.todo \subseteq Pairs /\ r.todo # {}
      BY <1>1, <2>1, FilesLoop
    <2> QED BY <1>1, <2>2, FilesLoop, HeadIn
  <1>3. DOMAIN r = RunFields /\ RunOK(r, journal[i]) /\ r.told # "committed"
    BY <1>2, Running
  <1>4. /\ Alike(q, r) /\ q.told = r.told /\ q.todo = r.todo \ {h}
        /\ q.pc = (IF q.todo = {} THEN "files_written" ELSE "move_aside")
    <2> HIDE DEF h
    <2> QED BY <1>1, <1>3 DEF After, Move, IInv, Alike, RunFields, h
  <1> HIDE DEF q, h
  <1>9. q.pc \in {"files_written", "move_aside"}
    BY <1>4
  <1>5. RunOK(q, journal[i])
    BY <1>1, <1>3, <1>4, <1>9
       DEF RunOK, Alike, Saved, Forward, Stored, Saving, Linking, Placing, Recording, Undoing, RolledBack
  <1>6. disk'[h] = k.bytes /\ \A p \in Pairs \ {h} : disk'[p] = disk[p]
    BY <1>1, <1>2 DEF IInv, StoresOK
  <1>7. ASSUME NEW p \in Own(i)
        PROVE  /\ PartOK(q, p, parts[p]) /\ BomOK(i, q, p, LinksOf(p))
               /\ FileOK(q, p, disk'[p], records[p]) /\ UndoneOK(q, journal[i], p, parts[p], LinksOf(p))
    <2>1. PartOK(r, p, parts[p]) /\ BomOK(i, r, p, LinksOf(p)) /\ FileOK(r, p, disk[p], records[p]) /\ p \in Pairs
      BY <1>2, Pairwise, Running, OwnPairs DEF Early, Loading
    <2>2. PartOK(q, p, parts[p])
      BY <1>1, <1>9, <1>4, <2>1 DEF PartOK, Alike, Forward, Stored, Saving, Linking, Placing, Recording
    <2>3. BomOK(i, q, p, LinksOf(p))
      BY <1>1, <1>9, <1>4, <2>1 DEF BomOK, Alike, Forward, Stored, Linking, Placing, Recording
    <2>4. FileOK(q, p, disk'[p], records[p])
      <3>1. q.ask = r.ask /\ q.plan = r.plan
        BY <1>4 DEF Alike
      <3>2. p \in FileTargets(r.plan) /\ p \notin q.todo => disk'[p] = k.bytes
        BY <1>1, <1>4, <1>6, <2>1 DEF FileOK, Placing
      <3>3. q.pc = "files_written" => q.todo = {}
        BY <1>4
      <3> QED BY <1>3, <1>4, <1>9, <3>1, <3>2, <3>3 DEF FileOK, Stored, Placing, Recording
    <2>5. UndoneOK(q, journal[i], p, parts[p], LinksOf(p))
      BY <1>9 DEF UndoneOK, Undone, Undoing
    <2> QED BY <2>2, <2>3, <2>4, <2>5
  <1>8. q.pc # "load_boms"
    BY <1>9
  <1> QED BY <1>1, <1>2, <1>4, <1>5, <1>6, <1>7, <1>8, DiskStep DEF q

LEMMA UnplaceKept ==
  ASSUME IInv, NEW i \in Imports, Promised(i), Observed(i), DOMAIN raced = Imports, UnplaceFile(i) \/ UnplaceFails(i)
  PROVE  Promised(i)'
  <1> DEFINE r == run[i]
             q == run'[i]
             h == Max(r.placed)
             rest == r.placed \ {h}
  <1>1. /\ r.pc = "unplace" /\ UNCHANGED <<parts, links, records, journal>>
        /\ Move(i, [r EXCEPT !.placed = rest, !.pc = IF rest = {} THEN "failed" ELSE "unplace"])
        /\ \E now : disk' = [disk EXCEPT ![h] = now]
    BY DEF UnplaceFile, UnplaceFails, At
  <1>2. h \in FileTargets(r.plan) /\ h \in Pairs /\ r.pc \notin Early \cup {"done"}
    <2>1. r.pc \notin Early \cup {"done"}
      BY <1>1 DEF Early, Loading
    <2>2. r.placed # {} /\ r.placed \subseteq FileTargets(r.plan) /\ FileTargets(r.plan) \subseteq Pairs
      BY <1>1, <2>1, Opened DEF LoopOK, RunTyped
    <2> QED BY <2>1, <2>2, LastIn
  <1>3. DOMAIN r = RunFields /\ RunOK(r, journal[i]) /\ r.told # "committed"
    BY <1>2, Running
  <1> HIDE DEF h, rest
  <1>4. Alike(q, r) /\ q.told = r.told /\ q.pc \in {"failed", "unplace"}
    BY <1>1, <1>3 DEF Move, IInv, Alike, RunFields
  <1> HIDE DEF q
  <1>5. RunOK(q, journal[i])
    BY <1>1, <1>3, <1>4
       DEF RunOK, Alike, Saved, Forward, Stored, Saving, Linking, Placing, Recording, Undoing, RolledBack
  <1>6. \A p \in Pairs \ {h} : disk'[p] = disk[p]
    BY <1>1, <1>2 DEF IInv, StoresOK
  <1>7. ASSUME NEW p \in Own(i)
        PROVE  /\ PartOK(q, p, parts[p]) /\ BomOK(i, q, p, LinksOf(p))
               /\ FileOK(q, p, disk'[p], records[p]) /\ UndoneOK(q, journal[i], p, parts[p], LinksOf(p))
    BY <1>3, <1>4 DEF PartOK, BomOK, FileOK, UndoneOK, Undone, Forward, Stored, Saving, Linking, Placing, Recording,
                      Undoing
  <1>8. q.pc # "load_boms"
    BY <1>4
  <1> QED BY <1>1, <1>2, <1>4, <1>5, <1>6, <1>7, <1>8, DiskStep DEF q

LEMMA RecordKept ==
  ASSUME IInv, NEW i \in Imports, Promised(i), Observed(i), DOMAIN raced = Imports,
         WriteRecord(i) \/ RecordDiscovered(i)
  PROVE  Promised(i)'
  <1> DEFINE r == run[i]
             q == run'[i]
             h == Head1(i)
             here == r.pc
  <1>1. /\ r.pc \in {"record", "discover"} /\ UNCHANGED <<parts, links, disk, journal>>
        /\ Move(i, After(i, here, "thumbnails"))
        /\ r.pc = "record" => records' = [records EXCEPT ![h] = r.ask.pack.bytes]
    BY DEF WriteRecord, RecordDiscovered, At
  <1>2. /\ r.pc \notin Early \cup {"done"} /\ h \in r.todo /\ h \in Pairs
    <2>1. r.pc \notin Early \cup {"done"}
      BY <1>1 DEF Early, Loading
    <2> QED BY <1>1, <2>1, Opened, HeadIn DEF LoopOK
  <1>3. DOMAIN r = RunFields /\ RunOK(r, journal[i]) /\ r.told # "committed"
    BY <1>2, Running
  <1>4. Alike(q, r) /\ q.told = r.told /\ q.todo = r.todo \ {h} /\ q.pc = (IF q.todo = {} THEN "thumbnails" ELSE here)
    <2> HIDE DEF h, here
    <2> QED BY <1>1, <1>3 DEF After, Move, IInv, Alike, RunFields, h
  <1> HIDE DEF q, h
  <1>9. q.pc \in {"record", "discover", "thumbnails"} /\ (q.pc # "thumbnails" => q.pc = r.pc)
    BY <1>1, <1>4
  <1>5. RunOK(q, journal[i])
    BY <1>1, <1>3, <1>4, <1>9
       DEF RunOK, Alike, Saved, Forward, Stored, Saving, Linking, Placing, Recording, Undoing, RolledBack
  <1>6. r.pc = "record" => records'[h] = r.ask.pack.bytes /\ \A p \in Pairs \ {h} : records'[p] = records[p]
    BY <1>1, <1>2 DEF IInv, StoresOK
  <1>7. ASSUME NEW p \in Own(i)
        PROVE  /\ p \in r.changed \cup r.created \/ (parts'[p] = parts[p] /\ LinksOf(p)' = LinksOf(p))
               /\ PartOK(q, p, parts'[p]) /\ BomOK(i, q, p, LinksOf(p)') /\ FileOK(q, p, disk'[p], records'[p])
               /\ UndoneOK(q, journal[i], p, parts'[p], LinksOf(p)')
               /\ \A k \in Kinds : Effect(k, p) => Planned(r, journal[i], k, p)
    <2>1. PartOK(r, p, parts[p]) /\ BomOK(i, r, p, LinksOf(p)) /\ FileOK(r, p, disk[p], records[p]) /\ p \in Pairs
      BY <1>2, Pairwise, Running, OwnPairs DEF Early, Loading
    <2>2. parts'[p] = parts[p] /\ LinksOf(p)' = LinksOf(p) /\ disk'[p] = disk[p]
      BY <1>1 DEF LinksOf
    <2>3. PartOK(q, p, parts[p])
      BY <1>1, <1>9, <1>4, <2>1 DEF PartOK, Alike, Forward, Stored, Saving, Linking, Placing, Recording
    <2>4. BomOK(i, q, p, LinksOf(p))
      BY <1>1, <1>9, <1>4, <2>1 DEF BomOK, Alike, Forward, Stored, Linking, Placing, Recording
    <2>5. FileOK(q, p, disk[p], records'[p])
      <3>1. q.ask = r.ask /\ q.plan = r.plan
        BY <1>4 DEF Alike
      <3>2. p \in FileTargets(r.plan) => disk[p] = r.ask.pack.bytes
        BY <1>1, <2>1 DEF FileOK, Stored, Recording
      <3>3. r.pc = "discover" => p \notin FileTargets(r.plan)
        BY <1>3 DEF RunOK
      <3>4. p \in FileTargets(r.plan) /\ p \notin q.todo => records'[p] = r.ask.pack.bytes
        BY <1>1, <1>4, <1>6, <2>1, <3>3 DEF FileOK
      <3>5. q.pc = "thumbnails" => q.todo = {}
        BY <1>1, <1>4
      <3> QED BY <1>3, <1>4, <1>9, <3>1, <3>2, <3>4, <3>5 DEF FileOK, Stored, Placing, Recording
    <2>6. UndoneOK(q, journal[i], p, parts[p], LinksOf(p))
      BY <1>9 DEF UndoneOK, Undone, Undoing
    <2>7. \A k \in Kinds : Effect(k, p) => k = "record"
      BY <1>1, <2>1, EffectOnRecords
    <2>8. \A k \in Kinds : Effect(k, p) => Planned(r, journal[i], k, p)
      BY <2>7 DEF Planned
    <2> QED BY <2>2, <2>3, <2>4, <2>5, <2>6, <2>8
  <1>8. q.pc # "load_boms" /\ UNCHANGED journal
    BY <1>1, <1>9
  <1> QED BY <1>2, <1>4, <1>5, <1>7, <1>8, WriteStep DEF q

-------------------------------------------------------------------------------
(* Steps that write links or remove parts.                                 *)

\* A step that writes links below one pair, which the plan or the rollback names.
LEMMA LinkStep ==
  ASSUME IInv, NEW i \in Imports, Promised(i), Observed(i), DOMAIN raced = Imports,
         UNCHANGED <<parts, records, disk, journal>>,
         run[i].pc \notin Early \cup {"done"}, run'[i].pc # "load_boms", Alike(run'[i], run[i]),
         RunOK(run'[i], journal[i]),
         NEW h \in run[i].changed \cup run[i].created, Planned(run[i], journal[i], "bom", h),
         \A l : l.parent # h => (l \in links' <=> l \in links),
         \A p \in Own(i) :
           /\ PartOK(run'[i], p, parts[p])
           /\ BomOK(i, run'[i], p, LinksOf(p)')
           /\ FileOK(run'[i], p, disk[p], records[p])
           /\ UndoneOK(run'[i], journal[i], p, parts[p], LinksOf(p)')
  PROVE  Promised(i)'
  <1>1. ASSUME NEW p \in Own(i)
        PROVE  /\ parts'[p] = parts[p] /\ disk'[p] = disk[p] /\ records'[p] = records[p]
               /\ p # h => LinksOf(p)' = LinksOf(p)
    BY DEF LinksOf
  <1>2. ASSUME NEW p \in Own(i), NEW k \in Kinds, Effect(k, p) PROVE Planned(run[i], journal[i], k, p)
    <2>1. p \in Pairs
      BY OwnPairs DEF Early, Loading
    <2>2. k = "bom" /\ p = h
      BY <1>2, <2>1, EffectOnLinks
    <2> QED BY <2>2
  <1> QED BY <1>1, <1>2, WriteStep

LEMMA DeleteLinksKept ==
  ASSUME IInv, NEW i \in Imports, Promised(i), Observed(i), DOMAIN raced = Imports, DeleteLinks(i)
  PROVE  Promised(i)'
  <1> DEFINE r == run[i]
             q == run'[i]
             h == Head1(i)
             below == {l \in r.ask.pack.links : l[1] \in BomParents(r.plan)}
             a == After(i, "delete_links", "insert_links")
  <1>1. /\ r.pc = "delete_links" /\ UNCHANGED <<parts, records, disk, journal>>
        /\ links' = {l \in links : l.parent # h}
        /\ Move(i, IF a.pc = "delete_links" THEN a
                   ELSE [a EXCEPT !.todo = {l \in a.ask.pack.links : l[1] \in BomParents(a.plan)}])
    BY DEF DeleteLinks, At
  <1>2. r.pc \notin Early \cup {"done"}
    BY <1>1 DEF Early, Loading
  <1>3. DOMAIN r = RunFields /\ RunOK(r, journal[i]) /\ r.told # "committed"
    BY <1>2, Running
  <1>4. h \in r.todo /\ h \in BomParents(r.plan) /\ h \in r.changed
    <2>1. r.todo # {} /\ r.todo \subseteq BomParents(r.plan) /\ BomParents(r.plan) \subseteq Saved(r)
            /\ Saved(r) \subseteq Pairs
      BY <1>1, <1>2, Opened DEF LoopOK
    <2>2. h \in r.todo
      BY <2>1, HeadIn
    <2>3. r.changed = Saved(r)
      BY <1>1, <1>3 DEF RunOK, Forward, Linking
    <2> QED BY <2>1, <2>2, <2>3
  <1>5. /\ Alike(q, r) /\ q.told = r.told
        /\ q.pc = (IF r.todo \ {h} = {} THEN "insert_links" ELSE "delete_links")
        /\ q.todo = (IF r.todo \ {h} = {} THEN below ELSE r.todo \ {h})
    <2>1. Onward(a, r) /\ a.todo = r.todo \ {h} /\ a.pc = (IF a.todo = {} THEN "insert_links" ELSE "delete_links")
          /\ a.told = r.told
      <3>1. a.told = r.told
        BY <1>3 DEF After, RunFields
      <3> QED BY <1>3, <3>1, OnwardAfter
    <2> HIDE DEF a, h
    <2> QED BY <1>1, <2>1 DEF Onward, Move, IInv, Alike, RunFields
  <1> HIDE DEF q, h, a, below
  <1>6. q.pc \in {"insert_links", "delete_links"}
    BY <1>5
  <1>7. RunOK(q, journal[i])
    BY <1>1, <1>3, <1>5, <1>6
       DEF RunOK, Alike, Saved, Forward, Stored, Saving, Linking, Placing, Recording, Undoing, RolledBack
  <1>8. ASSUME NEW p \in Own(i)
        PROVE  /\ PartOK(q, p, parts[p]) /\ BomOK(i, q, p, LinksOf(p)')
               /\ FileOK(q, p, disk[p], records[p]) /\ UndoneOK(q, journal[i], p, parts[p], LinksOf(p)')
    <2>1. PartOK(r, p, parts[p]) /\ BomOK(i, r, p, LinksOf(p))
      BY <1>2, Pairwise, Running
    <2>2. PartOK(q, p, parts[p])
      BY <1>1, <1>5, <1>6, <2>1 DEF PartOK, Alike, Forward, Stored, Saving, Linking, Placing, Recording
    <2>3. BomOK(i, q, p, LinksOf(p)')
      <3> SUFFICES ASSUME p \in BomParents(q.plan)
                   PROVE  /\ q.pc = "delete_links" /\ p \notin q.todo => LinksOf(p)' = {}
                          /\ q.pc = "insert_links" => LinksOf(p)' = Inserted(i, q.ask.pack, p, q.todo)
        BY <1>6, <2>1 DEF BomOK
      <3>1. q.plan = r.plan /\ q.ask = r.ask
        BY <1>5 DEF Alike
      <3>2. p \notin r.todo \ {h} => LinksOf(p)' = {}
        <4>1. p = h => LinksOf(p)' = {}
          BY <1>1 DEF LinksOf
        <4>2. p \notin r.todo => LinksOf(p) = {}
          BY <1>1, <2>1, <3>1 DEF BomOK
        <4>3. LinksOf(p) = {} => LinksOf(p)' = {}
          BY <1>1 DEF LinksOf
        <4> QED BY <4>1, <4>2, <4>3
      <3>3. Inserted(i, q.ask.pack, p, below) = {}
        BY <3>1 DEF Inserted, below
      <3> QED BY <1>5, <3>2, <3>3
    <2>4. FileOK(q, p, disk[p], records[p]) /\ UndoneOK(q, journal[i], p, parts[p], LinksOf(p)')
      BY <1>3, <1>5, <1>6 DEF FileOK, UndoneOK, Undone, Stored, Placing, Recording, Undoing
    <2> QED BY <2>2, <2>3, <2>4
  <1>9. q.pc # "load_boms"
    BY <1>6
  <1>10. Planned(r, journal[i], "bom", h)
    BY <1>4 DEF Planned
  <1>11. \A l : l.parent # h => (l \in links' <=> l \in links)
    BY <1>1
  <1> QED BY <1>1, <1>2, <1>4, <1>5, <1>7, <1>8, <1>9, <1>10, <1>11, LinkStep DEF q

LEMMA InsertLinkKept ==
  ASSUME IInv, NEW i \in Imports, Promised(i), Observed(i), DOMAIN raced = Imports, InsertLink(i)
  PROVE  Promised(i)'
  <1> DEFINE r == run[i]
             q == run'[i]
             k == r.ask.pack
  <1>0. PICK l \in r.todo :
          /\ links' = links \cup {[parent |-> l[1], child |-> l[2], by |-> i]}
          /\ Move(i, [r EXCEPT !.todo = r.todo \ {l},
                               !.pc = IF r.todo \ {l} = {} THEN "boms_written" ELSE "insert_links"])
    BY DEF InsertLink
  <1> DEFINE link == [parent |-> l[1], child |-> l[2], by |-> i]
             rest == r.todo \ {l}
             h == l[1]
  <1>1. r.pc = "insert_links" /\ UNCHANGED <<parts, records, disk, journal>>
    BY DEF InsertLink, At
  <1>2. r.pc \notin Early \cup {"done"}
    BY <1>1 DEF Early, Loading
  <1>3. DOMAIN r = RunFields /\ RunOK(r, journal[i]) /\ r.told # "committed"
    BY <1>2, Running
  <1>4. h \in BomParents(r.plan) /\ h \in r.changed /\ l \in k.links
    <2>1. /\ r.todo \subseteq {x \in r.ask.pack.links : x[1] \in BomParents(r.plan)}
          /\ BomParents(r.plan) \subseteq Saved(r)
      BY <1>1, <1>2, Opened DEF LoopOK
    <2>3. r.changed = Saved(r)
      BY <1>1, <1>3 DEF RunOK, Forward, Linking
    <2> QED BY <2>1, <2>3
  <1>5. /\ Alike(q, r) /\ q.told = r.told /\ q.todo = rest
        /\ q.pc = (IF rest = {} THEN "boms_written" ELSE "insert_links")
    <2> HIDE DEF rest
    <2> QED BY <1>0, <1>3 DEF Move, IInv, Alike, RunFields, rest
  <1>12. links' = links \cup {link} /\ link.parent = h
    BY <1>0
  <1> HIDE DEF q
  <1>6. q.pc \in {"insert_links", "boms_written"} /\ q.plan = r.plan /\ q.ask = r.ask
    BY <1>5 DEF Alike
  <1>7. RunOK(q, journal[i])
    BY <1>1, <1>3, <1>5, <1>6
       DEF RunOK, Alike, Saved, Forward, Stored, Saving, Linking, Placing, Recording, Undoing, RolledBack
  <1>8. ASSUME NEW p \in Own(i)
        PROVE  /\ PartOK(q, p, parts[p]) /\ BomOK(i, q, p, LinksOf(p)')
               /\ FileOK(q, p, disk[p], records[p]) /\ UndoneOK(q, journal[i], p, parts[p], LinksOf(p)')
    <2>1. PartOK(r, p, parts[p]) /\ BomOK(i, r, p, LinksOf(p))
      BY <1>2, Pairwise, Running
    <2>2. PartOK(q, p, parts[p])
      BY <1>1, <1>5, <1>6, <2>1 DEF PartOK, Alike, Forward, Stored, Saving, Linking, Placing, Recording
    <2>3. BomOK(i, q, p, LinksOf(p)')
      <3> SUFFICES ASSUME p \in BomParents(r.plan) PROVE LinksOf(p)' = Inserted(i, k, p, rest)
        <4>1. q.todo = rest /\ (q.pc = "boms_written" => rest = {})
          BY <1>5
        <4> QED BY <1>6, <4>1 DEF BomOK
      <3>1. LinksOf(p) = Inserted(i, k, p, r.todo)
        BY <1>1, <2>1 DEF BomOK
      <3>2. CASE p = h
        <4>1. LinksOf(p)' = LinksOf(p) \cup {link}
          BY <1>12, <3>2 DEF LinksOf
        <4>2. Inserted(i, k, p, rest) = Inserted(i, k, p, r.todo) \cup {link}
          BY <1>4, <3>2 DEF Inserted
        <4> QED BY <3>1, <4>1, <4>2
      <3>3. CASE p # h
        <4>1. LinksOf(p)' = LinksOf(p)
          BY <1>12, <3>3 DEF LinksOf
        <4>2. Inserted(i, k, p, rest) = Inserted(i, k, p, r.todo)
          BY <3>3 DEF Inserted
        <4> QED BY <3>1, <4>1, <4>2
      <3> QED BY <3>2, <3>3
    <2>4. FileOK(q, p, disk[p], records[p]) /\ UndoneOK(q, journal[i], p, parts[p], LinksOf(p)')
      BY <1>3, <1>5, <1>6 DEF FileOK, UndoneOK, Undone, Stored, Placing, Recording, Undoing
    <2> QED BY <2>2, <2>3, <2>4
  <1>9. q.pc # "load_boms"
    BY <1>6
  <1>10. Planned(r, journal[i], "bom", h)
    BY <1>4 DEF Planned
  <1>11. \A x : x.parent # h => (x \in links' <=> x \in links)
    BY <1>12
  <1> QED BY <1>1, <1>2, <1>4, <1>5, <1>7, <1>8, <1>9, <1>10, <1>11, LinkStep DEF q

LEMMA UndoLinksKept ==
  ASSUME IInv, NEW i \in Imports, Promised(i), Observed(i), DOMAIN raced = Imports, UndoLinks(i)
  PROVE  Promised(i)'
  <1> DEFINE r == run[i]
             q == run'[i]
             h == Head1(i)
  <1>1. /\ r.pc = "undo_links" /\ UNCHANGED <<parts, records, disk, journal>>
        /\ links' = {l \in links : l.parent # h} /\ Move(i, After(i, "undo", "settle"))
    BY DEF UndoLinks, At
  <1>2. /\ r.pc \notin Early \cup {"done"} /\ DOMAIN r = RunFields /\ RunOK(r, journal[i]) /\ r.told # "committed"
        /\ journal[i] # Absent
    BY <1>1, Running DEF Early, Loading
  <1>3. h \in r.created /\ h = Min(r.todo)
    BY <1>1, UndoLoop DEF Undoing, Head1
  <1>4. /\ Alike(q, r) /\ q.told = r.told /\ q.todo = r.todo \ {h} /\ q.stuck = r.stuck
        /\ q.pc = (IF q.todo = {} THEN "settle" ELSE "undo")
    <2> HIDE DEF h
    <2> QED BY <1>1, <1>2 DEF After, Move, IInv, Alike, RunFields, h
  <1> HIDE DEF q, h
  <1>5. q.pc \in {"settle", "undo"}
    BY <1>4
  <1>6. journal[i].status = "failed"
    BY <1>1, <1>2 DEF RunOK, Undoing
  <1>7. RunOK(q, journal[i])
    BY <1>1, <1>2, <1>4, <1>5, <1>6
       DEF RunOK, Alike, Saved, Forward, Stored, Saving, Linking, Placing, Recording, Undoing, RolledBack
  <1>8. ASSUME NEW p \in Own(i)
        PROVE  /\ PartOK(q, p, parts[p]) /\ BomOK(i, q, p, LinksOf(p)')
               /\ FileOK(q, p, disk[p], records[p]) /\ UndoneOK(q, journal[i], p, parts[p], LinksOf(p)')
    <2>1. UndoneOK(r, journal[i], p, parts[p], LinksOf(p))
      BY <1>2, Pairwise, Running
    <2>2. PartOK(q, p, parts[p]) /\ BomOK(i, q, p, LinksOf(p)') /\ FileOK(q, p, disk[p], records[p])
      BY <1>2, <1>4, <1>5 DEF PartOK, BomOK, FileOK, Forward, Stored, Saving, Linking, Placing, Recording
    <2>3. (p = h => LinksOf(p)' = {}) /\ (LinksOf(p) = {} => LinksOf(p)' = {})
      BY <1>1 DEF LinksOf
    <2>4. UndoneOK(q, journal[i], p, parts[p], LinksOf(p)')
      <3>1. ASSUME p \in r.created \ r.stuck, p \notin r.todo \ {h} PROVE parts[p] = Absent /\ LinksOf(p)' = {}
        BY <1>1, <1>3, <2>1, <2>3, <3>1 DEF UndoneOK, Undoing
      <3> QED BY <1>4, <1>5, <3>1 DEF UndoneOK, Alike, Undone, Undoing
    <2> QED BY <2>2, <2>4
  <1>9. q.pc # "load_boms"
    BY <1>5
  <1>10. Planned(r, journal[i], "bom", h)
    BY <1>2, <1>3, <1>6 DEF Planned
  <1>11. \A l : l.parent # h => (l \in links' <=> l \in links)
    BY <1>1
  <1> QED BY <1>1, <1>2, <1>3, <1>4, <1>7, <1>8, <1>9, <1>10, <1>11, LinkStep DEF q

LEMMA UndoPartKept ==
  ASSUME IInv, NEW i \in Imports, Promised(i), Observed(i), DOMAIN raced = Imports, UndoPart(i)
  PROVE  Promised(i)'
  <1> DEFINE r == run[i]
             q == run'[i]
             h == Head1(i)
  <1>1. /\ r.pc = "undo" /\ UNCHANGED <<links, records, disk, journal>>
        /\ parts' = [parts EXCEPT ![h] = Absent] /\ Goto(i, "undo_links")
    BY DEF UndoPart, At
  <1>2. /\ r.pc \notin Early \cup {"done"} /\ DOMAIN r = RunFields /\ RunOK(r, journal[i]) /\ r.told # "committed"
        /\ journal[i] # Absent /\ RunTyped(r)
    BY <1>1, Running DEF Early, Loading
  <1>3. h \in r.created /\ h = Min(r.todo) /\ h \in Pairs /\ h \in Saved(r) /\ r.read.parts[h] = Absent
    <2>1. h \in r.created /\ h = Min(r.todo) /\ h \in Pairs
      BY <1>1, UndoLoop DEF Undoing, Head1
    <2> QED BY <1>2, <2>1 DEF RunTyped, RunOK
  <1>4. Alike(q, r) /\ q.told = r.told /\ q.todo = r.todo /\ q.stuck = r.stuck /\ q.pc = "undo_links"
    BY <1>1, <1>2 DEF Goto, Move, IInv, Alike, RunFields
  <1> HIDE DEF q, h
  <1>5. parts'[h] = Absent /\ \A p \in Pairs \ {h} : parts'[p] = parts[p]
    BY <1>1, <1>3 DEF IInv, StoresOK
  <1>6. journal[i].status = "failed"
    BY <1>1, <1>2 DEF RunOK, Undoing
  <1>7. RunOK(q, journal[i])
    BY <1>1, <1>2, <1>4, <1>6
       DEF RunOK, Alike, Saved, Forward, Stored, Saving, Linking, Placing, Recording, Undoing, RolledBack
  <1>8. ASSUME NEW p \in Own(i)
        PROVE  /\ p \in r.changed \cup r.created \/ (parts'[p] = parts[p] /\ LinksOf(p)' = LinksOf(p))
               /\ PartOK(q, p, parts'[p]) /\ BomOK(i, q, p, LinksOf(p)') /\ FileOK(q, p, disk'[p], records'[p])
               /\ UndoneOK(q, journal[i], p, parts'[p], LinksOf(p)')
               /\ \A k \in Kinds : Effect(k, p) => Planned(r, journal[i], k, p)
    <2>1. UndoneOK(r, journal[i], p, parts[p], LinksOf(p)) /\ p \in Pairs
      BY <1>2, Pairwise, Running, OwnPairs DEF Early, Loading
    <2>2. LinksOf(p)' = LinksOf(p) /\ (p # h => parts'[p] = parts[p])
      BY <1>1, <1>5, <2>1 DEF LinksOf
    <2>3. PartOK(q, p, parts'[p]) /\ BomOK(i, q, p, LinksOf(p)') /\ FileOK(q, p, disk'[p], records'[p])
      BY <1>2, <1>4 DEF PartOK, BomOK, FileOK, Forward, Stored, Saving, Linking, Placing, Recording
    <2>4. UndoneOK(q, journal[i], p, parts'[p], LinksOf(p))
      BY <1>1, <1>3, <1>4, <1>5, <2>1, <2>2 DEF UndoneOK, Alike, Undone, Undoing
    <2>5. ASSUME NEW k \in Kinds, Effect(k, p) PROVE Planned(r, journal[i], k, p)
      <3>1. k \in PartKinds /\ p = h
        BY <1>1, <1>5, <2>1, <2>5, EffectOnPart
      <3>2. k \in {"create", "delete"}
        BY <1>5, <2>5, <3>1 DEF Effect, PartKinds
      <3> QED BY <1>3, <3>1, <3>2 DEF Planned
    <2> QED BY <1>3, <2>2, <2>3, <2>4, <2>5
  <1>9. q.pc # "load_boms" /\ UNCHANGED journal
    BY <1>1, <1>4
  <1> QED BY <1>2, <1>4, <1>7, <1>8, <1>9, WriteStep DEF q

-------------------------------------------------------------------------------
(* Steps that save parts.                                                  *)

\* A step of the saving loop at its head h, whether h is created or updated: what
\* it shows of h, and that the rest stays.
LEMMA SaveStep ==
  ASSUME IInv, NEW i \in Imports, Promised(i), Observed(i), DOMAIN raced = Imports, At(i, "save"), NEW h, h = Head1(i),
         UNCHANGED <<links, records, disk, journal>>,
         \A p \in Pairs \ {h} : parts'[p] = parts[p],
         NEW more, more \subseteq {h},
         Move(i, [After(i, "save", "touch") EXCEPT !.created = @ \cup more, !.changed = @ \cup {h}]),
         h \in Own(i) =>
           /\ parts'[h] # Absent
           /\ [data |-> parts'[h].data, approved |-> parts'[h].approved]
                = Fields(run[i].ask.pack, run[i].plan, run[i].read, h)
           /\ \A k \in PartKinds : Effect(k, h) => Planned(run[i], journal[i], k, h)
  PROVE  Promised(i)'
  <1> DEFINE r == run[i]
             q == run'[i]
             rest == r.todo \ {h}
  <1>1. /\ r.pc = "save" /\ DOMAIN r = RunFields /\ r.todo \cup r.changed = Saved(r) /\ h \in r.todo /\ h \in Pairs
        /\ journal[i] # Absent /\ journal[i].status = "started"
    BY SaveLoop DEF At
  <1>2. /\ r.pc \notin Early \cup {"done"} \cup Unread \cup {"load_boms"}
        /\ RunOK(r, journal[i]) /\ r.told # "committed"
    BY <1>1, Running DEF Early, Loading
  <1>3. /\ q.ask = r.ask /\ q.read = r.read /\ q.plan = r.plan /\ q.told = r.told /\ q.todo = rest
        /\ q.created = r.created \cup more /\ q.changed = r.changed \cup {h}
        /\ q.pc = (IF rest = {} THEN "touch" ELSE "save")
    <2> HIDE DEF rest
    <2> QED BY <1>1 DEF After, Move, IInv, RunFields, rest
  <1>4. more \subseteq {h} /\ journal'[i] = journal[i]
    OBVIOUS
  <1> HIDE DEF q, rest
  <1>5. q.pc \in {"save", "touch"} /\ Saved(q) = Saved(r)
    BY <1>3 DEF Saved
  <1>6. RunOK(q, journal[i])
    <2>1. q.created \subseteq Saved(q) /\ q.todo \cap q.changed = {}
      BY <1>1, <1>2, <1>3, <1>4, <1>5 DEF RunOK, rest
    <2> QED BY <1>1, <1>2, <1>3, <1>5, <2>1
               DEF RunOK, Forward, Stored, Saving, Linking, Placing, Recording, Undoing, RolledBack
  <1>7. ASSUME NEW p \in Own(i) PROVE PairOK(i, q, journal'[i], p, parts'[p], LinksOf(p)', disk'[p], records'[p])
    <2>1. Untouched(r, p, parts[p], LinksOf(p)) /\ PartOK(r, p, parts[p]) /\ p \in Pairs
      BY <1>1, <1>2, Pairwise, OwnPairs
    <2>2. LinksOf(p)' = LinksOf(p) /\ (p # h => parts'[p] = parts[p])
      BY <2>1 DEF LinksOf
    <2>3. Untouched(q, p, parts'[p], LinksOf(p)')
      BY <1>2, <1>3, <1>4, <2>1, <2>2 DEF Untouched
    <2>4. PartOK(q, p, parts'[p])
      <3>1. p = h => /\ parts'[p] # Absent
                     /\ [data |-> parts'[p].data, approved |-> parts'[p].approved]
                          = Fields(r.ask.pack, r.plan, r.read, p)
        OBVIOUS
      <3>2. p # h /\ p \in r.changed => /\ parts'[p] # Absent
                     /\ [data |-> parts'[p].data, approved |-> parts'[p].approved]
                          = Fields(r.ask.pack, r.plan, r.read, p)
        BY <1>1, <2>1, <2>2 DEF PartOK, Saving
      <3> QED BY <1>3, <3>1, <3>2 DEF PartOK
    <2>5. /\ BomOK(i, q, p, LinksOf(p)') /\ FileOK(q, p, disk'[p], records'[p])
          /\ UndoneOK(q, journal'[i], p, parts'[p], LinksOf(p)')
      BY <1>2, <1>3, <1>5 DEF BomOK, FileOK, UndoneOK, Undone, Forward, Stored, Linking, Placing, Recording, Undoing
    <2> QED BY <2>3, <2>4, <2>5 DEF PairOK
  <1>8. ASSUME NEW p \in Own(i), NEW k \in Kinds, Effect(k, p) PROVE Planned(r, journal[i], k, p)
    <2>1. p \in Pairs
      BY <1>1, OwnPairs
    <2>2. k \in PartKinds /\ p = h
      BY <1>8, <2>1, EffectOnPart
    <2> QED BY <1>8, <2>2
  <1>9. ASSUME NEW p \in Own(i), NEW k \in Kinds, Planned(r, journal[i], k, p) PROVE Planned(q, journal'[i], k, p)
    BY <1>3, <1>4, <1>9, PlannedStays
  <1> QED BY <1>2, <1>3, <1>4, <1>6, <1>7, <1>8, <1>9, OwnStep DEF q, PairNext

LEMMA CreatePartKept ==
  ASSUME IInv, NEW i \in Imports, Promised(i), Observed(i), DOMAIN raced = Imports, CreatePart(i)
  PROVE  Promised(i)'
  <1>0. PICK h : h = Head1(i)
    OBVIOUS
  <1> DEFINE r   == run[i]
             new == Fields(r.ask.pack, r.plan, r.read, h)
             doc == [id |-> i, data |-> new.data, approved |-> new.approved]
  <1>1. At(i, "save") /\ r.read.parts[h] = Absent /\ UNCHANGED <<links, records, disk, journal>>
    BY <1>0 DEF CreatePart
  <1>2. /\ RunTyped(r) /\ DOMAIN r = RunFields /\ h \in Pairs /\ h \in DOMAIN r.plan /\ r.pc = "save"
        /\ h \in r.todo /\ r.todo \cup r.changed = Saved(r)
        /\ journal[i] # Absent /\ journal[i].status = "started"
    BY <1>0, <1>1, SaveLoop DEF At
  <1>3. CASE parts[h] = Absent
    <2>1. parts' = [parts EXCEPT ![h] = doc]
      BY <1>0, <1>3 DEF CreatePart
    <2>2. doc # Absent /\ [data |-> doc.data, approved |-> doc.approved] = new
      <3>1. new.data \in Values \cup {Blank} /\ new.approved \in BOOLEAN
        BY <1>2, FieldsTyped DEF Loading
      <3>2. new = [data |-> new.data, approved |-> new.approved]
        BY DEF Fields
      <3> HIDE DEF new
      <3>3. doc \in Doc
        BY <3>1 DEF Doc
      <3> QED BY <3>2, <3>3, ImportAssumption
    <2> HIDE DEF doc, new
    <2>3. parts'[h] = doc /\ \A p \in Pairs \ {h} : parts'[p] = parts[p]
      BY <1>2, <2>1 DEF IInv, StoresOK
    <2>4. ASSUME NEW k \in PartKinds, Effect(k, h) PROVE Planned(r, journal[i], k, h)
      <3>1. k = "create"
        BY <1>3, <2>4 DEF Effect, PartKinds
      <3> QED BY <1>1, <1>2, <3>1 DEF Planned
    <2>5. Move(i, [After(i, "save", "touch") EXCEPT !.created = @ \cup {h}, !.changed = @ \cup {h}])
      BY <1>0, <1>3 DEF CreatePart
    <2> QED BY <1>0, <1>1, <2>2, <2>3, <2>4, <2>5, SaveStep DEF new
  <1>4. CASE parts[h] # Absent
    <2> DEFINE q == run'[i]
    <2>1. Move(i, [r EXCEPT !.created = @ \cup {h}, !.pc = "failed"]) /\ UNCHANGED stores /\ UNCHANGED journal
      BY <1>0, <1>1, <1>4 DEF CreatePart, stores
    <2>2. RunOK(r, journal[i]) /\ r.told # "committed" /\ r.pc \notin Unread \cup {"load_boms"}
      BY <1>2, Running DEF Early, Loading
    <2>3. /\ q.ask = r.ask /\ q.read = r.read /\ q.plan = r.plan /\ q.told = r.told /\ q.changed = r.changed
          /\ q.created = r.created \cup {h} /\ q.pc = "failed"
      BY <1>2, <2>1 DEF Move, IInv, RunFields
    <2> HIDE DEF q
    <2>4. RunOK(q, journal[i])
      <3>1. q.created \subseteq Saved(q)
        BY <1>2, <2>2, <2>3 DEF RunOK, Saved
      <3> QED BY <1>2, <2>2, <2>3, <3>1
            DEF RunOK, Forward, Stored, Saving, Linking, Placing, Recording, Undoing, RolledBack
    <2>5. ASSUME NEW p \in Own(i) PROVE PairOK(i, q, journal'[i], p, parts'[p], LinksOf(p)', disk'[p], records'[p])
      <3>1. Untouched(r, p, parts[p], LinksOf(p))
        BY <2>2, Pairwise
      <3>2. parts' = parts /\ LinksOf(p)' = LinksOf(p)
        BY <2>1 DEF stores, LinksOf
      <3>3. Untouched(q, p, parts'[p], LinksOf(p)')
        BY <2>2, <2>3, <3>1, <3>2 DEF Untouched
      <3>4. /\ PartOK(q, p, parts'[p]) /\ BomOK(i, q, p, LinksOf(p)') /\ FileOK(q, p, disk'[p], records'[p])
            /\ UndoneOK(q, journal'[i], p, parts'[p], LinksOf(p)')
        BY <2>2, <2>3
           DEF PartOK, BomOK, FileOK, UndoneOK, Undone, Forward, Stored, Saving, Linking, Placing, Recording,
                          Undoing
      <3> QED BY <3>3, <3>4 DEF PairOK
    <2>6. ASSUME NEW p \in Own(i), NEW k \in Kinds, Planned(r, journal[i], k, p) PROVE Planned(q, journal'[i], k, p)
      BY <2>1, <2>3, <2>6, PlannedStays
    <2>7. \A p \in Own(i), k \in Kinds : ~Effect(k, p)
      BY <1>2, <2>1, NoEffect, OwnPairs
    <2> QED BY <2>1, <2>2, <2>3, <2>4, <2>5, <2>6, <2>7, OwnStep DEF q, PairNext
  <1> QED BY <1>3, <1>4

LEMMA UpdatePartKept ==
  ASSUME IInv, NEW i \in Imports, Promised(i), Observed(i), DOMAIN raced = Imports, UpdatePart(i)
  PROVE  Promised(i)'
  <1>0. PICK h : h = Head1(i)
    OBVIOUS
  <1> DEFINE r   == run[i]
             old == r.read.parts[h]
             new == Fields(r.ask.pack, r.plan, r.read, h)
  <1>1. /\ At(i, "save") /\ old # Absent /\ UNCHANGED <<links, records, disk, journal>> /\ Overwrite(i, h)
        /\ Move(i, [After(i, "save", "touch") EXCEPT !.changed = @ \cup {h}])
    BY <1>0 DEF UpdatePart
  <1>2. /\ RunTyped(r) /\ DOMAIN r = RunFields /\ h \in Pairs /\ h \in DOMAIN r.plan /\ r.pc = "save"
        /\ h \in r.todo /\ r.created \subseteq r.changed
    BY <1>0, <1>1, SaveLoop DEF At
  <1>3. h \notin r.changed /\ r.pc \notin Unread
    <2>1. RunOK(r, journal[i]) /\ r.pc \notin Unread
      BY <1>2, Running DEF Early, Loading
    <2> QED BY <1>2, <2>1 DEF RunOK
  <1>4. new = [data |-> new.data, approved |-> new.approved]
    BY DEF Fields
  <1>5. new.data \in Values \cup {Blank} /\ new.approved \in BOOLEAN
    BY <1>2, FieldsTyped DEF Loading
  <1>6. /\ r.plan[h].property \notin {"add", "replace", "clear"} => new.data = old.data
        /\ r.plan[h].approval \notin {"add", "change", "clear"} => new.approved = old.approved
    <2>1. old \in Doc
      <3>1. r.read \in Store
        BY <1>2 DEF RunTyped
      <3> QED BY <1>1, <1>2, <3>1 DEF Store
    <2>2. ApprovalBefore(r.read, h) = old.approved /\ Before(r.read, h) = old.data
      BY <1>1, <2>1 DEF ApprovalBefore, Before, Doc
    <2> QED BY <2>2 DEF Fields, Writes
  <1>7. parts \in [Pairs -> Doc \cup {Absent}]
    BY DEF IInv, StoresOK
  <1> HIDE DEF new
  <1>8. \/ /\ UNCHANGED parts
           /\ new = [data |-> old.data, approved |-> old.approved] \/ parts[h] = Absent \/ parts[h].id # old.id
        \/ /\ parts[h] # Absent
           /\ parts' = [parts EXCEPT ![h] = [@ EXCEPT !.data = new.data, !.approved = new.approved]]
    BY <1>1 DEF Overwrite, new
  <1>9. \A p \in Pairs \ {h} : parts'[p] = parts[p]
    BY <1>2, <1>7, <1>8
  <1>10. ASSUME h \in Own(i)
         PROVE  /\ parts'[h] # Absent /\ [data |-> parts'[h].data, approved |-> parts'[h].approved] = new
                /\ \A k \in PartKinds : Effect(k, h) => Planned(r, journal[i], k, h)
    <2>1. parts[h] = old /\ old \in Doc
      <3>1. Untouched(r, h, parts[h], LinksOf(h))
        BY <1>3, <1>10, Pairwise
      <3> QED BY <1>1, <1>2, <1>3, <1>7, <3>1 DEF Untouched
    <2>2. parts'[h] # Absent /\ parts'[h].data = new.data /\ parts'[h].approved = new.approved
      <3>1. CASE UNCHANGED parts /\ new = [data |-> old.data, approved |-> old.approved]
        BY <1>1, <2>1, <3>1
      <3>2. CASE parts' = [parts EXCEPT ![h] = [@ EXCEPT !.data = new.data, !.approved = new.approved]]
        <4> DEFINE doc == [old EXCEPT !.data = new.data, !.approved = new.approved]
        <4>1. doc \in Doc /\ doc.data = new.data /\ doc.approved = new.approved
          BY <1>5, <2>1 DEF Doc
        <4>2. parts'[h] = doc
          BY <1>2, <1>7, <2>1, <3>2
        <4> HIDE DEF doc
        <4> QED BY <4>1, <4>2, ImportAssumption
      <3> QED BY <1>1, <1>8, <2>1, <3>1, <3>2
    <2>3. ASSUME NEW k \in PartKinds, Effect(k, h) PROVE Planned(r, journal[i], k, h)
      <3>1. \/ k = "data" /\ parts[h].data # parts'[h].data
            \/ k = "approval" /\ parts[h].approved # parts'[h].approved
        BY <1>1, <2>1, <2>2, <2>3 DEF Effect, PartKinds
      <3> QED BY <1>1, <1>6, <2>1, <2>2, <3>1 DEF Planned
    <2> QED BY <1>4, <2>2, <2>3
  <1>11. Move(i, [After(i, "save", "touch") EXCEPT !.created = @ \cup {}, !.changed = @ \cup {h}])
    <2>1. [After(i, "save", "touch") EXCEPT !.changed = @ \cup {h}]
            = [After(i, "save", "touch") EXCEPT !.created = @ \cup {}, !.changed = @ \cup {h}]
      BY <1>2 DEF After, RunFields
    <2> QED BY <1>1, <2>1
  <1> DEFINE more == {}
  <1>12. /\ more \subseteq {h}
         /\ Move(i, [After(i, "save", "touch") EXCEPT !.created = @ \cup more, !.changed = @ \cup {h}])
    BY <1>11
  <1> HIDE DEF more
  <1> QED BY <1>0, <1>1, <1>9, <1>10, <1>12, SaveStep DEF new

-------------------------------------------------------------------------------
(* All steps.                                                              *)

LEMMA OwnKept ==
  ASSUME IInv, NEW i \in Imports, Promised(i), DOMAIN raced = Imports, Step(i) \/ Mishap(i)
  PROVE  Promised(i)'
  <1>1. Observed(i)
    BY DEF Step, Mishap
  <1>2. CASE LoadParts(i) \/ LoadBoms(i) \/ LoadFiles(i) \/ JournalStart(i)
    BY <1>1, <1>2, LoadPartsKept, LoadBomsKept, LoadFilesKept, JournalStartKept
  <1>3. CASE CreatePart(i) \/ UpdatePart(i) \/ JournalBoms(i) \/ DeleteLinks(i) \/ InsertLink(i)
    BY <1>1, <1>3, CreatePartKept, UpdatePartKept, JournalBomsKept, DeleteLinksKept, InsertLinkKept
  <1>4. CASE \/ JournalFiles(i) \/ MoveAside(i) \/ PlaceFile(i) \/ JournalMetadata(i) \/ StatFiles(i)
             \/ WriteRecord(i) \/ RecordDiscovered(i) \/ Commit(i)
    BY <1>1, <1>4, JournalFilesKept, MoveAsideKept, PlaceFileKept, JournalMetadataKept, StatFilesKept, RecordKept,
       CommitKept
  <1>5. CASE \/ UnplaceFile(i) \/ JournalFailed(i) \/ UndoPart(i) \/ UndoLinks(i)
             \/ JournalRolledBack(i) \/ JournalFollowup(i) \/ Answer(i)
    BY <1>1, <1>5, UnplaceKept, JournalFailedKept, UndoPartKept, UndoLinksKept, SettleKept, AnswerKept
  <1>6. CASE Fault(i) \/ UnplaceFails(i) \/ UndoFails(i) \/ Crash(i)
    BY <1>1, <1>6, FaultKept, UnplaceKept, UndoFailsKept
  <1> QED BY <1>2, <1>3, <1>4, <1>5, <1>6 DEF Step, Mishap

\* An import writes its own journal and keeps its own state.
LEMMA OneAtATime ==
  ASSUME IInv, NEW i \in Imports, Arrive(i) \/ Step(i) \/ Mishap(i), NEW j \in Imports \ {i}
  PROVE  run'[j] = run[j] /\ journal'[j] = journal[j]
  <1>1. \E r : Move(i, r)
    <2>1. CASE Arrive(i)
      BY <2>1 DEF Arrive, Submit
    <2>2. CASE Step(i)
      BY <2>2 DEF Step, Goto, LoadParts, LoadBoms, LoadFiles, JournalStart, CreatePart, UpdatePart, JournalBoms,
           DeleteLinks, InsertLink, JournalFiles, MoveAside, PlaceFile, JournalMetadata, StatFiles, WriteRecord,
           RecordDiscovered, Commit, UnplaceFile, JournalFailed, UndoPart, UndoLinks, JournalRolledBack,
           JournalFollowup, Answer
    <2>3. CASE Mishap(i)
      BY <2>3 DEF Mishap, Goto, Fault, UnplaceFails, UndoFails, Crash
    <2> QED BY <2>1, <2>2, <2>3
  <1>2. UNCHANGED journal \/ \E n : Note(i, n)
    <2>1. CASE Arrive(i) \/ Mishap(i)
      BY <2>1 DEF Arrive, Submit, Mishap, Fault, UnplaceFails, UndoFails, Crash
    <2>2. CASE Step(i)
      BY <2>2 DEF Step, LoadParts, LoadBoms, LoadFiles, JournalStart, CreatePart, UpdatePart, JournalBoms,
           DeleteLinks, InsertLink, JournalFiles, MoveAside, PlaceFile, JournalMetadata, StatFiles, WriteRecord,
           RecordDiscovered, Commit, UnplaceFile, JournalFailed, UndoPart, UndoLinks, JournalRolledBack,
           JournalFollowup, Answer
    <2> QED BY <2>1, <2>2
  <1> QED BY <1>1, <1>2 DEF Move, Note, IInv

\* A request that arrives touches nothing.
LEMMA ArriveOthers ==
  ASSUME IInv, Promises, NEW i \in Imports, Arrive(i), NEW j \in Imports \ {i}
  PROVE  Promised(j)'
  <1>1. UNCHANGED <<stores, effects, raced>> /\ run'[j] = run[j] /\ journal'[j] = journal[j]
    BY OneAtATime DEF Arrive, Submit
  <1>2. Own(j)' = Own(j) /\ \A p \in Own(j) : LinksOf(p)' = LinksOf(p)
    BY <1>1 DEF Own, LinksOf, stores
  <1> QED BY <1>1, <1>2 DEF Promises, Promised, stores

LEMMA NextKept ==
  ASSUME IInv, IInv', Promises, [Next]_vars
  PROVE  Promises'
  <1>1. CASE UNCHANGED vars
    <2>1. \A j \in Imports : Own(j)' = Own(j) /\ \A p \in Own(j) : LinksOf(p)' = LinksOf(p)
      BY <1>1 DEF Own, LinksOf, vars, stores
    <2> QED BY <1>1, <2>1 DEF Promises, Promised, vars, stores
  <1>2. ASSUME NEW i \in Imports, Arrive(i) PROVE Promises'
    <2>1. DOMAIN raced' = Imports /\ effects' = effects /\ Promised(i)'
      BY <1>2, ArriveKept DEF Arrive, Promises
    <2>2. \A j \in Imports \ {i} : Promised(j)'
      BY <1>2, ArriveOthers
    <2> QED BY <2>1, <2>2 DEF Promises
  <1>3. ASSUME NEW i \in Imports, Step(i) \/ Mishap(i) PROVE Promises'
    <2>1. Observed(i) /\ SameDocs
      BY <1>3, DocsKept DEF Step, Mishap
    <2>2. DOMAIN raced' = Imports /\ \A j \in Imports : effects'[j] \subseteq Kinds \X Pairs
      BY <2>1 DEF Observed, Promises, IInv
    <2>3. Promised(i)'
      BY <1>3, OwnKept DEF Promises
    <2>4. \A j \in Imports \ {i} : Promised(j)'
      BY <1>3, <2>1, OneAtATime, OthersKeep
    <2> QED BY <2>2, <2>3, <2>4 DEF Promises
  <1> QED BY <1>1, <1>2, <1>3 DEF Next

LEMMA InitKept ==
  ASSUME Init
  PROVE  Promises
  <1>1. ASSUME NEW i \in Imports PROVE Promised(i)
    <2>1. run[i].pc = "idle" /\ run[i].told = "nothing" /\ journal[i] = Absent
      BY DEF Init, NewRun
    <2> QED BY <2>1
               DEF Promised, Unread, RunOK, Forward, Stored, RolledBack, Saving, Linking, Placing, Recording, Undoing
  <1>2. DOMAIN raced = Imports /\ \A i \in Imports : effects[i] = {}
    BY DEF Init
  <1> QED BY <1>1, <1>2 DEF Promises

\* What an import keeps: whoever else runs, a pair nobody else wrote is as the
\* stage of the import and its plan say, and every effect on it is planned.
THEOREM ImportPromises == SafetySpec => []Promises
  <1>1. Init => Promises
    BY InitKept
  <1>2. IInv /\ IInv' /\ Promises /\ [Next]_vars => Promises'
    BY NextKept
  <1> QED BY <1>1, <1>2, ImportInvariant, PTL DEF SafetySpec

-------------------------------------------------------------------------------
(* What the plan does to an approved part, and what it asks of the user.   *)

LEMMA ApprovedPlan ==
  ASSUME NEW k, NEW policy \in Policy, NEW read, NEW p, ApprovalBefore(read, p)
  PROVE  LET e == Entry(k, policy, read, p) IN
         /\ e.state = "existing_approved"
         /\ e.property \in {"add", "replace", "clear"} => policy.data = "replace_all"
         /\ e.approval \in {"add", "change", "clear"} => policy.approval = "replace_all"
         /\ e.bom \in Writes => policy.bom = "replace_all"
         /\ e.file \in Writes => \/ policy.file = "replace_all"
                                 \/ policy.file = "replace_unapproved" /\ read.records[p] = Absent
  <1>1. State(read, p) = "existing_approved" /\ read.parts[p] # Absent
    BY DEF State, ApprovalBefore
  <1>2. /\ policy.data \in DataModes /\ policy.bom \in BomModes /\ policy.file \in FileModes
        /\ policy.approval \in ApprovalModes
    BY DEF Policy
  <1>3. PropertyAction(k, policy.data, read, p) \in {"add", "replace", "clear"} => policy.data = "replace_all"
    BY <1>1, <1>2 DEF PropertyAction, SurplusAction, FillAction, DataModes
  <1>4. ApprovalAction(k, policy, read, p) \in {"add", "change", "clear"} => policy.approval = "replace_all"
    BY <1>1, <1>2 DEF ApprovalAction, ApprovalModes
  <1>5. BomAction(k, policy.bom, read, p) \in Writes => policy.bom = "replace_all"
    BY <1>1, <1>2 DEF BomAction, BomModes, Writes
  <1>6. FileAction(k, policy.file, read, p) \in Writes =>
          \/ policy.file = "replace_all"
          \/ policy.file = "replace_unapproved" /\ read.records[p] = Absent
    <2>1. ASSUME policy.file # "replace_all", FileAction(k, policy.file, read, p) \in Writes
          PROVE  policy.file = "replace_unapproved" /\ read.records[p] = Absent
      <3>1. CASE p \notin k.files \/ read.records[p] = k.bytes
        BY <2>1, <3>1 DEF FileAction, Writes
      <3>2. CASE p \in k.files /\ read.records[p] # k.bytes
        BY <1>1, <1>2, <2>1, <3>2 DEF FileAction, FileModes, Writes
      <3> QED BY <3>1, <3>2
    <2> QED BY <2>1
  <1> QED BY <1>1, <1>3, <1>4, <1>5, <1>6 DEF Entry

\* What the plan does to something a draft has, it asks for as destructive.
LEMMA DraftPlan ==
  ASSUME NEW k, NEW policy \in Policy, NEW read, NEW p, State(read, p) = "existing_unapproved"
  PROVE  LET e == Entry(k, policy, read, p) IN
         /\ e.property \in {"add", "replace", "clear"} /\ Before(read, p) # Blank => Destructive(e)
         /\ e.approval \in {"add", "change", "clear"} => Destructive(e)
         /\ e.bom \in Writes /\ (\E l \in read.links : l.parent = p) => Destructive(e)
         /\ e.file \in Writes /\ read.records[p] # Absent => Destructive(e)
  <1> DEFINE e == Entry(k, policy, read, p)
  <1>1. /\ policy.data \in DataModes /\ policy.bom \in BomModes /\ policy.file \in FileModes
        /\ policy.approval \in ApprovalModes
    BY DEF Policy
  <1>2. /\ e.property = PropertyAction(k, policy.data, read, p) /\ e.bom = BomAction(k, policy.bom, read, p)
        /\ e.approval = ApprovalAction(k, policy, read, p) /\ e.file = FileAction(k, policy.file, read, p)
    BY DEF Entry
  <1> HIDE DEF e
  <1>3. e.property \in {"add", "replace", "clear"} /\ Before(read, p) # Blank => e.property \in {"replace", "clear"}
    BY <1>1, <1>2 DEF PropertyAction, SurplusAction, FillAction, DataModes
  <1>4. e.approval \in {"add", "change", "clear"} => e.approval = "change"
    <2>1. HasValue(TRUE \in k.approval) /\ HasValue(ApprovalBefore(read, p))
      BY DEF HasValue, ApprovalBefore
    <2> QED BY <1>1, <1>2, <2>1 DEF ApprovalAction
  <1>5. e.bom \in Writes /\ (\E l \in read.links : l.parent = p) => e.bom = "replace"
    <2>1. ASSUME e.bom \in Writes, NEW l \in read.links, l.parent = p PROVE e.bom = "replace"
      <3>1. {x.child : x \in {y \in read.links : y.parent = p}} # {}
        BY <2>1
      <3> QED BY <1>2, <2>1, <3>1 DEF BomAction, Writes
    <2> QED BY <2>1
  <1>6. e.file \in Writes /\ read.records[p] # Absent => e.file = "replace"
    BY <1>2 DEF FileAction, Writes
  <1> QED BY <1>3, <1>4, <1>5, <1>6 DEF Destructive, e

\* The permissions a plan asks for are those its entries need.
LEMMA AskedFor ==
  ASSUME NEW k, NEW plan, NEW read, NEW p \in Acts(plan)
  PROVE  /\ plan[p].state = "new" => "parts.create" \in Required(k, plan, read)
         /\ plan[p].bom \in Writes => "bom.update" \in Required(k, plan, read)
         /\ plan[p].bom \in Writes /\ MissingChildren(k, read, p) # {} => "parts.create" \in Required(k, plan, read)
         /\ plan[p].state # "new" /\ FieldsChanged(plan[p]) => "parts.update" \in Required(k, plan, read)
         /\ plan[p].file \in Writes => {"files.add", "files.replace"} \cap Required(k, plan, read) # {}
         /\ plan[p].state = "existing_approved" =>
              {"imports.execute_approved", "imports.override_approved"} \subseteq Required(k, plan, read)
         /\ plan[p].state = "existing_unapproved" /\ Destructive(plan[p]) =>
              "imports.execute_approved" \in Required(k, plan, read)
         /\ ExecutionTiers \cap Required(k, plan, read) # {}
  <1>1. Resources(k, plan, read) \subseteq Required(k, plan, read) /\ Tiers(plan) \subseteq Required(k, plan, read)
    BY DEF Required
  <1>2. Creates(k, plan[p], read, p) => "parts.create" \in Resources(k, plan, read)
    BY DEF Resources
  <1>3. plan[p].state # "new" /\ FieldsChanged(plan[p]) => "parts.update" \in Resources(k, plan, read)
    BY DEF Resources
  <1>4. plan[p].bom \in Writes => "bom.update" \in Resources(k, plan, read)
    BY DEF Resources
  <1>5. plan[p].file \in Writes => {"files.add", "files.replace"} \cap Resources(k, plan, read) # {}
    <2>1. plan[p].file = "add" => "files.add" \in Resources(k, plan, read)
      BY DEF Resources
    <2>2. plan[p].file = "replace" => "files.replace" \in Resources(k, plan, read)
      BY DEF Resources
    <2> QED BY <2>1, <2>2 DEF Writes
  <1>6. /\ plan[p].state = "existing_approved" =>
             {"imports.execute_approved", "imports.override_approved"} \subseteq Tiers(plan)
        /\ plan[p].state = "existing_unapproved" /\ Destructive(plan[p]) =>
             "imports.execute_approved" \in Tiers(plan)
    BY DEF Tiers
  <1>7. ExecutionTiers \cap Tiers(plan) # {}
    BY DEF Tiers, ExecutionTiers
  <1> QED BY <1>1, <1>2, <1>3, <1>4, <1>5, <1>6, <1>7 DEF Creates

\* An effect on a pair nobody else wrote comes from the plan, which was not
\* refused.
LEMMA EffectPlanned ==
  ASSUME IInv, Promises, NEW i \in Imports, NEW e \in effects[i], e[2] \in Own(i)
  PROVE  LET r == run[i] IN
         /\ e[1] \in Kinds /\ e[2] \in r.ask.pack.parts
         /\ Planned(r, journal[i], e[1], e[2])
         /\ r.plan = Plan(r.ask.pack, r.ask.policy, r.read) /\ ~Refused(r.ask, r.plan, r.read)
         /\ r.ask.policy \in Policy /\ journal[i] # Absent
         /\ r.created = {} \/ r.created \subseteq {p \in Pairs : r.read.parts[p] = Absent}
         /\ r.created \subseteq Saved(r)
  <1> DEFINE r == run[i]
  <1>1. e[1] \in Kinds /\ e = <<e[1], e[2]>>
    BY DEF Promises
  <1>2. journal[i] # Absent /\ RunTyped(r) /\ JournalOK(r, journal[i])
    BY DEF IInv, ImportOK, Covered, Bounded
  <1>3. r.pc \notin Early
    BY <1>2 DEF JournalOK
  <1>4. r.ask \in Requests /\ r.ask.policy \in Policy
    BY <1>2, <1>3, ImportAssumption DEF RunTyped, Early, Loading
  <1>5. Promised(i)
    BY DEF Promises
  <1>6. Planned(r, journal[i], e[1], e[2])
    BY <1>1, <1>3, <1>5 DEF Promised, Unread, Early, Loading
  <1>7. /\ r.plan = Plan(r.ask.pack, r.ask.policy, r.read) /\ ~Refused(r.ask, r.plan, r.read)
        /\ r.created \subseteq Saved(r)
    BY <1>2, <1>5 DEF Promised, RunOK
  <1>8. e[2] \in r.ask.pack.parts
    BY DEF Own
  <1> QED BY <1>1, <1>2, <1>4, <1>6, <1>7, <1>8 DEF RunTyped

-------------------------------------------------------------------------------
(* The theorems about what an import keeps.                                *)

\* For any number of imports, packs, stores and mishaps, a part that was approved
\* when an import looked is changed by it only for a user who may override
\* approval, and only under the policy that says so.
THEOREM ImportApproved == SafetySpec => []ApprovedProtected
  <1>1. IInv /\ Promises => ApprovedProtected
    <2> SUFFICES ASSUME IInv, Promises, NEW i \in Imports, NEW e \in effects[i], e[2] \in Own(i),
                        ApprovalBefore(run[i].read, e[2]), e[1] # "record"
                 PROVE  /\ "imports.override_approved" \in run[i].ask.perms
                        /\ CASE e[1] = "data"     -> run[i].ask.policy.data = "replace_all"
                             [] e[1] = "approval" -> run[i].ask.policy.approval = "replace_all"
                             [] e[1] = "bom"      -> run[i].ask.policy.bom = "replace_all"
                             [] e[1] = "file"     -> \/ run[i].ask.policy.file = "replace_all"
                                                     \/ /\ run[i].ask.policy.file = "replace_unapproved"
                                                        /\ run[i].read.records[e[2]] = Absent
      BY DEF ApprovedProtected
    <2> DEFINE r == run[i]
               p == e[2]
               k == r.ask.pack
               entry == Entry(k, r.ask.policy, r.read, p)
    <2>1. /\ e[1] \in Kinds /\ p \in k.parts /\ Planned(r, journal[i], e[1], p)
          /\ r.plan = Plan(k, r.ask.policy, r.read) /\ ~Refused(r.ask, r.plan, r.read)
          /\ r.ask.policy \in Policy
          /\ r.created = {} \/ r.created \subseteq {x \in Pairs : r.read.parts[x] = Absent}
      BY EffectPlanned
    <2>2. r.plan[p] = entry /\ p \in DOMAIN r.plan
      BY <2>1 DEF Plan
    <2>3. /\ entry.state = "existing_approved"
          /\ entry.property \in {"add", "replace", "clear"} => r.ask.policy.data = "replace_all"
          /\ entry.approval \in {"add", "change", "clear"} => r.ask.policy.approval = "replace_all"
          /\ entry.bom \in Writes => r.ask.policy.bom = "replace_all"
          /\ entry.file \in Writes => \/ r.ask.policy.file = "replace_all"
                                      \/ r.ask.policy.file = "replace_unapproved" /\ r.read.records[p] = Absent
      BY <2>1, ApprovedPlan
    <2>4. r.read.parts[p] # Absent /\ p \notin r.created
      BY <2>1 DEF ApprovalBefore
    <2> HIDE DEF entry
    <2>5. /\ e[1] \in {"data", "approval", "bom", "file"}
          /\ e[1] = "data" => entry.property \in {"add", "replace", "clear"}
          /\ e[1] = "approval" => entry.approval \in {"add", "change", "clear"}
          /\ e[1] = "bom" => entry.bom \in Writes
          /\ e[1] = "file" => entry.file \in Writes
      BY <2>1, <2>2, <2>4 DEF Planned, Kinds, BomParents, FileTargets
    <2>6. p \in Acts(r.plan)
      BY <2>2, <2>5 DEF Acts, Changed, FieldsChanged
    <2>7. "imports.override_approved" \in r.ask.perms
      <3>1. "imports.override_approved" \in Required(k, r.plan, r.read)
        BY <2>2, <2>3, <2>6, AskedFor
      <3> QED BY <2>1, <3>1 DEF Refused
    <2> QED BY <2>3, <2>5, <2>7
  <1> QED BY <1>1, ImportInvariant, ImportPromises, PTL

\* For any number of imports, packs, stores and mishaps, an import does to a part
\* what its user may do to such a resource, by a user of the tier that the effect
\* takes on a part as it was read, and spares the parts out of scope.
THEOREM ImportAuthorised == SafetySpec => []EffectsAuthorised
  <1>1. IInv /\ Promises => EffectsAuthorised
    <2> SUFFICES ASSUME IInv, Promises, NEW i \in Imports, NEW e \in effects[i], e[2] \in Own(i), e[1] # "record"
                 PROVE  /\ \/ Needed(e[1]) \cap run[i].ask.perms # {}
                           \/ e[1] = "bom" /\ Compensates(i, e[2])
                        /\ run[i].read.parts[e[2]] = Absent \/ e[2] \in run[i].ask.scope
                        /\ run[i].ask.perms \cap ExecutionTiers # {}
                        /\ NeededTiers(e[1], run[i].read, e[2]) \subseteq run[i].ask.perms
      BY DEF EffectsAuthorised
    <2> DEFINE r == run[i]
               p == e[2]
               k == r.ask.pack
               asked == Required(k, r.plan, r.read)
               covered == Needed(e[1]) \cap r.ask.perms # {} \/ (e[1] = "bom" /\ Compensates(i, p))
    <2>1. /\ e[1] \in Kinds /\ p \in k.parts /\ Planned(r, journal[i], e[1], p)
          /\ r.plan = Plan(k, r.ask.policy, r.read) /\ ~Refused(r.ask, r.plan, r.read)
          /\ r.created = {} \/ r.created \subseteq {x \in Pairs : r.read.parts[x] = Absent}
          /\ r.created \subseteq Saved(r) /\ r.ask.policy \in Policy /\ journal[i] # Absent
      BY EffectPlanned
    <2>2. /\ DOMAIN r.plan = k.parts
          /\ \A x \in k.parts : r.plan[x].state = State(r.read, x)
      BY <2>1 DEF Plan, Entry
    <2>3. /\ r.read.parts[p] = Absent => r.plan[p].state = "new"
          /\ r.read.parts[p] # Absent => r.plan[p].state # "new"
      BY <2>1, <2>2 DEF State
    <2>4. asked \subseteq r.ask.perms /\ (Changed(r.plan[p]) /\ r.plan[p].state # "new" => p \in r.ask.scope)
      BY <2>1, <2>2 DEF Refused
    <2> HIDE DEF asked
    <2>5. ASSUME e[1] \in {"create", "delete"} PROVE covered
      <3>1. p \in Saved(r) /\ r.read.parts[p] = Absent
        BY <2>1, <2>5 DEF Planned
      <3>2. CASE Changed(r.plan[p])
        <4>1. p \in Acts(r.plan)
          BY <2>1, <2>2, <3>2 DEF Acts
        <4>2. "parts.create" \in asked
          BY <2>3, <3>1, <4>1, AskedFor DEF asked
        <4> QED BY <2>4, <2>5, <3>1, <4>2 DEF Needed
      <3>3. CASE ~Changed(r.plan[p])
        <4>1. p \in Structural(k, r.plan, r.read)
          BY <3>1, <3>3 DEF Saved, ToSave
        <4>2. p \notin BomParents(r.plan) \cup FileTargets(r.plan)
          BY <3>3 DEF BomParents, FileTargets, Changed
        <4>3. PICK x \in BomParents(r.plan) : p \in Children(k, x)
          BY <4>1, <4>2 DEF Structural
        <4>4. x \in Acts(r.plan) /\ r.plan[x].bom \in Writes
          BY <4>3 DEF BomParents, Acts, Changed
        <4>5. p \in MissingChildren(k, r.read, x)
          BY <3>1, <4>3 DEF MissingChildren
        <4>6. "parts.create" \in asked
          BY <4>4, <4>5, AskedFor DEF asked
        <4> QED BY <2>4, <2>5, <3>1, <4>6 DEF Needed
      <3> QED BY <3>2, <3>3
    <2>6. ASSUME e[1] \in {"data", "approval"} PROVE covered /\ p \in r.ask.scope
      <3>1. FieldsChanged(r.plan[p]) /\ r.read.parts[p] # Absent
        BY <2>1, <2>6 DEF Planned, FieldsChanged
      <3>2. p \in Acts(r.plan) /\ Changed(r.plan[p])
        BY <2>1, <2>2, <3>1 DEF Acts, Changed
      <3>3. "parts.update" \in asked
        BY <2>3, <3>1, <3>2, AskedFor DEF asked
      <3> QED BY <2>3, <2>4, <2>6, <3>1, <3>2, <3>3 DEF Needed
    <2>7. ASSUME e[1] = "bom" PROVE covered /\ (r.read.parts[p] = Absent \/ p \in r.ask.scope)
      <3>1. CASE p \in BomParents(r.plan)
        <4>1. p \in Acts(r.plan) /\ Changed(r.plan[p]) /\ r.plan[p].bom \in Writes
          BY <3>1 DEF BomParents, Acts, Changed
        <4>2. "bom.update" \in asked
          BY <4>1, AskedFor DEF asked
        <4> QED BY <2>3, <2>4, <2>7, <4>1, <4>2 DEF Needed
      <3>2. CASE p \notin BomParents(r.plan)
        BY <2>1, <2>7, <3>2 DEF Planned, Compensates
      <3> QED BY <3>1, <3>2
    <2>8. ASSUME e[1] = "file" PROVE covered /\ (r.read.parts[p] = Absent \/ p \in r.ask.scope)
      <3>1. p \in Acts(r.plan) /\ Changed(r.plan[p]) /\ r.plan[p].file \in Writes
        BY <2>1, <2>8 DEF Planned, FileTargets, Acts, Changed
      <3>2. {"files.add", "files.replace"} \cap asked # {}
        BY <3>1, AskedFor DEF asked
      <3> QED BY <2>3, <2>4, <2>8, <3>1, <3>2 DEF Needed
    <2>9. r.read.parts[p] = Absent \/ p \in r.ask.scope
      BY <2>1, <2>6, <2>7, <2>8 DEF Kinds, Planned
    <2>10. covered
      BY <2>1, <2>5, <2>6, <2>7, <2>8 DEF Kinds
    <2>11. Acts(r.plan) # {}
      <3> SUFFICES ASSUME Acts(r.plan) = {} PROVE FALSE
        OBVIOUS
      <3>1. \A x \in k.parts : ~Changed(r.plan[x])
        BY <2>2 DEF Acts
      <3>2. BomParents(r.plan) = {} /\ FileTargets(r.plan) = {}
        BY <2>2, <3>1 DEF BomParents, FileTargets, Changed
      <3>3. Saved(r) = {}
        BY <2>2, <3>1, <3>2 DEF Saved, ToSave, Structural
      <3>4. ~FieldsChanged(r.plan[p])
        BY <2>1, <3>1 DEF Changed
      <3> QED BY <2>1, <3>2, <3>3, <3>4 DEF Kinds, Planned, FieldsChanged
    <2>12. r.ask.perms \cap ExecutionTiers # {}
      <3>1. ExecutionTiers \cap asked # {}
        BY <2>11, AskedFor DEF asked
      <3> QED BY <2>4, <3>1
    <2>13. NeededTiers(e[1], r.read, p) \subseteq r.ask.perms
      <3>1. ASSUME r.read.parts[p] # Absent PROVE p \in Acts(r.plan)
        <4>1. p \notin r.created /\ e[1] \notin {"create", "delete"}
          BY <2>1, <3>1 DEF Planned
        <4> QED BY <2>1, <2>2, <4>1 DEF Kinds, Planned, BomParents, FileTargets, Acts, Changed, FieldsChanged
      <3>2. CASE State(r.read, p) = "existing_approved"
        <4>1. p \in Acts(r.plan) /\ r.plan[p].state = "existing_approved"
          BY <2>1, <2>2, <3>1, <3>2 DEF State
        <4>2. {"imports.execute_approved", "imports.override_approved"} \subseteq asked
          BY <4>1, AskedFor DEF asked
        <4> QED BY <2>4, <3>2, <4>2 DEF NeededTiers
      <3>3. CASE State(r.read, p) = "existing_unapproved" /\ Destroys(e[1], r.read, p)
        <4>1. p \in Acts(r.plan) /\ r.plan[p].state = "existing_unapproved" /\ r.read.parts[p] # Absent
          BY <2>1, <2>2, <3>1, <3>3 DEF State
        <4>2. r.plan[p] = Entry(k, r.ask.policy, r.read, p)
          BY <2>1 DEF Plan
        <4>3. Destructive(r.plan[p])
          <5>1. p \notin r.created
            BY <2>1, <4>1
          <5> QED BY <2>1, <3>3, <4>1, <4>2, <5>1, DraftPlan DEF Kinds, Planned, Destroys, BomParents, FileTargets
        <4>4. "imports.execute_approved" \in asked
          BY <4>1, <4>3, AskedFor DEF asked
        <4> QED BY <2>4, <3>3, <4>4 DEF NeededTiers
      <3>4. CASE /\ State(r.read, p) # "existing_approved"
                 /\ ~(State(r.read, p) = "existing_unapproved" /\ Destroys(e[1], r.read, p))
        BY <3>4 DEF NeededTiers
      <3> QED BY <3>2, <3>3, <3>4
    <2> QED BY <2>9, <2>10, <2>12, <2>13
  <1> QED BY <1>1, ImportInvariant, ImportPromises, PTL

\* For any number of imports, packs, stores and mishaps, an import reported as
\* committed has written what it planned, and no BOM of it names a missing part.
THEOREM ImportDelivers == SafetySpec => []CommitDelivers
  <1>1. IInv /\ Promises => CommitDelivers
    <2> SUFFICES ASSUME IInv, Promises, NEW i \in Imports, run[i].told = "committed", NEW p \in Own(i)
                 PROVE  /\ p \in ToSave(run[i].ask.pack, run[i].plan, run[i].read) =>
                             /\ parts[p] # Absent
                             /\ [data |-> parts[p].data, approved |-> parts[p].approved]
                                  = Fields(run[i].ask.pack, run[i].plan, run[i].read, p)
                        /\ p \in BomParents(run[i].plan) =>
                             /\ LinksOf(p) = {[parent |-> p, child |-> c, by |-> i] :
                                                 c \in Children(run[i].ask.pack, p)}
                             /\ \A c \in Children(run[i].ask.pack, p) \ raced[i] : parts[c] # Absent
                        /\ p \in FileTargets(run[i].plan) => disk[p] = run[i].ask.pack.bytes
                                                              /\ records[p] = run[i].ask.pack.bytes
      BY DEF CommitDelivers
    <2> DEFINE r == run[i]
               k == r.ask.pack
    <2>1. Promised(i) /\ RunOK(r, journal[i]) /\ r.pc = "done" /\ journal[i] # Absent
      BY DEF Promises, Promised, RunOK
    <2>2. Forward(r) /\ Stored(r) /\ r.changed = Saved(r) /\ r.created \subseteq Saved(r)
      BY <2>1 DEF Forward, Stored, RunOK
    <2>3. k \in Pack /\ r.plan = Plan(k, r.ask.policy, r.read)
      BY <2>1, OwnPairs DEF RunOK
    <2>4. ASSUME NEW x \in Own(i)
          PROVE  /\ Untouched(r, x, parts[x], LinksOf(x)) /\ PartOK(r, x, parts[x])
                 /\ BomOK(i, r, x, LinksOf(x)) /\ FileOK(r, x, disk[x], records[x])
      BY <2>1, Pairwise DEF Unread
    <2>5. ASSUME NEW x \in Own(i), x \in Saved(r)
          PROVE  /\ parts[x] # Absent
                 /\ [data |-> parts[x].data, approved |-> parts[x].approved] = Fields(k, r.plan, r.read, x)
      BY <2>2, <2>4, <2>5 DEF PartOK
    <2>6. p \in FileTargets(r.plan) => disk[p] = k.bytes /\ records[p] = k.bytes
      BY <2>2, <2>4 DEF FileOK
    <2>7. ASSUME p \in BomParents(r.plan)
          PROVE  LinksOf(p) = {[parent |-> p, child |-> c, by |-> i] : c \in Children(k, p)}
      <3>1. LinksOf(p) = Inserted(i, k, p, {})
        BY <2>1, <2>2, <2>4, <2>7 DEF BomOK
      <3> QED BY <3>1 DEF Inserted, Children
    <2>8. ASSUME p \in BomParents(r.plan), NEW c \in Children(k, p) \ raced[i]
          PROVE  parts[c] # Absent
      <3>1. c \in k.parts /\ c \in Own(i)
        <4>1. PICK l \in k.links : c = l[2]
          BY DEF Children
        <4>2. k.links \subseteq k.parts \X k.parts
          BY <2>3 DEF Pack
        <4> QED BY <4>1, <4>2 DEF Own
      <3>2. CASE c \in Saved(r)
        BY <2>5, <3>1, <3>2
      <3>3. CASE c \notin Saved(r)
        <4>1. r.read.parts[c] # Absent
          <5>1. DOMAIN r.plan = k.parts
            BY <2>3 DEF Plan
          <5> QED BY <2>8, <3>1, <3>3, <5>1 DEF Saved, ToSave, Structural
        <4>2. parts[c] = r.read.parts[c]
          BY <2>2, <2>4, <3>1, <3>3 DEF Untouched
        <4> QED BY <4>1, <4>2
      <3> QED BY <3>2, <3>3
    <2> QED BY <2>5, <2>6, <2>7, <2>8 DEF Saved
  <1> QED BY <1>1, ImportInvariant, ImportPromises, PTL

\* For any number of imports, packs, stores and mishaps, an import that was rolled
\* back and asks for no reconciliation has left parts and BOMs as it found them.
THEOREM ImportRestores == SafetySpec => []RollbackRestoresDatabase
  <1>1. IInv /\ Promises => RollbackRestoresDatabase
    <2> SUFFICES ASSUME IInv, Promises, NEW i \in Imports, run[i].pc = "done", journal[i] # Absent,
                        journal[i].status = "rolled_back", journal[i].followup = {}, NEW p \in Own(i)
                 PROVE  /\ parts[p] = run[i].read.parts[p]
                        /\ Children(run[i].ask.pack, p) # {} =>
                             \/ LinksOf(p) = {l \in run[i].read.links : l.parent = p}
                             \/ LinksOf(p) = {} /\ Compensates(i, p)
      BY DEF RollbackRestoresDatabase
    <2> DEFINE r == run[i]
    <2>1. Promised(i) /\ r.stuck = {} /\ r.changed \subseteq r.created
      BY DEF Promises, Promised, RunOK, RolledBack
    <2>2. Untouched(r, p, parts[p], LinksOf(p)) /\ UndoneOK(r, journal[i], p, parts[p], LinksOf(p))
      BY <2>1, Pairwise DEF Unread
    <2>3. r.created = {} \/ r.created \subseteq {x \in Pairs : r.read.parts[x] = Absent}
      BY DEF IInv, ImportOK, RunTyped
    <2>4. CASE p \in r.created
      <3>1. parts[p] = Absent /\ LinksOf(p) = {}
        BY <2>1, <2>2, <2>4 DEF UndoneOK, Undone, RolledBack
      <3> QED BY <2>3, <2>4, <3>1 DEF Compensates
    <2>5. CASE p \notin r.created
      BY <2>1, <2>2, <2>5 DEF Untouched
    <2> QED BY <2>4, <2>5
  <1> QED BY <1>1, ImportInvariant, ImportPromises, PTL
================================================================================
