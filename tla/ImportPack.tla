------------------------------ MODULE ImportPack ------------------------------
(***************************************************************************)
(* The upload-pack import: import_upload_pack and execute_import_plan of   *)
(* app/services/upload_pack.py, and the recovery note of its route.        *)
(*                                                                         *)
(* Parts, BOM links and file records live in MongoDB, deliverables on      *)
(* disk, and no transaction spans the two.  Requests run in several        *)
(* workers, so one action is one database or file-system operation.        *)
(*                                                                         *)
(* One mishap is a failed operation, a failed compensation or the death of *)
(* a worker.  Writing the journal is taken to succeed.                     *)
(***************************************************************************)
EXTENDS ImportPlan, FiniteSetsExt

CONSTANTS
  Imports,    \* attempts, numbered in the order in which they arrive
  Requests,   \* who asks for what
  Stores,     \* databases and deliverables an import may find
  MaxMishaps  \* bound on mishaps

\* A document keeps its identity; one deleted and created again is another.
Doc    == [id : Imports \cup {0}, data : Values \cup {Blank}, approved : BOOLEAN]
Link   == [parent : Pairs, child : Pairs, by : Imports \cup {0}]
Hashes == Bytes \cup {Unhashed, Absent}
Stages == {"parts", "boms", "files", "file_metadata", "done"}
Entries == [status : {"started", "committed", "failed", "rolled_back"}, stage : Stages, nth : Nat,
            touched : SUBSET Pairs, followup : SUBSET Pairs]
Store   == [parts : [Pairs -> Doc \cup {Absent}], links : SUBSET Link,
            records : [Pairs -> Hashes], disk : [Pairs -> Bytes \cup {Absent}]]

\* Attempts and pairs are finitely many.
ASSUME ImportAssumption == /\ Imports \subseteq Nat \ {0} /\ IsFiniteSet(Imports)
                           /\ MaxMishaps \in Nat
                           /\ \E last \in Pairs \cup {0} : \A p \in Pairs : p <= last
                           /\ \A r \in Requests : r.pack \in Pack /\ r.policy \in Policy
                           /\ Stores \subseteq Store
                           /\ Absent \notin Entries \cup Store \cup Doc

VARIABLES
  parts,    \* collection parts, unique on the pair
  links,    \* collection bom_links, without a unique index
  records,  \* collection part_files: hash of the deliverable's bytes
  disk,     \* deliverables
  journal,  \* collection import_journal
  run,      \* the local state of each import
  mishaps,  \* mishaps so far
  effects,  \* history: what each import did to which pair
  raced     \* history: pairs others wrote since an import loaded them

stores == <<parts, links, records, disk>>
vars   == <<stores, journal, run, mishaps, effects, raced>>

\* todo is what is left of the loop an import is in; backup the originals it
\* moved aside; stuck the parts its rollback could not remove.
NewRun == [pc |-> "idle", ask |-> Absent, read |-> Absent, plan |-> Absent, todo |-> {},
           created |-> {}, changed |-> {}, placed |-> {}, backup |-> [p \in Pairs |-> Absent],
           stuck |-> {}, told |-> "nothing"]

Init ==
  /\ \E s \in Stores : /\ parts = s.parts /\ links = s.links
                       /\ records = s.records /\ disk = s.disk
  /\ journal = [i \in Imports |-> Absent]
  /\ run = [i \in Imports |-> NewRun]
  /\ mishaps = 0
  /\ effects = [i \in Imports |-> {}]
  /\ raced = [i \in Imports |-> {}]

At(i, label) == run[i].pc = label
Move(i, r)   == run' = [run EXCEPT ![i] = r]
Goto(i, label) == Move(i, [run[i] EXCEPT !.pc = label])

\* The loops visit their pairs in the sort order.
Head1(i)     == Min(run[i].todo)
After(i, here, next) ==
  LET rest == run[i].todo \ {Head1(i)} IN
  [run[i] EXCEPT !.todo = rest, !.pc = IF rest = {} THEN next ELSE here]

-----------------------------------------------------------------------------
(* The request: load, plan, authorise.                                     *)

Submit(i) ==
  /\ At(i, "idle")
  /\ \A j \in Imports : j < i => ~At(j, "idle")
  /\ \E r \in Requests : Move(i, [NewRun EXCEPT !.ask = r, !.pc = "load_parts"])
  /\ UNCHANGED <<stores, journal>>

LoadParts(i) ==
  /\ At(i, "load_parts")
  /\ Move(i, [run[i] EXCEPT !.pc = "load_boms",
        !.read = [parts |-> parts, links |-> {}, records |-> records, disk |-> disk]])
  /\ UNCHANGED <<stores, journal>>

LoadBoms(i) ==
  /\ At(i, "load_boms")
  /\ LET parents == {l[1] : l \in run[i].ask.pack.links} IN
     Move(i, [run[i] EXCEPT !.pc = "load_files",
                            !.read.links = {l \in links : l.parent \in parents}])
  /\ UNCHANGED <<stores, journal>>

Refused(r, p, seen) ==
  \/ ~(Required(r.pack, p, seen) \subseteq r.perms)
  \/ \E x \in DOMAIN p : Changed(p[x]) /\ p[x].state # "new" /\ x \notin r.scope

\* The file records and the scan of the storage, which only tells what lies
\* there, are taken at one moment.
LoadFiles(i) ==
  /\ At(i, "load_files")
  /\ LET r     == run[i].ask
         seen  == [run[i].read EXCEPT !.records = records, !.disk = disk]
         draft == Plan(r.pack, r.policy, seen)
         made  == [run[i] EXCEPT !.read = seen, !.plan = draft]
     IN Move(i, IF Refused(r, draft, seen) THEN [made EXCEPT !.pc = "done", !.told = "refused"]
                ELSE [made EXCEPT !.pc = "start"])
  /\ UNCHANGED <<stores, journal>>

-----------------------------------------------------------------------------
(* execute_import_plan: parts, BOMs, files, records.                       *)

Note(i, entry) == journal' = [journal EXCEPT ![i] = entry]

\* The new files are written to a staging directory first, beside the shared
\* state; then the journal is opened.
JournalStart(i) ==
  /\ At(i, "start")
  /\ LET r == run[i]
         s == ToSave(r.ask.pack, r.plan, r.read)
     IN Move(i, [r EXCEPT !.todo = s, !.pc = IF s = {} THEN "touch" ELSE "save"])
  /\ Note(i, [status |-> "started", stage |-> "parts", touched |-> {}, followup |-> {},
              nth |-> Cardinality({j \in Imports : journal[j] # Absent})])
  /\ UNCHANGED stores

\* A new part is on the list of created parts before it is saved, and the save
\* fails when somebody created the pair meanwhile.
CreatePart(i) ==
  /\ At(i, "save") /\ run[i].read.parts[Head1(i)] = Absent
  /\ LET r   == run[i]
         p   == Head1(i)
         new == Fields(r.ask.pack, r.plan, r.read, p)
         doc == [id |-> i, data |-> new.data, approved |-> new.approved]
     IN IF parts[p] = Absent
        THEN /\ parts' = [parts EXCEPT ![p] = doc]
             /\ Move(i, [After(i, "save", "touch") EXCEPT !.created = @ \cup {p},
                                                          !.changed = @ \cup {p}])
        ELSE /\ Move(i, [r EXCEPT !.created = @ \cup {p}, !.pc = "failed"])
             /\ UNCHANGED parts
  /\ UNCHANGED <<links, records, disk, journal>>

\* An existing part is written by its identity, and only when its fields differ
\* from those read; but then they are written as one whole.  A part deleted
\* meanwhile comes back without part number, where no pair finds it.
Overwrite(i, p) ==
  LET old  == run[i].read.parts[p]
      new  == Fields(run[i].ask.pack, run[i].plan, run[i].read, p)
      same == new = [data |-> old.data, approved |-> old.approved]
  IN parts' = IF same \/ parts[p] = Absent \/ parts[p].id # old.id THEN parts
              ELSE [parts EXCEPT ![p] = [@ EXCEPT !.data = new.data, !.approved = new.approved]]

UpdatePartAsCreated(i) ==
  /\ At(i, "save") /\ run[i].read.parts[Head1(i)] # Absent
  /\ Overwrite(i, Head1(i))
  /\ Move(i, [After(i, "save", "touch") EXCEPT !.created = @ \cup {Head1(i)},
                                               !.changed = @ \cup {Head1(i)}])
  /\ UNCHANGED <<links, records, disk, journal>>

UpdatePart(i) ==
  /\ At(i, "save") /\ run[i].read.parts[Head1(i)] # Absent
  /\ Overwrite(i, Head1(i))
  /\ Move(i, [After(i, "save", "touch") EXCEPT !.changed = @ \cup {Head1(i)}])
  /\ UNCHANGED <<links, records, disk, journal>>

JournalBomsCreatedOnly(i) ==
  /\ At(i, "touch")
  /\ LET r == run[i]
         s == BomParents(r.plan)
     IN /\ Move(i, [r EXCEPT !.todo = s, !.pc = IF s = {} THEN "boms_written" ELSE "delete_links"])
        /\ Note(i, [journal[i] EXCEPT !.stage = "boms", !.touched = r.created])
  /\ UNCHANGED stores

\* The journal names the parts now changed, before the next stage begins.
JournalBoms(i) ==
  /\ At(i, "touch")
  /\ LET r == run[i]
         s == BomParents(r.plan)
     IN /\ Move(i, [r EXCEPT !.todo = s, !.pc = IF s = {} THEN "boms_written" ELSE "delete_links"])
        /\ Note(i, [journal[i] EXCEPT !.stage = "boms", !.touched = r.changed])
  /\ UNCHANGED stores

DeleteLinks(i) ==
  /\ At(i, "delete_links")
  /\ links' = {l \in links : l.parent # Head1(i)}
  /\ LET r == After(i, "delete_links", "insert_links") IN
     Move(i, IF r.pc = "delete_links" THEN r
             ELSE [r EXCEPT !.todo = {l \in r.ask.pack.links : l[1] \in BomParents(r.plan)}])
  /\ UNCHANGED <<parts, records, disk, journal>>

InsertLink(i) ==
  /\ At(i, "insert_links")
  /\ \E l \in run[i].todo :
       LET rest == run[i].todo \ {l} IN
       /\ \A m \in rest : l[1] < m[1] \/ (l[1] = m[1] /\ l[2] < m[2])
       /\ links' = links \cup {[parent |-> l[1], child |-> l[2], by |-> i]}
       /\ Move(i, [run[i] EXCEPT !.todo = rest,
                                 !.pc = IF rest = {} THEN "boms_written" ELSE "insert_links"])
  /\ UNCHANGED <<parts, records, disk, journal>>

JournalFiles(i) ==
  /\ At(i, "boms_written")
  /\ LET r == run[i]
         s == FileTargets(r.plan)
     IN Move(i, [r EXCEPT !.todo = s, !.pc = IF s = {} THEN "files_written" ELSE "move_aside"])
  /\ Note(i, [journal[i] EXCEPT !.stage = "files"])
  /\ UNCHANGED stores

\* _commit_files renames the file that is there out of the way, then the new one
\* into its place.
MoveAside(i) ==
  /\ At(i, "move_aside")
  /\ LET p == Head1(i) IN
     /\ Move(i, [run[i] EXCEPT !.backup[p] = disk[p], !.pc = "place"])
     /\ disk' = [disk EXCEPT ![p] = Absent]
  /\ UNCHANGED <<parts, links, records, journal>>

PlaceFile(i) ==
  /\ At(i, "place")
  /\ LET p == Head1(i) IN
     /\ disk' = [disk EXCEPT ![p] = run[i].ask.pack.bytes]
     /\ Move(i, [After(i, "move_aside", "files_written") EXCEPT !.placed = @ \cup {p}])
  /\ UNCHANGED <<parts, links, records, journal>>

JournalMetadata(i) ==
  /\ At(i, "files_written")
  /\ Goto(i, "stat")
  /\ Note(i, [journal[i] EXCEPT !.stage = "file_metadata"])
  /\ UNCHANGED stores

\* All files are looked at before the first record is written.
StatFiles(i) ==
  /\ At(i, "stat")
  /\ LET r == run[i]
         s == FileTargets(r.plan)
         d == Discovered(r.ask.pack, r.ask.policy, r.read)
     IN IF \E p \in s : disk[p] = Absent THEN Goto(i, "failed")
        ELSE Move(i, [r EXCEPT !.todo = s \cup d,
                !.pc = IF s # {} THEN "record" ELSE IF d # {} THEN "discover" ELSE "thumbnails"])
  /\ UNCHANGED <<stores, journal>>

WriteRecord(i) ==
  /\ At(i, "record")
  /\ records' = [records EXCEPT ![Head1(i)] = run[i].ask.pack.bytes]
  /\ Move(i, After(i, "record", "thumbnails"))
  /\ UNCHANGED <<parts, links, disk, journal>>

\* A file found in storage is recorded without a hash; a record that is there
\* keeps the one it has.
RecordDiscovered(i) ==
  /\ At(i, "discover")
  /\ records' = [records EXCEPT ![Head1(i)] = IF @ = Absent THEN Unhashed ELSE @]
  /\ Move(i, After(i, "discover", "thumbnails"))
  /\ UNCHANGED <<parts, links, disk, journal>>

\* The last thing that may fail are the thumbnails.
Commit(i) ==
  /\ At(i, "thumbnails")
  /\ Note(i, [journal[i] EXCEPT !.status = "committed", !.stage = "done"])
  /\ Move(i, [run[i] EXCEPT !.pc = "done", !.told = "committed"])
  /\ UNCHANGED stores

-----------------------------------------------------------------------------
(* Failure: _commit_files undoes its own renames, the rest is compensated. *)

RaisedUncaught(i) == "done"

\* The file being renamed when the failure strikes is not on the list.
Raised(i) == IF run[i].pc \in {"move_aside", "place"} /\ run[i].placed # {}
             THEN "unplace" ELSE "failed"

UnplaceFile(i) ==
  /\ At(i, "unplace")
  /\ LET r    == run[i]
         p    == Max(r.placed)
         rest == r.placed \ {p}
     IN /\ disk' = [disk EXCEPT ![p] = r.backup[p]]
        /\ Move(i, [r EXCEPT !.placed = rest, !.pc = IF rest = {} THEN "failed" ELSE "unplace"])
  /\ UNCHANGED <<parts, links, records, journal>>

JournalFailed(i) ==
  /\ At(i, "failed")
  /\ Note(i, [journal[i] EXCEPT !.status = "failed"])
  /\ LET r == run[i] IN
     Move(i, [r EXCEPT !.todo = r.created, !.pc = IF r.created = {} THEN "settle" ELSE "undo"])
  /\ UNCHANGED stores

UndoPart(i) ==
  /\ At(i, "undo")
  /\ parts' = [parts EXCEPT ![Head1(i)] = Absent]
  /\ Goto(i, "undo_links")
  /\ UNCHANGED <<links, records, disk, journal>>

UndoLinks(i) ==
  /\ At(i, "undo_links")
  /\ links' = {l \in links : l.parent # Head1(i)}
  /\ Move(i, After(i, "undo", "settle"))
  /\ UNCHANGED <<parts, records, disk, journal>>

JournalRolledBack(i) ==
  /\ At(i, "settle")
  /\ Note(i, [journal[i] EXCEPT !.status = "rolled_back", !.followup = run[i].stuck])
  /\ Goto(i, "report")
  /\ UNCHANGED stores

JournalFollowupCreatedOnly(i) ==
  /\ At(i, "report")
  /\ Note(i, journal[i])
  /\ Goto(i, "answer")
  /\ UNCHANGED stores

\* Existing parts cannot be put back; they replace the list of parts that could
\* not be removed.
JournalFollowup(i) ==
  /\ At(i, "report")
  /\ LET updated == run[i].changed \ run[i].created IN
     Note(i, [journal[i] EXCEPT !.followup = IF updated # {} THEN updated ELSE @])
  /\ Goto(i, "answer")
  /\ UNCHANGED stores

\* The note is made from the uploader's most recent entry, whichever import
\* wrote it.
Summary(e) ==
  CASE e.status = "committed" -> "error"
    [] e.status = "rolled_back" /\ e.followup = {} -> "undone"
    [] e.status # "committed" /\ e.followup # {} -> "partly"
    [] OTHER -> "unclear"

Answer(i) ==
  /\ At(i, "answer")
  /\ LET mine == {j \in Imports : journal[j] # Absent /\ run[j].ask.user = run[i].ask.user}
         last == CHOOSE j \in mine : \A k \in mine : journal[k].nth <= journal[j].nth
     IN Move(i, [run[i] EXCEPT !.pc = "done", !.told = Summary(journal[last])])
  /\ UNCHANGED <<stores, journal>>

Fallible == {"save", "delete_links", "insert_links", "move_aside", "place", "stat",
             "record", "discover", "thumbnails"}

Fault(i) ==
  /\ run[i].pc \in Fallible
  /\ Goto(i, Raised(i))
  /\ UNCHANGED <<stores, journal>>

\* Putting a file back may stop before or after the new file is removed.
UnplaceFails(i) ==
  /\ At(i, "unplace")
  /\ LET r    == run[i]
         p    == Max(r.placed)
         rest == r.placed \ {p}
     IN /\ \E now \in {disk[p], Absent} : disk' = [disk EXCEPT ![p] = now]
        /\ Move(i, [r EXCEPT !.placed = rest, !.pc = IF rest = {} THEN "failed" ELSE "unplace"])
  /\ UNCHANGED <<parts, links, records, journal>>

UndoFails(i) ==
  /\ run[i].pc \in {"undo", "undo_links"}
  /\ Move(i, [After(i, "undo", "settle") EXCEPT !.stuck = @ \cup {Head1(i)}])
  /\ UNCHANGED <<stores, journal>>

\* The staging directory and the originals in it stay behind, unused.  A death
\* before the journal is opened leaves nothing, as if the import never came.
Crash(i) ==
  /\ journal[i] # Absent
  /\ run[i].pc \notin {"done", "crashed"}
  /\ Goto(i, "crashed")
  /\ UNCHANGED <<stores, journal>>

-----------------------------------------------------------------------------
(* History, and the next-state relation.                                   *)

LinksOf(p) == {l \in links : l.parent = p}

Effect(kind, p) ==
  CASE kind = "create"   -> parts[p] = Absent /\ parts'[p] # Absent
    [] kind = "delete"   -> parts[p] # Absent /\ parts'[p] = Absent
    [] kind = "data"     -> Absent \notin {parts[p], parts'[p]} /\ parts[p].data # parts'[p].data
    [] kind = "approval" -> Absent \notin {parts[p], parts'[p]}
                              /\ parts[p].approved # parts'[p].approved
    [] kind = "bom"      -> LinksOf(p) # LinksOf(p)'
    [] kind = "file"     -> disk[p] # disk'[p]
    [] kind = "record"   -> records[p] # records'[p]

Kinds == {"create", "delete", "data", "approval", "bom", "file", "record"}

Observed(i) ==
  LET new == {e \in Kinds \X Pairs : Effect(e[1], e[2])}
      hit == {e[2] : e \in new}
  IN /\ effects' = [effects EXCEPT ![i] = @ \cup new]
     /\ raced' = [j \in Imports |->
                    IF j = i \/ run[j].read = Absent THEN raced[j] ELSE raced[j] \cup hit]

Step(i) ==
  /\ \/ LoadParts(i) \/ LoadBoms(i) \/ LoadFiles(i) \/ JournalStart(i)
     \/ CreatePart(i) \/ UpdatePart(i) \/ JournalBoms(i) \/ DeleteLinks(i) \/ InsertLink(i)
     \/ JournalFiles(i) \/ MoveAside(i) \/ PlaceFile(i) \/ JournalMetadata(i)
     \/ StatFiles(i) \/ WriteRecord(i) \/ RecordDiscovered(i) \/ Commit(i)
     \/ UnplaceFile(i) \/ JournalFailed(i) \/ UndoPart(i) \/ UndoLinks(i)
     \/ JournalRolledBack(i) \/ JournalFollowup(i) \/ Answer(i)
  /\ Observed(i) /\ UNCHANGED mishaps

Mishap(i) ==
  /\ mishaps < MaxMishaps /\ mishaps' = mishaps + 1
  /\ Fault(i) \/ UnplaceFails(i) \/ UndoFails(i) \/ Crash(i)
  /\ Observed(i)

Arrive(i) == Submit(i) /\ UNCHANGED <<mishaps, effects, raced>>

Next == \E i \in Imports : Arrive(i) \/ Step(i) \/ Mishap(i)

\* A worker that does not die carries its request to the end.
Fairness == \A i \in Imports : WF_vars(Step(i))

SafetySpec == Init /\ [][Next]_vars
Spec == SafetySpec /\ Fairness

-----------------------------------------------------------------------------
(* Properties.  raced leaves out the pairs another import wrote meanwhile. *)

Own(i) == run[i].ask.pack.parts \ raced[i]

\* The documents have their types, and the lists an import keeps are about the
\* parts of its plan: created parts were absent when it looked, placed files are
\* files of the plan, and what could not be removed was created.
TypeOK ==
  /\ parts \in [Pairs -> Doc \cup {Absent}]
  /\ links \subseteq Link
  /\ records \in [Pairs -> Hashes]
  /\ disk \in [Pairs -> Bytes \cup {Absent}]
  /\ \A i \in Imports :
       /\ journal[i] = Absent \/ journal[i] \in Entries
       /\ LET r == run[i] IN
          /\ r.backup \in [Pairs -> Bytes \cup {Absent}]
          /\ r.stuck \subseteq r.created
          /\ r.created = {} \/ r.created \subseteq {p \in Pairs : r.read.parts[p] = Absent}
          /\ r.placed = {} \/ r.placed \subseteq FileTargets(r.plan)
  /\ mishaps \in 0..MaxMishaps

\* Whatever an import has done so far, its journal exists and bounds it: no
\* effect belongs to a stage the journal has not reached, and once the parts are
\* saved it names every part, BOM and file touched.  This is what an operator
\* has after a crash.
JournalBounds ==
  \A i \in Imports : \A e \in effects[i] :
    /\ journal[i] # Absent
    /\ LET entry == journal[i] IN
       /\ e[1] = "bom" => entry.stage # "parts" \/ entry.status # "started"
       /\ e[1] = "file" => entry.stage \in {"files", "file_metadata", "done"}
       /\ e[1] = "record" => entry.stage \in {"file_metadata", "done"}
       /\ e[1] # "record" /\ entry.stage # "parts" => e[2] \in entry.touched

\* A part that was approved when the import looked is changed only by a user who
\* may override approval, and only where that kind of data is replaced always; a
\* deliverable that has no record is added wherever drafts are replaced, too.
ApprovedProtected ==
  \A i \in Imports : \A e \in effects[i] :
    LET r == run[i] IN
    e[2] \in Own(i) /\ ApprovalBefore(r.read, e[2]) /\ e[1] # "record" =>
      /\ "imports.override_approved" \in r.ask.perms
      /\ CASE e[1] = "data"     -> r.ask.policy.data = "replace_all"
           [] e[1] = "approval" -> r.ask.policy.approval = "replace_all"
           [] e[1] = "bom"      -> r.ask.policy.bom = "replace_all"
           [] e[1] = "file"     -> \/ r.ask.policy.file = "replace_all"
                                 \/ /\ r.ask.policy.file = "replace_unapproved"
                                    /\ r.read.records[e[2]] = Absent

Needed(kind) == CASE kind \in {"create", "delete"} -> {"parts.create"}
                  [] kind \in {"data", "approval"} -> {"parts.update"}
                  [] kind = "bom" -> {"bom.update"}
                  [] kind = "file" -> {"files.add", "files.replace"}

\* With a part it created a rollback removes the links it finds under the pair.
Compensates(i, p) == /\ p \in run[i].created
                     /\ journal[i] # Absent /\ journal[i].status \in {"failed", "rolled_back"}

\* What an effect takes away from a part as it was read.  A deliverable without a
\* record does not count.
Destroys(kind, read, p) ==
  CASE kind = "data"     -> Before(read, p) # Blank
    [] kind = "approval" -> TRUE
    [] kind = "bom"      -> \E l \in read.links : l.parent = p
    [] kind = "file"     -> read.records[p] # Absent
    [] OTHER             -> FALSE

ExecutionTiers == {"imports.execute_low_risk", "imports.execute_approved", "imports.override_approved"}

\* The tiers that an effect on a part takes.
NeededTiers(kind, read, p) ==
  CASE State(read, p) = "existing_approved" -> {"imports.execute_approved", "imports.override_approved"}
    [] State(read, p) = "existing_unapproved" /\ Destroys(kind, read, p) -> {"imports.execute_approved"}
    [] OTHER -> {}

\* Every effect but the removal of links by a rollback is covered by a permission
\* of the user for that resource, and an existing part outside the user's scope is
\* left alone.  Whatever is done is done by somebody who may execute imports:
\* taking away from a draft what it had, its approval status included, takes the
\* advanced tier, and touching an approved part takes the override as well.
EffectsAuthorised ==
  \A i \in Imports : \A e \in effects[i] :
    e[2] \in Own(i) /\ e[1] # "record" =>
      /\ \/ Needed(e[1]) \cap run[i].ask.perms # {}
         \/ e[1] = "bom" /\ Compensates(i, e[2])
      /\ run[i].read.parts[e[2]] = Absent \/ e[2] \in run[i].ask.scope
      /\ run[i].ask.perms \cap ExecutionTiers # {}
      /\ NeededTiers(e[1], run[i].read, e[2]) \subseteq run[i].ask.perms

\* A failed import whose journal asks for no reconciliation has left parts and
\* BOMs as it found them, but for links it found under the pairs of parts it
\* created.
RollbackRestoresDatabase ==
  \A i \in Imports :
    LET r == run[i] IN
    /\ r.pc = "done" /\ journal[i] # Absent
    /\ journal[i].status = "rolled_back" /\ journal[i].followup = {}
    => \A p \in Own(i) :
         /\ parts[p] = r.read.parts[p]
         /\ Children(r.ask.pack, p) # {} =>
              \/ LinksOf(p) = {l \in r.read.links : l.parent = p}
              \/ LinksOf(p) = {} /\ Compensates(i, p)

\* An import reported as committed has delivered its plan: the fields of the
\* parts it saves, exactly the pack's BOM under the parents it rewrites with
\* every child in existence, and each file both stored and recorded.
CommitDelivers ==
  \A i \in Imports :
    LET r == run[i]
        k == r.ask.pack
    IN r.told = "committed" =>
         \A p \in Own(i) :
           /\ p \in ToSave(k, r.plan, r.read) =>
                /\ parts[p] # Absent
                /\ [data |-> parts[p].data, approved |-> parts[p].approved]
                     = Fields(k, r.plan, r.read, p)
           /\ p \in BomParents(r.plan) =>
                /\ LinksOf(p) = {[parent |-> p, child |-> c, by |-> i] : c \in Children(k, p)}
                /\ \A c \in Children(k, p) \ raced[i] : parts[c] # Absent
           /\ p \in FileTargets(r.plan) => disk[p] = k.bytes /\ records[p] = k.bytes

\* An import that opened its journal brings it to a final status, unless its
\* worker dies.
JournalSettles ==
  \A i \in Imports :
    journal[i] # Absent ~>
      \/ journal[i] # Absent /\ journal[i].status \in {"committed", "rolled_back"}
      \/ run[i].pc = "crashed"

\* _rollback_created_parts: "Only parts CREATED by this run are removed."
OnlyCreatedPartsRemoved ==
  [][\A i \in Imports : \A p \in Pairs :
       <<"delete", p>> \in effects'[i] \ effects[i] => parts[p].id = i]_vars

\* What the upload page sends for "Add without overwriting".
FillOnly(policy) == /\ policy.data = "fill_blanks" /\ policy.approval = "import_unapproved"
                    /\ policy.bom = "fill_if_empty" /\ policy.file = "add_missing"

\* _property_action: "Fill only" promises approved parts are never touched.
FillOnlySparesApproved ==
  [][\A i \in Imports : \A p \in Pairs :
       /\ At(i, "save") /\ run'[i] # run[i] /\ FillOnly(run[i].ask.policy)
       /\ parts[p] # Absent /\ parts[p].approved
       => parts'[p] = parts[p]]_vars

\* The note of the route: "Nothing was kept. The import was undone completely."
UndoneKeepsNothing ==
  \A i \in Imports :
    run[i].told = "undone" =>
      \A p \in Own(i) : /\ parts[p] = run[i].read.parts[p]
                        /\ disk[p] = run[i].read.disk[p]
                        /\ records[p] = run[i].read.records[p]
=============================================================================
