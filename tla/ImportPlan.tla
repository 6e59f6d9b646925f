------------------------------ MODULE ImportPlan ------------------------------
(***************************************************************************)
(* What an upload pack may do to the parts it names: the redline of        *)
(* app/services/upload_pack.py (build_import_plan) and the permissions it  *)
(* asks for.  Everything here is computed from what the import read before *)
(* it writes anything.                                                     *)
(*                                                                         *)
(* A part has one property, an approval, one BOM without quantities and    *)
(* one deliverable.  A property is 0 when it is blank or the pack does not *)
(* carry it; the record of a deliverable is known by the hash of its bytes *)
(* and is 0 when the bytes were never hashed (found in storage).           *)
(***************************************************************************)
EXTENDS Integers, FiniteSets

CONSTANTS
  Pairs,    \* part number and revision; numbered in their sort order
  Values,   \* values of the property
  Bytes,    \* contents of deliverables
  Absent    \* no such document or file

Blank    == 0
Unhashed == 0

ASSUME PlanAssumption == /\ Pairs \subseteq Nat
                         /\ Values \subseteq Nat \ {Blank}
                         /\ Bytes \subseteq Nat \ {Unhashed}
                         /\ Absent \notin Nat

\* parts are all pairs of the pack, described those with a FLATBOM row of their
\* own; a part only listed as somebody's parent or child is a shell.  approval
\* is the signal the described parts carry, if any.
Pack == {k \in [parts : SUBSET Pairs, described : SUBSET Pairs,
                data : Values \cup {Blank}, approval : {{}, {TRUE}, {FALSE}},
                links : SUBSET (Pairs \X Pairs), files : SUBSET Pairs, bytes : Bytes] :
           k.links \subseteq k.parts \X k.parts}

DataModes == {"skip", "fill_blanks", "replace_unapproved", "replace_all"}
BomModes  == {"skip", "fill_if_empty", "replace_unapproved", "replace_all"}
FileModes == {"skip", "add_missing", "replace_unapproved", "replace_all"}
ApprovalModes == {"preserve", "import_unapproved", "replace_all"}
Policy == [data : DataModes, bom : BomModes, file : FileModes, approval : ApprovalModes]

\* What an import read: parts as documents or Absent, links as documents with a
\* parent and a child, and the recorded and the stored deliverables.
State(read, p) ==
  IF read.parts[p] = Absent THEN "new"
  ELSE IF read.parts[p].approved THEN "existing_approved" ELSE "existing_unapproved"

Before(read, p) == IF read.parts[p] = Absent THEN Blank ELSE read.parts[p].data
Incoming(pack, p) == IF p \in pack.described THEN pack.data ELSE Blank

\* A property the pack does not carry is surplus under the replace modes, and
\* only on parts the pack describes.
SurplusAction(mode, state) ==
  IF state = "existing_approved" /\ mode # "replace_all" THEN "blocked" ELSE "clear"

FillActionUnblocked(state, before) == IF before = Blank THEN "add" ELSE "skipped"

FillAction(state, before) ==
  IF state = "existing_approved" THEN "blocked"
  ELSE IF before = Blank THEN "add" ELSE "skipped"

PropertyAction(pack, mode, read, p) ==
  LET state  == State(read, p)
      before == Before(read, p)
      after  == Incoming(pack, p)
  IN IF after = before THEN "unchanged"
     ELSE IF after = Blank
          THEN IF p \in pack.described /\ mode \in {"replace_unapproved", "replace_all"}
               THEN SurplusAction(mode, state) ELSE "unchanged"
     ELSE IF mode = "skip" THEN "skipped"
     ELSE IF state = "new" THEN "add"
     ELSE IF mode = "fill_blanks" THEN FillAction(state, before)
     ELSE IF mode = "replace_unapproved" /\ state = "existing_approved" THEN "blocked"
     ELSE "replace"

\* The approval fields are governed by a policy of their own, except that
\* skipping properties skips them too.  The row modelled is the Boolean one.
ApprovalBefore(read, p) == read.parts[p] # Absent /\ read.parts[p].approved

\* A Boolean is a value whichever it is; only texts and lists can be blank.  So
\* approving an existing draft changes its approval and does not add one.
HasValueByTruth(flag) == flag
HasValue(flag) == flag \in BOOLEAN

ApprovalAction(pack, policy, read, p) ==
  LET state  == State(read, p)
      before == ApprovalBefore(read, p)
  IN IF p \notin pack.described \/ pack.approval \subseteq {before} THEN "unchanged"
     ELSE IF policy.data = "skip" THEN "skipped"
     ELSE IF state = "new" THEN "add"
     ELSE IF policy.approval = "preserve" THEN "skipped"
     ELSE IF policy.approval = "import_unapproved" /\ state = "existing_approved" THEN "blocked"
     ELSE IF ~HasValue(TRUE \in pack.approval) THEN "clear"
     ELSE IF ~HasValue(before) THEN "add" ELSE "change"

Children(pack, p) == {l[2] : l \in {x \in pack.links : x[1] = p}}

BomAction(pack, mode, read, p) ==
  LET state == State(read, p)
      old   == {l.child : l \in {x \in read.links : x.parent = p}}
  IN IF Children(pack, p) \in {{}, old} THEN "unchanged"
     ELSE IF mode = "skip" THEN "skipped"
     ELSE IF mode \in {"fill_if_empty", "replace_unapproved"} /\ state = "existing_approved" THEN "blocked"
     ELSE IF mode = "fill_if_empty" /\ old # {} THEN "skipped"
     ELSE IF old = {} THEN "add" ELSE "replace"

\* Whether a file exists is what its record says, not what the disk holds.
FileAction(pack, mode, read, p) ==
  LET state  == State(read, p)
      record == read.records[p]
  IN IF p \notin pack.files \/ record = pack.bytes THEN "unchanged"
     ELSE IF mode = "skip" THEN "skipped"
     ELSE IF mode = "add_missing" /\ state = "existing_approved" THEN "blocked"
     ELSE IF record = Absent THEN "add"
     ELSE IF mode = "add_missing" THEN "skipped"
     ELSE IF mode = "replace_unapproved" /\ state = "existing_approved" THEN "blocked"
     ELSE "replace"

\* The plan, one entry for each part of the pack.
Entry(pack, policy, read, p) ==
  [state    |-> State(read, p),
   property |-> PropertyAction(pack, policy.data, read, p),
   approval |-> ApprovalAction(pack, policy, read, p),
   bom      |-> BomAction(pack, policy.bom, read, p),
   file     |-> FileAction(pack, policy.file, read, p)]

Plan(pack, policy, read) == [p \in pack.parts |-> Entry(pack, policy, read, p)]

Writes == {"add", "replace"}
FieldsChanged(e) == {e.property, e.approval} \cap {"add", "replace", "change", "clear"} # {}
Changed(e) == FieldsChanged(e) \/ e.bom \in Writes \/ e.file \in Writes

BomParents(plan)  == {p \in DOMAIN plan : plan[p].bom \in Writes}
FileTargets(plan) == {p \in DOMAIN plan : plan[p].file \in Writes}

StructuralOwnersOnly(pack, plan, read) ==
  {p \in BomParents(plan) \cup FileTargets(plan) : read.parts[p] = Absent}

\* Owners of written BOMs and files, and children of written BOMs, that do not
\* exist yet are created as bare shells.
Structural(pack, plan, read) ==
  LET wanted == BomParents(plan) \cup FileTargets(plan)
                  \cup UNION {Children(pack, p) : p \in BomParents(plan)}
  IN {p \in wanted : read.parts[p] = Absent}

ToSave(pack, plan, read) ==
  {p \in DOMAIN plan : Changed(plan[p]) \/ p \in Structural(pack, plan, read)}

\* A pack without files records the ones that already lie in storage.
Discovered(pack, policy, read) ==
  {p \in pack.parts : pack.files = {} /\ policy.file # "skip" /\ read.disk[p] # Absent}

\* The fields _apply_properties and _apply_approval leave on a part: what the
\* plan changes, and otherwise what was read.
Fields(pack, plan, read, p) ==
  LET e == plan[p] IN
  [data     |-> CASE e.property \in Writes -> pack.data
                  [] e.property = "clear" -> Blank
                  [] OTHER -> Before(read, p),
   approved |-> IF e.approval \in {"add", "change", "clear"} THEN TRUE \in pack.approval
                ELSE ApprovalBefore(read, p)]

-----------------------------------------------------------------------------
(* required_import_permissions: the single authority of the route.         *)

Acts(plan) == {p \in DOMAIN plan : Changed(plan[p])}

MissingChildren(pack, read, p) == {c \in Children(pack, p) : read.parts[c] = Absent}

CreatesOwnerOnly(pack, e, read, p) == e.state = "new"

\* Writing a BOM creates the children that do not exist yet.
Creates(pack, e, read, p) ==
  e.state = "new" \/ (e.bom \in Writes /\ MissingChildren(pack, read, p) # {})

Resources(pack, plan, read) ==
  UNION {LET e == plan[p] IN
         {perm \in {"parts.create", "parts.update", "bom.update", "files.add", "files.replace"} :
            CASE perm = "parts.create"  -> Creates(pack, e, read, p)
              [] perm = "parts.update"  -> e.state # "new" /\ FieldsChanged(e)
              [] perm = "bom.update"    -> e.bom \in Writes
              [] perm = "files.add"     -> e.file = "add"
              [] perm = "files.replace" -> e.file = "replace"} : p \in Acts(plan)}

\* A change of an existing part that destroys what was there.
Destructive(e) == {e.property, e.approval, e.bom, e.file} \cap {"replace", "change", "clear"} # {}

Tiers(plan) ==
  LET override == \E p \in Acts(plan) : plan[p].state = "existing_approved"
      advanced == \/ override
                  \/ \E p \in Acts(plan) : /\ plan[p].state = "existing_unapproved"
                                           /\ Destructive(plan[p])
      low      == \/ ~advanced
                  \/ \E p \in Acts(plan) : \/ plan[p].state = "new"
                                           \/ /\ plan[p].state = "existing_unapproved"
                                              /\ ~Destructive(plan[p])
  IN (IF low THEN {"imports.execute_low_risk"} ELSE {})
       \cup (IF advanced THEN {"imports.execute_approved"} ELSE {})
       \cup (IF override THEN {"imports.override_approved"} ELSE {})

Required(pack, plan, read) == Resources(pack, plan, read) \cup Tiers(plan)
=============================================================================
