--------------------------- MODULE MCImportPack ---------------------------
(* Small instances of ImportPack: an assembly 1 and its component 2. *)
EXTENDS ImportPack

AllPermissions == {"parts.create", "parts.update", "bom.update", "files.add", "files.replace",
                   "imports.execute_low_risk", "imports.execute_approved",
                   "imports.override_approved"}
LowRisk == AllPermissions \ {"imports.execute_approved", "imports.override_approved"}

Fill == [data |-> "fill_blanks", bom |-> "fill_if_empty", file |-> "add_missing",
         approval |-> "import_unapproved"]
ReplaceAll == [data |-> "replace_all", bom |-> "replace_all", file |-> "replace_all",
              approval |-> "replace_all"]
Mixed == [data |-> "replace_unapproved", bom |-> "replace_unapproved",
          file |-> "replace_unapproved", approval |-> "import_unapproved"]

\* An assembly with a drawing and a component it only lists.
Release == [parts |-> {1, 2}, described |-> {1}, data |-> 2, approval |-> {},
            links |-> {<<1, 2>>}, files |-> {1}, bytes |-> 2]
\* A BOM-only pack that describes both parts and approves them.
Approval == [parts |-> {1, 2}, described |-> {1, 2}, data |-> 1, approval |-> {TRUE},
             links |-> {<<1, 2>>}, files |-> {}, bytes |-> 2]
\* The component alone, with its files and without properties.
Files == [parts |-> {1, 2}, described |-> {1}, data |-> Blank, approval |-> {},
          links |-> {}, files |-> {1, 2}, bytes |-> 2]

By(user, perms, scope, pack, policy) ==
  [user |-> user, perms |-> perms, scope |-> scope, pack |-> pack, policy |-> policy]

MCRequests == {By("ann", AllPermissions, {1, 2}, Release, ReplaceAll),
               By("ann", LowRisk, {1, 2}, Release, Fill),
               By("bob", AllPermissions, {1}, Approval, Mixed),
               By("bob", AllPermissions \ {"parts.create"}, {1, 2}, Files, ReplaceAll)}

At1(doc1, doc2, bom, recs, files) ==
  [parts |-> <<doc1, doc2>>, links |-> bom, records |-> recs, disk |-> files]
Document(data, approved) == [id |-> 0, data |-> data, approved |-> approved]

Empty  == At1(Absent, Absent, {}, <<Absent, Absent>>, <<1, Absent>>)
Draft  == At1(Document(Blank, FALSE), Absent, {}, <<Absent, Absent>>, <<Absent, Absent>>)
Issued == At1(Document(1, TRUE), Document(1, FALSE), {[parent |-> 1, child |-> 2, by |-> 0]},
              <<1, 1>>, <<1, 1>>)
\* Links that were left when their parent was deleted.
Orphaned == At1(Absent, Absent, {[parent |-> 1, child |-> 2, by |-> 0]}, <<Absent, Absent>>, <<Absent, Absent>>)
MCStores == {Empty, Draft, Issued, Orphaned}

\* One import alone meets every combination of policies, and users who lack one
\* permission each.
Perms == {AllPermissions, LowRisk} \cup {AllPermissions \ {x} : x \in
            {"parts.create", "bom.update", "imports.override_approved"}}
EveryPolicy == [data : DataModes, bom : {"skip", "fill_if_empty", "replace_all"},
                file : {"skip", "add_missing", "replace_unapproved", "replace_all"},
                approval : {"preserve", "replace_all"}]
AloneRequests ==
  {By("ann", p, s, k, policy) : p \in Perms, s \in {{1}}, k \in {Release, Approval},
                                policy \in EveryPolicy}
Shell  == At1(Document(Blank, TRUE), Absent, {}, <<Absent, Absent>>, <<Absent, Absent>>)
AloneStores == {Issued, Draft, Shell, Orphaned}

\* Requests and stores of the runs that show one disagreement each.
FillAndApprove == {By("ann", LowRisk, {1, 2}, Release, Fill),
                   By("bob", AllPermissions, {1, 2}, Approval, Mixed)}
ReleaseTwice == {By("ann", AllPermissions, {1, 2}, Release, ReplaceAll)}
DraftStore == {Draft}
EmptyStore == {Empty}
=============================================================================
