------------------------------- MODULE UploadPage ------------------------------
(***************************************************************************)
(* The import page: frontend/src/pages/UploadPackPage.tsx with             *)
(* lib/importPlan.ts.  A pack and a policy are chosen, previewed and       *)
(* applied; while a request is out, only the two buttons are disabled.     *)
(*                                                                         *)
(* The plan on screen is a record of what it was computed from: the pack,  *)
(* the modes, the picks among duplicate rows, and how many imports of this *)
(* page the server had executed.  `doubt' is history: two requests were    *)
(* out at once, or the answer of an import was lost.                       *)
(***************************************************************************)
EXTENDS Browser

CONSTANT Packs

Categories == {"data", "bom", "file"}
Tiers      == {"add", "overwrite"}
Choosable  == {"skip", "add", "overwrite"}    \* CategoryMode
Rights     == {"preview", "low_risk", "approved", "override"}

UploadStart(rights) ==
  [at |-> "upload", file |-> Absent, tier |-> "add", category |-> [k \in Categories |-> Absent],
   includeApproved |-> FALSE, picks |-> 0, rights |-> rights, busy |-> FALSE,
   confirming |-> FALSE, plan |-> Absent, dry |-> FALSE, previewed |-> Absent,
   doubt |-> FALSE]

CanPreview(p)  == "preview" \in p.rights
CanAdvanced(p) == "approved" \in p.rights
CanOverride(p) == CanAdvanced(p) /\ "override" \in p.rights

\* What is sent for each category: "all" is the mode that reaches approved parts.
ResolveModes(p) ==
  [k \in Categories |->
     LET pick == IF p.category[k] = Absent THEN p.tier ELSE p.category[k]
     IN IF pick = "overwrite" /\ p.includeApproved /\ CanOverride(p) THEN "all" ELSE pick]

\* The approval mode follows from the mode of the data.
ApprovalMode(modes) ==
  CASE modes["data"] = "skip" -> "preserve"
    [] modes["data"] = "all"  -> "replace_all"
    [] OTHER                  -> "import_unapproved"

\* The policy signature, with the pack.
Policy(p)   == [modes |-> ResolveModes(p), approval |-> ApprovalMode(ResolveModes(p)), picks |-> p.picks]
Selected(p) == [file |-> p.file, policy |-> Policy(p)]

PreviewCurrent(p) == p.plan # Absent /\ p.dry /\ p.previewed = Selected(p)

Customised(p) == \E k \in Categories : p.category[k] \notin {Absent, p.tier}
Overwriting(p) == p.tier = "overwrite" \/ Customised(p)

\* What the plan would replace, remove or clear asks for a confirmation.
Destructive(p) == p.plan.destructive

\* No reason to refuse "Apply" is shown.
ApplyAllowed(p) ==
  /\ p.file # Absent
  /\ {"low_risk", "approved"} \cap p.rights # {}
  /\ Overwriting(p) => CanAdvanced(p)
  /\ PreviewCurrent(p)

-------------------------------------------------------------------------------
(* The user.  Everything but the two buttons works while a request is out. *)

Edit(p) == Act /\ On("upload") /\ Show(p) /\ UNCHANGED <<calls, server>>

ChooseFile(f) == Edit([page EXCEPT !.file = f, !.plan = Absent])

ApplyTier(t) ==
  /\ t = "overwrite" => CanAdvanced(page)
  /\ Edit([page EXCEPT !.tier = t, !.category = [k \in Categories |-> Absent],
             !.includeApproved = IF t = "add" THEN FALSE ELSE @])

PolicySelect(k, choice) ==
  /\ choice = "overwrite" => CanAdvanced(page)
  /\ Edit([page EXCEPT !.category[k] = choice])

TickApproved ==
  /\ CanOverride(page) /\ page.tier # "add"
  /\ Edit([page EXCEPT !.includeApproved = ~@])

\* Picks are offered with a plan and kept when another pack is chosen.
PickDuplicate == page.plan # Absent /\ Edit([page EXCEPT !.picks = 1 - @])

\* An import with the state of the page.
Submit(p, op) ==
  /\ Show([p EXCEPT !.busy = TRUE, !.doubt = @ \/ calls # <<>>])
  /\ Send(<<Call(op, Selected(p))>>)
  /\ UNCHANGED server

ClickPreview ==
  /\ Act /\ On("upload")
  /\ ~page.busy /\ page.file # Absent /\ CanPreview(page)
  /\ Submit(page, "preview")

ClickApply ==
  /\ Act /\ On("upload")
  /\ ~page.busy /\ ApplyAllowed(page)
  /\ IF Destructive(page)
     THEN Show([page EXCEPT !.confirming = TRUE]) /\ UNCHANGED <<calls, server>>
     ELSE Submit(page, "apply")

\* The dialog asks neither whether the page is busy nor for a current preview.
ConfirmApply ==
  /\ Act /\ On("upload") /\ page.confirming
  /\ LET p == [page EXCEPT !.confirming = FALSE] IN
     IF p.file = Absent THEN Show(p) /\ UNCHANGED <<calls, server>> ELSE Submit(p, "apply")

CancelApply == page.confirming /\ Edit([page EXCEPT !.confirming = FALSE])

-------------------------------------------------------------------------------
(* The server, and its answers.                                            *)

\* A plan is computed from what is stored now.
PlanImport == \E i \in DOMAIN calls, destructive \in BOOLEAN :
  /\ IsAsked(i, "preview")
  /\ Reply(i, [selected |-> calls[i].args, destructive |-> destructive,
               imports |-> server.imports, rights |-> server.rights])
  /\ UNCHANGED <<page, server, left>>

ExecuteImport == \E i \in DOMAIN calls :
  /\ IsAsked(i, "apply")
  /\ Reply(i, [selected |-> calls[i].args, destructive |-> FALSE,
               imports |-> server.imports, rights |-> server.rights])
  /\ server' = [server EXCEPT !.imports = @ + 1]
  /\ UNCHANGED <<page, left>>

\* The administrator changes what the user may do.
ChangeRights == \E rights \in {{"preview", "low_risk"}, Rights} :
  /\ Act /\ On("upload") /\ rights # server.rights
  /\ server' = [server EXCEPT !.rights = rights]
  /\ UNCHANGED <<page, calls>>

\* Mutant: the policy of the moment counts as previewed.
PreviewedNow(i) == Selected(page)

\* What was submitted with the request.
PreviewedBy(i) == calls[i].args

\* Mutant: the plan of an import is shown as the plan of a preview.
AnyPlan(i) == TRUE

ShownAsPlan(i) == calls[i].op = "preview"

UploadAnswer == \E i \in DOMAIN calls :
  /\ \E op \in {"preview", "apply"} : IsAnswered(i, op)
  /\ IF Failed(i) THEN Show([page EXCEPT !.busy = FALSE, !.doubt = @ \/ calls[i].op = "apply"])
     ELSE Show([page EXCEPT
            !.busy = FALSE, !.plan = calls[i].reply, !.rights = calls[i].reply.rights,
            !.dry = ShownAsPlan(i), !.previewed = IF ShownAsPlan(i) THEN PreviewedBy(i) ELSE Absent])
  /\ Take(i)
  /\ UNCHANGED <<server, left>>

UploadNext ==
  /\ On("upload")
  /\ \/ \E f \in Packs \cup {Absent} : ChooseFile(f)
     \/ \E t \in Tiers : ApplyTier(t)
     \/ \E k \in Categories, choice \in Choosable : PolicySelect(k, choice)
     \/ TickApproved \/ PickDuplicate
     \/ ClickPreview \/ ClickApply \/ ConfirmApply \/ CancelApply
     \/ PlanImport \/ ExecuteImport \/ ChangeRights \/ UploadAnswer

-------------------------------------------------------------------------------
(* What the page promises.                                                 *)

\* A plan that is offered for applying was computed by the server from the
\* pack and the policy that are selected, whatever was changed while it was
\* on its way (UploadPackPage.tsx:634-641).
PlanIsOfTheSelection ==
  On("upload") /\ PreviewCurrent(page) => page.plan.selected = Selected(page)

\* The plan offered for applying is not one that this page has applied since
\* (UploadPackPage.tsx:734-741), unless a confirmed import overlapped with its
\* preview or the page never learnt that the import was done.
AppliedPlanIsSpent ==
  On("upload") /\ PreviewCurrent(page) /\ calls = <<>> /\ ~page.doubt =>
    page.plan.imports = server.imports

\* An import is only sent for the pack and the policy whose plan is on screen
\* (UploadPackPage.tsx:634-641, 965).  The confirmation does not ask.
OnlyPreviewedIsApplied ==
  [][On("upload") /\ Waiting("apply")' /\ ~Waiting("apply") => PreviewCurrent(page)]_vars
===============================================================================
