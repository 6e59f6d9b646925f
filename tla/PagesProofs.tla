------------------------------ MODULE PagesProofs -----------------------------
(***************************************************************************)
(* Proofs about the pages that show what a load brought or send what was   *)
(* chosen there, each alone with its server: the import of packs, the list *)
(* of parts, the BOM, the document packs, the field configuration, the     *)
(* columns and the text field with mentions.                               *)
(***************************************************************************)
EXTENDS FrontEnd, BrowserProofs

-------------------------------------------------------------------------------
(* The import of packs, opened by a user with some rights.                 *)

UploadInit == \E rights \in SUBSET Rights :
  /\ page = UploadStart(rights)
  /\ calls = <<>>
  /\ server = [imports |-> 0, rights |-> rights]
  /\ left \in Nat

UploadSpec == UploadInit /\ [][UploadNext \/ Lose]_vars

-------------------------------------------------------------------------------
(* The inductive invariant.                                                *)

UploadFields == {"at", "file", "tier", "category", "includeApproved", "picks", "rights", "busy",
                 "confirming", "plan", "dry", "previewed", "doubt"}

\* As much of the types as the argument needs.
UploadShape ==
  /\ DOMAIN page = UploadFields /\ page.at = "upload" /\ page.dry \in BOOLEAN /\ page.doubt \in BOOLEAN
  /\ \E S : calls \in Seq(S)
  /\ \A i \in 1 .. Len(calls) : DOMAIN calls[i] = CallFields /\ calls[i].op \in {"preview", "apply"}
  /\ DOMAIN server = {"imports", "rights"}

PlanArrived(i) == calls[i].reply \notin {Absent, Failure}

\* A plan, on screen or on its way, says what it was computed from.
PlansAreTrue ==
  /\ page.plan # Absent /\ page.dry => page.plan.selected = page.previewed
  /\ \A i \in 1 .. Len(calls) : calls[i].op = "preview" /\ PlanArrived(i) => calls[i].reply.selected = calls[i].args

\* Without a doubt one request is out at most, and until it is an import a
\* plan is of what is stored.
PlansAreNew ==
  ~page.doubt =>
    /\ Len(calls) <= 1
    /\ (\A i \in 1 .. Len(calls) : calls[i].op = "preview") =>
         /\ page.plan # Absent /\ page.dry => page.plan.imports = server.imports
         /\ \A i \in 1 .. Len(calls) : PlanArrived(i) => calls[i].reply.imports = server.imports

\* The page is busy only with a request out.
BusyIsOut == page.busy => Len(calls) > 0

UploadInv == UploadShape /\ PlansAreTrue /\ PlansAreNew /\ BusyIsOut

LEMMA UploadInitInv == UploadInit => UploadInv
  <1> SUFFICES ASSUME NEW rights \in SUBSET Rights, page = UploadStart(rights), calls = <<>>,
                      server = [imports |-> 0, rights |-> rights]
               PROVE  UploadInv
    BY DEF UploadInit
  <1>1. /\ DOMAIN page = UploadFields /\ page.at = "upload"
        /\ page.dry = FALSE /\ page.doubt = FALSE /\ page.busy = FALSE
    BY DEF UploadStart, UploadFields
  <1>2. Len(calls) = 0 /\ calls \in Seq({})
    OBVIOUS
  <1>3. DOMAIN server = {"imports", "rights"}
    OBVIOUS
  <1>4. UploadShape
    <2>1. \A i \in 1 .. Len(calls) : FALSE
      BY <1>2
    <2> QED BY <1>1, <1>2, <1>3, <2>1 DEF UploadShape
  <1>5. PlansAreTrue
    BY <1>1, <1>2 DEF PlansAreTrue
  <1>6. PlansAreNew
    BY <1>1, <1>2 DEF PlansAreNew
  <1> QED BY <1>1, <1>4, <1>5, <1>6 DEF UploadInv, BusyIsOut

-------------------------------------------------------------------------------
(* What the user does but sending a request changes no plan, except that   *)
(* another pack takes it away.                                             *)

PlanKept ==
  /\ UNCHANGED <<calls, server>> /\ DOMAIN page' = UploadFields
  /\ page'.plan \in {page.plan, Absent} /\ page'.dry = page.dry
  /\ page'.previewed = page.previewed /\ page'.doubt = page.doubt
  /\ page'.at = page.at /\ page'.busy = page.busy

LEMMA PlanKeptStep ==
  ASSUME UploadInv, PlanKept
  PROVE  UploadInv'
  <1>1. UploadShape'
    BY DEF UploadInv, UploadShape, PlanKept
  <1>2. PlansAreTrue'
    BY DEF UploadInv, PlansAreTrue, PlanArrived, PlanKept
  <1>3. PlansAreNew'
    BY DEF UploadInv, PlansAreNew, PlanArrived, PlanKept
  <1>4. BusyIsOut'
    BY DEF UploadInv, BusyIsOut, PlanKept
  <1> QED BY <1>1, <1>2, <1>3, <1>4 DEF UploadInv

LEMMA UploadUserStep ==
  ASSUME UploadInv,
         \/ \E f \in Packs \cup {Absent} : ChooseFile(f)
         \/ \E t \in Tiers : ApplyTier(t)
         \/ \E k \in Categories, choice \in Choosable : PolicySelect(k, choice)
         \/ TickApproved \/ PickDuplicate \/ CancelApply
  PROVE  UploadInv'
  <1>1. DOMAIN page = UploadFields
    BY DEF UploadInv, UploadShape
  <1>2. ASSUME NEW f, ChooseFile(f) PROVE PlanKept
    BY <1>1, <1>2 DEF ChooseFile, Edit, Show, UploadFields, PlanKept
  <1>3. ASSUME NEW t, ApplyTier(t) PROVE PlanKept
    BY <1>1, <1>3 DEF ApplyTier, Edit, Show, UploadFields, PlanKept
  <1>4. ASSUME NEW k, NEW choice, PolicySelect(k, choice) PROVE PlanKept
    BY <1>1, <1>4 DEF PolicySelect, Edit, Show, UploadFields, PlanKept
  <1>5. ASSUME TickApproved PROVE PlanKept
    BY <1>1, <1>5 DEF TickApproved, Edit, Show, UploadFields, PlanKept
  <1>6. ASSUME PickDuplicate PROVE PlanKept
    BY <1>1, <1>6 DEF PickDuplicate, Edit, Show, UploadFields, PlanKept
  <1>7. ASSUME CancelApply PROVE PlanKept
    BY <1>1, <1>7 DEF CancelApply, Edit, Show, UploadFields, PlanKept
  <1> QED BY <1>2, <1>3, <1>4, <1>5, <1>6, <1>7, PlanKeptStep

\* A request: with another one on its way the page is in doubt.
LEMMA UploadSubmitStep ==
  ASSUME UploadInv, NEW STATE p, NEW op \in {"preview", "apply"}, DOMAIN p = UploadFields, p.at = page.at,
         p.plan = page.plan, p.dry = page.dry, p.previewed = page.previewed, p.doubt = page.doubt,
         Submit(p, op)
  PROVE  UploadInv'
  <1> DEFINE c == Call(op, Selected(p))
  <1>1. /\ page' = [p EXCEPT !.busy = TRUE, !.doubt = @ \/ calls # <<>>]
        /\ calls' = calls \o <<c>> /\ UNCHANGED server
    BY DEF Submit, Show, Send
  <1>2. DOMAIN c = CallFields /\ c.op = op /\ c.reply = Absent
    BY DEF Call, CallFields
  <1> HIDE DEF c
  <1>3. PICK S : calls \in Seq(S)
    BY DEF UploadInv, UploadShape
  <1>4. /\ \E T : calls' \in Seq(T)
        /\ Len(calls) \in Nat /\ Len(calls') = Len(calls) + 1
        /\ \A i \in 1 .. Len(calls) : calls'[i] = calls[i]
        /\ calls'[Len(calls) + 1] = c
    BY <1>1, <1>3, RequestSent
  <1>5. /\ DOMAIN page' = UploadFields /\ page'.at = page.at /\ page'.plan = page.plan /\ page'.dry = page.dry
        /\ page'.previewed = page.previewed /\ page'.doubt = (page.doubt \/ calls # <<>>)
    BY <1>1 DEF UploadFields
  <1>0. page'.doubt \in BOOLEAN /\ (~page'.doubt => ~page.doubt /\ Len(calls) = 0)
    <2>1. page.doubt \in BOOLEAN
      BY DEF UploadInv, UploadShape
    <2>2. calls = <<>> => Len(calls) = 0
      OBVIOUS
    <2> QED BY <1>5, <2>1, <2>2
  <1>6. UploadShape'
    <2>1. page'.at = "upload" /\ page'.dry \in BOOLEAN /\ DOMAIN server' = {"imports", "rights"}
      BY <1>1, <1>5 DEF UploadInv, UploadShape
    <2>2. \A i \in 1 .. Len(calls) + 1 :
            DOMAIN calls'[i] = CallFields /\ calls'[i].op \in {"preview", "apply"}
      BY <1>2, <1>3, <1>4 DEF UploadInv, UploadShape
    <2> QED BY <1>0, <1>3, <1>4, <1>5, <2>1, <2>2 DEF UploadShape
  <1>7. PlansAreTrue'
    BY <1>2, <1>3, <1>4, <1>5 DEF UploadInv, PlansAreTrue, PlanArrived
  <1>8. PlansAreNew'
    <2> SUFFICES ASSUME ~page'.doubt PROVE PlansAreNew'
      BY DEF PlansAreNew
    <2>1. ~page.doubt /\ Len(calls) = 0 /\ Len(calls') = 1 /\ calls'[1] = c
      BY <1>0, <1>4
    <2>2. page.plan # Absent /\ page.dry => page.plan.imports = server.imports
      BY <2>1 DEF UploadInv, PlansAreNew
    <2>3. \A i \in 1 .. Len(calls') : calls'[i].reply = Absent
      BY <1>2, <2>1
    <2>4. page'.plan # Absent /\ page'.dry => page'.plan.imports = server'.imports
      BY <1>1, <1>5, <2>2
    <2> QED BY <2>1, <2>3, <2>4 DEF PlansAreNew, PlanArrived
  <1>9. BusyIsOut'
    BY <1>4 DEF BusyIsOut
  <1> QED BY <1>6, <1>7, <1>8, <1>9 DEF UploadInv

LEMMA UploadButtonStep ==
  ASSUME UploadInv, ClickPreview \/ ClickApply \/ ConfirmApply
  PROVE  UploadInv'
  <1>1. DOMAIN page = UploadFields
    BY DEF UploadInv, UploadShape
  <1>2. CASE ClickPreview
    BY <1>1, <1>2, UploadSubmitStep DEF ClickPreview
  <1>3. CASE ClickApply
    <2>1. CASE Submit(page, "apply")
      BY <1>1, <2>1, UploadSubmitStep
    <2>2. CASE Show([page EXCEPT !.confirming = TRUE]) /\ UNCHANGED <<calls, server>>
      <3>1. PlanKept
        BY <1>1, <2>2 DEF Show, UploadFields, PlanKept
      <3> QED BY <3>1, PlanKeptStep
    <2> QED BY <1>3, <2>1, <2>2 DEF ClickApply
  <1>4. CASE ConfirmApply
    <2> DEFINE p == [page EXCEPT !.confirming = FALSE]
    <2>1. /\ DOMAIN p = UploadFields /\ p.at = page.at /\ p.busy = page.busy
          /\ p.plan = page.plan /\ p.dry = page.dry /\ p.previewed = page.previewed /\ p.doubt = page.doubt
      BY <1>1 DEF UploadFields
    <2>2. (Show(p) /\ UNCHANGED <<calls, server>>) \/ Submit(p, "apply")
      BY <1>4 DEF ConfirmApply
    <2> HIDE DEF p
    <2>3. CASE Show(p) /\ UNCHANGED <<calls, server>>
      BY <2>1, <2>3, PlanKeptStep DEF Show, PlanKept
    <2>4. CASE Submit(p, "apply")
      BY <2>1, <2>4, UploadSubmitStep
    <2> QED BY <2>2, <2>3, <2>4
  <1> QED BY <1>2, <1>3, <1>4
-------------------------------------------------------------------------------
(* The server, and its answers.                                            *)

LEMMA PlanReplyStep ==
  ASSUME UploadInv, NEW i \in DOMAIN calls, NEW STATE r, Reply(i, r), UNCHANGED <<page, server>>,
         r = Failure \/ (r.selected = calls[i].args /\ r.imports = server.imports)
  PROVE  UploadInv'
  <1>1. calls' = [calls EXCEPT ![i].reply = r, ![i].work = Absent] /\ UNCHANGED <<page, server>>
    BY DEF Reply
  <1>2. PICK S : calls \in Seq(S)
    BY DEF UploadInv, UploadShape
  <1>b. DOMAIN calls[i] = CallFields
    BY <1>2, LenProperties DEF UploadInv, UploadShape
  <1> DEFINE c == [calls[i] EXCEPT !.reply = r, !.work = Absent]
  <1>3. DOMAIN c = CallFields /\ c.op = calls[i].op /\ c.args = calls[i].args /\ c.reply = r
    BY <1>b DEF CallFields
  <1>4. calls' = [calls EXCEPT ![i] = c]
    BY <1>1, <1>2
  <1> HIDE DEF c
  <1>5. /\ \E T : calls' \in Seq(T)
        /\ Len(calls) \in Nat /\ i \in 1 .. Len(calls) /\ Len(calls') = Len(calls)
        /\ \A j \in 1 .. Len(calls) : calls'[j] = IF j = i THEN c ELSE calls[j]
    BY <1>2, <1>4, CallReplaced
  <1>6. UploadShape'
    BY <1>1, <1>2, <1>3, <1>5 DEF UploadInv, UploadShape
  <1>7. PlansAreTrue'
    BY <1>1, <1>2, <1>3, <1>5 DEF UploadInv, PlansAreTrue, PlanArrived
  <1>8. PlansAreNew'
    BY <1>1, <1>2, <1>3, <1>5 DEF UploadInv, PlansAreNew, PlanArrived
  <1>9. BusyIsOut'
    BY <1>1, <1>5 DEF UploadInv, BusyIsOut
  <1> QED BY <1>6, <1>7, <1>8, <1>9 DEF UploadInv

LEMMA PlanImportStep ==
  ASSUME UploadInv, PlanImport
  PROVE  UploadInv'
  <1>1. PICK i \in DOMAIN calls, destructive \in BOOLEAN :
          /\ Reply(i, [selected |-> calls[i].args, destructive |-> destructive,
                       imports |-> server.imports, rights |-> server.rights])
          /\ UNCHANGED <<page, server>>
    BY DEF PlanImport
  <1> QED BY <1>1, PlanReplyStep

LEMMA UploadLoseStep ==
  ASSUME UploadInv, Lose
  PROVE  UploadInv'
  <1>1. PICK i \in DOMAIN calls : Reply(i, Failure) /\ UNCHANGED <<page, server>>
    BY DEF Lose
  <1> QED BY <1>1, PlanReplyStep

\* An import makes the plans old: it is the only request, and no preview.
LEMMA ExecuteImportStep ==
  ASSUME UploadInv, ExecuteImport
  PROVE  UploadInv'
  <1>a. PICK r : \E i \in DOMAIN calls :
          /\ calls[i].op = "apply"
          /\ calls' = [calls EXCEPT ![i].reply = r, ![i].work = Absent]
          /\ server' = [server EXCEPT !.imports = @ + 1] /\ UNCHANGED page
    BY DEF ExecuteImport, Reply, IsAsked
  <1>1. PICK i \in DOMAIN calls :
          /\ calls[i].op = "apply"
          /\ calls' = [calls EXCEPT ![i].reply = r, ![i].work = Absent]
          /\ server' = [server EXCEPT !.imports = @ + 1] /\ UNCHANGED page
    BY <1>a
  <1>2. PICK S : calls \in Seq(S)
    BY DEF UploadInv, UploadShape
  <1>b. DOMAIN calls[i] = CallFields
    BY <1>2, LenProperties DEF UploadInv, UploadShape
  <1> DEFINE c == [calls[i] EXCEPT !.reply = r, !.work = Absent]
  <1>3. DOMAIN c = CallFields /\ c.op = "apply"
    BY <1>b, <1>1 DEF CallFields
  <1>4. calls' = [calls EXCEPT ![i] = c]
    BY <1>1, <1>2
  <1> HIDE DEF c
  <1>5. /\ \E T : calls' \in Seq(T)
        /\ Len(calls) \in Nat /\ i \in 1 .. Len(calls) /\ Len(calls') = Len(calls)
        /\ \A j \in 1 .. Len(calls) : calls'[j] = IF j = i THEN c ELSE calls[j]
    BY <1>2, <1>4, CallReplaced
  <1>6. DOMAIN server' = {"imports", "rights"}
    BY <1>1 DEF UploadInv, UploadShape
  <1>7. UploadShape'
    BY <1>1, <1>2, <1>3, <1>5, <1>6 DEF UploadInv, UploadShape
  <1>8. PlansAreTrue'
    BY <1>1, <1>2, <1>3, <1>5 DEF UploadInv, PlansAreTrue, PlanArrived
  <1>9. PlansAreNew'
    BY <1>1, <1>2, <1>3, <1>5 DEF UploadInv, PlansAreNew
  <1>10. BusyIsOut'
    BY <1>1, <1>5 DEF UploadInv, BusyIsOut
  <1> QED BY <1>7, <1>8, <1>9, <1>10 DEF UploadInv

LEMMA UploadRightsStep ==
  ASSUME UploadInv, ChangeRights
  PROVE  UploadInv'
  <1>1. /\ UNCHANGED <<page, calls>> /\ server'.imports = server.imports
        /\ DOMAIN server' = {"imports", "rights"}
    BY DEF ChangeRights, UploadInv, UploadShape
  <1> QED BY <1>1 DEF UploadInv, UploadShape, PlansAreTrue, PlansAreNew, PlanArrived, BusyIsOut

\* The plan of a preview is shown with what the preview was sent for.
LEMMA UploadAnswerStep ==
  ASSUME UploadInv, UploadAnswer
  PROVE  UploadInv'
  <1>1. PICK i \in DOMAIN calls :
          /\ calls[i].op \in {"preview", "apply"} /\ calls[i].reply # Absent
          /\ page' = IF Failed(i) THEN [page EXCEPT !.busy = FALSE, !.doubt = @ \/ calls[i].op = "apply"]
                     ELSE [page EXCEPT
                            !.busy = FALSE, !.plan = calls[i].reply, !.rights = calls[i].reply.rights,
                            !.dry = ShownAsPlan(i), !.previewed = IF ShownAsPlan(i) THEN PreviewedBy(i) ELSE Absent]
          /\ calls' = Others(i) /\ UNCHANGED server
    BY DEF UploadAnswer, Show, Take, IsAnswered
  <1>2. /\ DOMAIN page = UploadFields /\ page.at = "upload" /\ page.dry \in BOOLEAN /\ page.doubt \in BOOLEAN
        /\ \A j \in 1 .. Len(calls) :
             DOMAIN calls[j] = CallFields /\ calls[j].op \in {"preview", "apply"}
    BY DEF UploadInv, UploadShape
  <1>3. /\ \E T : calls' \in Seq(T)
        /\ Len(calls) \in Nat /\ i \in 1 .. Len(calls) /\ Len(calls') = Len(calls) - 1
        /\ \A j \in 1 .. Len(calls') : \E k \in 1 .. Len(calls) : calls'[j] = calls[k]
    <2>1. PICK S : calls \in Seq(S)
      BY DEF UploadInv, UploadShape
    <2>2. /\ Others(i) \in Seq(S)
          /\ Len(calls) \in Nat /\ i \in 1 .. Len(calls) /\ Len(Others(i)) = Len(calls) - 1
          /\ \A j \in 1 .. Len(calls) - 1 : \E k \in 1 .. Len(calls) : Others(i)[j] = calls[k]
      BY <2>1, RequestTaken
    <2>3. calls' = Others(i)
      BY <1>1
    <2> QED BY <2>2, <2>3
  <1>4. CASE Failed(i)
    <2>1. /\ DOMAIN page' = UploadFields /\ page'.at = "upload" /\ page'.busy = FALSE /\ page'.plan = page.plan /\ page'.dry = page.dry
          /\ page'.previewed = page.previewed /\ page'.doubt = (page.doubt \/ calls[i].op = "apply")
      BY <1>1, <1>2, <1>4 DEF UploadFields
    <2>2. page'.doubt \in BOOLEAN /\ (~page'.doubt => ~page.doubt /\ calls[i].op = "preview")
      BY <1>1, <1>2, <2>1
    <2>3. UploadShape'
      BY <1>1, <1>2, <1>3, <2>1, <2>2 DEF UploadInv, UploadShape
    <2>4. PlansAreTrue'
      BY <1>3, <2>1 DEF UploadInv, PlansAreTrue, PlanArrived
    <2>5. PlansAreNew'
      <3> SUFFICES ASSUME ~page'.doubt PROVE PlansAreNew'
        BY DEF PlansAreNew
      <3>1. Len(calls) = 1 /\ i = 1 /\ Len(calls') = 0 /\ (\A j \in 1 .. Len(calls) : calls[j].op = "preview")
        BY <1>2, <1>3, <2>2 DEF UploadInv, PlansAreNew
      <3>2. page.plan # Absent /\ page.dry => page.plan.imports = server.imports
        BY <2>2, <3>1 DEF UploadInv, PlansAreNew
      <3> QED BY <1>1, <2>1, <3>1, <3>2 DEF PlansAreNew
    <2> QED BY <2>1, <2>3, <2>4, <2>5 DEF UploadInv, BusyIsOut
  <1>5. CASE ~Failed(i)
    <2>1. /\ DOMAIN page' = UploadFields /\ page'.at = "upload" /\ page'.busy = FALSE /\ page'.plan = calls[i].reply
          /\ page'.dry = (calls[i].op = "preview") /\ page'.doubt = page.doubt
          /\ calls[i].op = "preview" => page'.previewed = calls[i].args
      BY <1>1, <1>2, <1>5 DEF UploadFields, ShownAsPlan, PreviewedBy
    <2>2. PlanArrived(i) /\ page'.dry \in BOOLEAN /\ (page'.dry => calls[i].op = "preview")
      BY <1>1, <1>5, <2>1 DEF PlanArrived, Failed
    <2>3. UploadShape'
      BY <1>1, <1>2, <1>3, <2>1, <2>2 DEF UploadInv, UploadShape
    <2>4. PlansAreTrue'
      BY <1>2, <1>3, <2>1, <2>2 DEF UploadInv, PlansAreTrue, PlanArrived
    <2>5. PlansAreNew'
      <3> SUFFICES ASSUME ~page'.doubt PROVE PlansAreNew'
        BY DEF PlansAreNew
      <3>1. Len(calls) = 1 /\ i = 1 /\ Len(calls') = 0
        BY <1>2, <1>3, <2>1 DEF UploadInv, PlansAreNew
      <3>2. page'.dry => page'.plan.imports = server.imports
        BY <1>2, <2>1, <2>2, <3>1 DEF UploadInv, PlansAreNew
      <3> QED BY <1>1, <3>1, <3>2 DEF PlansAreNew
    <2> QED BY <2>1, <2>3, <2>4, <2>5 DEF UploadInv, BusyIsOut
  <1> QED BY <1>4, <1>5

LEMMA UploadNextInv == UploadInv /\ [UploadNext \/ Lose]_vars => UploadInv'
  <1> SUFFICES ASSUME UploadInv, [UploadNext \/ Lose]_vars PROVE UploadInv'
    OBVIOUS
  <1>1. CASE UNCHANGED vars
    BY <1>1 DEF vars, UploadInv, UploadShape, PlansAreTrue, PlansAreNew, PlanArrived, BusyIsOut
  <1> QED BY <1>1, UploadUserStep, UploadButtonStep, PlanImportStep, UploadLoseStep, ExecuteImportStep, UploadRightsStep, UploadAnswerStep
          DEF UploadNext

-------------------------------------------------------------------------------

\* Plans are of what they say, and without a doubt about the requests of what
\* is stored, whatever the page and its server do (UploadPackPage.tsx:634-760).
THEOREM UploadInvariant == UploadSpec => []UploadInv
  BY UploadInitInv, UploadNextInv, PTL DEF UploadSpec

\* Whatever is edited while a preview is on its way, a plan counts as current
\* only for the pack, modes and picks it was computed from
\* (UploadPackPage.tsx:634-641).
THEOREM PlanMatchesSelection == UploadSpec => []PlanIsOfTheSelection
  <1>1. UploadInv => PlanIsOfTheSelection
    BY DEF UploadInv, PlansAreTrue, PreviewCurrent, PlanIsOfTheSelection
  <1> QED BY <1>1, UploadInvariant, PTL

\* With no doubt about what was sent, a plan that is still offered was not
\* followed by an import of this page (UploadPackPage.tsx:734-741).
THEOREM PlanMatchesStore == UploadSpec => []AppliedPlanIsSpent
  <1>1. ASSUME UploadInv, calls = <<>> PROVE \A i \in 1 .. Len(calls) : FALSE
    BY <1>1
  <1>2. UploadInv => AppliedPlanIsSpent
    BY <1>1 DEF UploadInv, PlansAreNew, PreviewCurrent, AppliedPlanIsSpent
  <1> QED BY <1>2, UploadInvariant, PTL

-------------------------------------------------------------------------------
(* The list of parts alone, opened to look at them or to pick some.        *)

TableInit == \E pickMode \in BOOLEAN :
  /\ page = TableStart(pickMode)
  /\ calls = TableCalls(pickMode)
  /\ server = Absent
  /\ left \in Nat

TableSpec == TableInit /\ [][TableNext \/ Lose]_vars

Tags   == {"text", "filter", "job"}
Lazies == [first : Nat, rows : Nat \ {0}, descending : BOOLEAN, tags : SUBSET Tags]
TableFields == {"at", "pickMode", "search", "lazy", "rows", "total", "loading", "failed", "ahead"}

Found(lazy) == [rows |-> RowsOf(lazy), total |-> Len(Matching(lazy.tags))]

\* What is shown without a load on its way or a failure is the answer, and
\* the place in the list is within what the answer counts.
TablePageOK(p) ==
  /\ DOMAIN p = TableFields /\ p.at = "parts" /\ p.lazy \in Lazies
  /\ p.loading \in BOOLEAN /\ p.failed \in BOOLEAN /\ p.ahead \in BOOLEAN
  /\ ~p.loading /\ ~p.failed => p.rows = RowsOf(p.lazy) /\ p.total = Len(Matching(p.lazy.tags))
  /\ ~p.ahead => p.lazy.first = 0 \/ p.lazy.first < Len(Matching(p.lazy.tags))

\* A fetch that was not cancelled asks what the page asks.
FetchOK(c, p) ==
  /\ DOMAIN c = CallFields /\ c.op = "parts"
  /\ DOMAIN c.args = {"lazy", "canceled"} /\ c.args.lazy \in Lazies /\ c.args.canceled \in BOOLEAN
  /\ ~c.args.canceled => c.args.lazy = p.lazy
  /\ c.reply \in {Absent, Failure, Found(c.args.lazy)}

\* The page is loading as long as a fetch that counts is out.
FetchIsOut(p, cs) == p.loading => \E c \in Elems(cs) : ~c.args.canceled

TableInv ==
  /\ TablePageOK(page)
  /\ IsSequence(calls) /\ \A c \in Elems(calls) : FetchOK(c, page)
  /\ FetchIsOut(page, calls)

\* The fetches of a former question are cancelled and otherwise kept.
LEMMA FetchesCancelled ==
  ASSUME IsSequence(calls)
  PROVE  LET stopped == [i \in DOMAIN calls |-> [calls[i] EXCEPT !.args.canceled = TRUE]] IN
         /\ IsSequence(stopped)
         /\ \A c \in Elems(stopped) : \E d \in Elems(calls) : c = [d EXCEPT !.args.canceled = TRUE]
  <1> DEFINE t == [i \in DOMAIN calls |-> [calls[i] EXCEPT !.args.canceled = TRUE]]
  <1>1. DOMAIN t = DOMAIN calls /\ t = [i \in DOMAIN calls |-> t[i]]
    OBVIOUS
  <1>2. \A i \in DOMAIN calls : t[i] = [calls[i] EXCEPT !.args.canceled = TRUE] /\ calls[i] \in Elems(calls)
    BY DEF Elems
  <1> HIDE DEF t
  <1>3. IsSequence(t) /\ Elems(t) = {t[i] : i \in DOMAIN calls}
    BY <1>1, Mapped
  <1> QED BY <1>2, <1>3 DEF t

-------------------------------------------------------------------------------
(* What is found.                                                          *)

LEMMA FoundIsCounted ==
  ASSUME NEW tags
  PROVE  IsSequence(Matching(tags)) /\ Len(Matching(tags)) \in Nat
  <1> DEFINE fits == {k \in DOMAIN Catalog : tags \subseteq Catalog[k].tags}
  <1>1. fits \in SUBSET (DOMAIN Catalog) /\ Matching(tags) = Picked(Catalog, fits)
    BY DEF Matching
  <1>2. IsSequence(Catalog)
    BY TableAssumption DEF IsSequence
  <1> HIDE DEF fits
  <1> QED BY <1>1, <1>2, PickedIs

\* The rows of a page are none only beyond the end.
LEMMA RowsOfPage ==
  ASSUME NEW lazy \in Lazies
  PROVE  RowsOf(lazy) = <<>> <=> Len(Matching(lazy.tags)) <= lazy.first
  <1> DEFINE found  == Matching(lazy.tags)
             sorted == IF lazy.descending THEN Reverse(found) ELSE found
             last   == IF lazy.first + lazy.rows < Len(sorted) THEN lazy.first + lazy.rows ELSE Len(sorted)
  <1>1. PICK S : found \in Seq(S)
    BY FoundIsCounted DEF IsSequence
  <1>2. Len(found) \in Nat /\ lazy.first \in Nat /\ lazy.rows \in Nat \ {0}
    BY FoundIsCounted DEF Lazies
  <1>3. sorted \in Seq(S) /\ Len(sorted) = Len(found)
    <2>1. Reverse(found) = [k \in 1 .. Len(found) |-> found[Len(found) - k + 1]]
      BY DEF Reverse
    <2>2. \A k \in 1 .. Len(found) : found[Len(found) - k + 1] \in S
      BY <1>1, <1>2, ElementOfSeq
    <2>3. Reverse(found) \in Seq(S) /\ Len(Reverse(found)) = Len(found)
      BY <1>2, <2>1, <2>2, IsASeq, LenProperties
    <2> QED BY <1>1, <2>3
  <1>4. RowsOf(lazy) = SubSeq(sorted, lazy.first + 1, last)
    BY DEF RowsOf
  <1> HIDE DEF found, sorted
  <1>5. last \in Nat /\ last <= Len(sorted)
    BY <1>2, <1>3
  <1>6. last <= lazy.first <=> Len(found) <= lazy.first
    BY <1>2, <1>3
  <1> HIDE DEF last
  <1>7. CASE last <= lazy.first
    <2>1. RowsOf(lazy) = <<>>
      BY <1>2, <1>3, <1>4, <1>5, <1>7, SubSeqProperties
    <2> QED BY <1>6, <1>7, <2>1 DEF found
  <1>8. CASE ~(last <= lazy.first)
    <2>1. Len(RowsOf(lazy)) = last - lazy.first
      BY <1>2, <1>3, <1>4, <1>5, <1>8, SubSeqProperties
    <2>2. RowsOf(lazy) # <<>>
      BY <1>2, <1>5, <1>8, <2>1
    <2> QED BY <1>6, <1>8, <2>2 DEF found
  <1> QED BY <1>7, <1>8

-------------------------------------------------------------------------------
(* One lemma per kind of step.                                             *)

LEMMA TableInitInv == TableInit => TableInv
  <1> SUFFICES ASSUME NEW pickMode \in BOOLEAN, page = TableStart(pickMode), calls = TableCalls(pickMode)
               PROVE  TableInv
    BY DEF TableInit
  <1> DEFINE n == CHOOSE n \in PageSizes : \A m \in PageSizes : n <= m
             lazy == Lazy(0, n, TRUE, IF pickMode THEN {"job"} ELSE {})
  <1>1. n \in Nat \ {0}
    <2>1. \E k \in PageSizes : \A m \in PageSizes : k <= m
      BY TableAssumption, Smallest
    <2> QED BY <2>1, TableAssumption
  <1>2. page = [at |-> "parts", pickMode |-> pickMode, search |-> FALSE, lazy |-> lazy, rows |-> <<>>,
                total |-> 0, loading |-> TRUE, failed |-> FALSE, ahead |-> FALSE]
    BY DEF TableStart
  <1> HIDE DEF n
  <1>3. lazy \in Lazies /\ lazy.first = 0
    BY <1>1 DEF Lazy, Lazies, Tags
  <1> HIDE DEF lazy
  <1>4. TablePageOK(page)
    BY <1>2, <1>3 DEF TablePageOK, TableFields
  <1>5. calls = <<Fetch(lazy)>>
    BY <1>2 DEF TableCalls
  <1>6. FetchOK(Fetch(lazy), page)
    <2>1. page.lazy = lazy
      BY <1>2
    <2> QED BY <1>3, <2>1 DEF FetchOK, Fetch, Call, CallFields
  <1>7. ~Fetch(lazy).args.canceled
    BY DEF Fetch, Call
  <1> QED BY <1>4, <1>5, <1>6, <1>7, Few DEF TableInv, FetchIsOut

\* A question that changes cancels every fetch and sends its own.
LEMMA TableAsksInv ==
  ASSUME TableInv, NEW STATE q, Asks(q), DOMAIN q = TableFields, q.at = "parts", q.lazy \in Lazies,
         q.loading = page.loading, q.failed = page.failed, q.rows = page.rows, q.total = page.total,
         q.ahead \in BOOLEAN,
         ~q.ahead => q.lazy.first = 0 \/ q.lazy.first < Len(Matching(q.lazy.tags))
  PROVE  TableInv'
  <1>1. CASE q.lazy = page.lazy
    <2>1. page' = q /\ calls' = calls
      BY <1>1 DEF Asks, Show
    <2>2. TablePageOK(q)
      BY <1>1 DEF TableInv, TablePageOK
    <2>3. \A c \in Elems(calls) : FetchOK(c, q)
      BY <1>1 DEF TableInv, FetchOK
    <2> QED BY <2>1, <2>2, <2>3 DEF TableInv, FetchIsOut
  <1>2. CASE q.lazy # page.lazy
    <2> DEFINE stopped == [i \in DOMAIN calls |-> [calls[i] EXCEPT !.args.canceled = TRUE]]
               p == [q EXCEPT !.loading = TRUE]
    <2>1. page' = p /\ calls' = stopped \o <<Fetch(q.lazy)>>
      <3>1. PICK S : calls \in Seq(S)
        BY DEF TableInv, IsSequence
      <3>2. page' = p /\ calls' = Append(stopped, Fetch(q.lazy))
        BY <1>2 DEF Asks, Show
      <3>3. IsSequence(stopped)
        BY FetchesCancelled DEF TableInv
      <3> HIDE DEF stopped
      <3>4. PICK T : stopped \in Seq(T)
        BY <3>3 DEF IsSequence
      <3>5. Append(stopped, Fetch(q.lazy)) = stopped \o <<Fetch(q.lazy)>>
        <4>1. stopped \in Seq(T \cup {Fetch(q.lazy)}) /\ Fetch(q.lazy) \in T \cup {Fetch(q.lazy)}
          BY <3>4, SeqMonotonic
        <4> QED BY <4>1, AppendIsConcat
      <3> QED BY <3>2, <3>5
    <2>2. DOMAIN p = TableFields /\ p.at = q.at /\ p.lazy = q.lazy /\ p.loading = TRUE
          /\ p.failed = q.failed /\ p.ahead = q.ahead
      BY DEF TableFields
    <2>3. TablePageOK(p)
      BY <2>2 DEF TablePageOK, TableInv
    <2>4. /\ IsSequence(stopped)
          /\ \A c \in Elems(stopped) : \E d \in Elems(calls) : c = [d EXCEPT !.args.canceled = TRUE]
      BY FetchesCancelled DEF TableInv
    <2> HIDE DEF stopped
    <2>5. ASSUME NEW c \in Elems(stopped) PROVE FetchOK(c, p)
      <3>1. PICK d \in Elems(calls) : c = [d EXCEPT !.args.canceled = TRUE]
        BY <2>4
      <3>2. FetchOK(d, page)
        BY DEF TableInv
      <3>3. DOMAIN c = CallFields /\ c.op = d.op /\ c.reply = d.reply /\ DOMAIN c.args = DOMAIN d.args
            /\ c.args.canceled = TRUE /\ c.args.lazy = d.args.lazy
        BY <3>1, <3>2 DEF FetchOK, CallFields
      <3> QED BY <3>2, <3>3 DEF FetchOK
    <2>6. FetchOK(Fetch(q.lazy), p)
      BY <2>2 DEF FetchOK, Fetch, Call, CallFields
    <2>7. IsSequence(calls') /\ Elems(calls') = Elems(stopped) \cup {Fetch(q.lazy)}
      BY <2>1, <2>4, Few, Joined
    <2>8. ~Fetch(q.lazy).args.canceled
      BY DEF Fetch, Call
    <2> QED BY <2>1, <2>3, <2>5, <2>6, <2>7, <2>8 DEF TableInv, FetchIsOut
  <1> QED BY <1>1, <1>2

LEMMA TypeSearchInv ==
  ASSUME TableInv, Type
  PROVE  TableInv'
  <1>1. page' = [page EXCEPT !.search = ~@] /\ calls' = calls
    BY DEF Type, Show
  <1>2. /\ DOMAIN page' = TableFields /\ page'.at = page.at /\ page'.lazy = page.lazy
        /\ page'.rows = page.rows /\ page'.total = page.total /\ page'.loading = page.loading
        /\ page'.failed = page.failed /\ page'.ahead = page.ahead
    BY <1>1 DEF TableInv, TablePageOK, TableFields
  <1>3. TablePageOK(page')
    BY <1>2 DEF TableInv, TablePageOK
  <1>4. \A c \in Elems(calls) : FetchOK(c, page')
    BY <1>2 DEF TableInv, FetchOK
  <1> QED BY <1>1, <1>2, <1>3, <1>4 DEF TableInv, FetchIsOut

\* A question keeps to the list when it goes back to the start, keeps its
\* place, or says that the place was chosen ahead.
LEMMA QuestionInv ==
  ASSUME TableInv, Debounced \/ SetFilterValue \/ Sort \/ SetJobOnly
  PROVE  TableInv'
  <1>1. /\ DOMAIN page = TableFields /\ page.at = "parts" /\ page.lazy \in Lazies /\ page.ahead \in BOOLEAN
        /\ ~page.ahead => page.lazy.first = 0 \/ page.lazy.first < Len(Matching(page.lazy.tags))
    BY DEF TableInv, TablePageOK
  <1>2. DOMAIN page.lazy = {"first", "rows", "descending", "tags"}
    BY <1>1 DEF Lazies
  <1>3. \A tag \in Tags : Toggled(page.lazy.tags, tag) \in SUBSET Tags
    BY <1>1 DEF Toggled, Lazies
  <1>4. CASE Debounced
    <2> DEFINE q == [page EXCEPT !.lazy.first = 0, !.lazy.tags = Toggled(@, "text"), !.ahead = FALSE]
    <2>1. Asks(q)
      BY <1>4 DEF Debounced
    <2>2. Toggled(page.lazy.tags, "text") \in SUBSET Tags
      BY <1>3 DEF Tags
    <2>3. /\ DOMAIN q = TableFields /\ q.at = "parts" /\ q.loading = page.loading /\ q.failed = page.failed
          /\ q.rows = page.rows /\ q.total = page.total /\ q.ahead = FALSE
          /\ q.lazy = [first |-> 0, rows |-> page.lazy.rows, descending |-> page.lazy.descending,
                       tags |-> Toggled(page.lazy.tags, "text")]
      BY <1>1, <1>2 DEF TableFields
    <2>4. q.lazy \in Lazies /\ q.lazy.first = 0
      BY <1>1, <2>2, <2>3 DEF Lazies
    <2> HIDE DEF q
    <2> QED BY <2>1, <2>3, <2>4, TableAsksInv
  <1>5. ASSUME NEW STATE lazy, lazy \in Lazies, SetLazy(lazy),
               lazy.first = 0 \/ (lazy.first = page.lazy.first /\ lazy.tags = page.lazy.tags)
        PROVE  TableInv'
    <2> DEFINE q == [page EXCEPT !.lazy = lazy, !.ahead = @ /\ lazy.first # 0]
    <2>1. Asks(q)
      BY <1>5 DEF SetLazy
    <2>2. /\ DOMAIN q = TableFields /\ q.at = "parts" /\ q.loading = page.loading /\ q.failed = page.failed
          /\ q.rows = page.rows /\ q.total = page.total /\ q.ahead = (page.ahead /\ lazy.first # 0)
          /\ q.lazy = lazy
      BY <1>1 DEF TableFields
    <2> HIDE DEF q
    <2>3. q.ahead \in BOOLEAN /\ (~q.ahead => q.lazy.first = 0 \/ q.lazy.first < Len(Matching(q.lazy.tags)))
      BY <1>1, <1>5, <2>2
    <2> QED BY <1>5, <2>1, <2>2, <2>3, TableAsksInv
  <1>6. CASE SetFilterValue
    <2> DEFINE lazy == FilteredBy(page.lazy, "filter")
    <2>1. SetLazy(lazy)
      BY <1>6 DEF SetFilterValue
    <2>2. Toggled(page.lazy.tags, "filter") \in SUBSET Tags
      BY <1>3 DEF Tags
    <2>3. \A tags \in SUBSET Tags :
            LET asked == [page.lazy EXCEPT !.first = 0, !.tags = tags] IN asked \in Lazies /\ asked.first = 0
      BY <1>1 DEF Lazies
    <2>4. lazy \in Lazies /\ lazy.first = 0
      BY <2>2, <2>3 DEF FilteredBy
    <2> HIDE DEF lazy
    <2> QED BY <1>5, <2>1, <2>4
  <1>7. CASE Sort
    <2> DEFINE lazy == [page.lazy EXCEPT !.descending = ~@]
    <2>1. SetLazy(lazy)
      BY <1>7 DEF Sort
    <2>2. lazy \in Lazies /\ lazy.first = page.lazy.first /\ lazy.tags = page.lazy.tags
      BY <1>1 DEF Lazies
    <2> HIDE DEF lazy
    <2> QED BY <1>5, <2>1, <2>2
  <1>8. CASE SetJobOnly
    <2> DEFINE q == [page EXCEPT !.lazy.tags = Toggled(@, "job"), !.ahead = page.lazy.first # 0]
    <2>1. Asks(q)
      BY <1>8 DEF SetJobOnly
    <2>2. Toggled(page.lazy.tags, "job") \in SUBSET Tags
      BY <1>3 DEF Tags
    <2>3. /\ DOMAIN q = TableFields /\ q.at = "parts" /\ q.loading = page.loading /\ q.failed = page.failed
          /\ q.rows = page.rows /\ q.total = page.total /\ q.ahead = (page.lazy.first # 0)
          /\ q.lazy = [page.lazy EXCEPT !.tags = Toggled(@, "job")]
      BY <1>1 DEF TableFields
    <2> HIDE DEF q
    <2>4. q.lazy \in Lazies /\ q.lazy.first = page.lazy.first
      BY <1>1, <1>2, <2>2, <2>3 DEF Lazies
    <2>5. q.ahead \in BOOLEAN /\ (~q.ahead => q.lazy.first = 0)
      BY <2>3, <2>4
    <2> QED BY <2>1, <2>3, <2>4, <2>5, TableAsksInv
  <1> QED BY <1>4, <1>6, <1>7, <1>8

\* The next page begins within the count, if the count is of the question.
LEMMA PageTurnInv ==
  ASSUME TableInv, NextPage \/ PrevPage \/ SetRows
  PROVE  TableInv'
  <1>1. /\ DOMAIN page = TableFields /\ page.at = "parts" /\ page.lazy \in Lazies /\ page.ahead \in BOOLEAN
        /\ page.loading \in BOOLEAN /\ page.failed \in BOOLEAN
        /\ ~page.ahead => page.lazy.first = 0 \/ page.lazy.first < Len(Matching(page.lazy.tags))
        /\ ~page.loading /\ ~page.failed => page.total = Len(Matching(page.lazy.tags))
    BY DEF TableInv, TablePageOK
  <1>2. page.lazy.first \in Nat /\ page.lazy.rows \in Nat \ {0} /\ Len(Matching(page.lazy.tags)) \in Nat
    BY <1>1, FoundIsCounted DEF Lazies
  <1>3. ASSUME NEW STATE first, NEW STATE rows, first \in Nat, rows \in Nat \ {0}, GoToPage(first, rows),
               first = 0 \/ first < page.lazy.first \/ first < page.total
        PROVE  TableInv'
    <2> DEFINE q == [page EXCEPT !.lazy.first = first, !.lazy.rows = rows,
                                 !.ahead = first # 0 /\ (@ \/ page.loading \/ page.failed)]
    <2>1. Asks(q)
      BY <1>3 DEF GoToPage
    <2>2. /\ DOMAIN q = TableFields /\ q.at = "parts" /\ q.loading = page.loading /\ q.failed = page.failed
          /\ q.rows = page.rows /\ q.total = page.total
          /\ q.ahead = (first # 0 /\ (page.ahead \/ page.loading \/ page.failed))
          /\ q.lazy = [page.lazy EXCEPT !.first = first, !.rows = rows]
      BY <1>1 DEF TableFields
    <2> HIDE DEF q
    <2>3. q.lazy \in Lazies /\ q.lazy.first = first /\ q.lazy.tags = page.lazy.tags
      BY <1>1, <1>3, <2>2 DEF Lazies
    <2>4. q.ahead \in BOOLEAN /\ (~q.ahead => q.lazy.first = 0 \/ q.lazy.first < Len(Matching(q.lazy.tags)))
      BY <1>1, <1>2, <1>3, <2>2, <2>3
    <2> QED BY <2>1, <2>2, <2>3, <2>4, TableAsksInv
  <1>4. CASE NextPage
    <2>1. page.lazy.first + page.lazy.rows \in Nat /\ page.lazy.first + page.lazy.rows < page.total
      BY <1>2, <1>4 DEF NextPage
    <2> QED BY <1>2, <1>3, <1>4, <2>1 DEF NextPage
  <1>5. CASE PrevPage
    <2>1. CASE page.lazy.first > page.lazy.rows
      <3>1. /\ GoToPage(page.lazy.first - page.lazy.rows, page.lazy.rows)
            /\ page.lazy.first - page.lazy.rows \in Nat /\ page.lazy.first - page.lazy.rows < page.lazy.first
        BY <1>2, <1>5, <2>1 DEF PrevPage
      <3> QED BY <1>2, <1>3, <3>1
    <2>2. CASE ~(page.lazy.first > page.lazy.rows)
      BY <1>2, <1>3, <1>5, <2>2 DEF PrevPage
    <2> QED BY <2>1, <2>2
  <1>6. CASE SetRows
    <2>1. PICK n \in PageSizes : GoToPage(0, n)
      BY <1>6 DEF SetRows
    <2>2. n \in Nat \ {0}
      BY TableAssumption
    <2> QED BY <1>3, <2>1, <2>2
  <1> QED BY <1>4, <1>5, <1>6

LEMMA PartsLazyInv ==
  ASSUME TableInv, PartsLazy \/ Lose
  PROVE  TableInv'
  <1>1. PICK i, r :
          /\ i \in DOMAIN calls
          /\ Reply(i, r) /\ UNCHANGED page
          /\ r = Failure \/ r = Found(calls[i].args.lazy)
    BY DEF PartsLazy, Lose, Found
  <1>2. calls[i] \in Elems(calls)
    BY <1>1 DEF Elems
  <1>3. FetchOK(calls[i], page)
    BY <1>2 DEF TableInv
  <1>4. PICK c : /\ DOMAIN c = CallFields /\ c.op = calls[i].op /\ c.args = calls[i].args /\ c.reply = r
                 /\ IsSequence(calls') /\ Elems(calls') \subseteq Elems(calls) \cup {c}
                 /\ c \in Elems(calls') /\ Elems(calls) \subseteq Elems(calls') \cup {calls[i]}
    BY <1>1, <1>3, Answered DEF TableInv, FetchOK
  <1>5. FetchOK(c, page)
    BY <1>1, <1>3, <1>4 DEF FetchOK
  <1>6. FetchIsOut(page', calls')
    BY <1>1, <1>4 DEF TableInv, FetchIsOut
  <1> QED BY <1>1, <1>4, <1>5, <1>6 DEF TableInv

\* An answer that is taken is to the question last asked.
LEMMA PartsAnswerInv ==
  ASSUME TableInv, PartsAnswer
  PROVE  TableInv'
  <1>1. PICK i, r :
          /\ i \in DOMAIN calls
          /\ IsAnswered(i, "parts")
          /\ ~Failed(i) => r = calls[i].reply
          /\ page' = IF ~Fetched(i) THEN page
                     ELSE [page EXCEPT !.rows = r.rows, !.total = r.total, !.loading = FALSE, !.failed = Failed(i)]
          /\ calls' = Others(i)
    <2>1. PICK i \in DOMAIN calls, outage \in BOOLEAN :
            /\ IsAnswered(i, "parts")
            /\ LET r == CASE ~Failed(i)           -> calls[i].reply
                          [] Failed(i) /\ outage  -> [rows |-> page.rows, total |-> page.total]
                          [] Failed(i) /\ ~outage -> [rows |-> <<>>, total |-> 0]
               IN page' = IF ~Fetched(i) THEN page
                    ELSE [page EXCEPT !.rows = r.rows, !.total = r.total, !.loading = FALSE, !.failed = Failed(i)]
            /\ calls' = Others(i)
      BY DEF PartsAnswer, Show, Take
    <2> DEFINE r == CASE ~Failed(i)           -> calls[i].reply
                      [] Failed(i) /\ outage  -> [rows |-> page.rows, total |-> page.total]
                      [] Failed(i) /\ ~outage -> [rows |-> <<>>, total |-> 0]
    <2>2. ~Failed(i) => r = calls[i].reply
      OBVIOUS
    <2>3. page' = IF ~Fetched(i) THEN page
                  ELSE [page EXCEPT !.rows = r.rows, !.total = r.total, !.loading = FALSE, !.failed = Failed(i)]
      BY <2>1
    <2> HIDE DEF r
    <2> QED BY <2>1, <2>2, <2>3
  <1>2. /\ IsSequence(calls') /\ Elems(calls') \subseteq Elems(calls) /\ calls[i] \in Elems(calls)
        /\ Elems(calls) \subseteq Elems(calls') \cup {calls[i]}
    BY <1>1, Remaining DEF TableInv
  <1>3. FetchOK(calls[i], page)
    BY <1>2 DEF TableInv
  <1>4. CASE ~Fetched(i)
    <2>1. page' = page /\ calls[i].args.canceled
      BY <1>1, <1>4 DEF Fetched
    <2>2. FetchIsOut(page', calls')
      BY <1>2, <2>1 DEF TableInv, FetchIsOut
    <2> QED BY <1>2, <2>1, <2>2 DEF TableInv
  <1>5. CASE Fetched(i)
    <2>1. /\ DOMAIN page' = TableFields /\ page'.at = page.at /\ page'.lazy = page.lazy
          /\ page'.rows = r.rows /\ page'.total = r.total /\ page'.loading = FALSE
          /\ page'.failed = Failed(i) /\ page'.ahead = page.ahead
      BY <1>1, <1>5 DEF TableInv, TablePageOK, TableFields
    <2>2. ~Failed(i) => r = Found(page.lazy)
      BY <1>1, <1>3, <1>5 DEF FetchOK, Fetched, Failed, IsAnswered
    <2>3. Failed(i) \in BOOLEAN
      BY DEF Failed
    <2>4. TablePageOK(page')
      <3>1. ~Failed(i) => page'.rows = RowsOf(page.lazy) /\ page'.total = Len(Matching(page.lazy.tags))
        BY <2>1, <2>2 DEF Found
      <3>2. page'.ahead \in BOOLEAN /\ page'.lazy \in Lazies /\ page'.at = "parts"
        BY <2>1 DEF TableInv, TablePageOK
      <3>3. ~page.ahead => page.lazy.first = 0 \/ page.lazy.first < Len(Matching(page.lazy.tags))
        BY DEF TableInv, TablePageOK
      <3> QED BY <2>1, <2>3, <3>1, <3>2, <3>3 DEF TablePageOK
    <2>5. \A c \in Elems(calls) : FetchOK(c, page')
      BY <2>1 DEF TableInv, FetchOK
    <2> QED BY <1>2, <2>1, <2>4, <2>5 DEF TableInv, FetchIsOut
  <1> QED BY <1>4, <1>5

LEMMA TableNextInv == TableInv /\ [TableNext \/ Lose]_vars => TableInv'
  <1> SUFFICES ASSUME TableInv, [TableNext \/ Lose]_vars PROVE TableInv'
    OBVIOUS
  <1>1. CASE UNCHANGED vars
    BY <1>1 DEF vars, TableInv
  <1> QED BY <1>1, TypeSearchInv, QuestionInv, PageTurnInv, PartsLazyInv, PartsAnswerInv DEF TableNext

-------------------------------------------------------------------------------

\* Whatever is typed, filtered, sorted and turned while fetches are out, and
\* in whatever order they are answered or lost, a fetch that still counts asks
\* what the page asks, and the place in the list is within what was counted
\* for the question, unless it was chosen ahead of it (PartsPage.tsx:159-202).
THEOREM TableInvariant == TableSpec => []TableInv
  BY TableInitInv, TableNextInv, PTL DEF TableSpec

\* The rows are the answer to the question last asked (PartsPage.tsx:159-202).
THEOREM RowsAnswer == TableSpec => []RowsAnswerTheQuestion
  <1>1. TableInv => RowsAnswerTheQuestion
    BY DEF TableInv, TablePageOK, RowsAnswerTheQuestion
  <1> QED BY <1>1, TableInvariant, PTL

\* An empty list means that no part matches (PartsPage.tsx:191, 400, 451, 585).
THEOREM EmptyMeansNone == TableSpec => []NoRowsMeansNoParts
  <1>1. TableInv => NoRowsMeansNoParts
    <2> SUFFICES ASSUME TableInv, ~page.loading, ~page.failed, ~page.ahead
                 PROVE  page.rows = <<>> <=> Matching(page.lazy.tags) = <<>>
      BY DEF NoRowsMeansNoParts
    <2> DEFINE found == Matching(page.lazy.tags)
    <2>1. /\ page.lazy \in Lazies /\ page.rows = RowsOf(page.lazy)
          /\ page.lazy.first = 0 \/ page.lazy.first < Len(found)
      BY DEF TableInv, TablePageOK
    <2>2. page.rows = <<>> <=> Len(found) <= page.lazy.first
      BY <2>1, RowsOfPage
    <2>3. Len(found) \in Nat /\ page.lazy.first \in Nat
      BY <2>1, FoundIsCounted DEF Lazies
    <2>4. found = <<>> <=> Len(found) = 0
      <3>1. PICK S : found \in Seq(S)
        BY FoundIsCounted DEF IsSequence
      <3> HIDE DEF found
      <3> QED BY <3>1, EmptySeq
    <2> HIDE DEF found
    <2>5. page.rows = <<>> <=> found = <<>>
      BY <2>1, <2>2, <2>3, <2>4
    <2> QED BY <2>5 DEF found
  <1> QED BY <1>1, TableInvariant, PTL

-------------------------------------------------------------------------------
(* The BOM of a part alone, on the page of its own or under the part.      *)

BomInit == \E own \in BOOLEAN, u \in Assemblies :
  /\ page = BomStart(own, u)
  /\ calls = BomCalls(own, u)
  /\ server = BomServer
  /\ left \in Nat

BomSpec == BomInit /\ [][BomNext \/ Lose]_vars

BomFields ==
  {"at", "own", "url", "tick", "nodes", "expanded", "treeLoading", "mode", "flatRows", "flatLoading",
   "whereUsed", "first", "whereUsedLoading", "stray", "outage", "flatLeft"}

RowKeys == Seq(Nat \X Assemblies)

\* The key of a row ends with its part.
RowOK(key, part) == key \in RowKeys /\ part \in Assemblies /\ Len(key) > 0 /\ Last(key)[2] = part

\* A row hangs on the row above it, at its place.
Hangs(n, tree, own) ==
  \/ Len(n.key) = (IF own THEN 1 ELSE 2)
  \/ \E m \in tree :
       /\ m.key = Front(n.key)
       /\ Last(n.key)[1] \in DOMAIN Bom[m.part]
       /\ n.part = Bom[m.part][Last(n.key)[1]]

TreeOK(tree, own) == \A n \in tree : RowOK(n.key, n.part) /\ Hangs(n, tree, own)

Roots(own, u) == IF own THEN RootNodes(u, <<u>>) ELSE TopNodes(u, Bom[u])

\* The rows are below the part u.
TreeOf(tree, own, u) == \A n \in tree : \E t \in Roots(own, u) : IsPrefix(t.key, n.key)

BomPageOK(p) ==
  /\ DOMAIN p = BomFields /\ p.at = "bom" /\ p.own \in BOOLEAN /\ p.url \in Assemblies
  /\ p.treeLoading \in BOOLEAN /\ p.flatLoading \in BOOLEAN /\ p.whereUsedLoading \in BOOLEAN
  /\ p.stray \in BOOLEAN /\ p.outage \in BOOLEAN /\ p.flatLeft \in BOOLEAN
  /\ TreeOK(p.nodes, p.own)
  /\ p.own \/ (~p.treeLoading /\ ~p.stray) => TreeOf(p.nodes, p.own, p.url)
  /\ p.flatRows \in {<<>>, <<p.url>>}
  /\ p.flatLoading /\ ~p.flatLeft => p.mode = "flat"
  /\ ~p.whereUsedLoading /\ ~p.outage => p.whereUsed \subseteq Parents(p.url)
  /\ ~p.own => p.whereUsed = {} /\ ~p.whereUsedLoading

\* A load that was not cancelled is of the part in the address; a branch is
\* of the row it will hang on; a copy of the tree is a tree, of the part that
\* it says it is of.
LoadOK(c, own, u) ==
  /\ DOMAIN c = CallFields /\ c.op \in {"root", "flat", "whereUsed", "branch", "all"}
  /\ c.op \in {"root", "flat", "whereUsed"} =>
       /\ DOMAIN c.args = (CASE c.op = "root" -> {"part", "step", "canceled"}
                             [] c.op = "flat" -> {"part", "canceled"}
                             [] c.op = "whereUsed" -> {"part", "first", "canceled"})
       /\ c.args.part \in Assemblies /\ c.args.canceled \in BOOLEAN
       /\ ~c.args.canceled => c.args.part = u
  /\ c.op = "root" =>
       /\ c.args.step = 1 \/ (c.args.step = 2 /\ ~own)
       /\ c.reply \in {Absent, Failure, IF c.args.step = 1 THEN <<c.args.part>> ELSE Bom[c.args.part]}
  /\ c.op = "flat" => c.reply \in {Absent, Failure, <<c.args.part>>}
  /\ c.op = "whereUsed" => own /\ (c.reply \notin {Absent, Failure} => c.reply \subseteq Parents(c.args.part))
  /\ c.op \in {"branch", "all"} =>
       RowOK(c.args.key, c.args.part) /\ c.reply \in {Absent, Failure, Bom[c.args.part]}
  /\ c.op = "all" =>
       /\ ~own /\ TreeOK(c.args.tree, own)
       /\ DOMAIN c.args = {"tree", "expanded", "seen", "key", "part", "from"}
       /\ c.args.from # Absent =>
            \A w \in Assemblies : (\E t : c.args.from = <<w, t>>) => TreeOf(c.args.tree, own, w)

\* What is shown as loading, and the loads that are out and count.
Awaited(p) ==
  {op \in {"root", "flat", "whereUsed"} :
     \/ op = "root" /\ p.treeLoading
     \/ op = "flat" /\ p.mode = "flat" /\ p.flatLoading
     \/ op = "whereUsed" /\ p.whereUsedLoading}
Counting(cs) == {op \in {"root", "flat", "whereUsed"} : \E c \in Elems(cs) : c.op = op /\ ~c.args.canceled}

BomInv ==
  /\ BomPageOK(page)
  /\ IsSequence(calls) /\ \A c \in Elems(calls) : LoadOK(c, page.own, page.url)
  /\ Awaited(page) \subseteq Counting(calls)

-------------------------------------------------------------------------------
(* Keys.                                                                   *)

LEMMA PrefixIs ==
  ASSUME NEW S, NEW s \in Seq(S), NEW t \in Seq(S)
  PROVE  IsPrefix(s, t) <=> Len(s) <= Len(t) /\ \A j \in 1 .. Len(s) : s[j] = t[j]
  <1>1. Len(s) \in Nat /\ Len(t) \in Nat /\ s = [j \in 1 .. Len(s) |-> s[j]]
    BY LenProperties
  <1>2. SubSeq(s, 1, Len(s)) = [j \in 1 .. Len(s) |-> s[j]]
    BY <1>1
  <1>3. Len(s) <= Len(t) => SubSeq(t, 1, Len(s)) = [j \in 1 .. Len(s) |-> t[j]]
    BY <1>1
  <1>4. [j \in 1 .. Len(s) |-> s[j]] = [j \in 1 .. Len(s) |-> t[j]] <=> \A j \in 1 .. Len(s) : s[j] = t[j]
    OBVIOUS
  <1> QED BY <1>2, <1>3, <1>4 DEF IsPrefix

\* A key that is made longer is below what the key is below.
LEMMA KeyExtended ==
  ASSUME NEW S, NEW k \in Seq(S), NEW x \in S
  PROVE  /\ Append(k, x) \in Seq(S) /\ Len(Append(k, x)) = Len(k) + 1 /\ Len(k) \in Nat
         /\ Last(Append(k, x)) = x /\ Front(Append(k, x)) = k
         /\ \A t \in Seq(S) : IsPrefix(t, k) => IsPrefix(t, Append(k, x))
  <1> DEFINE l == Append(k, x)
  <1>1. /\ l \in Seq(S) /\ Len(l) = Len(k) + 1 /\ Len(k) \in Nat
        /\ \A j \in 1 .. Len(k) : l[j] = k[j]
        /\ l[Len(k) + 1] = x
    BY AppendProperties, LenProperties
  <1> HIDE DEF l
  <1>2. Last(l) = x
    BY <1>1 DEF Last
  <1>3. Front(l) = k
    <2>1. Front(l) = SubSeq(l, 1, Len(k))
      BY <1>1 DEF Front
    <2>2. SubSeq(l, 1, Len(k)) = [j \in 1 .. Len(k) |-> l[j]] /\ k = [j \in 1 .. Len(k) |-> k[j]]
      BY <1>1, LenProperties
    <2>3. [j \in 1 .. Len(k) |-> l[j]] = [j \in 1 .. Len(k) |-> k[j]]
      BY <1>1
    <2> QED BY <2>1, <2>2, <2>3
  <1>4. ASSUME NEW t \in Seq(S), IsPrefix(t, k) PROVE IsPrefix(t, l)
    <2>1. Len(t) \in Nat /\ Len(t) <= Len(k) /\ \A j \in 1 .. Len(t) : t[j] = k[j]
      BY <1>4, PrefixIs, LenProperties
    <2>2. Len(t) <= Len(l) /\ \A j \in 1 .. Len(t) : t[j] = l[j]
      BY <1>1, <2>1
    <2> QED BY <1>1, <2>2, PrefixIs
  <1> QED BY <1>1, <1>2, <1>3, <1>4 DEF l

\* What is strictly below a key's front is strictly below the key.
LEMMA BelowFront ==
  ASSUME NEW S, NEW k \in Seq(S), NEW l \in Seq(S), Len(l) > 0, IsStrictPrefix(k, Front(l))
  PROVE  IsStrictPrefix(k, l)
  <1>1. Len(k) \in Nat /\ Len(l) \in Nat
    BY LenProperties
  <1>2. /\ Front(l) \in Seq(S) /\ Len(Front(l)) = Len(l) - 1
        /\ \A j \in 1 .. Len(l) - 1 : Front(l)[j] = l[j]
    <2>1. Front(l) = SubSeq(l, 1, Len(l) - 1)
      BY DEF Front
    <2>2. \A j \in 1 .. Len(l) - 1 : l[j] \in S
      BY <1>1, ElementOfSeq
    <2>3. Len(l) - 1 \in Nat
      BY <1>1
    <2>4. SubSeq(l, 1, Len(l) - 1) = [j \in 1 .. Len(l) - 1 |-> l[j]]
      BY <1>1
    <2>5. [j \in 1 .. Len(l) - 1 |-> l[j]] \in Seq(S)
      BY <2>2, <2>3, IsASeq
    <2>6. Len([j \in 1 .. Len(l) - 1 |-> l[j]]) = Len(l) - 1
      BY <2>3
    <2> QED BY <2>1, <2>4, <2>5, <2>6
  <1>3. Len(k) <= Len(l) - 1 /\ \A j \in 1 .. Len(k) : k[j] = Front(l)[j]
    BY <1>2, PrefixIs DEF IsStrictPrefix
  <1>4. Len(k) <= Len(l) /\ \A j \in 1 .. Len(k) : k[j] = l[j]
    <2>1. \A j \in 1 .. Len(k) : j \in 1 .. Len(l) - 1
      BY <1>1, <1>3
    <2>2. Len(k) <= Len(l)
      BY <1>1, <1>3
    <2>3. \A j \in 1 .. Len(k) : k[j] = l[j]
      BY <1>2, <1>3, <2>1
    <2> QED BY <2>2, <2>3
  <1>5. IsPrefix(k, l)
    BY <1>4, PrefixIs
  <1>6. k # l
    BY <1>1, <1>3
  <1> QED BY <1>5, <1>6 DEF IsStrictPrefix

LEMMA NotStrictlyBelowItself ==
  ASSUME NEW k PROVE ~IsStrictPrefix(k, k)
  BY DEF IsStrictPrefix

-------------------------------------------------------------------------------
(* Trees.                                                                  *)

\* The rows of a list of parts under a path.
LEMMA Occurrences ==
  ASSUME NEW p \in Assemblies, NEW path \in RowKeys, NEW n \in WithBomOccurrenceKeys(Bom[p], path)
  PROVE  \E i \in DOMAIN Bom[p] :
           /\ n.key = Append(path, <<i, Bom[p][i]>>) /\ n.part = Bom[p][i]
           /\ <<i, Bom[p][i]>> \in Nat \X Assemblies
  <1>1. PICK i \in DOMAIN Bom[p] : n = [key |-> Append(path, Segment(i, Bom[p][i])), part |-> Bom[p][i]]
    BY DEF WithBomOccurrenceKeys
  <1>2. Bom[p] \in Seq(Assemblies)
    BY BomAssumption
  <1>3. i \in Nat /\ Bom[p][i] \in Assemblies
    BY <1>2, LenProperties, ElementOfSeq
  <1> QED BY <1>1, <1>3 DEF Segment

\* The rows a tree begins with.
LEMMA RootKeys ==
  ASSUME NEW own, NEW u \in Assemblies, NEW t \in Roots(own, u)
  PROVE  t.key \in RowKeys
  <1>0. <<1, u>> \in Nat \X Assemblies /\ <<>> \in RowKeys
    BY DEF RowKeys
  <1>1. CASE own
    <2>1. t.key = Append(<<>>, <<1, u>>)
      <3>1. PICK i \in DOMAIN <<u>> : t = [key |-> Append(<<>>, Segment(i, <<u>>[i])), part |-> <<u>>[i]]
        BY <1>1 DEF Roots, RootNodes, WithBomOccurrenceKeys
      <3>2. i = 1 /\ <<u>>[i] = u
        OBVIOUS
      <3> QED BY <3>1, <3>2 DEF Segment
    <2> QED BY <1>0, <2>1, KeyExtended DEF RowKeys
  <1>2. CASE ~own
    <2>1. Append(<<>>, <<1, u>>) = <<<<1, u>>>> /\ <<<<1, u>>>> \in RowKeys
      BY <1>0 DEF RowKeys
    <2>2. t \in WithBomOccurrenceKeys(Bom[u], <<<<1, u>>>>)
      BY <1>2 DEF Roots, TopNodes, Segment
    <2>3. PICK i \in DOMAIN Bom[u] : t.key = Append(<<<<1, u>>>>, <<i, Bom[u][i]>>)
                                   /\ <<i, Bom[u][i]>> \in Nat \X Assemblies
      BY <2>1, <2>2, Occurrences
    <2> QED BY <2>1, <2>3, KeyExtended DEF RowKeys
  <1> QED BY <1>1, <1>2

\* A branch hung on its row keeps a tree a tree, and the part it is of.
LEMMA BranchHung ==
  ASSUME NEW tree, NEW own, TreeOK(tree, own), NEW key, NEW p, RowOK(key, p)
  PROVE  LET hung == SetNodeChildren(tree, key, WithBomOccurrenceKeys(Bom[p], key)) IN
         /\ TreeOK(hung, own)
         /\ \A u \in Assemblies : TreeOf(tree, own, u) => TreeOf(hung, own, u)
  <1> DEFINE kids == WithBomOccurrenceKeys(Bom[p], key)
             hung == SetNodeChildren(tree, key, kids)
  <1>1. CASE ~\E n \in tree : n.key = key
    <2>1. hung = tree
      BY <1>1 DEF SetNodeChildren
    <2> QED BY <2>1
  <1>2. CASE \E n \in tree : n.key = key
    <2>1. PICK m \in tree : m.key = key
      BY <1>2
    <2>2. m.part = p /\ p \in Assemblies /\ key \in RowKeys
      BY <2>1 DEF TreeOK, RowOK
    <2>3. hung = (tree \ Below(tree, key)) \cup kids
      BY <1>2 DEF SetNodeChildren
    <2>4. m \in hung
      BY <2>1, <2>3, NotStrictlyBelowItself DEF Below
    <2>5. \A n \in kids : \E i \in DOMAIN Bom[p] :
            /\ n.key = Append(key, <<i, Bom[p][i]>>) /\ n.part = Bom[p][i]
            /\ <<i, Bom[p][i]>> \in Nat \X Assemblies
      BY <2>2, Occurrences
    <2> HIDE DEF kids, hung
    <2>6. ASSUME NEW n \in kids
          PROVE  /\ RowOK(n.key, n.part) /\ Hangs(n, hung, own)
                 /\ \A t \in RowKeys : IsPrefix(t, key) => IsPrefix(t, n.key)
      <3>1. PICK i \in DOMAIN Bom[p] :
              /\ n.key = Append(key, <<i, Bom[p][i]>>) /\ n.part = Bom[p][i]
              /\ <<i, Bom[p][i]>> \in Nat \X Assemblies
        BY <2>5
      <3>2. /\ n.key \in RowKeys /\ Len(n.key) = Len(key) + 1 /\ Len(key) \in Nat
            /\ Last(n.key) = <<i, Bom[p][i]>> /\ Front(n.key) = key
            /\ \A t \in RowKeys : IsPrefix(t, key) => IsPrefix(t, n.key)
        BY <2>2, <3>1, KeyExtended DEF RowKeys
      <3>3. RowOK(n.key, n.part)
        BY <3>1, <3>2 DEF RowOK
      <3>4. Hangs(n, hung, own)
        BY <2>1, <2>2, <2>4, <3>1, <3>2 DEF Hangs
      <3> QED BY <3>2, <3>3, <3>4
    <2>7. ASSUME NEW n \in tree, n \notin Below(tree, key)
          PROVE  RowOK(n.key, n.part) /\ Hangs(n, hung, own)
      <3>1. RowOK(n.key, n.part) /\ Hangs(n, tree, own)
        BY DEF TreeOK
      <3>2. ASSUME NEW k \in tree, k.key = Front(n.key) PROVE k \in hung
        <4>1. CASE k \notin Below(tree, key)
          BY <2>3, <4>1
        <4>2. CASE k \in Below(tree, key)
          <5>1. IsStrictPrefix(key, Front(n.key)) /\ n.key \in RowKeys /\ Len(n.key) > 0
            BY <3>1, <3>2, <4>2 DEF Below, RowOK
          <5>2. IsStrictPrefix(key, n.key)
            BY <2>2, <5>1, BelowFront DEF RowKeys
          <5> QED BY <2>7, <5>2 DEF Below
        <4> QED BY <4>1, <4>2
      <3> QED BY <3>1, <3>2 DEF Hangs
    <2>8. TreeOK(hung, own)
      BY <2>3, <2>6, <2>7 DEF TreeOK
    <2>9. ASSUME NEW u \in Assemblies, TreeOf(tree, own, u) PROVE TreeOf(hung, own, u)
      <3>1. ASSUME NEW n \in kids PROVE \E t \in Roots(own, u) : IsPrefix(t.key, n.key)
        <4>1. PICK t \in Roots(own, u) : IsPrefix(t.key, key)
          BY <2>1, <2>9 DEF TreeOf
        <4>2. t.key \in RowKeys
          BY RootKeys
        <4> QED BY <2>6, <4>1, <4>2
      <3> QED BY <2>3, <2>9, <3>1 DEF TreeOf
    <2> QED BY <2>8, <2>9 DEF hung, kids
  <1> QED BY <1>1, <1>2

-------------------------------------------------------------------------------
(* One lemma per kind of step.                                             *)

LEMMA BomInitInv == BomInit => BomInv
  <1> SUFFICES ASSUME NEW own \in BOOLEAN, NEW u \in Assemblies,
                      page = BomStart(own, u), calls = BomCalls(own, u)
               PROVE  BomInv
    BY DEF BomInit
  <1>1. BomPageOK(page)
    BY DEF BomStart, BomPageOK, BomFields, TreeOK, TreeOf
  <1>2. page.own = own /\ page.url = u
    BY DEF BomStart
  <1>3. LoadOK(RootLoad(u), own, u)
    BY DEF LoadOK, RootLoad, Call, CallFields
  <1>4. own => LoadOK(WhereUsedLoad(u, 0), own, u)
    BY DEF LoadOK, WhereUsedLoad, Call, CallFields
  <1> DEFINE more == IF own THEN <<WhereUsedLoad(u, 0)>> ELSE <<>>
  <1>5. IsSequence(more) /\ Elems(more) = IF own THEN {WhereUsedLoad(u, 0)} ELSE {}
    BY Few
  <1>6. IsSequence(<<RootLoad(u)>>) /\ Elems(<<RootLoad(u)>>) = {RootLoad(u)}
    BY Few
  <1>7. calls = <<RootLoad(u)>> \o more
    BY DEF BomCalls
  <1> HIDE DEF more
  <1>8. IsSequence(calls) /\ Elems(calls) = {RootLoad(u)} \cup Elems(more)
    BY <1>5, <1>6, <1>7, Joined
  <1>9. Awaited(page) \subseteq Counting(calls)
    <2>1. Awaited(page) \subseteq {"root"} \cup (IF own THEN {"whereUsed"} ELSE {})
      BY DEF Awaited, BomStart
    <2>2. /\ RootLoad(u).op = "root" /\ ~RootLoad(u).args.canceled
          /\ WhereUsedLoad(u, 0).op = "whereUsed" /\ ~WhereUsedLoad(u, 0).args.canceled
      BY DEF RootLoad, WhereUsedLoad, Call
    <2>3. RootLoad(u) \in Elems(calls) /\ (own => WhereUsedLoad(u, 0) \in Elems(calls))
      BY <1>5, <1>8
    <2>4. "root" \in Counting(calls) /\ (own => "whereUsed" \in Counting(calls))
      BY <2>2, <2>3 DEF Counting
    <2> QED BY <2>1, <2>4
  <1> QED BY <1>1, <1>2, <1>3, <1>4, <1>5, <1>8, <1>9 DEF BomInv

\* Loads that are stopped ask nothing any more.
LEMMA StoppedOK ==
  ASSUME BomInv, NEW ops \in SUBSET {"root", "flat", "whereUsed"}, NEW u,
         u # page.url => ops = {"root", "flat", "whereUsed"}
  PROVE  /\ IsSequence(Stopped(calls, ops)) /\ \A c \in Elems(Stopped(calls, ops)) : LoadOK(c, page.own, u)
         /\ \A c \in Elems(calls) : c.op \notin ops => c \in Elems(Stopped(calls, ops))
  <1> DEFINE t == Stopped(calls, ops)
  <1>1. /\ DOMAIN t = DOMAIN calls /\ t = [i \in DOMAIN calls |-> t[i]]
        /\ \A i \in DOMAIN calls :
             t[i] = IF calls[i].op \in ops THEN [calls[i] EXCEPT !.args.canceled = TRUE] ELSE calls[i]
    BY DEF Stopped
  <1> HIDE DEF t
  <1>2. IsSequence(t) /\ Elems(t) = {t[i] : i \in DOMAIN calls}
    BY <1>1, Mapped DEF BomInv
  <1>3. ASSUME NEW i \in DOMAIN calls PROVE LoadOK(t[i], page.own, u)
    <2>1. LoadOK(calls[i], page.own, page.url)
      BY DEF BomInv, Elems
    <2>2. CASE calls[i].op \in ops
      <3>1. /\ DOMAIN t[i] = CallFields /\ t[i].op = calls[i].op /\ t[i].reply = calls[i].reply
            /\ t[i].args = [calls[i].args EXCEPT !.canceled = TRUE]
        BY <1>1, <2>1, <2>2 DEF LoadOK, CallFields
      <3>2. calls[i].op \in {"root", "flat", "whereUsed"}
        BY <2>2
      <3>3. /\ DOMAIN t[i].args = DOMAIN calls[i].args /\ t[i].args.canceled = TRUE
            /\ t[i].args.part = calls[i].args.part
            /\ t[i].op = "root" => t[i].args.step = calls[i].args.step
        BY <2>1, <3>1, <3>2 DEF LoadOK
      <3> QED BY <2>1, <3>1, <3>2, <3>3 DEF LoadOK
    <2>3. CASE calls[i].op \notin ops
      <3>1. u = page.url \/ calls[i].op \notin {"root", "flat", "whereUsed"}
        BY <2>3
      <3> QED BY <1>1, <2>1, <2>3, <3>1 DEF LoadOK
    <2> QED BY <2>2, <2>3
  <1>4. \A c \in Elems(calls) : c.op \notin ops => c \in Elems(t)
    BY <1>1, <1>2 DEF Elems
  <1> QED BY <1>2, <1>3, <1>4 DEF t

\* What differs in the page before the effects run.
Turned(q) ==
  /\ DOMAIN q = BomFields /\ q.url \in Assemblies
  /\ q.at = page.at /\ q.own = page.own /\ q.nodes = page.nodes /\ q.treeLoading = page.treeLoading
  /\ q.flatRows = page.flatRows /\ q.flatLoading = page.flatLoading /\ q.whereUsed = page.whereUsed
  /\ q.whereUsedLoading = page.whereUsedLoading /\ q.stray = page.stray /\ q.outage = page.outage
  /\ q.flatLeft = page.flatLeft

LEMMA BomRenderInv ==
  ASSUME BomInv, NEW STATE q, Turned(q), BomRender(q)
  PROVE  BomInv'
  <1> DEFINE reload == BomReloads(q)
             flat == FlatReloads(q) /\ q.mode = "flat"
             used == q.own /\ WhereUsedReloads(q)
             ops == (IF reload THEN {"root"} ELSE {}) \cup (IF FlatReloads(q) THEN {"flat"} ELSE {})
                      \cup (IF WhereUsedReloads(q) THEN {"whereUsed"} ELSE {})
             r == [q EXCEPT !.flatLoading = @ \/ flat, !.whereUsedLoading = @ \/ used,
                            !.flatLeft = q.mode # "flat" /\ (@ \/ (page.mode = "flat" /\ page.flatLoading)),
                            !.flatRows = IF page.url = q.url THEN @ ELSE <<>>]
             A == IF reload THEN <<RootLoad(q.url)>> ELSE <<>>
             B == IF flat THEN <<FlatLoad(q.url)>> ELSE <<>>
             C == IF used THEN <<WhereUsedLoad(q.url, q.first)>> ELSE <<>>
             p == IF reload THEN [Cleared(r) EXCEPT !.treeLoading = TRUE] ELSE r
  <1>1. page' = p /\ calls' = Stopped(calls, ops) \o A \o B \o C
    BY DEF BomRender, Show
  <1>2. q.url # page.url => reload /\ FlatReloads(q) /\ WhereUsedReloads(q)
    BY DEF BomReloads, FlatReloads, WhereUsedReloads
  <1>3. reload \in BOOLEAN /\ flat \in BOOLEAN /\ used \in BOOLEAN /\ (used => q.own) /\ page.own \in BOOLEAN
    BY DEF BomReloads, FlatReloads, WhereUsedReloads, BomInv, BomPageOK, Turned
  <1>4. /\ DOMAIN r = BomFields /\ r.at = q.at /\ r.own = q.own /\ r.url = q.url /\ r.nodes = q.nodes
        /\ r.treeLoading = q.treeLoading /\ r.stray = q.stray /\ r.outage = q.outage /\ r.whereUsed = q.whereUsed
        /\ r.mode = q.mode
        /\ r.flatLeft = (q.mode # "flat" /\ (q.flatLeft \/ (page.mode = "flat" /\ page.flatLoading)))
        /\ r.flatLoading = (q.flatLoading \/ flat) /\ r.whereUsedLoading = (q.whereUsedLoading \/ used)
        /\ r.flatRows = IF page.url = q.url THEN q.flatRows ELSE <<>>
    BY DEF Turned, BomFields
  <1>5. /\ ops \in SUBSET {"root", "flat", "whereUsed"}
        /\ q.url # page.url => ops = {"root", "flat", "whereUsed"}
        /\ "root" \in ops => reload
        /\ "flat" \in ops => FlatReloads(q)
        /\ "whereUsed" \in ops => WhereUsedReloads(q)
    BY <1>2
  <1>6. q.url # page.url /\ q.own => used
    BY <1>2
  <1> HIDE DEF r, ops
  <1>7. /\ DOMAIN p = BomFields /\ p.at = q.at /\ p.own = q.own /\ p.url = q.url
        /\ p.nodes = (IF reload /\ q.own THEN {} ELSE q.nodes) /\ p.mode = q.mode
        /\ p.treeLoading = (reload \/ q.treeLoading) /\ p.stray = q.stray /\ p.outage = q.outage
        /\ p.whereUsed = q.whereUsed
        /\ p.flatLeft = (q.mode # "flat" /\ (q.flatLeft \/ (page.mode = "flat" /\ page.flatLoading)))
        /\ p.flatLoading = (q.flatLoading \/ flat) /\ p.whereUsedLoading = (q.whereUsedLoading \/ used)
        /\ p.flatRows = IF page.url = q.url THEN q.flatRows ELSE <<>>
    <2>1. page.treeLoading \in BOOLEAN
      BY DEF BomInv, BomPageOK
    <2>2. CASE ~reload
      BY <1>4, <2>1, <2>2 DEF Turned
    <2>3. CASE reload /\ q.own
      BY <1>4, <2>3 DEF Cleared, BomFields
    <2>4. CASE reload /\ ~q.own
      BY <1>4, <2>4 DEF Cleared, BomFields
    <2> QED BY <2>2, <2>3, <2>4
  <1>8. /\ IsSequence(A) /\ IsSequence(B) /\ IsSequence(C)
        /\ Elems(A) = (IF reload THEN {RootLoad(q.url)} ELSE {})
        /\ Elems(B) = (IF flat THEN {FlatLoad(q.url)} ELSE {})
        /\ Elems(C) = (IF used THEN {WhereUsedLoad(q.url, q.first)} ELSE {})
    BY Few
  <1>9. /\ IsSequence(Stopped(calls, ops)) /\ \A c \in Elems(Stopped(calls, ops)) : LoadOK(c, page.own, q.url)
        /\ \A c \in Elems(calls) : c.op \notin ops => c \in Elems(Stopped(calls, ops))
    BY <1>5, StoppedOK
  <1>10. page'.own = page.own /\ page'.url = q.url
    BY <1>1, <1>7 DEF Turned
  <1>11. BomPageOK(page')
    <2>1. BomPageOK(page)
      BY DEF BomInv
    <2>2. TreeOK(p.nodes, p.own)
      BY <1>7, <2>1 DEF BomPageOK, Turned, TreeOK
    <2>3. p.own \/ (~p.treeLoading /\ ~p.stray) => TreeOf(p.nodes, p.own, p.url)
      <3>1. CASE reload
        BY <1>3, <1>7, <3>1 DEF TreeOf, Turned
      <3>2. CASE ~reload
        BY <1>2, <1>7, <2>1, <3>2 DEF BomPageOK, Turned
      <3> QED BY <3>1, <3>2
    <2>4. p.flatRows \in {<<>>, <<p.url>>}
      BY <1>7, <2>1 DEF BomPageOK, Turned
    <2>5. ~p.whereUsedLoading /\ ~p.outage => p.whereUsed \subseteq Parents(p.url)
      <3>1. CASE q.url = page.url
        BY <1>7, <2>1, <3>1 DEF BomPageOK, Turned
      <3>2. CASE q.url # page.url
        BY <1>6, <1>7, <2>1, <3>2 DEF BomPageOK, Turned
      <3> QED BY <3>1, <3>2
    <2>6. p.treeLoading \in BOOLEAN /\ p.flatLoading \in BOOLEAN /\ p.whereUsedLoading \in BOOLEAN
      <3>1. q.treeLoading \in BOOLEAN /\ q.flatLoading \in BOOLEAN /\ q.whereUsedLoading \in BOOLEAN
        BY <2>1 DEF BomPageOK, Turned
      <3> HIDE DEF p, reload, flat, used
      <3> QED BY <1>3, <1>7, <3>1
    <2> HIDE DEF p
    <2>9. p.flatLeft \in BOOLEAN /\ (p.flatLoading /\ ~p.flatLeft => p.mode = "flat")
      <3>1. /\ q.flatLoading = page.flatLoading /\ q.flatLeft = page.flatLeft /\ page.flatLeft \in BOOLEAN
            /\ page.flatLoading \in BOOLEAN /\ (page.flatLoading /\ ~page.flatLeft => page.mode = "flat")
            /\ (q.mode # "flat" => ~flat)
        BY <2>1 DEF BomPageOK, Turned
      <3> HIDE DEF flat, reload, used
      <3>2. CASE q.mode = "flat"
        BY <1>7, <3>2
      <3>3. CASE q.mode # "flat"
        <4>1. p.flatLoading = page.flatLoading
          BY <1>7, <3>1, <3>3
        <4>2. p.flatLeft = (page.flatLeft \/ (page.mode = "flat" /\ page.flatLoading))
          BY <1>7, <3>1, <3>3
        <4> QED BY <3>1, <4>1, <4>2
      <3> QED BY <3>2, <3>3
    <2>8. ~p.own => p.whereUsed = {} /\ ~p.whereUsedLoading
      <3> HIDE DEF reload, flat, used
      <3> QED BY <1>3, <1>7, <2>1 DEF BomPageOK, Turned
    <2>7. BomPageOK(p)
      BY <1>7, <2>1, <2>2, <2>3, <2>4, <2>5, <2>6, <2>8, <2>9 DEF BomPageOK, Turned
    <2> QED BY <1>1, <2>7
  <1>12. /\ LoadOK(RootLoad(q.url), page.own, q.url) /\ LoadOK(FlatLoad(q.url), page.own, q.url)
         /\ used => LoadOK(WhereUsedLoad(q.url, q.first), page.own, q.url)
    <2>1. LoadOK(RootLoad(q.url), page.own, q.url)
      BY DEF LoadOK, RootLoad, Call, CallFields, Turned
    <2>2. LoadOK(FlatLoad(q.url), page.own, q.url)
      BY DEF LoadOK, FlatLoad, Call, CallFields, Turned
    <2>3. used => LoadOK(WhereUsedLoad(q.url, q.first), page.own, q.url)
      BY <1>3 DEF LoadOK, WhereUsedLoad, Call, CallFields, Turned
    <2> QED BY <2>1, <2>2, <2>3
  <1> DEFINE stopped == Stopped(calls, ops)
  <1>13. IsSequence(stopped)
    BY <1>9
  <1> HIDE DEF A, B, C, stopped, p
  <1>14. IsSequence(stopped \o A) /\ Elems(stopped \o A) = Elems(stopped) \cup Elems(A)
    BY <1>8, <1>13, Joined
  <1>15. IsSequence(stopped \o A \o B) /\ Elems(stopped \o A \o B) = Elems(stopped) \cup Elems(A) \cup Elems(B)
    BY <1>8, <1>14, Joined
  <1>16. /\ IsSequence(stopped \o A \o B \o C)
         /\ Elems(stopped \o A \o B \o C) = Elems(stopped) \cup Elems(A) \cup Elems(B) \cup Elems(C)
    BY <1>8, <1>15, Joined
  <1>17. calls' = stopped \o A \o B \o C
    BY <1>1 DEF stopped
  <1>18. \A c \in Elems(stopped) : LoadOK(c, page.own, q.url)
    BY <1>9 DEF stopped
  <1>19. \A c \in Elems(calls') : LoadOK(c, page.own, q.url)
    <2> HIDE DEF reload, flat, used
    <2> QED BY <1>8, <1>12, <1>16, <1>17, <1>18
  <1>20. Awaited(page') \subseteq Counting(calls')
    <2>1. Awaited(page) \subseteq Counting(calls) /\ page.own \in BOOLEAN /\ (~page.own => ~page.whereUsedLoading)
      BY DEF BomInv, BomPageOK
    <2>2. ASSUME NEW op \in Awaited(page), op \notin ops PROVE op \in Counting(calls')
      <3>1. PICK c \in Elems(calls) : c.op = op /\ ~c.args.canceled
        BY <2>1 DEF Counting
      <3>2. c \in Elems(stopped)
        BY <1>9, <2>2, <3>1 DEF stopped
      <3>3. op \in {"root", "flat", "whereUsed"}
        BY DEF Awaited
      <3> QED BY <1>16, <1>17, <3>1, <3>2, <3>3 DEF Counting
    <2>3. /\ reload => "root" \in Counting(calls')
          /\ flat => "flat" \in Counting(calls')
          /\ used => "whereUsed" \in Counting(calls')
      <3> HIDE DEF reload, flat, used
      <3>1. reload => RootLoad(q.url) \in Elems(calls')
        BY <1>8, <1>16, <1>17
      <3>2. flat => FlatLoad(q.url) \in Elems(calls')
        BY <1>8, <1>16, <1>17
      <3>3. used => WhereUsedLoad(q.url, q.first) \in Elems(calls')
        BY <1>8, <1>16, <1>17
      <3>4. /\ RootLoad(q.url).op = "root" /\ ~RootLoad(q.url).args.canceled
            /\ FlatLoad(q.url).op = "flat" /\ ~FlatLoad(q.url).args.canceled
            /\ WhereUsedLoad(q.url, q.first).op = "whereUsed" /\ ~WhereUsedLoad(q.url, q.first).args.canceled
        BY DEF RootLoad, FlatLoad, WhereUsedLoad, Call
      <3> QED BY <3>1, <3>2, <3>3, <3>4 DEF Counting
    <2>4. page' = p
      BY <1>1 DEF p
    <2>5. "root" \in Awaited(page') => "root" \in Counting(calls')
      <3>1. CASE reload
        BY <2>3, <3>1
      <3>2. CASE ~reload
        <4>1. "root" \in Awaited(page') => "root" \in Awaited(page)
          BY <1>7, <2>4, <3>2 DEF Awaited, Turned
        <4> QED BY <1>5, <2>2, <3>2, <4>1
      <3> QED BY <3>1, <3>2
    <2>6. "flat" \in Awaited(page') => "flat" \in Counting(calls')
      <3>1. CASE FlatReloads(q)
        <4>1. "flat" \in Awaited(page') => flat
          BY <1>7, <2>4, <3>1 DEF Awaited
        <4> QED BY <2>3, <4>1
      <3>2. CASE ~FlatReloads(q)
        <4>1. "flat" \in Awaited(page') => "flat" \in Awaited(page)
          BY <1>7, <2>4, <3>2 DEF Awaited, Turned, FlatReloads
        <4> QED BY <1>5, <2>2, <3>2, <4>1
      <3> QED BY <3>1, <3>2
    <2>7. "whereUsed" \in Awaited(page') => "whereUsed" \in Counting(calls')
      <3>1. CASE used
        BY <2>3, <3>1
      <3>2. CASE ~used
        <4>1. "whereUsed" \in Awaited(page') => "whereUsed" \in Awaited(page) /\ page.own
          BY <1>7, <2>1, <2>4, <3>2 DEF Awaited, Turned
        <4>2. page.own => "whereUsed" \notin ops
          BY <1>5, <3>2 DEF Turned
        <4> QED BY <2>2, <4>1, <4>2
      <3> QED BY <3>1, <3>2
    <2> QED BY <2>5, <2>6, <2>7 DEF Awaited
  <1> QED BY <1>10, <1>11, <1>16, <1>17, <1>19, <1>20 DEF BomInv

LEMMA BomTurnInv ==
  ASSUME BomInv,
         \/ \E p \in Assemblies : GoTo(p)
         \/ RefreshBom
         \/ \E m \in {"tree", "flat"} : SetBomMode(m)
         \/ \E n \in {0, 1} : WhereUsedPage(n)
  PROVE  BomInv'
  <1>0. DOMAIN page = BomFields /\ page.url \in Assemblies
    BY DEF BomInv, BomPageOK
  <1>1. ASSUME NEW p \in Assemblies, GoTo(p) PROVE BomInv'
    <2>1. Turned([page EXCEPT !.url = p])
      BY <1>0 DEF Turned, BomFields
    <2> QED BY <1>1, <2>1, BomRenderInv DEF GoTo
  <1>2. CASE RefreshBom
    <2>1. Turned([page EXCEPT !.tick = ~@])
      BY <1>0 DEF Turned, BomFields
    <2> QED BY <1>2, <2>1, BomRenderInv DEF RefreshBom
  <1>3. ASSUME NEW m, SetBomMode(m) PROVE BomInv'
    <2>1. Turned([page EXCEPT !.mode = m])
      BY <1>0 DEF Turned, BomFields
    <2> QED BY <1>3, <2>1, BomRenderInv DEF SetBomMode
  <1>4. ASSUME NEW n, WhereUsedPage(n) PROVE BomInv'
    <2>1. Turned([page EXCEPT !.first = n])
      BY <1>0 DEF Turned, BomFields
    <2> QED BY <1>4, <2>1, BomRenderInv DEF WhereUsedPage
  <1> QED BY <1>1, <1>2, <1>3, <1>4

LEMMA SequenceOfSet ==
  ASSUME NEW S, IsFiniteSet(S)
  PROVE  \A k \in DOMAIN SetToSeq(S) : SetToSeq(S)[k] \in S
  <1>1. \E f \in [1 .. Cardinality(S) -> S] : IsInjective(f)
    BY FS_CardinalityType DEF ExistsBijection, Bijection, Injection
  <1>2. SetToSeq(S) \in [1 .. Cardinality(S) -> S]
    BY <1>1 DEF SetToSeq
  <1> QED BY <1>2

LEMMA BomRepliedInv ==
  ASSUME BomInv, NEW i \in DOMAIN calls, NEW STATE r, Reply(i, r), UNCHANGED page,
         \A c : /\ LoadOK(calls[i], page.own, page.url)
                /\ DOMAIN c = CallFields /\ c.op = calls[i].op /\ c.args = calls[i].args /\ c.reply = r
                => LoadOK(c, page.own, page.url)
  PROVE  BomInv'
  <1>1. LoadOK(calls[i], page.own, page.url)
    BY DEF BomInv, Elems
  <1>2. PICK c : /\ DOMAIN c = CallFields /\ c.op = calls[i].op /\ c.args = calls[i].args /\ c.reply = r
                 /\ IsSequence(calls') /\ Elems(calls') \subseteq Elems(calls) \cup {c}
                 /\ c \in Elems(calls') /\ Elems(calls) \subseteq Elems(calls') \cup {calls[i]}
    BY <1>1, Answered DEF BomInv, LoadOK
  <1>3. LoadOK(c, page.own, page.url)
    BY <1>1, <1>2
  <1>4. Counting(calls) \subseteq Counting(calls')
    BY <1>2 DEF Counting
  <1> QED BY <1>2, <1>3, <1>4 DEF BomInv

LEMMA ServeBomInv ==
  ASSUME BomInv, ServeBom \/ Lose
  PROVE  BomInv'
  <1>1. CASE Lose
    <2>1. PICK i \in DOMAIN calls : Reply(i, Failure) /\ UNCHANGED page
      BY <1>1 DEF Lose
    <2>2. \A c : /\ LoadOK(calls[i], page.own, page.url)
                 /\ DOMAIN c = CallFields /\ c.op = calls[i].op /\ c.args = calls[i].args /\ c.reply = Failure
                 => LoadOK(c, page.own, page.url)
      BY DEF LoadOK
    <2> QED BY <2>1, <2>2, BomRepliedInv
  <1>2. CASE Serve("root", LAMBDA a : IF a.step = 1 THEN <<a.part>> ELSE Bom[a.part])
    <2> DEFINE r(i) == IF calls[i].args.step = 1 THEN <<calls[i].args.part>> ELSE Bom[calls[i].args.part]
    <2>1. PICK i \in DOMAIN calls : Reply(i, r(i)) /\ UNCHANGED page /\ calls[i].op = "root"
      BY <1>2 DEF Serve, IsAsked
    <2>2. \A c : /\ LoadOK(calls[i], page.own, page.url)
                 /\ DOMAIN c = CallFields /\ c.op = calls[i].op /\ c.args = calls[i].args /\ c.reply = r(i)
                 => LoadOK(c, page.own, page.url)
      BY <2>1 DEF LoadOK
    <2> QED BY <2>1, <2>2, BomRepliedInv
  <1>3. CASE Serve("branch", LAMBDA a : Bom[a.part]) \/ Serve("all", LAMBDA a : Bom[a.part])
    <2>1. PICK i \in DOMAIN calls :
            Reply(i, Bom[calls[i].args.part]) /\ UNCHANGED page /\ calls[i].op \in {"branch", "all"}
      BY <1>3 DEF Serve, IsAsked
    <2>2. \A c : /\ LoadOK(calls[i], page.own, page.url)
                 /\ DOMAIN c = CallFields /\ c.op = calls[i].op /\ c.args = calls[i].args
                 /\ c.reply = Bom[calls[i].args.part]
                 => LoadOK(c, page.own, page.url)
      BY <2>1 DEF LoadOK
    <2> QED BY <2>1, <2>2, BomRepliedInv
  <1>4. CASE Serve("flat", LAMBDA a : <<a.part>>)
    <2>1. PICK i \in DOMAIN calls :
            Reply(i, <<calls[i].args.part>>) /\ UNCHANGED page /\ calls[i].op = "flat"
      BY <1>4 DEF Serve, IsAsked
    <2>2. \A c : /\ LoadOK(calls[i], page.own, page.url)
                 /\ DOMAIN c = CallFields /\ c.op = calls[i].op /\ c.args = calls[i].args
                 /\ c.reply = <<calls[i].args.part>>
                 => LoadOK(c, page.own, page.url)
      BY <2>1 DEF LoadOK
    <2> QED BY <2>1, <2>2, BomRepliedInv
  <1>5. CASE Serve("whereUsed", LAMBDA a :
               LET sorted == SetToSeq(Parents(a.part)) IN
               {sorted[k] : k \in (a.first + 1 .. a.first + server.rows) \cap DOMAIN sorted})
    <2> DEFINE sorted(i) == SetToSeq(Parents(calls[i].args.part))
               r(i) == {sorted(i)[k] : k \in (calls[i].args.first + 1 .. calls[i].args.first + server.rows)
                                               \cap DOMAIN sorted(i)}
    <2>1. PICK i \in DOMAIN calls : Reply(i, r(i)) /\ UNCHANGED page /\ calls[i].op = "whereUsed"
      BY <1>5 DEF Serve, IsAsked
    <2>2. IsFiniteSet(Parents(calls[i].args.part))
      BY BomAssumption, FS_Subset DEF Parents
    <2>3. r(i) \subseteq Parents(calls[i].args.part)
      BY <2>2, SequenceOfSet
    <2>4. \A c : /\ LoadOK(calls[i], page.own, page.url)
                 /\ DOMAIN c = CallFields /\ c.op = calls[i].op /\ c.args = calls[i].args /\ c.reply = r(i)
                 => LoadOK(c, page.own, page.url)
      <3> HIDE DEF r
      <3> QED BY <2>1, <2>3 DEF LoadOK
    <2> QED BY <2>1, <2>4, BomRepliedInv
  <1> QED BY <1>1, <1>2, <1>3, <1>4, <1>5 DEF ServeBom

\* An answer is taken, and at most one request follows it.
LEMMA BomTakenInv ==
  ASSUME BomInv, NEW i \in DOMAIN calls, BomPageOK(page'), page'.own = page.own, page'.url = page.url,
         \/ calls' = Others(i)
         \/ calls' = Others(i) \o <<>>
         \/ \E c : calls' = Others(i) \o <<c>> /\ LoadOK(c, page.own, page.url),
         Awaited(page') \subseteq Awaited(page),
         \/ calls[i].op \notin Awaited(page') \/ ~Taken(i)
         \/ \E c : calls' = Others(i) \o <<c>> /\ c.op = calls[i].op /\ ~c.args.canceled
  PROVE  BomInv'
  <1>1. /\ IsSequence(Others(i)) /\ \A c \in Elems(Others(i)) : LoadOK(c, page.own, page.url)
        /\ Elems(calls) \subseteq Elems(Others(i)) \cup {calls[i]}
    BY Remaining DEF BomInv
  <1>4. Elems(Others(i)) \subseteq Elems(calls') => Awaited(page') \subseteq Counting(calls')
    <2> SUFFICES ASSUME Elems(Others(i)) \subseteq Elems(calls'), NEW op \in Awaited(page')
                 PROVE  op \in Counting(calls')
      OBVIOUS
    <2>1. PICK c \in Elems(calls) : c.op = op /\ ~c.args.canceled
      BY DEF BomInv, Counting
    <2>2. op \in {"root", "flat", "whereUsed"}
      BY DEF Awaited
    <2>3. CASE c = calls[i]
      <3>1. PICK d : calls' = Others(i) \o <<d>> /\ d.op = op /\ ~d.args.canceled
        BY <2>1, <2>3 DEF Taken
      <3>2. d \in Elems(calls')
        BY <1>1, <3>1, Few, Joined
      <3> QED BY <2>2, <3>1, <3>2 DEF Counting
    <2>4. CASE c # calls[i]
      BY <1>1, <2>1, <2>2, <2>4 DEF Counting
    <2> QED BY <2>3, <2>4
  <1>2. CASE calls' = Others(i) \/ calls' = Others(i) \o <<>>
    <2>1. IsSequence(calls') /\ Elems(calls') = Elems(Others(i))
      BY <1>1, <1>2, Few, Joined
    <2> QED BY <1>1, <1>4, <2>1 DEF BomInv
  <1>3. ASSUME NEW c, calls' = Others(i) \o <<c>>, LoadOK(c, page.own, page.url) PROVE BomInv'
    <2>1. IsSequence(calls') /\ Elems(calls') = Elems(Others(i)) \cup {c}
      BY <1>1, <1>3, Few, Joined
    <2> QED BY <1>1, <1>3, <1>4, <2>1 DEF BomInv
  <1> QED BY <1>2, <1>3

\* The rows a tree begins with are a tree, of the part.
LEMMA RootsAreATree ==
  ASSUME NEW own \in BOOLEAN, NEW u \in Assemblies
  PROVE  TreeOK(Roots(own, u), own) /\ TreeOf(Roots(own, u), own, u)
  <1>0. <<1, u>> \in Nat \X Assemblies /\ <<>> \in RowKeys /\ Len(<<>>) = 0
    BY DEF RowKeys
  <1>1. ASSUME NEW n \in Roots(own, u)
        PROVE  RowOK(n.key, n.part) /\ Len(n.key) = (IF own THEN 1 ELSE 2)
    <2>1. CASE own
      <3>1. n.key = Append(<<>>, <<1, u>>) /\ n.part = u
        <4>1. PICK i \in DOMAIN <<u>> : n = [key |-> Append(<<>>, Segment(i, <<u>>[i])), part |-> <<u>>[i]]
          BY <2>1 DEF Roots, RootNodes, WithBomOccurrenceKeys
        <4>2. i = 1 /\ <<u>>[i] = u
          OBVIOUS
        <4> QED BY <4>1, <4>2 DEF Segment
      <3>2. Append(<<>>, <<1, u>>) = <<<<1, u>>>> /\ <<<<1, u>>>> \in RowKeys /\ Len(<<<<1, u>>>>) = 1
            /\ <<<<1, u>>>>[1] = <<1, u>>
        BY <1>0 DEF RowKeys
      <3>3. n.key \in RowKeys /\ Len(n.key) = 1 /\ Last(n.key) = <<1, u>>
        BY <3>1, <3>2 DEF Last
      <3> QED BY <2>1, <3>1, <3>3 DEF RowOK
    <2>2. CASE ~own
      <3>1. Append(<<>>, <<1, u>>) = <<<<1, u>>>> /\ <<<<1, u>>>> \in RowKeys /\ Len(<<<<1, u>>>>) = 1
        BY <1>0 DEF RowKeys
      <3>2. n \in WithBomOccurrenceKeys(Bom[u], <<<<1, u>>>>)
        BY <2>2 DEF Roots, TopNodes, Segment
      <3>3. PICK i \in DOMAIN Bom[u] :
              /\ n.key = Append(<<<<1, u>>>>, <<i, Bom[u][i]>>) /\ n.part = Bom[u][i]
              /\ <<i, Bom[u][i]>> \in Nat \X Assemblies
        BY <3>1, <3>2, Occurrences
      <3> DEFINE top == <<<<1, u>>>>
                 x == <<i, Bom[u][i]>>
      <3>4. top \in RowKeys /\ Len(top) = 1 /\ x \in Nat \X Assemblies /\ n.key = Append(top, x)
        BY <3>1, <3>3
      <3>5. x[2] = n.part
        BY <3>3
      <3> HIDE DEF top, x
      <3>6. Append(top, x) \in RowKeys /\ Len(Append(top, x)) = Len(top) + 1 /\ Last(Append(top, x)) = x
        BY <3>4, KeyExtended DEF RowKeys
      <3>7. n.key \in RowKeys /\ Len(n.key) = 2 /\ Last(n.key) = x
        BY <3>4, <3>6
      <3>8. n.part \in Assemblies
        BY <3>3
      <3> QED BY <2>2, <3>5, <3>7, <3>8 DEF RowOK
    <2> QED BY <2>1, <2>2
  <1>2. TreeOK(Roots(own, u), own)
    BY <1>1 DEF TreeOK, Hangs
  <1>3. ASSUME NEW n \in Roots(own, u) PROVE IsPrefix(n.key, n.key)
    <2>1. n.key \in RowKeys /\ Len(n.key) \in Nat
      BY RootKeys, LenProperties DEF RowKeys
    <2> QED BY <2>1, PrefixIs DEF RowKeys
  <1> QED BY <1>2, <1>3 DEF TreeOf

\* A load of the tree ends with the rows of the part in the address.
LEMMA RootAnswerInv ==
  ASSUME BomInv, RootAnswer
  PROVE  BomInv'
  <1> DEFINE q == [page EXCEPT !.treeLoading = FALSE, !.stray = FALSE]
             shown(i) == IF ~Taken(i) \/ More(i) # <<>> THEN page
                         ELSE CASE Failed(i) -> [q EXCEPT !.nodes = {}, !.expanded = IF q.own THEN @ ELSE {}]
                                [] ~Failed(i) /\ page.own -> [q EXCEPT !.nodes = RootNodes(q.url, calls[i].reply)]
                                [] ~Failed(i) /\ ~page.own ->
                                     [q EXCEPT !.nodes = TopNodes(q.url, calls[i].reply), !.expanded = {}]
  <1>1. PICK i \in DOMAIN calls :
          /\ IsAnswered(i, "root") /\ page' = shown(i) /\ calls' = Others(i) \o More(i)
    BY DEF RootAnswer, Answer, Show, TakeAndSend
  <1>2. /\ BomPageOK(page) /\ LoadOK(calls[i], page.own, page.url)
        /\ calls[i].op = "root" /\ calls[i].reply # Absent /\ page.own \in BOOLEAN /\ page.url \in Assemblies
    BY <1>1 DEF BomInv, Elems, IsAnswered, BomPageOK
  <1>3. CASE More(i) # <<>>
    <2> DEFINE c == [calls[i] EXCEPT !.args.step = 2, !.reply = Absent]
    <2>1. More(i) = <<c>> /\ ~page.own /\ page' = page
      BY <1>1, <1>3 DEF More
    <2>2. DOMAIN calls[i].args = {"part", "step", "canceled"} /\ DOMAIN calls[i] = CallFields
      BY <1>2 DEF LoadOK
    <2>3. DOMAIN c = CallFields /\ c.op = "root" /\ c.reply = Absent
          /\ c.args = [calls[i].args EXCEPT !.step = 2]
      BY <1>2, <2>2 DEF CallFields
    <2> HIDE DEF c
    <2>4. /\ DOMAIN c.args = DOMAIN calls[i].args /\ c.args.step = 2
          /\ c.args.part = calls[i].args.part /\ c.args.canceled = calls[i].args.canceled
      BY <2>2, <2>3
    <2>5. LoadOK(c, page.own, page.url)
      BY <1>2, <2>1, <2>3, <2>4 DEF LoadOK
    <2>6. ~c.args.canceled
      BY <1>3, <2>4 DEF More, Taken
    <2> QED BY <1>1, <1>2, <2>1, <2>3, <2>5, <2>6, BomTakenInv
  <1>4. CASE More(i) = <<>> /\ ~Taken(i)
    BY <1>1, <1>2, <1>4, BomTakenInv
  <1>5. CASE More(i) = <<>> /\ Taken(i)
    <2>1. /\ DOMAIN q = BomFields /\ q.at = page.at /\ q.own = page.own /\ q.url = page.url
          /\ q.treeLoading = FALSE /\ q.stray = FALSE /\ q.flatRows = page.flatRows
          /\ q.flatLoading = page.flatLoading /\ q.whereUsed = page.whereUsed /\ q.outage = page.outage
          /\ q.whereUsedLoading = page.whereUsedLoading /\ q.mode = page.mode /\ q.flatLeft = page.flatLeft
      BY <1>2 DEF BomPageOK, BomFields
    <2>2. calls[i].args.part = page.url
      BY <1>2, <1>5 DEF LoadOK, Taken
    <2>3. PICK nodes, expanded :
            /\ page' = [q EXCEPT !.nodes = nodes, !.expanded = expanded]
            /\ nodes = {} \/ nodes = Roots(page.own, page.url)
      <3>1. page' = CASE Failed(i) -> [q EXCEPT !.nodes = {}, !.expanded = IF q.own THEN @ ELSE {}]
                      [] ~Failed(i) /\ page.own -> [q EXCEPT !.nodes = RootNodes(q.url, calls[i].reply)]
                      [] ~Failed(i) /\ ~page.own ->
                           [q EXCEPT !.nodes = TopNodes(q.url, calls[i].reply), !.expanded = {}]
        BY <1>1, <1>5
      <3> HIDE DEF q
      <3>2. CASE Failed(i)
        <4>1. page' = [q EXCEPT !.nodes = {}, !.expanded = IF q.own THEN q.expanded ELSE {}]
          BY <3>1, <3>2
        <4> QED BY <4>1
      <3>3. CASE ~Failed(i) /\ page.own
        <4>1. page' = [q EXCEPT !.nodes = RootNodes(q.url, calls[i].reply)]
          BY <3>1, <3>3
        <4>2. page' = [q EXCEPT !.nodes = RootNodes(q.url, calls[i].reply), !.expanded = q.expanded]
          BY <2>1, <4>1 DEF BomFields
        <4>3. calls[i].reply = <<page.url>>
          BY <1>2, <2>2, <3>3 DEF LoadOK, Failed
        <4> QED BY <2>1, <3>3, <4>2, <4>3 DEF Roots
      <3>4. CASE ~Failed(i) /\ ~page.own
        <4>1. page' = [q EXCEPT !.nodes = TopNodes(q.url, calls[i].reply), !.expanded = {}]
          BY <3>1, <3>4
        <4>2. calls[i].args.step # 1
          BY <1>5, <3>4 DEF More
        <4>3. calls[i].reply = Bom[page.url]
          BY <1>2, <2>2, <3>4, <4>2 DEF LoadOK, Failed
        <4> QED BY <2>1, <3>4, <4>1, <4>3 DEF Roots
      <3> QED BY <3>2, <3>3, <3>4
    <2> HIDE DEF q
    <2>4. /\ DOMAIN page' = BomFields /\ page'.at = page.at /\ page'.own = page.own /\ page'.url = page.url
          /\ page'.treeLoading = FALSE /\ page'.stray = FALSE /\ page'.flatRows = page.flatRows
          /\ page'.flatLoading = page.flatLoading /\ page'.whereUsed = page.whereUsed
          /\ page'.outage = page.outage /\ page'.whereUsedLoading = page.whereUsedLoading /\ page'.nodes = nodes
          /\ page'.mode = page.mode /\ page'.flatLeft = page.flatLeft
      BY <2>1, <2>3 DEF BomFields
    <2>5. TreeOK(nodes, page.own) /\ TreeOf(nodes, page.own, page.url)
      BY <1>2, <2>3, RootsAreATree DEF TreeOK, TreeOf
    <2>6. BomPageOK(page')
      BY <1>2, <2>4, <2>5 DEF BomPageOK
    <2>7. Awaited(page') \subseteq Awaited(page) /\ "root" \notin Awaited(page')
      BY <2>4 DEF Awaited
    <2> QED BY <1>1, <1>2, <1>5, <2>4, <2>6, <2>7, BomTakenInv
  <1> QED BY <1>3, <1>4, <1>5

\* What an answer changes beside the tree.
LEMMA AsideOK ==
  ASSUME BomPageOK(page), NEW q, DOMAIN q = BomFields, q.at = page.at, q.own = page.own, q.url = page.url,
         q.nodes = page.nodes, q.treeLoading = page.treeLoading, q.stray = page.stray,
         q.mode = page.mode, q.flatLeft = page.flatLeft, q.flatLoading \in {page.flatLoading, FALSE},
         q.whereUsedLoading \in BOOLEAN, q.outage \in BOOLEAN,
         q.flatRows \in {<<>>, <<page.url>>},
         ~q.whereUsedLoading /\ ~q.outage => q.whereUsed \subseteq Parents(page.url),
         ~page.own => q.whereUsed = {} /\ ~q.whereUsedLoading
  PROVE  BomPageOK(q)
  BY DEF BomPageOK

LEMMA FlatAnswerInv ==
  ASSUME BomInv, FlatAnswer
  PROVE  BomInv'
  <1>1. PICK i \in DOMAIN calls :
          /\ IsAnswered(i, "flat") /\ calls' = Others(i) \o <<>>
          /\ page' = IF ~Taken(i) THEN page
                     ELSE [page EXCEPT !.flatLoading = FALSE,
                                       !.flatRows = IF Failed(i) THEN <<>> ELSE calls[i].reply]
    BY DEF FlatAnswer, Answer, Show, TakeAndSend
  <1>2. /\ BomPageOK(page) /\ LoadOK(calls[i], page.own, page.url)
        /\ calls[i].op = "flat" /\ calls[i].reply # Absent
    BY <1>1 DEF BomInv, Elems, IsAnswered
  <1>3. CASE ~Taken(i)
    BY <1>1, <1>2, <1>3, BomTakenInv
  <1>4. CASE Taken(i)
    <2>1. /\ DOMAIN page' = BomFields /\ page'.at = page.at /\ page'.own = page.own /\ page'.url = page.url
          /\ page'.nodes = page.nodes /\ page'.treeLoading = page.treeLoading /\ page'.stray = page.stray
          /\ page'.flatLoading = FALSE /\ page'.whereUsedLoading = page.whereUsedLoading
          /\ page'.outage = page.outage /\ page'.whereUsed = page.whereUsed /\ page'.mode = page.mode
          /\ page'.flatLeft = page.flatLeft
          /\ page'.flatRows = IF Failed(i) THEN <<>> ELSE calls[i].reply
      BY <1>1, <1>2, <1>4 DEF BomPageOK, BomFields
    <2>2. page'.flatRows \in {<<>>, <<page.url>>}
      BY <1>2, <1>4, <2>1 DEF LoadOK, Taken, Failed
    <2>3. BomPageOK(page')
      BY <1>2, <2>1, <2>2, AsideOK DEF BomPageOK
    <2>4. Awaited(page') \subseteq Awaited(page) /\ "flat" \notin Awaited(page')
      BY <2>1 DEF Awaited
    <2> QED BY <1>1, <1>2, <2>1, <2>3, <2>4, BomTakenInv
  <1> QED BY <1>3, <1>4

LEMMA WhereUsedAnswerInv ==
  ASSUME BomInv, WhereUsedAnswer
  PROVE  BomInv'
  <1>0. BomPageOK(page)
    BY DEF BomInv
  <1>1. PICK outage \in BOOLEAN, i \in DOMAIN calls :
          /\ IsAnswered(i, "whereUsed") /\ calls' = Others(i) \o <<>>
          /\ page' = LET q == [page EXCEPT !.whereUsedLoading = FALSE, !.outage = outage] IN
                     CASE ~Taken(i)              -> page
                       [] Taken(i) /\ ~Failed(i) -> [q EXCEPT !.whereUsed = calls[i].reply, !.outage = FALSE]
                       [] Taken(i) /\ Failed(i)  -> [q EXCEPT !.whereUsed = IF outage THEN @ ELSE {}]
    BY DEF WhereUsedAnswer, Answer, Show, TakeAndSend
  <1>2. /\ LoadOK(calls[i], page.own, page.url)
        /\ calls[i].op = "whereUsed" /\ calls[i].reply # Absent
    BY <1>1 DEF BomInv, Elems, IsAnswered
  <1>3. CASE ~Taken(i)
    BY <1>0, <1>1, <1>3, BomTakenInv
  <1>4. CASE Taken(i)
    <2>0. PICK rows \in {page.whereUsed, {}, calls[i].reply}, told \in BOOLEAN :
            /\ page' = [page EXCEPT !.whereUsedLoading = FALSE, !.outage = told, !.whereUsed = rows]
            /\ told \/ rows \subseteq Parents(page.url)
            /\ rows = page.whereUsed \/ rows = {} \/ page.own
      <3>1. CASE ~Failed(i)
        <4>1. page' = [page EXCEPT !.whereUsedLoading = FALSE, !.outage = FALSE, !.whereUsed = calls[i].reply]
          BY <1>0, <1>1, <1>4, <3>1 DEF BomPageOK, BomFields
        <4>2. page.own /\ calls[i].reply \subseteq Parents(page.url)
          BY <1>2, <1>4, <3>1 DEF LoadOK, Taken, Failed
        <4> QED BY <4>1, <4>2
      <3>2. CASE Failed(i)
        <4>1. page' = [page EXCEPT !.whereUsedLoading = FALSE, !.outage = outage,
                                   !.whereUsed = IF outage THEN page.whereUsed ELSE {}]
          BY <1>0, <1>1, <1>4, <3>2 DEF BomPageOK, BomFields
        <4> QED BY <4>1
      <3> QED BY <3>1, <3>2
    <2>1. /\ DOMAIN page' = BomFields /\ page'.at = page.at /\ page'.own = page.own /\ page'.url = page.url
          /\ page'.nodes = page.nodes /\ page'.treeLoading = page.treeLoading /\ page'.stray = page.stray
          /\ page'.flatLoading = page.flatLoading /\ page'.whereUsedLoading = FALSE
          /\ page'.outage = told /\ page'.whereUsed = rows /\ page'.flatRows = page.flatRows
          /\ page'.mode = page.mode /\ page'.flatLeft = page.flatLeft
      BY <1>0, <2>0 DEF BomPageOK, BomFields
    <2>2. BomPageOK(page')
      BY <1>0, <2>0, <2>1, AsideOK DEF BomPageOK
    <2>3. Awaited(page') \subseteq Awaited(page) /\ "whereUsed" \notin Awaited(page')
      BY <2>1 DEF Awaited
    <2> QED BY <1>1, <1>2, <2>1, <2>2, <2>3, BomTakenInv
  <1> QED BY <1>3, <1>4

\* A page that differs in what is unfolded.
LEMMA UnfoldedOK ==
  ASSUME BomPageOK(page), NEW keys
  PROVE  LET q == [page EXCEPT !.expanded = keys] IN
         BomPageOK(q) /\ q.own = page.own /\ q.url = page.url /\ Awaited(q) = Awaited(page)
  <1> DEFINE q == [page EXCEPT !.expanded = keys]
  <1>1. BomPageOK(q) /\ q.own = page.own /\ q.url = page.url
    BY DEF BomPageOK, BomFields
  <1>2. /\ q.treeLoading = page.treeLoading /\ q.mode = page.mode /\ q.flatLoading = page.flatLoading
        /\ q.whereUsedLoading = page.whereUsedLoading
    BY DEF BomPageOK, BomFields
  <1> HIDE DEF q
  <1>3. Awaited(q) = Awaited(page)
    BY <1>2 DEF Awaited
  <1> QED BY <1>1, <1>3 DEF q

LEMMA UnfoldRowInv ==
  ASSUME BomInv,
         Unfold \/ (\E k \in page.expanded : Fold({k})) \/ (~page.own /\ Fold(page.expanded))
  PROVE  BomInv'
  <1>0. BomPageOK(page)
    BY DEF BomInv
  <1>1. CASE Unfold
    <2>1. PICK n \in page.nodes :
            /\ page' = [page EXCEPT !.expanded = @ \cup {n.key}]
            /\ calls' = calls \o <<Call("branch", [key |-> n.key, part |-> n.part])>>
      BY <1>1 DEF Unfold, Show, Send
    <2> DEFINE c == Call("branch", [key |-> n.key, part |-> n.part])
    <2>2. BomPageOK(page') /\ page'.own = page.own /\ page'.url = page.url /\ Awaited(page') = Awaited(page)
      BY <1>0, <2>1, UnfoldedOK
    <2>3. RowOK(n.key, n.part)
      BY <1>0 DEF BomPageOK, TreeOK
    <2>4. LoadOK(c, page.own, page.url)
      BY <2>3 DEF LoadOK, Call, CallFields
    <2>5. calls' = calls \o <<c>>
      BY <2>1
    <2> HIDE DEF c
    <2>6. IsSequence(calls') /\ Elems(calls') = Elems(calls) \cup {c}
      BY <2>5, Few, Joined DEF BomInv
    <2>7. Awaited(page') \subseteq Counting(calls')
      BY <2>2, <2>6 DEF BomInv, Counting
    <2> QED BY <2>2, <2>4, <2>6, <2>7 DEF BomInv
  <1>2. ASSUME NEW keys, Fold(keys) PROVE BomInv'
    <2>1. /\ BomPageOK(page') /\ page'.own = page.own /\ page'.url = page.url /\ calls' = calls
          /\ Awaited(page') = Awaited(page)
      BY <1>0, <1>2, UnfoldedOK DEF Fold, Show
    <2> QED BY <2>1 DEF BomInv
  <1> QED BY <1>1, <1>2

\* Another tree that is put in the place of the one on screen.
LEMMA ReplantedOK ==
  ASSUME BomPageOK(page), NEW nodes, NEW keys, NEW stray \in BOOLEAN, TreeOK(nodes, page.own),
         page.own \/ (~page.treeLoading /\ ~stray) => TreeOf(nodes, page.own, page.url),
         NEW q, q = [page EXCEPT !.nodes = nodes, !.expanded = keys, !.stray = stray]
  PROVE  BomPageOK(q) /\ q.own = page.own /\ q.url = page.url /\ Awaited(q) = Awaited(page)
  <1>1. BomPageOK(q) /\ q.own = page.own /\ q.url = page.url
    BY DEF BomPageOK, BomFields
  <1>2. /\ q.treeLoading = page.treeLoading /\ q.mode = page.mode /\ q.flatLoading = page.flatLoading
        /\ q.whereUsedLoading = page.whereUsedLoading
    BY DEF BomPageOK, BomFields
  <1>3. Awaited(q) = Awaited(page)
    BY <1>2 DEF Awaited
  <1> QED BY <1>1, <1>3

LEMMA BranchAnswerInv ==
  ASSUME BomInv, BranchAnswer
  PROVE  BomInv'
  <1>0. BomPageOK(page)
    BY DEF BomInv
  <1>1. PICK i \in DOMAIN calls :
          /\ IsAnswered(i, "branch") /\ calls' = Others(i) \o <<>>
          /\ page' = LET key == calls[i].args.key IN
                     IF Failed(i) THEN page
                     ELSE [page EXCEPT
                            !.nodes = SetNodeChildren(@, key, WithBomOccurrenceKeys(calls[i].reply, key)),
                            !.expanded = @ \cup {key}]
    BY DEF BranchAnswer, Answer, Show, TakeAndSend
  <1>2. /\ LoadOK(calls[i], page.own, page.url)
        /\ calls[i].op = "branch" /\ calls[i].reply # Absent
    BY <1>1 DEF BomInv, Elems, IsAnswered
  <1>5. calls[i].op \notin Awaited(page')
    BY <1>2 DEF Awaited
  <1>3. CASE Failed(i)
    BY <1>0, <1>1, <1>3, <1>5, BomTakenInv
  <1>4. CASE ~Failed(i)
    <2> DEFINE key == calls[i].args.key
               p == calls[i].args.part
               hung == SetNodeChildren(page.nodes, key, WithBomOccurrenceKeys(Bom[p], key))
    <2>1. RowOK(key, p) /\ calls[i].reply = Bom[p]
      BY <1>2, <1>4 DEF LoadOK, Failed
    <2>2. page' = [page EXCEPT !.nodes = hung, !.expanded = page.expanded \cup {key}]
      BY <1>1, <1>4, <2>1
    <2>3. /\ TreeOK(hung, page.own)
          /\ TreeOf(page.nodes, page.own, page.url) => TreeOf(hung, page.own, page.url)
      BY <1>0, <2>1, BranchHung DEF BomPageOK
    <2> HIDE DEF hung, key
    <2>4. page' = [page EXCEPT !.nodes = hung, !.expanded = page.expanded \cup {key}, !.stray = page.stray]
      BY <1>0, <2>2 DEF BomPageOK, BomFields
    <2>5. BomPageOK(page') /\ page'.own = page.own /\ page'.url = page.url /\ Awaited(page') = Awaited(page)
      <3>1. /\ TreeOK(hung, page.own) /\ page.stray \in BOOLEAN
            /\ page.own \/ (~page.treeLoading /\ ~page.stray) => TreeOf(hung, page.own, page.url)
        BY <1>0, <2>3 DEF BomPageOK
      <3> DEFINE keys == page.expanded \cup {key}
                 stray == page.stray
      <3>4. TreeOK(hung, page.own)
        BY <3>1
      <3>5. stray \in BOOLEAN /\ (page.own \/ (~page.treeLoading /\ ~stray) => TreeOf(hung, page.own, page.url))
        BY <3>1
      <3>3. page' = [page EXCEPT !.nodes = hung, !.expanded = keys, !.stray = stray]
        BY <2>4
      <3> HIDE DEF keys, stray
      <3>2. \A q : q = [page EXCEPT !.nodes = hung, !.expanded = keys, !.stray = stray]
                     => BomPageOK(q) /\ q.own = page.own /\ q.url = page.url /\ Awaited(q) = Awaited(page)
        BY <1>0, <3>4, <3>5, ReplantedOK
      <3> QED BY <3>2, <3>3
    <2> QED BY <1>1, <1>5, <2>5, BomTakenInv
  <1> QED BY <1>3, <1>4

-------------------------------------------------------------------------------
(* "Expand all".                                                           *)

\* The copy of the tree is a tree of the part it says.
CopyOK(tree, from) ==
  /\ ~page.own /\ TreeOK(tree, page.own)
  /\ from # Absent => \A w \in Assemblies : (\E t : from = <<w, t>>) => TreeOf(tree, page.own, w)

LEMMA BranchAsked ==
  ASSUME NEW run, DOMAIN run = {"tree", "expanded", "seen", "key", "part", "from"},
         NEW tree, CopyOK(tree, run.from), NEW n \in tree
  PROVE  LoadOK(BranchOf(n, run, tree), page.own, page.url)
  <1> DEFINE args == [run EXCEPT !.tree = tree, !.seen = @ \cup {n.key}, !.key = n.key, !.part = n.part]
             c == BranchOf(n, run, tree)
  <1>1. /\ DOMAIN args = {"tree", "expanded", "seen", "key", "part", "from"}
        /\ args.tree = tree /\ args.key = n.key /\ args.part = n.part /\ args.from = run.from
    OBVIOUS
  <1>2. DOMAIN c = CallFields /\ c.op = "all" /\ c.args = args /\ c.reply = Absent
    BY DEF BranchOf, Call, CallFields
  <1>3. RowOK(n.key, n.part)
    BY DEF CopyOK, TreeOK
  <1> HIDE DEF args, c
  <1>4. LoadOK(c, page.own, page.url)
    BY <1>1, <1>2, <1>3 DEF LoadOK, CopyOK
  <1> QED BY <1>4 DEF c

LEMMA ExpandAllInv ==
  ASSUME BomInv, ExpandAll
  PROVE  BomInv'
  <1> DEFINE run == [tree |-> {}, expanded |-> page.expanded, seen |-> {}, key |-> <<>>, part |-> Absent,
                     from |-> IF page.treeLoading \/ page.stray THEN Absent ELSE ThisLoad]
  <1>1. PICK n \in Firsts(Unvisited(page.nodes, {})) :
          /\ ~page.own /\ calls' = calls \o <<BranchOf(n, run, page.nodes)>> /\ page' = page
    BY DEF ExpandAll, Send
  <1>2. n \in page.nodes
    BY DEF Firsts, Unvisited
  <1>3. BomPageOK(page)
    BY DEF BomInv
  <1>4. CopyOK(page.nodes, run.from)
    BY <1>1, <1>3 DEF CopyOK, BomPageOK, ThisLoad
  <1>5. DOMAIN run = {"tree", "expanded", "seen", "key", "part", "from"}
    OBVIOUS
  <1> DEFINE c == BranchOf(n, run, page.nodes)
  <1>6. LoadOK(c, page.own, page.url)
    BY <1>2, <1>4, <1>5, BranchAsked
  <1>7. calls' = calls \o <<c>>
    BY <1>1
  <1> HIDE DEF c
  <1>8. IsSequence(calls') /\ Elems(calls') = Elems(calls) \cup {c}
    BY <1>7, Few, Joined DEF BomInv
  <1>9. Awaited(page') \subseteq Counting(calls')
    BY <1>1, <1>8 DEF BomInv, Counting
  <1> QED BY <1>1, <1>3, <1>6, <1>8, <1>9 DEF BomInv

LEMMA ExpandAllAnswerInv ==
  ASSUME BomInv, ExpandAllAnswer
  PROVE  BomInv'
  <1>0. BomPageOK(page)
    BY DEF BomInv
  <1>1. PICK i \in DOMAIN calls :
          /\ IsAnswered(i, "all")
          /\ \/ PutBack(i) /\ Take(i)
             \/ /\ UNCHANGED page
                /\ \E n \in Firsts(Unvisited(GrownTree(i), calls[i].args.seen)) :
                     TakeAndSend(i, <<BranchOf(n, calls[i].args, GrownTree(i))>>)
    BY DEF ExpandAllAnswer
  <1> DEFINE a == calls[i].args
  <1>2. /\ LoadOK(calls[i], page.own, page.url)
        /\ calls[i].op = "all" /\ calls[i].reply # Absent
    BY <1>1 DEF BomInv, Elems, IsAnswered
  <1>7. calls[i].op \notin Awaited(page')
    BY <1>2 DEF Awaited
  <1>3. /\ CopyOK(a.tree, a.from) /\ RowOK(a.key, a.part)
        /\ DOMAIN a = {"tree", "expanded", "seen", "key", "part", "from"}
        /\ ~Failed(i) => calls[i].reply = Bom[a.part]
    BY <1>2 DEF LoadOK, CopyOK, Failed
  <1>4. CopyOK(GrownTree(i), a.from)
    <2>1. CASE Failed(i)
      BY <1>3, <2>1 DEF GrownTree
    <2>2. CASE ~Failed(i)
      <3> DEFINE hung == SetNodeChildren(a.tree, a.key, WithBomOccurrenceKeys(Bom[a.part], a.key))
      <3>1. GrownTree(i) = hung
        BY <1>3, <2>2 DEF GrownTree
      <3>2. /\ TreeOK(hung, page.own)
            /\ \A w \in Assemblies : TreeOf(a.tree, page.own, w) => TreeOf(hung, page.own, w)
        BY <1>3, BranchHung DEF CopyOK
      <3> QED BY <1>3, <3>1, <3>2 DEF CopyOK
    <2> QED BY <2>1, <2>2
  <1>5. CASE PutBack(i) /\ Take(i)
    <2> DEFINE stray == page.stray \/ a.from = Absent \/ a.from # ThisLoad
    <2>1. PICK keys : page' = [page EXCEPT !.nodes = GrownTree(i), !.expanded = keys, !.stray = stray]
      BY <1>5 DEF PutBack, Show
    <2>2. stray \in BOOLEAN
      BY <1>0 DEF BomPageOK
    <2>3. page.own \/ (~page.treeLoading /\ ~stray) => TreeOf(GrownTree(i), page.own, page.url)
      BY <1>0, <1>4 DEF BomPageOK, CopyOK, ThisLoad
    <2>a. TreeOK(GrownTree(i), page.own)
      BY <1>4 DEF CopyOK
    <2> HIDE DEF stray
    <2> DEFINE nodes == GrownTree(i)
    <2>4. BomPageOK(page') /\ page'.own = page.own /\ page'.url = page.url /\ Awaited(page') = Awaited(page)
      <3>1. page' = [page EXCEPT !.nodes = nodes, !.expanded = keys, !.stray = stray]
            /\ TreeOK(nodes, page.own)
            /\ (page.own \/ (~page.treeLoading /\ ~stray) => TreeOf(nodes, page.own, page.url))
        BY <2>1, <2>3, <2>a
      <3> HIDE DEF nodes
      <3>2. \A q : q = [page EXCEPT !.nodes = nodes, !.expanded = keys, !.stray = stray]
                     => BomPageOK(q) /\ q.own = page.own /\ q.url = page.url /\ Awaited(q) = Awaited(page)
        BY <1>0, <2>2, <3>1, ReplantedOK
      <3> QED BY <3>1, <3>2
    <2> QED BY <1>5, <1>7, <2>4, BomTakenInv DEF Take
  <1>6. CASE /\ UNCHANGED page
             /\ \E n \in Firsts(Unvisited(GrownTree(i), a.seen)) :
                  TakeAndSend(i, <<BranchOf(n, a, GrownTree(i))>>)
    <2>1. PICK n \in Firsts(Unvisited(GrownTree(i), a.seen)) :
            calls' = Others(i) \o <<BranchOf(n, a, GrownTree(i))>>
      BY <1>6 DEF TakeAndSend
    <2>2. n \in GrownTree(i)
      BY DEF Firsts, Unvisited
    <2>3. LoadOK(BranchOf(n, a, GrownTree(i)), page.own, page.url)
      BY <1>3, <1>4, <2>2, BranchAsked
    <2> QED BY <1>0, <1>6, <1>7, <2>1, <2>3, BomTakenInv
  <1> QED BY <1>1, <1>5, <1>6

LEMMA BomNextInv == BomInv /\ [BomNext \/ Lose]_vars => BomInv'
  <1> SUFFICES ASSUME BomInv, [BomNext \/ Lose]_vars PROVE BomInv'
    OBVIOUS
  <1>1. CASE UNCHANGED vars
    BY <1>1 DEF vars, BomInv
  <1> QED BY <1>1, BomTurnInv, ServeBomInv, RootAnswerInv, FlatAnswerInv, WhereUsedAnswerInv, UnfoldRowInv,
             BranchAnswerInv, ExpandAllInv, ExpandAllAnswerInv
          DEF BomNext

-------------------------------------------------------------------------------

\* Whatever is followed, unfolded and refreshed while loads are out, a load
\* that still counts is of the part in the address, and every tree, on screen
\* or copied, is one (BomPage.tsx:123-163, PartDetailPage.tsx:1342-1516).
THEOREM BomInvariant == BomSpec => []BomInv
  BY BomInitInv, BomNextInv, PTL DEF BomSpec

\* The rows are of the part in the address (BomPage.tsx:123-147, 315,
\* PartDetailPage.tsx:1342-1413, 1514).
THEOREM TreeOfThePart == BomSpec => []TreeIsOfThePart
  <1>1. BomInv => TreeIsOfThePart
    BY DEF BomInv, BomPageOK, TreeOf, Roots, TreeIsOfThePart
  <1> QED BY <1>1, BomInvariant, PTL

\* A branch hangs on its row and on no other (lib/bomTree.ts:20).
THEOREM BranchesHang == BomSpec => []BranchesBelongToNodes
  <1>1. BomInv => BranchesBelongToNodes
    BY DEF BomInv, BomPageOK, TreeOK, Hangs, BranchesBelongToNodes
  <1> QED BY <1>1, BomInvariant, PTL

-------------------------------------------------------------------------------
(* The document packs of a part, whatever part is opened first.            *)

PackInit == \E p \in PackedParts :
  /\ page = PackStart(p)
  /\ calls = <<>>
  /\ server = PackServer
  /\ left \in Nat

PackSpec == PackInit /\ [][PackNext \/ Lose]_vars

PackFields == {"at", "url", "depth", "wanted", "opts", "chosen", "building", "kept"}

OptionsOf(part, depth) == [of |-> <<part, depth>>, types |-> Offered[part][depth]]

\* A choice that was not kept from elsewhere is among what is offered here.
PackPageOK(p) ==
  /\ DOMAIN p = PackFields /\ p.at = "pack" /\ p.kept \in BOOLEAN
  /\ p.opts = NoOptions \/ \E part, depth : p.opts = OptionsOf(part, depth)
  /\ ~p.kept => p.chosen \subseteq Offered[p.url][p.depth]

BuildOK(b) == ~b.kept => b.types \subseteq Offered[b.part][b.depth]

\* A load of options that was not cancelled is of the part and depth shown.
PackCallOK(c, p) ==
  /\ DOMAIN c = CallFields /\ c.op \in {"options", "build"}
  /\ c.op = "options" =>
       /\ DOMAIN c.args = {"part", "depth", "chosen", "canceled"} /\ c.args.canceled \in BOOLEAN
       /\ c.reply \in {Absent, Failure, OptionsOf(c.args.part, c.args.depth)}
       /\ ~c.args.canceled => c.args.part = p.url /\ c.args.depth = p.depth
  /\ c.op = "build" => BuildOK(c.args)

\* The page is busy as long as its build is out.
BuildIsOut(p, cs) == p.building => \E c \in Elems(cs) : c.op = "build"

PackInv ==
  /\ PackPageOK(page)
  /\ DOMAIN server = {"built"} /\ \A b \in server.built : BuildOK(b)
  /\ IsSequence(calls) /\ \A c \in Elems(calls) : PackCallOK(c, page)
  /\ BuildIsOut(page, calls)

LEMMA PackInitInv == PackInit => PackInv
  <1> SUFFICES ASSUME NEW p, page = PackStart(p), calls = <<>>, server = PackServer PROVE PackInv
    BY DEF PackInit
  <1>1. PackPageOK(page) /\ page.building = FALSE
    BY DEF PackStart, PackPageOK, PackFields
  <1>2. DOMAIN server = {"built"} /\ server.built = {}
    BY DEF PackServer
  <1> QED BY <1>1, <1>2, Few DEF PackInv, BuildIsOut

\* A page that differs from this one in what no load depends on.
LEMMA PackShown ==
  ASSUME PackInv, PackPageOK(page'), page'.url = page.url, page'.depth = page.depth,
         UNCHANGED server, IsSequence(calls'), BuildIsOut(page', calls'),
         \A c \in Elems(calls') : PackCallOK(c, page)
  PROVE  PackInv'
  BY DEF PackInv, PackCallOK

\* Loads of options that are cancelled ask nothing any more.
LEMMA PackCancelled ==
  ASSUME NEW s, IsSequence(s), \A c \in Elems(s) : \E p : PackCallOK(c, p), NEW q
  PROVE  /\ IsSequence(Cancelling(s)) /\ \A c \in Elems(Cancelling(s)) : PackCallOK(c, q)
         /\ (\E c \in Elems(s) : c.op = "build") => \E c \in Elems(Cancelling(s)) : c.op = "build"
  <1> DEFINE t == Cancelling(s)
  <1>1. /\ DOMAIN t = DOMAIN s /\ t = [i \in DOMAIN s |-> t[i]]
        /\ \A i \in DOMAIN s : t[i] = IF s[i].op = "options" THEN [s[i] EXCEPT !.args.canceled = TRUE] ELSE s[i]
    BY DEF Cancelling
  <1> HIDE DEF t
  <1>2. IsSequence(t) /\ Elems(t) = {t[i] : i \in DOMAIN s}
    BY <1>1, Mapped
  <1>3. ASSUME NEW i \in DOMAIN s PROVE PackCallOK(t[i], q)
    <2>1. \E p : PackCallOK(s[i], p)
      BY DEF Elems
    <2>2. CASE s[i].op = "options"
      <3>1. /\ DOMAIN t[i] = CallFields /\ t[i].op = "options" /\ t[i].reply = s[i].reply
            /\ DOMAIN t[i].args = DOMAIN s[i].args /\ t[i].args.canceled = TRUE
            /\ t[i].args.part = s[i].args.part /\ t[i].args.depth = s[i].args.depth
        BY <1>1, <2>1, <2>2 DEF PackCallOK, CallFields
      <3> QED BY <2>1, <2>2, <3>1 DEF PackCallOK
    <2>3. CASE s[i].op # "options"
      BY <1>1, <2>1, <2>3 DEF PackCallOK
    <2> QED BY <2>2, <2>3
  <1>4. ASSUME NEW i \in DOMAIN s, s[i].op = "build" PROVE t[i].op = "build"
    BY <1>1, <1>4
  <1> QED BY <1>2, <1>3, <1>4 DEF t, Elems

\* The options are asked for anew.
LEMMA LoadsOptionsInv ==
  ASSUME PackInv, NEW STATE q, Show(q), LoadsOptions(q), PackPageOK(q), q.building = page.building, UNCHANGED server
  PROVE  PackInv'
  <1> DEFINE more == IF q.wanted THEN <<OptionsCall(q)>> ELSE <<>>
  <1>1. page' = q /\ calls' = Cancelling(calls) \o more
    BY DEF Show, LoadsOptions
  <1>2. PackCallOK(OptionsCall(q), q)
    BY DEF PackCallOK, OptionsCall, Call, CallFields
  <1>3. IsSequence(more) /\ \A c \in Elems(more) : PackCallOK(c, q)
    BY <1>2, Few
  <1> HIDE DEF more
  <1>4. /\ IsSequence(Cancelling(calls)) /\ \A c \in Elems(Cancelling(calls)) : PackCallOK(c, q)
        /\ (\E c \in Elems(calls) : c.op = "build") => \E c \in Elems(Cancelling(calls)) : c.op = "build"
    BY PackCancelled DEF PackInv
  <1>5. IsSequence(calls') /\ Elems(calls') = Elems(Cancelling(calls)) \cup Elems(more)
    BY <1>1, <1>3, <1>4, Joined
  <1> QED BY <1>1, <1>3, <1>4, <1>5 DEF PackInv, BuildIsOut

LEMMA PackTurnInv ==
  ASSUME PackInv, RequestDocOpts \/ SetDepth \/ PackNavigate
  PROVE  PackInv'
  <1>1. DOMAIN page = PackFields /\ page.kept \in BOOLEAN
    BY DEF PackInv, PackPageOK
  <1>2. CASE RequestDocOpts
    <2> DEFINE q == [page EXCEPT !.wanted = TRUE]
    <2>1. Show(q) /\ LoadsOptions(q) /\ UNCHANGED server
      BY <1>2 DEF RequestDocOpts
    <2>2. PackPageOK(q) /\ q.building = page.building
      BY <1>1 DEF PackInv, PackPageOK, PackFields
    <2> HIDE DEF q
    <2> QED BY <2>1, <2>2, LoadsOptionsInv
  <1>3. CASE SetDepth
    <2>1. PICK d \in Depths \ {page.depth} :
            LET q == [page EXCEPT !.depth = d, !.kept = @ \/ page.chosen # {}] IN
            Show(q) /\ LoadsOptions(q) /\ UNCHANGED server
      BY <1>3 DEF SetDepth
    <2> DEFINE q == [page EXCEPT !.depth = d, !.kept = @ \/ page.chosen # {}]
    <2>2. PackPageOK(q) /\ q.building = page.building
      BY <1>1 DEF PackInv, PackPageOK, PackFields
    <2>3. Show(q) /\ LoadsOptions(q) /\ UNCHANGED server
      BY <2>1
    <2> HIDE DEF q
    <2> QED BY <2>2, <2>3, LoadsOptionsInv
  <1>4. CASE PackNavigate
    <2>1. PICK p \in PackedParts \ {page.url} :
            LET q == [page EXCEPT !.url = p, !.kept = @ \/ page.chosen # {}] IN
            /\ Show([q EXCEPT !.wanted = FALSE, !.opts = NoOptions])
            /\ calls' = Cancelling(calls \o (IF q.wanted THEN <<OptionsCall(q)>> ELSE <<>>))
            /\ UNCHANGED server
      BY <1>4 DEF PackNavigate
    <2> DEFINE q == [page EXCEPT !.url = p, !.kept = @ \/ page.chosen # {}]
               r == [q EXCEPT !.wanted = FALSE, !.opts = NoOptions]
               more == IF q.wanted THEN <<OptionsCall(q)>> ELSE <<>>
    <2>2. page' = r /\ calls' = Cancelling(calls \o more) /\ UNCHANGED server
      BY <2>1 DEF Show
    <2>3. PackPageOK(r) /\ r.building = page.building
      BY <1>1 DEF PackInv, PackPageOK, PackFields
    <2>4. IsSequence(more) /\ \A c \in Elems(more) : c = OptionsCall(q)
      BY Few
    <2>5. PackCallOK(OptionsCall(q), q)
      BY DEF PackCallOK, OptionsCall, Call, CallFields
    <2> HIDE DEF q, r, more
    <2>6. IsSequence(calls \o more) /\ Elems(calls \o more) = Elems(calls) \cup Elems(more)
      BY <2>4, Joined DEF PackInv
    <2>7. \A c \in Elems(calls \o more) : \E o : PackCallOK(c, o)
      BY <2>4, <2>5, <2>6 DEF PackInv
    <2>8. /\ IsSequence(calls') /\ \A c \in Elems(calls') : PackCallOK(c, r)
          /\ (\E c \in Elems(calls) : c.op = "build") => \E c \in Elems(calls') : c.op = "build"
      BY <2>2, <2>6, <2>7, PackCancelled
    <2> QED BY <2>2, <2>3, <2>8 DEF PackInv, BuildIsOut
  <1> QED BY <1>2, <1>3, <1>4

LEMMA ServePackInv ==
  ASSUME PackInv, DocpackOptions \/ BuildPack \/ CancelBuild \/ Lose
  PROVE  PackInv'
  <1>1. PICK i, r :
          /\ i \in DOMAIN calls
          /\ Reply(i, r) /\ UNCHANGED page
          /\ \/ UNCHANGED server
             \/ calls[i].op = "build" /\ server' = [server EXCEPT !.built = @ \cup {calls[i].args}]
          /\ calls[i].op = "options" => r = Failure \/ r = OptionsOf(calls[i].args.part, calls[i].args.depth)
    <2>1. CASE DocpackOptions
      <3>1. PICK i \in DOMAIN calls : Reply(i, OptionsOf(calls[i].args.part, calls[i].args.depth)) /\ UNCHANGED <<page, server>>
        BY <2>1 DEF DocpackOptions, OptionsOf
      <3> QED BY <3>1
    <2>2. CASE BuildPack
      <3>1. PICK i \in DOMAIN calls :
              /\ Reply(i, TRUE) /\ UNCHANGED page /\ calls[i].op = "build"
              /\ server' = [server EXCEPT !.built = @ \cup {calls[i].args}]
        BY <2>2 DEF BuildPack, IsAsked
      <3> QED BY <3>1
    <2>3. CASE CancelBuild \/ Lose
      <3>1. PICK i \in DOMAIN calls : Reply(i, Failure) /\ UNCHANGED <<page, server>>
        BY <2>3 DEF CancelBuild, Lose
      <3> QED BY <3>1
    <2> QED BY <2>1, <2>2, <2>3
  <1>2. calls[i] \in Elems(calls)
    BY <1>1 DEF Elems
  <1>3. PackCallOK(calls[i], page)
    BY <1>2 DEF PackInv
  <1>4. PICK c : /\ DOMAIN c = CallFields /\ c.op = calls[i].op /\ c.args = calls[i].args /\ c.reply = r
                 /\ IsSequence(calls') /\ Elems(calls') \subseteq Elems(calls) \cup {c}
                 /\ c \in Elems(calls') /\ Elems(calls) \subseteq Elems(calls') \cup {calls[i]}
    BY <1>1, <1>3, Answered DEF PackInv, PackCallOK
  <1>5. PackCallOK(c, page)
    BY <1>1, <1>3, <1>4 DEF PackCallOK
  <1>6. DOMAIN server' = {"built"} /\ \A b \in server'.built : BuildOK(b)
    BY <1>1, <1>3 DEF PackInv, PackCallOK
  <1>7. BuildIsOut(page, calls')
    BY <1>4 DEF PackInv, BuildIsOut
  <1> QED BY <1>1, <1>4, <1>5, <1>6, <1>7 DEF PackInv

LEMMA OptionsAnswerInv ==
  ASSUME PackInv, OptionsAnswer
  PROVE  PackInv'
  <1>1. PICK i \in DOMAIN calls :
          /\ calls[i].op = "options" /\ calls[i].reply # Absent
          /\ LET q == [page EXCEPT !.opts = calls[i].reply] IN
             page' = CASE ~OptionsTaken(i) -> page
                       [] OptionsTaken(i) /\ calls[i].args.chosen # {} -> q
                       [] OptionsTaken(i) /\ calls[i].args.chosen = {} ->
                            [q EXCEPT !.chosen = IF q.opts.types = {} THEN @ ELSE q.opts.types,
                                      !.kept = @ /\ q.opts.types = {}]
          /\ calls' = Others(i) /\ UNCHANGED server
    BY DEF OptionsAnswer, IsAnswered, Show, Take
  <1>2. /\ IsSequence(calls') /\ Elems(calls') \subseteq Elems(calls) /\ calls[i] \in Elems(calls)
        /\ Elems(calls) \subseteq Elems(calls') \cup {calls[i]}
    BY <1>1, Remaining DEF PackInv
  <1>3. PackCallOK(calls[i], page)
    BY <1>2 DEF PackInv
  <1>4. DOMAIN page = PackFields /\ page.kept \in BOOLEAN
    BY DEF PackInv, PackPageOK
  <1> DEFINE o == calls[i].reply
  <1>5. CASE ~OptionsTaken(i)
    BY <1>1, <1>2, <1>5 DEF PackInv, BuildIsOut
  <1>6. CASE OptionsTaken(i)
    <2>1. o = OptionsOf(page.url, page.depth) /\ o.types = Offered[page.url][page.depth]
      BY <1>1, <1>3, <1>6 DEF PackCallOK, OptionsTaken, Failed, OptionsOf
    <2>2. /\ DOMAIN page' = PackFields /\ page'.at = page.at /\ page'.url = page.url /\ page'.depth = page.depth
          /\ page'.opts = o /\ page'.building = page.building
          /\ \/ page'.chosen = page.chosen /\ page'.kept = page.kept
             \/ page'.chosen = o.types /\ page'.kept = FALSE
      <3>1. CASE calls[i].args.chosen # {}
        BY <1>1, <1>4, <1>6, <3>1 DEF PackFields
      <3>2. CASE calls[i].args.chosen = {}
        <4>1. page' = [page EXCEPT !.opts = o, !.chosen = IF o.types = {} THEN @ ELSE o.types,
                                   !.kept = @ /\ o.types = {}]
          BY <1>1, <1>4, <1>6, <3>2 DEF PackFields
        <4> QED BY <1>4, <4>1 DEF PackFields
      <3> QED BY <3>1, <3>2
    <2>3. PackPageOK(page')
      BY <1>4, <2>1, <2>2 DEF PackInv, PackPageOK
    <2>4. BuildIsOut(page', calls')
      BY <1>1, <1>2, <2>2 DEF PackInv, BuildIsOut
    <2> QED BY <1>1, <1>2, <2>2, <2>3, <2>4, PackShown DEF PackInv
  <1> QED BY <1>5, <1>6

\* What is ticked among the options of the part and depth shown is offered there.
LEMMA ChooseInv ==
  ASSUME PackInv, TickType \/ AllTypes \/ NoTypes \/ Fabrication
  PROVE  PackInv'
  <1>1. /\ DOMAIN page = PackFields /\ page.kept \in BOOLEAN
        /\ ~page.kept => page.chosen \subseteq Offered[page.url][page.depth]
        /\ ~Elsewhere => page.opts.types \subseteq Offered[page.url][page.depth]
    <2>1. ASSUME NEW part, NEW depth, page.opts = OptionsOf(part, depth), ~Elsewhere
          PROVE  page.opts.types \subseteq Offered[page.url][page.depth]
      BY <2>1 DEF OptionsOf, Elsewhere
    <2> QED BY <2>1 DEF PackInv, PackPageOK, NoOptions
  <1>2. ASSUME NEW STATE types, NEW STATE kept, kept \in BOOLEAN, Choose(types, kept),
               ~kept => types \subseteq Offered[page.url][page.depth]
        PROVE  PackInv'
    <2>1. page' = [page EXCEPT !.chosen = types, !.kept = kept] /\ UNCHANGED <<calls, server>>
      BY <1>2 DEF Choose, Show
    <2>2. /\ DOMAIN page' = PackFields /\ page'.at = page.at /\ page'.url = page.url /\ page'.depth = page.depth
          /\ page'.opts = page.opts /\ page'.building = page.building
          /\ page'.chosen = types /\ page'.kept = kept
      BY <1>1, <2>1 DEF PackFields
    <2>3. PackPageOK(page')
      BY <1>2, <2>2 DEF PackInv, PackPageOK
    <2> QED BY <2>1, <2>2, <2>3, PackShown DEF PackInv, BuildIsOut
  <1>3. CASE TickType
    <2>1. PICK t \in page.opts.types :
            Choose(IF t \in page.chosen THEN page.chosen \ {t} ELSE page.chosen \cup {t}, page.kept \/ Elsewhere)
      BY <1>3 DEF TickType
    <2>2. (page.kept \/ Elsewhere) \in BOOLEAN
      BY <1>1 DEF Elsewhere
    <2> QED BY <1>1, <1>2, <2>1, <2>2
  <1>4. CASE AllTypes
    <2>1. Choose(page.opts.types, Elsewhere) /\ Elsewhere \in BOOLEAN
      BY <1>4 DEF AllTypes, Elsewhere
    <2> QED BY <1>1, <1>2, <2>1
  <1>5. CASE NoTypes
    BY <1>2, <1>5 DEF NoTypes
  <1>6. CASE Fabrication
    BY <1>2, <1>6 DEF Fabrication
  <1> QED BY <1>3, <1>4, <1>5, <1>6

\* A build asks for what is chosen.
LEMMA SubmitPackInv ==
  ASSUME PackInv, SubmitPack
  PROVE  PackInv'
  <1> DEFINE c == Call("build", [part |-> page.url, depth |-> page.depth, types |-> page.chosen, kept |-> page.kept])
  <1>1. page' = [page EXCEPT !.building = TRUE] /\ calls' = calls \o <<c>> /\ UNCHANGED server
    BY DEF SubmitPack, Show, Send
  <1>2. PackCallOK(c, page) /\ c.op = "build"
    BY DEF PackInv, PackPageOK, PackCallOK, BuildOK, Call, CallFields
  <1> HIDE DEF c
  <1>3. IsSequence(calls') /\ Elems(calls') = Elems(calls) \cup {c}
    BY <1>1, Few, Joined DEF PackInv
  <1>4. PackPageOK(page') /\ page'.url = page.url /\ page'.depth = page.depth
    BY <1>1 DEF PackInv, PackPageOK, PackFields
  <1> QED BY <1>1, <1>2, <1>3, <1>4, PackShown DEF PackInv, BuildIsOut

LEMMA BuildAnswerInv ==
  ASSUME PackInv, BuildAnswer
  PROVE  PackInv'
  <1>1. PICK i \in DOMAIN calls :
          page' = [page EXCEPT !.building = FALSE] /\ calls' = Others(i) /\ UNCHANGED server
    BY DEF BuildAnswer, BuildEnds, Show, Take
  <1>2. IsSequence(calls') /\ Elems(calls') \subseteq Elems(calls)
    BY <1>1, Remaining DEF PackInv
  <1>3. PackPageOK(page') /\ page'.url = page.url /\ page'.depth = page.depth /\ page'.building = FALSE
    BY <1>1 DEF PackInv, PackPageOK, PackFields
  <1> QED BY <1>1, <1>2, <1>3, PackShown DEF PackInv, BuildIsOut

LEMMA PackNextInv == PackInv /\ [PackNext \/ Lose]_vars => PackInv'
  <1> SUFFICES ASSUME PackInv, [PackNext \/ Lose]_vars PROVE PackInv'
    OBVIOUS
  <1>1. CASE UNCHANGED vars
    BY <1>1 DEF vars, PackInv
  <1> QED BY <1>1, PackTurnInv, ServePackInv, OptionsAnswerInv, ChooseInv, SubmitPackInv, BuildAnswerInv DEF PackNext

-------------------------------------------------------------------------------

\* Whatever part and depth are turned to while options and builds are out, a
\* load of options that still counts is of the part and depth shown, and a
\* choice made among them is offered there (PartDetailPage.tsx:1291-1323).
THEOREM PackInvariant == PackSpec => []PackInv
  BY PackInitInv, PackNextInv, PTL DEF PackSpec

\* A pack is built of what its part offers at its depth, unless the choice was
\* kept from elsewhere (PartDetailPage.tsx:648, 1303).
THEOREM PackOfTheOffered == PackSpec => []PackIsOfWhatIsOffered
  <1>1. PackInv => PackIsOfWhatIsOffered
    BY DEF PackInv, BuildOK, PackIsOfWhatIsOffered
  <1> QED BY <1>1, PackInvariant, PTL

-------------------------------------------------------------------------------
(* The field configuration alone, opened on one that the server had        *)
(* sanitized.                                                              *)

RawConfigs == [builtin : SUBSET Nat, fields : Seq(Nat), allowed : SUBSET Nat, defaults : SUBSET Nat, labels : {1, 2}]

FieldsInit == \E raw \in RawConfigs :
  /\ page = FieldsStart(Sanitized(raw))
  /\ calls = <<>>
  /\ server = FieldsServer(Sanitized(raw))
  /\ left \in Nat

FieldsSpec == FieldsInit /\ [][FieldsNext \/ Lose]_vars

ConfigFields == {"builtin", "fields", "allowed", "defaults", "labels"}

\* The presets name fields there are.
PresetsOK(c) ==
  /\ DOMAIN c = ConfigFields /\ IsSequence(c.fields)
  /\ c.defaults \subseteq c.allowed /\ c.allowed \subseteq FieldIds(c)

\* Moreover the built-in field has its identifier, no custom field has it, and
\* the presets have the required fields.
ConfigOK(c) ==
  /\ PresetsOK(c)
  /\ c.builtin = {Builtin} /\ Builtin \notin CustomIds(c) /\ Required \subseteq c.defaults

FieldsCallOK(c) ==
  /\ DOMAIN c = CallFields /\ c.op \in {"save", "reset", "rebuild"}
  /\ c.op = "save" => PresetsOK(c.args)
  /\ c.reply \in {Absent, Failure} \/ ConfigOK(c.reply)

FieldsInv ==
  /\ DOMAIN page = {"at", "config", "saving", "dirty", "taken"} /\ page.at = "fields" /\ page.taken \in BOOLEAN
  /\ PresetsOK(page.config) /\ (~page.taken => ConfigOK(page.config))
  /\ DOMAIN server = {"config", "others"} /\ ConfigOK(server.config)
  /\ IsSequence(calls) /\ \A c \in Elems(calls) : FieldsCallOK(c)
  /\ page.saving => Elems(calls) # {}

-------------------------------------------------------------------------------
(* Configurations.                                                         *)

LEMMA IdsOf ==
  ASSUME NEW c
  PROVE  CustomIds(c) = Elems(c.fields) /\ FieldIds(c) = c.builtin \cup Elems(c.fields)
  BY DEF FieldIds, CustomIds, Elems

\* The fields with one more.
LEMMA Appended ==
  ASSUME NEW s, IsSequence(s), NEW c
  PROVE  IsSequence(Append(s, c)) /\ Elems(s) \subseteq Elems(Append(s, c))
  <1>1. PICK S : s \in Seq(S)
    BY DEF IsSequence
  <1>2. s \in Seq(S \cup {c}) /\ c \in S \cup {c}
    BY <1>1, SeqMonotonic
  <1>3. /\ Append(s, c) \in Seq(S \cup {c}) /\ Len(Append(s, c)) = Len(s) + 1
        /\ \A j \in 1 .. Len(s) : Append(s, c)[j] = s[j]
    BY <1>2, AppendProperties
  <1>4. Len(s) \in Nat /\ DOMAIN s = 1 .. Len(s) /\ DOMAIN Append(s, c) = 1 .. Len(s) + 1
    BY <1>2, <1>3, LenProperties
  <1>5. \A j \in DOMAIN s : j \in DOMAIN Append(s, c) /\ Append(s, c)[j] = s[j]
    BY <1>3, <1>4
  <1> QED BY <1>3, <1>5 DEF IsSequence, Elems

\* The fields without those of an identifier.
LEMMA FilteredIs ==
  ASSUME NEW s, IsSequence(s), NEW id
  PROVE  IsSequence(Filtered(s, id)) /\ Elems(Filtered(s, id)) = Elems(s) \ {id}
  <1> DEFINE K == {j \in DOMAIN s : s[j] # id}
  <1>1. K \in SUBSET (DOMAIN s) /\ Filtered(s, id) = Picked(s, K)
    BY DEF Filtered
  <1>2. Elems(s) \ {id} = {s[j] : j \in K}
    BY DEF Elems
  <1> HIDE DEF K
  <1> QED BY <1>1, <1>2, PickedIs

\* What the server stores is in order, whatever it is sent.
LEMMA SanitizedOK ==
  ASSUME NEW c, DOMAIN c = ConfigFields, IsSequence(c.fields)
  PROVE  ConfigOK(Sanitized(c))
  <1> DEFINE d == SanitizedFields(c)
             r == Sanitized(c)
             allowed == c.allowed \cap FieldIds(d)
             list == FirstOnes(Filtered(c.fields, Builtin))
  <1>1. DOMAIN d = ConfigFields /\ d.builtin = {Builtin} /\ d.fields = list
    BY DEF SanitizedFields, ConfigFields
  <1>2. /\ DOMAIN r = ConfigFields /\ r.builtin = {Builtin} /\ r.fields = list
        /\ r.allowed = allowed \cup Required
        /\ r.defaults = (c.defaults \cap allowed) \cup Required
    BY <1>1 DEF Sanitized, SanitizedFields, ConfigFields
  <1>3. IsSequence(list) /\ Elems(list) = Elems(c.fields) \ {Builtin}
    BY FilteredIs, FirstOnesAre
  <1>4. FieldIds(r) = FieldIds(d) /\ Required \subseteq FieldIds(d) /\ Builtin \notin CustomIds(r)
    BY <1>1, <1>2, <1>3, IdsOf DEF Required
  <1> HIDE DEF r, d, list
  <1> QED BY <1>2, <1>3, <1>4 DEF ConfigOK, PresetsOK, r

LEMMA FieldsInitInv == FieldsInit => FieldsInv
  <1> SUFFICES ASSUME NEW raw \in RawConfigs, page = FieldsStart(Sanitized(raw)), calls = <<>>,
                      server = FieldsServer(Sanitized(raw))
               PROVE  FieldsInv
    BY DEF FieldsInit
  <1>1. ConfigOK(Sanitized(raw))
    BY SanitizedOK DEF RawConfigs, ConfigFields, IsSequence
  <1> QED BY <1>1, Few DEF FieldsInv, FieldsStart, FieldsServer, ConfigOK

\* What the page edits.
LEMMA EditedConfig ==
  ASSUME FieldsInv, NEW STATE c, c = page.config
  PROVE  /\ DOMAIN c = ConfigFields /\ IsSequence(c.fields) /\ FieldIds(c) = c.builtin \cup Elems(c.fields)
         /\ c.defaults \subseteq c.allowed /\ c.allowed \subseteq c.builtin \cup Elems(c.fields)
         /\ ~page.taken => c.builtin = {0} /\ 0 \notin Elems(c.fields) /\ 0 \in c.defaults
  BY IdsOf DEF FieldsInv, PresetsOK, ConfigOK, Required, Builtin

\* The page has another configuration: as good as this one, unless a custom
\* field has taken the identifier of the built-in one.
LEMMA EditConfigInv ==
  ASSUME FieldsInv, NEW STATE d, EditConfig(d), DOMAIN d = ConfigFields, IsSequence(d.fields),
         d.defaults \subseteq d.allowed, d.allowed \subseteq d.builtin \cup Elems(d.fields),
         page.taken \/ 0 \in Elems(d.fields) \/ (d.builtin = {0} /\ 0 \in d.defaults)
  PROVE  FieldsInv'
  <1>1. /\ page' = [page EXCEPT !.config = d, !.dirty = TRUE, !.taken = @ \/ Builtin \in CustomIds(d)]
        /\ UNCHANGED <<calls, server>>
    BY DEF EditConfig, Show
  <1>2. CustomIds(d) = Elems(d.fields) /\ PresetsOK(d)
    BY IdsOf DEF PresetsOK
  <1>3. page.taken \/ Builtin \in CustomIds(d) \/ ConfigOK(d)
    BY <1>2 DEF ConfigOK, Required, Builtin
  <1>4. /\ DOMAIN page' = DOMAIN page /\ page'.at = page.at /\ page'.saving = page.saving /\ page'.config = d
        /\ page'.taken = (page.taken \/ Builtin \in CustomIds(d))
    BY <1>1 DEF FieldsInv
  <1> QED BY <1>1, <1>2, <1>3, <1>4 DEF FieldsInv

\* A field more or less.
LEMMA FieldListInv ==
  ASSUME FieldsInv, AddCustomField \/ AddCandidateField \/ RemoveCustomField \/ UpdateField
  PROVE  FieldsInv'
  <1> DEFINE c == page.config
  <1>1. /\ DOMAIN c = ConfigFields /\ IsSequence(c.fields) /\ FieldIds(c) = c.builtin \cup Elems(c.fields)
        /\ c.defaults \subseteq c.allowed /\ c.allowed \subseteq c.builtin \cup Elems(c.fields)
        /\ ~page.taken => c.builtin = {0} /\ 0 \notin Elems(c.fields) /\ 0 \in c.defaults
    BY EditedConfig
  <1> HIDE DEF c
  <1>2. ASSUME NEW STATE id, EditConfig([c EXCEPT !.fields = Append(@, id)])
        PROVE  FieldsInv'
    <2> DEFINE d == [c EXCEPT !.fields = Append(@, id)]
    <2>1. /\ DOMAIN d = ConfigFields /\ d.fields = Append(c.fields, id) /\ d.builtin = c.builtin
          /\ d.allowed = c.allowed /\ d.defaults = c.defaults
      BY <1>1 DEF ConfigFields
    <2>2. EditConfig(d)
      BY <1>2
    <2> HIDE DEF d
    <2>3. IsSequence(d.fields) /\ Elems(c.fields) \subseteq Elems(d.fields)
      BY <1>1, <2>1, Appended
    <2> QED BY <1>1, <2>1, <2>2, <2>3, EditConfigInv
  <1>3. CASE AddCustomField
    <2>1. EditConfig([c EXCEPT !.fields = Append(@, Len(c.fields) + 1)])
      BY <1>3 DEF AddCustomField, c
    <2> QED BY <1>2, <2>1
  <1>4. CASE AddCandidateField
    <2>1. PICK id \in 1 .. MaxField : EditConfig([c EXCEPT !.fields = Append(@, id)])
      BY <1>4 DEF AddCandidateField, c
    <2> QED BY <1>2, <2>1
  <1>5. CASE RemoveCustomField
    <2>1. PICK id \in CustomIds(c) : EditConfig(Removed(c, id))
      BY <1>5 DEF RemoveCustomField, c
    <2> DEFINE d == Removed(c, id)
    <2>2. id \in Elems(c.fields)
      BY IdsOf
    <2>3. /\ DOMAIN d = ConfigFields /\ d.fields = Filtered(c.fields, id) /\ d.builtin = c.builtin \ {id}
          /\ d.allowed = c.allowed \ {id} /\ d.defaults = c.defaults \ {id}
      BY <1>1 DEF Removed, ConfigFields
    <2>4. EditConfig(d)
      BY <2>1
    <2> HIDE DEF d
    <2>5. IsSequence(d.fields) /\ Elems(d.fields) = Elems(c.fields) \ {id}
      BY <1>1, <2>3, FilteredIs
    <2>6. d.defaults \subseteq d.allowed /\ d.allowed \subseteq d.builtin \cup Elems(d.fields)
      BY <1>1, <2>3, <2>5
    <2>7. page.taken \/ (d.builtin = {0} /\ 0 \in d.defaults)
      BY <1>1, <2>2, <2>3
    <2> QED BY <2>3, <2>4, <2>5, <2>6, <2>7, EditConfigInv
  <1>6. CASE UpdateField
    <2> DEFINE d == [c EXCEPT !.labels = 3 - @]
    <2>1. /\ DOMAIN d = ConfigFields /\ d.fields = c.fields /\ d.builtin = c.builtin
          /\ d.allowed = c.allowed /\ d.defaults = c.defaults
      BY <1>1 DEF ConfigFields
    <2>2. EditConfig(d)
      BY <1>6 DEF UpdateField, c
    <2> HIDE DEF d
    <2> QED BY <1>1, <2>1, <2>2, EditConfigInv
  <1> QED BY <1>3, <1>4, <1>5, <1>6

\* A field that is renamed is renamed in the presets, into another's name too,
\* together with whatever has its identifier.
LEMMA RenameFieldInv ==
  ASSUME FieldsInv, RenameCustomField
  PROVE  FieldsInv'
  <1> DEFINE c == page.config
  <1>1. /\ DOMAIN c = ConfigFields /\ IsSequence(c.fields) /\ FieldIds(c) = c.builtin \cup Elems(c.fields)
        /\ c.defaults \subseteq c.allowed /\ c.allowed \subseteq c.builtin \cup Elems(c.fields)
        /\ ~page.taken => c.builtin = {0} /\ 0 \notin Elems(c.fields) /\ 0 \in c.defaults
    BY EditedConfig
  <1> HIDE DEF c
  <1>2. PICK old \in CustomIds(c), id \in {Builtin} \cup 1 .. MaxField :
          EditConfig(RenameInContexts(Renamed(c, old, id), old, id))
    BY DEF RenameCustomField, c
  <1> DEFINE t == [j \in DOMAIN c.fields |-> IF c.fields[j] = old THEN id ELSE c.fields[j]]
             d == RenameInContexts(Renamed(c, old, id), old, id)
  <1>3. old \in Elems(c.fields)
    BY IdsOf
  <1>4. /\ DOMAIN d = ConfigFields /\ d.fields = t /\ d.builtin = Swap(c.builtin, old, id)
        /\ d.allowed = Swap(c.allowed, old, id) /\ d.defaults = Swap(c.defaults, old, id)
    BY <1>1 DEF RenameInContexts, Renamed, ConfigFields
  <1>5. /\ DOMAIN t = DOMAIN c.fields /\ t = [i \in DOMAIN c.fields |-> t[i]]
        /\ \A j \in DOMAIN c.fields : t[j] = IF c.fields[j] = old THEN id ELSE c.fields[j]
    OBVIOUS
  <1>6. EditConfig(d)
    BY <1>2
  <1> HIDE DEF t, d
  <1>7. IsSequence(t) /\ Elems(t) = {t[i] : i \in DOMAIN c.fields}
    BY <1>1, <1>5, Mapped
  <1>8. Elems(t) = Swap(Elems(c.fields), old, id)
    BY <1>5, <1>7 DEF Swap, Elems
  <1>9. d.defaults \subseteq d.allowed
    BY <1>1, <1>4 DEF Swap
  <1>10. d.allowed \subseteq d.builtin \cup Elems(d.fields)
    BY <1>1, <1>4, <1>8 DEF Swap
  <1>11. page.taken \/ (d.builtin = {0} /\ 0 \in d.defaults)
    <2> SUFFICES ASSUME ~page.taken PROVE d.builtin = {0} /\ 0 \in d.defaults
      OBVIOUS
    <2>1. old # 0 /\ c.builtin = {0} /\ 0 \in c.defaults
      BY <1>1, <1>3
    <2> QED BY <1>4, <2>1 DEF Swap
  <1> QED BY <1>4, <1>6, <1>7, <1>9, <1>10, <1>11, EditConfigInv

\* What is shown in a destination.
LEMMA TogglePresetInv ==
  ASSUME FieldsInv, ToggleAllowed \/ ToggleDefault
  PROVE  FieldsInv'
  <1> DEFINE c == page.config
  <1>1. /\ DOMAIN c = ConfigFields /\ IsSequence(c.fields) /\ FieldIds(c) = c.builtin \cup Elems(c.fields)
        /\ c.defaults \subseteq c.allowed /\ c.allowed \subseteq c.builtin \cup Elems(c.fields)
        /\ ~page.taken => c.builtin = {0} /\ 0 \notin Elems(c.fields) /\ 0 \in c.defaults
    BY EditedConfig
  <1> HIDE DEF c
  <1>2. ASSUME NEW STATE allowed, NEW STATE defaults, c.defaults \cap {0} \subseteq defaults,
               defaults \subseteq allowed, allowed \subseteq FieldIds(c),
               EditConfig([c EXCEPT !.allowed = allowed, !.defaults = defaults])
        PROVE  FieldsInv'
    <2> DEFINE d == [c EXCEPT !.allowed = allowed, !.defaults = defaults]
    <2>1. /\ DOMAIN d = ConfigFields /\ d.fields = c.fields /\ d.builtin = c.builtin
          /\ d.allowed = allowed /\ d.defaults = defaults
      BY <1>1 DEF ConfigFields
    <2>2. EditConfig(d)
      BY <1>2
    <2> HIDE DEF d
    <2> QED BY <1>1, <1>2, <2>1, <2>2, EditConfigInv
  <1>3. CASE ToggleAllowed
    <2>1. PICK id \in FieldIds(c) \ Required :
            IF id \in c.allowed
            THEN EditConfig([c EXCEPT !.allowed = @ \ {id}, !.defaults = @ \ {id}])
            ELSE EditConfig([c EXCEPT !.allowed = @ \cup {id}])
      BY <1>3 DEF ToggleAllowed, c
    <2>2. CASE id \in c.allowed
      <3> DEFINE allowed  == c.allowed \ {id}
                 defaults == c.defaults \ {id}
      <3>1. EditConfig([c EXCEPT !.allowed = allowed, !.defaults = defaults]) /\ id # 0
        BY <2>1, <2>2 DEF Required, Builtin
      <3>2. /\ c.defaults \cap {0} \subseteq defaults
            /\ defaults \subseteq allowed /\ allowed \subseteq FieldIds(c)
        BY <1>1, <3>1
      <3> HIDE DEF allowed, defaults
      <3> QED BY <1>2, <3>1, <3>2
    <2>3. CASE id \notin c.allowed
      <3> DEFINE allowed  == c.allowed \cup {id}
                 defaults == c.defaults
      <3>1. EditConfig([c EXCEPT !.allowed = allowed, !.defaults = defaults])
        <4>1. [c EXCEPT !.allowed = @ \cup {id}] = [c EXCEPT !.allowed = allowed, !.defaults = defaults]
          BY <1>1 DEF ConfigFields
        <4> QED BY <2>1, <2>3, <4>1
      <3>2. /\ c.defaults \cap {0} \subseteq defaults
            /\ defaults \subseteq allowed /\ allowed \subseteq FieldIds(c)
        BY <1>1
      <3> HIDE DEF allowed, defaults
      <3> QED BY <1>2, <3>1, <3>2
    <2> QED BY <2>2, <2>3
  <1>4. CASE ToggleDefault
    <2>1. PICK id \in c.allowed \ {0} :
            EditConfig([c EXCEPT !.defaults = IF id \in @ THEN @ \ {id} ELSE @ \cup {id}])
      BY <1>4 DEF ToggleDefault, Required, Builtin, c
    <2> DEFINE defaults == IF id \in c.defaults THEN c.defaults \ {id} ELSE c.defaults \cup {id}
    <2>2. [c EXCEPT !.defaults = defaults] = [c EXCEPT !.allowed = c.allowed, !.defaults = defaults]
      BY <1>1 DEF ConfigFields
    <2>3. c.defaults \cap {0} \subseteq defaults /\ defaults \subseteq c.allowed
      BY <1>1
    <2>4. EditConfig([c EXCEPT !.allowed = c.allowed, !.defaults = defaults])
      BY <2>1, <2>2
    <2> HIDE DEF defaults
    <2> QED BY <1>1, <1>2, <2>3, <2>4
  <1> QED BY <1>3, <1>4

LEMMA SubmitConfigInv ==
  ASSUME FieldsInv, NEW op \in {"save", "reset", "rebuild"}, SubmitConfig(op)
  PROVE  FieldsInv'
  <1> DEFINE c == Call(op, IF op = "save" THEN page.config ELSE Absent)
  <1>1. page' = [page EXCEPT !.saving = TRUE] /\ calls' = calls \o <<c>> /\ UNCHANGED server
    BY DEF SubmitConfig, Show, Send
  <1>2. FieldsCallOK(c)
    BY DEF FieldsInv, FieldsCallOK, Call, CallFields
  <1> HIDE DEF c
  <1>3. IsSequence(calls') /\ Elems(calls') = Elems(calls) \cup {c}
    BY <1>1, Few, Joined DEF FieldsInv
  <1> QED BY <1>1, <1>2, <1>3 DEF FieldsInv

LEMMA ServeConfigInv ==
  ASSUME FieldsInv, SaveFieldConfig \/ Lose \/ OtherSaves
  PROVE  FieldsInv'
  <1>1. CASE OtherSaves
    <2> DEFINE d == [server.config EXCEPT !.labels = 3 - @]
    <2>1. server' = [config |-> d, others |-> TRUE] /\ UNCHANGED <<page, calls>>
      BY <1>1 DEF OtherSaves
    <2>2. /\ DOMAIN d = ConfigFields /\ d.fields = server.config.fields /\ d.builtin = server.config.builtin
          /\ d.allowed = server.config.allowed /\ d.defaults = server.config.defaults
      BY DEF FieldsInv, ConfigOK, PresetsOK, ConfigFields
    <2> HIDE DEF d
    <2>3. ConfigOK(d)
      BY <2>2, IdsOf DEF FieldsInv, ConfigOK, PresetsOK
    <2> QED BY <2>1, <2>3 DEF FieldsInv
  <1>2. CASE SaveFieldConfig \/ Lose
    <2>1. PICK i, r :
            /\ i \in DOMAIN calls
            /\ Reply(i, r) /\ UNCHANGED page
            /\ \/ r = Failure /\ UNCHANGED server
               \/ /\ r = (CASE calls[i].op = "save"    -> Sanitized(calls[i].args)
                            [] calls[i].op = "reset"   -> Defaults
                            [] calls[i].op = "rebuild" -> server.config)
                  /\ server' = [server EXCEPT !.config = r]
      BY <1>2 DEF SaveFieldConfig, Lose
    <2>2. calls[i] \in Elems(calls)
      BY <2>1 DEF Elems
    <2>3. FieldsCallOK(calls[i])
      BY <2>2 DEF FieldsInv
    <2>4. ConfigOK(Defaults)
      <3>1. CustomIds(Defaults) = {} /\ FieldIds(Defaults) = {Builtin} /\ IsSequence(<<>>)
        BY Few, IdsOf DEF Defaults, Config
      <3> QED BY <3>1 DEF Defaults, Config, ConfigOK, PresetsOK, ConfigFields, Required
    <2>5. calls[i].op = "save" => ConfigOK(Sanitized(calls[i].args))
      BY <2>3, SanitizedOK DEF FieldsCallOK, PresetsOK
    <2>6. r = Failure \/ ConfigOK(r)
      BY <2>1, <2>3, <2>4, <2>5 DEF FieldsInv, FieldsCallOK
    <2>7. PICK c : /\ DOMAIN c = CallFields /\ c.op = calls[i].op /\ c.args = calls[i].args /\ c.reply = r
                   /\ IsSequence(calls') /\ Elems(calls') \subseteq Elems(calls) \cup {c}
                   /\ c \in Elems(calls')
      BY <2>1, <2>3, Answered DEF FieldsInv, FieldsCallOK
    <2>8. FieldsCallOK(c)
      BY <2>3, <2>6, <2>7 DEF FieldsCallOK
    <2>9. DOMAIN server' = {"config", "others"} /\ ConfigOK(server'.config)
      <3>1. CASE UNCHANGED server
        BY <3>1 DEF FieldsInv
      <3>2. CASE server' = [server EXCEPT !.config = r] /\ ConfigOK(r)
        BY <3>2 DEF FieldsInv
      <3>3. ConfigOK(r) \/ UNCHANGED server
        BY <2>1, <2>3, <2>4, <2>5 DEF FieldsInv, FieldsCallOK
      <3> QED BY <2>1, <3>1, <3>2, <3>3
    <2> QED BY <2>1, <2>7, <2>8, <2>9 DEF FieldsInv
  <1> QED BY <1>1, <1>2

LEMMA ConfigAnswerInv ==
  ASSUME FieldsInv, ConfigAnswer
  PROVE  FieldsInv'
  <1>1. PICK i \in DOMAIN calls :
          /\ calls[i].reply # Absent
          /\ page' = IF Failed(i) THEN [page EXCEPT !.saving = FALSE, !.dirty = TRUE]
                     ELSE [page EXCEPT !.saving = FALSE, !.config = calls[i].reply, !.dirty = FALSE, !.taken = FALSE]
          /\ calls' = Others(i) /\ server' = server
    BY DEF ConfigAnswer, IsAnswered, Confirmed, Show, Take
  <1>2. IsSequence(calls') /\ Elems(calls') \subseteq Elems(calls) /\ calls[i] \in Elems(calls)
    BY <1>1, Remaining DEF FieldsInv
  <1>3. ~Failed(i) => ConfigOK(calls[i].reply)
    BY <1>1, <1>2 DEF FieldsInv, FieldsCallOK, Failed
  <1> QED BY <1>1, <1>2, <1>3 DEF FieldsInv, ConfigOK

LEMMA FieldsNextInv == FieldsInv /\ [FieldsNext \/ Lose]_vars => FieldsInv'
  <1> SUFFICES ASSUME FieldsInv, [FieldsNext \/ Lose]_vars PROVE FieldsInv'
    OBVIOUS
  <1>1. CASE UNCHANGED vars
    BY <1>1 DEF vars, FieldsInv
  <1> QED BY <1>1, FieldListInv, RenameFieldInv, TogglePresetInv, SubmitConfigInv, ServeConfigInv, ConfigAnswerInv DEF FieldsNext

-------------------------------------------------------------------------------

\* In every configuration, edited, stored or on its way, the presets name fields
\* there are; a stored one is in order whatever was sent, and so is an edited one
\* until a custom field takes the identifier of the built-in one
\* (AdminFieldsPage.tsx:218-291, field_config.py:1013-1125).
THEOREM FieldsInvariant == FieldsSpec => []FieldsInv
  BY FieldsInitInv, FieldsNextInv, PTL DEF FieldsSpec

\* For any number of fields, edits and requests, the presets name fields there
\* are, start from fields that may be shown and, where they are stored, keep the
\* required ones, even if a page sends a configuration that has lost the built-in
\* field (AdminFieldsPage.tsx:218-291, field_config.py:1056-1118).
THEOREM PresetsAreNamed == FieldsSpec => []PresetsNameFields
  <1>1. FieldsInv => PresetsNameFields
    BY DEF FieldsInv, ConfigOK, PresetsOK, PresetsNameFields
  <1> QED BY <1>1, FieldsInvariant, PTL

-------------------------------------------------------------------------------
(* The columns alone, whatever is configured and stored for the tables,    *)
(* with the required columns among the allowed ones.                       *)

TablesOK(config) ==
  DOMAIN config = Tables /\ \A t \in Tables :
    /\ DOMAIN config[t] = {"allowed", "default"}
    /\ IsSequence(config[t].allowed) /\ IsSequence(config[t].default)
    /\ Elems(MustShow) \subseteq Elems(config[t].allowed)

ChoicesOK(prefs) ==
  /\ DOMAIN prefs = {"contexts", "reviews"} /\ DOMAIN prefs.contexts = Tables
  /\ \A t \in Tables : DOMAIN prefs.contexts[t] = {"ids", "useDefault"} /\ IsSequence(prefs.contexts[t].ids)

ColumnsInit == \E config, prefs :
  /\ TablesOK(config) /\ ChoicesOK(prefs)
  /\ page = ColumnsStart
  /\ calls = ColumnsCalls
  /\ server = ColumnsServer(config, prefs)
  /\ left \in Nat

ColumnsSpec == ColumnsInit /\ [][ColumnsNext \/ Lose]_vars

ColumnsCallOK(c) ==
  /\ DOMAIN c = CallFields /\ c.op \in {"fieldConfig", "preferences"}
  /\ c.op = "fieldConfig" /\ c.reply \notin {Absent, Failure} => TablesOK(c.reply.config) /\ ChoicesOK(c.reply.prefs)
  /\ c.op = "preferences" => ChoicesOK(c.args) /\ (c.reply \notin {Absent, Failure} => ChoicesOK(c.reply))

ColumnsInv ==
  /\ DOMAIN page = {"at", "config", "prefs", "doubt", "blind", "chosen"} /\ page.at = "columns"
  /\ page.config # Absent => TablesOK(page.config) /\ ChoicesOK(page.prefs)
  /\ page.prefs # Absent => ChoicesOK(page.prefs)
  /\ DOMAIN server = {"config", "stored", "loaded"} /\ TablesOK(server.config) /\ ChoicesOK(server.stored)
  /\ IsSequence(calls) /\ \A c \in Elems(calls) : ColumnsCallOK(c)

-------------------------------------------------------------------------------
(* Lists of columns.                                                       *)

LEMMA ContainsIs ==
  ASSUME NEW s, IsSequence(s), NEW x
  PROVE  Contains(s, x) <=> x \in Elems(s)
  <1>1. DOMAIN s = 1 .. Len(s)
    BY LenProperties DEF IsSequence
  <1> QED BY <1>1 DEF Contains, Elems

LEMMA OnlyIs ==
  ASSUME NEW ids, IsSequence(ids), NEW allowed, IsSequence(allowed)
  PROVE  /\ IsSequence(Only(ids, allowed)) /\ Elems(Only(ids, allowed)) = Elems(ids) \cap Elems(allowed)
         /\ Distinct(ids) => Distinct(Only(ids, allowed))
  <1> DEFINE K == {k \in DOMAIN ids : Contains(allowed, ids[k])}
  <1>1. K \in SUBSET (DOMAIN ids) /\ Only(ids, allowed) = Picked(ids, K)
    BY DEF Only
  <1>2. {ids[k] : k \in K} = Elems(ids) \cap Elems(allowed)
    BY ContainsIs DEF Elems
  <1> HIDE DEF K
  <1> QED BY <1>1, <1>2, PickedIs DEF Distinct

LEMMA ExcludingIs ==
  ASSUME NEW ids, IsSequence(ids), NEW others, IsSequence(others)
  PROVE  /\ IsSequence(Excluding(ids, others)) /\ Elems(Excluding(ids, others)) = Elems(ids) \ Elems(others)
         /\ Distinct(ids) => Distinct(Excluding(ids, others))
  <1> DEFINE K == {k \in DOMAIN ids : ~Contains(others, ids[k])}
  <1>1. K \in SUBSET (DOMAIN ids) /\ Excluding(ids, others) = Picked(ids, K)
    BY DEF Excluding
  <1>2. {ids[k] : k \in K} = Elems(ids) \ Elems(others)
    BY ContainsIs DEF Elems
  <1> HIDE DEF K
  <1> QED BY <1>1, <1>2, PickedIs DEF Distinct

LEMMA ReverseIs ==
  ASSUME NEW s, IsSequence(s)
  PROVE  IsSequence(Reverse(s)) /\ Elems(Reverse(s)) = Elems(s) /\ (Distinct(s) => Distinct(Reverse(s)))
  <1>1. PICK S : s \in Seq(S)
    BY DEF IsSequence
  <1>2. Len(s) \in Nat /\ DOMAIN s = 1 .. Len(s)
    BY <1>1, LenProperties
  <1> DEFINE t == Reverse(s)
             N == Len(s)
  <1>3. t = [k \in 1 .. N |-> s[N - k + 1]]
    BY DEF Reverse
  <1>4. \A k \in 1 .. N : s[N - k + 1] \in S /\ N - k + 1 \in 1 .. N /\ N - (N - k + 1) + 1 = k
    BY <1>1, <1>2, ElementOfSeq
  <1> HIDE DEF t, N
  <1>5. t \in Seq(S) /\ DOMAIN t = 1 .. N /\ \A k \in 1 .. N : t[k] = s[N - k + 1]
    BY <1>2, <1>3, <1>4, IsASeq DEF N
  <1>6. Elems(t) = Elems(s)
    <2>1. \A k \in 1 .. N : t[k] \in Elems(s)
      BY <1>2, <1>4, <1>5 DEF Elems, N
    <2>2. \A k \in 1 .. N : t[N - k + 1] = s[k]
      BY <1>4, <1>5
    <2>3. \A k \in 1 .. N : s[k] \in Elems(t)
      BY <1>4, <1>5, <2>2 DEF Elems
    <2> QED BY <1>2, <1>5, <2>1, <2>3 DEF Elems, N
  <1>7. ASSUME Distinct(s) PROVE Distinct(t)
    <2> SUFFICES ASSUME NEW i \in 1 .. N, NEW j \in 1 .. N, t[i] = t[j] PROVE i = j
      BY <1>5 DEF Distinct
    <2>1. N - i + 1 = N - j + 1
      BY <1>2, <1>4, <1>5, <1>7 DEF Distinct, N
    <2> QED BY <1>2, <2>1 DEF N
  <1> QED BY <1>5, <1>6, <1>7 DEF IsSequence, t

LEMMA DistinctJoined ==
  ASSUME NEW s, NEW t, IsSequence(s), IsSequence(t), Distinct(s), Distinct(t), Elems(s) \cap Elems(t) = {}
  PROVE  Distinct(s \o t)
  <1>1. PICK S : s \in Seq(S)
    BY DEF IsSequence
  <1>2. PICK T : t \in Seq(T)
    BY DEF IsSequence
  <1>3. s \in Seq(S \cup T) /\ t \in Seq(S \cup T)
    BY <1>1, <1>2, SeqMonotonic
  <1>4. /\ s \o t \in Seq(S \cup T) /\ Len(s \o t) = Len(s) + Len(t)
        /\ \A j \in 1 .. Len(s) + Len(t) : (s \o t)[j] = IF j <= Len(s) THEN s[j] ELSE t[j - Len(s)]
    BY <1>3, ConcatProperties
  <1>5. /\ Len(s) \in Nat /\ Len(t) \in Nat /\ DOMAIN s = 1 .. Len(s) /\ DOMAIN t = 1 .. Len(t)
        /\ DOMAIN (s \o t) = 1 .. Len(s) + Len(t)
    BY <1>3, <1>4, LenProperties
  <1>6. \A j \in 1 .. Len(s) + Len(t) :
          \/ j \in DOMAIN s /\ (s \o t)[j] = s[j] /\ s[j] \in Elems(s)
          \/ j - Len(s) \in DOMAIN t /\ (s \o t)[j] = t[j - Len(s)] /\ t[j - Len(s)] \in Elems(t)
    <2> SUFFICES ASSUME NEW j \in 1 .. Len(s) + Len(t)
                 PROVE  \/ j \in DOMAIN s /\ (s \o t)[j] = s[j] /\ s[j] \in Elems(s)
                        \/ j - Len(s) \in DOMAIN t /\ (s \o t)[j] = t[j - Len(s)] /\ t[j - Len(s)] \in Elems(t)
      OBVIOUS
    <2>1. CASE j <= Len(s)
      BY <1>4, <1>5, <2>1 DEF Elems
    <2>2. CASE ~(j <= Len(s))
      <3>1. j - Len(s) \in 1 .. Len(t) /\ (s \o t)[j] = t[j - Len(s)]
        BY <1>4, <1>5, <2>2
      <3> QED BY <1>5, <3>1 DEF Elems
    <2> QED BY <2>1, <2>2
  <1>7. ASSUME NEW i \in 1 .. Len(s) + Len(t), NEW j \in 1 .. Len(s) + Len(t), (s \o t)[i] = (s \o t)[j]
        PROVE  i = j
    <2> DEFINE u == s \o t
    <2>1. /\ \/ i \in DOMAIN s /\ u[i] = s[i] /\ s[i] \in Elems(s)
             \/ i - Len(s) \in DOMAIN t /\ u[i] = t[i - Len(s)] /\ t[i - Len(s)] \in Elems(t)
          /\ \/ j \in DOMAIN s /\ u[j] = s[j] /\ s[j] \in Elems(s)
             \/ j - Len(s) \in DOMAIN t /\ u[j] = t[j - Len(s)] /\ t[j - Len(s)] \in Elems(t)
          /\ u[i] = u[j]
      BY <1>6, <1>7
    <2> HIDE DEF u
    <2>2. i = j \/ i - Len(s) = j - Len(s)
      BY <2>1 DEF Distinct
    <2> QED BY <1>5, <2>2
  <1> QED BY <1>5, <1>7 DEF Distinct

\* The required columns come first, unless they are there.
LEMMA WithRequiredIs ==
  ASSUME NEW ids, IsSequence(ids), NEW required, IsSequence(required)
  PROVE  /\ IsSequence(WithRequired(ids, required))
         /\ Elems(WithRequired(ids, required)) = Elems(required) \cup Elems(ids)
         /\ Distinct(ids) /\ Distinct(required) => Distinct(WithRequired(ids, required))
  <1> DEFINE w == Excluding(required, ids)
             r == Reverse(w)
  <1>1. /\ IsSequence(w) /\ Elems(w) = Elems(required) \ Elems(ids)
        /\ Distinct(required) => Distinct(w)
    BY ExcludingIs
  <1> HIDE DEF w
  <1>2. IsSequence(r) /\ Elems(r) = Elems(w) /\ (Distinct(w) => Distinct(r))
    BY <1>1, ReverseIs
  <1>3. WithRequired(ids, required) = r \o ids
    BY DEF WithRequired, w
  <1> HIDE DEF r
  <1>4. IsSequence(r \o ids) /\ Elems(r \o ids) = Elems(r) \cup Elems(ids)
    BY <1>2, Joined
  <1>5. Distinct(ids) /\ Distinct(required) => Distinct(r \o ids)
    BY <1>1, <1>2, DistinctJoined
  <1> QED BY <1>1, <1>2, <1>3, <1>4, <1>5

LEMMA DistinctCount ==
  ASSUME NEW s, IsSequence(s), Distinct(s)
  PROVE  Len(s) = Cardinality(Elems(s))
  <1>1. PICK S : s \in Seq(S)
    BY DEF IsSequence
  <1>2. Len(s) \in Nat /\ DOMAIN s = 1 .. Len(s) /\ s = [i \in 1 .. Len(s) |-> s[i]]
    BY <1>1, LenProperties
  <1> DEFINE f == [i \in 1 .. Len(s) |-> s[i]]
  <1>3. f \in Bijection(1 .. Len(s), Elems(s))
    <2>1. f \in [1 .. Len(s) -> Elems(s)]
      BY <1>2 DEF Elems
    <2>2. \A i, j \in 1 .. Len(s) : f[i] = f[j] => i = j
      BY <1>2 DEF Distinct
    <2>3. \A x \in Elems(s) : \E i \in 1 .. Len(s) : f[i] = x
      BY <1>2 DEF Elems
    <2> HIDE DEF f
    <2> QED BY <2>1, <2>2, <2>3 DEF Bijection, Injection, IsInjective, Surjection
  <1>4. ExistsBijection(1 .. Len(s), Elems(s))
    BY <1>3 DEF ExistsBijection
  <1>5. IsFiniteSet(1 .. Len(s)) /\ Cardinality(1 .. Len(s)) = Len(s)
    BY <1>2, FS_Interval
  <1> QED BY <1>4, <1>5, FS_Bijection

-------------------------------------------------------------------------------
(* Preferences.                                                            *)

LEMMA RequiredIs == IsSequence(MustShow) /\ Distinct(MustShow)
  BY ColumnsAssumption DEF IsSequence, Distinct

\* What a preference is narrowed and completed to.
LEMMA Completed ==
  ASSUME NEW ids, IsSequence(ids), NEW allowed, IsSequence(allowed), NEW required, IsSequence(required),
         Distinct(required)
  PROVE  LET shown == WithRequired(FirstOnes(Only(ids, allowed)), required) IN
         /\ IsSequence(shown) /\ Distinct(shown)
         /\ Elems(shown) = Elems(required) \cup (Elems(ids) \cap Elems(allowed))
  <1> DEFINE o == Only(ids, allowed)
             f == FirstOnes(o)
  <1>1. IsSequence(o) /\ Elems(o) = Elems(ids) \cap Elems(allowed)
    BY OnlyIs
  <1> HIDE DEF o
  <1>2. IsSequence(f) /\ Elems(f) = Elems(o) /\ Distinct(f)
    BY <1>1, FirstOnesAre
  <1> HIDE DEF f
  <1>3. /\ IsSequence(WithRequired(f, required)) /\ Distinct(WithRequired(f, required))
        /\ Elems(WithRequired(f, required)) = Elems(required) \cup Elems(f)
    BY <1>2, WithRequiredIs
  <1> QED BY <1>1, <1>2, <1>3 DEF f, o

LEMMA RequiredAllowed ==
  ASSUME NEW allowed, IsSequence(allowed), Elems(MustShow) \subseteq Elems(allowed)
  PROVE  /\ IsSequence(Only(MustShow, allowed)) /\ Distinct(Only(MustShow, allowed))
         /\ Elems(Only(MustShow, allowed)) = Elems(MustShow)
  <1> DEFINE o == Only(MustShow, allowed)
  <1>1. IsSequence(MustShow) /\ Distinct(MustShow)
    BY RequiredIs
  <1>2. IsSequence(o) /\ Elems(o) = Elems(MustShow) \cap Elems(allowed) /\ (Distinct(MustShow) => Distinct(o))
    BY <1>1, OnlyIs
  <1> HIDE DEF o
  <1>3. Elems(o) = Elems(MustShow)
    BY <1>2
  <1> QED BY <1>1, <1>2, <1>3 DEF o

LEMMA SelectedIs ==
  ASSUME NEW config, TablesOK(config), NEW prefs, ChoicesOK(prefs), NEW t \in Tables
  PROVE  LET ids == SelectedFieldIds(config, prefs, t) IN
         /\ IsSequence(ids) /\ Distinct(ids)
         /\ Elems(ids) \subseteq Elems(config[t].allowed) /\ Elems(MustShow) \subseteq Elems(ids)
  <1> DEFINE chosen == IF prefs.contexts[t].ids = <<>> THEN config[t].default ELSE prefs.contexts[t].ids
             allowed == config[t].allowed
             required == Only(MustShow, allowed)
             shown == WithRequired(FirstOnes(Only(chosen, allowed)), required)
  <1>1. IsSequence(chosen) /\ IsSequence(allowed) /\ Elems(MustShow) \subseteq Elems(allowed)
    BY DEF TablesOK, ChoicesOK
  <1>2. SelectedFieldIds(config, prefs, t) = shown
    BY DEF SelectedFieldIds
  <1> HIDE DEF chosen, allowed
  <1>3. IsSequence(required) /\ Distinct(required) /\ Elems(required) = Elems(MustShow)
    BY <1>1, RequiredAllowed
  <1> HIDE DEF required
  <1>4. /\ IsSequence(shown) /\ Distinct(shown)
        /\ Elems(shown) = Elems(required) \cup (Elems(chosen) \cap Elems(allowed))
    BY <1>1, <1>3, Completed
  <1> HIDE DEF shown
  <1> QED BY <1>1, <1>2, <1>3, <1>4 DEF allowed

\* What is sent for one table, and what the server makes of it.
LEMMA UpdatedOK ==
  ASSUME NEW config, TablesOK(config), NEW prefs, ChoicesOK(prefs), NEW t \in Tables, NEW ids, IsSequence(ids)
  PROVE  ChoicesOK(UpdateContextSelection(config, prefs, t, ids))
  <1> DEFINE allowed == config[t].allowed
             sent == WithRequired(FirstOnes(Only(ids, allowed)), Only(MustShow, allowed))
             next == UpdateContextSelection(config, prefs, t, ids)
  <1>1. IsSequence(sent)
    <2>1. IsSequence(allowed) /\ Elems(MustShow) \subseteq Elems(allowed)
      BY DEF TablesOK
    <2> HIDE DEF allowed
    <2> QED BY <2>1, RequiredAllowed, Completed
  <1>2. next = [contexts |-> [prefs.contexts EXCEPT ![t].ids = sent], reviews |-> NoPreferences.reviews]
    BY DEF UpdateContextSelection
  <1> HIDE DEF sent, next
  <1> QED BY <1>1, <1>2 DEF ChoicesOK, next

LEMMA StoredOK ==
  ASSUME NEW config, TablesOK(config), NEW raw, ChoicesOK(raw)
  PROVE  ChoicesOK(SanitizeUserFieldPreferences(raw, config))
  <1> DEFINE ids(t) == IF raw.contexts[t].ids = <<>> THEN config[t].default ELSE raw.contexts[t].ids
             kept(t) == WithRequired(FirstOnes(Only(ids(t), config[t].allowed)), MustShow)
             stored(t) == IF kept(t) = <<>> THEN config[t].default ELSE kept(t)
             next == SanitizeUserFieldPreferences(raw, config)
  <1>1. ASSUME NEW t \in Tables PROVE IsSequence(stored(t))
    <2>1. IsSequence(ids(t)) /\ IsSequence(config[t].allowed) /\ IsSequence(config[t].default)
      BY DEF TablesOK, ChoicesOK
    <2> HIDE DEF ids
    <2>2. IsSequence(kept(t))
      BY <2>1, RequiredIs, Completed
    <2> HIDE DEF kept
    <2> QED BY <2>1, <2>2
  <1>2. next = [raw EXCEPT !.contexts = [t \in Tables |-> [raw.contexts[t] EXCEPT !.ids = stored(t)]]]
    BY DEF SanitizeUserFieldPreferences
  <1> HIDE DEF stored, next
  <1>3. DOMAIN next = {"contexts", "reviews"} /\ next.contexts = [t \in Tables |-> [raw.contexts[t] EXCEPT !.ids = stored(t)]]
    BY <1>2 DEF ChoicesOK
  <1>4. \A t \in Tables : DOMAIN next.contexts[t] = {"ids", "useDefault"} /\ next.contexts[t].ids = stored(t)
    BY <1>3 DEF ChoicesOK
  <1> QED BY <1>1, <1>3, <1>4 DEF ChoicesOK, next

LEMMA KnownOK ==
  ASSUME ColumnsInv
  PROVE  ChoicesOK(Known(page.prefs))
  <1>1. ChoicesOK(NoPreferences)
    BY Few DEF ChoicesOK, NoPreferences, NoChoice
  <1> QED BY <1>1 DEF Known, ColumnsInv

-------------------------------------------------------------------------------
(* One lemma per kind of step.                                             *)

LEMMA ColumnsInitInv == ColumnsInit => ColumnsInv
  <1> SUFFICES ASSUME NEW config, NEW prefs, TablesOK(config), ChoicesOK(prefs), page = ColumnsStart,
                      calls = ColumnsCalls, server = ColumnsServer(config, prefs)
               PROVE  ColumnsInv
    BY DEF ColumnsInit
  <1>1. /\ DOMAIN page = {"at", "config", "prefs", "doubt", "blind", "chosen"} /\ page.at = "columns"
        /\ page.config = Absent /\ page.prefs = Absent
    BY DEF ColumnsStart
  <1>2. ColumnsCallOK(Call("fieldConfig", Absent))
    BY DEF ColumnsCallOK, Call, CallFields
  <1>3. IsSequence(calls) /\ Elems(calls) = {Call("fieldConfig", Absent)}
    BY Few DEF ColumnsCalls
  <1>4. /\ DOMAIN server = {"config", "stored", "loaded"} /\ server.config = config /\ server.stored = prefs
    BY DEF ColumnsServer
  <1> QED BY <1>1, <1>2, <1>3, <1>4 DEF ColumnsInv

LEMMA PersistInv ==
  ASSUME ColumnsInv, NEW t, NEW STATE next, ChoicesOK(next), PersistFieldPreferences(t, next)
  PROVE  ColumnsInv'
  <1> DEFINE c == Call("preferences", next)
  <1>1. /\ \E doubt, blind : page' = [page EXCEPT !.prefs = next, !.chosen = page.chosen \cup {t},
                                                  !.blind = blind, !.doubt = doubt]
        /\ calls' = calls \o <<c>> /\ UNCHANGED server
    BY DEF PersistFieldPreferences, Show, Send
  <1>2. ColumnsCallOK(c)
    BY DEF ColumnsCallOK, Call, CallFields
  <1> HIDE DEF c
  <1>3. IsSequence(calls') /\ Elems(calls') = Elems(calls) \cup {c}
    BY <1>1, Few, Joined DEF ColumnsInv
  <1>4. DOMAIN page' = DOMAIN page /\ page'.at = page.at /\ page'.config = page.config /\ page'.prefs = next
    BY <1>1 DEF ColumnsInv
  <1> QED BY <1>1, <1>2, <1>3, <1>4 DEF ColumnsInv

LEMMA SelectionInv ==
  ASSUME ColumnsInv, NEW t \in Tables, NEW STATE ids, IsSequence(ids), PersistFieldSelection(t, ids)
  PROVE  ColumnsInv'
  <1>1. page.config # Absent
    BY DEF PersistFieldSelection
  <1>2. ChoicesOK(UpdateContextSelection(page.config, page.prefs, t, ids))
    BY <1>1, UpdatedOK DEF ColumnsInv
  <1> QED BY <1>2, PersistInv DEF PersistFieldSelection

LEMMA ChooseColumnsInv ==
  ASSUME ColumnsInv, NEW t \in Tables, ToggleField(t) \/ MoveField(t) \/ SelectAll(t) \/ ResetFields(t)
  PROVE  ColumnsInv'
  <1> DEFINE ids == SelectedFieldIds(page.config, page.prefs, t)
  <1>1. page.config # Absent
    BY DEF ToggleField, MoveField, SelectAll, ResetFields, PersistFieldSelection
  <1>2. TablesOK(page.config) /\ ChoicesOK(page.prefs) /\ IsSequence(ids)
    BY <1>1, SelectedIs DEF ColumnsInv
  <1>3. CASE ToggleField(t)
    <2>1. PICK id : \/ PersistFieldSelection(t, Excluding(ids, <<id>>))
                    \/ PersistFieldSelection(t, Append(ids, id))
      BY <1>3 DEF ToggleField
    <2> HIDE DEF ids
    <2>2. IsSequence(Excluding(ids, <<id>>))
      BY <1>2, Few, ExcludingIs
    <2>3. IsSequence(Append(ids, id))
      <3>1. PICK S : ids \in Seq(S)
        BY <1>2 DEF IsSequence
      <3>2. ids \in Seq(S \cup {id})
        BY <3>1, SeqMonotonic
      <3> QED BY <3>2, AppendProperties DEF IsSequence
    <2>4. CASE PersistFieldSelection(t, Excluding(ids, <<id>>))
      BY <2>2, <2>4, SelectionInv DEF ids
    <2>5. CASE PersistFieldSelection(t, Append(ids, id))
      BY <2>3, <2>5, SelectionInv DEF ids
    <2> QED BY <2>1, <2>4, <2>5
  <1>4. CASE MoveField(t)
    <2>1. PICK k \in 1 .. Len(ids) - 1 :
            PersistFieldSelection(t, [ids EXCEPT ![k] = ids[k + 1], ![k + 1] = ids[k]])
      BY <1>4 DEF MoveField
    <2>2. IsSequence([ids EXCEPT ![k] = ids[k + 1], ![k + 1] = ids[k]])
      <3> HIDE DEF ids
      <3>1. PICK S : ids \in Seq(S)
        BY <1>2 DEF IsSequence
      <3>2. Len(ids) \in Nat /\ k \in 1 .. Len(ids) /\ k + 1 \in 1 .. Len(ids)
        BY <3>1, LenProperties
      <3>3. ids[k] \in S /\ ids[k + 1] \in S
        BY <3>1, <3>2, ElementOfSeq
      <3>4. [ids EXCEPT ![k] = ids[k + 1]] \in Seq(S) /\ Len([ids EXCEPT ![k] = ids[k + 1]]) = Len(ids)
        BY <3>1, <3>2, <3>3, ExceptSeq
      <3>5. [[ids EXCEPT ![k] = ids[k + 1]] EXCEPT ![k + 1] = ids[k]] \in Seq(S)
        BY <3>2, <3>3, <3>4, ExceptSeq
      <3> QED BY <3>5 DEF IsSequence
    <2> QED BY <2>1, <2>2, SelectionInv
  <1>5. CASE SelectAll(t)
    <2>1. IsSequence(ContextFields(page.config, t))
      BY <1>1, <1>2 DEF ContextFields, TablesOK
    <2> QED BY <1>5, <2>1, SelectionInv DEF SelectAll
  <1>6. CASE ResetFields(t)
    <2>1. IsSequence(page.config[t].default)
      BY <1>2 DEF TablesOK
    <2> QED BY <1>6, <2>1, SelectionInv DEF ResetFields
  <1> QED BY <1>3, <1>4, <1>5, <1>6

LEMMA ModeInv ==
  ASSUME ColumnsInv, NEW t \in Tables, ToggleReviews(t) \/ PersistFieldMode(t)
  PROVE  ColumnsInv'
  <1> DEFINE known == Known(page.prefs)
  <1>1. ChoicesOK(known)
    BY KnownOK
  <1>2. CASE ToggleReviews(t)
    <2> DEFINE next == UpdateReviewColumnVisibility(known, t, ~ReviewColumnVisible(known, t))
    <2>1. PersistFieldPreferences(t, next)
      BY <1>2 DEF ToggleReviews
    <2>2. ChoicesOK(next)
      <3> HIDE DEF known
      <3> QED BY <1>1 DEF UpdateReviewColumnVisibility, ChoicesOK
    <2> HIDE DEF next
    <2> QED BY <2>1, <2>2, PersistInv
  <1>3. CASE PersistFieldMode(t)
    <2>1. PICK useDefault \in BOOLEAN : PersistFieldPreferences(t, UpdateContextMode(known, t, useDefault))
      BY <1>3 DEF PersistFieldMode
    <2>2. ChoicesOK(UpdateContextMode(known, t, useDefault))
      <3> HIDE DEF known
      <3> QED BY <1>1 DEF UpdateContextMode, ChoicesOK
    <2> HIDE DEF known
    <2> QED BY <2>1, <2>2, PersistInv DEF known
  <1> QED BY <1>2, <1>3

\* A request is served or lost.
LEMMA ColumnsServed ==
  ASSUME LoadFieldConfig \/ StorePreferences \/ Lose
  PROVE  \E i, r :
          /\ i \in DOMAIN calls /\ Reply(i, r) /\ UNCHANGED page
          /\ \/ r = Failure /\ UNCHANGED server
             \/ /\ calls[i].op = "fieldConfig" /\ UNCHANGED server
                /\ r = [config |-> server.config,
                        prefs |-> SanitizeUserFieldPreferences(server.stored, server.config)]
             \/ /\ calls[i].op = "preferences"
                /\ server' = [server EXCEPT !.stored = SanitizeUserFieldPreferences(calls[i].args, server.config)]
                /\ r = server'.stored
  <1>1. CASE LoadFieldConfig
    BY <1>1 DEF LoadFieldConfig, IsAsked
  <1>2. CASE StorePreferences
    BY <1>2 DEF StorePreferences, IsAsked
  <1>3. CASE Lose
    BY <1>3 DEF Lose
  <1> QED BY <1>1, <1>2, <1>3

LEMMA ServeColumnsInv ==
  ASSUME ColumnsInv, LoadFieldConfig \/ StorePreferences \/ Lose
  PROVE  ColumnsInv'
  <1> DEFINE loaded == [config |-> server.config, prefs |-> SanitizeUserFieldPreferences(server.stored, server.config)]
  <1>1. PICK i, r :
          /\ i \in DOMAIN calls /\ Reply(i, r) /\ UNCHANGED page
          /\ \/ r = Failure /\ UNCHANGED server
             \/ calls[i].op = "fieldConfig" /\ r = loaded /\ UNCHANGED server
             \/ /\ calls[i].op = "preferences"
                /\ server' = [server EXCEPT !.stored = SanitizeUserFieldPreferences(calls[i].args, server.config)]
                /\ r = server'.stored
    BY ColumnsServed
  <1>2. calls[i] \in Elems(calls)
    BY <1>1 DEF Elems
  <1>3. ColumnsCallOK(calls[i])
    BY <1>2 DEF ColumnsInv
  <1>4. TablesOK(loaded.config) /\ ChoicesOK(loaded.prefs)
    BY StoredOK DEF ColumnsInv
  <1>5. DOMAIN server = {"config", "stored", "loaded"} /\ TablesOK(server.config) /\ ChoicesOK(server.stored)
    BY DEF ColumnsInv
  <1>6. calls[i].op = "preferences" => ChoicesOK(SanitizeUserFieldPreferences(calls[i].args, server.config))
    BY <1>3, <1>5, StoredOK DEF ColumnsCallOK
  <1>7. DOMAIN server' = {"config", "stored", "loaded"} /\ TablesOK(server'.config) /\ ChoicesOK(server'.stored)
    BY <1>1, <1>5, <1>6
  <1>8. \/ r = Failure
        \/ calls[i].op = "fieldConfig" /\ TablesOK(r.config) /\ ChoicesOK(r.prefs)
        \/ calls[i].op = "preferences" /\ ChoicesOK(r)
    BY <1>1, <1>4, <1>7
  <1> HIDE DEF loaded
  <1>0. Reply(i, r)
    BY <1>1
  <1>9. PICK c : /\ DOMAIN c = CallFields /\ c.op = calls[i].op /\ c.args = calls[i].args /\ c.reply = r
                 /\ IsSequence(calls') /\ Elems(calls') \subseteq Elems(calls) \cup {c}
    <2>1. IsSequence(calls) /\ DOMAIN calls[i] = CallFields
      BY <1>3 DEF ColumnsInv, ColumnsCallOK
    <2>2. i \in DOMAIN calls
      BY <1>1
    <2> QED BY <1>0, <2>1, <2>2, Answered
  <1>10. ColumnsCallOK(c)
    BY <1>3, <1>8, <1>9 DEF ColumnsCallOK
  <1> QED BY <1>1, <1>7, <1>9, <1>10 DEF ColumnsInv

\* A column that is taken away is not a required one.
LEMMA WithdrawInv ==
  ASSUME ColumnsInv, WithdrawField
  PROVE  ColumnsInv'
  <1>1. PICK t \in Tables : \E id \in ToSet(server.config[t].allowed) \ ToSet(MustShow) :
          /\ server' = [server EXCEPT !.config[t].allowed = Excluding(@, <<id>>),
                                      !.config[t].default = Excluding(@, <<id>>)]
          /\ UNCHANGED <<page, calls>>
    BY DEF WithdrawField
  <1>2. PICK id \in ToSet(server.config[t].allowed) \ ToSet(MustShow) :
          /\ server' = [server EXCEPT !.config[t].allowed = Excluding(@, <<id>>),
                                      !.config[t].default = Excluding(@, <<id>>)]
          /\ UNCHANGED <<page, calls>>
    BY <1>1
  <1> DEFINE old == server.config
             new == [old EXCEPT ![t] = [allowed |-> Excluding(old[t].allowed, <<id>>),
                                        default |-> Excluding(old[t].default, <<id>>)]]
  <1>3. DOMAIN server = {"config", "stored", "loaded"} /\ TablesOK(old)
    BY DEF ColumnsInv
  <1>4. server' = [server EXCEPT !.config = new]
    <2>1. DOMAIN old = Tables /\ DOMAIN old[t] = {"allowed", "default"}
      BY <1>3 DEF TablesOK
    <2>2. [server EXCEPT !.config[t].allowed = Excluding(@, <<id>>), !.config[t].default = Excluding(@, <<id>>)].config = new
      BY <1>3, <2>1
    <2> QED BY <1>2, <1>3, <2>2
  <1>5. id \notin Elems(MustShow)
    BY <1>2 DEF ToSet, Elems
  <1>6. TablesOK(new)
    <2> SUFFICES ASSUME NEW u \in Tables
                 PROVE  /\ DOMAIN new[u] = {"allowed", "default"}
                        /\ IsSequence(new[u].allowed) /\ IsSequence(new[u].default)
                        /\ Elems(MustShow) \subseteq Elems(new[u].allowed)
      BY <1>3 DEF TablesOK
    <2>1. CASE u # t
      BY <1>3, <2>1 DEF TablesOK
    <2>2. CASE u = t
      <3>1. new[u] = [allowed |-> Excluding(old[t].allowed, <<id>>), default |-> Excluding(old[t].default, <<id>>)]
        BY <1>3, <2>2 DEF TablesOK
      <3>2. IsSequence(old[t].allowed) /\ IsSequence(old[t].default) /\ Elems(MustShow) \subseteq Elems(old[t].allowed)
        BY <1>3 DEF TablesOK
      <3>3. IsSequence(<<id>>) /\ Elems(<<id>>) = {id}
        BY Few
      <3> HIDE DEF new, old
      <3>4. IsSequence(Excluding(old[t].allowed, <<id>>)) /\ Elems(Excluding(old[t].allowed, <<id>>)) = Elems(old[t].allowed) \ {id}
        BY <3>2, <3>3, ExcludingIs
      <3>5. IsSequence(Excluding(old[t].default, <<id>>))
        BY <3>2, <3>3, ExcludingIs
      <3> QED BY <1>5, <3>1, <3>2, <3>4, <3>5
    <2> QED BY <2>1, <2>2
  <1> HIDE DEF new
  <1> QED BY <1>2, <1>3, <1>4, <1>6 DEF ColumnsInv

LEMMA ColumnsAnswerInv ==
  ASSUME ColumnsInv, FieldConfigAnswer \/ PreferencesAnswer
  PROVE  ColumnsInv'
  <1>1. CASE FieldConfigAnswer
    <2>1. PICK i \in DOMAIN calls :
            /\ calls[i].op = "fieldConfig" /\ calls[i].reply # Absent
            /\ \E doubt : page' = IF Failed(i) THEN page
                 ELSE [page EXCEPT !.config = calls[i].reply.config, !.prefs = calls[i].reply.prefs, !.doubt = doubt]
            /\ calls' = Others(i) /\ UNCHANGED server
      BY <1>1 DEF FieldConfigAnswer, IsAnswered, Show, Take
    <2>2. IsSequence(calls') /\ Elems(calls') \subseteq Elems(calls) /\ calls[i] \in Elems(calls)
      BY <2>1, Remaining DEF ColumnsInv
    <2>3. ~Failed(i) => TablesOK(calls[i].reply.config) /\ ChoicesOK(calls[i].reply.prefs)
      BY <2>1, <2>2 DEF ColumnsInv, ColumnsCallOK, Failed
    <2>4. \/ page' = page
          \/ /\ ~Failed(i) /\ DOMAIN page' = DOMAIN page /\ page'.at = page.at
             /\ page'.config = calls[i].reply.config /\ page'.prefs = calls[i].reply.prefs
      BY <2>1 DEF ColumnsInv
    <2> QED BY <2>1, <2>2, <2>3, <2>4 DEF ColumnsInv
  <1>2. CASE PreferencesAnswer
    <2>1. PICK i \in DOMAIN calls :
            /\ calls[i].op = "preferences" /\ calls[i].reply # Absent
            /\ page' = IF Failed(i) THEN [page EXCEPT !.doubt = TRUE] ELSE [page EXCEPT !.prefs = calls[i].reply]
            /\ calls' = Others(i) /\ UNCHANGED server
      BY <1>2 DEF PreferencesAnswer, AfterSave, IsAnswered, Show, Take
    <2>2. IsSequence(calls') /\ Elems(calls') \subseteq Elems(calls) /\ calls[i] \in Elems(calls)
      BY <2>1, Remaining DEF ColumnsInv
    <2>3. ~Failed(i) => ChoicesOK(calls[i].reply)
      BY <2>1, <2>2 DEF ColumnsInv, ColumnsCallOK, Failed
    <2>4. /\ DOMAIN page' = DOMAIN page /\ page'.at = page.at /\ page'.config = page.config
          /\ page'.prefs = IF Failed(i) THEN page.prefs ELSE calls[i].reply
      BY <2>1 DEF ColumnsInv
    <2> QED BY <2>1, <2>2, <2>3, <2>4 DEF ColumnsInv
  <1> QED BY <1>1, <1>2

LEMMA ColumnsNextInv == ColumnsInv /\ [ColumnsNext \/ Lose]_vars => ColumnsInv'
  <1> SUFFICES ASSUME ColumnsInv, [ColumnsNext \/ Lose]_vars PROVE ColumnsInv'
    OBVIOUS
  <1>1. CASE UNCHANGED vars
    BY <1>1 DEF vars, ColumnsInv
  <1> QED BY <1>1, ChooseColumnsInv, ModeInv, ServeColumnsInv, WithdrawInv, ColumnsAnswerInv DEF ColumnsNext

-------------------------------------------------------------------------------

\* What is chosen, stored and configured for every table is a list of columns,
\* and the required ones stay allowed (field_config.py:1013-1125, 1461-1485).
THEOREM ColumnsInvariant == ColumnsSpec => []ColumnsInv
  BY ColumnsInitInv, ColumnsNextInv, PTL DEF ColumnsSpec

\* A table shows allowed columns, each once, with the required ones
\* (lib/fieldConfig.ts:85).
THEOREM ColumnsAreAllowed == ColumnsSpec => []ShownColumnsAllowed
  <1>1. ColumnsInv => ShownColumnsAllowed
    <2> SUFFICES ASSUME ColumnsInv, page.config # Absent, NEW t \in Tables
                 PROVE  LET ids == SelectedFieldIds(page.config, page.prefs, t) IN
                        /\ ToSet(ids) \subseteq ToSet(page.config[t].allowed)
                        /\ Len(ids) = Cardinality(ToSet(ids))
                        /\ ToSet(MustShow) \subseteq ToSet(ids)
      BY DEF ShownColumnsAllowed
    <2> DEFINE ids == SelectedFieldIds(page.config, page.prefs, t)
    <2>1. /\ IsSequence(ids) /\ Distinct(ids)
          /\ Elems(ids) \subseteq Elems(page.config[t].allowed) /\ Elems(MustShow) \subseteq Elems(ids)
      BY SelectedIs DEF ColumnsInv
    <2> HIDE DEF ids
    <2>2. Len(ids) = Cardinality(Elems(ids))
      BY <2>1, DistinctCount
    <2> QED BY <2>1, <2>2 DEF ids, ToSet, Elems
  <1> QED BY <1>1, ColumnsInvariant, PTL

-------------------------------------------------------------------------------
(* The choices for other tables.                                           *)

\* What was loaded for the tables not chosen for, as far as it is allowed.
Keeps(prefs, chosen, s) == \A t \in Tables \ chosen :
  Elems(s.loaded.contexts[t].ids) \cap Elems(s.config[t].allowed) \subseteq Elems(prefs.contexts[t].ids)

CallKeeps(c, chosen, s) ==
  /\ c.op = "preferences" => Keeps(c.args, chosen, s) /\ (c.reply \notin {Absent, Failure} => Keeps(c.reply, chosen, s))
  /\ c.op = "fieldConfig" /\ c.reply \notin {Absent, Failure} => Keeps(c.reply.prefs, chosen, s)

KeptInv ==
  /\ page.blind \in BOOLEAN /\ ChoicesOK(server.loaded)
  /\ ~page.blind =>
       /\ Keeps(server.stored, page.chosen, server)
       /\ page.prefs # Absent => Keeps(page.prefs, page.chosen, server)
       /\ \A c \in Elems(calls) : CallKeeps(c, page.chosen, server)

\* What is kept is kept when more tables were chosen for or less is allowed.
LEMMA KeepsOn ==
  ASSUME NEW chosen, NEW more, chosen \subseteq more, NEW s, NEW r, r.loaded = s.loaded,
         \A t \in Tables : Elems(r.config[t].allowed) \subseteq Elems(s.config[t].allowed)
  PROVE  /\ \A prefs : Keeps(prefs, chosen, s) => Keeps(prefs, more, r)
         /\ \A c : CallKeeps(c, chosen, s) => CallKeeps(c, more, r)
  <1>1. \A prefs : Keeps(prefs, chosen, s) => Keeps(prefs, more, r)
    BY DEF Keeps
  <1> QED BY <1>1 DEF CallKeeps

LEMMA StoredKeeps ==
  ASSUME NEW s, TablesOK(s.config), NEW raw, ChoicesOK(raw), NEW chosen, Keeps(raw, chosen, s)
  PROVE  Keeps(SanitizeUserFieldPreferences(raw, s.config), chosen, s)
  <1> DEFINE next == SanitizeUserFieldPreferences(raw, s.config)
  <1> SUFFICES ASSUME NEW t \in Tables \ chosen, NEW x,
                      x \in Elems(s.loaded.contexts[t].ids), x \in Elems(s.config[t].allowed)
               PROVE  x \in Elems(next.contexts[t].ids)
    BY DEF Keeps
  <1> DEFINE allowed == s.config[t].allowed
             ids == IF raw.contexts[t].ids = <<>> THEN s.config[t].default ELSE raw.contexts[t].ids
             kept == WithRequired(FirstOnes(Only(ids, allowed)), MustShow)
  <1>1. x \in Elems(raw.contexts[t].ids)
    BY DEF Keeps
  <1>2. ids = raw.contexts[t].ids
    BY <1>1, Few
  <1>3. IsSequence(ids) /\ IsSequence(allowed)
    BY <1>2 DEF TablesOK, ChoicesOK
  <1>4. next.contexts[t].ids = IF kept = <<>> THEN s.config[t].default ELSE kept
    BY DEF SanitizeUserFieldPreferences, ChoicesOK
  <1> HIDE DEF ids, next
  <1>5. Elems(kept) = Elems(MustShow) \cup (Elems(ids) \cap Elems(allowed))
    BY <1>3, RequiredIs, Completed
  <1> HIDE DEF kept
  <1>6. x \in Elems(kept)
    BY <1>1, <1>2, <1>5
  <1>7. kept # <<>>
    BY <1>6, Few
  <1> QED BY <1>4, <1>6, <1>7

\* A choice for one table is sent with the others as they are.
LEMMA SentKeeps ==
  ASSUME ColumnsInv, KeptInv, NEW t \in Tables, NEW STATE next, PersistFieldPreferences(t, next),
         page.prefs # Absent => \A u \in Tables \ {t} : next.contexts[u].ids = page.prefs.contexts[u].ids
  PROVE  KeptInv'
  <1> DEFINE c == Call("preferences", next)
             more == page.chosen \cup {t}
  <1>1. /\ \E doubt : page' = [page EXCEPT !.prefs = next, !.chosen = more,
                                           !.blind = page.blind \/ page.prefs = Absent, !.doubt = doubt]
        /\ calls' = calls \o <<c>> /\ UNCHANGED server
    BY DEF PersistFieldPreferences, Show, Send
  <1>2. /\ page'.prefs = next /\ page'.chosen = more /\ page'.blind = (page.blind \/ page.prefs = Absent)
    BY <1>1 DEF ColumnsInv
  <1>3. IsSequence(calls') /\ Elems(calls') = Elems(calls) \cup {c}
    BY <1>1, Few, Joined DEF ColumnsInv
  <1>4. c.op = "preferences" /\ c.args = next /\ c.reply = Absent
    BY DEF Call
  <1> HIDE DEF c
  <1>5. page'.blind \in BOOLEAN /\ ChoicesOK(server'.loaded)
    BY <1>1, <1>2 DEF KeptInv
  <1>6. ASSUME ~page'.blind
        PROVE  /\ Keeps(server'.stored, page'.chosen, server') /\ Keeps(page'.prefs, page'.chosen, server')
               /\ \A d \in Elems(calls') : CallKeeps(d, page'.chosen, server')
    <2>1. ~page.blind /\ page.prefs # Absent
      BY <1>2, <1>6
    <2>2. /\ Keeps(server.stored, page.chosen, server) /\ Keeps(page.prefs, page.chosen, server)
          /\ \A d \in Elems(calls) : CallKeeps(d, page.chosen, server)
      BY <2>1 DEF KeptInv
    <2>3. Keeps(next, more, server)
      BY <2>1, <2>2 DEF Keeps
    <2>4. CallKeeps(c, more, server)
      BY <1>4, <2>3 DEF CallKeeps
    <2>5. Keeps(server.stored, more, server) /\ \A d \in Elems(calls) : CallKeeps(d, more, server)
      BY <2>2, KeepsOn
    <2> QED BY <1>1, <1>2, <1>3, <2>3, <2>4, <2>5
  <1> QED BY <1>5, <1>6 DEF KeptInv

LEMMA ChosenKept ==
  ASSUME ColumnsInv, KeptInv, NEW t \in Tables,
         \/ ToggleField(t) \/ MoveField(t) \/ SelectAll(t) \/ ResetFields(t)
         \/ ToggleReviews(t) \/ PersistFieldMode(t)
  PROVE  KeptInv'
  <1>1. ASSUME NEW ids, PersistFieldSelection(t, ids)
        PROVE  KeptInv'
    <2> DEFINE next == UpdateContextSelection(page.config, page.prefs, t, ids)
    <2>1. PersistFieldPreferences(t, next)
      BY <1>1 DEF PersistFieldSelection
    <2>2. page.prefs # Absent => \A u \in Tables \ {t} : next.contexts[u].ids = page.prefs.contexts[u].ids
      BY DEF UpdateContextSelection, ColumnsInv, ChoicesOK
    <2> HIDE DEF next
    <2> QED BY <2>1, <2>2, SentKeeps
  <1>2. CASE ToggleField(t) \/ MoveField(t) \/ SelectAll(t) \/ ResetFields(t)
    BY <1>1, <1>2 DEF ToggleField, MoveField, SelectAll, ResetFields
  <1>3. CASE ToggleReviews(t)
    <2> DEFINE known == Known(page.prefs)
               next == UpdateReviewColumnVisibility(known, t, ~ReviewColumnVisible(known, t))
    <2>1. PersistFieldPreferences(t, next)
      BY <1>3 DEF ToggleReviews
    <2>2. page.prefs # Absent => \A u \in Tables \ {t} : next.contexts[u].ids = page.prefs.contexts[u].ids
      BY DEF UpdateReviewColumnVisibility, Known, ColumnsInv, ChoicesOK
    <2> HIDE DEF next
    <2> QED BY <2>1, <2>2, SentKeeps
  <1>4. CASE PersistFieldMode(t)
    <2>1. PICK useDefault \in BOOLEAN :
            PersistFieldPreferences(t, UpdateContextMode(Known(page.prefs), t, useDefault))
      BY <1>4 DEF PersistFieldMode
    <2> DEFINE next == UpdateContextMode(Known(page.prefs), t, useDefault)
    <2>2. page.prefs # Absent => \A u \in Tables \ {t} : next.contexts[u].ids = page.prefs.contexts[u].ids
      BY DEF UpdateContextMode, Known, ColumnsInv, ChoicesOK
    <2> HIDE DEF next
    <2> QED BY <2>1, <2>2, SentKeeps DEF next
  <1> QED BY <1>2, <1>3, <1>4

LEMMA ServedKept ==
  ASSUME ColumnsInv, KeptInv, LoadFieldConfig \/ StorePreferences \/ Lose
  PROVE  KeptInv'
  <1> DEFINE stored(prefs) == SanitizeUserFieldPreferences(prefs, server.config)
  <1>1. PICK i, r :
          /\ i \in DOMAIN calls /\ Reply(i, r) /\ UNCHANGED page
          /\ \/ r = Failure /\ UNCHANGED server
             \/ calls[i].op = "fieldConfig" /\ UNCHANGED server /\ r = [config |-> server.config, prefs |-> stored(server.stored)]
             \/ /\ calls[i].op = "preferences" /\ server' = [server EXCEPT !.stored = stored(calls[i].args)]
                /\ r = server'.stored
    BY ColumnsServed
  <1>2. /\ DOMAIN server = {"config", "stored", "loaded"} /\ TablesOK(server.config) /\ ChoicesOK(server.stored)
        /\ calls[i] \in Elems(calls)
    BY <1>1 DEF ColumnsInv, Elems
  <1>3. ColumnsCallOK(calls[i]) /\ IsSequence(calls) /\ DOMAIN calls[i] = CallFields
    BY <1>2 DEF ColumnsInv, ColumnsCallOK
  <1>4. PICK c : /\ c.op = calls[i].op /\ c.args = calls[i].args /\ c.reply = r
                 /\ Elems(calls') \subseteq Elems(calls) \cup {c}
    <2>1. i \in DOMAIN calls /\ Reply(i, r)
      BY <1>1
    <2> QED BY <1>3, <2>1, Answered
  <1>5. ChoicesOK(server'.loaded) /\ page'.blind \in BOOLEAN
    BY <1>1, <1>2 DEF KeptInv
  <1>6. ASSUME ~page.blind
        PROVE  Keeps(server'.stored, page.chosen, server') /\ \A d \in Elems(calls') : CallKeeps(d, page.chosen, server')
    <2>1. /\ Keeps(server.stored, page.chosen, server)
          /\ \A d \in Elems(calls) : CallKeeps(d, page.chosen, server)
      BY <1>6 DEF KeptInv
    <2>2. ASSUME NEW prefs, ChoicesOK(prefs), Keeps(prefs, page.chosen, server)
          PROVE  Keeps(stored(prefs), page.chosen, server)
      BY <1>2, <2>2, StoredKeeps
    <2>3. calls[i].op = "preferences" => ChoicesOK(calls[i].args) /\ Keeps(calls[i].args, page.chosen, server)
      BY <1>2, <1>3, <2>1 DEF ColumnsCallOK, CallKeeps
    <2>4. Keeps(stored(server.stored), page.chosen, server)
      BY <1>2, <2>1, <2>2
    <2>5. calls[i].op = "preferences" => Keeps(stored(calls[i].args), page.chosen, server)
      BY <2>2, <2>3
    <2> HIDE DEF stored
    <2>6. server'.loaded = server.loaded /\ server'.config = server.config
      BY <1>1, <1>2
    <2>7. Keeps(server'.stored, page.chosen, server) /\ CallKeeps(c, page.chosen, server)
      BY <1>1, <1>2, <1>4, <2>1, <2>3, <2>4, <2>5 DEF CallKeeps
    <2> QED BY <1>4, <2>1, <2>6, <2>7, KeepsOn
  <1>7. page'.prefs # Absent /\ ~page.blind => Keeps(page'.prefs, page.chosen, server')
    <2>1. server'.loaded = server.loaded /\ server'.config = server.config
      BY <1>1, <1>2
    <2> QED BY <1>1, <2>1, KeepsOn DEF KeptInv
  <1> QED BY <1>1, <1>5, <1>6, <1>7 DEF KeptInv

\* With a column that is taken away less is allowed.
LEMMA WithdrawnKept ==
  ASSUME ColumnsInv, KeptInv, WithdrawField
  PROVE  KeptInv'
  <1>1. PICK t \in Tables : \E id \in ToSet(server.config[t].allowed) \ ToSet(MustShow) :
          /\ server' = [server EXCEPT !.config[t].allowed = Excluding(@, <<id>>),
                                      !.config[t].default = Excluding(@, <<id>>)]
          /\ UNCHANGED <<page, calls>>
    BY DEF WithdrawField
  <1>2. PICK id \in ToSet(server.config[t].allowed) \ ToSet(MustShow) :
          /\ server' = [server EXCEPT !.config[t].allowed = Excluding(@, <<id>>),
                                      !.config[t].default = Excluding(@, <<id>>)]
          /\ UNCHANGED <<page, calls>>
    BY <1>1
  <1>3. DOMAIN server = {"config", "stored", "loaded"} /\ TablesOK(server.config)
    BY DEF ColumnsInv
  <1>4. server'.loaded = server.loaded /\ server'.stored = server.stored
    BY <1>2, <1>3
  <1>5. ASSUME NEW u \in Tables
        PROVE  Elems(server'.config[u].allowed) \subseteq Elems(server.config[u].allowed)
    <2>1. DOMAIN server.config = Tables /\ DOMAIN server.config[t] = {"allowed", "default"}
      BY <1>3 DEF TablesOK
    <2>2. server'.config[u].allowed = IF u = t THEN Excluding(server.config[t].allowed, <<id>>)
                                      ELSE server.config[u].allowed
      BY <1>2, <1>3, <2>1
    <2>3. Elems(Excluding(server.config[t].allowed, <<id>>)) \subseteq Elems(server.config[t].allowed)
      <3>1. IsSequence(server.config[t].allowed) /\ IsSequence(<<id>>)
        BY <1>3, Few DEF TablesOK
      <3> QED BY <3>1, ExcludingIs
    <2> QED BY <2>2, <2>3
  <1>6. /\ \A prefs : Keeps(prefs, page.chosen, server) => Keeps(prefs, page.chosen, server')
        /\ \A c : CallKeeps(c, page.chosen, server) => CallKeeps(c, page.chosen, server')
    BY <1>4, <1>5, KeepsOn
  <1>7. page' = page /\ calls' = calls
    BY <1>2
  <1> QED BY <1>4, <1>6, <1>7 DEF KeptInv

LEMMA AnswerKept ==
  ASSUME ColumnsInv, KeptInv, FieldConfigAnswer \/ PreferencesAnswer
  PROVE  KeptInv'
  <1>1. PICK i \in DOMAIN calls :
          /\ calls[i].reply # Absent /\ calls' = Others(i) /\ UNCHANGED server
          /\ \/ \E doubt : Failed(i) /\ page' \in {page, [page EXCEPT !.doubt = doubt]}
             \/ /\ ~Failed(i) /\ calls[i].op = "fieldConfig"
                /\ \E doubt : page' = [page EXCEPT !.config = calls[i].reply.config, !.prefs = calls[i].reply.prefs,
                                                   !.doubt = doubt]
             \/ ~Failed(i) /\ calls[i].op = "preferences" /\ page' = [page EXCEPT !.prefs = calls[i].reply]
    <2>1. CASE FieldConfigAnswer
      BY <2>1 DEF FieldConfigAnswer, IsAnswered, Show, Take
    <2>2. CASE PreferencesAnswer
      BY <2>2 DEF PreferencesAnswer, AfterSave, IsAnswered, Show, Take
    <2> QED BY <2>1, <2>2
  <1>2. Elems(calls') \subseteq Elems(calls) /\ calls[i] \in Elems(calls)
    BY <1>1, Remaining DEF ColumnsInv
  <1>3. /\ page'.blind = page.blind /\ page'.chosen = page.chosen
        /\ \/ page'.prefs = page.prefs
           \/ ~Failed(i) /\ calls[i].op = "fieldConfig" /\ page'.prefs = calls[i].reply.prefs
           \/ ~Failed(i) /\ calls[i].op = "preferences" /\ page'.prefs = calls[i].reply
    BY <1>1 DEF ColumnsInv
  <1>4. ~page.blind => (page'.prefs # Absent => Keeps(page'.prefs, page.chosen, server))
    BY <1>1, <1>2, <1>3 DEF KeptInv, CallKeeps, Failed
  <1> QED BY <1>1, <1>2, <1>3, <1>4 DEF KeptInv

LEMMA KeptInitInv == ColumnsInit => KeptInv
  <1> SUFFICES ASSUME NEW config, NEW prefs, ChoicesOK(prefs), page = ColumnsStart,
                      calls = ColumnsCalls, server = ColumnsServer(config, prefs)
               PROVE  KeptInv
    BY DEF ColumnsInit
  <1>1. page.blind = FALSE /\ page.prefs = Absent
    BY DEF ColumnsStart
  <1>2. CallKeeps(Call("fieldConfig", Absent), page.chosen, server)
    BY DEF CallKeeps, Call
  <1>3. Elems(calls) = {Call("fieldConfig", Absent)}
    BY Few DEF ColumnsCalls
  <1>4. server.loaded = prefs /\ Keeps(server.stored, page.chosen, server)
    BY DEF ColumnsServer, Keeps
  <1> QED BY <1>1, <1>2, <1>3, <1>4 DEF KeptInv

LEMMA KeptNextInv == ColumnsInv /\ KeptInv /\ [ColumnsNext \/ Lose]_vars => KeptInv'
  <1> SUFFICES ASSUME ColumnsInv, KeptInv, [ColumnsNext \/ Lose]_vars PROVE KeptInv'
    OBVIOUS
  <1>1. CASE UNCHANGED vars
    BY <1>1 DEF vars, KeptInv
  <1> QED BY <1>1, ChosenKept, ServedKept, WithdrawnKept, AnswerKept DEF ColumnsNext

\* A choice for one table leaves those for the others, unless something was
\* sent before the preferences had been loaded (lib/fieldConfig.ts:105).
THEOREM ChoicesAreKept == ColumnsSpec => []OtherTablesKeepTheirColumns
  <1>1. ColumnsInv /\ KeptInv => OtherTablesKeepTheirColumns
    <2> SUFFICES ASSUME ColumnsInv, KeptInv, ~page.blind, NEW t \in Tables \ page.chosen
                 PROVE  ToSet(Only(server.loaded.contexts[t].ids, server.config[t].allowed))
                          \subseteq ToSet(server.stored.contexts[t].ids)
      BY DEF OtherTablesKeepTheirColumns
    <2> DEFINE loaded == server.loaded.contexts[t].ids
               allowed == server.config[t].allowed
    <2>1. IsSequence(loaded) /\ IsSequence(allowed)
      BY DEF ColumnsInv, KeptInv, ChoicesOK, TablesOK
    <2>2. Elems(loaded) \cap Elems(allowed) \subseteq Elems(server.stored.contexts[t].ids)
      BY DEF KeptInv, Keeps
    <2> HIDE DEF loaded, allowed
    <2>3. Elems(Only(loaded, allowed)) = Elems(loaded) \cap Elems(allowed)
      BY <2>1, OnlyIs
    <2> QED BY <2>2, <2>3 DEF ToSet, Elems, loaded, allowed
  <1>2. ColumnsSpec => []KeptInv
    BY KeptInitInv, KeptNextInv, ColumnsInvariant, PTL DEF ColumnsSpec
  <1> QED BY <1>1, <1>2, ColumnsInvariant, PTL

-------------------------------------------------------------------------------
(* The text field alone.                                                   *)

MentionInit ==
  /\ page = MentionStart
  /\ calls = <<>>
  /\ server = Absent
  /\ left \in Nat

MentionSpec == MentionInit /\ [][MentionNext \/ Lose]_vars

MentionFields == {"at", "typed", "range", "timer", "suggestions", "closing", "late", "beside"}

MentionCallOK(c) ==
  /\ DOMAIN c = CallFields /\ c.op = "mentionable"
  /\ DOMAIN c.args = {"typed", "canceled"} /\ c.args.canceled \in BOOLEAN
  /\ c.reply \in {Absent, Failure, [of |-> c.args.typed, users |-> Mentionable[c.args.typed]]}

\* While the place of a mention is known, what is asked and will be asked is
\* what is typed there.
AsksTheTyped(p, cs) == p.range =>
  /\ p.timer # Absent => p.timer = p.typed
  /\ \A c \in Elems(cs) : ~c.args.canceled => c.args.typed = p.typed

\* An open menu is for what is typed, or will be.
MenuIsDue(p, cs) == IsOpen(p) =>
  /\ p.range
  /\ p.suggestions.of = p.typed \/ p.timer # Absent \/ \E c \in Elems(cs) : ~c.args.canceled

MentionInv ==
  /\ DOMAIN page = MentionFields /\ page.at = "mention"
  /\ page.range \in BOOLEAN /\ page.late \in BOOLEAN
  /\ IsSequence(calls) /\ \A c \in Elems(calls) : MentionCallOK(c)
  /\ ~page.late => page.beside = FALSE /\ AsksTheTyped(page, calls) /\ MenuIsDue(page, calls)

LEMMA MentionInitInv == MentionInit => MentionInv
  <1> SUFFICES ASSUME page = MentionStart, calls = <<>> PROVE MentionInv
    BY DEF MentionInit
  <1>1. /\ DOMAIN page = MentionFields /\ page.at = "mention" /\ page.range = FALSE /\ page.late = FALSE
        /\ page.beside = FALSE /\ ~IsOpen(page)
    BY DEF MentionStart, MentionFields, IsOpen, NoSuggestions
  <1> QED BY <1>1, Few DEF MentionInv, AsksTheTyped, MenuIsDue

LEMMA Closed ==
  ASSUME MentionInv
  PROVE  LET q == CloseSuggestions(page) IN
         /\ DOMAIN q = MentionFields /\ q.at = "mention" /\ q.range = FALSE /\ ~IsOpen(q)
         /\ q.late = page.late /\ q.beside = page.beside
  BY DEF MentionInv, MentionFields, CloseSuggestions, IsOpen, NoSuggestions

LEMMA TypedInv ==
  ASSUME MentionInv, NEW q \in DOMAIN Mentionable, LoadSuggestions(q)
  PROVE  MentionInv'
  <1>1. page' = [page EXCEPT !.typed = q, !.range = TRUE, !.timer = q] /\ calls' = Superseded(calls)
    BY DEF LoadSuggestions, Show
  <1>2. /\ DOMAIN page' = MentionFields /\ page'.at = "mention" /\ page'.range = TRUE /\ page'.late = page.late
        /\ page'.beside = page.beside /\ page'.typed = q /\ page'.timer = q
    BY <1>1 DEF MentionInv, MentionFields
  <1>3. IsSequence(calls') /\ \A c \in Elems(calls') : \E d \in Elems(calls) : c = [d EXCEPT !.args.canceled = TRUE]
    BY <1>1, FetchesCancelled DEF Superseded, MentionInv
  <1>4. ASSUME NEW c \in Elems(calls') PROVE MentionCallOK(c) /\ c.args.canceled
    <2>1. PICK d \in Elems(calls) : c = [d EXCEPT !.args.canceled = TRUE]
      BY <1>3
    <2>2. MentionCallOK(d)
      BY DEF MentionInv
    <2> QED BY <2>1, <2>2 DEF MentionCallOK, CallFields
  <1>5. q # Absent
    BY MentionAssumption
  <1> QED BY <1>2, <1>3, <1>4, <1>5 DEF MentionInv, AsksTheTyped, MenuIsDue

LEMMA AskedInv ==
  ASSUME MentionInv, AskMentionable
  PROVE  MentionInv'
  <1> DEFINE c == Call("mentionable", [typed |-> page.timer, canceled |-> FALSE])
  <1>1. page' = [page EXCEPT !.timer = Absent] /\ calls' = calls \o <<c>> /\ page.timer # Absent
    BY DEF AskMentionable, Show, Send
  <1>2. MentionCallOK(c) /\ c.args.typed = page.timer /\ ~c.args.canceled
    BY DEF MentionCallOK, Call, CallFields
  <1> HIDE DEF c
  <1>3. IsSequence(calls') /\ Elems(calls') = Elems(calls) \cup {c}
    BY <1>1, Few, Joined DEF MentionInv
  <1>4. /\ DOMAIN page' = MentionFields /\ page'.at = "mention" /\ page'.range = page.range /\ page'.late = page.late
        /\ page'.beside = page.beside /\ page'.typed = page.typed /\ page'.timer = Absent
        /\ page'.suggestions = page.suggestions
    BY <1>1 DEF MentionInv, MentionFields
  <1>5. AsksTheTyped(page, calls) => AsksTheTyped(page', calls')
    BY <1>1, <1>2, <1>3, <1>4 DEF AsksTheTyped
  <1>6. MenuIsDue(page, calls) => MenuIsDue(page', calls')
    BY <1>2, <1>3, <1>4 DEF MenuIsDue, IsOpen
  <1> QED BY <1>2, <1>3, <1>4, <1>5, <1>6 DEF MentionInv

LEMMA SuggestedInv ==
  ASSUME MentionInv, ServeMentionable \/ Lose
  PROVE  MentionInv'
  <1>1. PICK i, r :
          /\ i \in DOMAIN calls /\ Reply(i, r) /\ UNCHANGED page
          /\ r \in {Failure, [of |-> calls[i].args.typed, users |-> Mentionable[calls[i].args.typed]]}
    BY DEF ServeMentionable, Lose
  <1>2. i \in DOMAIN calls /\ Reply(i, r) /\ IsSequence(calls)
    BY <1>1 DEF MentionInv
  <1>3. MentionCallOK(calls[i])
    BY <1>2 DEF MentionInv, Elems
  <1>4. DOMAIN calls[i] = CallFields
    BY <1>3 DEF MentionCallOK
  <1>5. PICK c : /\ DOMAIN c = CallFields /\ c.op = calls[i].op /\ c.args = calls[i].args /\ c.reply = r
                 /\ IsSequence(calls') /\ Elems(calls') \subseteq Elems(calls) \cup {c}
                 /\ c \in Elems(calls') /\ Elems(calls) \subseteq Elems(calls') \cup {calls[i]}
    BY <1>2, <1>4, Answered
  <1>6. MentionCallOK(c)
    BY <1>1, <1>3, <1>5 DEF MentionCallOK
  <1>7. \A d \in Elems(calls') : \E e \in Elems(calls) : d.args = e.args
    BY <1>2, <1>5 DEF Elems
  <1>8. \A e \in Elems(calls) : \E d \in Elems(calls') : d.args = e.args
    BY <1>5
  <1>9. AsksTheTyped(page, calls) => AsksTheTyped(page', calls')
    BY <1>1, <1>7 DEF AsksTheTyped
  <1>10. MenuIsDue(page, calls) => MenuIsDue(page', calls')
    BY <1>1, <1>8 DEF MenuIsDue
  <1> QED BY <1>1, <1>5, <1>6, <1>9, <1>10 DEF MentionInv

LEMMA SuggestionsInv ==
  ASSUME MentionInv, MentionableAnswer
  PROVE  MentionInv'
  <1>1. PICK i \in DOMAIN calls :
          /\ calls[i].reply # Absent /\ calls' = Others(i)
          /\ \/ calls[i].args.canceled /\ page' = page
             \/ ~calls[i].args.canceled /\ Failed(i) /\ page' = CloseSuggestions(page)
             \/ /\ ~calls[i].args.canceled /\ ~Failed(i)
                /\ page' = [page EXCEPT !.suggestions = calls[i].reply, !.late = @ \/ ~page.range]
    <2>1. PICK i \in DOMAIN calls :
            /\ IsAnswered(i, "mentionable") /\ Take(i)
            /\ page' = CASE ~Newest(i) -> page
                         [] Newest(i) /\ Failed(i)  -> CloseSuggestions(page)
                         [] Newest(i) /\ ~Failed(i) ->
                              [page EXCEPT !.suggestions = calls[i].reply, !.late = @ \/ ~page.range]
      BY DEF MentionableAnswer, Show
    <2>2. calls[i].args.canceled \in BOOLEAN
      BY DEF MentionInv, MentionCallOK, Elems
    <2> QED BY <2>1, <2>2 DEF Newest, IsAnswered, Take
  <1>2. /\ IsSequence(calls') /\ Elems(calls') \subseteq Elems(calls) /\ calls[i] \in Elems(calls)
        /\ Elems(calls) \subseteq Elems(calls') \cup {calls[i]}
    BY <1>1, Remaining DEF MentionInv
  <1>3. MentionCallOK(calls[i])
    BY <1>2 DEF MentionInv
  <1>4. CASE calls[i].args.canceled /\ page' = page
    <2>1. AsksTheTyped(page, calls) => AsksTheTyped(page', calls')
      BY <1>2, <1>4 DEF AsksTheTyped
    <2>2. MenuIsDue(page, calls) => MenuIsDue(page', calls')
      BY <1>2, <1>4 DEF MenuIsDue
    <2> QED BY <1>2, <1>4, <2>1, <2>2 DEF MentionInv
  <1>5. CASE page' = CloseSuggestions(page)
    BY <1>2, <1>5, Closed DEF MentionInv, AsksTheTyped, MenuIsDue
  <1>6. CASE /\ ~calls[i].args.canceled /\ ~Failed(i)
             /\ page' = [page EXCEPT !.suggestions = calls[i].reply, !.late = @ \/ ~page.range]
    <2>1. /\ DOMAIN page' = MentionFields /\ page'.at = "mention" /\ page'.range = page.range
          /\ page'.late = (page.late \/ ~page.range)
          /\ page'.beside = page.beside /\ page'.typed = page.typed /\ page'.timer = page.timer
          /\ page'.suggestions = calls[i].reply
      BY <1>6 DEF MentionInv, MentionFields
    <2>2. calls[i].reply.of = calls[i].args.typed
      BY <1>1, <1>3, <1>6 DEF MentionCallOK, Failed
    <2>3. page'.late \in BOOLEAN /\ page'.range \in BOOLEAN
      BY <2>1 DEF MentionInv
    <2>4. ASSUME ~page'.late
          PROVE  page'.beside = FALSE /\ AsksTheTyped(page', calls') /\ MenuIsDue(page', calls')
      <3>1. ~page.late /\ page.range
        BY <2>1, <2>4
      <3>2. page.beside = FALSE /\ AsksTheTyped(page, calls)
        BY <3>1 DEF MentionInv
      <3>3. calls[i].args.typed = page.typed
        BY <1>2, <1>6, <3>1, <3>2 DEF AsksTheTyped
      <3>4. AsksTheTyped(page', calls')
        BY <1>2, <2>1, <3>2 DEF AsksTheTyped
      <3>5. MenuIsDue(page', calls')
        BY <2>1, <2>2, <3>1, <3>3 DEF MenuIsDue
      <3> QED BY <2>1, <3>2, <3>4, <3>5
    <2> QED BY <1>2, <2>1, <2>3, <2>4 DEF MentionInv
  <1> QED BY <1>1, <1>4, <1>5, <1>6

LEMMA FieldInv ==
  ASSUME MentionInv, TypeElsewhere \/ ChooseMention \/ Escape \/ Blur \/ CloseAfterBlur \/ SendText
  PROVE  MentionInv'
  <1> DEFINE closed == CloseSuggestions(page)
  <1>1. calls' = calls
    BY DEF TypeElsewhere, ChooseMention, Escape, Blur, CloseAfterBlur, SendText
  <1>2. /\ DOMAIN closed = MentionFields /\ closed.at = "mention" /\ closed.range = FALSE /\ ~IsOpen(closed)
        /\ closed.late = page.late /\ closed.beside = page.beside
    BY Closed
  <1>3. CASE TypeElsewhere \/ Escape \/ CloseAfterBlur
    <2>1. page' \in {closed, [closed EXCEPT !.typed = Absent, !.timer = Absent], [closed EXCEPT !.closing = FALSE]}
      BY <1>3 DEF TypeElsewhere, Escape, CloseAfterBlur, Show
    <2> HIDE DEF closed
    <2>2. /\ DOMAIN page' = MentionFields /\ page'.at = "mention" /\ page'.range = FALSE /\ ~IsOpen(page')
          /\ page'.late = page.late /\ page'.beside = page.beside
      BY <1>2, <2>1 DEF MentionFields, IsOpen
    <2> QED BY <1>1, <2>2 DEF MentionInv, AsksTheTyped, MenuIsDue
  <1>4. CASE ChooseMention
    <2>1. page' = [closed EXCEPT !.typed = Absent, !.beside = @ \/ ~page.range] /\ IsOpen(page)
      BY <1>4 DEF ChooseMention, Show
    <2> HIDE DEF closed
    <2>2. /\ DOMAIN page' = MentionFields /\ page'.at = "mention" /\ page'.range = FALSE /\ ~IsOpen(page')
          /\ page'.late = page.late /\ page'.beside = (page.beside \/ ~page.range)
      BY <1>2, <2>1 DEF MentionFields, IsOpen
    <2>3. ~page.late => page.range /\ page.beside = FALSE
      BY <2>1 DEF MentionInv, MenuIsDue
    <2> QED BY <1>1, <2>2, <2>3 DEF MentionInv, AsksTheTyped, MenuIsDue
  <1>5. CASE Blur
    <2>1. page' = [page EXCEPT !.closing = TRUE]
      BY <1>5 DEF Blur, Show
    <2> QED BY <1>1, <2>1 DEF MentionInv, MentionFields, AsksTheTyped, MenuIsDue, IsOpen
  <1>6. CASE SendText
    <2>1. page' = [page EXCEPT !.typed = Absent, !.late = @ \/ page.range]
      BY <1>6 DEF SendText, Show
    <2>2. /\ DOMAIN page' = MentionFields /\ page'.at = "mention" /\ page'.range = page.range
          /\ page'.late = (page.late \/ page.range) /\ page'.beside = page.beside
          /\ page'.suggestions = page.suggestions
      BY <2>1 DEF MentionInv, MentionFields
    <2>3. page.late \in BOOLEAN /\ page.range \in BOOLEAN
      BY DEF MentionInv
    <2>4. ~page'.late => ~page.late /\ ~page.range
      BY <2>2
    <2>5. ~page'.late => ~IsOpen(page') /\ page'.beside = FALSE
      BY <2>2, <2>4 DEF MentionInv, MenuIsDue, IsOpen
    <2> QED BY <1>1, <2>2, <2>3, <2>4, <2>5 DEF MentionInv, AsksTheTyped, MenuIsDue
  <1> QED BY <1>3, <1>4, <1>5, <1>6

LEMMA MentionNextInv == MentionInv /\ [MentionNext \/ Lose]_vars => MentionInv'
  <1> SUFFICES ASSUME MentionInv, [MentionNext \/ Lose]_vars PROVE MentionInv'
    OBVIOUS
  <1>1. CASE UNCHANGED vars
    BY <1>1 DEF vars, MentionInv
  <1> QED BY <1>1, TypedInv, AskedInv, SuggestedInv, SuggestionsInv, FieldInv DEF MentionNext

-------------------------------------------------------------------------------

\* What is suggested and asked for belongs to what is typed, unless it came
\* late (MentionTextarea.tsx:57-130).
THEOREM MentionInvariant == MentionSpec => []MentionInv
  BY MentionInitInv, MentionNextInv, PTL DEF MentionSpec

-------------------------------------------------------------------------------
(* One request at a time.                                                  *)

LEMMA Alone ==
  ASSUME IsSequence(calls), Len(calls) <= 1, NEW i \in DOMAIN calls
  PROVE  Elems(calls) = {calls[i]} /\ calls # <<>> /\ Others(i) = <<>> /\ i = 1 /\ Len(calls) = 1
  <1>1. PICK S : calls \in Seq(S)
    BY DEF IsSequence
  <1>2. Len(calls) = 1 /\ DOMAIN calls = {1} /\ i = 1
    <2>1. Len(calls) \in Nat /\ DOMAIN calls = 1 .. Len(calls)
      BY <1>1, LenProperties
    <2> QED BY <2>1
  <1>3. Elems(calls) = {calls[i]} /\ calls # <<>>
    <2>1. Elems(calls) = {calls[i]}
      BY <1>2 DEF Elems
    <2>2. calls # <<>>
      BY <1>1, <1>2, EmptySeq
    <2> QED BY <2>1, <2>2
  <1>4. Others(i) \in Seq(S) /\ Len(Others(i)) = 0
    BY <1>1, <1>2, RequestTaken
  <1> QED BY <1>2, <1>3, <1>4, EmptySeq

LEMMA AloneAnswered ==
  ASSUME IsSequence(calls), Len(calls) <= 1, NEW i \in DOMAIN calls, DOMAIN calls[i] = CallFields,
         NEW STATE r, Reply(i, r)
  PROVE  \E c : /\ c.op = calls[i].op /\ c.args = calls[i].args /\ c.reply = r
                /\ Elems(calls') = {c} /\ Len(calls') <= 1 /\ calls' # <<>>
  <1> DEFINE c == [calls[i] EXCEPT !.reply = r, !.work = Absent]
  <1>1. c.op = calls[i].op /\ c.args = calls[i].args /\ c.reply = r
    BY DEF CallFields
  <1>2. PICK S : calls \in Seq(S)
    BY DEF IsSequence
  <1>3. i = 1 /\ Len(calls) = 1
    BY Alone
  <1>4. calls' = [calls EXCEPT ![i] = c]
    BY DEF Reply
  <1> HIDE DEF c
  <1>5. PICK T : calls' \in Seq(T) /\ Len(calls') = 1 /\ calls'[1] = c
    BY <1>2, <1>3, <1>4, CallReplaced
  <1>6. DOMAIN calls' = {1}
    BY <1>5, LenProperties
  <1>7. Elems(calls') = {c} /\ calls' # <<>>
    BY <1>5, <1>6, EmptySeq DEF Elems
  <1> QED BY <1>1, <1>5, <1>7

LEMMA NoneOrSome == ASSUME IsSequence(calls), Elems(calls) = {} PROVE calls = <<>> /\ Len(calls) <= 1
  <1>1. PICK S : calls \in Seq(S)
    BY DEF IsSequence
  <1>2. Len(calls) \in Nat /\ DOMAIN calls = 1 .. Len(calls) /\ DOMAIN calls = {}
    BY <1>1, LenProperties DEF Elems
  <1>3. Len(calls) = 0
    BY <1>2
  <1> QED BY <1>1, <1>3, EmptySeq

LEMMA OneSent ==
  ASSUME calls = <<>>, NEW STATE c, Send(<<c>>)
  PROVE  Elems(calls') = {c} /\ Len(calls') <= 1 /\ calls' # <<>>
  <1>1. calls' = <<c>>
    BY DEF Send
  <1>2. Len(<<c>>) = 1 /\ Len(<<>>) = 0
    OBVIOUS
  <1> QED BY <1>1, <1>2, Few

-------------------------------------------------------------------------------
(* What the administrator's page shows.                                    *)

FieldsShownInv ==
  /\ page.saving \in BOOLEAN /\ page.dirty \in BOOLEAN /\ server.others \in BOOLEAN
  /\ Len(calls) <= 1 /\ (~page.saving => calls = <<>>)
  /\ ~server.others =>
       /\ \A c \in Elems(calls) : c.reply \notin {Absent, Failure} => c.reply = server.config
       /\ calls = <<>> /\ ~page.dirty => page.config = server.config

LEMMA FieldsShownInit == FieldsInit => FieldsShownInv
  <1> SUFFICES ASSUME NEW c, page = FieldsStart(c), calls = <<>>, server = FieldsServer(c)
               PROVE  FieldsShownInv
    BY DEF FieldsInit
  <1>1. Len(<<>>) = 0
    OBVIOUS
  <1> QED BY <1>1, Few DEF FieldsShownInv, FieldsStart, FieldsServer

LEMMA FieldsShownNext == FieldsInv /\ FieldsShownInv /\ [FieldsNext \/ Lose]_vars => FieldsShownInv'
  <1> SUFFICES ASSUME FieldsInv, FieldsShownInv, [FieldsNext \/ Lose]_vars PROVE FieldsShownInv'
    OBVIOUS
  <1>1. /\ DOMAIN page = {"at", "config", "saving", "dirty", "taken"} /\ DOMAIN server = {"config", "others"}
        /\ IsSequence(calls) /\ \A i \in DOMAIN calls : DOMAIN calls[i] = CallFields
    BY DEF FieldsInv, FieldsCallOK, Elems
  <1>2. CASE UNCHANGED vars
    BY <1>2 DEF vars, FieldsShownInv
  <1>3. ASSUME NEW c, EditConfig(c) PROVE FieldsShownInv'
    BY <1>1, <1>3 DEF EditConfig, Show, FieldsShownInv
  <1>4. ASSUME NEW op, SubmitConfig(op) PROVE FieldsShownInv'
    <2> DEFINE c == Call(op, IF op = "save" THEN page.config ELSE Absent)
    <2>1. calls = <<>> /\ Send(<<c>>) /\ page' = [page EXCEPT !.saving = TRUE] /\ UNCHANGED server
      BY <1>4 DEF SubmitConfig, Show, FieldsShownInv
    <2>2. c.reply = Absent
      BY DEF Call
    <2> HIDE DEF c
    <2>3. Elems(calls') = {c} /\ Len(calls') <= 1 /\ calls' # <<>>
      BY <2>1, OneSent
    <2> QED BY <1>1, <2>1, <2>2, <2>3 DEF FieldsShownInv
  <1>5. CASE ConfigAnswer
    <2>1. PICK i \in DOMAIN calls :
            /\ calls[i].reply # Absent /\ calls' = Others(i) /\ UNCHANGED server
            /\ page' = IF Failed(i) THEN [page EXCEPT !.saving = FALSE, !.dirty = TRUE]
                       ELSE [page EXCEPT !.saving = FALSE, !.config = calls[i].reply, !.dirty = FALSE, !.taken = FALSE]
      BY <1>5 DEF ConfigAnswer, Confirmed, IsAnswered, Show, Take
    <2>2. Elems(calls) = {calls[i]} /\ calls' = <<>>
      BY <1>1, <2>1, Alone DEF FieldsShownInv
    <2>3. Elems(calls') = {} /\ Len(calls') <= 1
      <3>1. Len(<<>>) = 0
        OBVIOUS
      <3> QED BY <2>2, <3>1, Few
    <2>4. Failed(i) \/ server.others \/ calls[i].reply = server.config
      BY <2>1, <2>2 DEF Failed, FieldsShownInv
    <2>5. /\ page'.saving = FALSE /\ page'.dirty \in BOOLEAN
          /\ page'.dirty \/ (~Failed(i) /\ page'.config = calls[i].reply)
      BY <1>1, <2>1
    <2> QED BY <2>1, <2>2, <2>3, <2>4, <2>5 DEF FieldsShownInv
  <1>6. CASE SaveFieldConfig \/ Lose
    <2>1. PICK i \in DOMAIN calls : \E r \in {Failure, server'.config} :
            Reply(i, r) /\ page' = page /\ server'.others = server.others
      <3>1. CASE SaveFieldConfig
        BY <1>1, <3>1 DEF SaveFieldConfig
      <3>2. CASE Lose
        BY <3>2 DEF Lose
      <3> QED BY <1>6, <3>1, <3>2
    <2>2. PICK r \in {Failure, server'.config} :
            Reply(i, r) /\ page' = page /\ server'.others = server.others
      BY <2>1
    <2>3. PICK c : /\ c.reply = r /\ Elems(calls') = {c} /\ Len(calls') <= 1 /\ calls' # <<>>
      BY <1>1, <2>2, AloneAnswered DEF FieldsShownInv
    <2>4. calls # <<>>
      BY <1>1, Alone DEF FieldsShownInv
    <2> QED BY <2>2, <2>3, <2>4 DEF FieldsShownInv
  <1>7. CASE OtherSaves
    <2>1. page' = page /\ calls' = calls /\ server'.others = TRUE
      BY <1>7 DEF OtherSaves
    <2> QED BY <2>1 DEF FieldsShownInv
  <1>8. CASE UpdateField \/ AddCustomField \/ AddCandidateField \/ RenameCustomField \/ RemoveCustomField
             \/ ToggleAllowed \/ ToggleDefault
    BY <1>3, <1>8 DEF UpdateField, AddCustomField, AddCandidateField, RenameCustomField, RemoveCustomField,
                      ToggleAllowed, ToggleDefault
  <1> QED BY <1>2, <1>4, <1>5, <1>6, <1>7, <1>8 DEF FieldsNext

\* An administrator's page without unsaved edits shows what is stored
\* (AdminFieldsPage.tsx:293-360).
LEMMA FieldsAreShown == FieldsSpec => []ShowsWhatIsStored
  <1>1. FieldsShownInv => ShowsWhatIsStored
    BY DEF FieldsShownInv, ShowsWhatIsStored
  <1> QED BY <1>1, FieldsShownInit, FieldsShownNext, FieldsInvariant, PTL DEF FieldsSpec

-------------------------------------------------------------------------------
(* What the columns of a user show.                                        *)

Agrees(p, s) ==
  \/ p.prefs = s.stored
  \/ p.config # Absent /\ p.prefs = SanitizeUserFieldPreferences(s.stored, p.config)

ColumnsShownInv == ~page.doubt =>
  /\ Len(calls) <= 1
  /\ calls = <<>> /\ page.prefs # Absent => Agrees(page, server)
  /\ \A c \in Elems(calls) :
       /\ c.op = "fieldConfig" => page.prefs = Absent
       /\ c.op = "fieldConfig" /\ c.reply \notin {Absent, Failure} =>
            c.reply.prefs = SanitizeUserFieldPreferences(server.stored, c.reply.config)
       /\ c.op = "preferences" /\ c.reply \notin {Absent, Failure} => c.reply = server.stored

LEMMA ColumnsShownInit == ColumnsInit => ColumnsShownInv
  <1> SUFFICES ASSUME page = ColumnsStart, calls = ColumnsCalls PROVE ColumnsShownInv
    BY DEF ColumnsInit
  <1>1. page.prefs = Absent
    BY DEF ColumnsStart
  <1>2. Elems(calls) = {Call("fieldConfig", Absent)} /\ Len(calls) <= 1
    BY Few DEF ColumnsCalls
  <1>3. Call("fieldConfig", Absent).reply = Absent /\ Call("fieldConfig", Absent).op = "fieldConfig"
    BY DEF Call
  <1>4. calls # <<>>
    <2>1. Elems(calls) # {}
      BY <1>2
    <2> QED BY <2>1, Few
  <1> QED BY <1>1, <1>2, <1>3, <1>4 DEF ColumnsShownInv

LEMMA SentShown ==
  ASSUME ColumnsInv, ColumnsShownInv, NEW t, NEW STATE next, PersistFieldPreferences(t, next)
  PROVE  ColumnsShownInv'
  <1> DEFINE c == Call("preferences", next)
  <1>1. Send(<<c>>) /\ page'.doubt = (page.doubt \/ Waiting("preferences") \/ Waiting("fieldConfig"))
    BY DEF PersistFieldPreferences, Show, ColumnsInv
  <1>2. c.op = "preferences" /\ c.reply = Absent
    BY DEF Call
  <1> HIDE DEF c
  <1> SUFFICES ASSUME ~page'.doubt PROVE ColumnsShownInv'
    BY DEF ColumnsShownInv
  <1>3. calls = <<>>
    <2>1. \A i \in DOMAIN calls : calls[i].op \in {"fieldConfig", "preferences"}
      BY DEF ColumnsInv, ColumnsCallOK, Elems
    <2>2. DOMAIN calls = {}
      BY <1>1, <2>1 DEF Waiting
    <2>3. Elems(calls) = {}
      BY <2>2 DEF Elems
    <2> QED BY <2>3, NoneOrSome DEF ColumnsInv
  <1>4. Elems(calls') = {c} /\ Len(calls') <= 1 /\ calls' # <<>>
    BY <1>1, <1>3, OneSent
  <1> QED BY <1>2, <1>4 DEF ColumnsShownInv

LEMMA ServedShown ==
  ASSUME ColumnsInv, ColumnsShownInv, LoadFieldConfig \/ StorePreferences \/ Lose
  PROVE  ColumnsShownInv'
  <1>1. PICK i, r :
          /\ i \in DOMAIN calls /\ Reply(i, r) /\ UNCHANGED page
          /\ \/ r = Failure /\ UNCHANGED server
             \/ /\ calls[i].op = "fieldConfig" /\ UNCHANGED server
                /\ r = [config |-> server.config,
                        prefs |-> SanitizeUserFieldPreferences(server.stored, server.config)]
             \/ calls[i].op = "preferences" /\ r = server'.stored
    BY ColumnsServed
  <1> SUFFICES ASSUME ~page.doubt PROVE ColumnsShownInv'
    BY <1>1 DEF ColumnsShownInv
  <1>2. IsSequence(calls) /\ Len(calls) <= 1 /\ i \in DOMAIN calls /\ DOMAIN calls[i] = CallFields /\ calls[i] \in Elems(calls)
    BY <1>1 DEF ColumnsInv, ColumnsCallOK, ColumnsShownInv, Elems
  <1>3. Reply(i, r)
    BY <1>1
  <1>4. PICK c : /\ c.op = calls[i].op /\ c.args = calls[i].args /\ c.reply = r
                 /\ Elems(calls') = {c} /\ Len(calls') <= 1 /\ calls' # <<>>
    BY <1>2, <1>3, AloneAnswered
  <1>5. calls[i].op = "fieldConfig" => page.prefs = Absent
    BY <1>2 DEF ColumnsShownInv
  <1>6. /\ c.op = "fieldConfig" /\ c.reply \notin {Absent, Failure} =>
             c.reply.prefs = SanitizeUserFieldPreferences(server'.stored, c.reply.config)
        /\ c.op = "preferences" /\ c.reply \notin {Absent, Failure} => c.reply = server'.stored
    BY <1>1, <1>4
  <1> QED BY <1>1, <1>4, <1>5, <1>6 DEF ColumnsShownInv

LEMMA AnswerShown ==
  ASSUME ~TablesOK(Absent),
         ColumnsInv, ColumnsShownInv, FieldConfigAnswer \/ PreferencesAnswer
  PROVE  ColumnsShownInv'
  <1>1. PICK i \in DOMAIN calls :
          /\ calls[i].reply # Absent /\ calls' = Others(i) /\ UNCHANGED server
          /\ \/ calls[i].op = "fieldConfig" /\ Failed(i) /\ page' = page
             \/ /\ ~Failed(i) /\ calls[i].op = "fieldConfig"
                /\ page' = [page EXCEPT !.config = calls[i].reply.config, !.prefs = calls[i].reply.prefs,
                                        !.doubt = page.doubt \/ Waiting("preferences")]
             \/ Failed(i) /\ page' = [page EXCEPT !.doubt = TRUE]
             \/ ~Failed(i) /\ calls[i].op = "preferences" /\ page' = [page EXCEPT !.prefs = calls[i].reply]
    <2>1. CASE FieldConfigAnswer
      BY <2>1 DEF FieldConfigAnswer, IsAnswered, Show, Take
    <2>2. CASE PreferencesAnswer
      BY <2>2 DEF PreferencesAnswer, AfterSave, IsAnswered, Show, Take
    <2> QED BY <2>1, <2>2
  <1> SUFFICES ASSUME ~page'.doubt PROVE ColumnsShownInv'
    BY DEF ColumnsShownInv
  <1>2. ~page.doubt
    BY <1>1 DEF ColumnsInv
  <1>3. Elems(calls) = {calls[i]} /\ calls' = <<>>
    BY <1>1, <1>2, Alone DEF ColumnsInv, ColumnsShownInv
  <1>4. Elems(calls') = {} /\ Len(calls') <= 1
    <2>1. Len(<<>>) = 0
      OBVIOUS
    <2> QED BY <1>3, <2>1, Few
  <1>5. page'.prefs # Absent => Agrees(page', server')
    <2>1. CASE calls[i].op = "fieldConfig" /\ Failed(i) /\ page' = page
      BY <1>2, <1>3, <2>1 DEF ColumnsShownInv
    <2>2. CASE /\ ~Failed(i) /\ calls[i].op = "fieldConfig"
               /\ page'.config = calls[i].reply.config /\ page'.prefs = calls[i].reply.prefs
      <3>1. calls[i].reply \notin {Absent, Failure}
        BY <1>1, <2>2 DEF Failed
      <3>2. calls[i].reply.prefs = SanitizeUserFieldPreferences(server.stored, calls[i].reply.config)
        BY <1>2, <1>3, <2>2, <3>1 DEF ColumnsShownInv
      <3>3. calls[i].reply.config # Absent
        BY <1>3, <2>2, <3>1 DEF ColumnsInv, ColumnsCallOK
      <3> QED BY <1>1, <2>2, <3>2, <3>3 DEF Agrees
    <2>3. CASE ~Failed(i) /\ calls[i].op = "preferences" /\ page'.prefs = calls[i].reply
      <3>1. calls[i].reply \notin {Absent, Failure}
        BY <1>1, <2>3 DEF Failed
      <3>2. calls[i].reply = server.stored
        BY <1>2, <1>3, <2>3, <3>1 DEF ColumnsShownInv
      <3> QED BY <1>1, <2>3, <3>2 DEF Agrees
    <2> QED BY <1>1, <2>1, <2>2, <2>3 DEF ColumnsInv
  <1> QED BY <1>4, <1>5 DEF ColumnsShownInv

LEMMA ColumnsShownNext ==
  ASSUME ~TablesOK(Absent),
         ColumnsInv, ColumnsShownInv, [ColumnsNext \/ Lose]_vars
  PROVE  ColumnsShownInv'
  <1>1. CASE UNCHANGED vars
    BY <1>1 DEF vars, ColumnsShownInv, Agrees
  <1>2. ASSUME NEW t \in Tables, ToggleField(t) \/ MoveField(t) \/ SelectAll(t) \/ ResetFields(t)
                                  \/ ToggleReviews(t) \/ PersistFieldMode(t)
        PROVE  ColumnsShownInv'
    <2>1. PICK next : PersistFieldPreferences(t, next)
      BY <1>2 DEF ToggleField, MoveField, SelectAll, ResetFields, PersistFieldSelection, ToggleReviews, PersistFieldMode
    <2> QED BY <2>1, SentShown
  <1>3. CASE WithdrawField
    <2>1. page' = page /\ calls' = calls /\ server'.stored = server.stored
      BY <1>3 DEF WithdrawField, ColumnsInv
    <2> QED BY <2>1 DEF ColumnsShownInv, Agrees
  <1> QED BY <1>1, <1>2, <1>3, ServedShown, AnswerShown DEF ColumnsNext

LEMMA ColumnsAreShown ==
  ASSUME ~TablesOK(Absent)
  PROVE  ColumnsSpec => []PreferencesAreStored
  <1>1. ColumnsInv /\ ColumnsShownInv => PreferencesAreStored
    BY DEF ColumnsShownInv, PreferencesAreStored, Agrees
  <1>2. ColumnsInv /\ ColumnsShownInv /\ [ColumnsNext \/ Lose]_vars => ColumnsShownInv'
    BY ColumnsShownNext
  <1> QED BY <1>1, <1>2, ColumnsShownInit, ColumnsInvariant, PTL DEF ColumnsSpec

-------------------------------------------------------------------------------
(* Being busy.                                                             *)

LEMMA NoCalls == ASSUME calls = <<>> PROVE Elems(calls) = {} /\ ~(Len(calls) > 0)
  BY Few

\* What one of these pages shows as busy or loading is taken down with the
\* last request that is out, whatever failed, was cancelled or overtaken, but
\* for the flag of a flat list that was left while it loaded
\* (UploadPackPage.tsx:700-747, PartsPage.tsx:164-187, BomPage.tsx:127-141,
\* 301-321, PartDetailPage.tsx:1393-1407, 3338-3408, AdminFieldsPage.tsx:295-443).
THEOREM QuietPagesAreIdle ==
  /\ UploadSpec => []QuietPageIsIdle
  /\ TableSpec  => []QuietPageIsIdle
  /\ BomSpec    => []QuietPageIsIdle
  /\ PackSpec   => []QuietPageIsIdle
  /\ FieldsSpec => []QuietPageIsIdle
  <1>1. UploadInv => QuietPageIsIdle
    BY NoCalls DEF UploadInv, UploadShape, BusyIsOut, QuietPageIsIdle, Busy
  <1>2. TableInv => QuietPageIsIdle
    BY NoCalls DEF TableInv, TablePageOK, FetchIsOut, QuietPageIsIdle, Busy
  <1>3. BomInv => QuietPageIsIdle
    <2> SUFFICES ASSUME BomInv, calls = <<>> PROVE ~Busy(page)
      BY DEF QuietPageIsIdle
    <2>1. Counting(calls) = {}
      BY NoCalls DEF Counting
    <2>2. page.at = "bom" /\ Awaited(page) = {}
      BY <2>1 DEF BomInv, BomPageOK
    <2>3. ~page.treeLoading /\ ~(page.flatLoading /\ ~page.flatLeft) /\ ~page.whereUsedLoading
      BY <2>2 DEF Awaited, BomInv, BomPageOK
    <2> QED BY <2>2, <2>3 DEF Busy
  <1>4. PackInv => QuietPageIsIdle
    BY NoCalls DEF PackInv, PackPageOK, BuildIsOut, QuietPageIsIdle, Busy
  <1>5. FieldsInv => QuietPageIsIdle
    BY NoCalls DEF FieldsInv, QuietPageIsIdle, Busy
  <1>6. UploadSpec => []QuietPageIsIdle
    BY <1>1, UploadInvariant, PTL
  <1>7. TableSpec => []QuietPageIsIdle
    BY <1>2, TableInvariant, PTL
  <1>8. BomSpec => []QuietPageIsIdle
    BY <1>3, BomInvariant, PTL
  <1>9. PackSpec => []QuietPageIsIdle
    BY <1>4, PackInvariant, PTL
  <1>10. FieldsSpec => []QuietPageIsIdle
    BY <1>5, FieldsInvariant, PTL
  <1> QED BY <1>6, <1>7, <1>8, <1>9, <1>10

-------------------------------------------------------------------------------
(* Quiet pages.                                                            *)

\* A page on which nothing is on its way shows what is stored or was answered,
\* with the exceptions its own statement names (PartsPage.tsx:159-202,
\* AdminFieldsPage.tsx:293-360, MentionTextarea.tsx:86-97).
THEOREM QuietPagesShowTheStored ==
  /\ TableSpec   => []QuietPageShowsTheStored
  /\ FieldsSpec  => []QuietPageShowsTheStored
  /\ MentionSpec => []QuietPageShowsTheStored
  <1> USE DEF On
  <1>1. TableInv /\ RowsAnswerTheQuestion => QuietPageShowsTheStored
    BY DEF TableInv, TablePageOK, QuietPageShowsTheStored, ListIsCurrent, ShowsWhatIsStored, ShownSwitchesAreStored,
           CommentsAreTheParts, FilesAndLinksAreTheParts, PreferencesAreStored, SavedMarkupsAreStored,
           SuggestionsAnswerTheQuery
  <1>2. FieldsInv /\ ShowsWhatIsStored => QuietPageShowsTheStored
    BY DEF FieldsInv, QuietPageShowsTheStored, ListIsCurrent, RowsAnswerTheQuestion, ShownSwitchesAreStored,
           CommentsAreTheParts, FilesAndLinksAreTheParts, PreferencesAreStored, SavedMarkupsAreStored,
           SuggestionsAnswerTheQuery
  <1>3. MentionInv => SuggestionsAnswerTheQuery
    <2> SUFFICES ASSUME MentionInv, ~page.late
                 PROVE  /\ ~page.beside
                        /\ calls = <<>> /\ page.timer = Absent /\ IsOpen(page) => page.suggestions.of = page.typed
      BY DEF SuggestionsAnswerTheQuery
    <2> QED BY Few DEF MentionInv, MenuIsDue
  <1>4. MentionInv => QuietPageShowsTheStored
    BY <1>3 DEF MentionInv, QuietPageShowsTheStored, ListIsCurrent, RowsAnswerTheQuestion, ShownSwitchesAreStored,
           CommentsAreTheParts, FilesAndLinksAreTheParts, PreferencesAreStored, SavedMarkupsAreStored,
           ShowsWhatIsStored
  <1>5. TableSpec => []QuietPageShowsTheStored
    BY <1>1, TableInvariant, RowsAnswer, PTL
  <1>6. FieldsSpec => []QuietPageShowsTheStored
    BY <1>2, FieldsInvariant, FieldsAreShown, PTL
  <1>7. MentionSpec => []QuietPageShowsTheStored
    BY <1>4, MentionInvariant, PTL
  <1> QED BY <1>5, <1>6, <1>7

\* So do the columns (PartsPage.tsx:212-218).
THEOREM QuietColumnsShowTheStored ==
  ASSUME ~TablesOK(Absent)
  PROVE  ColumnsSpec => []QuietPageShowsTheStored
  <1> USE DEF On
  <1>1. ColumnsInv /\ PreferencesAreStored => QuietPageShowsTheStored
    BY DEF ColumnsInv, QuietPageShowsTheStored, ListIsCurrent, RowsAnswerTheQuestion, ShownSwitchesAreStored,
           CommentsAreTheParts, FilesAndLinksAreTheParts, ShowsWhatIsStored, SavedMarkupsAreStored,
           SuggestionsAnswerTheQuery
  <1> QED BY <1>1, ColumnsInvariant, ColumnsAreShown, PTL
===============================================================================
