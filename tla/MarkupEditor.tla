------------------------------ MODULE MarkupEditor -----------------------------
(***************************************************************************)
(* The markup editor of a drawing in the browser: frontend/src/components/ *)
(* markups/DrawingMarkupWorkspace.tsx with MarkupThreadsPanel.tsx and      *)
(* MarkupToolbar.tsx, and what PartDetailPage.tsx loads and keeps for it.  *)
(* Markups models the handlers; here they are single steps.                *)
(*                                                                         *)
(* The editor is mounted while its tab is open and a part is shown, anew   *)
(* for every part and drawing.  The page around it keeps the drawing, the  *)
(* layer and one draft.  A canvas is its marks and which of them are dark, *)
(* that is invisible.  `want' and `risky' are history: the marks as the    *)
(* user last left them, unless they are saved; whether something was done  *)
(* that can lose them (see WorkIsKept).                                    *)
(***************************************************************************)
EXTENDS Browser, SequencesExt

CONSTANTS
  Drawings,    \* each part has one; a part is known by it
  Marks,       \* objects that can be drawn
  MaxHistory,  \* steps that can be undone; 60 in the code
  Conflict     \* the answer 409

Json(marks, dark) == [marks |-> marks, dark |-> dark]

\* As it is saved, nothing is dark.
Canvases == [marks : SUBSET Marks, dark : SUBSET Marks]
Bright   == [marks : SUBSET Marks, dark : {{}}]
Layers   == [of : Drawings, version : Nat, canvas : Bright,
             threads : Seq([id : Nat, marks : SUBSET Marks, open : BOOLEAN])]
Drafts   == [source : Drawings, of : Drawings \cup {Absent}, base : Nat, json : Bright]

ASSUME MarkupAssumption ==
  Absent \notin Bright \cup Drafts \cup Layers \cup {Conflict, Failure} /\ Conflict \notin Layers \cup {Failure}

Unmounted ==
  [ready |-> FALSE, loaded |-> FALSE, canvas |-> Json({}, {}), saved |-> Absent, history |-> <<>>,
   index |-> 0, state |-> "saved", base |-> 0, of |-> Absent, busy |-> FALSE, prompt |-> {},
   message |-> FALSE, manual |-> {}, revealed |-> {}, hidden |-> {}, showResolved |-> FALSE]

MarkupStart(d, l, uses) ==
  [at |-> "markup", uses |-> uses, url |-> d, source |-> d, layer |-> l, draft |-> Absent,
   shown |-> TRUE, mount |-> 1, ed |-> Unmounted, want |-> Absent, risky |-> FALSE]

\* The layers, and whether somebody else saved one.
MarkupServer(layers) == [layers |-> layers, others |-> FALSE, made |-> 0]

Layer(d, version, marks, threads) ==
  [of |-> d, version |-> version, canvas |-> Json(marks, {}), threads |-> threads]

-------------------------------------------------------------------------------
(* The canvas.                                                             *)

\* Mutant: what is hidden is saved as hidden.
SerializeAsShown(e) == e.canvas

\* Marks hidden by their reviews or by hand are written as visible.
Serialize(e) == Json(e.canvas.marks, e.canvas.dark \ e.hidden)

Linked(l)   == UNION {t.marks : t \in ToSet(l.threads)}
Resolved(l) == IF l = Absent THEN {}
               ELSE {m \in Linked(l) : \A t \in ToSet(l.threads) : m \in t.marks => ~t.open}

ComputeHidden(e, l) == e.manual \cup (IF e.showResolved THEN {} ELSE Resolved(l) \ e.revealed)

ApplyHidden(e, l) ==
  LET h == ComputeHidden(e, l) IN
  IF e.ready THEN [e EXCEPT !.hidden = h, !.canvas.dark = e.canvas.marks \cap h] ELSE e

RefreshDirty(e) ==
  IF e.state \in {"conflict", "saving"} THEN e
  ELSE [e EXCEPT !.state = IF Serialize(e) = e.saved THEN "saved" ELSE "dirty"]

\* The draft is updated by the state of the last rendering, before the edit.
UpdateDraft(p, e) ==
  IF p.ed.state = "dirty" /\ e.state \notin {"saving", "conflict"}
  THEN [source |-> p.source, of |-> e.of, base |-> e.base, json |-> Serialize(e)] ELSE p.draft

Wanted(p, e) == IF Serialize(e) = e.saved THEN Absent ELSE [of |-> p.source, marks |-> e.canvas.marks]

\* The canvas was changed; `e' is the editor after it.
Mutated(p, e) ==
  LET r == RefreshDirty(e) IN
  [p EXCEPT !.ed = r, !.draft = UpdateDraft(p, r), !.want = Wanted(p, r),
            !.risky = @ \/ r.state = "saving" \/ ~r.loaded]

SnapshotHistory(e) ==
  LET j == Serialize(e)
      s == Append(SubSeq(e.history, 1, e.index), j)
      kept == IF Len(s) > MaxHistory THEN Tail(s) ELSE s
  IN IF e.index # 0 /\ e.history[e.index] = j THEN e
     ELSE [e EXCEPT !.history = kept, !.index = Len(kept)]

\* Mutant: work that was brought back counts as saved.
RestoredAsSaved(e, d) == [e EXCEPT !.base = d.base, !.canvas = d.json, !.saved = d.json]

Restored(e, d) == [e EXCEPT !.base = d.base, !.canvas = d.json, !.saved = Absent, !.state = "dirty"]

\* The first layer that is there when the canvas is: a draft wins over it.
InitialLoad(p) ==
  LET l == p.layer
      d == p.draft
      e == [p.ed EXCEPT !.of = l.of, !.loaded = TRUE]
      r == IF d # Absent /\ d.source = p.source /\ d.of = l.of THEN Restored(e, d)
           ELSE [e EXCEPT !.base = l.version, !.canvas = l.canvas, !.state = "saved",
                          !.saved = Serialize([e EXCEPT !.canvas = l.canvas])]
  IN [p EXCEPT !.ed = ApplyHidden([r EXCEPT !.history = <<Serialize(r)>>, !.index = 1], l),
               !.risky = @ \/ {l.of, p.source} # {p.url}]

\* The page around the editor has another layer.
LayerChange(p, l) ==
  LET q == [p EXCEPT !.layer = l] IN
  CASE q.ed.ready /\ ~q.ed.loaded /\ l # Absent -> InitialLoad(q)
    [] q.ed.loaded -> [q EXCEPT !.ed = ApplyHidden(@, l)]
    [] OTHER -> q

\* Unmounting keeps unsaved work in the draft of the page.
Leave(p) ==
  [p EXCEPT
     !.draft = IF p.ed.ready /\ p.ed.state = "dirty"
               THEN [source |-> p.source, of |-> p.ed.of, base |-> p.ed.base, json |-> Serialize(p.ed)]
               ELSE IF p.ed.ready /\ p.ed.state = "saved" THEN Absent ELSE @,
     !.risky = @ \/ p.ed.state \in {"saving", "conflict"}
                 \/ (p.ed.ready /\ p.draft # Absent /\ p.draft.source # p.source),
     !.ed = Unmounted, !.mount = @ + 1]

-------------------------------------------------------------------------------
(* The page around the editor.                                             *)

Viewing(p) == Act /\ On("markup") /\ Show(p) /\ UNCHANGED <<calls, server>>

Abandoned(cs) ==
  [i \in DOMAIN cs |-> IF cs[i].op \in {"source", "layer"} THEN [cs[i] EXCEPT !.args.canceled = TRUE] ELSE cs[i]]

\* Another part, or this one again after its files were refreshed.
OpenPart(d) ==
  /\ Act /\ On("markup") /\ page.shown
  /\ Show([Leave(page) EXCEPT !.url = d, !.shown = FALSE])
  /\ calls' = Append(Abandoned(calls), Call("source", [of |-> d, canceled |-> FALSE]))
  /\ UNCHANGED server

SwitchTab == page.shown /\ Viewing([Leave(page) EXCEPT !.shown = FALSE])

\* The part is loaded, or the user is back.
MountEditor ==
  /\ ~page.shown
  /\ Show([page EXCEPT !.shown = TRUE])
  /\ UNCHANGED <<calls, server, left>>

\* The drawing's image is there, and with it the canvas.
ImageLoads ==
  /\ page.shown /\ ~page.ed.ready
  /\ LET p == [page EXCEPT !.ed.ready = TRUE] IN Show(IF p.layer # Absent THEN InitialLoad(p) ELSE p)
  /\ UNCHANGED <<calls, server, left>>

ServeDrawing == \E i \in DOMAIN calls :
  /\ \/ IsAsked(i, "source") /\ Reply(i, calls[i].args.of)
     \/ (IsAsked(i, "layer") \/ IsAsked(i, "fresh")) /\ Reply(i, server.layers[calls[i].args.of])
  /\ UNCHANGED <<page, server, left>>

\* Another drawing is another editor; the layer is still the one before.
ShowDrawing(p, d) == IF d = p.source THEN p ELSE [(IF p.shown THEN Leave(p) ELSE p) EXCEPT !.source = d]

DrawingAnswer == \E i \in DOMAIN calls :
  /\ IsAnswered(i, "source") \/ IsAnswered(i, "layer")
  /\ LET stopped == calls[i].args.canceled IN
     /\ Show(CASE stopped -> page
               [] ~stopped /\ Failed(i) -> [LayerChange(page, Absent) EXCEPT !.risky = TRUE]
               [] ~stopped /\ ~Failed(i) /\ calls[i].op = "source" -> ShowDrawing(page, calls[i].reply)
               [] ~stopped /\ ~Failed(i) /\ calls[i].op = "layer"  -> LayerChange(page, calls[i].reply))
     /\ TakeAndSend(i, IF stopped \/ Failed(i) \/ calls[i].op = "layer" THEN <<>>
                       ELSE <<Call("layer", [of |-> calls[i].reply, canceled |-> FALSE])>>)
  /\ UNCHANGED <<server, left>>

PagePart == (\E d \in Drawings : OpenPart(d)) \/ SwitchTab \/ MountEditor \/ ImageLoads \/ ServeDrawing \/ DrawingAnswer

-------------------------------------------------------------------------------
(* Drawing.  The buttons are disabled while a save is out; a tool that is  *)
(* active, the mouse and the Delete key are not.                           *)

Editable == page.ed.ready /\ page.ed.state # "conflict"

\* A new mark asks for a review of itself.
DrawMark(m) ==
  /\ Editable /\ m \notin page.ed.canvas.marks
  /\ LET e == [page.ed EXCEPT !.canvas.marks = @ \cup {m}] IN
     Viewing(Mutated(page, [SnapshotHistory(e) EXCEPT !.prompt = @ \cup {m}]))

DeleteSelected(m) ==
  /\ Editable /\ m \in page.ed.canvas.marks \ page.ed.canvas.dark
  /\ LET e == [page.ed EXCEPT !.canvas.marks = @ \ {m}] IN
     Viewing(Mutated(page, [SnapshotHistory(e) EXCEPT !.prompt = @ \ {m}]))

ApplyHistory(k) ==
  /\ page.ed.ready /\ page.ed.state \notin {"conflict", "saving"}
  /\ k \in DOMAIN page.ed.history /\ k \in {page.ed.index - 1, page.ed.index + 1}
  /\ Viewing(Mutated(page, ApplyHidden([page.ed EXCEPT !.index = k, !.canvas = page.ed.history[k]], page.layer)))

ToggleResolved ==
  /\ page.ed.loaded
  /\ Viewing([page EXCEPT !.ed = ApplyHidden([page.ed EXCEPT !.showResolved = ~@], page.layer)])

ToggleThreadVisibility == \E t \in ToSet(page.layer.threads) :
  LET e == page.ed IN
  /\ page.shown /\ t.marks # {}
  /\ Viewing([page EXCEPT !.ed = ApplyHidden(
       IF t.marks \subseteq e.hidden
       THEN [e EXCEPT !.manual = @ \ t.marks, !.revealed = @ \cup t.marks]
       ELSE [e EXCEPT !.manual = @ \cup t.marks, !.revealed = @ \ t.marks], page.layer)])

DrawPart ==
  \/ \E m \in Marks : DrawMark(m) \/ DeleteSelected(m)
  \/ "undo" \in page.uses /\ \E k \in 1 .. MaxHistory : ApplyHistory(k)
  \/ "reviews" \in page.uses /\ (ToggleResolved \/ (page.layer # Absent /\ ToggleThreadVisibility))

-------------------------------------------------------------------------------
(* Saving and reviewing.  An answer finds the editor that asked, or only   *)
(* the page around it.                                                     *)

Mine(i) == page.shown /\ calls[i].args.mount = page.mount

SaveCall(then) ==
  Call("save", [of |-> page.source, fingerprint |-> page.ed.of, base |-> page.ed.base,
                json |-> Serialize(page.ed), mount |-> page.mount, then |-> then])

ThreadCall(kind, of, fingerprint, marks, id, mount) ==
  Call("thread", [kind |-> kind, of |-> of, fingerprint |-> fingerprint, marks |-> marks, id |-> id, mount |-> mount])

Saving(then) ==
  /\ Act /\ Show([page EXCEPT !.ed.state = "saving"]) /\ Send(<<SaveCall(then)>>) /\ UNCHANGED server

SaveMarkups == page.ed.ready /\ page.ed.state = "dirty" /\ Saving({})

\* Threads link to stored marks: unsaved ones are saved first.
CreateThread ==
  /\ page.ed.ready /\ ~page.ed.busy /\ page.ed.message
  /\ \E marks \in (IF page.ed.prompt # {} THEN {page.ed.prompt}
                   ELSE {{m} : m \in page.ed.canvas.marks \ page.ed.canvas.dark}) :
       IF page.ed.state = "dirty" THEN Saving(marks)
       ELSE /\ Act /\ Show([page EXCEPT !.ed.busy = TRUE])
            /\ Send(<<ThreadCall("create", page.source, page.ed.of, marks, 0, page.mount)>>)
            /\ UNCHANGED server

\* A reply, another status or priority, or a deletion.
ThreadRequest(kind) ==
  /\ page.ed.ready /\ ~page.ed.busy /\ page.layer # Absent
  /\ \E t \in ToSet(page.layer.threads) :
       /\ Act /\ Show([page EXCEPT !.ed.busy = TRUE])
       /\ Send(<<ThreadCall(kind, page.source, page.ed.of, {}, t.id, page.mount)>>)
  /\ UNCHANGED server

WriteReview == page.ed.ready /\ ~page.ed.message /\ Viewing([page EXCEPT !.ed.message = TRUE])

CloseForm(e) == [e EXCEPT !.message = FALSE, !.prompt = {}]

SkipReview == ~page.ed.busy /\ page.ed.prompt # {} /\ Viewing([page EXCEPT !.ed = CloseForm(@)])

ReloadFromServer ==
  /\ page.ed.state = "conflict"
  /\ Act /\ Send(<<Call("fresh", [of |-> page.source, mount |-> page.mount])>>) /\ UNCHANGED <<page, server>>

Stored(d, l) == server' = [server EXCEPT !.layers[d] = l, !.made = @ + 1]

\* Links to marks that are gone are taken out of the threads.
StoreMarkups == \E i \in DOMAIN calls :
  /\ IsAsked(i, "save")
  /\ LET a == calls[i].args
         l == server.layers[a.of]
         pruned == [k \in DOMAIN l.threads |-> [l.threads[k] EXCEPT !.marks = @ \cap a.json.marks]]
         new == [l EXCEPT !.version = @ + 1, !.canvas = a.json, !.threads = pruned]
     IN IF a.fingerprint # a.of \/ a.base # l.version
        THEN Reply(i, Conflict) /\ UNCHANGED server
        ELSE Reply(i, new) /\ Stored(a.of, new)
  /\ UNCHANGED <<page, left>>

StoreThread == \E i \in DOMAIN calls :
  /\ IsAsked(i, "thread")
  /\ LET a == calls[i].args
         l == server.layers[a.of]
         threads == CASE a.kind = "create" -> Append(l.threads, [id |-> server.made + 1, marks |-> a.marks, open |-> TRUE])
                      [] a.kind = "state"  ->
                           [k \in DOMAIN l.threads |->
                              IF l.threads[k].id = a.id THEN [l.threads[k] EXCEPT !.open = ~@] ELSE l.threads[k]]
                      [] a.kind = "delete" -> Picked(l.threads, {k \in DOMAIN l.threads : l.threads[k].id # a.id})
                      [] a.kind = "reply"  -> l.threads
         new == [l EXCEPT !.version = @ + 1, !.threads = threads]
         found == IF a.kind = "create" THEN a.marks \subseteq l.canvas.marks
                  ELSE \E t \in ToSet(l.threads) : t.id = a.id
     IN IF a.fingerprint # a.of THEN Reply(i, Conflict) /\ UNCHANGED server
        ELSE IF ~found THEN Reply(i, Failure) /\ UNCHANGED server
        ELSE Reply(i, new) /\ Stored(a.of, new)
  /\ UNCHANGED <<page, left>>

\* Somebody else saves the layer.
OthersSave(d, m) ==
  /\ Act /\ On("markup")
  /\ LET l == server.layers[d] IN
     server' = [server EXCEPT !.others = TRUE, !.layers[d] = [l EXCEPT !.version = @ + 1, !.canvas.marks = @ \cup {m}]]
  /\ UNCHANGED <<page, calls>>

\* An answer is due that holds a layer.
LayerIsDue == Waiting("layer") \/ Waiting("fresh") \/ Waiting("thread")

SettledWant(i) == IF page.want = [of |-> calls[i].args.of, marks |-> calls[i].args.json.marks] THEN Absent ELSE page.want

\* What was sent is what counts as saved; the draft goes, and the page around
\* the editor takes the layer, whichever editor it shows by then.
SaveAnswer == \E i \in DOMAIN calls :
  /\ IsAnswered(i, "save")
  /\ LET r == calls[i].reply
         a == calls[i].args
         e == IF Mine(i) THEN [page.ed EXCEPT !.base = r.version, !.of = r.of, !.saved = a.json,
                                             !.state = "saved", !.busy = @ \/ a.then # {}]
              ELSE page.ed
         refused == IF Failed(i) THEN "dirty" ELSE "conflict"
     IN IF r \in {Failure, Conflict}
        THEN /\ Show([page EXCEPT !.ed.state = IF Mine(i) THEN refused ELSE @, !.risky = @ \/ Failed(i) \/ ~Mine(i)])
             /\ Take(i)
        ELSE /\ Show(LayerChange([page EXCEPT !.ed = e, !.draft = Absent, !.want = SettledWant(i),
                                              !.risky = @ \/ ~Mine(i) \/ LayerIsDue], r))
             /\ TakeAndSend(i, IF a.then = {} THEN <<>>
                               ELSE <<ThreadCall("create", a.of, r.of, a.then, 0, a.mount)>>)
  /\ UNCHANGED <<server, left>>

ThreadAnswer == \E i \in DOMAIN calls :
  /\ IsAnswered(i, "thread")
  /\ LET r == calls[i].reply
         done == [page.ed EXCEPT !.busy = FALSE]
         e == IF calls[i].args.kind = "create" THEN CloseForm([done EXCEPT !.base = r.version])
              ELSE [done EXCEPT !.base = r.version]
     IN Show(IF Failed(i) THEN IF Mine(i) THEN [page EXCEPT !.ed = done] ELSE page
             ELSE IF r = Conflict THEN IF Mine(i) THEN [page EXCEPT !.ed = [done EXCEPT !.state = "conflict"]] ELSE page
             ELSE LayerChange(IF Mine(i) THEN [page EXCEPT !.ed = e] ELSE [page EXCEPT !.risky = TRUE], r))
  /\ Take(i)
  /\ UNCHANGED <<server, left>>

ReloadAnswer == \E i \in DOMAIN calls :
  /\ IsAnswered(i, "fresh")
  /\ LET l == calls[i].reply
         e == [page.ed EXCEPT !.base = l.version, !.of = l.of, !.canvas = l.canvas, !.state = "saved", !.prompt = {}]
         j == Serialize(e)
     IN Show(IF Failed(i) \/ ~Mine(i) \/ ~page.ed.ready THEN page
             ELSE LayerChange([page EXCEPT !.ed = [e EXCEPT !.saved = j, !.history = <<j>>, !.index = 1],
                                 !.draft = Absent, !.want = Absent, !.risky = @ \/ page.ed.state # "conflict"], l))
  /\ Take(i)
  /\ UNCHANGED <<server, left>>

ReviewPart ==
  \/ CreateThread \/ WriteReview \/ SkipReview \/ StoreThread \/ ThreadAnswer
  \/ \E kind \in {"reply", "state", "delete"} : ThreadRequest(kind)

MarkupNext ==
  /\ On("markup")
  /\ \/ PagePart \/ DrawPart
     \/ SaveMarkups \/ StoreMarkups \/ SaveAnswer \/ ReloadFromServer \/ ReloadAnswer
     \/ \E d \in Drawings, m \in Marks : OthersSave(d, m)
     \/ "reviews" \in page.uses /\ ReviewPart

-------------------------------------------------------------------------------

\* What was drawn and not saved is on the canvas or in the draft, across tabs
\* (types.ts:138, DrawingMarkupWorkspace.tsx:997-1016), unless it was drawn
\* while a save was out or before the layer was there, the tab was left while a
\* save was out or a conflict unsolved, a request failed or was answered too
\* late, a save was answered while another layer was due, a reload was when the
\* conflict was over, or another drawing was edited meanwhile.
WorkIsKept ==
  On("markup") /\ page.want # Absent /\ ~page.risky =>
    \/ page.shown /\ page.ed.loaded /\ page.source = page.want.of /\ page.ed.canvas.marks = page.want.marks
    \/ /\ ~page.shown \/ ~page.ed.loaded \/ page.source # page.want.of
       /\ page.draft # Absent /\ page.draft.source = page.want.of /\ page.draft.json.marks = page.want.marks

\* A quiet editor that says "Saved" shows what is stored for the drawing of
\* its part, with the same exceptions and if nobody else saved; and no mark
\* is stored as hidden (DrawingMarkupWorkspace.tsx:182).
SavedMarkupsAreStored ==
  On("markup") =>
    /\ page.shown /\ page.ed.loaded /\ page.ed.state = "saved" /\ calls = <<>> /\ ~page.risky /\ ~server.others =>
         page.source = page.url /\ Serialize(page.ed) = server.layers[page.url].canvas
    /\ \A d \in Drawings : server.layers[d].canvas.dark = {}
===============================================================================
