----------------------------- MODULE MarkupProofs ------------------------------
(***************************************************************************)
(* Proofs about MarkupEditor, alone with its server: for any number of     *)
(* drawings, marks, reviews and requests, and any order in which they meet *)
(* what the user draws, undoes, saves, reloads, opens and leaves, unsaved  *)
(* work is on the canvas or in the draft, and what is called saved is      *)
(* stored.                                                                 *)
(*                                                                         *)
(* Each handler makes one of a few kinds of step: the page alone changes,  *)
(* a request is sent, served or lost, or an answer is taken.  A kind has a *)
(* lemma, which says what of the invariant is left to show of the handler. *)
(***************************************************************************)
EXTENDS FrontEnd, BrowserProofs

-------------------------------------------------------------------------------
(* The markup editor, opened on the drawing of a part with its layer.      *)

MarkupInit == \E layers \in [Drawings -> Layers], d \in Drawings, uses \in SUBSET {"undo", "reviews"} :
  /\ \A e \in Drawings : layers[e].of = e
  /\ page = MarkupStart(d, layers[d], uses)
  /\ calls = <<>>
  /\ server = MarkupServer(layers)
  /\ left \in Nat

MarkupSpec == MarkupInit /\ [][MarkupNext \/ Lose]_vars

-------------------------------------------------------------------------------
(* The inductive invariant.                                                *)

EditorFields == {"ready", "loaded", "canvas", "saved", "history", "index", "state", "base", "of", "busy",
                 "prompt", "message", "manual", "revealed", "hidden", "showResolved"}

EditorOK(e) ==
  /\ DOMAIN e = EditorFields
  /\ e.ready \in BOOLEAN /\ e.loaded \in BOOLEAN /\ e.busy \in BOOLEAN
  /\ e.canvas \in Canvases /\ e.canvas.dark \subseteq e.hidden
  /\ e.saved \in Bright \cup {Absent}
  /\ e.history \in Seq(Bright) /\ e.index \in 0 .. Len(e.history)
  /\ e.state \in {"saved", "dirty", "saving", "conflict"}
  /\ e.base \in Nat /\ e.of \in Drawings \cup {Absent}
  /\ e.prompt \subseteq Marks
  /\ e.loaded => e.ready
  /\ e.ready \/ (~e.loaded /\ ~e.busy /\ e.state = "saved")

MarkupFields == {"at", "uses", "url", "source", "layer", "draft", "shown", "mount", "ed", "want", "risky"}

MarkupPageOK(p) ==
  /\ DOMAIN p = MarkupFields /\ p.at = "markup" /\ p.risky \in BOOLEAN /\ p.shown \in BOOLEAN
  /\ p.url \in Drawings /\ p.source \in Drawings /\ p.mount \in Nat
  /\ p.layer \in Layers \cup {Absent} /\ p.draft \in Drafts \cup {Absent}
  /\ p.want \in [of : Drawings, marks : SUBSET Marks] \cup {Absent}
  /\ EditorOK(p.ed) /\ (p.ed.ready => p.shown)

\* The work is on the canvas or in the draft.
OnCanvas(p) == p.ed.loaded /\ p.source = p.want.of

WorkSafe(p) ==
  /\ p.layer # Absent
  /\ p.ed.ready = p.ed.loaded
  /\ p.ed.loaded => p.ed.of = p.source /\ p.source = p.url
  /\ p.draft # Absent => p.draft.of = p.draft.source
  /\ p.want # Absent /\ OnCanvas(p) => p.ed.canvas.marks = p.want.marks /\ p.ed.state # "saved"
  /\ p.want # Absent /\ p.ed.loaded /\ p.ed.state # "saved" => p.source = p.want.of
  /\ p.want # Absent /\ ~OnCanvas(p) =>
       p.draft # Absent /\ p.draft.source = p.want.of /\ p.draft.json.marks = p.want.marks

Guarded(p) == p.risky \/ WorkSafe(p)

-------------------------------------------------------------------------------
(* The operators of the editor.                                            *)

LEMMA UnmountedOK == EditorOK(Unmounted) /\ Unmounted.ready = FALSE /\ Unmounted.loaded = FALSE /\ Unmounted.state = "saved"
                     /\ Unmounted.busy = FALSE
  <1>1. Json({}, {}) \in Canvases
    BY DEF Json, Canvases
  <1>2. <<>> \in Seq(Bright) /\ 0 \in 0 .. Len(<<>>)
    OBVIOUS
  <1> QED BY <1>1, <1>2 DEF Unmounted, EditorOK, EditorFields, Json

\* What is saved is what is drawn.
LEMMA Serialized ==
  ASSUME NEW e, EditorOK(e)
  PROVE  Serialize(e) = Json(e.canvas.marks, {}) /\ Serialize(e) \in Bright /\ Serialize(e).marks = e.canvas.marks
  <1>1. e.canvas.dark \ e.hidden = {} /\ e.canvas.marks \in SUBSET Marks
    BY DEF EditorOK, Canvases
  <1> QED BY <1>1 DEF Serialize, Json, Bright

\* Hiding changes no mark.
LEMMA HiddenOK ==
  ASSUME NEW e, EditorOK(e), e.ready, NEW l
  PROVE  /\ EditorOK(ApplyHidden(e, l))
         /\ \A f \in EditorFields \ {"canvas", "hidden"} : ApplyHidden(e, l)[f] = e[f]
         /\ ApplyHidden(e, l).canvas.marks = e.canvas.marks
         /\ Serialize(ApplyHidden(e, l)) = Serialize(e)
  <1> DEFINE h == ComputeHidden(e, l)
             a == ApplyHidden(e, l)
  <1>1. a = [e EXCEPT !.hidden = h, !.canvas.dark = e.canvas.marks \cap h]
    BY DEF ApplyHidden
  <1> HIDE DEF h, a
  <1>2. /\ DOMAIN a = EditorFields /\ a.hidden = h
        /\ a.canvas = [e.canvas EXCEPT !.dark = e.canvas.marks \cap h]
        /\ \A f \in EditorFields \ {"canvas", "hidden"} : a[f] = e[f]
    BY <1>1 DEF EditorOK, EditorFields
  <1>3. a.canvas \in Canvases /\ a.canvas.dark \subseteq h /\ a.canvas.marks = e.canvas.marks
    BY <1>2 DEF EditorOK, Canvases
  <1>4. /\ a.ready = e.ready /\ a.loaded = e.loaded /\ a.busy = e.busy /\ a.saved = e.saved /\ a.history = e.history
        /\ a.index = e.index /\ a.state = e.state /\ a.base = e.base /\ a.of = e.of /\ a.prompt = e.prompt
    BY <1>2 DEF EditorFields
  <1>5. EditorOK(a)
    BY <1>2, <1>3, <1>4 DEF EditorOK
  <1>6. Serialize(a) = Serialize(e)
    BY <1>3, <1>5, Serialized
  <1> QED BY <1>2, <1>3, <1>5, <1>6 DEF a

\* The state of an editor that is neither saving nor in conflict says whether
\* the canvas is saved.
LEMMA Refreshed ==
  ASSUME NEW e, EditorOK(e), e.ready
  PROVE  /\ EditorOK(RefreshDirty(e))
         /\ \A f \in EditorFields \ {"state"} : RefreshDirty(e)[f] = e[f]
         /\ Serialize(RefreshDirty(e)) = Serialize(e)
         /\ e.state \in {"saving", "conflict"} => RefreshDirty(e).state = e.state
         /\ e.state \in {"saved", "dirty"} =>
              RefreshDirty(e).state = IF Serialize(e) = e.saved THEN "saved" ELSE "dirty"
  <1> DEFINE r == RefreshDirty(e)
  <1>1. e.state \in {"saved", "dirty", "saving", "conflict"} /\ DOMAIN e = EditorFields
    BY DEF EditorOK
  <1>2. \/ e.state \in {"saving", "conflict"} /\ r = e
        \/ /\ e.state \in {"saved", "dirty"}
           /\ r = [e EXCEPT !.state = IF Serialize(e) = e.saved THEN "saved" ELSE "dirty"]
    BY <1>1 DEF RefreshDirty
  <1> HIDE DEF r
  <1>3. /\ DOMAIN r = EditorFields /\ \A f \in EditorFields \ {"state"} : r[f] = e[f]
        /\ r.state \in {"saved", "dirty", "saving", "conflict"}
    BY <1>1, <1>2 DEF EditorFields
  <1>4. /\ r.ready = e.ready /\ r.loaded = e.loaded /\ r.busy = e.busy /\ r.saved = e.saved /\ r.history = e.history
        /\ r.index = e.index /\ r.base = e.base /\ r.of = e.of /\ r.prompt = e.prompt /\ r.canvas = e.canvas
        /\ r.hidden = e.hidden
    BY <1>3 DEF EditorFields
  <1>5. EditorOK(r)
    BY <1>3, <1>4 DEF EditorOK
  <1>6. Serialize(r) = Serialize(e)
    BY <1>4, <1>5, Serialized
  <1>7. /\ e.state \in {"saving", "conflict"} => r.state = e.state
        /\ e.state \in {"saved", "dirty"} => r.state = IF Serialize(e) = e.saved THEN "saved" ELSE "dirty"
    BY <1>1, <1>2 DEF EditorFields
  <1> QED BY <1>3, <1>5, <1>6, <1>7 DEF r

\* A step that can be undone changes no mark.
LEMMA Snapped ==
  ASSUME NEW e, EditorOK(e), e.ready
  PROVE  /\ EditorOK(SnapshotHistory(e))
         /\ \A f \in EditorFields \ {"history", "index"} : SnapshotHistory(e)[f] = e[f]
  <1> DEFINE j == Serialize(e)
             s == Append(SubSeq(e.history, 1, e.index), j)
             kept == IF Len(s) > MaxHistory THEN Tail(s) ELSE s
             n == SnapshotHistory(e)
  <1>1. n = e \/ n = [e EXCEPT !.history = kept, !.index = Len(kept)]
    BY DEF SnapshotHistory
  <1>2. SubSeq(e.history, 1, e.index) \in Seq(Bright)
    BY SubSeqProperties DEF EditorOK
  <1>3. s \in Seq(Bright) /\ Len(s) # 0
    BY <1>2, Serialized, AppendProperties
  <1>4. kept \in Seq(Bright) /\ Len(kept) \in 0 .. Len(kept)
    <2>1. s # <<>>
      BY <1>3
    <2>2. Tail(s) \in Seq(Bright)
      BY <1>3, <2>1, HeadTailProperties
    <2>3. kept \in Seq(Bright)
      BY <1>3, <2>2
    <2> HIDE DEF kept
    <2> QED BY <2>3, LenProperties
  <1> HIDE DEF kept, n
  <1>5. n = e \/ /\ DOMAIN n = EditorFields /\ n.history = kept /\ n.index = Len(kept)
                 /\ \A f \in EditorFields \ {"history", "index"} : n[f] = e[f]
    BY <1>1 DEF EditorOK, EditorFields
  <1>6. CASE n = e
    BY <1>6 DEF n
  <1>7. CASE n # e
    <2>1. /\ n.ready = e.ready /\ n.loaded = e.loaded /\ n.busy = e.busy /\ n.saved = e.saved
          /\ n.base = e.base /\ n.of = e.of /\ n.prompt = e.prompt /\ n.canvas = e.canvas
          /\ n.hidden = e.hidden /\ n.state = e.state
      BY <1>5, <1>7 DEF EditorFields
    <2>2. EditorOK(n)
      BY <1>4, <1>5, <1>7, <2>1 DEF EditorOK
    <2> QED BY <1>5, <1>7, <2>2 DEF n
  <1> QED BY <1>6, <1>7

-------------------------------------------------------------------------------
(* The page around it.                                                     *)

\* Where only the editor, the draft and the history of the user's work differ.
SameMount(p, q) ==
  /\ q.at = p.at /\ q.uses = p.uses /\ q.url = p.url /\ q.source = p.source /\ q.shown = p.shown
  /\ q.mount = p.mount /\ DOMAIN q = DOMAIN p

\* Leaving puts unsaved work in the draft.
LEMMA LeaveOK ==
  ASSUME NEW p, MarkupPageOK(p)
  PROVE  LET q == Leave(p) IN
         /\ MarkupPageOK(q) /\ q.ed = Unmounted /\ q.mount = p.mount + 1 /\ q.risky \in BOOLEAN
         /\ p.risky => q.risky
         /\ p.ed.state = "saving" => q.risky
         /\ q.layer = p.layer /\ q.source = p.source /\ q.url = p.url
         /\ Guarded(p) => Guarded(q)
  <1> DEFINE d == [source |-> p.source, of |-> p.ed.of, base |-> p.ed.base, json |-> Serialize(p.ed)]
             draft == IF p.ed.ready /\ p.ed.state = "dirty" THEN d
                      ELSE IF p.ed.ready /\ p.ed.state = "saved" THEN Absent ELSE p.draft
             risky == p.risky \/ p.ed.state \in {"saving", "conflict"}
                              \/ (p.ed.ready /\ p.draft # Absent /\ p.draft.source # p.source)
             q == Leave(p)
  <1>1. q = [p EXCEPT !.draft = draft, !.risky = risky, !.ed = Unmounted, !.mount = p.mount + 1]
    BY DEF Leave, MarkupPageOK, MarkupFields
  <1>2. EditorOK(p.ed) /\ p.ed.ready \in BOOLEAN /\ p.risky \in BOOLEAN
    BY DEF MarkupPageOK, EditorOK
  <1>3. d \in Drafts /\ d.source = p.source /\ d.of = p.ed.of /\ d.json.marks = p.ed.canvas.marks
    <2>1. Serialize(p.ed) \in Bright /\ Serialize(p.ed).marks = p.ed.canvas.marks
      BY <1>2, Serialized
    <2> QED BY <1>2, <2>1 DEF Drafts, MarkupPageOK, EditorOK
  <1>4. d # Absent
    BY <1>3, MarkupAssumption
  <1>5. draft \in Drafts \cup {Absent} /\ risky \in BOOLEAN
    BY <1>3 DEF MarkupPageOK
  <1>6. (p.ed.ready /\ p.ed.state = "dirty" /\ draft = d) \/ (p.ed.ready /\ p.ed.state = "saved" /\ draft = Absent)
          \/ (~p.ed.ready /\ draft = p.draft) \/ risky
    BY <1>2 DEF EditorOK
  <1>7. risky \/ ~(p.ed.ready /\ p.draft # Absent /\ p.draft.source # p.source)
    OBVIOUS
  <1>8. (p.risky => risky) /\ (p.ed.state = "saving" => risky)
    OBVIOUS
  <1> HIDE DEF d, draft, risky, q
  <1>9. /\ DOMAIN q = MarkupFields /\ q.draft = draft /\ q.risky = risky /\ q.ed = Unmounted /\ q.mount = p.mount + 1
        /\ \A f \in MarkupFields \ {"draft", "risky", "ed", "mount"} : q[f] = p[f]
    BY <1>1 DEF MarkupPageOK, MarkupFields
  <1>10. /\ q.at = p.at /\ q.uses = p.uses /\ q.url = p.url /\ q.source = p.source /\ q.layer = p.layer
         /\ q.shown = p.shown /\ q.want = p.want
    BY <1>9 DEF MarkupFields
  <1>11. MarkupPageOK(q)
    BY <1>5, <1>9, <1>10, UnmountedOK DEF MarkupPageOK
  <1>12. ASSUME ~risky, WorkSafe(p) PROVE WorkSafe(q)
    <2>1. CASE p.ed.ready /\ p.ed.state = "dirty" /\ draft = d
      <3>1. p.ed.loaded /\ p.ed.of = p.source
        BY <1>12, <2>1 DEF WorkSafe
      <3>2. p.want # Absent => p.source = p.want.of /\ p.ed.canvas.marks = p.want.marks
        BY <1>12, <2>1, <3>1 DEF WorkSafe, OnCanvas
      <3>3. q.draft = d /\ q.ed.ready = FALSE /\ q.ed.loaded = FALSE /\ q.layer # Absent
        BY <1>9, <1>10, <1>12, <2>1, UnmountedOK DEF WorkSafe
      <3>4. q.draft # Absent /\ q.draft.of = q.draft.source
        BY <1>3, <1>4, <3>1, <3>3
      <3>5. q.want # Absent => q.draft.source = q.want.of /\ q.draft.json.marks = q.want.marks
        BY <1>3, <1>10, <3>2, <3>3
      <3> QED BY <3>3, <3>4, <3>5 DEF WorkSafe, OnCanvas
    <2>2. CASE p.ed.ready /\ p.ed.state = "saved" /\ draft = Absent
      <3>1. p.want = Absent
        BY <1>7, <1>12, <2>2 DEF WorkSafe, OnCanvas
      <3> QED BY <1>9, <1>10, <1>12, <2>2, <3>1, UnmountedOK DEF WorkSafe, OnCanvas
    <2>3. CASE ~p.ed.ready /\ draft = p.draft
      <3>1. ~p.ed.loaded
        BY <1>2, <2>3 DEF EditorOK
      <3> QED BY <1>9, <1>10, <1>12, <2>3, <3>1, UnmountedOK DEF WorkSafe, OnCanvas
    <2> QED BY <1>6, <1>12, <2>1, <2>2, <2>3
  <1> QED BY <1>5, <1>8, <1>9, <1>10, <1>11, <1>12 DEF Guarded, q

\* While no editor is mounted the address, the drawing and the tab may change.
LEMMA ElsewhereOK ==
  ASSUME NEW p, MarkupPageOK(p), ~p.ed.ready, NEW q, MarkupPageOK(q), ~q.ed.ready,
         q.layer = p.layer, q.draft = p.draft, q.want = p.want, q.risky = p.risky, Guarded(p)
  PROVE  Guarded(q)
  <1>1. ~p.ed.loaded /\ ~q.ed.loaded /\ p.ed.ready = FALSE /\ p.ed.loaded = FALSE /\ q.ed.ready = FALSE /\ q.ed.loaded = FALSE
    BY DEF MarkupPageOK, EditorOK
  <1> QED BY <1>1 DEF Guarded, WorkSafe, OnCanvas

\* A change of the canvas.
LEMMA MutatedOK ==
  ASSUME NEW p, MarkupPageOK(p), p.ed.ready, NEW e, EditorOK(e), e.ready,
         e.loaded = p.ed.loaded, e.of = p.ed.of, e.saved = p.ed.saved, e.state = p.ed.state, e.busy = p.ed.busy,
         e.state # "conflict"
  PROVE  LET q == Mutated(p, e) IN
         /\ MarkupPageOK(q) /\ SameMount(p, q) /\ q.layer = p.layer
         /\ q.ed.ready /\ q.ed.loaded = p.ed.loaded /\ q.ed.busy = p.ed.busy /\ q.ed.saved = p.ed.saved
         /\ p.risky => q.risky
         /\ e.state = "saving" => q.risky /\ q.ed.state = "saving"
         /\ e.state # "saving" => q.ed.state = IF Serialize(q.ed) = q.ed.saved THEN "saved" ELSE "dirty"
         /\ Guarded(p) => Guarded(q)
  <1> DEFINE r == RefreshDirty(e)
             draft == UpdateDraft(p, r)
             want == Wanted(p, r)
             risky == p.risky \/ r.state = "saving" \/ ~r.loaded
             q == Mutated(p, e)
  <1>1. q = [p EXCEPT !.ed = r, !.draft = draft, !.want = want, !.risky = risky]
    BY DEF Mutated, MarkupPageOK, MarkupFields
  <1>2. /\ EditorOK(r) /\ r.ready /\ r.loaded = p.ed.loaded /\ r.of = p.ed.of /\ r.saved = p.ed.saved /\ r.busy = p.ed.busy
        /\ Serialize(r) = Serialize(e) /\ r.canvas = e.canvas
        /\ e.state = "saving" => r.state = "saving"
        /\ e.state # "saving" => r.state = IF Serialize(r) = r.saved THEN "saved" ELSE "dirty"
    <2>1. e.state \in {"saving", "saved", "dirty"}
      BY DEF EditorOK
    <2>2. /\ EditorOK(r) /\ Serialize(r) = Serialize(e) /\ \A f \in EditorFields \ {"state"} : r[f] = e[f]
          /\ e.state \in {"saving", "conflict"} => r.state = e.state
          /\ e.state \in {"saved", "dirty"} => r.state = IF Serialize(e) = e.saved THEN "saved" ELSE "dirty"
      BY Refreshed
    <2> HIDE DEF r
    <2> QED BY <2>1, <2>2 DEF EditorFields
  <1>3. Serialize(r) \in Bright /\ Serialize(r).marks = r.canvas.marks
    BY <1>2, Serialized
  <1>4. /\ draft = p.draft \/ (draft \in Drafts /\ draft.source = p.source /\ draft.of = p.ed.of)
        /\ draft \in Drafts \cup {Absent}
    <2> DEFINE d == [source |-> p.source, of |-> r.of, base |-> r.base, json |-> Serialize(r)]
    <2>1. d \in Drafts /\ d.source = p.source /\ d.of = p.ed.of
      BY <1>2, <1>3 DEF Drafts, MarkupPageOK, EditorOK
    <2>2. draft = d \/ draft = p.draft
      BY DEF UpdateDraft
    <2> QED BY <2>1, <2>2 DEF MarkupPageOK
  <1>5. /\ want \in [of : Drawings, marks : SUBSET Marks] \cup {Absent}
        /\ Serialize(r) = r.saved => want = Absent
        /\ Serialize(r) # r.saved => want = [of |-> p.source, marks |-> r.canvas.marks]
    <2>1. r.canvas.marks \in SUBSET Marks
      BY <1>2 DEF EditorOK, Canvases
    <2> QED BY <2>1 DEF Wanted, MarkupPageOK
  <1>6. /\ risky \in BOOLEAN /\ (p.risky => risky) /\ (e.state = "saving" => risky)
        /\ risky \/ (e.state # "saving" /\ p.ed.loaded)
    BY <1>2 DEF EditorOK, MarkupPageOK
  <1> HIDE DEF r, draft, want, risky, q
  <1>7. /\ DOMAIN q = MarkupFields /\ q.ed = r /\ q.draft = draft /\ q.want = want /\ q.risky = risky
        /\ \A f \in MarkupFields \ {"ed", "draft", "want", "risky"} : q[f] = p[f]
    BY <1>1 DEF MarkupPageOK, MarkupFields
  <1>8. /\ q.at = p.at /\ q.uses = p.uses /\ q.url = p.url /\ q.source = p.source /\ q.layer = p.layer
        /\ q.shown = p.shown /\ q.mount = p.mount
    BY <1>7 DEF MarkupFields
  <1>9. MarkupPageOK(q)
    <2>1. /\ q.at = "markup" /\ q.shown \in BOOLEAN /\ q.url \in Drawings /\ q.source \in Drawings
          /\ q.mount \in Nat /\ q.layer \in Layers \cup {Absent} /\ q.shown
      BY <1>8 DEF MarkupPageOK
    <2>2. q.risky \in BOOLEAN
      BY <1>6, <1>7
    <2>3. EditorOK(q.ed) /\ q.draft \in Drafts \cup {Absent}
      BY <1>2, <1>4, <1>7
    <2> QED BY <1>5, <1>7, <2>1, <2>2, <2>3 DEF MarkupPageOK
  <1>10. ASSUME ~risky, WorkSafe(p) PROVE WorkSafe(q)
    <2>1. p.ed.loaded /\ p.ed.of = p.source /\ p.source = p.url /\ p.layer # Absent
      BY <1>6, <1>10 DEF WorkSafe
    <2>2. CASE Serialize(r) = r.saved
      BY <1>2, <1>4, <1>5, <1>6, <1>7, <1>8, <1>10, <2>1, <2>2 DEF WorkSafe, OnCanvas
    <2>3. CASE Serialize(r) # r.saved
      <3>1. want.of = p.source /\ want.marks = r.canvas.marks /\ r.state = "dirty"
        BY <1>2, <1>5, <1>6, <1>10, <2>3
      <3> QED BY <1>2, <1>4, <1>7, <1>8, <1>10, <2>1, <3>1 DEF WorkSafe, OnCanvas
    <2> QED BY <2>2, <2>3
  <1> QED BY <1>2, <1>6, <1>7, <1>8, <1>9, <1>10 DEF Guarded, SameMount, MarkupPageOK, q

\* The draft has the work.
InDraft(p) ==
  /\ p.draft # Absent => p.draft.of = p.draft.source
  /\ p.want # Absent => p.draft # Absent /\ p.draft.source = p.want.of /\ p.draft.json.marks = p.want.marks

\* The first layer there is when the canvas is.
LEMMA InitialLoadOK ==
  ASSUME NEW p, MarkupPageOK(p), p.ed.ready, p.layer \in Layers
  PROVE  LET q == InitialLoad(p) IN
         /\ MarkupPageOK(q) /\ SameMount(p, q) /\ q.layer = p.layer
         /\ q.ed.ready /\ q.ed.loaded /\ q.ed.busy = p.ed.busy /\ q.ed.state \in {"saved", "dirty"}
         /\ p.risky => q.risky
         /\ ~q.risky => q.layer.of = q.source
         /\ q.ed.saved \in {Absent, q.layer.canvas}
         /\ q.ed.state = "saved" => Serialize(q.ed) = q.ed.saved
         /\ p.risky \/ InDraft(p) => Guarded(q)
  <1> DEFINE l == p.layer
             d == p.draft
             e == [p.ed EXCEPT !.of = l.of, !.loaded = TRUE]
             found == d # Absent /\ d.source = p.source /\ d.of = l.of
             s == Serialize([e EXCEPT !.canvas = l.canvas])
             r == IF found THEN Restored(e, d)
                  ELSE [e EXCEPT !.base = l.version, !.canvas = l.canvas, !.state = "saved", !.saved = s]
             f == [r EXCEPT !.history = <<Serialize(r)>>, !.index = 1]
             a == ApplyHidden(f, l)
             risky == p.risky \/ {l.of, p.source} # {p.url}
             q == InitialLoad(p)
  <1>1. q = [p EXCEPT !.ed = a, !.risky = risky]
    BY DEF InitialLoad, MarkupPageOK, MarkupFields
  <1>2. /\ l.of \in Drawings /\ l.version \in Nat /\ l.canvas \in Bright /\ l.canvas \in Canvases
        /\ l.canvas.dark = {} /\ l.canvas = Json(l.canvas.marks, {}) /\ l # Absent
    BY MarkupAssumption DEF Layers, Bright, Canvases, Json
  <1>3. /\ EditorOK(e) /\ e.ready /\ e.loaded /\ e.of = l.of /\ e.busy = p.ed.busy
    BY <1>2 DEF EditorOK, EditorFields, MarkupPageOK
  <1>4. s = l.canvas
    <2> DEFINE c == [e EXCEPT !.canvas = l.canvas]
    <2>1. EditorOK(c) /\ c.canvas = l.canvas
      BY <1>2, <1>3 DEF EditorOK, EditorFields
    <2> HIDE DEF c
    <2> QED BY <1>2, <2>1, Serialized DEF c
  <1>5. found => d \in Drafts /\ d.base \in Nat /\ d.json \in Bright /\ d.json \in Canvases /\ d.json.dark = {}
    BY DEF MarkupPageOK, Drafts, Bright, Canvases
  <1>6. /\ EditorOK(r) /\ r.ready /\ r.loaded /\ r.of = l.of /\ r.busy = p.ed.busy /\ r.state \in {"saved", "dirty"}
        /\ found => r.canvas = d.json /\ r.saved = Absent /\ r.state = "dirty"
        /\ ~found => r.canvas = l.canvas /\ r.saved = l.canvas /\ r.state = "saved"
    <2>1. CASE found
      BY <1>3, <1>5, <2>1 DEF Restored, EditorOK, EditorFields
    <2>2. CASE ~found
      <3>1. r = [e EXCEPT !.base = l.version, !.canvas = l.canvas, !.state = "saved", !.saved = l.canvas]
        BY <1>4, <2>2
      <3> HIDE DEF r, found
      <3> QED BY <1>2, <1>3, <2>2, <3>1 DEF EditorOK, EditorFields
    <2> QED BY <2>1, <2>2
  <1> HIDE DEF e, s, r
  <1>7. /\ EditorOK(f) /\ f.ready /\ f.loaded /\ f.of = l.of /\ f.busy = p.ed.busy /\ f.state = r.state
        /\ f.canvas = r.canvas /\ f.saved = r.saved
    <2>1. <<Serialize(r)>> \in Seq(Bright) /\ Len(<<Serialize(r)>>) = 1 /\ 1 \in 0 .. 1
      BY <1>6, Serialized
    <2> QED BY <1>6, <2>1 DEF EditorOK, EditorFields
  <1> HIDE DEF f
  <1>8. /\ EditorOK(a) /\ a.ready /\ a.loaded /\ a.of = l.of /\ a.busy = p.ed.busy /\ a.state = r.state
        /\ a.canvas.marks = r.canvas.marks /\ a.saved = r.saved
    <2>1. /\ EditorOK(a) /\ a.canvas.marks = f.canvas.marks
          /\ \A g \in EditorFields \ {"canvas", "hidden"} : a[g] = f[g]
      BY <1>7, HiddenOK
    <2> HIDE DEF a
    <2> QED BY <1>7, <2>1 DEF EditorFields
  <1>9. /\ a.saved \in {Absent, l.canvas} /\ a.state \in {"saved", "dirty"}
        /\ a.state = "saved" => Serialize(a) = a.saved
    BY <1>2, <1>6, <1>8, Serialized
  <1>10. /\ risky \in BOOLEAN /\ (p.risky => risky)
         /\ risky \/ (l.of = p.source /\ p.source = p.url)
    BY DEF MarkupPageOK
  <1> HIDE DEF a, risky, q
  <1>11. /\ DOMAIN q = MarkupFields /\ q.ed = a /\ q.risky = risky
         /\ \A g \in MarkupFields \ {"ed", "risky"} : q[g] = p[g]
    BY <1>1 DEF MarkupPageOK, MarkupFields
  <1>12. /\ q.at = p.at /\ q.uses = p.uses /\ q.url = p.url /\ q.source = p.source /\ q.layer = p.layer
         /\ q.shown = p.shown /\ q.mount = p.mount /\ q.draft = p.draft /\ q.want = p.want
    BY <1>11 DEF MarkupFields
  <1>13. MarkupPageOK(q)
    <2>1. q.risky \in BOOLEAN
      BY <1>10, <1>11
    <2>2. EditorOK(q.ed) /\ q.shown
      BY <1>8, <1>11, <1>12 DEF MarkupPageOK
    <2> QED BY <1>11, <1>12, <2>1, <2>2 DEF MarkupPageOK
  <1>14. ASSUME ~risky, InDraft(p) PROVE WorkSafe(q)
    <2>1. /\ q.layer # Absent /\ q.ed.ready = q.ed.loaded /\ q.ed.loaded
          /\ q.ed.of = q.source /\ q.source = q.url
      BY <1>2, <1>8, <1>10, <1>11, <1>12, <1>14 DEF EditorOK
    <2>2. q.draft # Absent => q.draft.of = q.draft.source
      BY <1>12, <1>14 DEF InDraft
    <2>3. ASSUME q.want # Absent, q.source = q.want.of
          PROVE  q.ed.canvas.marks = q.want.marks /\ q.ed.state # "saved"
      <3>1. found /\ d.json.marks = q.want.marks
        BY <1>10, <1>12, <1>14, <2>3 DEF InDraft
      <3> HIDE DEF found
      <3> QED BY <1>6, <1>8, <1>11, <3>1
    <2>4. ASSUME q.want # Absent, q.ed.state # "saved" PROVE q.source = q.want.of
      <3>1. found
        BY <1>6, <1>8, <1>11, <2>4
      <3> QED BY <1>12, <1>14, <2>4, <3>1 DEF InDraft
    <2>5. ASSUME q.want # Absent
          PROVE  q.draft # Absent /\ q.draft.source = q.want.of /\ q.draft.json.marks = q.want.marks
      BY <1>12, <1>14, <2>5 DEF InDraft
    <2> QED BY <2>1, <2>2, <2>3, <2>4, <2>5 DEF WorkSafe, OnCanvas
  <1> QED BY <1>8, <1>9, <1>10, <1>11, <1>12, <1>13, <1>14 DEF Guarded, SameMount, MarkupPageOK, q

\* Another layer.
LEMMA LayerChangeOK ==
  ASSUME NEW p, MarkupPageOK(p), NEW l \in Layers \cup {Absent}
  PROVE  LET q == LayerChange(p, l) IN
         /\ MarkupPageOK(q) /\ SameMount(p, q) /\ q.layer = l
         /\ q.ed.ready = p.ed.ready /\ q.ed.busy = p.ed.busy
         /\ q.ed.state = "saving" => p.ed.state = "saving"
         /\ p.risky => q.risky
         /\ l # Absent /\ Guarded(p) => Guarded(q)
         /\ Guarded(p) /\ ~q.risky =>
              /\ q.ed.loaded = p.ed.loaded /\ q.ed.state = p.ed.state /\ q.ed.saved = p.ed.saved
              /\ q.ed.canvas.marks = p.ed.canvas.marks /\ Serialize(q.ed) = Serialize(p.ed)
  <1> DEFINE b == [p EXCEPT !.layer = l]
             q == LayerChange(p, l)
  <1>1. /\ DOMAIN b = MarkupFields /\ b.layer = l /\ \A g \in MarkupFields \ {"layer"} : b[g] = p[g]
    BY DEF MarkupPageOK, MarkupFields
  <1>2. /\ b.at = p.at /\ b.uses = p.uses /\ b.url = p.url /\ b.source = p.source /\ b.ed = p.ed /\ b.risky = p.risky
        /\ b.shown = p.shown /\ b.mount = p.mount /\ b.draft = p.draft /\ b.want = p.want
    BY <1>1 DEF MarkupFields
  <1> HIDE DEF b
  <1>3. MarkupPageOK(b)
    BY <1>1, <1>2 DEF MarkupPageOK
  <1>4. EditorOK(p.ed) /\ p.ed.ready \in BOOLEAN /\ p.ed.loaded \in BOOLEAN /\ (p.ed.loaded => p.ed.ready)
    BY DEF MarkupPageOK, EditorOK
  <1>5. l # Absent /\ WorkSafe(p) => WorkSafe(b)
    BY <1>1, <1>2 DEF WorkSafe, OnCanvas
  <1>6. CASE p.ed.ready /\ ~p.ed.loaded /\ l # Absent
    <2>1. q = InitialLoad(b) /\ b.layer \in Layers /\ b.ed.ready
      BY <1>1, <1>2, <1>6 DEF LayerChange, b
    <2>2. Guarded(p) => p.risky
      BY <1>6 DEF Guarded, WorkSafe
    <2>3. /\ MarkupPageOK(q) /\ SameMount(b, q) /\ q.layer = l /\ q.ed.ready /\ q.ed.busy = b.ed.busy
          /\ q.ed.state \in {"saved", "dirty"} /\ (b.risky => q.risky) /\ (b.risky => Guarded(q))
      BY <1>1, <1>3, <2>1, InitialLoadOK
    <2> HIDE DEF q
    <2>4. q.ed.ready = p.ed.ready
      BY <1>4, <1>6, <2>3 DEF MarkupPageOK, EditorOK
    <2>5. SameMount(p, q)
      BY <1>1, <1>2, <2>3 DEF SameMount, MarkupPageOK
    <2>6. /\ MarkupPageOK(q) /\ q.layer = l /\ q.ed.busy = p.ed.busy /\ q.ed.state \in {"saved", "dirty"}
          /\ (p.risky => q.risky) /\ (p.risky => Guarded(q))
      BY <1>2, <2>3
    <2> QED BY <2>2, <2>4, <2>5, <2>6 DEF q
  <1>7. CASE p.ed.loaded
    <2> DEFINE a == ApplyHidden(p.ed, l)
    <2>1. q = [b EXCEPT !.ed = a]
      BY <1>2, <1>4, <1>7 DEF LayerChange, b
    <2>2. /\ EditorOK(a) /\ a.canvas.marks = p.ed.canvas.marks /\ Serialize(a) = Serialize(p.ed)
          /\ \A g \in EditorFields \ {"canvas", "hidden"} : a[g] = p.ed[g]
      BY <1>4, <1>7, HiddenOK
    <2> HIDE DEF a, q
    <2>3. /\ a.ready = p.ed.ready /\ a.loaded = p.ed.loaded /\ a.busy = p.ed.busy /\ a.state = p.ed.state
          /\ a.saved = p.ed.saved /\ a.of = p.ed.of
      BY <2>2 DEF EditorFields
    <2>4. /\ DOMAIN q = MarkupFields /\ q.ed = a /\ \A g \in MarkupFields \ {"ed"} : q[g] = b[g]
      BY <1>1, <2>1 DEF MarkupFields
    <2>5. /\ q.at = p.at /\ q.uses = p.uses /\ q.url = p.url /\ q.source = p.source /\ q.layer = l /\ q.risky = p.risky
          /\ q.shown = p.shown /\ q.mount = p.mount /\ q.draft = p.draft /\ q.want = p.want
      BY <1>1, <1>2, <2>4 DEF MarkupFields
    <2>6. MarkupPageOK(q)
      BY <2>2, <2>3, <2>4, <2>5 DEF MarkupPageOK
    <2>7. l # Absent /\ WorkSafe(p) => WorkSafe(q)
      BY <2>2, <2>3, <2>4, <2>5 DEF WorkSafe, OnCanvas
    <2> QED BY <2>2, <2>3, <2>4, <2>5, <2>6, <2>7 DEF Guarded, SameMount, MarkupPageOK, q
  <1>8. CASE ~(p.ed.ready /\ ~p.ed.loaded /\ l # Absent) /\ ~p.ed.loaded
    <2>1. q = b
      BY <1>2, <1>8 DEF LayerChange, b
    <2> HIDE DEF q
    <2> QED BY <1>1, <1>2, <1>3, <1>5, <2>1 DEF Guarded, SameMount, MarkupPageOK, q
  <1> QED BY <1>4, <1>6, <1>7, <1>8

-------------------------------------------------------------------------------
(* The requests on their way, and what is stored.                          *)

HasLayer(c) == c.reply \notin {Absent, Failure, Conflict}

MarkupCallOK(c) ==
  /\ DOMAIN c = CallFields /\ c.op \in {"source", "layer", "fresh", "save", "thread"}
  /\ c.args.of \in Drawings
  /\ c.op \in {"source", "layer"} => c.args \in [of : Drawings, canceled : BOOLEAN]
  /\ c.op = "source" => c.reply \in Drawings \cup {Absent, Failure}
  /\ c.op \in {"layer", "fresh"} => c.reply \in Layers \cup {Absent, Failure}
  /\ c.op \in {"save", "thread"} => c.reply \in Layers \cup {Absent, Failure, Conflict}
  /\ c.op # "source" /\ HasLayer(c) => c.reply.of = c.args.of
  /\ c.op = "save" => c.args.json \in Bright /\ c.args.then \subseteq Marks /\ (HasLayer(c) => c.reply.canvas = c.args.json)
  /\ c.op = "thread" => c.args.marks \subseteq Marks /\ c.args.kind \in {"create", "reply", "state", "delete"}

\* The requests of an editor are of the drawing it is mounted for.
OfMount(c, p) ==
  c.op \in {"save", "thread", "fresh"} =>
    /\ c.args.mount \in Nat /\ c.args.mount <= p.mount
    /\ c.args.mount = p.mount => p.ed.ready /\ c.args.of = p.source

ServerOK(s) ==
  /\ DOMAIN s = {"layers", "others", "made"}
  /\ s.layers \in [Drawings -> Layers] /\ (\A d \in Drawings : s.layers[d].of = d)
  /\ s.others \in BOOLEAN /\ s.made \in Nat

\* An editor that saves or is busy waits for its own request.
Awaits(p, op) == \E c \in Elems(calls) : c.op = op /\ c.args.mount = p.mount

EditorWaits ==
  /\ page.ed.state = "saving" => Awaits(page, "save")
  /\ page.ed.busy => Awaits(page, "thread")

\* What is out is what the editor that waits for it sent.
OneSave == \A i, j \in DOMAIN calls : calls[i].op = "save" /\ calls[j].op = "save" => i = j

CallSafe(c, p) ==
  /\ c.op = "save" => c.args.mount = p.mount /\ p.ed.state = "saving" /\ c.args.json.marks = p.ed.canvas.marks
  /\ c.op = "thread" => c.args.fingerprint = c.args.of /\ c.reply # Conflict

CallsSafe == ~page.risky => OneSave /\ \A c \in Elems(calls) : CallSafe(c, page)

\* While nobody else saves, every layer that is shown or will be has the canvas
\* that is stored, except for a save whose answer is due.
CanvasOf(d) == server.layers[d].canvas
Due(d)      == \E c \in Elems(calls) : c.op = "save" /\ c.args.of = d /\ c.reply \notin {Absent, Conflict}
UpToDate(l) == l.canvas = CanvasOf(l.of) \/ Due(l.of)
Counts(c)   == c.op \in {"fresh", "thread"} \/ (c.op = "layer" /\ ~c.args.canceled)

EditorStored(e, d) ==
  /\ e.loaded /\ e.state \in {"saved", "dirty"} => e.saved \in {Absent, CanvasOf(d)}
  /\ e.loaded /\ e.state = "saved" => Serialize(e) = e.saved

CallStored(c) ==
  /\ Counts(c) /\ HasLayer(c) => UpToDate(c.reply)
  /\ c.op = "save" /\ HasLayer(c) => CanvasOf(c.args.of) = c.args.json

WorkStored ==
  ~page.risky /\ ~server.others =>
    /\ UpToDate(page.layer) /\ EditorStored(page.ed, page.source)
    /\ \A c \in Elems(calls) : CallStored(c)

MarkupTyped ==
  /\ MarkupPageOK(page) /\ ServerOK(server) /\ IsSequence(calls)
  /\ \A c \in Elems(calls) : MarkupCallOK(c) /\ OfMount(c, page)

MarkupInv == MarkupTyped /\ EditorWaits /\ Guarded(page) /\ CallsSafe /\ WorkStored

LEMMA MarkupInitInv == MarkupInit => MarkupInv
  <1> SUFFICES ASSUME NEW layers \in [Drawings -> Layers], NEW d \in Drawings, NEW uses,
                      \A e \in Drawings : layers[e].of = e, page = MarkupStart(d, layers[d], uses), calls = <<>>,
                      server = MarkupServer(layers)
               PROVE  MarkupInv
    BY DEF MarkupInit
  <1>1. /\ DOMAIN page = MarkupFields /\ page.at = "markup" /\ page.url = d /\ page.source = d
        /\ page.layer = layers[d] /\ page.draft = Absent /\ page.shown = TRUE /\ page.mount = 1
        /\ page.ed = Unmounted /\ page.want = Absent /\ page.risky = FALSE
    BY DEF MarkupStart, MarkupFields
  <1>2. layers[d] # Absent
    BY MarkupAssumption
  <1>3. MarkupPageOK(page)
    <2>1. layers[d] \in Layers \cup {Absent} /\ EditorOK(page.ed) /\ page.ed.ready = FALSE /\ 1 \in Nat
      BY <1>1, UnmountedOK
    <2>2. page.risky \in BOOLEAN /\ page.shown \in BOOLEAN
      BY <1>1
    <2> QED BY <1>1, <2>1, <2>2 DEF MarkupPageOK
  <1>4. Guarded(page)
    BY <1>1, <1>2, UnmountedOK DEF Guarded, WorkSafe, OnCanvas
  <1>5. ServerOK(server) /\ server.layers = layers
    BY DEF ServerOK, MarkupServer
  <1>6. UpToDate(page.layer) /\ EditorStored(page.ed, page.source)
    BY <1>1, <1>5, UnmountedOK DEF UpToDate, CanvasOf, EditorStored
  <1> QED BY <1>1, <1>3, <1>4, <1>5, <1>6, Few, UnmountedOK
          DEF MarkupInv, MarkupTyped, EditorWaits, CallsSafe, OneSave, WorkStored

-------------------------------------------------------------------------------
(* Steps of the page alone.                                                *)

\* The editor goes on, waiting for no more than before, or is left.
Stays ==
  /\ page'.mount = page.mount /\ page'.source = page.source /\ (page.ed.ready => page'.ed.ready)
  /\ page.ed.state = "saving" /\ ~page'.risky => page'.ed.state = "saving" /\ page'.ed.canvas.marks = page.ed.canvas.marks

GoesOn == Stays /\ (page'.ed.state = "saving" => page.ed.state = "saving") /\ (page'.ed.busy => page.ed.busy)

Left ==
  page'.mount = page.mount + 1 /\ page'.ed = Unmounted /\ (page.ed.state = "saving" => page'.risky)

\* What was sent before goes with both.
LEMMA CallsGoOn ==
  ASSUME MarkupInv, MarkupPageOK(page'), page.risky => page'.risky, Stays \/ Left, NEW c \in Elems(calls)
  PROVE  OfMount(c, page') /\ (~page'.risky => CallSafe(c, page'))
  <1>1. OfMount(c, page) /\ page.mount \in Nat
    BY DEF MarkupInv, MarkupTyped, MarkupPageOK
  <1>2. ~page'.risky => CallSafe(c, page)
    BY DEF MarkupInv, CallsSafe
  <1>3. CASE Stays
    BY <1>1, <1>2, <1>3 DEF Stays, OfMount, CallSafe
  <1>4. CASE Left
    <2>1. OfMount(c, page')
      BY <1>1, <1>4 DEF Left, OfMount
    <2> QED BY <1>2, <1>4, <2>1 DEF Left, CallSafe
  <1> QED BY <1>3, <1>4

LEMMA Viewed ==
  ASSUME MarkupInv, MarkupPageOK(page'), UNCHANGED <<calls, server>>, page.risky => page'.risky, Guarded(page'),
         page'.layer = page.layer, GoesOn \/ Left,
         ~page'.risky /\ ~server.others => EditorStored(page'.ed, page'.source)
  PROVE  MarkupInv'
  <1>1. MarkupTyped'
    BY CallsGoOn DEF GoesOn, MarkupInv, MarkupTyped
  <1>2. EditorWaits'
    <2>1. CASE GoesOn
      BY <2>1 DEF MarkupInv, EditorWaits, Awaits, GoesOn, Stays
    <2>2. CASE Left
      BY <2>2, UnmountedOK DEF EditorWaits, Left
    <2> QED BY <2>1, <2>2
  <1>3. CallsSafe'
    BY CallsGoOn DEF GoesOn, MarkupInv, CallsSafe, OneSave
  <1>4. WorkStored'
    <2> SUFFICES ASSUME ~page'.risky, ~server'.others PROVE WorkStored'
      BY DEF WorkStored
    <2>1. UpToDate(page.layer) /\ \A c \in Elems(calls) : CallStored(c)
      BY DEF MarkupInv, WorkStored
    <2>2. /\ \A l : UpToDate(l) => UpToDate(l)'
          /\ \A e, d : EditorStored(e, d) => EditorStored(e, d)'
          /\ \A c : CallStored(c) => CallStored(c)'
      BY DEF UpToDate, EditorStored, CallStored, CanvasOf, Due
    <2> QED BY <2>1, <2>2 DEF WorkStored, UpToDate, EditorStored, CanvasOf, Due
  <1> QED BY <1>1, <1>2, <1>3, <1>4 DEF MarkupInv, Guarded, WorkSafe, OnCanvas

\* The editor changes nothing of the canvas but what is dark.
LEMMA EditorChanged ==
  ASSUME MarkupInv, NEW STATE e, EditorOK(e), page' = [page EXCEPT !.ed = e], UNCHANGED <<calls, server>>,
         e.ready = page.ed.ready, e.loaded = page.ed.loaded, e.of = page.ed.of, e.state = page.ed.state,
         e.saved = page.ed.saved, e.canvas.marks = page.ed.canvas.marks, e.busy => page.ed.busy
  PROVE  MarkupInv'
  <1>1. /\ DOMAIN page' = MarkupFields /\ page'.ed = e /\ page'.at = page.at /\ page'.uses = page.uses
        /\ page'.url = page.url /\ page'.source = page.source /\ page'.layer = page.layer /\ page'.risky = page.risky
        /\ page'.shown = page.shown /\ page'.mount = page.mount /\ page'.draft = page.draft /\ page'.want = page.want
    BY DEF MarkupInv, MarkupTyped, MarkupPageOK, MarkupFields
  <1>2. MarkupPageOK(page) /\ Guarded(page)
    BY DEF MarkupInv, MarkupTyped
  <1>3. MarkupPageOK(page')
    BY <1>1, <1>2 DEF MarkupPageOK
  <1>4. Guarded(page')
    BY <1>1, <1>2 DEF Guarded, WorkSafe, OnCanvas
  <1>5. Serialize(e) = Serialize(page.ed)
    BY <1>2, Serialized DEF MarkupPageOK
  <1>6. ~page'.risky /\ ~server.others => EditorStored(page'.ed, page'.source)
    BY <1>1, <1>5 DEF MarkupInv, WorkStored, EditorStored
  <1>7. GoesOn
    BY <1>1 DEF GoesOn, Stays
  <1> QED BY <1>1, <1>3, <1>4, <1>6, <1>7, Viewed

LEMMA SwitchTabInv == ASSUME MarkupInv, SwitchTab PROVE MarkupInv'
  <1> DEFINE q == Leave(page)
  <1>1. page' = [q EXCEPT !.shown = FALSE] /\ UNCHANGED <<calls, server>>
    BY DEF SwitchTab, Viewing, Show
  <1>2. /\ MarkupPageOK(q) /\ q.ed = Unmounted /\ q.mount = page.mount + 1 /\ (page.risky => q.risky)
        /\ (page.ed.state = "saving" => q.risky) /\ q.layer = page.layer /\ q.source = page.source /\ Guarded(q)
    BY LeaveOK DEF MarkupInv, MarkupTyped
  <1> HIDE DEF q
  <1>3. /\ DOMAIN page' = MarkupFields /\ page'.ed = Unmounted /\ page'.at = q.at /\ page'.uses = q.uses
        /\ page'.url = q.url /\ page'.source = q.source /\ page'.layer = q.layer /\ page'.risky = q.risky
        /\ page'.shown = FALSE /\ page'.mount = q.mount /\ page'.draft = q.draft /\ page'.want = q.want
    BY <1>1, <1>2 DEF MarkupPageOK, MarkupFields
  <1>4. MarkupPageOK(page')
    BY <1>2, <1>3, UnmountedOK DEF MarkupPageOK
  <1>5. Guarded(page')
    BY <1>2, <1>3, <1>4, UnmountedOK, ElsewhereOK
  <1>6. Left /\ EditorStored(page'.ed, page'.source)
    BY <1>2, <1>3, UnmountedOK DEF Left, EditorStored
  <1> QED BY <1>1, <1>2, <1>3, <1>4, <1>5, <1>6, Viewed

LEMMA MountEditorInv == ASSUME MarkupInv, MountEditor PROVE MarkupInv'
  <1>1. page' = [page EXCEPT !.shown = TRUE] /\ UNCHANGED <<calls, server>> /\ MarkupPageOK(page)
    BY DEF MountEditor, Show, MarkupInv, MarkupTyped
  <1>2. /\ DOMAIN page' = MarkupFields /\ page'.ed = page.ed /\ page'.at = page.at /\ page'.uses = page.uses
        /\ page'.url = page.url /\ page'.source = page.source /\ page'.layer = page.layer /\ page'.risky = page.risky
        /\ page'.shown = TRUE /\ page'.mount = page.mount /\ page'.draft = page.draft /\ page'.want = page.want
    BY <1>1 DEF MarkupPageOK, MarkupFields
  <1>3. MarkupPageOK(page')
    BY <1>1, <1>2 DEF MarkupPageOK
  <1>4. Guarded(page')
    BY <1>2 DEF MarkupInv, Guarded, WorkSafe, OnCanvas
  <1>5. GoesOn /\ (~page'.risky /\ ~server.others => EditorStored(page'.ed, page'.source))
    BY <1>2 DEF GoesOn, Stays, MarkupInv, WorkStored
  <1> QED BY <1>1, <1>2, <1>3, <1>4, <1>5, Viewed

LEMMA ImageLoadsInv == ASSUME MarkupInv, ImageLoads PROVE MarkupInv'
  <1> DEFINE p == [page EXCEPT !.ed.ready = TRUE]
  <1>1. /\ page.shown /\ ~page.ed.ready /\ UNCHANGED <<calls, server>>
        /\ page' = IF p.layer # Absent THEN InitialLoad(p) ELSE p
    BY DEF ImageLoads, Show
  <1>2. MarkupPageOK(page) /\ page.ed.state = "saved" /\ ~page.ed.busy /\ ~page.ed.loaded /\ Guarded(page)
    BY <1>1 DEF MarkupInv, MarkupTyped, MarkupPageOK, EditorOK
  <1>3. /\ DOMAIN p = MarkupFields /\ p.ed = [page.ed EXCEPT !.ready = TRUE] /\ p.at = page.at /\ p.uses = page.uses
        /\ p.url = page.url /\ p.source = page.source /\ p.layer = page.layer /\ p.risky = page.risky
        /\ p.shown = page.shown /\ p.mount = page.mount /\ p.draft = page.draft /\ p.want = page.want
    BY <1>2 DEF MarkupPageOK, MarkupFields
  <1>4. /\ EditorOK(p.ed) /\ p.ed.ready /\ p.ed.loaded = FALSE /\ p.ed.busy = page.ed.busy /\ p.ed.state = page.ed.state
        /\ p.ed.canvas = page.ed.canvas
    <2>1. EditorOK(page.ed) /\ page.ed.loaded = FALSE
      BY <1>2 DEF MarkupPageOK, EditorOK
    <2> HIDE DEF p
    <2> QED BY <1>3, <2>1 DEF EditorOK, EditorFields
  <1>5. MarkupPageOK(p)
    BY <1>1, <1>2, <1>3, <1>4 DEF MarkupPageOK
  <1>6. page.risky \/ InDraft(p)
    BY <1>2, <1>3 DEF Guarded, WorkSafe, OnCanvas, InDraft
  <1>7. page.ed.state = "saved" /\ ~page.ed.busy
    BY <1>2, UnmountedOK
  <1> HIDE DEF p
  <1>8. CASE p.layer # Absent
    <2>1. page' = InitialLoad(p) /\ p.layer \in Layers
      BY <1>1, <1>5, <1>8 DEF MarkupPageOK
    <2>2. /\ MarkupPageOK(page') /\ SameMount(p, page') /\ page'.layer = p.layer
          /\ page'.ed.ready /\ page'.ed.loaded /\ page'.ed.busy = p.ed.busy /\ page'.ed.state \in {"saved", "dirty"}
          /\ (p.risky => page'.risky) /\ (~page'.risky => page'.layer.of = page'.source)
          /\ page'.ed.saved \in {Absent, page'.layer.canvas}
          /\ (page'.ed.state = "saved" => Serialize(page'.ed) = page'.ed.saved)
          /\ (p.risky \/ InDraft(p) => Guarded(page'))
      BY <1>4, <1>5, <2>1, InitialLoadOK
    <2>3. Guarded(page') /\ (page.risky => page'.risky)
      BY <1>3, <1>6, <2>2
    <2>4. GoesOn
      BY <1>3, <1>4, <1>7, <2>2 DEF GoesOn, Stays, SameMount
    <2>5. ASSUME ~page'.risky, ~server.others PROVE EditorStored(page'.ed, page'.source)
      <3>1. UpToDate(page'.layer) /\ page'.layer.of = page'.source
        BY <1>3, <2>2, <2>3, <2>5 DEF MarkupInv, WorkStored
      <3>2. ~Due(page'.source)
        BY <1>7, <2>3, <2>5 DEF MarkupInv, CallsSafe, CallSafe, Due
      <3> QED BY <2>2, <3>1, <3>2 DEF UpToDate, EditorStored
    <2> QED BY <1>1, <1>3, <2>2, <2>3, <2>4, <2>5, Viewed
  <1>9. CASE p.layer = Absent
    <2>1. page' = p /\ page.risky
      BY <1>1, <1>2, <1>3, <1>9 DEF Guarded, WorkSafe
    <2>2. GoesOn /\ Guarded(page') /\ page'.risky
      BY <1>3, <1>4, <1>7, <2>1 DEF GoesOn, Stays, Guarded
    <2> QED BY <1>1, <1>3, <1>5, <2>1, <2>2, Viewed
  <1> QED BY <1>8, <1>9

-------------------------------------------------------------------------------
(* Drawing.                                                                *)

LEMMA CanvasChanged ==
  ASSUME MarkupInv, NEW STATE e, EditorOK(e), page.ed.ready, e.ready, page' = Mutated(page, e), UNCHANGED <<calls, server>>,
         e.loaded = page.ed.loaded, e.of = page.ed.of, e.saved = page.ed.saved, e.state = page.ed.state,
         e.busy = page.ed.busy, e.state # "conflict"
  PROVE  MarkupInv'
  <1>1. MarkupPageOK(page) /\ Guarded(page)
    BY DEF MarkupInv, MarkupTyped
  <1>2. /\ MarkupPageOK(page') /\ SameMount(page, page') /\ page'.layer = page.layer
        /\ page'.ed.ready /\ page'.ed.loaded = page.ed.loaded /\ page'.ed.busy = page.ed.busy
        /\ page'.ed.saved = page.ed.saved /\ (page.risky => page'.risky)
        /\ (e.state = "saving" => page'.risky /\ page'.ed.state = "saving")
        /\ (e.state # "saving" => page'.ed.state = IF Serialize(page'.ed) = page'.ed.saved THEN "saved" ELSE "dirty")
        /\ Guarded(page')
    BY <1>1, MutatedOK
  <1>3. GoesOn
    BY <1>2 DEF GoesOn, Stays, SameMount
  <1>4. ASSUME ~page'.risky, ~server.others PROVE EditorStored(page'.ed, page'.source)
    <2>1. page.ed.state \in {"saved", "dirty"} /\ page'.source = page.source
      BY <1>1, <1>2, <1>4 DEF MarkupPageOK, EditorOK, SameMount
    <2>2. EditorStored(page.ed, page.source)
      BY <1>2, <1>4 DEF MarkupInv, WorkStored
    <2> QED BY <1>2, <1>4, <2>1, <2>2 DEF EditorStored
  <1> QED BY <1>2, <1>3, <1>4, Viewed

LEMMA DrawnInv ==
  ASSUME MarkupInv, Editable, NEW m \in Marks, NEW marks \in {page.ed.canvas.marks \cup {m}, page.ed.canvas.marks \ {m}},
         NEW s, s = SnapshotHistory([page.ed EXCEPT !.canvas.marks = marks]),
         NEW prompt \in {s.prompt \cup {m}, s.prompt \ {m}}, Viewing(Mutated(page, [s EXCEPT !.prompt = prompt]))
  PROVE  MarkupInv'
  <1> DEFINE e == [page.ed EXCEPT !.canvas.marks = marks]
             f == [s EXCEPT !.prompt = prompt]
  <1>1. EditorOK(page.ed) /\ page.ed.ready /\ page.ed.state # "conflict"
    BY DEF Editable, MarkupInv, MarkupTyped, MarkupPageOK
  <1>2. /\ EditorOK(e) /\ e.ready /\ e.loaded = page.ed.loaded /\ e.of = page.ed.of /\ e.saved = page.ed.saved
        /\ e.state = page.ed.state /\ e.busy = page.ed.busy /\ e.prompt = page.ed.prompt
    <2>1. /\ DOMAIN e = EditorFields /\ \A g \in EditorFields \ {"canvas"} : e[g] = page.ed[g]
          /\ e.canvas = [page.ed.canvas EXCEPT !.marks = marks]
      BY <1>1 DEF EditorOK, EditorFields
    <2>2. /\ e.ready = page.ed.ready /\ e.loaded = page.ed.loaded /\ e.of = page.ed.of /\ e.saved = page.ed.saved
          /\ e.state = page.ed.state /\ e.busy = page.ed.busy /\ e.prompt = page.ed.prompt /\ e.hidden = page.ed.hidden
          /\ e.history = page.ed.history /\ e.index = page.ed.index /\ e.base = page.ed.base
      BY <2>1 DEF EditorFields
    <2>3. e.canvas \in Canvases /\ e.canvas.dark \subseteq e.hidden
      BY <1>1, <2>1, <2>2 DEF EditorOK, Canvases
    <2> HIDE DEF e
    <2> QED BY <1>1, <2>1, <2>2, <2>3 DEF EditorOK
  <1> HIDE DEF e
  <1>3. /\ EditorOK(s) /\ s.ready /\ s.loaded = page.ed.loaded /\ s.of = page.ed.of /\ s.saved = page.ed.saved
        /\ s.state = page.ed.state /\ s.busy = page.ed.busy /\ s.prompt = page.ed.prompt
    <2>1. EditorOK(s) /\ \A g \in EditorFields \ {"history", "index"} : s[g] = e[g]
      BY <1>2, Snapped DEF e
    <2> QED BY <1>2, <2>1 DEF EditorFields
  <1>4. /\ EditorOK(f) /\ f.ready /\ f.loaded = page.ed.loaded /\ f.of = page.ed.of /\ f.saved = page.ed.saved
        /\ f.state = page.ed.state /\ f.busy = page.ed.busy
    <2>1. prompt \subseteq Marks
      BY <1>1, <1>3 DEF EditorOK
    <2> QED BY <1>3, <2>1 DEF EditorOK, EditorFields
  <1>5. page' = Mutated(page, f) /\ UNCHANGED <<calls, server>>
    BY DEF Viewing, Show
  <1> HIDE DEF f
  <1> QED BY <1>1, <1>4, <1>5, CanvasChanged

LEMMA DrawMarkInv == ASSUME MarkupInv, NEW m \in Marks, DrawMark(m) PROVE MarkupInv'
  <1> DEFINE marks == page.ed.canvas.marks \cup {m}
             s == SnapshotHistory([page.ed EXCEPT !.canvas.marks = marks])
             prompt == s.prompt \cup {m}
  <1>1. Editable /\ Viewing(Mutated(page, [s EXCEPT !.prompt = prompt]))
    BY DEF DrawMark
  <1> HIDE DEF s
  <1> QED BY <1>1, DrawnInv DEF s

LEMMA DeleteSelectedInv == ASSUME MarkupInv, NEW m \in Marks, DeleteSelected(m) PROVE MarkupInv'
  <1> DEFINE marks == page.ed.canvas.marks \ {m}
             s == SnapshotHistory([page.ed EXCEPT !.canvas.marks = marks])
             prompt == s.prompt \ {m}
  <1>1. Editable /\ Viewing(Mutated(page, [s EXCEPT !.prompt = prompt]))
    BY DEF DeleteSelected
  <1> HIDE DEF s
  <1> QED BY <1>1, DrawnInv DEF s

LEMMA ApplyHistoryInv == ASSUME MarkupInv, NEW k, ApplyHistory(k) PROVE MarkupInv'
  <1> DEFINE e == [page.ed EXCEPT !.index = k, !.canvas = page.ed.history[k]]
             f == ApplyHidden(e, page.layer)
  <1>1. EditorOK(page.ed) /\ page.ed.ready /\ page.ed.state \notin {"conflict", "saving"} /\ k \in DOMAIN page.ed.history
    BY DEF ApplyHistory, MarkupInv, MarkupTyped, MarkupPageOK
  <1>2. page.ed.history[k] \in Bright /\ k \in 0 .. Len(page.ed.history)
    BY <1>1, ElementOfSeq, LenProperties DEF EditorOK
  <1>3. /\ EditorOK(e) /\ e.ready /\ e.loaded = page.ed.loaded /\ e.of = page.ed.of /\ e.saved = page.ed.saved
        /\ e.state = page.ed.state /\ e.busy = page.ed.busy
    <2>1. e.canvas \in Canvases /\ e.canvas.dark \subseteq e.hidden
      BY <1>1, <1>2 DEF EditorOK, EditorFields, Canvases, Bright
    <2> QED BY <1>1, <1>2, <2>1 DEF EditorOK, EditorFields
  <1>4. page' = Mutated(page, f) /\ UNCHANGED <<calls, server>>
    BY DEF ApplyHistory, Viewing, Show
  <1> HIDE DEF e
  <1>5. /\ EditorOK(f) /\ f.ready /\ f.loaded = page.ed.loaded /\ f.of = page.ed.of /\ f.saved = page.ed.saved
        /\ f.state = page.ed.state /\ f.busy = page.ed.busy
    <2>1. EditorOK(f) /\ \A g \in EditorFields \ {"canvas", "hidden"} : f[g] = e[g]
      BY <1>3, HiddenOK
    <2> HIDE DEF f
    <2> QED BY <1>3, <2>1 DEF EditorFields
  <1> HIDE DEF f
  <1> QED BY <1>1, <1>4, <1>5, CanvasChanged

\* What is hidden or asked for changes.
LEMMA HidingInv ==
  ASSUME MarkupInv, NEW STATE e, page' = [page EXCEPT !.ed = ApplyHidden(e, page.layer)], UNCHANGED <<calls, server>>,
         DOMAIN e = EditorFields,
         \A f \in EditorFields \ {"manual", "revealed", "showResolved"} : e[f] = page.ed[f]
  PROVE  MarkupInv'
  <1> DEFINE a == ApplyHidden(e, page.layer)
  <1>1. EditorOK(page.ed)
    BY DEF MarkupInv, MarkupTyped, MarkupPageOK
  <1>2. /\ EditorOK(e) /\ e.ready = page.ed.ready /\ e.loaded = page.ed.loaded /\ e.of = page.ed.of
        /\ e.state = page.ed.state /\ e.saved = page.ed.saved /\ e.canvas = page.ed.canvas /\ e.busy = page.ed.busy
    <2>1. /\ e.ready = page.ed.ready /\ e.loaded = page.ed.loaded /\ e.of = page.ed.of
          /\ e.state = page.ed.state /\ e.saved = page.ed.saved /\ e.canvas = page.ed.canvas /\ e.busy = page.ed.busy
          /\ e.hidden = page.ed.hidden /\ e.history = page.ed.history /\ e.index = page.ed.index
          /\ e.base = page.ed.base /\ e.prompt = page.ed.prompt
      BY DEF EditorFields
    <2> QED BY <1>1, <2>1 DEF EditorOK
  <1>3. /\ EditorOK(a) /\ a.ready = page.ed.ready /\ a.loaded = page.ed.loaded /\ a.of = page.ed.of
        /\ a.state = page.ed.state /\ a.saved = page.ed.saved /\ a.canvas.marks = page.ed.canvas.marks
        /\ a.busy = page.ed.busy
    <2>1. CASE e.ready
      <3>1. /\ EditorOK(a) /\ a.canvas.marks = e.canvas.marks
            /\ \A f \in EditorFields \ {"canvas", "hidden"} : a[f] = e[f]
        BY <1>2, <2>1, HiddenOK
      <3> HIDE DEF a
      <3> QED BY <1>2, <3>1 DEF EditorFields
    <2>2. CASE ~e.ready
      BY <1>2, <2>2 DEF ApplyHidden
    <2> QED BY <2>1, <2>2
  <1> HIDE DEF a
  <1>4. page' = [page EXCEPT !.ed = a]
    BY DEF a
  <1> QED BY <1>3, <1>4, EditorChanged

LEMMA ToggleResolvedInv == ASSUME MarkupInv, ToggleResolved PROVE MarkupInv'
  <1> DEFINE e == [page.ed EXCEPT !.showResolved = ~@]
  <1>1. page' = [page EXCEPT !.ed = ApplyHidden(e, page.layer)] /\ UNCHANGED <<calls, server>>
    BY DEF ToggleResolved, Viewing, Show
  <1>2. DOMAIN e = EditorFields /\ \A f \in EditorFields \ {"manual", "revealed", "showResolved"} : e[f] = page.ed[f]
    BY DEF EditorFields, MarkupInv, MarkupTyped, MarkupPageOK, EditorOK
  <1> HIDE DEF e
  <1> QED BY <1>1, <1>2, HidingInv

LEMMA ToggleThreadVisibilityInv == ASSUME MarkupInv, ToggleThreadVisibility PROVE MarkupInv'
  <1>1. PICK t \in ToSet(page.layer.threads) :
          Viewing([page EXCEPT !.ed = ApplyHidden(
            IF t.marks \subseteq page.ed.hidden
            THEN [page.ed EXCEPT !.manual = @ \ t.marks, !.revealed = @ \cup t.marks]
            ELSE [page.ed EXCEPT !.manual = @ \cup t.marks, !.revealed = @ \ t.marks], page.layer)])
    BY DEF ToggleThreadVisibility
  <1> DEFINE e == IF t.marks \subseteq page.ed.hidden
                  THEN [page.ed EXCEPT !.manual = @ \ t.marks, !.revealed = @ \cup t.marks]
                  ELSE [page.ed EXCEPT !.manual = @ \cup t.marks, !.revealed = @ \ t.marks]
  <1>2. page' = [page EXCEPT !.ed = ApplyHidden(e, page.layer)] /\ UNCHANGED <<calls, server>>
    BY <1>1 DEF Viewing, Show
  <1>3. DOMAIN e = EditorFields /\ \A f \in EditorFields \ {"manual", "revealed", "showResolved"} : e[f] = page.ed[f]
    BY DEF EditorFields, MarkupInv, MarkupTyped, MarkupPageOK, EditorOK
  <1> HIDE DEF e
  <1> QED BY <1>2, <1>3, HidingInv

\* The form of a review.
LEMMA FormInv ==
  ASSUME MarkupInv, NEW STATE e, page' = [page EXCEPT !.ed = e], UNCHANGED <<calls, server>>,
         DOMAIN e = EditorFields, e.prompt \subseteq Marks,
         \A f \in EditorFields \ {"message", "prompt"} : e[f] = page.ed[f]
  PROVE  MarkupInv'
  <1>1. EditorOK(page.ed)
    BY DEF MarkupInv, MarkupTyped, MarkupPageOK
  <1>2. /\ e.ready = page.ed.ready /\ e.loaded = page.ed.loaded /\ e.of = page.ed.of
        /\ e.state = page.ed.state /\ e.saved = page.ed.saved /\ e.canvas = page.ed.canvas /\ e.busy = page.ed.busy
        /\ e.hidden = page.ed.hidden /\ e.history = page.ed.history /\ e.index = page.ed.index
        /\ e.base = page.ed.base
    BY DEF EditorFields
  <1>3. EditorOK(e)
    BY <1>1, <1>2 DEF EditorOK
  <1> QED BY <1>2, <1>3, EditorChanged

LEMMA WriteReviewInv == ASSUME MarkupInv, WriteReview \/ SkipReview PROVE MarkupInv'
  <1> DEFINE e == IF WriteReview THEN [page.ed EXCEPT !.message = TRUE] ELSE CloseForm(page.ed)
  <1>1. EditorOK(page.ed) /\ DOMAIN page = MarkupFields
    BY DEF MarkupInv, MarkupTyped, MarkupPageOK
  <1>2. page' = [page EXCEPT !.ed = e] /\ UNCHANGED <<calls, server>>
    BY <1>1 DEF WriteReview, SkipReview, Viewing, Show, MarkupFields
  <1>3. /\ DOMAIN e = EditorFields /\ e.prompt \subseteq Marks
        /\ \A f \in EditorFields \ {"message", "prompt"} : e[f] = page.ed[f]
    BY <1>1 DEF EditorOK, EditorFields, CloseForm
  <1> HIDE DEF e
  <1> QED BY <1>2, <1>3, FormInv

-------------------------------------------------------------------------------
(* Requests.                                                               *)

\* The requests before, of which some loads are abandoned.
Abandons(b) ==
  /\ IsSequence(b) /\ DOMAIN b = DOMAIN calls
  /\ \A i \in DOMAIN b :
       \/ b[i] = calls[i]
       \/ calls[i].op \in {"source", "layer"} /\ b[i] = [calls[i] EXCEPT !.args.canceled = TRUE]

LEMMA AbandonedOK ==
  ASSUME NEW c, MarkupCallOK(c), c.op \in {"source", "layer"}
  PROVE  LET d == [c EXCEPT !.args.canceled = TRUE] IN
         /\ MarkupCallOK(d) /\ d.op = c.op /\ ~Counts(d)
  <1> DEFINE d == [c EXCEPT !.args.canceled = TRUE]
  <1>1. /\ DOMAIN d = CallFields /\ d.op = c.op /\ d.reply = c.reply /\ d.args = [c.args EXCEPT !.canceled = TRUE]
    BY DEF MarkupCallOK, CallFields
  <1> HIDE DEF d
  <1>2. d.args \in [of : Drawings, canceled : BOOLEAN] /\ d.args.of = c.args.of /\ d.args.canceled = TRUE
    BY <1>1 DEF MarkupCallOK
  <1>3. MarkupCallOK(d)
    BY <1>1, <1>2 DEF MarkupCallOK, HasLayer
  <1>4. ~Counts(d)
    BY <1>1, <1>2 DEF Counts
  <1> QED BY <1>1, <1>3, <1>4 DEF d

LEMMA SentInv ==
  ASSUME MarkupInv, NEW b, Abandons(b), NEW STATE c, MarkupCallOK(c), c.reply = Absent, OfMount(c, page'),
         calls' = b \o <<c>>, UNCHANGED server, MarkupPageOK(page'), Guarded(page'), page.risky => page'.risky,
         page'.layer = page.layer, Stays \/ Left,
         page'.ed.state = "saving" => page.ed.state = "saving" \/ (c.op = "save" /\ c.args.mount = page.mount),
         page'.ed.busy => page.ed.busy \/ (c.op = "thread" /\ c.args.mount = page.mount),
         ~page'.risky => CallSafe(c, page') /\ (c.op = "save" => page.ed.state # "saving"),
         ~page'.risky /\ ~server.others => EditorStored(page'.ed, page'.source)
  PROVE  MarkupInv'
  <1>1. IsSequence(calls') /\ Elems(calls') = Elems(b) \cup {c}
    BY Few, Joined DEF Abandons
  <1>2. ASSUME NEW x \in Elems(b)
        PROVE  /\ MarkupCallOK(x)
               /\ \E y \in Elems(calls) : x = y \/ (x.op \in {"source", "layer"} /\ ~Counts(x))
    <2>1. PICK i \in DOMAIN b : x = b[i]
      BY DEF Elems
    <2>2. i \in DOMAIN calls /\ calls[i] \in Elems(calls) /\ MarkupCallOK(calls[i])
      BY DEF Abandons, Elems, MarkupInv, MarkupTyped
    <2>3. CASE b[i] = calls[i]
      BY <2>1, <2>2, <2>3
    <2>4. CASE calls[i].op \in {"source", "layer"} /\ b[i] = [calls[i] EXCEPT !.args.canceled = TRUE]
      BY <2>1, <2>2, <2>4, AbandonedOK
    <2> QED BY <2>3, <2>4 DEF Abandons
  <1>3. \A x \in Elems(b) : x \notin Elems(calls) => x.op \in {"source", "layer"} /\ ~Counts(x)
    BY <1>2
  <1>4. ASSUME NEW y \in Elems(calls), y.op \notin {"source", "layer"} PROVE y \in Elems(calls')
    <2>1. PICK i \in DOMAIN calls : y = calls[i]
      BY DEF Elems
    <2>2. i \in DOMAIN b /\ b[i] = y
      BY <1>4, <2>1 DEF Abandons
    <2> QED BY <1>1, <2>2 DEF Elems
  <1>5. MarkupTyped'
    <2>1. ASSUME NEW x \in Elems(calls') PROVE MarkupCallOK(x) /\ OfMount(x, page')
      <3>1. CASE x \in Elems(calls)
        BY <3>1, CallsGoOn DEF MarkupInv, MarkupTyped
      <3>2. CASE x \notin Elems(calls) /\ x # c
        BY <1>1, <1>2, <1>3, <3>2 DEF OfMount
      <3> QED BY <3>1, <3>2
    <2> QED BY <1>1, <2>1 DEF MarkupInv, MarkupTyped
  <1>6. EditorWaits'
    <2>1. CASE Stays
      <3>1. ASSUME page'.ed.state = "saving" PROVE Awaits(page, "save")'
        <4>1. CASE page.ed.state = "saving"
          BY <1>4, <2>1, <4>1 DEF MarkupInv, EditorWaits, Awaits, Stays
        <4>2. CASE c.op = "save" /\ c.args.mount = page.mount
          BY <1>1, <2>1, <4>2 DEF Awaits, Stays
        <4> QED BY <3>1, <4>1, <4>2
      <3>2. ASSUME page'.ed.busy PROVE Awaits(page, "thread")'
        <4>1. CASE page.ed.busy
          BY <1>4, <2>1, <4>1 DEF MarkupInv, EditorWaits, Awaits, Stays
        <4>2. CASE c.op = "thread" /\ c.args.mount = page.mount
          BY <1>1, <2>1, <4>2 DEF Awaits, Stays
        <4> QED BY <3>2, <4>1, <4>2
      <3> QED BY <3>1, <3>2 DEF EditorWaits
    <2>2. CASE Left
      BY <2>2, UnmountedOK DEF EditorWaits, Left
    <2> QED BY <2>1, <2>2
  <1>7. ASSUME ~page'.risky PROVE OneSave'
    <2>1. PICK S : b \in Seq(S)
      BY DEF Abandons, IsSequence
    <2>2. /\ Len(b) \in Nat /\ Len(calls') = Len(b) + 1 /\ calls'[Len(b) + 1] = c
          /\ (\A j \in 1 .. Len(b) : calls'[j] = b[j]) /\ DOMAIN b = 1 .. Len(b) /\ \E T : calls' \in Seq(T)
      <3> DEFINE s == b \o <<c>>
      <3>1. /\ Len(b) \in Nat /\ Len(s) = Len(b) + 1 /\ s[Len(b) + 1] = c
            /\ (\A j \in 1 .. Len(b) : s[j] = b[j]) /\ DOMAIN b = 1 .. Len(b) /\ \E T : s \in Seq(T)
        <4>1. /\ \E T : s \in Seq(T)
              /\ Len(b) \in Nat /\ Len(s) = Len(b) + 1
              /\ \A j \in 1 .. Len(b) : s[j] = b[j]
              /\ s[Len(b) + 1] = c
          BY <2>1, RequestSent
        <4>2. DOMAIN b = 1 .. Len(b)
          BY <2>1, LenProperties
        <4> HIDE DEF s
        <4> QED BY <4>1, <4>2
      <3>2. calls' = s
        OBVIOUS
      <3> HIDE DEF s
      <3> QED BY <3>1, <3>2
    <2>3. DOMAIN calls' = 1 .. Len(b) + 1
      BY <2>2, LenProperties
    <2>4. OneSave /\ \A j \in 1 .. Len(b) : j \in DOMAIN calls /\ (calls'[j].op = "save" => calls[j].op = "save")
      <3>1. ASSUME NEW j \in 1 .. Len(b), calls'[j].op = "save" PROVE calls[j].op = "save"
        <4>1. CASE b[j] = calls[j]
          BY <2>2, <3>1, <4>1
        <4>2. CASE calls[j].op \in {"source", "layer"} /\ b[j] = [calls[j] EXCEPT !.args.canceled = TRUE]
          <5>1. b[j].op = calls[j].op
            BY <2>2, <4>2, AbandonedOK DEF Abandons, MarkupInv, MarkupTyped, Elems
          <5> QED BY <2>2, <3>1, <4>2, <5>1
        <4> QED BY <2>2, <4>1, <4>2 DEF Abandons
      <3> QED BY <1>7, <2>2, <3>1 DEF Abandons, MarkupInv, CallsSafe
    <2>5. c.op = "save" => \A j \in DOMAIN calls : calls[j].op # "save"
      BY <1>7 DEF MarkupInv, CallsSafe, CallSafe, Elems
    <2> QED BY <2>2, <2>3, <2>4, <2>5 DEF OneSave
  <1>8. CallsSafe'
    <2>1. ASSUME ~page'.risky, NEW x \in Elems(calls') PROVE CallSafe(x, page')
      <3>1. CASE x \in Elems(calls)
        BY <2>1, <3>1, CallsGoOn
      <3>2. CASE x \notin Elems(calls) /\ x # c
        BY <1>1, <1>3, <3>2 DEF CallSafe
      <3> QED BY <2>1, <3>1, <3>2
    <2> QED BY <1>7, <2>1 DEF CallsSafe
  <1>9. WorkStored'
    <2> SUFFICES ASSUME ~page'.risky, ~server'.others PROVE WorkStored'
      BY DEF WorkStored
    <2>1. UpToDate(page.layer) /\ \A x \in Elems(calls) : CallStored(x)
      BY DEF MarkupInv, WorkStored
    <2>2. /\ \A d : CanvasOf(d)' = CanvasOf(d)
          /\ \A d : Due(d) => Due(d)'
      BY <1>4 DEF CanvasOf, Due
    <2>3. \A l : UpToDate(l) => UpToDate(l)'
      BY <2>2 DEF UpToDate, CanvasOf
    <2>4. ASSUME NEW x \in Elems(calls') PROVE CallStored(x)'
      <3>1. CASE x \in Elems(calls)
        BY <2>1, <2>2, <2>3, <3>1 DEF CallStored, CanvasOf
      <3>2. CASE x \notin Elems(calls) /\ x # c
        BY <1>1, <1>3, <3>2 DEF CallStored
      <3>3. CASE x = c
        BY <3>3 DEF CallStored, HasLayer
      <3> QED BY <3>1, <3>2, <3>3
    <2> QED BY <2>1, <2>3, <2>4 DEF WorkStored, EditorStored, CanvasOf, UpToDate, Due
  <1> QED BY <1>5, <1>6, <1>8, <1>9 DEF MarkupInv, Guarded, WorkSafe, OnCanvas

LEMMA PlainlySent == ASSUME MarkupInv PROVE Abandons(calls)
  BY DEF Abandons, MarkupInv, MarkupTyped

LEMMA SavingInv ==
  ASSUME MarkupInv, NEW then, then \subseteq Marks, page.ed.ready, page.ed.state = "dirty", Saving(then)
  PROVE  MarkupInv'
  <1> DEFINE c == SaveCall(then)
  <1>1. MarkupPageOK(page) /\ Guarded(page) /\ EditorOK(page.ed)
    BY DEF MarkupInv, MarkupTyped, MarkupPageOK
  <1>2. page' = [page EXCEPT !.ed.state = "saving"] /\ calls' = calls \o <<c>> /\ UNCHANGED server
    BY DEF Saving, Show, Send
  <1>3. /\ DOMAIN c = CallFields /\ c.op = "save" /\ c.reply = Absent
        /\ c.args.of = page.source /\ c.args.mount = page.mount
        /\ c.args.json = Serialize(page.ed) /\ c.args.then = then
    BY DEF SaveCall, Call, CallFields
  <1> HIDE DEF c
  <1>4. /\ DOMAIN page' = MarkupFields /\ page'.ed = [page.ed EXCEPT !.state = "saving"] /\ page'.at = page.at
        /\ page'.uses = page.uses /\ page'.url = page.url /\ page'.source = page.source /\ page'.layer = page.layer
        /\ page'.risky = page.risky /\ page'.shown = page.shown /\ page'.mount = page.mount
        /\ page'.draft = page.draft /\ page'.want = page.want
    BY <1>1, <1>2 DEF MarkupPageOK, MarkupFields
  <1>5. /\ EditorOK(page'.ed) /\ page'.ed.ready /\ page'.ed.loaded = page.ed.loaded /\ page'.ed.state = "saving"
        /\ page'.ed.busy = page.ed.busy /\ page'.ed.canvas = page.ed.canvas /\ page'.ed.of = page.ed.of
    <2> DEFINE e == [page.ed EXCEPT !.state = "saving"]
    <2>1. /\ EditorOK(e) /\ e.ready /\ e.loaded = page.ed.loaded /\ e.state = "saving"
          /\ e.busy = page.ed.busy /\ e.canvas = page.ed.canvas /\ e.of = page.ed.of
      BY <1>1 DEF EditorOK, EditorFields
    <2> HIDE DEF e
    <2> QED BY <1>4, <2>1 DEF e
  <1>6. MarkupPageOK(page')
    BY <1>1, <1>4, <1>5 DEF MarkupPageOK
  <1>7. Guarded(page')
    <2>1. page.ed.ready = page.ed.loaded => page'.ed.ready = page'.ed.loaded
      BY <1>1, <1>5 DEF EditorOK
    <2> QED BY <1>1, <1>4, <1>5, <2>1 DEF Guarded, WorkSafe, OnCanvas
  <1>8. Serialize(page.ed) \in Bright /\ Serialize(page.ed).marks = page.ed.canvas.marks
    BY <1>1, Serialized
  <1>9. MarkupCallOK(c) /\ OfMount(c, page') /\ CallSafe(c, page')
    BY <1>1, <1>3, <1>4, <1>5, <1>8 DEF MarkupCallOK, HasLayer, OfMount, CallSafe, MarkupPageOK
  <1>10. Stays /\ EditorStored(page'.ed, page'.source)
    BY <1>4, <1>5 DEF Stays, EditorStored
  <1> QED BY <1>2, <1>3, <1>4, <1>5, <1>6, <1>7, <1>9, <1>10, PlainlySent, SentInv

LEMMA SaveMarkupsInv == ASSUME MarkupInv, SaveMarkups PROVE MarkupInv'
  BY SavingInv DEF SaveMarkups

\* A request about a review.
LEMMA ReviewSentInv ==
  ASSUME MarkupInv, page.ed.ready, NEW kind \in {"create", "reply", "state", "delete"}, NEW marks, marks \subseteq Marks,
         NEW id, page' = [page EXCEPT !.ed.busy = TRUE],
         Send(<<ThreadCall(kind, page.source, page.ed.of, marks, id, page.mount)>>), UNCHANGED server
  PROVE  MarkupInv'
  <1> DEFINE c == ThreadCall(kind, page.source, page.ed.of, marks, id, page.mount)
  <1>1. MarkupPageOK(page) /\ Guarded(page) /\ EditorOK(page.ed)
    BY DEF MarkupInv, MarkupTyped, MarkupPageOK
  <1>2. calls' = calls \o <<c>>
    BY DEF Send
  <1>3. /\ DOMAIN c = CallFields /\ c.op = "thread" /\ c.reply = Absent
        /\ c.args.of = page.source /\ c.args.mount = page.mount /\ c.args.fingerprint = page.ed.of
        /\ c.args.kind = kind /\ c.args.marks = marks
    BY DEF ThreadCall, Call, CallFields
  <1> HIDE DEF c
  <1>4. /\ DOMAIN page' = MarkupFields /\ page'.ed = [page.ed EXCEPT !.busy = TRUE] /\ page'.at = page.at
        /\ page'.uses = page.uses /\ page'.url = page.url /\ page'.source = page.source /\ page'.layer = page.layer
        /\ page'.risky = page.risky /\ page'.shown = page.shown /\ page'.mount = page.mount
        /\ page'.draft = page.draft /\ page'.want = page.want
    BY <1>1 DEF MarkupPageOK, MarkupFields
  <1>5. /\ EditorOK(page'.ed) /\ page'.ed.ready = page.ed.ready /\ page'.ed.loaded = page.ed.loaded
        /\ page'.ed.state = page.ed.state /\ page'.ed.saved = page.ed.saved
        /\ page'.ed.canvas = page.ed.canvas /\ page'.ed.of = page.ed.of
    <2> DEFINE e == [page.ed EXCEPT !.busy = TRUE]
    <2>1. /\ EditorOK(e) /\ e.ready = page.ed.ready /\ e.loaded = page.ed.loaded /\ e.state = page.ed.state
          /\ e.saved = page.ed.saved /\ e.canvas = page.ed.canvas /\ e.of = page.ed.of
      BY <1>1 DEF EditorOK, EditorFields
    <2> HIDE DEF e
    <2> QED BY <1>4, <2>1 DEF e
  <1>6. MarkupPageOK(page')
    BY <1>1, <1>4, <1>5 DEF MarkupPageOK
  <1>7. Guarded(page')
    <2> SUFFICES ASSUME WorkSafe(page) PROVE WorkSafe(page')
      BY <1>1, <1>4 DEF Guarded
    <2>1. OnCanvas(page') = OnCanvas(page)
      BY <1>4, <1>5 DEF OnCanvas
    <2> QED BY <1>4, <1>5, <2>1 DEF WorkSafe
  <1>8. ~page'.risky => CallSafe(c, page')
    <2>1. ~page.risky => page.ed.of = page.source
      BY <1>1 DEF Guarded, WorkSafe
    <2>2. c.reply # Conflict
      BY <1>3, MarkupAssumption
    <2> QED BY <1>3, <1>4, <2>1, <2>2 DEF CallSafe
  <1>9. MarkupCallOK(c) /\ OfMount(c, page')
    <2>1. c.args.of \in Drawings /\ c.args.mount \in Nat /\ page'.ed.ready
      BY <1>1, <1>3, <1>5 DEF MarkupPageOK
    <2>2. OfMount(c, page')
      BY <1>3, <1>4, <2>1 DEF OfMount
    <2>3. MarkupCallOK(c)
      BY <1>3, <2>1 DEF MarkupCallOK, HasLayer
    <2> QED BY <2>2, <2>3
  <1>10. Stays
    BY <1>4, <1>5 DEF Stays
  <1>11. ASSUME ~page'.risky, ~server.others PROVE EditorStored(page'.ed, page'.source)
    <2>1. EditorStored(page.ed, page.source) /\ Serialize(page'.ed) = Serialize(page.ed)
      BY <1>1, <1>4, <1>5, <1>11, Serialized DEF MarkupInv, WorkStored
    <2> QED BY <1>4, <1>5, <2>1 DEF EditorStored
  <1> QED BY <1>2, <1>3, <1>4, <1>5, <1>6, <1>7, <1>8, <1>9, <1>10, <1>11, PlainlySent, SentInv

LEMMA CreateThreadInv == ASSUME MarkupInv, CreateThread PROVE MarkupInv'
  <1>1. PICK marks \in (IF page.ed.prompt # {} THEN {page.ed.prompt}
                        ELSE {{m} : m \in page.ed.canvas.marks \ page.ed.canvas.dark}) :
          IF page.ed.state = "dirty" THEN Saving(marks)
          ELSE /\ Act /\ Show([page EXCEPT !.ed.busy = TRUE])
               /\ Send(<<ThreadCall("create", page.source, page.ed.of, marks, 0, page.mount)>>)
               /\ UNCHANGED server
    BY DEF CreateThread
  <1>2. marks \subseteq Marks
    BY DEF MarkupInv, MarkupTyped, MarkupPageOK, EditorOK, Canvases
  <1>3. page.ed.ready
    BY DEF CreateThread
  <1>4. CASE page.ed.state = "dirty"
    BY <1>1, <1>2, <1>3, <1>4, SavingInv
  <1>5. CASE page.ed.state # "dirty"
    BY <1>1, <1>2, <1>3, <1>5, ReviewSentInv DEF Show
  <1> QED BY <1>4, <1>5

LEMMA ThreadRequestInv ==
  ASSUME MarkupInv, NEW kind \in {"reply", "state", "delete"}, ThreadRequest(kind)
  PROVE  MarkupInv'
  <1>1. PICK t \in ToSet(page.layer.threads) :
          /\ Act /\ Show([page EXCEPT !.ed.busy = TRUE])
          /\ Send(<<ThreadCall(kind, page.source, page.ed.of, {}, t.id, page.mount)>>)
    BY DEF ThreadRequest
  <1>2. page.ed.ready /\ UNCHANGED server /\ {} \subseteq Marks
    BY DEF ThreadRequest
  <1> QED BY <1>1, <1>2, ReviewSentInv DEF Show

LEMMA ReloadFromServerInv == ASSUME MarkupInv, ReloadFromServer PROVE MarkupInv'
  <1> DEFINE c == Call("fresh", [of |-> page.source, mount |-> page.mount])
  <1>1. MarkupPageOK(page) /\ Guarded(page) /\ page.ed.ready
    BY DEF ReloadFromServer, MarkupInv, MarkupTyped, MarkupPageOK, EditorOK
  <1>2. calls' = calls \o <<c>> /\ UNCHANGED <<page, server>>
    BY DEF ReloadFromServer, Send
  <1>3. /\ DOMAIN c = CallFields /\ c.op = "fresh" /\ c.reply = Absent
        /\ c.args.of = page.source /\ c.args.mount = page.mount
    BY DEF Call, CallFields
  <1> HIDE DEF c
  <1>4. MarkupCallOK(c) /\ OfMount(c, page') /\ CallSafe(c, page')
    BY <1>1, <1>2, <1>3 DEF MarkupCallOK, HasLayer, OfMount, CallSafe, MarkupPageOK
  <1>5. Stays /\ (~page'.risky /\ ~server.others => EditorStored(page'.ed, page'.source))
    BY <1>2 DEF Stays, MarkupInv, WorkStored
  <1>6. MarkupPageOK(page') /\ Guarded(page')
    BY <1>1, <1>2
  <1> QED BY <1>2, <1>3, <1>4, <1>5, <1>6, PlainlySent, SentInv

LEMMA OpenPartInv == ASSUME MarkupInv, NEW d \in Drawings, OpenPart(d) PROVE MarkupInv'
  <1> DEFINE q == Leave(page)
             b == Abandoned(calls)
             c == Call("source", [of |-> d, canceled |-> FALSE])
  <1>1. page' = [q EXCEPT !.url = d, !.shown = FALSE] /\ calls' = Append(b, c) /\ UNCHANGED server
    BY DEF OpenPart, Show
  <1>2. /\ MarkupPageOK(q) /\ q.ed = Unmounted /\ q.mount = page.mount + 1 /\ (page.risky => q.risky)
        /\ (page.ed.state = "saving" => q.risky) /\ q.layer = page.layer /\ q.source = page.source /\ Guarded(q)
    BY LeaveOK DEF MarkupInv, MarkupTyped
  <1> HIDE DEF q
  <1>3. /\ DOMAIN page' = MarkupFields /\ page'.ed = Unmounted /\ page'.at = q.at /\ page'.uses = q.uses
        /\ page'.url = d /\ page'.source = q.source /\ page'.layer = q.layer /\ page'.risky = q.risky
        /\ page'.shown = FALSE /\ page'.mount = q.mount /\ page'.draft = q.draft /\ page'.want = q.want
    BY <1>1, <1>2 DEF MarkupPageOK, MarkupFields
  <1>4. MarkupPageOK(page')
    BY <1>2, <1>3, UnmountedOK DEF MarkupPageOK
  <1>5. Guarded(page')
    BY <1>2, <1>3, <1>4, UnmountedOK, ElsewhereOK
  <1>6. Left /\ EditorStored(page'.ed, page'.source)
    BY <1>2, <1>3, UnmountedOK DEF Left, EditorStored
  <1>7. Abandons(b)
    <2>1. IsSequence(calls)
      BY DEF MarkupInv, MarkupTyped
    <2>2. b = [i \in DOMAIN calls |-> b[i]] /\ DOMAIN b = DOMAIN calls
      BY DEF Abandoned
    <2> HIDE DEF b
    <2>3. IsSequence(b)
      BY <2>1, <2>2, Mapped
    <2> QED BY <2>2, <2>3 DEF Abandons, Abandoned, b
  <1>8. calls' = b \o <<c>>
    <2>1. PICK S : b \in Seq(S)
      BY <1>7 DEF Abandons, IsSequence
    <2>2. b \in Seq(S \cup {c})
      BY <2>1, SeqMonotonic
    <2> HIDE DEF b, c
    <2>3. Append(b, c) = b \o <<c>>
      BY <2>2, AppendIsConcat
    <2> QED BY <1>1, <2>3
  <1>9. MarkupCallOK(c) /\ c.reply = Absent /\ OfMount(c, page') /\ CallSafe(c, page') /\ c.op = "source"
    BY DEF Call, MarkupCallOK, CallFields, HasLayer, OfMount, CallSafe
  <1>10. page'.ed.state = "saved" /\ ~page'.ed.busy
    BY <1>3, UnmountedOK
  <1> HIDE DEF b, c
  <1> QED BY <1>1, <1>2, <1>3, <1>4, <1>5, <1>6, <1>7, <1>8, <1>9, <1>10, SentInv

-------------------------------------------------------------------------------
(* The server.                                                             *)

\* The request with its answer.
IsAnswer(c, i, r) == DOMAIN c = CallFields /\ c.op = calls[i].op /\ c.args = calls[i].args /\ c.reply = r

LEMMA Served ==
  ASSUME MarkupInv, NEW i \in DOMAIN calls, NEW STATE r, Reply(i, r), UNCHANGED page,
         \A c : IsAnswer(c, i, r) => MarkupCallOK(c) /\ (~page.risky => CallSafe(c, page)),
         calls[i].op = "save" /\ calls[i].reply \notin {Absent, Conflict} => r \notin {Absent, Conflict}
  PROVE  \E c : /\ IsAnswer(c, i, r) /\ c \in Elems(calls') /\ Elems(calls') \subseteq Elems(calls) \cup {c}
                /\ IsSequence(calls') /\ (\A x \in Elems(calls') : MarkupCallOK(x) /\ OfMount(x, page'))
                /\ EditorWaits' /\ CallsSafe'
                /\ \A d : Due(d) => Due(d)'
                /\ ~page.risky /\ c.op = "save" => \A x \in Elems(calls') : x.op = "save" => x = c
  <1>1. /\ IsSequence(calls) /\ DOMAIN calls[i] = CallFields /\ calls[i] \in Elems(calls)
        /\ \A x \in Elems(calls) : MarkupCallOK(x) /\ OfMount(x, page)
    BY DEF MarkupInv, MarkupTyped, MarkupCallOK, Elems
  <1> DEFINE c == [calls[i] EXCEPT !.reply = r, !.work = Absent]
  <1>2. IsAnswer(c, i, r)
    BY <1>1 DEF IsAnswer, CallFields
  <1>3. PICK S : calls \in Seq(S)
    BY <1>1 DEF IsSequence
  <1>4. calls' = [calls EXCEPT ![i] = c]
    BY <1>3 DEF Reply
  <1> HIDE DEF c
  <1>5. /\ (\E T : calls' \in Seq(T)) /\ Len(calls') = Len(calls) /\ i \in 1 .. Len(calls)
        /\ \A j \in 1 .. Len(calls) : calls'[j] = IF j = i THEN c ELSE calls[j]
    BY <1>3, <1>4, CallReplaced
  <1>6. DOMAIN calls' = 1 .. Len(calls) /\ DOMAIN calls = 1 .. Len(calls)
    BY <1>3, <1>5, LenProperties
  <1>7. /\ IsSequence(calls') /\ c \in Elems(calls') /\ Elems(calls') \subseteq Elems(calls) \cup {c}
        /\ Elems(calls) \subseteq Elems(calls') \cup {calls[i]}
    BY <1>5, <1>6 DEF IsSequence, Elems
  <1>8. /\ MarkupCallOK(c) /\ (~page.risky => CallSafe(c, page))
        /\ c.op = calls[i].op /\ c.args = calls[i].args /\ c.reply = r
    BY <1>2 DEF IsAnswer
  <1>9. OfMount(c, page)
    BY <1>1, <1>8 DEF OfMount
  <1>10. EditorWaits'
    BY <1>7, <1>8 DEF MarkupInv, EditorWaits, Awaits
  <1>11. ASSUME ~page.risky PROVE OneSave' /\ \A x \in Elems(calls') : CallSafe(x, page)
    <2>1. OneSave /\ \A x \in Elems(calls) : CallSafe(x, page)
      BY <1>11 DEF MarkupInv, CallsSafe
    <2>2. \A j \in DOMAIN calls' : j \in DOMAIN calls /\ calls'[j].op = calls[j].op
      BY <1>5, <1>6, <1>8
    <2> QED BY <1>7, <1>8, <1>11, <2>1, <2>2 DEF OneSave
  <1>12. \A d : Due(d) => Due(d)'
    BY <1>7, <1>8 DEF Due
  <1>13. ASSUME ~page.risky, c.op = "save", NEW x \in Elems(calls'), x.op = "save" PROVE x = c
    BY <1>5, <1>6, <1>11, <1>13 DEF OneSave, Elems
  <1> QED BY <1>1, <1>2, <1>7, <1>8, <1>9, <1>10, <1>11, <1>12, <1>13 DEF CallsSafe

\* An answer that leaves the canvases as they are.
LEMMA ServedInv ==
  ASSUME MarkupInv, NEW i \in DOMAIN calls, NEW STATE r, Reply(i, r), UNCHANGED page, ServerOK(server'),
         server'.others = server.others, \A d \in Drawings : server'.layers[d].canvas = server.layers[d].canvas,
         \A c : IsAnswer(c, i, r) => MarkupCallOK(c) /\ (~page.risky => CallSafe(c, page))
                                     /\ (~page.risky /\ ~server.others => CallStored(c)),
         calls[i].op = "save" /\ calls[i].reply \notin {Absent, Conflict} => r \notin {Absent, Conflict}
  PROVE  MarkupInv'
  <1>1. PICK c : /\ IsAnswer(c, i, r) /\ c \in Elems(calls') /\ Elems(calls') \subseteq Elems(calls) \cup {c}
                 /\ IsSequence(calls') /\ (\A x \in Elems(calls') : MarkupCallOK(x) /\ OfMount(x, page'))
                 /\ EditorWaits' /\ CallsSafe'
                 /\ \A d : Due(d) => Due(d)'
    BY Served
  <1>2. WorkStored'
    <2> SUFFICES ASSUME ~page.risky, ~server.others PROVE WorkStored'
      BY DEF WorkStored
    <2>1. UpToDate(page.layer) /\ EditorStored(page.ed, page.source) /\ (\A x \in Elems(calls) : CallStored(x))
          /\ CallStored(c)
      BY <1>1 DEF MarkupInv, WorkStored
    <2>2. MarkupPageOK(page) /\ page.layer \in Layers
      BY DEF MarkupInv, MarkupTyped, MarkupPageOK, Guarded, WorkSafe
    <2>3. ASSUME NEW l, l.of \in Drawings, UpToDate(l) PROVE UpToDate(l)'
      BY <1>1, <2>3 DEF UpToDate, CanvasOf
    <2>4. UpToDate(page.layer)'
      BY <2>1, <2>2, <2>3 DEF Layers, UpToDate, CanvasOf, Due
    <2>5. EditorStored(page.ed, page.source)'
      BY <2>1, <2>2 DEF EditorStored, CanvasOf, MarkupPageOK
    <2>6. ASSUME NEW x \in Elems(calls') PROVE CallStored(x)'
      <3>1. CallStored(x) /\ MarkupCallOK(x)
        BY <1>1, <2>1
      <3>2. Counts(x) /\ HasLayer(x) => UpToDate(x.reply)'
        <4>1. Counts(x) /\ HasLayer(x) => x.reply.of \in Drawings
          BY <3>1 DEF MarkupCallOK, Counts
        <4> QED BY <2>3, <3>1, <4>1 DEF CallStored
      <3>3. x.op = "save" /\ HasLayer(x) => CanvasOf(x.args.of)' = x.args.json
        BY <3>1 DEF MarkupCallOK, CallStored, CanvasOf
      <3> QED BY <3>2, <3>3 DEF CallStored
    <2> QED BY <2>4, <2>5, <2>6 DEF WorkStored
  <1>3. MarkupTyped'
    BY <1>1 DEF MarkupInv, MarkupTyped
  <1> QED BY <1>1, <1>2, <1>3 DEF MarkupInv, Guarded, WorkSafe, OnCanvas

LEMMA LoseCallInv == ASSUME MarkupInv, Lose PROVE MarkupInv'
  <1>1. PICK i \in DOMAIN calls : Reply(i, Failure)
    BY DEF Lose
  <1>2. calls[i] \in Elems(calls) /\ MarkupCallOK(calls[i]) /\ UNCHANGED <<page, server>>
    BY DEF Lose, MarkupInv, MarkupTyped, Elems
  <1>3. ASSUME NEW c, IsAnswer(c, i, Failure)
        PROVE  MarkupCallOK(c) /\ (~page.risky => CallSafe(c, page)) /\ CallStored(c)
    <2>1. ~HasLayer(c) /\ Failure # Conflict
      BY <1>3, MarkupAssumption DEF IsAnswer, HasLayer
    <2>2. MarkupCallOK(c)
      BY <1>2, <1>3, <2>1 DEF IsAnswer, MarkupCallOK
    <2>3. ~page.risky => CallSafe(c, page)
      BY <1>2, <1>3, <2>1 DEF IsAnswer, CallSafe, MarkupInv, CallsSafe
    <2> QED BY <2>1, <2>2, <2>3 DEF CallStored
  <1>4. Failure \notin {Absent, Conflict} /\ ServerOK(server)
    BY MarkupAssumption DEF MarkupInv, MarkupTyped
  <1> QED BY <1>1, <1>2, <1>3, <1>4, ServedInv

LEMMA ServeDrawingInv == ASSUME MarkupInv, ServeDrawing PROVE MarkupInv'
  <1>1. PICK i \in DOMAIN calls :
          \/ IsAsked(i, "source") /\ Reply(i, calls[i].args.of)
          \/ (IsAsked(i, "layer") \/ IsAsked(i, "fresh")) /\ Reply(i, server.layers[calls[i].args.of])
    BY DEF ServeDrawing
  <1>2. /\ calls[i] \in Elems(calls) /\ MarkupCallOK(calls[i]) /\ UNCHANGED <<page, server>> /\ ServerOK(server)
        /\ calls[i].args.of \in Drawings
    BY DEF ServeDrawing, MarkupInv, MarkupTyped, Elems, MarkupCallOK
  <1>3. CASE IsAsked(i, "source") /\ Reply(i, calls[i].args.of)
    <2>1. ASSUME NEW c, IsAnswer(c, i, calls[i].args.of)
          PROVE  MarkupCallOK(c) /\ (~page.risky => CallSafe(c, page)) /\ CallStored(c)
      BY <1>2, <1>3, <2>1 DEF IsAnswer, IsAsked, MarkupCallOK, CallSafe, CallStored, Counts
    <2> QED BY <1>2, <1>3, <2>1, ServedInv DEF IsAsked
  <1>4. CASE (IsAsked(i, "layer") \/ IsAsked(i, "fresh")) /\ Reply(i, server.layers[calls[i].args.of])
    <2> DEFINE r == server.layers[calls[i].args.of]
    <2>1. r \in Layers /\ r.of = calls[i].args.of /\ UpToDate(r)
      BY <1>2 DEF ServerOK, UpToDate, CanvasOf
    <2> HIDE DEF r
    <2>2. ASSUME NEW c, IsAnswer(c, i, r)
          PROVE  MarkupCallOK(c) /\ (~page.risky => CallSafe(c, page)) /\ CallStored(c)
      <3>1. MarkupCallOK(c)
        BY <1>2, <1>4, <2>1, <2>2 DEF IsAnswer, IsAsked, MarkupCallOK
      <3> QED BY <1>4, <2>1, <2>2, <3>1 DEF IsAnswer, IsAsked, CallSafe, CallStored
    <2>3. Reply(i, r) /\ calls[i].op # "save"
      BY <1>4 DEF IsAsked, r
    <2> QED BY <1>2, <2>2, <2>3, ServedInv
  <1> QED BY <1>1, <1>3, <1>4

LEMMA ListOf ==
  ASSUME NEW s, IsSequence(s), NEW T, Elems(s) \subseteq T
  PROVE  s \in Seq(T)
  <1>1. PICK S : s \in Seq(S)
    BY DEF IsSequence
  <1>2. Len(s) \in Nat /\ DOMAIN s = 1 .. Len(s) /\ s = [i \in 1 .. Len(s) |-> s[i]]
    BY <1>1, LenProperties
  <1>3. \A i \in 1 .. Len(s) : s[i] \in T
    BY <1>2 DEF Elems
  <1>4. [i \in 1 .. Len(s) |-> s[i]] \in Seq(T)
    BY <1>2, <1>3, IsASeq
  <1> QED BY <1>2, <1>4

LEMMA StoreThreadInv == ASSUME MarkupInv, StoreThread PROVE MarkupInv'
  <1> DEFINE T == [id : Nat, marks : SUBSET Marks, open : BOOLEAN]
             threads(a, l) ==
               CASE a.kind = "create" -> Append(l.threads, [id |-> server.made + 1, marks |-> a.marks, open |-> TRUE])
                 [] a.kind = "state"  ->
                      [k \in DOMAIN l.threads |->
                         IF l.threads[k].id = a.id THEN [l.threads[k] EXCEPT !.open = ~@] ELSE l.threads[k]]
                 [] a.kind = "delete" -> Picked(l.threads, {k \in DOMAIN l.threads : l.threads[k].id # a.id})
                 [] a.kind = "reply"  -> l.threads
             new(a, l) == [l EXCEPT !.version = @ + 1, !.threads = threads(a, l)]
  <1>1. PICK i \in DOMAIN calls :
          /\ IsAsked(i, "thread")
          /\ \/ /\ calls[i].args.fingerprint # calls[i].args.of
                /\ Reply(i, Conflict) /\ UNCHANGED server
             \/ Reply(i, Failure) /\ UNCHANGED server
             \/ LET d == calls[i].args.of
                    n == new(calls[i].args, server.layers[d])
                IN Reply(i, n) /\ Stored(d, n)
    BY DEF StoreThread
  <1>2. /\ calls[i] \in Elems(calls) /\ MarkupCallOK(calls[i]) /\ UNCHANGED page /\ ServerOK(server)
        /\ calls[i].op = "thread" /\ calls[i].args.of \in Drawings /\ calls[i].args.marks \subseteq Marks
        /\ calls[i].args.kind \in {"create", "reply", "state", "delete"}
    BY <1>1 DEF StoreThread, MarkupInv, MarkupTyped, Elems, MarkupCallOK, IsAsked
  <1>3. CASE calls[i].args.fingerprint # calls[i].args.of /\ Reply(i, Conflict) /\ UNCHANGED server
    <2>1. page.risky
      BY <1>2, <1>3 DEF MarkupInv, CallsSafe, CallSafe
    <2>2. ASSUME NEW c, IsAnswer(c, i, Conflict) PROVE MarkupCallOK(c)
      BY <1>2, <2>2 DEF IsAnswer, MarkupCallOK, HasLayer
    <2> QED BY <1>2, <1>3, <2>1, <2>2, ServedInv
  <1>4. CASE Reply(i, Failure) /\ UNCHANGED server
    <2>1. ASSUME NEW c, IsAnswer(c, i, Failure)
          PROVE  MarkupCallOK(c) /\ (~page.risky => CallSafe(c, page)) /\ CallStored(c)
      <3>1. ~HasLayer(c) /\ Failure # Conflict
        BY <2>1, MarkupAssumption DEF IsAnswer, HasLayer
      <3> QED BY <1>2, <2>1, <3>1 DEF IsAnswer, MarkupCallOK, CallSafe, CallStored, MarkupInv, CallsSafe
    <2> QED BY <1>2, <1>4, <2>1, ServedInv
  <1>5. CASE LET d == calls[i].args.of
                 n == new(calls[i].args, server.layers[d])
             IN Reply(i, n) /\ Stored(d, n)
    <2> DEFINE a == calls[i].args
               l == server.layers[a.of]
               n == new(a, l)
    <2>1. /\ l \in Layers /\ l.of = a.of /\ l.version \in Nat /\ l.canvas \in Bright /\ l.threads \in Seq(T)
          /\ DOMAIN l = {"of", "version", "canvas", "threads"}
      BY <1>2 DEF ServerOK, Layers
    <2>2. threads(a, l) \in Seq(T)
      <3>1. CASE a.kind = "create"
        <4>1. [id |-> server.made + 1, marks |-> a.marks, open |-> TRUE] \in T
          BY <1>2 DEF ServerOK
        <4> HIDE DEF T, l
        <4>2. Append(l.threads, [id |-> server.made + 1, marks |-> a.marks, open |-> TRUE]) \in Seq(T)
          BY <2>1, <4>1, AppendProperties
        <4> QED BY <3>1, <4>2
      <3>2. CASE a.kind = "state"
        <4> DEFINE t(k) == IF l.threads[k].id = a.id THEN [l.threads[k] EXCEPT !.open = ~@] ELSE l.threads[k]
        <4>1. Len(l.threads) \in Nat /\ DOMAIN l.threads = 1 .. Len(l.threads)
          BY <2>1, LenProperties
        <4>2. ASSUME NEW k \in 1 .. Len(l.threads) PROVE t(k) \in T
          <5>1. l.threads[k] \in T
            BY <2>1, <4>1, ElementOfSeq
          <5> QED BY <5>1
        <4> HIDE DEF t, T
        <4>3. [k \in 1 .. Len(l.threads) |-> t(k)] \in Seq(T)
          BY <4>1, <4>2, IsASeq
        <4>4. threads(a, l) = [k \in DOMAIN l.threads |-> t(k)]
          BY <3>2 DEF t
        <4> QED BY <4>1, <4>3, <4>4
      <3>3. CASE a.kind = "delete"
        <4> DEFINE K == {k \in DOMAIN l.threads : l.threads[k].id # a.id}
        <4>1. IsSequence(l.threads) /\ K \in SUBSET (DOMAIN l.threads)
          BY <2>1 DEF IsSequence
        <4>2. threads(a, l) = Picked(l.threads, K)
          BY <3>3
        <4> HIDE DEF K
        <4>3. IsSequence(Picked(l.threads, K)) /\ Elems(Picked(l.threads, K)) = {l.threads[k] : k \in K}
          BY <4>1, PickedIs
        <4>4. \A k \in DOMAIN l.threads : l.threads[k] \in T
          <5> HIDE DEF T, l
          <5>1. DOMAIN l.threads = 1 .. Len(l.threads)
            BY <2>1, LenProperties
          <5> QED BY <2>1, <5>1, ElementOfSeq
        <4>5. Elems(Picked(l.threads, K)) \subseteq T
          BY <4>1, <4>3, <4>4
        <4> QED BY <4>2, <4>3, <4>5, ListOf
      <3>4. CASE a.kind = "reply"
        BY <2>1, <3>4
      <3> QED BY <1>2, <3>1, <3>2, <3>3, <3>4
    <2>3. Reply(i, n) /\ Stored(a.of, n)
      BY <1>5
    <2>4. n = [l EXCEPT !.version = l.version + 1, !.threads = threads(a, l)]
      OBVIOUS
    <2> HIDE DEF n, threads, T
    <2>5. n.canvas = l.canvas /\ n.of = l.of /\ n \in Layers
      <3> HIDE DEF a, l
      <3> DEFINE t == threads(a, l)
      <3>1. n = [l EXCEPT !.version = l.version + 1, !.threads = t] /\ t \in Seq(T)
        BY <2>2, <2>4
      <3> HIDE DEF t
      <3>2. l \in [of : Drawings, version : Nat, canvas : Bright, threads : Seq(T)] /\ l.version + 1 \in Nat
        BY <2>1 DEF Layers, T
      <3>3. n \in [of : Drawings, version : Nat, canvas : Bright, threads : Seq(T)]
        BY <3>1, <3>2
      <3>4. n.canvas = l.canvas /\ n.of = l.of
        BY <3>1, <3>2
      <3> QED BY <3>3, <3>4 DEF Layers, T
    <2>6. /\ ServerOK(server') /\ server'.others = server.others
          /\ \A d \in Drawings : server'.layers[d].canvas = server.layers[d].canvas
      BY <1>2, <2>1, <2>3, <2>5 DEF Stored, ServerOK
    <2>7. ASSUME NEW c, IsAnswer(c, i, n)
          PROVE  MarkupCallOK(c) /\ (~page.risky => CallSafe(c, page)) /\ CallStored(c)
      <3>1. c.op = "thread" /\ DOMAIN c = CallFields /\ c.args = a /\ c.reply = n
        BY <1>2, <2>7 DEF IsAnswer
      <3>2. MarkupCallOK(c)
        BY <1>2, <2>1, <2>5, <3>1 DEF MarkupCallOK
      <3>3. ~page.risky => CallSafe(c, page)
        <4>1. n # Conflict
          BY <2>5, MarkupAssumption
        <4> QED BY <1>2, <3>1, <4>1 DEF CallSafe, MarkupInv, CallsSafe
      <3>4. UpToDate(n)
        BY <2>1, <2>5 DEF UpToDate, CanvasOf
      <3> QED BY <3>1, <3>2, <3>3, <3>4 DEF CallStored
    <2> QED BY <1>2, <2>3, <2>6, <2>7, ServedInv
  <1> QED BY <1>1, <1>3, <1>4, <1>5

LEMMA OthersSaveInv == ASSUME MarkupInv, NEW d \in Drawings, NEW m \in Marks, OthersSave(d, m) PROVE MarkupInv'
  <1> DEFINE l == server.layers[d]
             n == [l EXCEPT !.version = @ + 1, !.canvas.marks = @ \cup {m}]
  <1>1. ServerOK(server) /\ UNCHANGED <<page, calls>>
    BY DEF OthersSave, MarkupInv, MarkupTyped
  <1>2. server' = [server EXCEPT !.others = TRUE, !.layers[d] = n]
    BY DEF OthersSave
  <1>3. l \in Layers /\ l.of = d
    BY <1>1 DEF ServerOK
  <1>4. n \in Layers /\ n.of = d
    <2> HIDE DEF l
    <2>1. l.canvas \in Bright /\ l.version + 1 \in Nat
      BY <1>3 DEF Layers
    <2>2. [l.canvas EXCEPT !.marks = @ \cup {m}] \in Bright
      <3>1. l.canvas.marks \cup {m} \in SUBSET Marks
        BY <2>1 DEF Bright
      <3> QED BY <2>1, <3>1 DEF Bright
    <2> QED BY <1>3, <2>1, <2>2 DEF Layers
  <1> HIDE DEF n
  <1>5. ServerOK(server') /\ server'.others = TRUE
    BY <1>1, <1>2, <1>4 DEF ServerOK
  <1>6. MarkupTyped'
    BY <1>1, <1>5 DEF MarkupInv, MarkupTyped
  <1>7. EditorWaits' /\ CallsSafe' /\ WorkStored'
    BY <1>1, <1>5 DEF MarkupInv, EditorWaits, Awaits, CallsSafe, OneSave, WorkStored
  <1> QED BY <1>1, <1>6, <1>7 DEF MarkupInv, Guarded, WorkSafe, OnCanvas

LEMMA StoreMarkupsInv == ASSUME MarkupInv, StoreMarkups PROVE MarkupInv'
  <1> DEFINE T == [id : Nat, marks : SUBSET Marks, open : BOOLEAN]
             pruned(a, l) == [k \in DOMAIN l.threads |-> [l.threads[k] EXCEPT !.marks = @ \cap a.json.marks]]
             new(a, l) == [l EXCEPT !.version = @ + 1, !.canvas = a.json, !.threads = pruned(a, l)]
  <1>1. PICK i \in DOMAIN calls :
          /\ IsAsked(i, "save")
          /\ \/ Reply(i, Conflict) /\ UNCHANGED server
             \/ LET d == calls[i].args.of
                    n == new(calls[i].args, server.layers[d])
                IN Reply(i, n) /\ Stored(d, n)
    BY DEF StoreMarkups
  <1>2. /\ calls[i] \in Elems(calls) /\ MarkupCallOK(calls[i]) /\ UNCHANGED page /\ ServerOK(server)
        /\ calls[i].op = "save" /\ calls[i].args.of \in Drawings /\ calls[i].args.json \in Bright
        /\ calls[i].reply = Absent /\ MarkupPageOK(page)
    BY <1>1 DEF StoreMarkups, MarkupInv, MarkupTyped, Elems, MarkupCallOK, IsAsked
  <1>3. CASE Reply(i, Conflict) /\ UNCHANGED server
    <2>1. ASSUME NEW c, IsAnswer(c, i, Conflict)
          PROVE  MarkupCallOK(c) /\ (~page.risky => CallSafe(c, page)) /\ CallStored(c)
      <3>1. ~HasLayer(c)
        BY <2>1 DEF IsAnswer, HasLayer
      <3> QED BY <1>2, <2>1, <3>1 DEF IsAnswer, MarkupCallOK, CallSafe, CallStored, MarkupInv, CallsSafe
    <2> QED BY <1>2, <1>3, <2>1, ServedInv
  <1>4. CASE LET d == calls[i].args.of
                 n == new(calls[i].args, server.layers[d])
             IN Reply(i, n) /\ Stored(d, n)
    <2> DEFINE a == calls[i].args
               l == server.layers[a.of]
               n == new(a, l)
    <2>1. l \in [of : Drawings, version : Nat, canvas : Bright, threads : Seq(T)] /\ l.of = a.of /\ l.threads \in Seq(T)
      BY <1>2 DEF ServerOK, Layers
    <2>2. pruned(a, l) \in Seq(T)
      <3> HIDE DEF l, a
      <3>1. Len(l.threads) \in Nat /\ DOMAIN l.threads = 1 .. Len(l.threads)
        BY <2>1, LenProperties
      <3> DEFINE t(k) == [l.threads[k] EXCEPT !.marks = @ \cap a.json.marks]
      <3>2. ASSUME NEW k \in 1 .. Len(l.threads) PROVE t(k) \in T
        <4>1. l.threads[k] \in T
          <5> HIDE DEF T
          <5> QED BY <2>1, <3>1, ElementOfSeq
        <4> QED BY <4>1
      <3> HIDE DEF t, T
      <3>3. [k \in 1 .. Len(l.threads) |-> t(k)] \in Seq(T)
        BY <3>1, <3>2, IsASeq
      <3>4. pruned(a, l) = [k \in DOMAIN l.threads |-> t(k)]
        BY DEF t
      <3> QED BY <3>1, <3>3, <3>4
    <2>3. Reply(i, n) /\ Stored(a.of, n)
      BY <1>4
    <2>4. n = [l EXCEPT !.version = l.version + 1, !.canvas = a.json, !.threads = pruned(a, l)]
      OBVIOUS
    <2> HIDE DEF n, pruned, T
    <2>5. n.canvas = a.json /\ n.of = a.of /\ n \in Layers
      <3>1. a.json \in Bright
        BY <1>2
      <3> HIDE DEF a, l
      <3> DEFINE t == pruned(a, l)
      <3>2. n = [l EXCEPT !.version = l.version + 1, !.canvas = a.json, !.threads = t] /\ t \in Seq(T)
        BY <2>2, <2>4
      <3> HIDE DEF t
      <3>3. l.version + 1 \in Nat
        BY <2>1
      <3>4. n \in [of : Drawings, version : Nat, canvas : Bright, threads : Seq(T)] /\ n.canvas = a.json /\ n.of = a.of
        BY <2>1, <3>1, <3>2, <3>3
      <3> QED BY <3>4 DEF Layers, T
    <2>6. /\ ServerOK(server') /\ server'.others = server.others
          /\ \A d \in Drawings : CanvasOf(d)' = IF d = a.of THEN a.json ELSE CanvasOf(d)
      BY <1>2, <2>1, <2>3, <2>5 DEF Stored, ServerOK, CanvasOf
    <2>7. ASSUME NEW c, IsAnswer(c, i, n)
          PROVE  MarkupCallOK(c) /\ (~page.risky => CallSafe(c, page))
      <3>1. c.op = "save" /\ DOMAIN c = CallFields /\ c.args = a /\ c.reply = n
        BY <1>2, <2>7 DEF IsAnswer
      <3> QED BY <1>2, <2>5, <3>1 DEF MarkupCallOK, CallSafe, MarkupInv, CallsSafe
    <2>8. PICK c : /\ IsAnswer(c, i, n) /\ c \in Elems(calls') /\ Elems(calls') \subseteq Elems(calls) \cup {c}
                   /\ IsSequence(calls') /\ (\A x \in Elems(calls') : MarkupCallOK(x) /\ OfMount(x, page'))
                   /\ EditorWaits' /\ CallsSafe'
                   /\ (\A d : Due(d) => Due(d)')
                   /\ ~page.risky /\ c.op = "save" => \A x \in Elems(calls') : x.op = "save" => x = c
      BY <1>2, <2>3, <2>7, Served
    <2>9. c.op = "save" /\ c.args = a /\ c.reply = n
      BY <1>2, <2>8 DEF IsAnswer
    <2>14. PICK d \in Drawings : d = a.of
      BY <1>2
    <2>10. Due(d)'
      <3>1. n \notin {Absent, Conflict}
        BY <2>5, MarkupAssumption
      <3> QED BY <2>8, <2>9, <2>14, <3>1 DEF Due
    <2>11. ASSUME NEW k, k.of \in Drawings, UpToDate(k) PROVE UpToDate(k)'
      <3>1. CASE k.of = d
        BY <2>10, <3>1 DEF UpToDate
      <3>2. CASE k.of # d
        BY <2>6, <2>8, <2>11, <2>14, <3>2 DEF UpToDate, CanvasOf
      <3> QED BY <3>1, <3>2
    <2>12. WorkStored'
      <3> SUFFICES ASSUME ~page.risky, ~server.others PROVE WorkStored'
        BY <1>2, <2>6 DEF WorkStored
      <3>1. UpToDate(page.layer) /\ (\A x \in Elems(calls) : CallStored(x)) /\ page.layer \in Layers
        BY <1>2 DEF MarkupInv, WorkStored, MarkupPageOK, Guarded, WorkSafe
      <3>2. UpToDate(page.layer)'
        BY <1>2, <2>11, <3>1 DEF Layers, UpToDate, CanvasOf, Due
      <3>3. page.ed.state = "saving"
        BY <1>2 DEF MarkupInv, CallsSafe, CallSafe
      <3>4. EditorStored(page.ed, page.source)'
        BY <1>2, <3>3 DEF EditorStored
      <3>5. ASSUME NEW x \in Elems(calls') PROVE CallStored(x)'
        <4>1. CASE x = c
          BY <1>2, <2>6, <2>9, <4>1 DEF CallStored, Counts
        <4>2. CASE x # c
          <5>1. x \in Elems(calls) /\ x.op # "save" /\ MarkupCallOK(x)
            BY <2>8, <2>9, <4>2
          <5>2. Counts(x) /\ HasLayer(x) => UpToDate(x.reply) /\ x.reply.of \in Drawings
            BY <3>1, <5>1 DEF MarkupCallOK, Counts, CallStored
          <5> QED BY <2>11, <5>1, <5>2 DEF CallStored
        <4> QED BY <4>1, <4>2
      <3> QED BY <3>2, <3>4, <3>5 DEF WorkStored
    <2>13. MarkupTyped'
      BY <1>2, <2>6, <2>8 DEF MarkupInv, MarkupTyped
    <2> QED BY <1>2, <2>8, <2>12, <2>13 DEF MarkupInv, Guarded, WorkSafe, OnCanvas
  <1> QED BY <1>1, <1>3, <1>4

-------------------------------------------------------------------------------
(* Answers.                                                                *)

\* Of the requests that remain when an answer is taken, at most one saves,
\* and none when the answer was to the one that did.
LEMMA OthersSaves ==
  ASSUME IsSequence(calls), OneSave, NEW i \in DOMAIN calls
  PROVE  /\ \A j, k \in DOMAIN Others(i) : Others(i)[j].op = "save" /\ Others(i)[k].op = "save" => j = k
         /\ calls[i].op = "save" => \A c \in Elems(Others(i)) : c.op # "save"
  <1>1. PICK S : calls \in Seq(S)
    BY DEF IsSequence
  <1>2. /\ Others(i) \in Seq(S) /\ Len(Others(i)) = Len(calls) - 1 /\ Len(calls) \in Nat /\ i \in 1 .. Len(calls)
    BY <1>1, RequestTaken
  <1>3. DOMAIN Others(i) = 1 .. Len(calls) - 1 /\ DOMAIN calls = 1 .. Len(calls)
    BY <1>1, <1>2, LenProperties
  <1> DEFINE k(j) == IF j < i THEN j ELSE j + 1
  <1>4. \A j \in 1 .. Len(calls) - 1 : k(j) \in 1 .. Len(calls) /\ k(j) # i /\ Others(i)[j] = calls[k(j)]
    BY <1>2 DEF Others
  <1>5. \A j, l \in 1 .. Len(calls) - 1 : k(j) = k(l) => j = l
    BY <1>2
  <1> HIDE DEF k
  <1>6. ASSUME NEW j \in DOMAIN Others(i), NEW l \in DOMAIN Others(i), Others(i)[j].op = "save", Others(i)[l].op = "save"
        PROVE  j = l
    <2>1. k(j) = k(l)
      BY <1>3, <1>4, <1>6 DEF OneSave
    <2> QED BY <1>3, <1>5, <2>1
  <1>7. ASSUME calls[i].op = "save", NEW c \in Elems(Others(i)) PROVE c.op # "save"
    <2>1. PICK j \in 1 .. Len(calls) - 1 : c = Others(i)[j]
      BY <1>3 DEF Elems
    <2> QED BY <1>3, <1>4, <1>7, <2>1 DEF OneSave
  <1> QED BY <1>6, <1>7

\* Unless the answer is to a save that was stored, the others are as due as they were.
LEMMA DueStays ==
  ASSUME MarkupInv, NEW i \in DOMAIN calls, UNCHANGED server, Elems(Others(i)) \subseteq Elems(calls'),
         calls[i].op # "save" \/ calls[i].reply \in {Absent, Conflict}
  PROVE  /\ \A l : UpToDate(l) => UpToDate(l)'
         /\ \A c : CallStored(c) => CallStored(c)'
  <1>1. IsSequence(calls)
    BY DEF MarkupInv, MarkupTyped
  <1>2. \A d : Due(d) => Due(d)'
    BY <1>1, Remaining DEF Due
  <1>3. \A d : CanvasOf(d)' = CanvasOf(d)
    BY DEF CanvasOf
  <1>4. \A l : UpToDate(l) => UpToDate(l)'
    BY <1>2, <1>3 DEF UpToDate, CanvasOf
  <1>5. ASSUME NEW c, CallStored(c) PROVE CallStored(c)'
    BY <1>4, <1>5 DEF CallStored, CanvasOf
  <1> QED BY <1>4, <1>5

LEMMA TakenInv ==
  ASSUME MarkupInv, NEW i \in DOMAIN calls, NEW cs, IsSequence(cs), calls' = Others(i) \o cs, UNCHANGED server,
         MarkupPageOK(page'), Guarded(page'), page.risky => page'.risky,
         \A c \in Elems(Others(i)) : OfMount(c, page') /\ (~page'.risky => CallSafe(c, page')),
         \A c \in Elems(cs) : /\ MarkupCallOK(c) /\ OfMount(c, page') /\ (~page'.risky => CallSafe(c, page'))
                              /\ c.reply = Absent /\ c.op # "save",
         \A j, k \in DOMAIN cs : j = k,
         page'.ed.state = "saving" => \E c \in Elems(Others(i)) : c.op = "save" /\ c.args.mount = page'.mount,
         page'.ed.busy => \E c \in Elems(Others(i)) \cup Elems(cs) : c.op = "thread" /\ c.args.mount = page'.mount,
         ~page'.risky /\ ~server.others =>
           (UpToDate(page.layer) /\ EditorStored(page.ed, page.source) /\ \A c \in Elems(calls) : CallStored(c))'
  PROVE  MarkupInv'
  <1>1. IsSequence(calls) /\ IsSequence(Others(i)) /\ Elems(Others(i)) \subseteq Elems(calls)
    BY Remaining DEF MarkupInv, MarkupTyped
  <1>2. IsSequence(calls') /\ Elems(calls') = Elems(Others(i)) \cup Elems(cs)
    BY <1>1, Joined
  <1>3. MarkupTyped'
    BY <1>1, <1>2 DEF MarkupInv, MarkupTyped
  <1>4. EditorWaits'
    BY <1>2 DEF EditorWaits, Awaits
  <1>5. ASSUME ~page'.risky PROVE OneSave'
    <2> DEFINE s == Others(i)
    <2>1. /\ \A j, k \in DOMAIN s : s[j].op = "save" /\ s[k].op = "save" => j = k
      BY <1>1, <1>5, OthersSaves DEF MarkupInv, CallsSafe
    <2>2. PICK S : s \in Seq(S)
      BY <1>1 DEF IsSequence
    <2>3. PICK T : cs \in Seq(T)
      BY DEF IsSequence
    <2>4. s \in Seq(S \cup T) /\ cs \in Seq(S \cup T)
      BY <2>2, <2>3, SeqMonotonic
    <2> HIDE DEF s
    <2>5. /\ s \o cs \in Seq(S \cup T) /\ Len(s \o cs) = Len(s) + Len(cs)
          /\ \A j \in 1 .. Len(s) + Len(cs) : (s \o cs)[j] = IF j <= Len(s) THEN s[j] ELSE cs[j - Len(s)]
      BY <2>4, ConcatProperties
    <2>6. /\ Len(s) \in Nat /\ Len(cs) \in Nat /\ DOMAIN s = 1 .. Len(s) /\ DOMAIN cs = 1 .. Len(cs)
          /\ DOMAIN (s \o cs) = 1 .. Len(s) + Len(cs)
      BY <2>4, <2>5, LenProperties
    <2>7. calls' = s \o cs
      BY DEF s
    <2>8. ASSUME NEW j \in 1 .. Len(s) + Len(cs), calls'[j].op = "save" PROVE j \in DOMAIN s /\ s[j].op = "save"
      <3>1. CASE j <= Len(s)
        BY <2>5, <2>6, <2>7, <2>8, <3>1
      <3>2. CASE ~(j <= Len(s))
        <4>1. j - Len(s) \in DOMAIN cs /\ calls'[j] = cs[j - Len(s)]
          BY <2>5, <2>6, <2>7, <3>2
        <4> QED BY <2>8, <4>1 DEF Elems
      <3> QED BY <3>1, <3>2
    <2> QED BY <2>1, <2>6, <2>7, <2>8 DEF OneSave
  <1>6. CallsSafe'
    BY <1>2, <1>5 DEF CallsSafe
  <1>7. WorkStored'
    BY DEF WorkStored
  <1> QED BY <1>3, <1>4, <1>6, <1>7 DEF MarkupInv, Guarded, WorkSafe, OnCanvas

\* The drawing changes while no editor is mounted.
Unheld == ~page.ed.ready /\ page'.ed = page.ed /\ page'.mount = page.mount

LEMMA LoadTakenInv ==
  ASSUME MarkupInv, NEW i \in DOMAIN calls, calls[i].op \in {"source", "layer", "fresh"},
         NEW cs, IsSequence(cs), calls' = Others(i) \o cs, UNCHANGED server, \A j, k \in DOMAIN cs : j = k,
         \A c \in Elems(cs) : MarkupCallOK(c) /\ c.op = "layer" /\ c.reply = Absent,
         MarkupPageOK(page'), Guarded(page'), page.risky => page'.risky, GoesOn \/ Left \/ Unheld,
         ~page'.risky /\ ~server.others => (UpToDate(page.layer) /\ EditorStored(page.ed, page.source))'
  PROVE  MarkupInv'
  <1>1. IsSequence(calls) /\ MarkupPageOK(page) /\ \A c \in Elems(calls) : OfMount(c, page)
    BY DEF MarkupInv, MarkupTyped
  <1>2. /\ Elems(Others(i)) \subseteq Elems(calls) /\ IsSequence(Others(i))
        /\ Elems(calls) \subseteq Elems(Others(i)) \cup {calls[i]}
    BY <1>1, Remaining
  <1>3. ASSUME NEW c \in Elems(Others(i)) PROVE OfMount(c, page') /\ (~page'.risky => CallSafe(c, page'))
    <2>1. CASE GoesOn \/ Left
      BY <1>2, <2>1, CallsGoOn DEF GoesOn
    <2>2. CASE Unheld
      <3>1. OfMount(c, page) /\ page.ed.state = "saved" /\ (~page'.risky => CallSafe(c, page))
        BY <1>1, <1>2, <2>2 DEF Unheld, MarkupPageOK, EditorOK, MarkupInv, CallsSafe
      <3> QED BY <2>2, <3>1 DEF Unheld, OfMount, CallSafe
    <2> QED BY <2>1, <2>2
  <1>4. ASSUME NEW c \in Elems(cs) PROVE OfMount(c, page') /\ CallSafe(c, page') /\ c.op # "save"
    BY DEF OfMount, CallSafe
  <1>5. page'.ed.state = "saving" => \E c \in Elems(Others(i)) : c.op = "save" /\ c.args.mount = page'.mount
    <2> SUFFICES ASSUME page'.ed.state = "saving" PROVE page.ed.state = "saving" /\ page'.mount = page.mount
      BY <1>2 DEF MarkupInv, EditorWaits, Awaits
    <2> QED BY UnmountedOK DEF GoesOn, Stays, Left, Unheld
  <1>6. page'.ed.busy => \E c \in Elems(Others(i)) \cup Elems(cs) : c.op = "thread" /\ c.args.mount = page'.mount
    <2> SUFFICES ASSUME page'.ed.busy PROVE page.ed.busy /\ page'.mount = page.mount
      BY <1>2 DEF MarkupInv, EditorWaits, Awaits
    <2> QED BY UnmountedOK DEF GoesOn, Stays, Left, Unheld
  <1>7. IsSequence(calls') /\ Elems(calls') = Elems(Others(i)) \cup Elems(cs)
    BY <1>2, Joined
  <1>8. ASSUME ~page'.risky, ~server.others, NEW c \in Elems(calls') PROVE CallStored(c)'
    <2>1. CASE c \in Elems(Others(i))
      <3>1. CallStored(c)
        BY <1>2, <1>8, <2>1 DEF MarkupInv, WorkStored
      <3> QED BY <1>7, <3>1, DueStays
    <2>2. CASE c \in Elems(cs)
      BY <2>2 DEF CallStored, HasLayer
    <2> QED BY <1>7, <1>8, <2>1, <2>2
  <1> QED BY <1>3, <1>4, <1>5, <1>6, <1>8, TakenInv

LEMMA TakenAlone ==
  ASSUME IsSequence(calls), NEW i \in DOMAIN calls
  PROVE  Others(i) \o <<>> = Others(i) /\ IsSequence(<<>>) /\ Elems(<<>>) = {} /\ \A j, k \in DOMAIN <<>> : j = k
  <1>1. PICK S : Others(i) \in Seq(S)
    BY Remaining DEF IsSequence
  <1>2. Others(i) \o <<>> = Others(i)
    BY <1>1, ConcatEmptySeq
  <1> QED BY <1>2, Few

\* Nothing stored changes with the page.
LEMMA StoredStays ==
  ASSUME MarkupInv, NEW i \in DOMAIN calls, UNCHANGED server, Elems(Others(i)) \subseteq Elems(calls'),
         calls[i].op # "save" \/ calls[i].reply \in {Absent, Conflict},
         UpToDate(page'.layer), EditorStored(page'.ed, page'.source)
  PROVE  (UpToDate(page.layer) /\ EditorStored(page.ed, page.source))'
  <1>1. \A l : UpToDate(l) => UpToDate(l)'
    BY DueStays
  <1>2. \A e, d : EditorStored(e, d) => EditorStored(e, d)'
    BY DEF EditorStored, CanvasOf
  <1>3. UpToDate(page.layer)'
    BY <1>1 DEF UpToDate, CanvasOf, Due
  <1>4. EditorStored(page.ed, page.source)'
    BY <1>2 DEF EditorStored, CanvasOf
  <1> QED BY <1>3, <1>4

\* An answer that brings a layer, and what the page has then.
LEMMA LayerTaken ==
  ASSUME MarkupInv, NEW STATE l, l \in Layers, page' = LayerChange(page, l)
  PROVE  /\ MarkupPageOK(page') /\ Guarded(page') /\ (page.risky => page'.risky) /\ GoesOn /\ page'.layer = l
         /\ ~page'.risky /\ ~server.others => EditorStored(page'.ed, page'.source)
  <1>1. MarkupPageOK(page) /\ Guarded(page) /\ l # Absent
    BY MarkupAssumption DEF MarkupInv, MarkupTyped
  <1>2. /\ MarkupPageOK(page') /\ SameMount(page, page') /\ page'.layer = l
        /\ page'.ed.ready = page.ed.ready /\ page'.ed.busy = page.ed.busy
        /\ (page'.ed.state = "saving" => page.ed.state = "saving")
        /\ (page.risky => page'.risky) /\ Guarded(page')
        /\ ~page'.risky =>
              /\ page'.ed.loaded = page.ed.loaded /\ page'.ed.state = page.ed.state /\ page'.ed.saved = page.ed.saved
              /\ page'.ed.canvas.marks = page.ed.canvas.marks /\ Serialize(page'.ed) = Serialize(page.ed)
    BY <1>1, LayerChangeOK
  <1>3. GoesOn
    BY <1>2 DEF GoesOn, Stays, SameMount
  <1>4. ASSUME ~page'.risky, ~server.others PROVE EditorStored(page'.ed, page'.source)
    <2>1. EditorStored(page.ed, page.source)
      BY <1>2, <1>4 DEF MarkupInv, WorkStored
    <2> QED BY <1>2, <1>4, <2>1 DEF EditorStored, SameMount
  <1> QED BY <1>2, <1>3, <1>4

LEMMA ShowDrawingOK ==
  ASSUME MarkupInv, NEW d \in Drawings, page' = ShowDrawing(page, d)
  PROVE  /\ MarkupPageOK(page') /\ Guarded(page') /\ (page.risky => page'.risky) /\ (GoesOn \/ Left \/ Unheld)
         /\ page'.layer = page.layer
         /\ ~page'.risky /\ ~server.others => EditorStored(page'.ed, page'.source)
  <1>1. MarkupPageOK(page) /\ Guarded(page)
    BY DEF MarkupInv, MarkupTyped
  <1>2. CASE d = page.source
    <2>1. page' = page
      BY <1>2 DEF ShowDrawing
    <2> QED BY <1>1, <2>1 DEF GoesOn, Stays, MarkupInv, WorkStored
  <1>3. CASE d # page.source /\ page.shown
    <2> DEFINE q == Leave(page)
    <2>1. page' = [q EXCEPT !.source = d]
      BY <1>3 DEF ShowDrawing
    <2>2. /\ MarkupPageOK(q) /\ q.ed = Unmounted /\ q.mount = page.mount + 1 /\ (page.risky => q.risky)
          /\ (page.ed.state = "saving" => q.risky) /\ q.layer = page.layer /\ Guarded(q)
      BY <1>1, LeaveOK
    <2> HIDE DEF q
    <2>3. /\ DOMAIN page' = MarkupFields /\ page'.ed = Unmounted /\ page'.at = q.at /\ page'.uses = q.uses
          /\ page'.url = q.url /\ page'.source = d /\ page'.layer = q.layer /\ page'.risky = q.risky
          /\ page'.shown = q.shown /\ page'.mount = q.mount /\ page'.draft = q.draft /\ page'.want = q.want
      BY <2>1, <2>2 DEF MarkupPageOK, MarkupFields
    <2>4. MarkupPageOK(page')
      BY <2>2, <2>3, UnmountedOK DEF MarkupPageOK
    <2>5. Guarded(page')
      BY <2>2, <2>3, <2>4, UnmountedOK, ElsewhereOK
    <2>6. Left /\ EditorStored(page'.ed, page'.source)
      BY <2>2, <2>3, UnmountedOK DEF Left, EditorStored
    <2> QED BY <2>2, <2>3, <2>4, <2>5, <2>6
  <1>4. CASE d # page.source /\ ~page.shown
    <2>1. page' = [page EXCEPT !.source = d]
      BY <1>4 DEF ShowDrawing
    <2>2. /\ DOMAIN page' = MarkupFields /\ page'.ed = page.ed /\ page'.at = page.at /\ page'.uses = page.uses
          /\ page'.url = page.url /\ page'.source = d /\ page'.layer = page.layer /\ page'.risky = page.risky
          /\ page'.shown = page.shown /\ page'.mount = page.mount /\ page'.draft = page.draft /\ page'.want = page.want
      BY <1>1, <2>1 DEF MarkupPageOK, MarkupFields
    <2>3. MarkupPageOK(page') /\ ~page.ed.ready
      BY <1>1, <1>4, <2>2 DEF MarkupPageOK
    <2>4. Guarded(page')
      BY <1>1, <2>2, <2>3, ElsewhereOK
    <2>5. Unheld /\ EditorStored(page'.ed, page'.source)
      BY <1>1, <2>2, <2>3 DEF Unheld, EditorStored, MarkupPageOK, EditorOK
    <2> QED BY <2>2, <2>3, <2>4, <2>5
  <1> QED BY <1>2, <1>3, <1>4

LEMMA DrawingAnswerInv == ASSUME MarkupInv, DrawingAnswer PROVE MarkupInv'
  <1>1. PICK i \in DOMAIN calls :
          /\ IsAnswered(i, "source") \/ IsAnswered(i, "layer")
          /\ LET stopped == calls[i].args.canceled IN
             /\ Show(CASE stopped -> page
                       [] ~stopped /\ Failed(i) -> [LayerChange(page, Absent) EXCEPT !.risky = TRUE]
                       [] ~stopped /\ ~Failed(i) /\ calls[i].op = "source" -> ShowDrawing(page, calls[i].reply)
                       [] ~stopped /\ ~Failed(i) /\ calls[i].op = "layer"  -> LayerChange(page, calls[i].reply))
             /\ TakeAndSend(i, IF stopped \/ Failed(i) \/ calls[i].op = "layer" THEN <<>>
                               ELSE <<Call("layer", [of |-> calls[i].reply, canceled |-> FALSE])>>)
    BY DEF DrawingAnswer
  <1> DEFINE c == calls[i]
             stopped == c.args.canceled
             new == Call("layer", [of |-> c.reply, canceled |-> FALSE])
             cs == IF stopped \/ Failed(i) \/ c.op = "layer" THEN <<>> ELSE <<new>>
  <1>2. /\ UNCHANGED server /\ calls' = Others(i) \o cs
        /\ page' = CASE stopped -> page
                     [] ~stopped /\ Failed(i) -> [LayerChange(page, Absent) EXCEPT !.risky = TRUE]
                     [] ~stopped /\ ~Failed(i) /\ c.op = "source" -> ShowDrawing(page, c.reply)
                     [] ~stopped /\ ~Failed(i) /\ c.op = "layer"  -> LayerChange(page, c.reply)
    BY <1>1 DEF DrawingAnswer, Show, TakeAndSend
  <1>3. /\ c \in Elems(calls) /\ MarkupCallOK(c) /\ c.reply # Absent /\ c.op \in {"source", "layer"}
        /\ IsSequence(calls) /\ MarkupPageOK(page) /\ Guarded(page) /\ stopped \in BOOLEAN
    BY <1>1 DEF MarkupInv, MarkupTyped, Elems, IsAnswered, MarkupCallOK
  <1>4. /\ IsSequence(cs) /\ (\A j, k \in DOMAIN cs : j = k)
        /\ \A x \in Elems(cs) : MarkupCallOK(x) /\ x.op = "layer" /\ x.reply = Absent
    <2>1. CASE cs = <<>>
      <3> HIDE DEF cs
      <3> QED BY <1>3, <2>1, TakenAlone
    <2>2. CASE cs = <<new>> /\ ~Failed(i) /\ c.op = "source"
      <3>1. MarkupCallOK(new) /\ new.op = "layer" /\ new.reply = Absent
        BY <1>3, <2>2 DEF MarkupCallOK, Call, CallFields, HasLayer, Failed
      <3>2. \A j, k \in DOMAIN <<new>> : j = k
        <4> HIDE DEF new
        <4>1. <<new>> \in Seq({new}) /\ Len(<<new>>) = 1
          OBVIOUS
        <4>2. DOMAIN <<new>> = 1 .. 1
          BY <4>1, LenProperties
        <4> QED BY <4>2
      <3> HIDE DEF cs, new
      <3> QED BY <2>2, <3>1, <3>2, Few
    <2> QED BY <1>3, <2>1, <2>2
  <1>5. Elems(Others(i)) \subseteq Elems(calls')
    BY <1>2, <1>3, <1>4, Remaining, Joined
  <1>6. ASSUME UpToDate(page'.layer), EditorStored(page'.ed, page'.source)
        PROVE  (UpToDate(page.layer) /\ EditorStored(page.ed, page.source))'
    BY <1>2, <1>3, <1>5, <1>6, StoredStays
  <1>7. CASE stopped
    <2>1. page' = page
      BY <1>2, <1>7
    <2>2. GoesOn
      BY <2>1 DEF GoesOn, Stays
    <2>3. ~page'.risky /\ ~server.others => UpToDate(page'.layer) /\ EditorStored(page'.ed, page'.source)
      BY <2>1 DEF MarkupInv, WorkStored
    <2> HIDE DEF c, stopped, cs
    <2> QED BY <1>2, <1>3, <1>4, <1>6, <2>1, <2>2, <2>3, LoadTakenInv DEF c
  <1>8. CASE ~stopped /\ Failed(i)
    <2> DEFINE q == LayerChange(page, Absent)
    <2>1. page' = [q EXCEPT !.risky = TRUE]
      BY <1>2, <1>8
    <2>2. /\ MarkupPageOK(q) /\ SameMount(page, q) /\ q.ed.ready = page.ed.ready /\ q.ed.busy = page.ed.busy
          /\ (q.ed.state = "saving" => page.ed.state = "saving")
      BY <1>3, LayerChangeOK
    <2> HIDE DEF q
    <2>3. /\ DOMAIN page' = MarkupFields /\ page'.risky = TRUE /\ \A f \in MarkupFields \ {"risky"} : page'[f] = q[f]
      BY <2>1, <2>2 DEF MarkupPageOK, MarkupFields
    <2>4. /\ page'.at = q.at /\ page'.uses = q.uses /\ page'.url = q.url /\ page'.source = q.source
          /\ page'.layer = q.layer /\ page'.draft = q.draft /\ page'.shown = q.shown /\ page'.mount = q.mount
          /\ page'.ed = q.ed /\ page'.want = q.want
      BY <2>3 DEF MarkupFields
    <2>5. MarkupPageOK(page')
      BY <2>2, <2>3, <2>4 DEF MarkupPageOK
    <2>6. GoesOn /\ Guarded(page')
      BY <2>2, <2>3, <2>4 DEF GoesOn, Stays, SameMount, Guarded
    <2> HIDE DEF c, stopped, cs
    <2> QED BY <1>2, <1>3, <1>4, <2>3, <2>5, <2>6, LoadTakenInv DEF c
  <1>9. CASE ~stopped /\ ~Failed(i) /\ c.op = "source"
    <2>1. page' = ShowDrawing(page, c.reply) /\ c.reply \in Drawings
      BY <1>2, <1>3, <1>9 DEF MarkupCallOK, Failed
    <2> HIDE DEF c, stopped, cs
    <2>2. /\ MarkupPageOK(page') /\ Guarded(page') /\ (page.risky => page'.risky) /\ (GoesOn \/ Left \/ Unheld)
          /\ page'.layer = page.layer
          /\ ~page'.risky /\ ~server.others => EditorStored(page'.ed, page'.source)
      BY <2>1, ShowDrawingOK
    <2>3. ~page'.risky /\ ~server.others => UpToDate(page'.layer)
      BY <2>2 DEF MarkupInv, WorkStored
    <2> QED BY <1>2, <1>3, <1>4, <1>6, <2>2, <2>3, LoadTakenInv DEF c
  <1>10. CASE ~stopped /\ ~Failed(i) /\ c.op = "layer"
    <2>1. page' = LayerChange(page, c.reply) /\ c.reply \in Layers
      BY <1>2, <1>3, <1>10 DEF MarkupCallOK, Failed
    <2>2. Counts(c) /\ HasLayer(c)
      BY <1>3, <1>10, <2>1, MarkupAssumption DEF Counts, HasLayer, Failed
    <2> HIDE DEF c, stopped, cs
    <2>3. /\ MarkupPageOK(page') /\ Guarded(page') /\ (page.risky => page'.risky) /\ GoesOn /\ page'.layer = c.reply
          /\ ~page'.risky /\ ~server.others => EditorStored(page'.ed, page'.source)
      BY <2>1, LayerTaken DEF c
    <2>4. ~page'.risky /\ ~server.others => UpToDate(page'.layer)
      BY <1>3, <2>2, <2>3 DEF MarkupInv, WorkStored, CallStored
    <2> QED BY <1>2, <1>3, <1>4, <1>6, <2>3, <2>4, LoadTakenInv DEF c
  <1> QED BY <1>3, <1>7, <1>8, <1>9, <1>10

\* The fields of a page of which some were set.
LEMMA PageSet ==
  ASSUME NEW p, DOMAIN p = MarkupFields, NEW e, NEW draft, NEW want, NEW risky
  PROVE  LET q == [p EXCEPT !.ed = e, !.draft = draft, !.want = want, !.risky = risky] IN
         /\ DOMAIN q = MarkupFields /\ q.ed = e /\ q.draft = draft /\ q.want = want /\ q.risky = risky
         /\ q.at = p.at /\ q.uses = p.uses /\ q.url = p.url /\ q.source = p.source /\ q.layer = p.layer
         /\ q.shown = p.shown /\ q.mount = p.mount
  BY DEF MarkupFields

LEMMA ReloadAnswerInv == ASSUME MarkupInv, ReloadAnswer PROVE MarkupInv'
  <1> DEFINE e(l) == [page.ed EXCEPT !.base = l.version, !.of = l.of, !.canvas = l.canvas, !.state = "saved", !.prompt = {}]
             f(l) == [e(l) EXCEPT !.saved = Serialize(e(l)), !.history = <<Serialize(e(l))>>, !.index = 1]
             risky == page.risky \/ page.ed.state # "conflict"
             q(l) == [page EXCEPT !.ed = f(l), !.draft = Absent, !.want = Absent, !.risky = risky]
  <1>1. PICK i \in DOMAIN calls :
          /\ IsAnswered(i, "fresh")
          /\ page' = IF Failed(i) \/ ~Mine(i) \/ ~page.ed.ready THEN page ELSE LayerChange(q(calls[i].reply), calls[i].reply)
          /\ calls' = Others(i)
    BY DEF ReloadAnswer, Show, Take
  <1> DEFINE c == calls[i]
             l == c.reply
  <1>2. /\ UNCHANGED server /\ c \in Elems(calls) /\ MarkupCallOK(c) /\ OfMount(c, page) /\ c.reply # Absent /\ c.op = "fresh"
        /\ IsSequence(calls) /\ MarkupPageOK(page) /\ Guarded(page) /\ EditorOK(page.ed)
    BY <1>1 DEF ReloadAnswer, MarkupInv, MarkupTyped, MarkupPageOK, Elems, IsAnswered
  <1>3. /\ calls' = Others(i) \o <<>> /\ IsSequence(<<>>) /\ Elems(<<>>) = {} /\ \A j, k \in DOMAIN <<>> : j = k
    BY <1>1, <1>2, TakenAlone
  <1>4. ASSUME UpToDate(page'.layer), EditorStored(page'.ed, page'.source)
        PROVE  (UpToDate(page.layer) /\ EditorStored(page.ed, page.source))'
    BY <1>1, <1>2, <1>4, StoredStays
  <1>5. CASE page' = page
    <2>1. GoesOn
      BY <1>5 DEF GoesOn, Stays
    <2>2. ~page'.risky /\ ~server.others => UpToDate(page'.layer) /\ EditorStored(page'.ed, page'.source)
      BY <1>5 DEF MarkupInv, WorkStored
    <2> QED BY <1>2, <1>3, <1>4, <1>5, <2>1, <2>2, LoadTakenInv
  <1>6. CASE ~Failed(i) /\ Mine(i) /\ page.ed.ready /\ page' = LayerChange(q(l), l)
    <2>1. /\ l \in Layers /\ l.of = page.source /\ l.version \in Nat /\ l.canvas \in Bright /\ l.canvas \in Canvases
          /\ l.canvas.dark = {} /\ l # Absent /\ Counts(c) /\ HasLayer(c)
      <3>1. l \in Layers /\ l # Absent
        BY <1>2, <1>6 DEF MarkupCallOK, Failed
      <3>2. Counts(c) /\ HasLayer(c)
        BY <1>2, <1>6, <3>1, MarkupAssumption DEF Counts, HasLayer, Failed
      <3>3. l.of = page.source
        BY <1>2, <1>6, <3>2 DEF MarkupCallOK, Mine, OfMount
      <3> QED BY <3>1, <3>2, <3>3 DEF Layers, Bright, Canvases
    <2> HIDE DEF c, l
    <2>2. /\ EditorOK(e(l)) /\ e(l).ready /\ e(l).loaded = page.ed.loaded /\ e(l).of = l.of /\ e(l).canvas = l.canvas
          /\ e(l).state = "saved" /\ e(l).busy = page.ed.busy
      <3>1. DOMAIN page.ed = EditorFields /\ page.ed.ready
        BY <1>2, <1>6 DEF EditorOK
      <3> DEFINE x == e(l)
      <3>2. /\ DOMAIN x = EditorFields /\ x.base = l.version /\ x.of = l.of /\ x.canvas = l.canvas
            /\ x.state = "saved" /\ x.prompt = {} /\ x.ready = page.ed.ready /\ x.loaded = page.ed.loaded
            /\ x.busy = page.ed.busy /\ x.saved = page.ed.saved /\ x.history = page.ed.history
            /\ x.index = page.ed.index /\ x.hidden = page.ed.hidden
        BY <3>1 DEF EditorFields
      <3> HIDE DEF x
      <3>3. l.of \in Drawings
        BY <1>2, <2>1 DEF MarkupPageOK
      <3>4. EditorOK(x)
        BY <1>2, <2>1, <3>1, <3>2, <3>3 DEF EditorOK
      <3> QED BY <3>1, <3>2, <3>4 DEF x
    <2> DEFINE el == e(l)
               j == Serialize(el)
               fl == f(l)
               ql == q(l)
    <2>3. j = l.canvas /\ j \in Bright
      <3>1. j = Json(l.canvas.marks, {}) /\ j \in Bright
        BY <2>2, Serialized
      <3> QED BY <2>1, <3>1 DEF Bright, Json
    <2>4. fl = [el EXCEPT !.saved = j, !.history = <<j>>, !.index = 1]
      OBVIOUS
    <2>5. ql = [page EXCEPT !.ed = fl, !.draft = Absent, !.want = Absent, !.risky = risky]
      OBVIOUS
    <2>6. /\ EditorOK(el) /\ el.ready /\ el.loaded = page.ed.loaded /\ el.of = l.of /\ el.canvas = l.canvas
          /\ el.state = "saved" /\ el.busy = page.ed.busy
      BY <2>2
    <2>7. page' = LayerChange(ql, l)
      BY <1>6
    <2> HIDE DEF el, e, f, q, fl, ql
    <2>8. /\ EditorOK(fl) /\ fl.ready /\ fl.loaded = page.ed.loaded /\ fl.of = l.of /\ fl.canvas = l.canvas
          /\ fl.state = "saved" /\ fl.busy = page.ed.busy /\ fl.saved = l.canvas
      <3>1. <<j>> \in Seq(Bright) /\ Len(<<j>>) = 1 /\ 1 \in 0 .. 1
        BY <2>3
      <3> HIDE DEF j
      <3> QED BY <2>3, <2>4, <2>6, <3>1 DEF EditorOK, EditorFields
    <2>9. /\ DOMAIN ql = MarkupFields /\ ql.ed = fl /\ ql.draft = Absent /\ ql.want = Absent /\ ql.risky = risky
          /\ ql.at = page.at /\ ql.uses = page.uses /\ ql.url = page.url /\ ql.source = page.source
          /\ ql.layer = page.layer /\ ql.shown = page.shown /\ ql.mount = page.mount
      BY <1>2, <2>5, PageSet DEF MarkupPageOK
    <2>10. (page.risky => risky) /\ risky \in BOOLEAN /\ (~risky => page.ed.state = "conflict")
      BY <1>2 DEF MarkupPageOK
    <2> HIDE DEF risky, j
    <2>11. MarkupPageOK(ql)
      BY <1>2, <1>6, <2>8, <2>9, <2>10 DEF MarkupPageOK
    <2>12. Guarded(ql)
      <3>1. ASSUME ~risky PROVE WorkSafe(ql)
        <4>1. WorkSafe(page) /\ page.ed.loaded /\ fl.ready = fl.loaded
          BY <1>2, <1>6, <2>8, <2>10, <3>1 DEF Guarded, WorkSafe, EditorOK
        <4> QED BY <2>1, <2>8, <2>9, <4>1 DEF WorkSafe, OnCanvas
      <3> QED BY <2>9, <3>1 DEF Guarded
    <2>13. /\ MarkupPageOK(page') /\ SameMount(ql, page') /\ page'.layer = l
           /\ page'.ed.ready = ql.ed.ready /\ page'.ed.busy = ql.ed.busy
           /\ (page'.ed.state = "saving" => ql.ed.state = "saving")
           /\ (ql.risky => page'.risky) /\ Guarded(page')
           /\ ~page'.risky =>
                 /\ page'.ed.loaded = ql.ed.loaded /\ page'.ed.state = ql.ed.state /\ page'.ed.saved = ql.ed.saved
                 /\ page'.ed.canvas.marks = ql.ed.canvas.marks /\ Serialize(page'.ed) = Serialize(ql.ed)
      BY <2>1, <2>7, <2>11, <2>12, LayerChangeOK
    <2>14. GoesOn /\ (page.risky => page'.risky)
      BY <1>2, <1>6, <2>8, <2>9, <2>10, <2>13 DEF GoesOn, Stays, SameMount, EditorOK
    <2>15. ASSUME ~page'.risky, ~server.others PROVE UpToDate(page'.layer) /\ EditorStored(page'.ed, page'.source)
      <3>1. UpToDate(l) /\ page.ed.state = "conflict" /\ ~page.risky
        BY <1>2, <2>1, <2>9, <2>10, <2>13, <2>15 DEF MarkupInv, WorkStored, CallStored, l
      <3>2. ~Due(l.of)
        BY <3>1 DEF MarkupInv, CallsSafe, CallSafe, Due
      <3>3. l.canvas = CanvasOf(page'.source) /\ page'.source = page.source
        BY <2>1, <2>9, <2>13, <3>1, <3>2 DEF UpToDate, SameMount
      <3>4. Serialize(ql.ed) = l.canvas
        <4>1. Serialize(fl) = Json(l.canvas.marks, {})
          BY <2>8, Serialized
        <4> QED BY <2>1, <2>9, <4>1 DEF Bright, Json
      <3> QED BY <2>8, <2>9, <2>13, <2>15, <3>1, <3>3, <3>4 DEF EditorStored
    <2> QED BY <1>2, <1>3, <1>4, <2>13, <2>14, <2>15, LoadTakenInv DEF c
  <1> QED BY <1>1, <1>5, <1>6

\* The answer to a request about a review.
LEMMA ReviewTakenInv ==
  ASSUME MarkupInv, NEW i \in DOMAIN calls, calls[i].op = "thread", Take(i), UNCHANGED server,
         MarkupPageOK(page'), Guarded(page'), page.risky => page'.risky, Stays,
         page'.ed.state = "saving" => page.ed.state = "saving", page'.ed.busy => page.ed.busy /\ ~Mine(i),
         ~page'.risky /\ ~server.others => UpToDate(page'.layer) /\ EditorStored(page'.ed, page'.source)
  PROVE  MarkupInv'
  <1>1. IsSequence(calls) /\ MarkupPageOK(page) /\ \A c \in Elems(calls) : OfMount(c, page)
    BY DEF MarkupInv, MarkupTyped
  <1>2. /\ Elems(Others(i)) \subseteq Elems(calls) /\ Elems(calls) \subseteq Elems(Others(i)) \cup {calls[i]}
    BY <1>1, Remaining
  <1>3. /\ calls' = Others(i) \o <<>> /\ IsSequence(<<>>) /\ Elems(<<>>) = {} /\ \A j, k \in DOMAIN <<>> : j = k
    BY <1>1, TakenAlone DEF Take
  <1>4. Elems(calls') = Elems(Others(i))
    BY DEF Take
  <1>5. ASSUME NEW c \in Elems(Others(i)) PROVE OfMount(c, page') /\ (~page'.risky => CallSafe(c, page'))
    BY <1>2, CallsGoOn
  <1>6. page'.ed.state = "saving" => \E c \in Elems(Others(i)) : c.op = "save" /\ c.args.mount = page'.mount
    BY <1>2 DEF Stays, MarkupInv, EditorWaits, Awaits
  <1>7. ASSUME page'.ed.busy PROVE \E c \in Elems(Others(i)) : c.op = "thread" /\ c.args.mount = page'.mount
    <2>1. PICK c \in Elems(calls) : c.op = "thread" /\ c.args.mount = page.mount
      BY <1>7 DEF MarkupInv, EditorWaits, Awaits
    <2>2. page.shown
      BY <1>1, <1>7 DEF MarkupPageOK, EditorOK
    <2>3. c # calls[i]
      BY <1>7, <2>1, <2>2 DEF Mine
    <2> QED BY <1>2, <2>1, <2>3 DEF Stays
  <1>8. ASSUME ~page'.risky, ~server.others
        PROVE  (UpToDate(page.layer) /\ EditorStored(page.ed, page.source) /\ \A c \in Elems(calls) : CallStored(c))'
    <2>1. (UpToDate(page.layer) /\ EditorStored(page.ed, page.source))'
      BY <1>4, <1>8, StoredStays
    <2>2. ASSUME NEW c \in Elems(calls') PROVE CallStored(c)'
      <3>1. CallStored(c)
        BY <1>2, <1>4, <1>8 DEF MarkupInv, WorkStored
      <3> QED BY <1>4, <3>1, DueStays
    <2> QED BY <2>1, <2>2
  <1> QED BY <1>3, <1>5, <1>6, <1>7, <1>8, TakenInv

\* An editor of which nothing that is saved or shown has changed.
LEMMA EditorSet ==
  ASSUME MarkupInv, NEW x, EditorOK(x), x.ready = page.ed.ready, x.loaded = page.ed.loaded, x.of = page.ed.of,
         x.saved = page.ed.saved, x.canvas = page.ed.canvas, x.state = page.ed.state \/ (page.risky /\ x.state = "conflict")
  PROVE  LET q == [page EXCEPT !.ed = x] IN
         /\ MarkupPageOK(q) /\ Guarded(q) /\ SameMount(page, q) /\ q.risky = page.risky /\ q.layer = page.layer /\ q.ed = x
         /\ ~page.risky /\ ~server.others => EditorStored(q.ed, q.source)
  <1> DEFINE q == [page EXCEPT !.ed = x]
  <1>1. MarkupPageOK(page) /\ Guarded(page) /\ EditorOK(page.ed)
    BY DEF MarkupInv, MarkupTyped, MarkupPageOK
  <1>2. /\ DOMAIN q = MarkupFields /\ q.ed = x /\ q.at = page.at
        /\ q.uses = page.uses /\ q.url = page.url /\ q.source = page.source /\ q.layer = page.layer
        /\ q.risky = page.risky /\ q.shown = page.shown /\ q.mount = page.mount
        /\ q.draft = page.draft /\ q.want = page.want
    BY <1>1 DEF MarkupPageOK, MarkupFields
  <1> HIDE DEF q
  <1>3. MarkupPageOK(q)
    BY <1>1, <1>2 DEF MarkupPageOK
  <1>4. Guarded(q)
    BY <1>1, <1>2 DEF Guarded, WorkSafe, OnCanvas
  <1>5. ASSUME ~page.risky, ~server.others PROVE EditorStored(q.ed, q.source)
    <2>1. EditorStored(page.ed, page.source) /\ Serialize(x) = Serialize(page.ed)
      BY <1>1, <1>5, Serialized DEF MarkupInv, WorkStored
    <2> QED BY <1>2, <1>5, <2>1 DEF EditorStored
  <1> QED BY <1>1, <1>2, <1>3, <1>4, <1>5 DEF SameMount, MarkupPageOK, q

LEMMA ThreadAnswerInv == ASSUME MarkupInv, ThreadAnswer PROVE MarkupInv'
  <1> DEFINE done == [page.ed EXCEPT !.busy = FALSE]
             conflict == [done EXCEPT !.state = "conflict"]
             e(i) == LET r == calls[i].reply IN
                     IF calls[i].args.kind = "create" THEN CloseForm([done EXCEPT !.base = r.version])
                     ELSE [done EXCEPT !.base = r.version]
             p(i) == IF Mine(i) THEN [page EXCEPT !.ed = e(i)] ELSE [page EXCEPT !.risky = TRUE]
  <1>1. PICK i \in DOMAIN calls :
          /\ IsAnswered(i, "thread") /\ Take(i)
          /\ page' = IF Failed(i) THEN IF Mine(i) THEN [page EXCEPT !.ed = done] ELSE page
                     ELSE IF calls[i].reply = Conflict
                     THEN IF Mine(i) THEN [page EXCEPT !.ed = conflict] ELSE page
                     ELSE LayerChange(p(i), calls[i].reply)
    BY DEF ThreadAnswer, Show
  <1> DEFINE c == calls[i]
  <1>2. /\ UNCHANGED server /\ c \in Elems(calls) /\ MarkupCallOK(c) /\ OfMount(c, page) /\ c.reply # Absent /\ c.op = "thread"
        /\ IsSequence(calls) /\ MarkupPageOK(page) /\ Guarded(page) /\ EditorOK(page.ed) /\ DOMAIN page.ed = EditorFields
    BY <1>1 DEF ThreadAnswer, MarkupInv, MarkupTyped, MarkupPageOK, Elems, IsAnswered, EditorOK
  <1>3. Mine(i) => page.ed.ready
    BY <1>2 DEF Mine, OfMount
  <1>4. CASE page' = page /\ ~Mine(i)
    <2>1. ~page'.risky /\ ~server.others => UpToDate(page'.layer) /\ EditorStored(page'.ed, page'.source)
      BY <1>4 DEF MarkupInv, WorkStored
    <2> QED BY <1>1, <1>2, <1>4, <2>1, ReviewTakenInv DEF Stays
  <1>5. CASE Mine(i) /\ (page' = [page EXCEPT !.ed = done] \/ (page' = [page EXCEPT !.ed = conflict] /\ c.reply = Conflict))
    <2> DEFINE x == IF page' = [page EXCEPT !.ed = done] THEN done ELSE conflict
    <2>1. page' = [page EXCEPT !.ed = x]
      BY <1>5
    <2>2. x = done \/ (x = conflict /\ page.risky)
      BY <1>2, <1>5 DEF MarkupInv, CallsSafe, CallSafe
    <2>3. /\ EditorOK(x) /\ x.ready = page.ed.ready /\ x.loaded = page.ed.loaded /\ x.of = page.ed.of
          /\ x.saved = page.ed.saved /\ x.canvas = page.ed.canvas /\ x.busy = FALSE
          /\ x.state = page.ed.state \/ (page.risky /\ x.state = "conflict")
      <3>1. /\ DOMAIN x = EditorFields /\ x.busy = FALSE
            /\ x.state = page.ed.state \/ (page.risky /\ x.state = "conflict")
            /\ \A f \in EditorFields \ {"busy", "state"} : x[f] = page.ed[f]
        BY <1>2, <2>2 DEF EditorFields
      <3> HIDE DEF x
      <3>2. /\ x.ready = page.ed.ready /\ x.loaded = page.ed.loaded /\ x.of = page.ed.of
            /\ x.saved = page.ed.saved /\ x.canvas = page.ed.canvas /\ x.hidden = page.ed.hidden
            /\ x.history = page.ed.history /\ x.index = page.ed.index /\ x.base = page.ed.base
            /\ x.prompt = page.ed.prompt
        BY <3>1 DEF EditorFields
      <3>3. EditorOK(x)
        BY <1>2, <1>3, <1>5, <3>1, <3>2 DEF EditorOK
      <3> QED BY <3>1, <3>2, <3>3
    <2> HIDE DEF x
    <2>4. /\ MarkupPageOK(page') /\ Guarded(page') /\ SameMount(page, page') /\ page'.risky = page.risky
          /\ page'.layer = page.layer /\ page'.ed = x
          /\ ~page.risky /\ ~server.others => EditorStored(page'.ed, page'.source)
      BY <2>1, <2>3, EditorSet
    <2>5. Stays
      BY <2>3, <2>4 DEF Stays, SameMount
    <2>6. ~page'.risky /\ ~server.others => UpToDate(page'.layer)
      BY <2>4 DEF MarkupInv, WorkStored
    <2> QED BY <1>1, <1>2, <2>3, <2>4, <2>5, <2>6, ReviewTakenInv
  <1>6. CASE ~Failed(i) /\ c.reply # Conflict /\ page' = LayerChange(p(i), c.reply)
    <2>1. c.reply \in Layers /\ c.reply # Absent /\ Counts(c) /\ HasLayer(c) /\ c.reply.version \in Nat
      BY <1>2, <1>6 DEF MarkupCallOK, Failed, Counts, HasLayer, Layers
    <2> DEFINE q == p(i)
               x == e(i)
    <2>2. /\ MarkupPageOK(q) /\ Guarded(q) /\ SameMount(page, q) /\ q.layer = page.layer /\ (page.risky => q.risky)
          /\ q.ed.state = page.ed.state /\ q.ed.canvas = page.ed.canvas /\ q.ed.ready = page.ed.ready
          /\ (q.ed.busy => page.ed.busy /\ ~Mine(i))
          /\ ~q.risky /\ ~server.others => EditorStored(q.ed, q.source)
      <3>1. CASE Mine(i)
        <4>1. q = [page EXCEPT !.ed = x]
          BY <3>1
        <4>2. /\ DOMAIN x = EditorFields /\ x.busy = FALSE /\ x.base \in Nat /\ x.prompt \subseteq Marks
              /\ \A f \in EditorFields \ {"busy", "base", "prompt", "message"} : x[f] = page.ed[f]
          BY <1>2, <2>1 DEF EditorFields, CloseForm, EditorOK
        <4> HIDE DEF x, q
        <4>3. /\ x.ready = page.ed.ready /\ x.loaded = page.ed.loaded /\ x.of = page.ed.of /\ x.state = page.ed.state
              /\ x.saved = page.ed.saved /\ x.canvas = page.ed.canvas /\ x.hidden = page.ed.hidden
              /\ x.history = page.ed.history /\ x.index = page.ed.index
          BY <4>2 DEF EditorFields
        <4>4. EditorOK(x)
          BY <1>2, <1>3, <3>1, <4>2, <4>3 DEF EditorOK
        <4>5. /\ MarkupPageOK(q) /\ Guarded(q) /\ SameMount(page, q) /\ q.risky = page.risky
              /\ q.layer = page.layer /\ q.ed = x
              /\ ~page.risky /\ ~server.others => EditorStored(q.ed, q.source)
          BY <4>1, <4>3, <4>4, EditorSet
        <4> QED BY <4>2, <4>3, <4>5
      <3>2. CASE ~Mine(i)
        <4>1. q = [page EXCEPT !.risky = TRUE]
          BY <3>2
        <4> HIDE DEF q
        <4>2. /\ DOMAIN q = MarkupFields /\ q.ed = page.ed /\ q.at = page.at
              /\ q.uses = page.uses /\ q.url = page.url /\ q.source = page.source /\ q.layer = page.layer
              /\ q.risky = TRUE /\ q.shown = page.shown /\ q.mount = page.mount
              /\ q.draft = page.draft /\ q.want = page.want
          BY <1>2, <4>1 DEF MarkupPageOK, MarkupFields
        <4>3. MarkupPageOK(q) /\ Guarded(q)
          BY <1>2, <4>2 DEF MarkupPageOK, Guarded
        <4> QED BY <1>2, <3>2, <4>2, <4>3 DEF SameMount, MarkupPageOK
      <3> QED BY <3>1, <3>2
    <2>3. page' = LayerChange(q, c.reply)
      BY <1>6
    <2> HIDE DEF q, x, c
    <2>4. /\ MarkupPageOK(page') /\ SameMount(q, page') /\ page'.layer = c.reply
          /\ page'.ed.ready = q.ed.ready /\ page'.ed.busy = q.ed.busy
          /\ (page'.ed.state = "saving" => q.ed.state = "saving")
          /\ (q.risky => page'.risky) /\ Guarded(page')
          /\ ~page'.risky =>
                /\ page'.ed.loaded = q.ed.loaded /\ page'.ed.state = q.ed.state /\ page'.ed.saved = q.ed.saved
                /\ page'.ed.canvas.marks = q.ed.canvas.marks /\ Serialize(page'.ed) = Serialize(q.ed)
      BY <2>1, <2>2, <2>3, LayerChangeOK
    <2>5. Stays /\ (page.risky => page'.risky)
      BY <2>2, <2>4 DEF Stays, SameMount
    <2>6. ASSUME ~page'.risky, ~server.others PROVE UpToDate(page'.layer) /\ EditorStored(page'.ed, page'.source)
      <3>1. UpToDate(c.reply)
        BY <1>2, <2>1, <2>5, <2>6 DEF MarkupInv, WorkStored, CallStored
      <3>2. EditorStored(q.ed, q.source)
        BY <2>2, <2>4, <2>6
      <3> QED BY <2>4, <2>6, <3>1, <3>2 DEF EditorStored, SameMount
    <2> QED BY <1>1, <1>2, <2>2, <2>4, <2>5, <2>6, ReviewTakenInv DEF c
  <1> QED BY <1>1, <1>4, <1>5, <1>6

\* What remains when the answer to a save is taken, if the page goes on with its requests.
LEMMA SaveTaken ==
  ASSUME MarkupInv, NEW i \in DOMAIN calls, calls[i].op = "save", page.risky => page'.risky,
         page'.mount = page.mount, page'.source = page.source, page.ed.ready => page'.ed.ready
  PROVE  /\ \A c \in Elems(Others(i)) : OfMount(c, page') /\ (~page'.risky => CallSafe(c, page') /\ c.op # "save")
         /\ page.ed.state = "saving" /\ ~Mine(i) =>
              \E c \in Elems(Others(i)) : c.op = "save" /\ c.args.mount = page'.mount
         /\ page.ed.busy => \E c \in Elems(Others(i)) : c.op = "thread" /\ c.args.mount = page'.mount
  <1>1. IsSequence(calls) /\ MarkupPageOK(page) /\ \A c \in Elems(calls) : OfMount(c, page)
    BY DEF MarkupInv, MarkupTyped
  <1>2. /\ Elems(Others(i)) \subseteq Elems(calls) /\ Elems(calls) \subseteq Elems(Others(i)) \cup {calls[i]}
    BY <1>1, Remaining
  <1>3. ASSUME NEW c \in Elems(Others(i)) PROVE OfMount(c, page')
    BY <1>1, <1>2 DEF OfMount
  <1>4. ASSUME NEW c \in Elems(Others(i)), ~page'.risky PROVE CallSafe(c, page') /\ c.op # "save"
    <2>1. OneSave /\ CallSafe(c, page)
      BY <1>2, <1>4 DEF MarkupInv, CallsSafe
    <2>2. c.op # "save"
      BY <1>1, <2>1, OthersSaves
    <2> QED BY <2>1, <2>2 DEF CallSafe
  <1>5. ASSUME page.ed.state = "saving", ~Mine(i)
        PROVE  \E c \in Elems(Others(i)) : c.op = "save" /\ c.args.mount = page'.mount
    <2>1. PICK c \in Elems(calls) : c.op = "save" /\ c.args.mount = page.mount
      BY <1>5 DEF MarkupInv, EditorWaits, Awaits
    <2>2. page.shown
      BY <1>1, <1>5 DEF MarkupPageOK, EditorOK
    <2>3. c # calls[i]
      BY <1>5, <2>1, <2>2 DEF Mine
    <2> QED BY <1>2, <2>1, <2>3
  <1>6. page.ed.busy => \E c \in Elems(Others(i)) : c.op = "thread" /\ c.args.mount = page'.mount
    BY <1>2 DEF MarkupInv, EditorWaits, Awaits
  <1> QED BY <1>3, <1>4, <1>5, <1>6

\* The answer to a save that was not stored, or of which that is not known.
LEMMA RefusedInv ==
  ASSUME MarkupInv, NEW i \in DOMAIN calls, calls[i].op = "save", calls[i].reply \in {Failure, Conflict}, Take(i),
         UNCHANGED server, NEW refused \in {"dirty", "conflict"}, refused = "conflict" \/ Failed(i),
         page' = [page EXCEPT !.ed.state = IF Mine(i) THEN refused ELSE @, !.risky = @ \/ Failed(i) \/ ~Mine(i)]
  PROVE  MarkupInv'
  <1> DEFINE state == IF Mine(i) THEN refused ELSE page.ed.state
             risky == page.risky \/ Failed(i) \/ ~Mine(i)
             x == [page.ed EXCEPT !.state = state]
             c == calls[i]
  <1>1. /\ IsSequence(calls) /\ MarkupPageOK(page) /\ Guarded(page) /\ EditorOK(page.ed) /\ c \in Elems(calls)
        /\ OfMount(c, page) /\ page.risky \in BOOLEAN
    BY DEF MarkupInv, MarkupTyped, MarkupPageOK, Elems
  <1>2. page' = [page EXCEPT !.ed = x, !.risky = risky]
    BY <1>1 DEF MarkupPageOK, MarkupFields
  <1>3. /\ DOMAIN x = EditorFields /\ x.state = state /\ \A f \in EditorFields \ {"state"} : x[f] = page.ed[f]
    BY <1>1 DEF EditorOK, EditorFields
  <1>4. (page.risky => risky) /\ risky \in BOOLEAN /\ (~risky => ~Failed(i) /\ Mine(i) /\ state = "conflict")
    BY <1>1 DEF Mine, MarkupPageOK, Failed
  <1>5. Mine(i) => page.ed.ready
    BY <1>1 DEF Mine, OfMount
  <1>6. (state = "saving" => page.ed.state = "saving" /\ ~Mine(i)) /\ (~Mine(i) => state = page.ed.state)
        /\ state \in {"saved", "dirty", "saving", "conflict"}
    BY <1>1 DEF EditorOK
  <1> HIDE DEF x, risky, state
  <1>7. /\ x.ready = page.ed.ready /\ x.loaded = page.ed.loaded /\ x.of = page.ed.of /\ x.busy = page.ed.busy
        /\ x.saved = page.ed.saved /\ x.canvas = page.ed.canvas /\ x.hidden = page.ed.hidden
        /\ x.history = page.ed.history /\ x.index = page.ed.index /\ x.base = page.ed.base
        /\ x.prompt = page.ed.prompt
    BY <1>3 DEF EditorFields
  <1>8. EditorOK(x)
    BY <1>1, <1>3, <1>5, <1>6, <1>7 DEF EditorOK
  <1>9. /\ DOMAIN page' = MarkupFields /\ page'.ed = x /\ page'.at = page.at
        /\ page'.uses = page.uses /\ page'.url = page.url /\ page'.source = page.source /\ page'.layer = page.layer
        /\ page'.risky = risky /\ page'.shown = page.shown /\ page'.mount = page.mount
        /\ page'.draft = page.draft /\ page'.want = page.want
    BY <1>1, <1>2 DEF MarkupPageOK, MarkupFields
  <1>10. MarkupPageOK(page')
    BY <1>1, <1>4, <1>7, <1>8, <1>9 DEF MarkupPageOK
  <1>11. ~risky => page.ed.state = "saving"
    BY <1>1, <1>4 DEF MarkupInv, CallsSafe, CallSafe
  <1>12. Guarded(page')
    <2>1. ASSUME ~risky PROVE WorkSafe(page')
      <3>1. WorkSafe(page)
        BY <1>1, <1>4, <2>1 DEF Guarded
      <3> QED BY <1>3, <1>4, <1>7, <1>9, <1>11, <2>1, <3>1 DEF WorkSafe, OnCanvas
    <2> QED BY <1>9, <2>1 DEF Guarded
  <1>13. /\ calls' = Others(i) \o <<>> /\ IsSequence(<<>>) /\ Elems(<<>>) = {} /\ \A j, k \in DOMAIN <<>> : j = k
    BY <1>1, TakenAlone DEF Take
  <1>14. /\ \A d \in Elems(Others(i)) : OfMount(d, page') /\ (~page'.risky => CallSafe(d, page') /\ d.op # "save")
         /\ page.ed.state = "saving" /\ ~Mine(i) =>
              \E d \in Elems(Others(i)) : d.op = "save" /\ d.args.mount = page'.mount
         /\ page.ed.busy => \E d \in Elems(Others(i)) : d.op = "thread" /\ d.args.mount = page'.mount
    BY <1>4, <1>7, <1>9, SaveTaken
  <1>15. ASSUME ~page'.risky, ~server.others
         PROVE  (UpToDate(page.layer) /\ EditorStored(page.ed, page.source) /\ \A d \in Elems(calls) : CallStored(d))'
    <2>1. Elems(calls') = Elems(Others(i)) /\ c.reply = Conflict /\ Elems(Others(i)) \subseteq Elems(calls)
      BY <1>1, <1>4, <1>9, <1>15, Remaining DEF Take, Failed
    <2>2. UpToDate(page'.layer) /\ EditorStored(page'.ed, page'.source)
      BY <1>3, <1>4, <1>9, <1>15 DEF MarkupInv, WorkStored, EditorStored
    <2>3. (UpToDate(page.layer) /\ EditorStored(page.ed, page.source))'
      BY <2>1, <2>2, StoredStays
    <2>4. ASSUME NEW d \in Elems(calls') PROVE CallStored(d)'
      <3>1. CallStored(d)
        BY <1>4, <1>9, <1>15, <2>1 DEF MarkupInv, WorkStored
      <3> QED BY <2>1, <3>1, DueStays
    <2> QED BY <2>3, <2>4
  <1>16. /\ page'.ed.state = "saving" => \E d \in Elems(Others(i)) : d.op = "save" /\ d.args.mount = page'.mount
         /\ page'.ed.busy => \E d \in Elems(Others(i)) \cup Elems(<<>>) : d.op = "thread" /\ d.args.mount = page'.mount
    BY <1>3, <1>6, <1>7, <1>9, <1>14
  <1> QED BY <1>4, <1>9, <1>10, <1>12, <1>13, <1>14, <1>15, <1>16, TakenInv

\* The answer to a save that was stored.
LEMMA StoredInv ==
  ASSUME MarkupInv, NEW i \in DOMAIN calls, IsAnswered(i, "save"), calls[i].reply \notin {Failure, Conflict}, SaveAnswer,
         NEW STATE e,
         e = IF Mine(i) THEN [page.ed EXCEPT !.base = calls[i].reply.version, !.of = calls[i].reply.of,
                                             !.saved = calls[i].args.json, !.state = "saved",
                                             !.busy = @ \/ calls[i].args.then # {}]
             ELSE page.ed,
         page' = LayerChange([page EXCEPT !.ed = e, !.draft = Absent, !.want = SettledWant(i),
                                          !.risky = @ \/ ~Mine(i) \/ LayerIsDue], calls[i].reply),
         TakeAndSend(i, IF calls[i].args.then = {} THEN <<>>
                        ELSE <<ThreadCall("create", calls[i].args.of, calls[i].reply.of, calls[i].args.then, 0,
                                          calls[i].args.mount)>>)
  PROVE  MarkupInv'
  <1> DEFINE c == calls[i]
             a == c.args
             r == c.reply
             want == SettledWant(i)
             risky == page.risky \/ ~Mine(i) \/ LayerIsDue
             q == [page EXCEPT !.ed = e, !.draft = Absent, !.want = want, !.risky = risky]
             new == ThreadCall("create", a.of, r.of, a.then, 0, a.mount)
             cs == IF a.then = {} THEN <<>> ELSE <<new>>
  <1>1. /\ UNCHANGED server /\ c \in Elems(calls) /\ MarkupCallOK(c) /\ OfMount(c, page) /\ c.op = "save"
        /\ IsSequence(calls) /\ MarkupPageOK(page) /\ Guarded(page) /\ EditorOK(page.ed) /\ DOMAIN page.ed = EditorFields
        /\ page.risky \in BOOLEAN /\ r # Absent
    BY DEF SaveAnswer, MarkupInv, MarkupTyped, MarkupPageOK, Elems, IsAnswered, EditorOK
  <1>2. /\ r \in Layers /\ r.of = a.of /\ r.of \in Drawings /\ r.version \in Nat /\ HasLayer(c)
        /\ a.json \in Bright /\ r.canvas = a.json /\ a.then \subseteq Marks /\ a.mount \in Nat
    BY <1>1 DEF MarkupCallOK, HasLayer, Layers, OfMount
  <1>3. Mine(i) => page.ed.ready /\ page.source = a.of /\ a.mount = page.mount
    BY <1>1 DEF Mine, OfMount
  <1>4. calls' = Others(i) \o cs
    BY DEF TakeAndSend
  <1>5. page' = LayerChange(q, r) /\ (Mine(i) => e = [page.ed EXCEPT !.base = r.version, !.of = r.of, !.saved = a.json,
                                        !.state = "saved", !.busy = page.ed.busy \/ a.then # {}])
        /\ (~Mine(i) => e = page.ed)
    BY <1>1 DEF MarkupPageOK, MarkupFields
  <1>6. (page.risky => risky) /\ risky \in BOOLEAN /\ (~risky => Mine(i) /\ ~LayerIsDue)
    BY <1>1 DEF Mine, LayerIsDue, MarkupPageOK, Waiting
  <1>7. want \in {Absent, page.want} /\ (page.want = [of |-> a.of, marks |-> a.json.marks] => want = Absent)
    BY DEF SettledWant
  <1>8. /\ DOMAIN q = MarkupFields /\ q.ed = e /\ q.draft = Absent /\ q.want = want /\ q.risky = risky
        /\ q.at = page.at /\ q.uses = page.uses /\ q.url = page.url /\ q.source = page.source /\ q.layer = page.layer
        /\ q.shown = page.shown /\ q.mount = page.mount
    <2> HIDE DEF want, risky
    <2> QED BY <1>1, PageSet DEF MarkupPageOK
  <1>9. /\ IsSequence(cs) /\ (\A j, k \in DOMAIN cs : j = k) /\ Elems(cs) \subseteq {new}
        /\ a.then # {} => new \in Elems(cs)
    <2>1. CASE a.then = {}
      <3>1. cs = <<>>
        BY <2>1
      <3> HIDE DEF cs, a
      <3> QED BY <1>1, <2>1, <3>1, TakenAlone
    <2>2. CASE a.then # {}
      <3>1. cs = <<new>>
        BY <2>2
      <3> HIDE DEF cs, new
      <3>2. <<new>> \in Seq({new}) /\ Len(<<new>>) = 1
        OBVIOUS
      <3>3. DOMAIN <<new>> = 1 .. 1
        BY <3>2, LenProperties
      <3> QED BY <3>1, <3>3, Few
    <2> QED BY <2>1, <2>2
  <1>10. /\ MarkupCallOK(new) /\ new.reply = Absent /\ new.op = "thread" /\ new.args.mount = a.mount /\ new.args.of = a.of
         /\ new.args.fingerprint = new.args.of
    BY <1>1, <1>2 DEF ThreadCall, Call, CallFields, MarkupCallOK, HasLayer
  <1> HIDE DEF c, a, r, want, risky, q, new, cs
  <1>11. /\ EditorOK(e) /\ e.ready = page.ed.ready /\ e.loaded = page.ed.loaded /\ e.canvas = page.ed.canvas
         /\ (Mine(i) => e.of = r.of /\ e.saved = a.json /\ e.state = "saved" /\ e.busy = (page.ed.busy \/ a.then # {}))
    <2>1. CASE Mine(i)
      <3>1. /\ DOMAIN e = EditorFields /\ e.base = r.version /\ e.of = r.of /\ e.saved = a.json /\ e.state = "saved"
            /\ e.busy = (page.ed.busy \/ a.then # {}) /\ e.ready = page.ed.ready /\ e.loaded = page.ed.loaded
            /\ e.canvas = page.ed.canvas /\ e.hidden = page.ed.hidden /\ e.history = page.ed.history
            /\ e.index = page.ed.index /\ e.prompt = page.ed.prompt
        BY <1>1, <1>5, <2>1 DEF EditorFields
      <3>2. EditorOK(e)
        <4>1. e.busy \in BOOLEAN
          BY <3>1
        <4> QED BY <1>1, <1>2, <1>3, <2>1, <3>1, <4>1 DEF EditorOK
      <3> QED BY <3>1, <3>2
    <2>2. CASE ~Mine(i)
      BY <1>1, <1>5, <2>2
    <2> QED BY <2>1, <2>2
  <1>12. MarkupPageOK(q)
    BY <1>1, <1>6, <1>7, <1>8, <1>11 DEF MarkupPageOK
  <1>13. ASSUME ~risky
         PROVE  /\ OneSave /\ page.ed.state = "saving" /\ a.json.marks = page.ed.canvas.marks
                /\ \A d \in Elems(calls) : d.op \notin {"layer", "fresh", "thread"}
    <2>1. OneSave /\ CallSafe(c, page)
      BY <1>1, <1>6, <1>13 DEF MarkupInv, CallsSafe
    <2> QED BY <1>1, <1>6, <1>13, <2>1 DEF CallSafe, LayerIsDue, Waiting, Elems, a
  <1>14. Guarded(q)
    <2>1. ASSUME ~risky PROVE WorkSafe(q)
      <3>1. WorkSafe(page) /\ page.ed.loaded /\ page.ed.state = "saving" /\ Mine(i)
        BY <1>1, <1>3, <1>6, <1>13, <2>1 DEF Guarded, WorkSafe
      <3>2. page.want # Absent => page.want = [of |-> a.of, marks |-> a.json.marks]
        BY <1>1, <1>3, <1>13, <2>1, <3>1 DEF WorkSafe, OnCanvas, MarkupPageOK
      <3>3. want = Absent
        BY <1>7, <3>2
      <3>4. e.ready = e.loaded /\ e.of = page.source
        BY <1>2, <1>3, <1>11, <3>1 DEF WorkSafe
      <3> QED BY <1>8, <1>11, <3>1, <3>3, <3>4 DEF WorkSafe, OnCanvas
    <2> QED BY <1>8, <2>1 DEF Guarded
  <1>15. r # Absent
    BY <1>1
  <1>16. /\ MarkupPageOK(page') /\ SameMount(q, page') /\ page'.layer = r
         /\ page'.ed.ready = q.ed.ready /\ page'.ed.busy = q.ed.busy
         /\ (page'.ed.state = "saving" => q.ed.state = "saving")
         /\ (q.risky => page'.risky) /\ Guarded(page')
         /\ ~page'.risky =>
               /\ page'.ed.loaded = q.ed.loaded /\ page'.ed.state = q.ed.state /\ page'.ed.saved = q.ed.saved
               /\ page'.ed.canvas.marks = q.ed.canvas.marks /\ Serialize(page'.ed) = Serialize(q.ed)
    BY <1>2, <1>5, <1>12, <1>14, <1>15, LayerChangeOK
  <1>17. /\ (page.risky => page'.risky) /\ (~page'.risky => ~risky) /\ page'.mount = page.mount
         /\ page'.source = page.source /\ (page.ed.ready => page'.ed.ready)
    BY <1>6, <1>8, <1>11, <1>16 DEF SameMount
  <1>18. /\ \A d \in Elems(Others(i)) : OfMount(d, page') /\ (~page'.risky => CallSafe(d, page') /\ d.op # "save")
         /\ page.ed.state = "saving" /\ ~Mine(i) =>
              \E d \in Elems(Others(i)) : d.op = "save" /\ d.args.mount = page'.mount
         /\ page.ed.busy => \E d \in Elems(Others(i)) : d.op = "thread" /\ d.args.mount = page'.mount
    BY <1>1, <1>17, SaveTaken DEF c
  <1>19. ASSUME NEW d \in Elems(cs)
         PROVE  /\ MarkupCallOK(d) /\ OfMount(d, page') /\ (~page'.risky => CallSafe(d, page'))
                /\ d.reply = Absent /\ d.op # "save"
    <2>1. d = new
      BY <1>9
    <2>2. OfMount(new, page')
      <3>1. a.mount <= page.mount /\ (a.mount = page.mount => page.ed.ready /\ a.of = page.source)
        BY <1>1 DEF OfMount, a
      <3> QED BY <1>2, <1>10, <1>17, <3>1 DEF OfMount
    <2>3. CallSafe(new, page')
      BY <1>10, MarkupAssumption DEF CallSafe
    <2> QED BY <1>10, <2>1, <2>2, <2>3
  <1>20. page'.ed.state = "saving" => \E d \in Elems(Others(i)) : d.op = "save" /\ d.args.mount = page'.mount
    <2> SUFFICES ASSUME page'.ed.state = "saving"
                 PROVE  page.ed.state = "saving" /\ ~Mine(i)
      BY <1>18
    <2>1. e.state = "saving"
      BY <1>8, <1>16
    <2>2. ~Mine(i)
      BY <1>11, <2>1
    <2> QED BY <1>5, <2>1, <2>2
  <1>21. page'.ed.busy => \E d \in Elems(Others(i)) \cup Elems(cs) : d.op = "thread" /\ d.args.mount = page'.mount
    <2> SUFFICES ASSUME page'.ed.busy, ~page.ed.busy
                 PROVE  \E d \in Elems(cs) : d.op = "thread" /\ d.args.mount = page'.mount
      BY <1>18
    <2>1. Mine(i) /\ a.then # {}
      BY <1>5, <1>8, <1>11, <1>16
    <2> QED BY <1>3, <1>9, <1>10, <1>17, <2>1
  <1>22. ASSUME ~page'.risky, ~server.others
         PROVE  (UpToDate(page.layer) /\ EditorStored(page.ed, page.source) /\ \A d \in Elems(calls) : CallStored(d))'
    <2>1. Elems(calls') = Elems(Others(i)) \cup Elems(cs) /\ Elems(Others(i)) \subseteq Elems(calls)
      BY <1>1, <1>4, <1>9, Remaining, Joined
    <2>2. CanvasOf(a.of) = a.json
      BY <1>1, <1>2, <1>17, <1>22 DEF MarkupInv, WorkStored, CallStored, a
    <2>3. PICK d \in Drawings : d = a.of
      BY <1>2
    <2>4. CanvasOf(d)' = a.json
      BY <1>1, <2>2, <2>3 DEF CanvasOf
    <2>5. UpToDate(page.layer)'
      BY <1>2, <1>16, <2>3, <2>4 DEF UpToDate, CanvasOf
    <2>6. EditorStored(page.ed, page.source)'
      <3>1. page'.source = d /\ Mine(i)
        BY <1>3, <1>6, <1>17, <1>22, <2>3
      <3>2. page'.ed.saved = a.json /\ Serialize(page'.ed) = Serialize(e)
        <4>1. page'.ed.saved = q.ed.saved /\ Serialize(page'.ed) = Serialize(q.ed)
          BY <1>16, <1>22
        <4>2. q.ed = e
          BY <1>8
        <4>3. e.saved = a.json
          BY <1>11, <3>1
        <4> QED BY <4>1, <4>2, <4>3
      <3>3. Serialize(e) = a.json
        <4>1. Serialize(e) = Json(page.ed.canvas.marks, {})
          BY <1>11, Serialized
        <4> QED BY <1>2, <1>13, <1>17, <1>22, <4>1 DEF Json, Bright
      <3> QED BY <2>4, <3>1, <3>2, <3>3 DEF EditorStored, CanvasOf
    <2>7. ASSUME NEW x \in Elems(calls') PROVE CallStored(x)'
      <3>1. CASE x \in Elems(Others(i))
        BY <1>13, <1>17, <1>18, <1>22, <2>1, <3>1 DEF CallStored, Counts
      <3>2. CASE x \in Elems(cs)
        BY <1>19, <3>2 DEF CallStored, HasLayer
      <3> QED BY <2>1, <3>1, <3>2
    <2> QED BY <2>5, <2>6, <2>7
  <1> QED BY <1>1, <1>4, <1>9, <1>16, <1>17, <1>18, <1>19, <1>20, <1>21, <1>22, TakenInv

LEMMA SaveAnswerInv == ASSUME MarkupInv, SaveAnswer PROVE MarkupInv'
  <1>1. PICK i \in DOMAIN calls :
          /\ IsAnswered(i, "save")
          /\ LET r == calls[i].reply
                 a == calls[i].args
                 e == IF Mine(i) THEN [page.ed EXCEPT !.base = r.version, !.of = r.of, !.saved = a.json,
                                                     !.state = "saved", !.busy = @ \/ a.then # {}]
                      ELSE page.ed
                 refused == IF Failed(i) THEN "dirty" ELSE "conflict"
             IN IF r \in {Failure, Conflict}
                THEN /\ Show([page EXCEPT !.ed.state = IF Mine(i) THEN refused ELSE @, !.risky = @ \/ Failed(i) \/ ~Mine(i)])
                     /\ Take(i)
                ELSE /\ Show(LayerChange([page EXCEPT !.ed = e, !.draft = Absent, !.want = SettledWant(i),
                                                      !.risky = @ \/ ~Mine(i) \/ LayerIsDue], r))
                     /\ TakeAndSend(i, IF a.then = {} THEN <<>>
                                       ELSE <<ThreadCall("create", a.of, r.of, a.then, 0, a.mount)>>)
    BY DEF SaveAnswer
  <1>2. CASE calls[i].reply \in {Failure, Conflict}
    <2> DEFINE refused == IF Failed(i) THEN "dirty" ELSE "conflict"
    <2>1. /\ page' = [page EXCEPT !.ed.state = IF Mine(i) THEN refused ELSE @, !.risky = @ \/ Failed(i) \/ ~Mine(i)]
          /\ Take(i) /\ UNCHANGED server /\ calls[i].op = "save"
      BY <1>1, <1>2 DEF Show, SaveAnswer, IsAnswered
    <2>2. refused \in {"dirty", "conflict"} /\ (refused = "conflict" \/ Failed(i))
      OBVIOUS
    <2> HIDE DEF refused
    <2> QED BY <1>2, <2>1, <2>2, RefusedInv
  <1>3. CASE calls[i].reply \notin {Failure, Conflict}
    BY <1>1, <1>3, StoredInv DEF Show
  <1> QED BY <1>2, <1>3

-------------------------------------------------------------------------------
(* The invariant, and what it says of the user's work.                     *)

LEMMA StutterInv == ASSUME MarkupInv, UNCHANGED vars PROVE MarkupInv'
  <1>1. MarkupPageOK(page') /\ Guarded(page') /\ GoesOn
    BY DEF MarkupInv, MarkupTyped, vars, GoesOn, Stays
  <1>2. ~page'.risky /\ ~server.others => EditorStored(page'.ed, page'.source)
    BY DEF MarkupInv, WorkStored, vars
  <1> QED BY <1>1, <1>2, Viewed DEF vars

LEMMA PagePartInv == ASSUME MarkupInv, PagePart PROVE MarkupInv'
  BY OpenPartInv, SwitchTabInv, MountEditorInv, ImageLoadsInv, ServeDrawingInv, DrawingAnswerInv DEF PagePart

LEMMA DrawPartInv == ASSUME MarkupInv, DrawPart PROVE MarkupInv'
  BY DrawMarkInv, DeleteSelectedInv, ApplyHistoryInv, ToggleResolvedInv, ToggleThreadVisibilityInv DEF DrawPart

LEMMA ReviewPartInv == ASSUME MarkupInv, ReviewPart PROVE MarkupInv'
  BY CreateThreadInv, WriteReviewInv, StoreThreadInv, ThreadAnswerInv, ThreadRequestInv DEF ReviewPart

LEMMA MarkupNextInv == MarkupInv /\ [MarkupNext \/ Lose]_vars => MarkupInv'
  <1> SUFFICES ASSUME MarkupInv, [MarkupNext \/ Lose]_vars PROVE MarkupInv'
    OBVIOUS
  <1>1. CASE MarkupNext
    BY <1>1, PagePartInv, DrawPartInv, SaveMarkupsInv, StoreMarkupsInv, SaveAnswerInv, ReloadFromServerInv,
       ReloadAnswerInv, OthersSaveInv, ReviewPartInv DEF MarkupNext
  <1>2. CASE Lose
    BY <1>2, LoseCallInv
  <1>3. CASE UNCHANGED vars
    BY <1>3, StutterInv
  <1> QED BY <1>1, <1>2, <1>3

\* Whatever is drawn, saved, reviewed, left or answered late: the editor waits
\* for its own requests only, and unsaved work is on the canvas or in the draft
\* (DrawingMarkupWorkspace.tsx:260-520, PartDetailPage.tsx:2246-2322).
THEOREM MarkupInvariant == MarkupSpec => []MarkupInv
  BY MarkupInitInv, MarkupNextInv, PTL DEF MarkupSpec

\* What was drawn and not saved is not lost, with the exceptions the statement
\* names (types.ts:138, DrawingMarkupWorkspace.tsx:975-1016).
THEOREM WorkStays == MarkupSpec => []WorkIsKept
  <1>1. ASSUME MarkupInv PROVE WorkIsKept
    <2> SUFFICES ASSUME page.want # Absent, ~page.risky
                 PROVE  \/ page.shown /\ page.ed.loaded /\ page.source = page.want.of /\ page.ed.canvas.marks = page.want.marks
                        \/ /\ ~page.shown \/ ~page.ed.loaded \/ page.source # page.want.of
                           /\ page.draft # Absent /\ page.draft.source = page.want.of
                           /\ page.draft.json.marks = page.want.marks
      BY DEF WorkIsKept
    <2>1. WorkSafe(page) /\ MarkupPageOK(page) /\ EditorOK(page.ed)
      BY <1>1 DEF MarkupInv, MarkupTyped, Guarded, MarkupPageOK
    <2>2. CASE OnCanvas(page)
      BY <2>1, <2>2 DEF WorkSafe, OnCanvas, MarkupPageOK, EditorOK
    <2>3. CASE ~OnCanvas(page)
      BY <2>1, <2>3 DEF WorkSafe, OnCanvas
    <2> QED BY <2>2, <2>3
  <1> QED BY <1>1, MarkupInvariant, PTL

\* A quiet editor that says "Saved" shows what is stored, with the exceptions
\* the statement names, and no mark is stored as hidden
\* (DrawingMarkupWorkspace.tsx:182-196, 489-520).
THEOREM SavedWorkIsStored == MarkupSpec => []SavedMarkupsAreStored
  <1>1. ASSUME MarkupInv PROVE SavedMarkupsAreStored
    <2>1. \A d \in Drawings : server.layers[d].canvas.dark = {}
      BY <1>1 DEF MarkupInv, MarkupTyped, ServerOK, Layers, Bright
    <2>2. ASSUME page.ed.loaded, page.ed.state = "saved", calls = <<>>, ~page.risky, ~server.others
          PROVE  page.source = page.url /\ Serialize(page.ed) = server.layers[page.url].canvas
      <3>1. page.source = page.url
        BY <1>1, <2>2 DEF MarkupInv, Guarded, WorkSafe
      <3>2. EditorStored(page.ed, page.source) /\ EditorOK(page.ed)
        BY <1>1, <2>2 DEF MarkupInv, MarkupTyped, MarkupPageOK, WorkStored
      <3>3. Serialize(page.ed) = page.ed.saved /\ page.ed.saved \in {Absent, CanvasOf(page.source)}
        BY <2>2, <3>2 DEF EditorStored
      <3>4. Serialize(page.ed) # Absent
        BY <3>2, Serialized, MarkupAssumption
      <3> QED BY <3>1, <3>3, <3>4 DEF CanvasOf
    <2> QED BY <2>1, <2>2 DEF SavedMarkupsAreStored
  <1> QED BY <1>1, MarkupInvariant, PTL

-------------------------------------------------------------------------------
(* The editor among the pages.                                             *)

\* Nothing of the editor stays busy when no request is out, whatever failed or
\* was answered to another editor (DrawingMarkupWorkspace.tsx:380-487).
THEOREM QuietEditorIsIdle == MarkupSpec => []QuietPageIsIdle
  <1>1. MarkupInv => QuietPageIsIdle
    BY Few DEF MarkupInv, MarkupTyped, MarkupPageOK, EditorWaits, Awaits, QuietPageIsIdle, Busy
  <1> QED BY <1>1, MarkupInvariant, PTL

\* A quiet editor that says "Saved" shows what is stored
\* (DrawingMarkupWorkspace.tsx:182-196, 489-520).
THEOREM QuietEditorShowsTheStored == MarkupSpec => []QuietPageShowsTheStored
  <1> USE DEF On
  <1>1. MarkupInv /\ SavedMarkupsAreStored => QuietPageShowsTheStored
    BY DEF MarkupInv, MarkupTyped, MarkupPageOK, QuietPageShowsTheStored, ListIsCurrent, ShowsWhatIsStored,
           ShownSwitchesAreStored, CommentsAreTheParts, FilesAndLinksAreTheParts, RowsAnswerTheQuestion,
           PreferencesAreStored, SuggestionsAnswerTheQuery
  <1> QED BY <1>1, MarkupInvariant, SavedWorkIsStored, PTL
===============================================================================
