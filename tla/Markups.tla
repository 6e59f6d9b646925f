-------------------------------- MODULE Markups --------------------------------
(***************************************************************************)
(* Markup layers of a drawing and their review threads:                    *)
(* app/services/part_drawing_markups.py, its routes, and the editor that   *)
(* calls them (DrawingMarkupWorkspace.tsx).                                *)
(*                                                                         *)
(* A canvas is saved whole, against the version the editor was loaded      *)
(* with.  Thread requests read the layer, change one thread in memory and  *)
(* save it without comparing versions.                                     *)
(***************************************************************************)
EXTENDS ReviewDesk

MarkupKinds == {"canvas", "thread", "message", "state", "delete"}
OnThread    == {"message", "state", "delete"}

\* An entry without an id passes the reader and fails the validation of a
\* save; a null fails the reader.
Entries(layer)  == IF layer = Absent THEN <<>> ELSE layer.threads
Readable(layer) == \A i \in DOMAIN Entries(layer) : Entries(layer)[i] # Hole
Valid(layer)    == Nobody \notin Ids(Entries(layer))

-------------------------------------------------------------------------------
(* The editor.                                                             *)

Page(u)       == tabs[u].page
ShowPage(u, p) == tabs' = [tabs EXCEPT ![u].page = p]
Dirty(p)      == p.canvas # p.saved
Editing       == UNCHANGED <<documents, source, work, kinds, sent, history>>

\* What the server serves for a layer; one that is missing is version 0.
Fresh(s) ==
  LET l == layers[s]
      c == IF l = Absent THEN {} ELSE l.canvas
  IN [source |-> s, base |-> IF l = Absent THEN 0 ELSE l.version,
      canvas |-> c, saved |-> c, conflict |-> FALSE, adopted |-> FALSE]

\* Opening the workspace, or reloading it, after a conflict for example.
OpenPage(u) ==
  /\ Idle(u) /\ kinds \cap MarkupKinds # {} /\ Readable(layers[source])
  /\ ShowPage(u, Fresh(source))
  /\ Editing

Editable(u) == Idle(u) /\ Page(u) # Absent /\ ~Page(u).conflict

Drawn == UNION ({layers[s].canvas : s \in {s \in Sources : layers[s] # Absent}}
                \cup {Page(v).canvas : v \in {v \in Users : Page(v) # Absent}})

Draw(u) ==
  /\ Editable(u)
  /\ \E o \in Objects \ Drawn : ShowPage(u, [Page(u) EXCEPT !.canvas = @ \cup {o}])
  /\ Editing

Erase(u) ==
  /\ Editable(u)
  /\ \E o \in Page(u).canvas : ShowPage(u, [Page(u) EXCEPT !.canvas = @ \ {o}])
  /\ Editing

SendCanvas(u) ==
  /\ Editable(u) /\ Dirty(Page(u))
  /\ Send(u, [NewRequest("canvas") EXCEPT
       !.source = Page(u).source, !.base = Page(u).base, !.canvas = Page(u).canvas])

\* A new thread refers to saved objects, so a dirty canvas is saved first.
SendThread(u) ==
  /\ Editable(u) /\ ~Dirty(Page(u)) /\ Page(u).canvas # {}
  /\ Send(u, [NewRequest("thread") EXCEPT !.source = Page(u).source])

SendOnThread(u) ==
  /\ Idle(u) /\ Page(u) # Absent /\ layers[Page(u).source] # Absent
  /\ \E op \in OnThread, t \in Ids(layers[Page(u).source].threads) \ {Nobody}, to \in {"open", "resolved"} :
       /\ op # "state" => to = "open"
       /\ Send(u, [NewRequest(op) EXCEPT !.source = Page(u).source, !.target = t, !.to = to])

\* A refusal that asks for a reload.
Conflict(u) == ShowPage(u, [Page(u) EXCEPT !.conflict = TRUE]) /\ Done(u)

-------------------------------------------------------------------------------
(* The handlers.                                                           *)

Where(w) == CHOOSE i \in Indices(w.seen.threads, w.target) : TRUE

\* The drawing is resolved, then its layer is read.
LoadLayer(u) ==
  /\ At(u, "load") /\ work[u].op \in MarkupKinds
  /\ LET w == work[u]
         l == layers[w.source]
         proceed == Move(u, [w EXCEPT !.seen = l, !.phase = "write"]) /\ UNCHANGED tabs
         refuse  == Done(u) /\ UNCHANGED tabs
     IN IF w.source # source THEN Conflict(u)
        ELSE IF ~Readable(l) THEN refuse
        ELSE IF w.op = "canvas"
             THEN IF w.base = (IF l = Absent THEN 0 ELSE l.version) THEN proceed ELSE Conflict(u)
        ELSE IF \/ l = Absent
                \/ w.op \in OnThread /\ ~Has(l.threads, w.target)
                \/ w.op = "thread" /\ l.canvas = {}
                \/ ~Valid(l)
             THEN refuse ELSE proceed
  /\ Serving /\ UNCHANGED <<documents, clock, regressed, dropped>>

\* The unique index lets one of two first saves through.
InsertLayer(u) ==
  LET w == work[u] IN
  /\ At(u, "write") /\ w.op = "canvas" /\ w.seen = Absent
  /\ IF layers[w.source] = Absent
     THEN /\ layers' = [layers EXCEPT ![w.source] =
                          [canvas |-> w.canvas, threads |-> <<>>, version |-> 1]]
          /\ Move(u, [w EXCEPT !.version = 1, !.phase = "count", !.seen = Absent])
          /\ UNCHANGED tabs
     ELSE Conflict(u) /\ UNCHANGED layers
  /\ Serving /\ UNCHANGED <<annotation, orphan, part, clock, regressed, dropped>>

Losing(s, l) == dropped' = (dropped \/ ~(Ids(layers[s].threads) \subseteq Ids(l.threads)))

\* Mutant: the comparison made when the layer was read is enough.
UnchangedSinceRead(w) == TRUE

\* The update itself compares the version again.
Unchanged(w) == layers[w.source].version = w.base

\* The threads are written back as they were read.
SaveCanvas(u) ==
  LET w == work[u]
      l == [canvas |-> w.canvas, threads |-> w.seen.threads, version |-> w.base + 1]
  IN
  /\ At(u, "write") /\ w.op = "canvas" /\ w.seen # Absent
  /\ IF Unchanged(w)
     THEN /\ layers' = [layers EXCEPT ![w.source] = l]
          /\ Losing(w.source, l)
          /\ Move(u, [w EXCEPT !.phase = "reload", !.seen = Absent])
          /\ UNCHANGED tabs
     ELSE Conflict(u) /\ UNCHANGED <<layers, dropped>>
  /\ Serving /\ UNCHANGED <<annotation, orphan, part, clock, regressed>>

\* The answer carries the version of the document as it is read again.
ReloadLayer(u) ==
  /\ At(u, "reload")
  /\ LET l == layers[work[u].source] IN
     IF Readable(l) THEN Move(u, [work[u] EXCEPT !.version = l.version, !.phase = "count"])
     ELSE Done(u)
  /\ Serving /\ UNCHANGED <<documents, tabs, clock, regressed, dropped>>

\* Writing fields of the i-th entry of a list makes up what is missing.
EntryAt(threads, i) ==
  IF i \in DOMAIN threads THEN threads[i] ELSE [id |-> Nobody, status |-> "open", messages |-> {}]

WriteAt(threads, i, entry) ==
  [j \in DOMAIN threads \cup 1 .. i |->
     IF j = i THEN entry ELSE IF j \in DOMAIN threads THEN threads[j] ELSE Hole]

\* Mutant: the newest thread comes first.
AddedFirst(threads, n) == <<[id |-> n, status |-> "open", messages |-> {<<n, n>>}]>> \o threads

Added(threads, n) == Append(threads, [id |-> n, status |-> "open", messages |-> {<<n, n>>}])

\* What the save of a thread request makes of the threads stored by then.
SavedThreads(w, stored) ==
  LET seen  == w.seen.threads
      i     == Where(w)
      entry == EntryAt(stored, i)
  IN CASE w.op = "thread"  -> Added(seen, w.n)
       [] w.op = "delete"  -> Without(seen, w.target)
       [] w.op = "message" ->
            WriteAt(stored, i, [entry EXCEPT !.messages = seen[i].messages \cup {<<w.n, w.target>>}])
       [] w.op = "state"   -> \* other fields of the entry always change
            WriteAt(stored, i, IF seen[i].status = w.to THEN entry
                               ELSE [entry EXCEPT !.status = w.to])

\* Mutant: the version grows once for the thread and once for the layer.
BumpedTwice(w) == w.seen.version + 2

Bumped(w) == w.seen.version + 1

SaveThread(u) ==
  LET w == work[u]
      l == [layers[w.source] EXCEPT !.threads = SavedThreads(w, @), !.version = Bumped(w)]
  IN
  /\ At(u, "write") /\ w.op # "canvas"
  /\ layers' = [layers EXCEPT ![w.source] = l]
  /\ Losing(w.source, l)
  /\ regressed' = (regressed \/ l.version <= layers[w.source].version)
  /\ Move(u, [w EXCEPT !.version = l.version, !.phase = "count", !.seen = Absent])
  /\ Serving /\ UNCHANGED <<annotation, orphan, part, tabs, clock>>

\* The editor takes the version of the answer over.  A saved canvas counts as
\* loaded; an answer about a thread leaves the canvas as it was.
Answered(u, w) ==
  IF w.op = "canvas"
  THEN [Page(u) EXCEPT !.base = w.version, !.saved = w.canvas, !.adopted = w.version # w.base + 1]
  ELSE [Page(u) EXCEPT !.base = w.version, !.adopted = TRUE]

ServeMarkup(u) ==
  \/ OpenPage(u) \/ Draw(u) \/ Erase(u) \/ SendCanvas(u) \/ SendThread(u) \/ SendOnThread(u)
  \/ LoadLayer(u) \/ InsertLayer(u) \/ SaveCanvas(u) \/ ReloadLayer(u) \/ SaveThread(u)
===============================================================================
