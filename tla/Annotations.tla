------------------------------ MODULE Annotations ------------------------------
(***************************************************************************)
(* Notes and comments of a part: set_part_notes, add_part_comment,         *)
(* set_part_comment_status, add_part_comment_reply and remove_part_comment *)
(* of app/services/part_annotations.py, with their routes.                 *)
(*                                                                         *)
(* The document is read once per request (it is cached for the request)    *)
(* and saved at the end.                                                   *)
(***************************************************************************)
EXTENDS ReviewDesk

AnnotationKinds == {"notes", "comment", "status", "reply", "remove"}
Targeted        == {"status", "reply", "remove"}

Rows(doc)  == IF doc = Absent THEN <<>> ELSE doc.comments
Notes(doc) == IF doc = Absent THEN 0 ELSE doc.notes

\* The texts the part is found by.
SearchText(notes, rows) ==
  [notes |-> notes,
   comments |-> Ids(rows) \cup UNION {rows[i].replies : i \in DOMAIN rows}]
SearchOf(p) == [notes |-> p.notes, comments |-> p.comments]

\* Mutant: a save writes the whole document.
FieldOfWholeSave(new, read, stored) == new

\* A save writes a field only if it differs from what was read.
Field(new, read, stored) == IF new # read THEN new ELSE stored

SaveSearch(was, text) ==
  part' = [part EXCEPT !.notes    = Field(text.notes, was.notes, @),
                       !.comments = Field(text.comments, was.comments, @)]

-------------------------------------------------------------------------------
(* The browser: reading the notes to edit them, and the requests.          *)

OpenNotes(u) ==
  /\ Idle(u) /\ annotation # Absent
  /\ "notes" \in kinds
  /\ tabs' = [tabs EXCEPT ![u].notes = [text |-> annotation.notes, stamp |-> annotation.stamp]]
  /\ UNCHANGED <<documents, source, work, kinds, sent, history>>

\* A client may leave out what it had loaded.
SendNotes(u) ==
  \E text \in {0, sent + 1}, base \in {0} \cup (IF tabs[u].notes = Absent THEN {}
                                                ELSE {tabs[u].notes.stamp}) :
    Send(u, [NewRequest("notes") EXCEPT !.text = text, !.base = base])

SendComment(u) == Send(u, NewRequest("comment"))

SendEdit(u) ==
  \E op \in Targeted, i \in DOMAIN Rows(annotation), to \in {"open", "resolved"} :
    /\ op # "status" => to = "open"
    /\ Send(u, [NewRequest(op) EXCEPT !.target = annotation.comments[i].id, !.to = to])

-------------------------------------------------------------------------------
(* The handlers.                                                           *)

\* What the request makes of the notes and of the comments it has read.
NewNotes(w) == IF w.op = "notes" THEN w.text ELSE Notes(w.seen)
NewRows(w)  ==
  LET rows == Rows(w.seen) IN
  CASE w.op = "notes"   -> rows
    [] w.op = "comment" -> Append(rows, [id |-> w.n, status |-> "open", replies |-> {}])
    [] w.op = "status"  -> [i \in DOMAIN rows |->
         IF rows[i].id = w.target THEN [rows[i] EXCEPT !.status = w.to] ELSE rows[i]]
    [] w.op = "reply"   -> [i \in DOMAIN rows |->
         IF rows[i].id = w.target THEN [rows[i] EXCEPT !.replies = @ \cup {w.n}] ELSE rows[i]]
    [] w.op = "remove"  -> Without(rows, w.target)

\* Part and annotation are read at one moment; search texts that differ from
\* the annotation are repaired before the request does its own work.
LoadAnnotation(u) ==
  /\ At(u, "load") /\ work[u].op \in AnnotationKinds
  /\ LET w == [work[u] EXCEPT !.seen = annotation, !.was = SearchOf(part)] IN
     IF w.op \in Targeted /\ ~Has(Rows(annotation), w.target) THEN Done(u)
     ELSE Move(u, [w EXCEPT !.phase =
            IF w.was = SearchText(Notes(annotation), Rows(annotation)) THEN "save" ELSE "repair"])
  /\ Serving /\ UNCHANGED <<documents, tabs, clock, regressed, dropped>>

RepairSearch(u) ==
  /\ At(u, "repair")
  /\ LET w    == work[u]
         text == SearchText(Notes(w.seen), Rows(w.seen))
     IN /\ SaveSearch(w.was, text)
        /\ Move(u, [w EXCEPT !.was = text, !.phase = "save"])
  /\ Serving /\ UNCHANGED <<annotation, orphan, layers, tabs, clock, regressed, dropped>>

\* Mutant: clearing the notes does not look at the comments.
EmptiedByNotes(w) == NewNotes(w) = 0 /\ (w.op = "notes" \/ NewRows(w) = <<>>)

\* Notes and comments that are both empty need no document.
Emptied(w) == NewNotes(w) = 0 /\ NewRows(w) = <<>>

\* Mutant: the text is looked up after the new one was put in its place.
ToldTooLate(w) == IF w.op = "notes" /\ w.base # 0 /\ w.seen.stamp > w.base THEN w.text ELSE 0

\* The editor's copy was older than the one read: the text that is replaced
\* goes back with the answer.
Told(w) == IF w.op = "notes" /\ w.base # 0 /\ w.seen.stamp > w.base THEN w.seen.notes ELSE 0

InsertAnnotation(u) ==
  LET w == work[u] IN
  /\ At(u, "save") /\ w.seen = Absent
  /\ \/ /\ Emptied(w)
        /\ Move(u, [w EXCEPT !.phase = "part"])
        /\ UNCHANGED <<annotation, clock>>
     \/ /\ ~Emptied(w) /\ annotation = Absent
        /\ clock' = clock + 1
        /\ annotation' = [id |-> w.n, notes |-> NewNotes(w), comments |-> NewRows(w), stamp |-> clock']
        /\ Move(u, [w EXCEPT !.phase = "part"])
     \/ \* the unique index refuses a second document
        /\ ~Emptied(w) /\ annotation # Absent
        /\ Done(u)
        /\ UNCHANGED <<annotation, clock>>
  /\ Serving /\ UNCHANGED <<orphan, layers, part, tabs, regressed, dropped>>

Stored(w) == annotation # Absent /\ annotation.id = w.seen.id

DeleteAnnotation(u) ==
  LET w == work[u] IN
  /\ At(u, "save") /\ w.seen # Absent /\ Emptied(w)
  /\ annotation' = IF Stored(w) THEN Absent ELSE annotation
  /\ Move(u, [w EXCEPT !.phase = "part", !.told = Told(w)])
  /\ Serving /\ UNCHANGED <<orphan, layers, part, tabs, clock, regressed, dropped>>

UpdateAnnotation(u) ==
  LET w == work[u] IN
  /\ At(u, "save") /\ w.seen # Absent /\ ~Emptied(w)
  /\ \/ /\ Stored(w)
        /\ clock' = clock + 1
        /\ annotation' = [annotation EXCEPT
             !.notes    = Field(NewNotes(w), w.seen.notes, @),
             !.comments = Field(NewRows(w), w.seen.comments, @),
             !.stamp    = clock']
        /\ Move(u, [w EXCEPT !.phase = "part", !.told = Told(w)])
        /\ UNCHANGED orphan
     \/ \* deleted meanwhile: its changed fields come back without a part number
        /\ ~Stored(w) /\ ~orphan
        /\ orphan' = TRUE
        /\ Move(u, [w EXCEPT !.phase = "part", !.told = Told(w)])
        /\ UNCHANGED <<annotation, clock>>
     \/ \* the unique index refuses a second such document
        /\ ~Stored(w) /\ orphan
        /\ Done(u)
        /\ UNCHANGED <<annotation, orphan, clock>>
  /\ Serving /\ UNCHANGED <<layers, part, tabs, regressed, dropped>>

\* Mutant: removing a comment does not count again.
CountsUnlessRemoved(w) == w.op \notin {"notes", "remove"}

\* Everything but the notes goes on to count the pending reviews.
Counts(w) == w.op # "notes"

SavePart(u) ==
  /\ At(u, "part")
  /\ LET w == work[u] IN
     /\ SaveSearch(w.was, SearchText(NewNotes(w), NewRows(w)))
     /\ IF Counts(w) THEN Move(u, [w EXCEPT !.phase = "count", !.seen = Absent, !.was = Absent])
        ELSE Done(u)
  /\ Serving /\ UNCHANGED <<annotation, orphan, layers, tabs, clock, regressed, dropped>>

ServeAnnotation(u) ==
  \/ OpenNotes(u) \/ SendNotes(u) \/ SendComment(u) \/ SendEdit(u)
  \/ LoadAnnotation(u) \/ RepairSearch(u)
  \/ InsertAnnotation(u) \/ DeleteAnnotation(u) \/ UpdateAnnotation(u) \/ SavePart(u)
===============================================================================
