-------------------------------- MODULE Reviews --------------------------------
(***************************************************************************)
(* The reviews of a part: annotations and markups side by side, the number *)
(* of pending reviews both keep on the part (part_review_status.py), and   *)
(* the drawing that may be replaced under them.                            *)
(***************************************************************************)
EXTENDS Annotations, Markups

Pages == [source : Sources, base : Nat, canvas : SUBSET Objects, saved : SUBSET Objects,
          conflict : BOOLEAN, adopted : BOOLEAN]
Requests == [n : Texts, op : AnnotationKinds \cup MarkupKinds,
             phase : {"load", "repair", "save", "part", "write", "reload", "count", "threads", "store"},
             target : Texts, to : {"open", "resolved"}, text : Texts, base : Nat, source : Sources,
             canvas : SUBSET Objects, seen : {Absent} \cup Annotations \cup Layers,
             was : {Absent} \cup [notes : Texts, comments : SUBSET Texts],
             count : Nat, told : Texts, version : Nat]

ASSUME AbsentAssumption ==
  Absent \notin Annotations \cup Layers \cup Requests \cup Pages \cup [text : Texts, stamp : Nat]

Opened(ls) == {o \in Sources \X (1 .. MaxRequests) :
                 /\ ls[o[1]] # Absent /\ o[2] \in DOMAIN ls[o[1]].threads
                 /\ ls[o[1]].threads[o[2]].status = "open"}

Distinct(s) == \A i, j \in DOMAIN s : s[i].id = s[j].id => i = j

\* The documents at the start were made by s.sent requests, one at a time.
ASSUME StartsAssumption == \A s \in Starts :
  LET rows       == Rows(s.annotation)
      threads(x) == Entries(s.layers[x])
  IN
  /\ s.sent \in Texts /\ s.source \in Sources /\ s.kinds \subseteq AnnotationKinds \cup MarkupKinds \cup {"replace"}
  /\ s.annotation \in {Absent} \cup Annotations /\ s.layers \in [Sources -> {Absent} \cup Layers]
  /\ s.pending = Open(rows) + Cardinality(Opened(s.layers))
  /\ Distinct(rows) /\ Ids(rows) \subseteq 1 .. s.sent
  /\ \A x \in Sources :
       /\ s.layers[x] # Absent => s.layers[x].version <= s.sent
       /\ Distinct(threads(x)) /\ Ids(threads(x)) \subseteq (1 .. s.sent) \ Ids(rows)
       /\ \A i \in DOMAIN threads(x) : \A m \in threads(x)[i].messages : m[2] = threads(x)[i].id
       /\ \A y \in Sources \ {x} : Ids(threads(x)) \cap Ids(threads(y)) = {}

Init ==
  /\ \E s \in Starts :
       /\ annotation = s.annotation
       /\ layers = s.layers
       /\ sent = s.sent
       /\ source = s.source
       /\ kinds = s.kinds
       /\ part = [notes |-> SearchText(Notes(s.annotation), Rows(s.annotation)).notes,
                  comments |-> SearchText(Notes(s.annotation), Rows(s.annotation)).comments,
                  pending |-> s.pending]
  /\ orphan = FALSE
  /\ work = [u \in Users |-> Absent]
  /\ tabs = [u \in Users |-> [notes |-> Absent, page |-> Absent]]
  /\ clock = IF annotation = Absent THEN 0 ELSE annotation.stamp
  /\ overlap = FALSE /\ regressed = FALSE /\ dropped = FALSE

\* compute_part_review_status reads the annotation, then every layer of the
\* part, whichever content of the drawing it belongs to.
CountComments(u) ==
  /\ At(u, "count")
  /\ Move(u, [work[u] EXCEPT !.count = Open(Rows(annotation)), !.phase = "threads"])
  /\ Serving /\ UNCHANGED <<documents, tabs, clock, regressed, dropped>>

Existing    == {s \in Sources : layers[s] # Absent}
OpenThreads == Cardinality(Opened(layers))

CountThreads(u) ==
  /\ At(u, "threads")
  /\ IF \A s \in Sources : Readable(layers[s])
     THEN Move(u, [work[u] EXCEPT !.count = @ + OpenThreads, !.phase = "store"])
     ELSE Done(u)
  /\ Serving /\ UNCHANGED <<documents, tabs, clock, regressed, dropped>>

StoreCount(u) ==
  /\ At(u, "store")
  /\ part' = [part EXCEPT !.pending = work[u].count]
  /\ Done(u)
  /\ IF work[u].op \in MarkupKinds THEN ShowPage(u, Answered(u, work[u])) ELSE UNCHANGED tabs
  /\ Serving /\ UNCHANGED <<annotation, orphan, layers, clock, regressed, dropped>>

\* The drawing file is exported again.
ReplaceDrawing ==
  /\ "replace" \in kinds
  /\ \E s \in Sources \ {source} : source' = s
  /\ UNCHANGED <<documents, work, tabs, kinds, sent, history>>

Serve(u) == \/ ServeAnnotation(u) \/ ServeMarkup(u)
            \/ CountComments(u) \/ CountThreads(u) \/ StoreCount(u)

Next == ReplaceDrawing \/ \E u \in Users : Serve(u)
Spec == Init /\ [][Next]_vars

-------------------------------------------------------------------------------
(* Properties.                                                             *)

\* Documents, requests and browsers are well formed; no more reviews are
\* counted than were raised and no layer has seen more saves than were asked.
TypeOK ==
  /\ annotation \in {Absent} \cup Annotations /\ orphan \in BOOLEAN
  /\ \A s \in Sources : layers[s] # Absent => layers[s] \in Layers /\ layers[s].version <= sent
  /\ part \in [notes : Texts, comments : SUBSET Texts, pending : 0 .. sent]
  /\ source \in Sources /\ sent \in Texts
  /\ \A u \in Users : /\ work[u] \in {Absent} \cup Requests
                      /\ ~Idle(u) => work[u].count <= sent /\ work[u].version <= sent
                      /\ tabs[u].notes \in {Absent} \cup [text : Texts, stamp : Nat]
                      /\ tabs[u].page \in {Absent} \cup Pages

\* As long as requests did not overlap, the part shows its reviews: with no
\* request on the way, the number of pending reviews is that of the open
\* comments and threads and the search texts are those of the annotation.
PartFollowsReviews ==
  ~overlap /\ (\A u \in Users : Idle(u)) =>
    /\ part.pending = Open(Rows(annotation)) + OpenThreads
    /\ SearchOf(part) = SearchText(Notes(annotation), Rows(annotation))

Saving(u) == At(u, "save") /\ work'[u] # work[u]

\* Notes and comments share a document but not their fate: whatever requests
\* overlap, no save changes both, so a comment never brings old notes back
\* nor the notes an old list of comments.
NotesApartFromComments ==
  [][annotation # Absent /\ annotation' # Absent /\ annotation'.id = annotation.id
       => annotation'.notes = annotation.notes \/ annotation'.comments = annotation.comments]_vars

\* A comment goes away only by a request to remove it, or by the save of a
\* request that had read the annotation before it was last changed.
CommentsLostOnlyByOverlap ==
  [][\A c \in Ids(Rows(annotation)) \ Ids(Rows(annotation')) :
       \E u \in Users : /\ Saving(u)
                         /\ \/ work[u].op = "remove" /\ work[u].target = c
                            \/ work[u].seen # annotation]_vars

\* Somebody's notes are replaced only by one who had them in the editor, or
\* who gets them back with the answer, or whose client does not say what it
\* had loaded; or by a request that overlapped with their being saved.
ReplacedNotesAreReturned ==
  [][Notes(annotation) # 0 /\ Notes(annotation') # Notes(annotation) =>
       \E u \in Users :
         /\ Saving(u)
         /\ \/ work[u].seen # annotation
            \/ /\ work[u].op = "notes"
               /\ \/ work[u].base = 0
                  \/ tabs[u].notes.text = Notes(annotation)
                  \/ work'[u].told = Notes(annotation)]_vars

Accepted(u) == /\ At(u, "write") /\ work[u].op = "canvas" /\ work[u].seen # Absent
               /\ work'[u] # work[u] /\ layers' # layers

\* A canvas is saved over the very canvas its editor was loaded with, unless a
\* version was used twice or the editor took over the version of an answer
\* whose canvas it did not show.
CanvasReplacesWhatWasLoaded ==
  [][\A u \in Users : Accepted(u) /\ ~regressed /\ ~Page(u).adopted
       => layers[work[u].source].canvas = Page(u).saved]_vars

\* As long as no thread left its layer, every message is in the thread it was
\* sent to and every entry is a thread, whatever writes by position overlap.
MessagesStayInTheirThread ==
  ~dropped => \A s \in Existing : \A i \in DOMAIN layers[s].threads :
    LET t == layers[s].threads[i] IN t.id # Nobody /\ \A m \in t.messages : m[2] = t.id

\* What the help says of a save that is accepted: it does not overwrite the
\* work of somebody else.
NobodyIsOverwritten ==
  [][\A u \in Users : Accepted(u) => layers[work[u].source].canvas = Page(u).saved]_vars

\* What the help says of pending reviews: one can always be resolved, because
\* it is among the comments or in the layer the workspace shows.
PendingCanBeClosed ==
  (\A u \in Users : Idle(u)) /\ part.pending > 0 =>
    \/ Open(Rows(annotation)) > 0
    \/ layers[source] # Absent /\ Open(layers[source].threads) > 0
===============================================================================
