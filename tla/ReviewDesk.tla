------------------------------ MODULE ReviewDesk ------------------------------
(***************************************************************************)
(* What the reviews of one part revision are kept in, and the requests on  *)
(* them: the annotation document (notes and comments), the markup layers   *)
(* of its drawing (one per content of the drawing, each with review        *)
(* threads), and the fields of the part that are derived from both.        *)
(*                                                                         *)
(* Requests are served by several workers and no lock or transaction spans *)
(* two database operations, so a request is a record that moves from one   *)
(* database operation to the next.  A user has one request on the way.     *)
(*                                                                         *)
(* Documents are saved as MongoEngine saves them: only the fields that     *)
(* were changed in memory are written, a field of an entry of an embedded  *)
(* list under the position of that entry, and a document deleted meanwhile *)
(* comes back with those fields alone.                                     *)
(***************************************************************************)
EXTENDS Naturals, Sequences, FiniteSets

CONSTANTS
  Users,       \* browser sessions
  Sources,     \* contents (fingerprints) the drawing may have
  Objects,     \* what can be drawn on a markup canvas
  Starts,      \* documents the behaviours start from, and what is asked of them
  MaxRequests, \* bound on requests, those that made the documents included
  Absent

ASSUME ReviewAssumption == MaxRequests \in Nat /\ IsFiniteSet(Sources)

VARIABLES
  annotation, \* part_annotations: the document of this part revision
  orphan,     \* part_annotations: a document without a part number came back
  layers,     \* part_drawing_markups: a layer per content of the drawing
  part,       \* parts: search texts and number of pending reviews
  source,     \* the content of the drawing now
  work,       \* the request each user has on the way
  tabs,       \* what each user's browser shows
  kinds,      \* what is asked in this behaviour
  sent,       \* requests so far: each numbers what it creates
  clock,      \* history: saves of the annotation
  overlap,    \* history: were two requests ever on the way together?
  regressed,  \* history: did a layer's version ever not grow?
  dropped     \* history: did a thread ever leave a layer?

documents == <<annotation, orphan, layers, part>>
history   == <<clock, overlap, regressed, dropped>>
vars      == <<documents, source, work, tabs, kinds, sent, history>>

Texts    == 0 .. MaxRequests
Comments == [id : Texts, status : {"open", "resolved"}, replies : SUBSET Texts]
Annotations == [id : Texts, notes : Texts, comments : Seq(Comments), stamp : Nat]

\* A message remembers the thread it was addressed to.  Nobody is the id of an
\* entry that a write by position made out of nothing; Hole is the null that
\* the database puts before such an entry.
Nobody   == 0
Hole     == [id |-> Nobody, status |-> "null", messages |-> {}]
Threads  == [id : Texts, status : {"open", "resolved", "null"}, messages : SUBSET (Texts \X Texts)]
Layers   == [canvas : SUBSET Objects, threads : Seq(Threads), version : Nat]

Indices(s, id) == {i \in DOMAIN s : s[i].id = id}
Has(s, id)     == Indices(s, id) # {}
Ids(s)         == {s[i].id : i \in DOMAIN s}
Open(s)        == Cardinality({i \in DOMAIN s : s[i].status = "open"})

Without(s, id) ==
  LET first[i \in 0 .. Len(s)] ==  \* of the first i entries
        IF i = 0 THEN <<>>
        ELSE IF s[i].id = id THEN first[i - 1] ELSE Append(first[i - 1], s[i])
  IN first[Len(s)]

Idle(u)    == work[u] = Absent
At(u, p)   == work[u] # Absent /\ work[u].phase = p
Move(u, w) == work' = [work EXCEPT ![u] = w]
Done(u)    == Move(u, Absent)

\* Fields a request does not use keep these values.
NewRequest(op) ==
  [n |-> sent + 1, op |-> op, phase |-> "load", target |-> 0, to |-> "open", text |-> 0, base |-> 0,
   source |-> source, canvas |-> {}, seen |-> Absent, was |-> Absent, count |-> 0, told |-> 0,
   version |-> 0]

Send(u, w) ==
  /\ Idle(u) /\ sent < MaxRequests /\ w.op \in kinds
  /\ Move(u, w)
  /\ sent' = sent + 1
  /\ overlap' = (overlap \/ \E v \in Users : ~Idle(v))
  /\ UNCHANGED <<documents, source, tabs, kinds, clock, regressed, dropped>>

Serving == UNCHANGED <<source, kinds, sent, overlap>>
===============================================================================
