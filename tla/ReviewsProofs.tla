------------------------------ MODULE ReviewsProofs ----------------------------
(***************************************************************************)
(* Proofs about Reviews, for any users, contents of the drawing, objects,  *)
(* starts and number of requests.  All rest on Typed: documents, requests  *)
(* and editors are well formed (SpecTyped).  Five theorems need an         *)
(* invariant of their own beside it:                                       *)
(*   LoadedNotes - an editor whose stamp is not behind the annotation's    *)
(*     was loaded with the annotation's notes;                             *)
(*   PositionsOK - as long as no thread left its layer, a request that     *)
(*     writes by position finds there the entry it read;                   *)
(*   CanvasKnown - as long as no version was used twice, the version an    *)
(*     editor has is the layer's only if it has the layer's canvas;        *)
(*   Following - as long as requests come one at a time, each phase of a   *)
(*     request is right about the documents it has read;                   *)
(*   Bounded - there are no more positions in lists, and no more versions, *)
(*     than requests that may have saved something.                        *)
(* Each part below ends with the theorem it is for.                        *)
(***************************************************************************)
EXTENDS Reviews, SequenceTheorems, FiniteSetTheorems, WellFoundedInduction, TLAPS

-------------------------------------------------------------------------------
(* Taking an entry out of a list.                                          *)

LEMMA Smallest ==
  ASSUME NEW T, T \subseteq Nat, T # {}
  PROVE  \E x \in T : \A y \in T : x <= y
  <1>1. PICK x \in T : \A y \in T : <<y, x>> \notin OpToRel(<, Nat)
    BY WFMin, NatLessThanWellFounded
  <1>2. ASSUME NEW y \in T PROVE x <= y
    <2>1. x \in Nat /\ y \in Nat
      OBVIOUS
    <2>2. y < x => <<y, x>> \in {ss \in Nat \X Nat : ss[1] < ss[2]}
      BY <2>1
    <2>3. ~(y < x)
      BY <1>1, <2>2, Zenon DEF OpToRel
    <2> QED BY <2>1, <2>3
  <1> QED BY <1>2

\* f lists what is left of the first i entries, for every i up to n.
Leaves(s, id, f, n) ==
  f = [i \in 0 .. n |-> IF i = 0 THEN <<>>
                        ELSE IF s[i].id = id THEN f[i - 1] ELSE Append(f[i - 1], s[i])]

LEMMA LeavesExist ==
  ASSUME NEW s, NEW id, NEW n \in Nat
  PROVE  \E f : Leaves(s, id, f, n)
  <1> DEFINE T == {k \in Nat : ~\E f : Leaves(s, id, f, k)}
  <1>1. T = {}
    <2> SUFFICES ASSUME T # {} PROVE FALSE
      OBVIOUS
    <2>1. PICK k \in T : \A y \in T : k <= y
      BY Smallest
    <2>2. k # 0
      <3>1. Leaves(s, id, [i \in 0 .. 0 |-> <<>>], 0)
        BY DEF Leaves
      <3> QED BY <2>1, <3>1
    <2>3. k - 1 \in Nat /\ k - 1 \notin T
      BY <2>1, <2>2
    <2>4. PICK f : Leaves(s, id, f, k - 1)
      BY <2>3
    <2> DEFINE g == [i \in 0 .. k |-> IF i < k THEN f[i]
                                      ELSE IF s[k].id = id THEN f[k - 1] ELSE Append(f[k - 1], s[k])]
    <2>5. \A i \in 0 .. k : g[i] = IF i = 0 THEN <<>>
                                  ELSE IF s[i].id = id THEN g[i - 1] ELSE Append(g[i - 1], s[i])
      <3> SUFFICES ASSUME NEW i \in 0 .. k
                   PROVE g[i] = IF i = 0 THEN <<>>
                                ELSE IF s[i].id = id THEN g[i - 1] ELSE Append(g[i - 1], s[i])
        OBVIOUS
      <3>1. CASE i < k
        <4>1. i \in 0 .. k - 1
          BY <3>1, <2>3
        <4>2. f[i] = IF i = 0 THEN <<>> ELSE IF s[i].id = id THEN f[i - 1] ELSE Append(f[i - 1], s[i])
          BY <2>4, <4>1 DEF Leaves
        <4>3. i # 0 => i - 1 \in 0 .. k /\ i - 1 < k
          BY <3>1, <2>3
        <4> QED BY <3>1, <4>2, <4>3
      <3>2. CASE i = k
        BY <3>2, <2>2, <2>3
      <3> QED BY <3>1, <3>2, <2>1
    <2>6. g = [i \in 0 .. k |-> g[i]]
      OBVIOUS
    <2> HIDE DEF g
    <2>7. Leaves(s, id, g, k)
      BY <2>5, <2>6 DEF Leaves
    <2> QED BY <2>1, <2>7
  <1> QED BY <1>1

LEMMA WithoutOK ==
  ASSUME NEW S, NEW s \in Seq(S), NEW id
  PROVE  /\ Without(s, id) \in Seq(S) /\ Len(Without(s, id)) <= Len(s)
         /\ Ids(Without(s, id)) = Ids(s) \ {id}
  <1> DEFINE f == CHOOSE f : Leaves(s, id, f, Len(s))
             Left(i) == {s[k].id : k \in 1 .. i} \ {id}
             Good(i) == f[i] \in Seq(S) /\ Len(f[i]) <= i /\ Ids(f[i]) = Left(i)
             T == {i \in 0 .. Len(s) : ~Good(i)}
  <1>1. Len(s) \in Nat /\ DOMAIN s = 1 .. Len(s)
    BY LenProperties
  <1>2. Leaves(s, id, f, Len(s))
    BY <1>1, LeavesExist
  <1>3. Without(s, id) = f[Len(s)]
    BY DEF Without, Leaves
  <1> HIDE DEF f
  <1>4. \A i \in 0 .. Len(s) : Good(i)
    <2> SUFFICES ASSUME T # {} PROVE FALSE
      OBVIOUS
    <2>0. T \subseteq Nat
      BY <1>1
    <2> HIDE DEF Good
    <2>1. PICK i \in T : \A y \in T : i <= y
      <3> HIDE DEF T
      <3> QED BY <2>0, Smallest
    <2>a. i \in 0 .. Len(s) /\ ~Good(i)
      OBVIOUS
    <2>2. f[i] = IF i = 0 THEN <<>> ELSE IF s[i].id = id THEN f[i - 1] ELSE Append(f[i - 1], s[i])
      BY <1>2, <2>1 DEF Leaves
    <2>3. i # 0
      <3>1. <<>> \in Seq(S) /\ Len(<<>>) = 0 /\ Ids(<<>>) = {} /\ Left(0) = {}
        BY EmptySeq DEF Ids
      <3> QED BY <2>a, <2>2, <3>1 DEF Good
    <2>4. i \in 1 .. Len(s) /\ i - 1 \in 0 .. Len(s) /\ Good(i - 1)
      <3>1. i \in 1 .. Len(s) /\ i - 1 \in 0 .. Len(s) /\ i - 1 \in Nat /\ ~(i <= i - 1)
        BY <1>1, <2>a, <2>3
      <3> QED BY <2>1, <3>1
    <2>5. s[i] \in S
      BY <2>4, ElementOfSeq
    <2>6. Left(i) = Left(i - 1) \cup ({s[i].id} \ {id})
      <3>1. 1 .. i = (1 .. i - 1) \cup {i}
        BY <2>4, <1>1
      <3>2. {s[k].id : k \in 1 .. i} = {s[k].id : k \in 1 .. i - 1} \cup {s[i].id}
        BY <3>1
      <3> QED BY <3>2
    <2>7. CASE s[i].id = id
      <3>1. f[i] = f[i - 1] /\ Left(i) = Left(i - 1)
        BY <2>2, <2>3, <2>6, <2>7
      <3> HIDE DEF Left
      <3>2. f[i - 1] \in Seq(S) /\ Len(f[i - 1]) <= i - 1 /\ Len(f[i - 1]) \in Nat /\ Ids(f[i - 1]) = Left(i - 1)
        BY <2>4, LenProperties DEF Good
      <3>3. Len(f[i - 1]) <= i
        BY <3>2, <2>4, <1>1
      <3> QED BY <2>a, <3>1, <3>2, <3>3 DEF Good
    <2>8. CASE s[i].id # id
      <3> DEFINE t == f[i - 1]
      <3>1. t \in Seq(S) /\ Len(t) <= i - 1 /\ Len(t) \in Nat /\ DOMAIN t = 1 .. Len(t) /\ Ids(t) = Left(i - 1)
        BY <2>4, LenProperties DEF Good
      <3> HIDE DEF t
      <3>2. /\ Append(t, s[i]) \in Seq(S) /\ Len(Append(t, s[i])) = Len(t) + 1
            /\ DOMAIN Append(t, s[i]) = 1 .. Len(t) + 1
            /\ \A j \in 1 .. Len(t) : Append(t, s[i])[j] = t[j]
            /\ Append(t, s[i])[Len(t) + 1] = s[i]
        BY <3>1, <2>5, AppendProperties, LenProperties
      <3>3. Ids(Append(t, s[i])) = Ids(t) \cup {s[i].id}
        <4>1. 1 .. Len(t) + 1 = (1 .. Len(t)) \cup {Len(t) + 1}
          BY <3>1
        <4> QED BY <3>1, <3>2, <4>1 DEF Ids
      <3>4. f[i] = Append(t, s[i])
        BY <2>2, <2>3, <2>8 DEF t
      <3>5. Ids(f[i]) = Left(i)
        BY <3>1, <3>3, <3>4, <2>6, <2>8
      <3>6. f[i] \in Seq(S) /\ Len(f[i]) <= i
        BY <3>1, <3>2, <3>4, <2>4, <1>1
      <3> QED BY <2>a, <3>5, <3>6 DEF Good
    <2> QED BY <2>7, <2>8
  <1>5. Good(Len(s))
    <2> HIDE DEF Good
    <2> QED BY <1>1, <1>4
  <1>6. Left(Len(s)) = Ids(s) \ {id}
    BY <1>1 DEF Ids
  <1> QED BY <1>3, <1>5, <1>6

-------------------------------------------------------------------------------
(* Types.                                                                  *)

Texts2 == [notes : Texts, comments : SUBSET Texts]
Tabs == [notes : {Absent} \cup [text : Texts, stamp : Nat], page : {Absent} \cup Pages]

\* A request in the middle of its work has read what it goes on with.
RequestOK(w, page, ls) ==
  /\ w.op \in MarkupKinds => page # Absent
  /\ w.phase \in {"repair", "save", "part"} =>
       w.op \in AnnotationKinds /\ w.seen \in {Absent} \cup Annotations /\ w.was \in Texts2
  /\ w.phase = "write" =>
       /\ w.op \in MarkupKinds /\ w.seen \in {Absent} \cup Layers
       /\ w.op # "canvas" => w.seen # Absent
       /\ w.op \in OnThread => Has(w.seen.threads, w.target)
       /\ w.op = "canvas" => w.base = IF w.seen = Absent THEN 0 ELSE w.seen.version
       /\ w.seen # Absent => ls[w.source] # Absent
  /\ w.phase = "reload" => w.op = "canvas" /\ ls[w.source] # Absent

DocumentsOK ==
  /\ annotation \in {Absent} \cup Annotations /\ orphan \in BOOLEAN
  /\ layers \in [Sources -> {Absent} \cup Layers]
  /\ part \in [notes : Texts, comments : SUBSET Texts, pending : Nat]
  /\ source \in Sources /\ sent \in Texts
  /\ clock \in Nat /\ overlap \in BOOLEAN /\ regressed \in BOOLEAN /\ dropped \in BOOLEAN

UsersOK ==
  /\ work \in [Users -> {Absent} \cup Requests]
  /\ tabs \in [Users -> Tabs]
  /\ \A u \in Users : work[u] # Absent => RequestOK(work[u], tabs[u].page, layers)

Typed == DocumentsOK /\ UsersOK

LEMMA Unlike ==
  /\ \A r \in Annotations : r # Absent
  /\ \A r \in Layers : r # Absent
  /\ \A r \in Requests : r # Absent
  /\ \A r \in Pages : r # Absent
  BY AbsentAssumption

\* A user's request and browser are looked at one at a time.
LEMMA UserOK ==
  ASSUME UsersOK, NEW u \in Users
  PROVE  /\ ~Idle(u) => work[u] \in Requests /\ RequestOK(work[u], tabs[u].page, layers)
         /\ tabs[u] \in Tabs
  BY DEF UsersOK, Idle

LEMMA Moved ==
  ASSUME UsersOK, NEW u \in Users, NEW w \in {Absent} \cup Requests, Move(u, w),
         NEW t \in Tabs, tabs' = [tabs EXCEPT ![u] = t],
         \A s \in Sources : layers[s] # Absent => layers'[s] # Absent,
         w # Absent => RequestOK(w, t.page, layers')
  PROVE  UsersOK'
  <1>1. work' \in [Users -> {Absent} \cup Requests] /\ tabs' \in [Users -> Tabs]
    BY DEF UsersOK, Move
  <1>2. work'[u] = w /\ tabs'[u] = t
    BY DEF UsersOK, Move
  <1>3. ASSUME NEW v \in Users, v # u, work[v] # Absent
        PROVE  RequestOK(work[v], tabs[v].page, layers')
    <2>1. RequestOK(work[v], tabs[v].page, layers) /\ work[v].source \in Sources
      BY <1>3 DEF UsersOK, Requests
    <2> QED BY <2>1 DEF RequestOK
  <1>4. ASSUME NEW v \in Users, v # u PROVE work'[v] = work[v] /\ tabs'[v] = tabs[v]
    BY <1>4 DEF UsersOK, Move
  <1>5. ASSUME NEW v \in Users, work'[v] # Absent PROVE RequestOK(work'[v], tabs'[v].page, layers')
    BY <1>2, <1>3, <1>4, <1>5
  <1> QED BY <1>1, <1>5 DEF UsersOK

\* The same if the user's browser shows what it showed.
LEMMA MovedOn ==
  ASSUME UsersOK, NEW u \in Users, NEW w \in {Absent} \cup Requests, Move(u, w), UNCHANGED tabs,
         \A s \in Sources : layers[s] # Absent => layers'[s] # Absent,
         w # Absent => RequestOK(w, tabs[u].page, layers')
  PROVE  UsersOK'
  <1>1. tabs[u] \in Tabs /\ tabs' = [tabs EXCEPT ![u] = tabs[u]]
    BY DEF UsersOK
  <1> QED BY <1>1, Moved

\* A request that ends leaves everything in order.
LEMMA Ended ==
  ASSUME UsersOK, NEW u \in Users, Done(u), UNCHANGED tabs,
         \A s \in Sources : layers[s] # Absent => layers'[s] # Absent
  PROVE  UsersOK'
  BY MovedOn DEF Done

LEMMA Conflicted ==
  ASSUME UsersOK, NEW u \in Users, tabs[u].page # Absent, Conflict(u),
         \A s \in Sources : layers[s] # Absent => layers'[s] # Absent
  PROVE  UsersOK'
  <1> DEFINE p == [Page(u) EXCEPT !.conflict = TRUE]
             t == [tabs[u] EXCEPT !.page = p]
  <1>1. tabs[u] \in Tabs /\ Page(u) \in Pages
    BY UserOK DEF Tabs, Page
  <1>2. p \in Pages
    BY <1>1 DEF Pages
  <1>3. t \in Tabs
    BY <1>1, <1>2 DEF Tabs
  <1>4. tabs' = [tabs EXCEPT ![u] = t]
    BY DEF Conflict, ShowPage, UsersOK
  <1> HIDE DEF t
  <1> QED BY <1>3, <1>4, Moved DEF Conflict, Done

-------------------------------------------------------------------------------
(* Documents.                                                              *)

LEMMA DocumentRead ==
  ASSUME NEW doc \in {Absent} \cup Annotations
  PROVE  Rows(doc) \in Seq(Comments) /\ Notes(doc) \in Texts
  <1>1. <<>> \in Seq(Comments)
    BY EmptySeq
  <1>2. 0 \in Texts
    BY ReviewAssumption DEF Texts
  <1> QED BY <1>1, <1>2, Unlike DEF Rows, Notes, Annotations

LEMMA TextsFound ==
  ASSUME NEW rows \in Seq(Comments), NEW notes \in Texts
  PROVE  SearchText(notes, rows) \in Texts2
  <1>1. \A i \in DOMAIN rows : rows[i] \in Comments
    BY LenProperties, ElementOfSeq
  <1> QED BY <1>1 DEF SearchText, Texts2, Ids, Comments

LEMMA Counted ==
  ASSUME NEW S, NEW s \in Seq(S)
  PROVE  Open(s) \in Nat
  <1>1. DOMAIN s = 1 .. Len(s) /\ Len(s) \in Nat
    BY LenProperties
  <1>2. IsFiniteSet(1 .. Len(s))
    BY <1>1, FS_Interval
  <1>3. IsFiniteSet({i \in DOMAIN s : s[i].status = "open"})
    BY <1>1, <1>2, FS_Subset
  <1> QED BY <1>3, FS_CardinalityType DEF Open

LEMMA OpenedFinite == \A ls : IsFiniteSet(Opened(ls)) /\ Cardinality(Opened(ls)) \in Nat
  <1>1. IsFiniteSet(1 .. MaxRequests)
    BY ReviewAssumption, FS_Interval
  <1>2. IsFiniteSet(Sources \X (1 .. MaxRequests))
    BY <1>1, ReviewAssumption, FS_Product
  <1>3. \A ls : Opened(ls) \subseteq Sources \X (1 .. MaxRequests)
    BY DEF Opened
  <1> QED BY <1>2, <1>3, FS_Subset, FS_CardinalityType

\* What a request makes of the comments it has read.
LEMMA RowsMade ==
  ASSUME NEW w \in Requests, w.op \in AnnotationKinds, w.seen \in {Absent} \cup Annotations
  PROVE  /\ NewRows(w) \in Seq(Comments) /\ NewNotes(w) \in Texts
         /\ w.op \in {"status", "reply"} => DOMAIN NewRows(w) = DOMAIN Rows(w.seen)
         /\ w.op \in {"status", "reply"} =>
              \A i \in DOMAIN Rows(w.seen) : NewRows(w)[i].id = Rows(w.seen)[i].id
  <1> DEFINE rows == Rows(w.seen)
             new(i) == CASE w.op = "status" -> IF rows[i].id = w.target THEN [rows[i] EXCEPT !.status = w.to] ELSE rows[i]
                         [] OTHER -> IF rows[i].id = w.target THEN [rows[i] EXCEPT !.replies = @ \cup {w.n}] ELSE rows[i]
  <1>1. rows \in Seq(Comments) /\ Notes(w.seen) \in Texts
    BY DocumentRead
  <1>2. DOMAIN rows = 1 .. Len(rows) /\ Len(rows) \in Nat /\ \A i \in 1 .. Len(rows) : rows[i] \in Comments
    BY <1>1, LenProperties, ElementOfSeq
  <1>3. w.n \in Texts /\ w.target \in Texts /\ w.to \in {"open", "resolved"} /\ w.text \in Texts
    BY DEF Requests
  <1> HIDE DEF rows
  <1>4. \A i \in 1 .. Len(rows) : new(i) \in Comments /\ new(i).id = rows[i].id
    <2> SUFFICES ASSUME NEW i \in 1 .. Len(rows) PROVE new(i) \in Comments /\ new(i).id = rows[i].id
      OBVIOUS
    <2>1. rows[i] \in Comments
      BY <1>2
    <2> QED BY <2>1, <1>3 DEF Comments
  <1>5. CASE w.op \in {"status", "reply"}
    <2>1. NewRows(w) = [i \in 1 .. Len(rows) |-> new(i)]
      BY <1>2, <1>5 DEF NewRows, rows
    <2> HIDE DEF new
    <2>2. NewRows(w) \in Seq(Comments)
      BY <1>2, <1>4, <2>1, IsASeq
    <2>3. DOMAIN NewRows(w) = 1 .. Len(rows) /\ \A i \in 1 .. Len(rows) : NewRows(w)[i].id = rows[i].id
      BY <1>4, <2>1
    <2> QED BY <1>1, <1>2, <1>5, <2>2, <2>3 DEF NewNotes, rows
  <1>6. CASE w.op = "comment"
    <2>1. [id |-> w.n, status |-> "open", replies |-> {}] \in Comments
      BY <1>3 DEF Comments
    <2>2. NewRows(w) = Append(rows, [id |-> w.n, status |-> "open", replies |-> {}])
      BY <1>6 DEF NewRows, rows
    <2> QED BY <1>1, <1>6, <2>1, <2>2, AppendProperties DEF NewNotes, rows
  <1>7. CASE w.op = "remove"
    <2>1. NewRows(w) = Without(rows, w.target)
      BY <1>7 DEF NewRows, rows
    <2> QED BY <1>1, <1>7, <2>1, WithoutOK DEF NewNotes, rows
  <1>8. CASE w.op = "notes"
    BY <1>1, <1>3, <1>8 DEF NewRows, NewNotes, rows
  <1> QED BY <1>5, <1>6, <1>7, <1>8 DEF AnnotationKinds

LEMMA MarkupRead ==
  ASSUME NEW l \in Layers
  PROVE  /\ l.threads \in Seq(Threads) /\ Len(l.threads) \in Nat /\ DOMAIN l.threads = 1 .. Len(l.threads)
         /\ \A i \in 1 .. Len(l.threads) : l.threads[i] \in Threads
         /\ l.canvas \subseteq Objects /\ l.version \in Nat
  BY LenProperties, ElementOfSeq DEF Layers

\* A write by position reaches the entry or makes it, and leaves the others.
LEMMA Written ==
  ASSUME NEW s \in Seq(Threads), NEW i \in Nat \ {0}, NEW e \in Threads
  PROVE  /\ WriteAt(s, i, e) \in Seq(Threads)
         /\ Len(WriteAt(s, i, e)) = IF i <= Len(s) THEN Len(s) ELSE i
         /\ i <= Len(s) => /\ WriteAt(s, i, e)[i] = e
                           /\ \A j \in 1 .. Len(s) : j # i => WriteAt(s, i, e)[j] = s[j]
  <1> DEFINE n == IF i <= Len(s) THEN Len(s) ELSE i
             new(j) == IF j = i THEN e ELSE IF j \in DOMAIN s THEN s[j] ELSE Hole
  <1>1. Len(s) \in Nat /\ DOMAIN s = 1 .. Len(s) /\ \A j \in 1 .. Len(s) : s[j] \in Threads
    BY LenProperties, ElementOfSeq
  <1>2. n \in Nat /\ DOMAIN s \cup 1 .. i = 1 .. n
    BY <1>1
  <1>3. Hole \in Threads
    BY ReviewAssumption DEF Hole, Threads, Nobody, Texts
  <1>4. WriteAt(s, i, e) = [j \in 1 .. n |-> new(j)]
    BY <1>2 DEF WriteAt
  <1>5. \A j \in 1 .. n : new(j) \in Threads
    BY <1>1, <1>3
  <1> HIDE DEF new
  <1>6. WriteAt(s, i, e) \in Seq(Threads)
    BY <1>2, <1>4, <1>5, IsASeq
  <1>7. Len(WriteAt(s, i, e)) = n
    BY <1>2, <1>4, <1>6, LenProperties
  <1>8. i <= Len(s) => WriteAt(s, i, e)[i] = e /\ \A j \in 1 .. Len(s) : j # i => WriteAt(s, i, e)[j] = s[j]
    BY <1>1, <1>2, <1>4 DEF new
  <1> QED BY <1>6, <1>7, <1>8

\* The entry a thread request addresses is where it found it.
LEMMA Addressed ==
  ASSUME NEW w \in Requests, w.seen \in Layers, Has(w.seen.threads, w.target)
  PROVE  Where(w) \in 1 .. Len(w.seen.threads) /\ w.seen.threads[Where(w)].id = w.target
  <1>1. \E i \in Indices(w.seen.threads, w.target) : TRUE
    BY DEF Has
  <1>2. Where(w) \in Indices(w.seen.threads, w.target)
    BY <1>1 DEF Where
  <1> QED BY <1>2, MarkupRead DEF Indices

ThreadKinds == {"thread", "message", "state", "delete"}

LEMMA ThreadsMade ==
  ASSUME NEW w \in Requests, w.op \in ThreadKinds, w.seen \in Layers,
         w.op \in OnThread => Has(w.seen.threads, w.target), NEW stored \in Seq(Threads)
  PROVE  SavedThreads(w, stored) \in Seq(Threads)
  <1> DEFINE seen  == w.seen.threads
             i     == Where(w)
             entry == EntryAt(stored, i)
  <1>1. seen \in Seq(Threads) /\ \A j \in 1 .. Len(seen) : seen[j] \in Threads
    BY MarkupRead
  <1>2. Len(stored) \in Nat /\ DOMAIN stored = 1 .. Len(stored) /\ \A j \in 1 .. Len(stored) : stored[j] \in Threads
    BY LenProperties, ElementOfSeq
  <1>3. w.n \in Texts /\ w.target \in Texts /\ w.to \in {"open", "resolved"}
    BY DEF Requests
  <1>4. w.op \in OnThread => i \in 1 .. Len(seen) /\ i \in Nat \ {0} /\ seen[i].messages \subseteq Texts \X Texts
    BY <1>1, Addressed, MarkupRead DEF Threads
  <1>5. entry \in Threads
    BY <1>2, ReviewAssumption DEF EntryAt, Threads, Nobody, Texts
  <1> HIDE DEF seen, i, entry
  <1>6. CASE w.op = "thread"
    <2>1. [id |-> w.n, status |-> "open", messages |-> {<<w.n, w.n>>}] \in Threads
      BY <1>3 DEF Threads
    <2>2. SavedThreads(w, stored) = Append(seen, [id |-> w.n, status |-> "open", messages |-> {<<w.n, w.n>>}])
      BY <1>6 DEF SavedThreads, Added, seen
    <2> QED BY <1>1, <2>1, <2>2, AppendProperties
  <1>7. CASE w.op = "delete"
    <2>1. SavedThreads(w, stored) = Without(seen, w.target)
      BY <1>7 DEF SavedThreads, seen
    <2> QED BY <1>1, <2>1, WithoutOK
  <1>8. CASE w.op = "message"
    <2> DEFINE e == [entry EXCEPT !.messages = seen[i].messages \cup {<<w.n, w.target>>}]
    <2>1. e \in Threads
      BY <1>3, <1>4, <1>5, <1>8 DEF Threads, OnThread
    <2>2. SavedThreads(w, stored) = WriteAt(stored, i, e)
      BY <1>8 DEF SavedThreads, seen, i, entry
    <2> HIDE DEF e
    <2> QED BY <1>4, <1>8, <2>1, <2>2, Written DEF OnThread
  <1>9. CASE w.op = "state"
    <2> DEFINE e == IF seen[i].status = w.to THEN entry ELSE [entry EXCEPT !.status = w.to]
    <2>1. e \in Threads
      BY <1>3, <1>5 DEF Threads
    <2>2. SavedThreads(w, stored) = WriteAt(stored, i, e)
      BY <1>9 DEF SavedThreads, seen, i, entry
    <2> HIDE DEF e
    <2> QED BY <1>4, <1>9, <2>1, <2>2, Written DEF OnThread
  <1> QED BY <1>6, <1>7, <1>8, <1>9 DEF ThreadKinds

-------------------------------------------------------------------------------
(* Every action keeps documents and requests typed.                        *)

LEMMA Sent ==
  ASSUME Typed, NEW u \in Users, NEW w \in Requests, Send(u, w), w.phase = "load",
         w.op \in MarkupKinds => tabs[u].page # Absent
  PROVE  Typed'
  <1>1. DocumentsOK'
    BY ReviewAssumption DEF Typed, DocumentsOK, Send, documents, Texts
  <1>2. RequestOK(w, tabs[u].page, layers')
    BY DEF RequestOK
  <1>3. UsersOK'
    BY <1>2, MovedOn DEF Typed, Send, documents
  <1> QED BY <1>1, <1>3 DEF Typed

LEMMA NewTyped ==
  ASSUME DocumentsOK, sent < MaxRequests, NEW op \in AnnotationKinds \cup MarkupKinds
  PROVE  NewRequest(op) \in Requests /\ NewRequest(op).phase = "load" /\ NewRequest(op).op = op /\ sent + 1 \in Texts
  <1>1. sent + 1 \in Texts /\ 0 \in Texts
    BY ReviewAssumption DEF DocumentsOK, Texts
  <1> QED BY <1>1 DEF DocumentsOK, NewRequest, Requests

LEMMA OpenNotesTyped ==
  ASSUME Typed, NEW u \in Users, OpenNotes(u)
  PROVE  Typed'
  <1> DEFINE t == [tabs[u] EXCEPT !.notes = [text |-> annotation.notes, stamp |-> annotation.stamp]]
  <1>1. tabs[u] \in Tabs /\ annotation \in Annotations
    BY UserOK DEF Typed, DocumentsOK, OpenNotes
  <1>2. [text |-> annotation.notes, stamp |-> annotation.stamp] \in [text : Texts, stamp : Nat]
    BY <1>1 DEF Annotations
  <1>3. t \in Tabs /\ t.page = tabs[u].page
    BY <1>1, <1>2 DEF Tabs
  <1>4. tabs' = [tabs EXCEPT ![u] = t] /\ Move(u, work[u]) /\ work[u] = Absent
    BY DEF OpenNotes, Typed, UsersOK, Move, Idle
  <1> HIDE DEF t
  <1>5. UsersOK'
    BY <1>3, <1>4, Moved DEF Typed, OpenNotes, documents
  <1>6. DocumentsOK'
    BY DEF Typed, DocumentsOK, OpenNotes, documents, history
  <1> QED BY <1>5, <1>6 DEF Typed

LEMMA SendNotesTyped ==
  ASSUME Typed, NEW u \in Users, SendNotes(u)
  PROVE  Typed'
  <1>1. PICK text \in {0, sent + 1}, base \in {0} \cup (IF tabs[u].notes = Absent THEN {} ELSE {tabs[u].notes.stamp}) :
          Send(u, [NewRequest("notes") EXCEPT !.text = text, !.base = base])
    BY DEF SendNotes
  <1>2. sent < MaxRequests
    BY <1>1 DEF Send
  <1>3. NewRequest("notes") \in Requests /\ sent + 1 \in Texts /\ 0 \in Texts /\ NewRequest("notes").phase = "load" /\ NewRequest("notes").op = "notes"
    BY <1>2, NewTyped, ReviewAssumption DEF Typed, AnnotationKinds, Texts
  <1>4. base \in Nat
    BY UserOK DEF Typed, Tabs
  <1> DEFINE w == [NewRequest("notes") EXCEPT !.text = text, !.base = base]
  <1>5. w \in Requests /\ w.phase = "load" /\ w.op = "notes"
    BY <1>3, <1>4 DEF Requests
  <1> HIDE DEF w
  <1>6. Send(u, w)
    BY <1>1 DEF w
  <1> QED BY <1>5, <1>6, Sent DEF MarkupKinds

LEMMA SendCommentTyped ==
  ASSUME Typed, NEW u \in Users, SendComment(u)
  PROVE  Typed'
  BY NewTyped, Sent DEF SendComment, Send, AnnotationKinds, MarkupKinds, Typed

LEMMA SendEditTyped ==
  ASSUME Typed, NEW u \in Users, SendEdit(u)
  PROVE  Typed'
  <1>1. PICK op \in Targeted, i \in DOMAIN Rows(annotation), to \in {"open", "resolved"} :
          Send(u, [NewRequest(op) EXCEPT !.target = annotation.comments[i].id, !.to = to])
    BY DEF SendEdit
  <1> DEFINE w == [NewRequest(op) EXCEPT !.target = annotation.comments[i].id, !.to = to]
  <1>2. annotation.comments[i].id \in Texts
    <2>1. Rows(annotation) \in Seq(Comments)
      BY DocumentRead DEF Typed, DocumentsOK
    <2>2. Rows(annotation)[i] \in Comments /\ i \in 1 .. Len(Rows(annotation))
      BY <2>1, LenProperties, ElementOfSeq
    <2>3. annotation # Absent
      BY <2>2, EmptySeq DEF Rows
    <2> QED BY <2>2, <2>3 DEF Rows, Comments
  <1>3. NewRequest(op) \in Requests /\ NewRequest(op).phase = "load" /\ NewRequest(op).op = op
    BY <1>1, NewTyped DEF Send, Typed, AnnotationKinds, Targeted
  <1>4. w \in Requests /\ w.phase = "load" /\ w.op = op
    BY <1>2, <1>3 DEF Requests
  <1> HIDE DEF w
  <1>5. Send(u, w)
    BY <1>1 DEF w
  <1> QED BY <1>4, <1>5, Sent DEF MarkupKinds, Targeted

\* The editor shows another page while no request is on the way.
LEMMA Edited ==
  ASSUME Typed, NEW u \in Users, Idle(u), NEW p \in Pages, ShowPage(u, p), Editing
  PROVE  Typed'
  <1> DEFINE t == [tabs[u] EXCEPT !.page = p]
  <1>1. t \in Tabs
    BY UserOK DEF Typed, Tabs
  <1>2. tabs' = [tabs EXCEPT ![u] = t] /\ Move(u, work[u]) /\ work[u] = Absent
    BY DEF ShowPage, Editing, Typed, UsersOK, Move, Idle
  <1> HIDE DEF t
  <1>3. UsersOK'
    BY <1>1, <1>2, Moved DEF Typed, Editing, documents
  <1>4. DocumentsOK'
    BY DEF Typed, DocumentsOK, Editing, documents, history
  <1> QED BY <1>3, <1>4 DEF Typed

LEMMA LayerOK ==
  ASSUME DocumentsOK, NEW s \in Sources, layers[s] # Absent
  PROVE  layers[s] \in Layers
  BY DEF DocumentsOK

LEMMA FreshTyped ==
  ASSUME DocumentsOK, NEW s \in Sources
  PROVE  /\ Fresh(s) \in Pages /\ Fresh(s).source = s /\ Fresh(s).conflict = FALSE /\ Fresh(s).adopted = FALSE
         /\ Fresh(s).saved = Fresh(s).canvas
         /\ Fresh(s).base = IF layers[s] = Absent THEN 0 ELSE layers[s].version
         /\ Fresh(s).canvas = IF layers[s] = Absent THEN {} ELSE layers[s].canvas
  <1>1. CASE layers[s] = Absent
    BY <1>1 DEF Fresh, Pages
  <1>2. CASE layers[s] # Absent
    BY <1>2, LayerOK, MarkupRead DEF Fresh, Pages
  <1> QED BY <1>1, <1>2

LEMMA OpenPageTyped ==
  ASSUME Typed, NEW u \in Users, OpenPage(u)
  PROVE  Typed'
  BY Edited, FreshTyped DEF OpenPage, Typed, DocumentsOK

LEMMA PageTyped ==
  ASSUME Typed, NEW u \in Users, Page(u) # Absent
  PROVE  /\ Page(u) \in Pages
         /\ \A o \in Objects : /\ [Page(u) EXCEPT !.canvas = @ \cup {o}] \in Pages
                               /\ [Page(u) EXCEPT !.canvas = @ \ {o}] \in Pages
  <1>1. Page(u) \in Pages
    BY UserOK DEF Typed, Tabs, Page
  <1> QED BY <1>1 DEF Pages

LEMMA DrawTyped ==
  ASSUME Typed, NEW u \in Users, Draw(u) \/ Erase(u)
  PROVE  Typed'
  <1>1. Page(u) # Absent /\ Idle(u) /\ Editing /\ Page(u).canvas \subseteq Objects
    BY PageTyped DEF Draw, Erase, Editable, Pages
  <1> QED BY <1>1, PageTyped, Edited DEF Draw, Erase

LEMMA SendMarkupTyped ==
  ASSUME Typed, NEW u \in Users, SendCanvas(u) \/ SendThread(u) \/ SendOnThread(u)
  PROVE  Typed'
  <1>1. Page(u) # Absent /\ sent < MaxRequests /\ Page(u) \in Pages /\ tabs[u].page # Absent
    BY PageTyped DEF SendCanvas, SendThread, SendOnThread, Editable, Send, Page
  <1>2. \A op \in MarkupKinds : NewRequest(op) \in Requests /\ NewRequest(op).phase = "load" /\ NewRequest(op).op = op
    BY <1>1, NewTyped DEF Typed
  <1>3. CASE SendCanvas(u)
    <2> DEFINE w == [NewRequest("canvas") EXCEPT
                       !.source = Page(u).source, !.base = Page(u).base, !.canvas = Page(u).canvas]
    <2>1. w \in Requests /\ w.phase = "load"
      BY <1>1, <1>2 DEF MarkupKinds, Requests, Pages
    <2>2. Send(u, w)
      BY <1>3 DEF SendCanvas
    <2> HIDE DEF w
    <2> QED BY <1>1, <2>1, <2>2, Sent
  <1>4. CASE SendThread(u)
    <2> DEFINE w == [NewRequest("thread") EXCEPT !.source = Page(u).source]
    <2>1. w \in Requests /\ w.phase = "load"
      BY <1>1, <1>2 DEF MarkupKinds, Requests, Pages
    <2>2. Send(u, w)
      BY <1>4 DEF SendThread
    <2> HIDE DEF w
    <2> QED BY <1>1, <2>1, <2>2, Sent
  <1>5. CASE SendOnThread(u)
    <2>1. PICK op \in OnThread, t \in Ids(layers[Page(u).source].threads) \ {Nobody}, to \in {"open", "resolved"} :
            Send(u, [NewRequest(op) EXCEPT !.source = Page(u).source, !.target = t, !.to = to])
      BY <1>5 DEF SendOnThread
    <2> DEFINE w == [NewRequest(op) EXCEPT !.source = Page(u).source, !.target = t, !.to = to]
    <2>2. t \in Texts
      <3>1. layers[Page(u).source] \in Layers
        BY <1>1, <1>5, LayerOK DEF SendOnThread, Pages, Typed
      <3> QED BY <3>1, MarkupRead DEF Ids, Threads
    <2>3. w \in Requests /\ w.phase = "load"
      <3>1. NewRequest(op) \in Requests /\ NewRequest(op).phase = "load" /\ Page(u).source \in Sources
        BY <1>1, <1>2 DEF MarkupKinds, OnThread, Pages
      <3> QED BY <3>1, <2>2 DEF Requests
    <2>4. Send(u, w)
      BY <2>1
    <2> HIDE DEF w
    <2> QED BY <1>1, <2>3, <2>4, Sent
  <1> QED BY <1>3, <1>4, <1>5

LEMMA LoadAnnotationTyped ==
  ASSUME Typed, NEW u \in Users, LoadAnnotation(u)
  PROVE  Typed'
  <1> DEFINE w(p) == [[work[u] EXCEPT !.seen = annotation, !.was = SearchOf(part)] EXCEPT !.phase = p]
  <1>1. work[u] \in Requests /\ work[u].op \in AnnotationKinds /\ UsersOK /\ ~Idle(u)
    BY UserOK DEF LoadAnnotation, At, Typed, Idle
  <1>2. SearchOf(part) \in Texts2
    BY DEF Typed, DocumentsOK, SearchOf, Texts2
  <1>3. \A p \in {"save", "repair"} : /\ w(p) \in Requests /\ w(p).phase = p /\ w(p).op \in AnnotationKinds
                                      /\ w(p).seen = annotation /\ w(p).was = SearchOf(part)
    BY <1>1, <1>2 DEF Typed, DocumentsOK, Requests, Texts2
  <1>4. \A p \in {"save", "repair"} : RequestOK(w(p), tabs[u].page, layers')
    BY <1>2, <1>3 DEF RequestOK, Typed, DocumentsOK, AnnotationKinds, MarkupKinds
  <1>5. Done(u) \/ \E p \in {"save", "repair"} : Move(u, w(p))
    BY DEF LoadAnnotation
  <1>6. UNCHANGED <<layers, tabs>>
    BY DEF LoadAnnotation, documents
  <1> HIDE DEF w
  <1>7. UsersOK'
    BY <1>1, <1>3, <1>4, <1>5, <1>6, MovedOn, Ended
  <1>8. DocumentsOK'
    BY DEF Typed, DocumentsOK, LoadAnnotation, documents, Serving
  <1> QED BY <1>7, <1>8 DEF Typed

LEMMA SearchSaved ==
  ASSUME DocumentsOK, NEW was \in Texts2, NEW text \in Texts2, SaveSearch(was, text)
  PROVE  part' \in [notes : Texts, comments : SUBSET Texts, pending : Nat] /\ part'.pending = part.pending
  BY DEF DocumentsOK, SaveSearch, Texts2, Field

LEMMA RepairSearchTyped ==
  ASSUME Typed, NEW u \in Users, RepairSearch(u)
  PROVE  Typed'
  <1> DEFINE text == SearchText(Notes(work[u].seen), Rows(work[u].seen))
             w == [work[u] EXCEPT !.was = text, !.phase = "save"]
  <1>1. /\ work[u] \in Requests /\ work[u].op \in AnnotationKinds /\ UsersOK
        /\ work[u].seen \in {Absent} \cup Annotations /\ work[u].was \in Texts2
    BY UserOK DEF RepairSearch, At, Typed, Idle, RequestOK
  <1>2. text \in Texts2
    BY <1>1, DocumentRead, TextsFound
  <1> HIDE DEF text
  <1>3. w \in Requests /\ w.phase = "save" /\ w.op = work[u].op /\ w.seen = work[u].seen /\ w.was = text
    BY <1>1, <1>2 DEF Requests, Texts2
  <1>4. RequestOK(w, tabs[u].page, layers')
    BY <1>1, <1>2, <1>3 DEF RequestOK, AnnotationKinds, MarkupKinds
  <1>5. Move(u, w) /\ SaveSearch(work[u].was, text) /\ UNCHANGED <<layers, tabs>>
    BY DEF RepairSearch, text
  <1> HIDE DEF w
  <1>6. UsersOK'
    BY <1>1, <1>3, <1>4, <1>5, MovedOn
  <1>7. DocumentsOK'
    BY <1>1, <1>2, <1>5, SearchSaved DEF Typed, DocumentsOK, RepairSearch, Serving
  <1> QED BY <1>6, <1>7 DEF Typed

\* A save goes on, refused or not, to the part; the document is typed.
LEMMA SavedOn ==
  ASSUME Typed, NEW u \in Users, At(u, "save"), UNCHANGED <<layers, tabs>>,
         NEW told \in Texts,
         \/ Done(u)
         \/ Move(u, [work[u] EXCEPT !.phase = "part"])
         \/ Move(u, [work[u] EXCEPT !.phase = "part", !.told = told])
  PROVE  UsersOK'
  <1>1. /\ work[u] \in Requests /\ work[u].op \in AnnotationKinds /\ UsersOK
        /\ RequestOK(work[u], tabs[u].page, layers) /\ work[u].phase = "save"
    BY UserOK DEF At, Typed, Idle, RequestOK
  <1>2. \A w \in {[work[u] EXCEPT !.phase = "part"], [work[u] EXCEPT !.phase = "part", !.told = told]} :
          w \in Requests /\ RequestOK(w, tabs[u].page, layers')
    <2> SUFFICES ASSUME NEW w, \/ w = [work[u] EXCEPT !.phase = "part"]
                               \/ w = [work[u] EXCEPT !.phase = "part", !.told = told]
                 PROVE  w \in Requests /\ RequestOK(w, tabs[u].page, layers')
      OBVIOUS
    <2>1. /\ w \in Requests /\ w.op = work[u].op /\ w.seen = work[u].seen /\ w.was = work[u].was
          /\ w.phase = "part"
      <3>1. CASE w = [work[u] EXCEPT !.phase = "part"]
        BY <1>1, <3>1 DEF Requests
      <3>2. CASE w = [work[u] EXCEPT !.phase = "part", !.told = told]
        BY <1>1, <3>2 DEF Requests
      <3> QED BY <3>1, <3>2
    <2> QED BY <1>1, <2>1 DEF RequestOK, AnnotationKinds, MarkupKinds
  <1> QED BY <1>1, <1>2, MovedOn, Ended

LEMMA SaverOK ==
  ASSUME Typed, NEW u \in Users, At(u, "save") \/ At(u, "part") \/ At(u, "repair")
  PROVE  /\ work[u] \in Requests /\ work[u].op \in AnnotationKinds
         /\ work[u].seen \in {Absent} \cup Annotations /\ work[u].was \in Texts2
         /\ NewRows(work[u]) \in Seq(Comments) /\ NewNotes(work[u]) \in Texts
         /\ work[u].seen # Absent => Told(work[u]) \in Texts /\ work[u].seen.notes \in Texts
                                    /\ work[u].seen.comments \in Seq(Comments)
         /\ work[u].n \in Texts
  <1>1. /\ work[u] \in Requests /\ work[u].op \in AnnotationKinds
        /\ work[u].seen \in {Absent} \cup Annotations /\ work[u].was \in Texts2
    BY UserOK DEF At, Typed, Idle, RequestOK
  <1>2. work[u].n \in Texts /\ 0 \in Texts
    BY <1>1, ReviewAssumption DEF Requests, Texts
  <1> QED BY <1>1, <1>2, RowsMade DEF Told, Annotations

LEMMA InsertAnnotationTyped ==
  ASSUME Typed, NEW u \in Users, InsertAnnotation(u)
  PROVE  Typed'
  <1>1. UsersOK'
    <2>1. 0 \in Texts
      BY ReviewAssumption DEF Texts
    <2>2. Done(u) \/ Move(u, [work[u] EXCEPT !.phase = "part"])
      BY DEF InsertAnnotation
    <2>3. At(u, "save") /\ UNCHANGED <<layers, tabs>>
      BY DEF InsertAnnotation
    <2> QED BY <2>1, <2>2, <2>3, SavedOn
  <1>2. annotation' \in {Absent} \cup Annotations /\ clock' \in Nat
    <2>1. /\ NewRows(work[u]) \in Seq(Comments) /\ NewNotes(work[u]) \in Texts /\ work[u].n \in Texts
          /\ clock \in Nat /\ annotation \in {Absent} \cup Annotations
      BY SaverOK DEF InsertAnnotation, Typed, DocumentsOK
    <2> QED BY <2>1 DEF InsertAnnotation, Annotations
  <1>3. DocumentsOK'
    BY <1>2 DEF Typed, DocumentsOK, InsertAnnotation, Serving
  <1> QED BY <1>1, <1>3 DEF Typed

LEMMA DeleteAnnotationTyped ==
  ASSUME Typed, NEW u \in Users, DeleteAnnotation(u)
  PROVE  Typed'
  <1>1. UsersOK'
    BY SavedOn, SaverOK DEF DeleteAnnotation
  <1>2. DocumentsOK'
    BY DEF Typed, DocumentsOK, DeleteAnnotation, Serving
  <1> QED BY <1>1, <1>2 DEF Typed

LEMMA UpdateAnnotationTyped ==
  ASSUME Typed, NEW u \in Users, UpdateAnnotation(u)
  PROVE  Typed'
  <1>1. UsersOK'
    BY SavedOn, SaverOK DEF UpdateAnnotation
  <1>2. annotation' \in {Absent} \cup Annotations /\ clock' \in Nat /\ orphan' \in BOOLEAN
    <2>1. /\ NewRows(work[u]) \in Seq(Comments) /\ NewNotes(work[u]) \in Texts
          /\ clock \in Nat /\ annotation \in {Absent} \cup Annotations /\ orphan \in BOOLEAN
      BY SaverOK DEF UpdateAnnotation, Typed, DocumentsOK
    <2>2. CASE Stored(work[u])
      <3>1. annotation \in Annotations
        BY <2>1, <2>2 DEF Stored
      <3>2. \A n \in Texts, rows \in Seq(Comments), k \in Nat :
              [annotation EXCEPT !.notes = n, !.comments = rows, !.stamp = k] \in Annotations
        BY <3>1 DEF Annotations
      <3>3. annotation.notes \in Texts /\ annotation.comments \in Seq(Comments)
        BY <3>1 DEF Annotations
      <3>4. PICK n, rows : annotation' = [annotation EXCEPT !.notes = n, !.comments = rows, !.stamp = clock']
                           /\ n \in {NewNotes(work[u]), annotation.notes}
                           /\ rows \in {NewRows(work[u]), annotation.comments}
        BY <2>2 DEF UpdateAnnotation, Field
      <3>5. clock' = clock + 1 /\ UNCHANGED orphan
        BY <2>2 DEF UpdateAnnotation
      <3>6. n \in Texts /\ rows \in Seq(Comments) /\ clock' \in Nat
        BY <2>1, <3>3, <3>4, <3>5
      <3> QED BY <2>1, <3>2, <3>4, <3>5, <3>6
    <2>3. CASE ~Stored(work[u])
      BY <2>1, <2>3 DEF UpdateAnnotation
    <2> QED BY <2>2, <2>3
  <1>3. DocumentsOK'
    BY <1>2 DEF Typed, DocumentsOK, UpdateAnnotation, Serving
  <1> QED BY <1>1, <1>3 DEF Typed

LEMMA SavePartTyped ==
  ASSUME Typed, NEW u \in Users, SavePart(u)
  PROVE  Typed'
  <1> DEFINE w == [work[u] EXCEPT !.phase = "count", !.seen = Absent, !.was = Absent]
             text == SearchText(NewNotes(work[u]), NewRows(work[u]))
  <1>1. /\ work[u] \in Requests /\ work[u].op \in AnnotationKinds /\ work[u].was \in Texts2 /\ text \in Texts2
    BY SaverOK, TextsFound DEF SavePart
  <1> HIDE DEF text
  <1>2. w \in Requests /\ w.phase = "count" /\ w.op \in AnnotationKinds
    BY <1>1 DEF Requests
  <1>3. RequestOK(w, tabs[u].page, layers')
    BY <1>2 DEF RequestOK, AnnotationKinds, MarkupKinds
  <1>4. (Done(u) \/ Move(u, w)) /\ SaveSearch(work[u].was, text) /\ UNCHANGED <<layers, tabs>>
    BY DEF SavePart, text
  <1> HIDE DEF w
  <1>5. UsersOK'
    BY <1>2, <1>3, <1>4, MovedOn, Ended DEF Typed
  <1>6. DocumentsOK'
    BY <1>1, <1>4, SearchSaved DEF Typed, DocumentsOK, SavePart, Serving
  <1> QED BY <1>5, <1>6 DEF Typed

\* A markup request that goes on.
LEMMA MarkupOK ==
  ASSUME Typed, NEW u \in Users, At(u, "write") \/ At(u, "reload")
  PROVE  /\ work[u] \in Requests /\ work[u].op \in MarkupKinds /\ Page(u) # Absent /\ Page(u) \in Pages
         /\ work[u].source \in Sources /\ work[u].n \in Texts /\ work[u].canvas \subseteq Objects
         /\ RequestOK(work[u], tabs[u].page, layers)
  <1>1. work[u] \in Requests /\ RequestOK(work[u], tabs[u].page, layers)
    BY UserOK DEF At, Typed, Idle
  <1>2. work[u].op \in MarkupKinds
    BY <1>1 DEF At, RequestOK, MarkupKinds
  <1> QED BY <1>1, <1>2, PageTyped DEF RequestOK, Page, Requests

LEMMA LoadLayerTyped ==
  ASSUME Typed, NEW u \in Users, LoadLayer(u)
  PROVE  Typed'
  <1> DEFINE l == layers[work[u].source]
             w == [work[u] EXCEPT !.seen = l, !.phase = "write"]
  <1>1. work[u] \in Requests /\ work[u].op \in MarkupKinds /\ UsersOK /\ tabs[u].page # Absent
    BY UserOK DEF LoadLayer, At, Typed, Idle, RequestOK
  <1>2. work[u].source \in Sources /\ l \in {Absent} \cup Layers
    BY <1>1 DEF Typed, DocumentsOK, Requests
  <1>3. UNCHANGED layers
    BY DEF LoadLayer, documents
  <1>4. \/ Conflict(u)
        \/ Done(u) /\ UNCHANGED tabs
        \/ /\ Move(u, w) /\ UNCHANGED tabs
           /\ work[u].op = "canvas" => work[u].base = IF l = Absent THEN 0 ELSE l.version
           /\ work[u].op # "canvas" => l # Absent /\ (work[u].op \in OnThread => Has(l.threads, work[u].target))
    BY DEF LoadLayer
  <1>5. w \in Requests /\ w.op = work[u].op /\ w.phase = "write" /\ w.seen = l /\ w.base = work[u].base
        /\ w.target = work[u].target /\ w.source = work[u].source
    BY <1>1, <1>2 DEF Requests
  <1> HIDE DEF w
  <1>9. UsersOK'
    <2>1. CASE Conflict(u)
      BY <1>1, <1>3, <2>1, Conflicted
    <2>2. CASE Done(u) /\ UNCHANGED tabs
      BY <1>1, <1>3, <2>2, Ended
    <2>3. CASE ~Conflict(u) /\ ~(Done(u) /\ UNCHANGED tabs)
      <3> HIDE DEF l
      <3>1. RequestOK(w, tabs[u].page, layers)
        <4>1. /\ w.op \in MarkupKinds /\ w.seen \in {Absent} \cup Layers
              /\ w.op # "canvas" => w.seen # Absent /\ (w.op \in OnThread => Has(w.seen.threads, w.target))
              /\ w.op = "canvas" => w.base = IF w.seen = Absent THEN 0 ELSE w.seen.version
              /\ w.seen # Absent => layers[w.source] # Absent
          BY <1>1, <1>2, <1>4, <1>5, <2>3 DEF l
        <4>2. w.op \in OnThread => w.op # "canvas"
          BY DEF OnThread
        <4> QED BY <4>1, <4>2, <1>1, <1>5 DEF RequestOK
      <3> QED BY <3>1, <1>1, <1>3, <1>4, <1>5, <2>3, MovedOn
    <2> QED BY <2>1, <2>2, <2>3
  <1>10. DocumentsOK'
    BY DEF Typed, DocumentsOK, LoadLayer, documents, Serving
  <1> QED BY <1>9, <1>10 DEF Typed

\* Writing a layer that was there or was not leaves the layers typed.
LEMMA LayerWritten ==
  ASSUME DocumentsOK, NEW s \in Sources, NEW l \in Layers, layers' = [layers EXCEPT ![s] = l]
  PROVE  /\ layers' \in [Sources -> {Absent} \cup Layers]
         /\ layers'[s] = l /\ layers'[s] # Absent
         /\ \A r \in Sources : layers[r] # Absent => layers'[r] # Absent
         /\ \A r \in Sources \ {s} : layers'[r] = layers[r]
  BY Unlike DEF DocumentsOK

LEMMA InsertLayerTyped ==
  ASSUME Typed, NEW u \in Users, InsertLayer(u)
  PROVE  Typed'
  <1> DEFINE l == [canvas |-> work[u].canvas, threads |-> <<>>, version |-> 1]
             w == [work[u] EXCEPT !.version = 1, !.phase = "count", !.seen = Absent]
  <1>1. /\ work[u] \in Requests /\ Page(u) # Absent /\ work[u].source \in Sources
        /\ work[u].canvas \subseteq Objects /\ work[u].op = "canvas" /\ UsersOK /\ DocumentsOK
    BY MarkupOK DEF InsertLayer, Typed
  <1>2. l \in Layers
    BY <1>1, EmptySeq DEF Layers
  <1>3. w \in Requests /\ w.phase = "count" /\ w.op = "canvas"
    BY <1>1 DEF Requests
  <1>4. RequestOK(w, tabs[u].page, layers')
    BY <1>1, <1>3 DEF RequestOK, Page
  <1> HIDE DEF w, l
  <1>5. CASE layers[work[u].source] = Absent
    <2>1. layers' = [layers EXCEPT ![work[u].source] = l] /\ Move(u, w) /\ UNCHANGED tabs
      BY <1>5 DEF InsertLayer, l, w
    <2>2. UsersOK'
      BY <1>1, <1>2, <1>3, <1>4, <2>1, LayerWritten, MovedOn
    <2>3. DocumentsOK'
      BY <1>1, <1>2, <2>1, LayerWritten DEF DocumentsOK, InsertLayer, Serving
    <2> QED BY <2>2, <2>3 DEF Typed
  <1>6. CASE layers[work[u].source] # Absent
    <2>1. Conflict(u) /\ UNCHANGED layers
      BY <1>6 DEF InsertLayer
    <2>2. UsersOK'
      BY <1>1, <2>1, Conflicted DEF Page
    <2>3. DocumentsOK'
      BY <1>1, <2>1 DEF DocumentsOK, InsertLayer, Serving
    <2> QED BY <2>2, <2>3 DEF Typed
  <1> QED BY <1>5, <1>6

LEMMA SaveCanvasTyped ==
  ASSUME Typed, NEW u \in Users, SaveCanvas(u)
  PROVE  Typed'
  <1> DEFINE l == [canvas |-> work[u].canvas, threads |-> work[u].seen.threads, version |-> work[u].base + 1]
             w == [work[u] EXCEPT !.phase = "reload", !.seen = Absent]
  <1>1. /\ work[u] \in Requests /\ Page(u) # Absent /\ work[u].source \in Sources /\ work[u].base \in Nat
        /\ work[u].canvas \subseteq Objects /\ work[u].op = "canvas" /\ UsersOK /\ DocumentsOK
        /\ work[u].seen \in Layers
    BY MarkupOK DEF SaveCanvas, Typed, RequestOK, At, Requests
  <1>2. l \in Layers
    BY <1>1, MarkupRead DEF Layers
  <1>3. w \in Requests /\ w.phase = "reload" /\ w.op = "canvas" /\ w.source = work[u].source
    BY <1>1 DEF Requests
  <1> HIDE DEF w, l
  <1>5. CASE Unchanged(work[u])
    <2>1. layers' = [layers EXCEPT ![work[u].source] = l] /\ Move(u, w) /\ UNCHANGED tabs /\ Losing(work[u].source, l)
      BY <1>5 DEF SaveCanvas, l, w
    <2>2. layers'[work[u].source] # Absent
      BY <1>1, <1>2, <2>1, LayerWritten
    <2>3. RequestOK(w, tabs[u].page, layers')
      BY <1>1, <1>3, <2>2 DEF RequestOK, Page
    <2>4. UsersOK'
      BY <1>1, <1>2, <1>3, <2>3, <2>1, LayerWritten, MovedOn
    <2>5. DocumentsOK'
      BY <1>1, <1>2, <2>1, LayerWritten DEF DocumentsOK, SaveCanvas, Serving, Losing
    <2> QED BY <2>4, <2>5 DEF Typed
  <1>6. CASE ~Unchanged(work[u])
    <2>1. Conflict(u) /\ UNCHANGED <<layers, dropped>>
      BY <1>6 DEF SaveCanvas
    <2>2. UsersOK'
      BY <1>1, <2>1, Conflicted DEF Page
    <2>3. DocumentsOK'
      BY <1>1, <2>1 DEF DocumentsOK, SaveCanvas, Serving
    <2> QED BY <2>2, <2>3 DEF Typed
  <1> QED BY <1>5, <1>6

LEMMA ReloadLayerTyped ==
  ASSUME Typed, NEW u \in Users, ReloadLayer(u)
  PROVE  Typed'
  <1> DEFINE w == [work[u] EXCEPT !.version = layers[work[u].source].version, !.phase = "count"]
  <1>1. /\ work[u] \in Requests /\ Page(u) # Absent /\ UsersOK /\ DocumentsOK
        /\ work[u].source \in Sources /\ layers[work[u].source] # Absent
    BY MarkupOK DEF ReloadLayer, Typed, RequestOK, At
  <1>2. layers[work[u].source].version \in Nat
    BY <1>1, LayerOK, MarkupRead
  <1>3. w \in Requests /\ w.phase = "count" /\ w.op = work[u].op
    BY <1>1, <1>2 DEF Requests
  <1>4. RequestOK(w, tabs[u].page, layers')
    BY <1>1, <1>3 DEF RequestOK, Page
  <1>5. (Done(u) \/ Move(u, w)) /\ UNCHANGED <<layers, tabs>>
    BY DEF ReloadLayer, documents
  <1> HIDE DEF w
  <1>6. UsersOK'
    BY <1>1, <1>3, <1>4, <1>5, MovedOn, Ended
  <1>7. DocumentsOK'
    BY <1>1 DEF DocumentsOK, ReloadLayer, documents, Serving
  <1> QED BY <1>6, <1>7 DEF Typed

\* What a thread request saves.
LayerMade(w) == [layers[w.source] EXCEPT !.threads = SavedThreads(w, @), !.version = Bumped(w)]

LEMMA ThreadSaved ==
  ASSUME Typed, NEW u \in Users, SaveThread(u)
  PROVE  LET w == work[u] IN
         /\ w \in Requests /\ w.op \in ThreadKinds /\ w.source \in Sources /\ w.seen \in Layers
         /\ w.op \in OnThread => Has(w.seen.threads, w.target)
         /\ w.n \in Texts /\ w.target \in Texts
         /\ layers[w.source] \in Layers /\ layers[w.source] # Absent
         /\ LayerMade(w) \in Layers /\ LayerMade(w).canvas = layers[w.source].canvas
         /\ LayerMade(w).threads = SavedThreads(w, layers[w.source].threads)
         /\ LayerMade(w).version = w.seen.version + 1
         /\ layers' = [layers EXCEPT ![w.source] = LayerMade(w)]
  <1> DEFINE w == work[u]
             l == LayerMade(w)
  <1>1. /\ w \in Requests /\ w.op \in ThreadKinds /\ w.seen \in Layers /\ w.source \in Sources
        /\ w.op \in OnThread => Has(w.seen.threads, w.target)
        /\ layers[w.source] \in Layers /\ layers[w.source] # Absent
    <2>1. /\ w \in Requests /\ w.op \in MarkupKinds /\ w.op # "canvas" /\ w.phase = "write"
          /\ RequestOK(w, tabs[u].page, layers) /\ w.source \in Sources
      BY MarkupOK DEF SaveThread, At
    <2>2. w.seen # Absent /\ w.seen \in Layers /\ layers[w.source] # Absent /\ (w.op \in OnThread => Has(w.seen.threads, w.target))
      BY <2>1 DEF RequestOK
    <2> QED BY <2>1, <2>2, LayerOK DEF Typed, MarkupKinds, ThreadKinds
  <1>2. layers[w.source].threads \in Seq(Threads) /\ w.seen.version \in Nat /\ w.n \in Texts /\ w.target \in Texts
    BY <1>1, MarkupRead DEF Requests
  <1>3. SavedThreads(w, layers[w.source].threads) \in Seq(Threads)
    BY <1>1, <1>2, ThreadsMade
  <1>4. Bumped(w) = w.seen.version + 1 /\ Bumped(w) \in Nat
    BY <1>2 DEF Bumped
  <1>5. /\ l \in Layers /\ l.canvas = layers[w.source].canvas /\ l.version = Bumped(w)
        /\ l.threads = SavedThreads(w, layers[w.source].threads)
    BY <1>1, <1>3, <1>4 DEF Layers, LayerMade
  <1>6. layers' = [layers EXCEPT ![w.source] = l]
    BY DEF SaveThread, LayerMade
  <1> QED BY <1>1, <1>2, <1>4, <1>5, <1>6

LEMMA SaveThreadTyped ==
  ASSUME Typed, NEW u \in Users, SaveThread(u)
  PROVE  Typed'
  <1> DEFINE w == [work[u] EXCEPT !.version = LayerMade(work[u]).version, !.phase = "count", !.seen = Absent]
  <1>1. /\ work[u] \in Requests /\ work[u].source \in Sources /\ LayerMade(work[u]) \in Layers
        /\ layers' = [layers EXCEPT ![work[u].source] = LayerMade(work[u])]
        /\ UsersOK /\ DocumentsOK
    BY ThreadSaved DEF Typed
  <1>2. LayerMade(work[u]).version \in Nat /\ Page(u) # Absent
    BY <1>1, MarkupRead, MarkupOK DEF SaveThread
  <1>3. w \in Requests /\ w.phase = "count" /\ w.op = work[u].op
    BY <1>1, <1>2 DEF Requests
  <1>4. RequestOK(w, tabs[u].page, layers')
    BY <1>2, <1>3 DEF RequestOK, Page
  <1>5. Move(u, w) /\ UNCHANGED tabs
    BY DEF SaveThread, LayerMade
  <1> HIDE DEF w
  <1>6. UsersOK'
    BY <1>1, <1>3, <1>4, <1>5, LayerWritten, MovedOn
  <1>7. dropped' \in BOOLEAN /\ regressed' \in BOOLEAN
    BY <1>1 DEF SaveThread, Losing, DocumentsOK
  <1>8. DocumentsOK'
    BY <1>1, <1>7, LayerWritten DEF DocumentsOK, SaveThread, Serving
  <1> QED BY <1>6, <1>8 DEF Typed

LEMMA CountingOK ==
  ASSUME Typed, NEW u \in Users, At(u, "count") \/ At(u, "threads") \/ At(u, "store")
  PROVE  /\ work[u] \in Requests /\ RequestOK(work[u], tabs[u].page, layers) /\ work[u].count \in Nat
         /\ \A k \in Nat, p \in {"threads", "store"} :
              /\ [work[u] EXCEPT !.count = k, !.phase = p] \in Requests
              /\ RequestOK([work[u] EXCEPT !.count = k, !.phase = p], tabs[u].page, layers)
  <1>1. work[u] \in Requests /\ RequestOK(work[u], tabs[u].page, layers) /\ work[u].count \in Nat
    BY UserOK DEF At, Typed, Idle, Requests
  <1>2. ASSUME NEW k \in Nat, NEW p \in {"threads", "store"}, NEW w, w = [work[u] EXCEPT !.count = k, !.phase = p]
        PROVE  w \in Requests /\ RequestOK(w, tabs[u].page, layers)
    <2>1. w \in Requests /\ w.op = work[u].op /\ w.phase = p
      BY <1>1, <1>2 DEF Requests
    <2> QED BY <2>1, <1>1 DEF RequestOK
  <1> QED BY <1>1, <1>2

LEMMA CountCommentsTyped ==
  ASSUME Typed, NEW u \in Users, CountComments(u)
  PROVE  Typed'
  <1> DEFINE w == [work[u] EXCEPT !.count = Open(Rows(annotation)), !.phase = "threads"]
  <1>1. Open(Rows(annotation)) \in Nat
    BY DocumentRead, Counted DEF Typed, DocumentsOK
  <1>2. w \in Requests /\ RequestOK(w, tabs[u].page, layers) /\ Move(u, w) /\ UNCHANGED <<documents, tabs>>
    BY <1>1, CountingOK DEF CountComments
  <1> HIDE DEF w
  <1>3. UsersOK'
    BY <1>2, MovedOn DEF Typed, documents
  <1>4. DocumentsOK'
    BY DEF Typed, DocumentsOK, CountComments, documents, Serving
  <1> QED BY <1>3, <1>4 DEF Typed

LEMMA CountThreadsTyped ==
  ASSUME Typed, NEW u \in Users, CountThreads(u)
  PROVE  Typed'
  <1> DEFINE w == [work[u] EXCEPT !.count = @ + OpenThreads, !.phase = "store"]
  <1>1. work[u].count \in Nat /\ OpenThreads \in Nat /\ work[u] \in Requests
    BY CountingOK, OpenedFinite DEF CountThreads, OpenThreads
  <1>2. work[u].count + OpenThreads \in Nat /\ w = [work[u] EXCEPT !.count = work[u].count + OpenThreads, !.phase = "store"]
    BY <1>1
  <1>3. w \in Requests /\ RequestOK(w, tabs[u].page, layers)
    BY <1>2, CountingOK DEF CountThreads
  <1>4. (Done(u) \/ Move(u, w)) /\ UNCHANGED <<documents, tabs>>
    BY DEF CountThreads
  <1> HIDE DEF w
  <1>5. UsersOK'
    BY <1>3, <1>4, MovedOn, Ended DEF Typed, documents
  <1>6. DocumentsOK'
    BY DEF Typed, DocumentsOK, CountThreads, documents, Serving
  <1> QED BY <1>5, <1>6 DEF Typed

LEMMA AnsweredTyped ==
  ASSUME NEW w \in Requests, NEW u \in Users, Page(u) \in Pages
  PROVE  /\ Answered(u, w) \in Pages /\ Answered(u, w).base = w.version /\ Answered(u, w).source = Page(u).source
         /\ Answered(u, w).canvas = Page(u).canvas
         /\ w.op = "canvas" => Answered(u, w).saved = w.canvas /\ Answered(u, w).adopted = (w.version # w.base + 1)
         /\ w.op # "canvas" => Answered(u, w).adopted = TRUE
  <1>1. w.version \in Nat /\ w.canvas \subseteq Objects /\ (w.version # w.base + 1) \in BOOLEAN
    BY DEF Requests
  <1>2. CASE w.op = "canvas"
    BY <1>1, <1>2 DEF Pages, Answered
  <1>3. CASE w.op # "canvas"
    BY <1>1, <1>3 DEF Pages, Answered
  <1> QED BY <1>2, <1>3

LEMMA StoreCountTyped ==
  ASSUME Typed, NEW u \in Users, StoreCount(u)
  PROVE  Typed'
  <1>1. /\ work[u] \in Requests /\ RequestOK(work[u], tabs[u].page, layers) /\ work[u].count \in Nat
        /\ tabs[u] \in Tabs /\ UsersOK
    BY CountingOK, UserOK DEF StoreCount, Typed
  <1>2. DocumentsOK'
    BY <1>1 DEF Typed, DocumentsOK, StoreCount, Serving
  <1>3. CASE work[u].op \in MarkupKinds
    <2> DEFINE t == [tabs[u] EXCEPT !.page = Answered(u, work[u])]
    <2>1. Answered(u, work[u]) \in Pages
      BY <1>1, <1>3, PageTyped, AnsweredTyped DEF RequestOK, Page, Typed
    <2>2. t \in Tabs /\ tabs' = [tabs EXCEPT ![u] = t]
      BY <1>1, <1>3, <2>1 DEF Tabs, StoreCount, ShowPage, UsersOK
    <2> HIDE DEF t
    <2>3. UsersOK'
      BY <1>1, <2>2, Moved DEF StoreCount, Done
    <2> QED BY <1>2, <2>3 DEF Typed
  <1>4. CASE work[u].op \notin MarkupKinds
    <2>1. UsersOK'
      BY <1>1, <1>4, Ended DEF StoreCount
    <2> QED BY <1>2, <2>1 DEF Typed
  <1> QED BY <1>3, <1>4

LEMMA StepTyped ==
  ASSUME Typed, [Next]_vars
  PROVE  Typed'
  <1>1. CASE UNCHANGED vars
    BY <1>1 DEF Typed, DocumentsOK, UsersOK, vars, documents, history
  <1>2. CASE ReplaceDrawing
    BY <1>2 DEF Typed, DocumentsOK, UsersOK, ReplaceDrawing, documents, history
  <1>3. ASSUME NEW u \in Users, ServeAnnotation(u) PROVE Typed'
    BY <1>3, OpenNotesTyped, SendNotesTyped, SendCommentTyped, SendEditTyped, LoadAnnotationTyped, RepairSearchTyped,
       InsertAnnotationTyped, DeleteAnnotationTyped, UpdateAnnotationTyped, SavePartTyped DEF ServeAnnotation
  <1>4. ASSUME NEW u \in Users, ServeMarkup(u) PROVE Typed'
    BY <1>4, OpenPageTyped, DrawTyped, SendMarkupTyped, LoadLayerTyped, InsertLayerTyped, SaveCanvasTyped,
       ReloadLayerTyped, SaveThreadTyped DEF ServeMarkup
  <1>5. ASSUME NEW u \in Users, CountComments(u) \/ CountThreads(u) \/ StoreCount(u) PROVE Typed'
    BY <1>5, CountCommentsTyped, CountThreadsTyped, StoreCountTyped
  <1> QED BY <1>1, <1>2, <1>3, <1>4, <1>5 DEF Next, Serve

LEMMA InitTyped == Init => Typed
  <1> SUFFICES ASSUME Init PROVE Typed
    OBVIOUS
  <1>1. PICK s \in Starts :
          /\ annotation = s.annotation /\ layers = s.layers /\ sent = s.sent /\ source = s.source
          /\ part = [notes |-> SearchText(Notes(s.annotation), Rows(s.annotation)).notes,
                     comments |-> SearchText(Notes(s.annotation), Rows(s.annotation)).comments,
                     pending |-> s.pending]
    BY DEF Init
  <1>2. /\ s.sent \in Texts /\ s.source \in Sources
        /\ s.annotation \in {Absent} \cup Annotations /\ s.layers \in [Sources -> {Absent} \cup Layers]
        /\ s.pending = Open(Rows(s.annotation)) + Cardinality(Opened(s.layers))
    BY StartsAssumption
  <1>3. s.pending \in Nat
    BY <1>2, DocumentRead, Counted, OpenedFinite
  <1>4. SearchText(Notes(s.annotation), Rows(s.annotation)) \in Texts2
    BY <1>2, DocumentRead, TextsFound
  <1>5. part \in [notes : Texts, comments : SUBSET Texts, pending : Nat]
    BY <1>1, <1>3, <1>4 DEF Texts2
  <1>6. clock \in Nat
    BY <1>1, <1>2 DEF Init, Annotations
  <1>7. DocumentsOK
    BY <1>1, <1>2, <1>5, <1>6 DEF DocumentsOK, Init
  <1>8. UsersOK
    BY DEF Init, UsersOK, Tabs
  <1> QED BY <1>7, <1>8 DEF Typed

LEMMA SpecTyped == Spec => []Typed
  BY InitTyped, StepTyped, PTL DEF Spec

-------------------------------------------------------------------------------
(* Which actions touch what.                                               *)

SavesAnnotation(u) == InsertAnnotation(u) \/ DeleteAnnotation(u) \/ UpdateAnnotation(u)
SavesLayer(u)      == InsertLayer(u) \/ SaveCanvas(u) \/ SaveThread(u)
Sends(u)           == SendNotes(u) \/ SendComment(u) \/ SendEdit(u) \/ SendCanvas(u) \/ SendThread(u) \/ SendOnThread(u)
Browses(u)         == OpenNotes(u) \/ OpenPage(u) \/ Draw(u) \/ Erase(u)
Reads(u)           == LoadAnnotation(u) \/ LoadLayer(u) \/ ReloadLayer(u) \/ CountComments(u) \/ CountThreads(u)
SavesPart(u)       == RepairSearch(u) \/ SavePart(u) \/ StoreCount(u)

LEMMA Kinds ==
  ASSUME NEW u, Serve(u)
  PROVE  SavesAnnotation(u) \/ SavesLayer(u) \/ Sends(u) \/ Browses(u) \/ Reads(u) \/ SavesPart(u)
  BY DEF Serve, ServeAnnotation, ServeMarkup, SavesAnnotation, SavesLayer, Sends, Browses, Reads, SavesPart

LEMMA Sending ==
  ASSUME NEW u, Sends(u)
  PROVE  \E w : Send(u, w) /\ w.phase = "load" /\ w.n = sent + 1 /\ w.count = 0 /\ w.version = 0
  <1>1. CASE SendNotes(u)
    <2>1. PICK text, base : Send(u, [NewRequest("notes") EXCEPT !.text = text, !.base = base])
      BY <1>1 DEF SendNotes
    <2> DEFINE w == [NewRequest("notes") EXCEPT !.text = text, !.base = base]
    <2>2. Send(u, w) /\ w.phase = "load" /\ w.n = sent + 1 /\ w.count = 0 /\ w.version = 0
      BY <2>1 DEF NewRequest
    <2> HIDE DEF w
    <2> QED BY <2>2
  <1>2. CASE SendComment(u)
    BY <1>2 DEF SendComment, NewRequest
  <1>3. CASE SendEdit(u)
    <2>1. PICK op, t, to : Send(u, [NewRequest(op) EXCEPT !.target = t, !.to = to])
      BY <1>3 DEF SendEdit
    <2> DEFINE w == [NewRequest(op) EXCEPT !.target = t, !.to = to]
    <2>2. Send(u, w) /\ w.phase = "load" /\ w.n = sent + 1 /\ w.count = 0 /\ w.version = 0
      BY <2>1 DEF NewRequest
    <2> HIDE DEF w
    <2> QED BY <2>2
  <1>4. CASE SendCanvas(u)
    <2>1. Send(u, [NewRequest("canvas") EXCEPT !.source = Page(u).source, !.base = Page(u).base, !.canvas = Page(u).canvas])
      BY <1>4 DEF SendCanvas
    <2> DEFINE w == [NewRequest("canvas") EXCEPT !.source = Page(u).source, !.base = Page(u).base, !.canvas = Page(u).canvas]
    <2>2. Send(u, w) /\ w.phase = "load" /\ w.n = sent + 1 /\ w.count = 0 /\ w.version = 0
      BY <2>1 DEF NewRequest
    <2> HIDE DEF w
    <2> QED BY <2>2
  <1>5. CASE SendThread(u)
    <2>1. Send(u, [NewRequest("thread") EXCEPT !.source = Page(u).source])
      BY <1>5 DEF SendThread
    <2> DEFINE w == [NewRequest("thread") EXCEPT !.source = Page(u).source]
    <2>2. Send(u, w) /\ w.phase = "load" /\ w.n = sent + 1 /\ w.count = 0 /\ w.version = 0
      BY <2>1 DEF NewRequest
    <2> HIDE DEF w
    <2> QED BY <2>2
  <1>6. CASE SendOnThread(u)
    <2>1. PICK op, t, to : Send(u, [NewRequest(op) EXCEPT !.source = Page(u).source, !.target = t, !.to = to])
      BY <1>6 DEF SendOnThread
    <2> DEFINE w == [NewRequest(op) EXCEPT !.source = Page(u).source, !.target = t, !.to = to]
    <2>2. Send(u, w) /\ w.phase = "load" /\ w.n = sent + 1 /\ w.count = 0 /\ w.version = 0
      BY <2>1 DEF NewRequest
    <2> HIDE DEF w
    <2> QED BY <2>2
  <1> QED BY <1>1, <1>2, <1>3, <1>4, <1>5, <1>6 DEF Sends

\* What a step of no user's, or of one that saves nothing, leaves alone.
LEMMA Quiet ==
  ASSUME NEW u, Sends(u) \/ Browses(u) \/ Reads(u)
  PROVE  UNCHANGED documents /\ UNCHANGED <<kinds, source, clock, regressed, dropped>>
  <1>1. CASE Sends(u)
    <2>1. PICK w : Send(u, w)
      BY <1>1, Sending
    <2> QED BY <2>1 DEF Send
  <1>2. CASE Browses(u)
    BY <1>2 DEF Browses, OpenNotes, OpenPage, Draw, Erase, Editing, history
  <1>3. CASE Reads(u)
    BY <1>3 DEF Reads, LoadAnnotation, LoadLayer, ReloadLayer, CountComments, CountThreads, Serving
  <1> QED BY <1>1, <1>2, <1>3

LEMMA AnnotationKept ==
  ASSUME NEW u, Serve(u), ~SavesAnnotation(u)
  PROVE  UNCHANGED <<annotation, clock, orphan>>
  <1>1. CASE SavesLayer(u)
    BY <1>1 DEF SavesLayer, InsertLayer, SaveCanvas, SaveThread
  <1>2. CASE SavesPart(u)
    BY <1>2 DEF SavesPart, RepairSearch, SavePart, StoreCount
  <1> QED BY <1>1, <1>2, Kinds, Quiet DEF documents

LEMMA LayersKept ==
  ASSUME NEW u, Serve(u), ~SavesLayer(u)
  PROVE  UNCHANGED <<layers, regressed, dropped>>
  <1>1. CASE SavesAnnotation(u)
    BY <1>1 DEF SavesAnnotation, InsertAnnotation, DeleteAnnotation, UpdateAnnotation
  <1>2. CASE SavesPart(u)
    BY <1>2 DEF SavesPart, RepairSearch, SavePart, StoreCount
  <1> QED BY <1>1, <1>2, Kinds, Quiet DEF documents

\* A save of the annotation that is not refused.
LEMMA Goes ==
  ASSUME Typed, NEW u \in Users, SavesAnnotation(u)
  PROVE  Saving(u)
  <1>1. work[u] \in Requests /\ work[u].phase = "save" /\ work[u] # Absent /\ At(u, "save")
    BY SaverOK DEF SavesAnnotation, InsertAnnotation, DeleteAnnotation, UpdateAnnotation, At
  <1>2. \/ Done(u) \/ Move(u, [work[u] EXCEPT !.phase = "part"])
        \/ Move(u, [work[u] EXCEPT !.phase = "part", !.told = Told(work[u])])
    BY DEF SavesAnnotation, InsertAnnotation, DeleteAnnotation, UpdateAnnotation
  <1>3. [work[u] EXCEPT !.phase = "part"].phase = "part" /\ [work[u] EXCEPT !.phase = "part", !.told = Told(work[u])].phase = "part"
    BY <1>1 DEF Requests
  <1>4. work'[u] # work[u]
    BY <1>1, <1>2, <1>3 DEF Move, Done, Typed, UsersOK
  <1> QED BY <1>1, <1>4 DEF Saving

-------------------------------------------------------------------------------
(* Notes and comments.                                                     *)

\* No save writes notes and comments of a document that was there before.
LEMMA NotesApartStep ==
  ASSUME Typed, [Next]_vars, annotation # Absent, annotation' # Absent, annotation'.id = annotation.id
  PROVE  annotation'.notes = annotation.notes \/ annotation'.comments = annotation.comments
  <1>1. CASE UNCHANGED vars \/ ReplaceDrawing
    BY <1>1 DEF vars, documents, ReplaceDrawing
  <1>2. ASSUME NEW u \in Users, Serve(u)
        PROVE  annotation'.notes = annotation.notes \/ annotation'.comments = annotation.comments
    <2>1. CASE ~SavesAnnotation(u)
      BY <1>2, <2>1, AnnotationKept
    <2>2. CASE InsertAnnotation(u) \/ DeleteAnnotation(u)
      BY <2>2 DEF InsertAnnotation, DeleteAnnotation, Emptied
    <2>3. CASE UpdateAnnotation(u)
      <3> DEFINE w == work[u]
      <3>1. w.seen \in Annotations /\ annotation \in Annotations
        BY <2>3, SaverOK DEF UpdateAnnotation, Typed, DocumentsOK
      <3>2. Rows(w.seen) = w.seen.comments /\ Notes(w.seen) = w.seen.notes
        BY <3>1, Unlike DEF Rows, Notes
      <3>3. NewNotes(w) = w.seen.notes \/ NewRows(w) = w.seen.comments
        BY <3>2 DEF NewNotes, NewRows
      <3>4. CASE Stored(w)
        <4>1. annotation' = [annotation EXCEPT
                 !.notes    = Field(NewNotes(w), w.seen.notes, @),
                 !.comments = Field(NewRows(w), w.seen.comments, @),
                 !.stamp    = clock']
          BY <2>3, <3>4 DEF UpdateAnnotation
        <4>2. /\ annotation'.notes = Field(NewNotes(w), w.seen.notes, annotation.notes)
              /\ annotation'.comments = Field(NewRows(w), w.seen.comments, annotation.comments)
          BY <4>1, <3>1 DEF Annotations
        <4> QED BY <4>2, <3>3 DEF Field
      <3>5. CASE ~Stored(w)
        BY <2>3, <3>5 DEF UpdateAnnotation
      <3> QED BY <3>4, <3>5
    <2> QED BY <2>1, <2>2, <2>3 DEF SavesAnnotation
  <1> QED BY <1>1, <1>2 DEF Next

\* Whatever requests overlap, a save of comments never brings old notes back
\* and a save of notes never old comments (NotesApartFromComments).
THEOREM NotesStayApart == Spec => NotesApartFromComments
  <1>1. Typed /\ [Next]_vars => [annotation # Absent /\ annotation' # Absent /\ annotation'.id = annotation.id
          => annotation'.notes = annotation.notes \/ annotation'.comments = annotation.comments]_vars
    BY NotesApartStep
  <1> QED BY <1>1, SpecTyped, PTL DEF Spec, NotesApartFromComments

-------------------------------------------------------------------------------
(* What a request keeps while it is served.                                *)

Serves(u) == SavesAnnotation(u) \/ SavesLayer(u) \/ Reads(u) \/ SavesPart(u)

Same(w, x) ==
  /\ w.op = x.op /\ w.n = x.n /\ w.target = x.target /\ w.to = x.to /\ w.text = x.text
  /\ w.base = x.base /\ w.source = x.source /\ w.canvas = x.canvas

LEMMA Changed ==
  ASSUME NEW w \in Requests
  PROVE  /\ \A p : Same([w EXCEPT !.phase = p], w)
         /\ \A p, x : /\ Same([w EXCEPT !.phase = p, !.told = x], w)
                      /\ Same([w EXCEPT !.was = x, !.phase = p], w)
                      /\ Same([w EXCEPT !.seen = x, !.phase = p], w)
                      /\ Same([w EXCEPT !.phase = p, !.seen = x], w)
                      /\ Same([w EXCEPT !.version = x, !.phase = p], w)
                      /\ Same([w EXCEPT !.count = x, !.phase = p], w)
         /\ \A p, x, y : /\ Same([[w EXCEPT !.seen = x, !.was = y] EXCEPT !.phase = p], w)
                         /\ Same([w EXCEPT !.phase = p, !.seen = x, !.was = y], w)
                         /\ Same([w EXCEPT !.version = x, !.phase = p, !.seen = y], w)
  BY DEF Requests, Same

LEMMA MoveKeeps ==
  ASSUME Typed, NEW u \in Users, Serves(u)
  PROVE  /\ work[u] \in Requests
         /\ \E w : /\ Move(u, w)
                   /\ w = Absent \/ Same(w, work[u])
  <1>1. work[u] \in Requests
    <2>1. work[u] # Absent
      BY DEF Serves, SavesAnnotation, SavesLayer, Reads, SavesPart, InsertAnnotation, DeleteAnnotation, UpdateAnnotation,
             InsertLayer, SaveCanvas, SaveThread, LoadAnnotation, LoadLayer, ReloadLayer, CountComments, CountThreads,
             RepairSearch, SavePart, StoreCount, At
    <2> QED BY <2>1, UserOK DEF Typed, Idle
  <1> DEFINE Goal == \E w : Move(u, w) /\ (w = Absent \/ Same(w, work[u]))
  <1>2. ASSUME Done(u) PROVE Goal
    BY <1>2 DEF Done
  <1>3. CASE SavesAnnotation(u)
    BY <1>1, <1>2, <1>3, Changed DEF SavesAnnotation, InsertAnnotation, DeleteAnnotation, UpdateAnnotation
  <1>4. CASE InsertLayer(u) \/ SaveCanvas(u)
    BY <1>1, <1>2, <1>4, Changed DEF InsertLayer, SaveCanvas, Conflict
  <1>5. CASE SaveThread(u)
    <2>1. PICK k : Move(u, [work[u] EXCEPT !.version = k, !.phase = "count", !.seen = Absent])
      BY <1>5 DEF SaveThread
    <2> QED BY <1>1, <2>1, Changed
  <1>6. CASE LoadAnnotation(u)
    <2>1. Done(u) \/ \E p : Move(u, [[work[u] EXCEPT !.seen = annotation, !.was = SearchOf(part)] EXCEPT !.phase = p])
      BY <1>6 DEF LoadAnnotation
    <2>2. ASSUME NEW p, Move(u, [[work[u] EXCEPT !.seen = annotation, !.was = SearchOf(part)] EXCEPT !.phase = p])
          PROVE  Goal
      <3>1. Same([[work[u] EXCEPT !.seen = annotation, !.was = SearchOf(part)] EXCEPT !.phase = p], work[u])
        BY <1>1, Changed
      <3> QED BY <2>2, <3>1
    <2> QED BY <1>1, <1>2, <2>1, <2>2
  <1>7. CASE LoadLayer(u)
    BY <1>1, <1>2, <1>7, Changed DEF LoadLayer, Conflict
  <1>8. CASE ReloadLayer(u)
    BY <1>1, <1>2, <1>8, Changed DEF ReloadLayer
  <1>9. CASE CountComments(u)
    BY <1>1, <1>9, Changed DEF CountComments
  <1>10. CASE CountThreads(u)
    <2>1. [work[u] EXCEPT !.count = @ + OpenThreads, !.phase = "store"] = [work[u] EXCEPT !.count = work[u].count + OpenThreads, !.phase = "store"]
      BY <1>1 DEF Requests
    <2> QED BY <1>1, <1>2, <1>10, <2>1, Changed DEF CountThreads
  <1>11. CASE RepairSearch(u)
    BY <1>1, <1>11, Changed DEF RepairSearch
  <1>12. CASE SavePart(u)
    <2>1. Done(u) \/ Move(u, [work[u] EXCEPT !.phase = "count", !.seen = Absent, !.was = Absent])
      BY <1>12 DEF SavePart
    <2>2. Same([work[u] EXCEPT !.phase = "count", !.seen = Absent, !.was = Absent], work[u])
      BY <1>1, Changed
    <2> QED BY <1>1, <1>2, <2>1, <2>2
  <1>13. CASE StoreCount(u)
    BY <1>1, <1>2, <1>13 DEF StoreCount
  <1> QED BY <1>1, <1>3, <1>4, <1>5, <1>6, <1>7, <1>8, <1>9, <1>10, <1>11, <1>12, <1>13
          DEF Serves, SavesAnnotation, SavesLayer, Reads, SavesPart

\* The page is changed by a refusal and by an answer, the notes by nothing.
LEMMA ServedTab ==
  ASSUME Typed, NEW u \in Users, Serves(u)
  PROVE  /\ \E p : tabs' = [tabs EXCEPT ![u].page = p]
         /\ UNCHANGED <<source, kinds, sent, overlap>>
  <1>1. ASSUME UNCHANGED tabs PROVE \E p : tabs' = [tabs EXCEPT ![u].page = p]
    <2>1. tabs[u] \in Tabs
      BY UserOK DEF Typed
    <2>2. [tabs[u] EXCEPT !.page = tabs[u].page] = tabs[u]
      BY <2>1 DEF Tabs
    <2>3. [tabs EXCEPT ![u].page = tabs[u].page] = tabs
      BY <2>2 DEF Typed, UsersOK
    <2> QED BY <1>1, <2>3
  <1>2. UNCHANGED tabs \/ \E p : ShowPage(u, p)
    BY DEF Serves, SavesAnnotation, SavesLayer, Reads, SavesPart, InsertAnnotation, DeleteAnnotation, UpdateAnnotation,
           InsertLayer, SaveCanvas, SaveThread, LoadAnnotation, LoadLayer, ReloadLayer, CountComments, CountThreads,
           RepairSearch, SavePart, StoreCount, Conflict
  <1>3. UNCHANGED <<source, kinds, sent, overlap>>
    BY DEF Serves, SavesAnnotation, SavesLayer, Reads, SavesPart, InsertAnnotation, DeleteAnnotation, UpdateAnnotation,
           InsertLayer, SaveCanvas, SaveThread, LoadAnnotation, LoadLayer, ReloadLayer, CountComments, CountThreads,
           RepairSearch, SavePart, StoreCount, Serving
  <1> QED BY <1>1, <1>2, <1>3 DEF ShowPage

-------------------------------------------------------------------------------
(* A comment that goes away.                                               *)

\* The comments a request leaves are those it read, but the one it removes.
LEMMA IdsKept ==
  ASSUME NEW w \in Requests, w.op \in AnnotationKinds, w.seen \in {Absent} \cup Annotations,
         NEW c \in Ids(Rows(w.seen)), ~(w.op = "remove" /\ w.target = c)
  PROVE  c \in Ids(NewRows(w)) /\ NewRows(w) # <<>>
  <1>1. Rows(w.seen) \in Seq(Comments)
    BY DocumentRead
  <1>2. DOMAIN Rows(w.seen) = 1 .. Len(Rows(w.seen)) /\ Len(Rows(w.seen)) \in Nat
    BY <1>1, LenProperties
  <1>3. c \in Ids(NewRows(w))
    <2>1. CASE w.op = "notes"
      BY <2>1 DEF NewRows
    <2>2. CASE w.op = "comment"
      <3> DEFINE e == [id |-> w.n, status |-> "open", replies |-> {}]
                 rows == Rows(w.seen)
      <3>1. e \in Comments
        BY DEF Requests, Comments
      <3>2. NewRows(w) = Append(rows, e)
        BY <2>2 DEF NewRows
      <3> HIDE DEF e, rows
      <3>3. /\ \A i \in 1 .. Len(rows) : Append(rows, e)[i] = rows[i]
            /\ DOMAIN Append(rows, e) = 1 .. Len(rows) + 1
        BY <1>1, <3>1, AppendProperties, LenProperties DEF rows
      <3> QED BY <1>2, <3>2, <3>3 DEF Ids, rows
    <2>3. CASE w.op \in {"status", "reply"}
      BY <2>3, RowsMade DEF Ids
    <2>4. CASE w.op = "remove"
      BY <1>1, <2>4, WithoutOK DEF NewRows
    <2> QED BY <2>1, <2>2, <2>3, <2>4 DEF AnnotationKinds
  <1>4. Ids(<<>>) = {}
    BY EmptySeq DEF Ids
  <1> QED BY <1>3, <1>4

LEMMA CommentsLostStep ==
  ASSUME Typed, [Next]_vars, NEW c \in Ids(Rows(annotation)) \ Ids(Rows(annotation'))
  PROVE  \E u \in Users : /\ Saving(u)
                           /\ \/ work[u].op = "remove" /\ work[u].target = c
                              \/ work[u].seen # annotation
  <1>1. PICK u \in Users : Serve(u) /\ SavesAnnotation(u)
    <2>1. CASE UNCHANGED vars \/ ReplaceDrawing
      BY <2>1 DEF vars, documents, ReplaceDrawing
    <2> QED BY <2>1, AnnotationKept DEF Next
  <1>2. SUFFICES ASSUME work[u].seen = annotation, ~(work[u].op = "remove" /\ work[u].target = c)
                 PROVE  FALSE
    BY <1>1, Goes
  <1> DEFINE w == work[u]
  <1>3. /\ w \in Requests /\ w.op \in AnnotationKinds /\ w.seen \in {Absent} \cup Annotations
        /\ annotation \in {Absent} \cup Annotations
    BY <1>1, SaverOK DEF SavesAnnotation, InsertAnnotation, DeleteAnnotation, UpdateAnnotation, Typed, DocumentsOK
  <1>4. c \in Ids(NewRows(w)) /\ NewRows(w) # <<>>
    BY <1>2, <1>3, IdsKept
  <1>5. annotation # Absent /\ annotation \in Annotations
    <2>1. Ids(<<>>) = {}
      BY EmptySeq DEF Ids
    <2> QED BY <1>3, <2>1 DEF Rows
  <1>6. CASE InsertAnnotation(u)
    BY <1>2, <1>5, <1>6 DEF InsertAnnotation
  <1>7. CASE DeleteAnnotation(u)
    BY <1>4, <1>7 DEF DeleteAnnotation, Emptied
  <1>8. CASE UpdateAnnotation(u)
    <2>1. Stored(w)
      BY <1>2, <1>5 DEF Stored
    <2>2. annotation' = [annotation EXCEPT
             !.notes    = Field(NewNotes(w), w.seen.notes, @),
             !.comments = Field(NewRows(w), w.seen.comments, @),
             !.stamp    = clock']
      BY <1>8, <2>1 DEF UpdateAnnotation
    <2>3. annotation'.comments = NewRows(w)
      BY <1>2, <1>5, <2>2 DEF Annotations, Field
    <2>4. annotation' # Absent
      <3>1. annotation' \in {Absent} \cup Annotations /\ annotation'.id = annotation.id
        BY <1>5, <1>8, <2>2, UpdateAnnotationTyped DEF Typed, DocumentsOK, Annotations
      <3>2. annotation' \in Annotations
        <4>1. NewNotes(w) \in Texts /\ NewRows(w) \in Seq(Comments) /\ clock' \in Nat
          BY <1>3, <1>8, RowsMade, UpdateAnnotationTyped DEF Typed, DocumentsOK
        <4>2. w.seen.notes \in Texts /\ w.seen.comments \in Seq(Comments)
          BY <1>2, <1>5 DEF Annotations
        <4> QED BY <1>2, <1>5, <2>2, <4>1, <4>2 DEF Annotations, Field
      <3> QED BY <3>2, Unlike
    <2> QED BY <1>4, <2>3, <2>4 DEF Rows
  <1> QED BY <1>1, <1>6, <1>7, <1>8 DEF SavesAnnotation

\* A comment goes away only by a request to remove it or by the save of a
\* request that had not read the latest comments (CommentsLostOnlyByOverlap).
THEOREM CommentsAreKept == Spec => CommentsLostOnlyByOverlap
  <1>1. Typed /\ [Next]_vars =>
          [\A c \in Ids(Rows(annotation)) \ Ids(Rows(annotation')) :
             \E u \in Users : /\ Saving(u)
                               /\ \/ work[u].op = "remove" /\ work[u].target = c
                                  \/ work[u].seen # annotation]_vars
    BY CommentsLostStep
  <1> QED BY <1>1, SpecTyped, PTL DEF Spec, CommentsLostOnlyByOverlap

-------------------------------------------------------------------------------
(* Notes that are replaced.                                                *)

\* Stamps are never given twice, so an editor that was loaded with the stamp of
\* the document, or a later one, was loaded with its notes.
LoadedNotes ==
  /\ annotation # Absent => annotation.stamp <= clock
  /\ \A u \in Users : tabs[u].notes # Absent =>
       /\ tabs[u].notes.stamp <= clock
       /\ annotation # Absent /\ annotation.stamp <= tabs[u].notes.stamp => tabs[u].notes.text = annotation.notes
  /\ \A u \in Users : work[u] # Absent /\ work[u].op = "notes" /\ work[u].base # 0 =>
       tabs[u].notes # Absent /\ work[u].base = tabs[u].notes.stamp

\* What an annotation looks like after a save.
LEMMA AnnotationSaved ==
  ASSUME Typed, NEW u \in Users, SavesAnnotation(u)
  PROVE  \/ UNCHANGED <<annotation, clock>>
         \/ annotation' = Absent /\ clock' \in {clock, clock + 1}
         \/ annotation' \in Annotations /\ annotation'.stamp = clock + 1 /\ clock' = clock + 1
  <1>1. annotation' \in {Absent} \cup Annotations /\ clock' \in Nat
    BY InsertAnnotationTyped, DeleteAnnotationTyped, UpdateAnnotationTyped DEF SavesAnnotation, Typed, DocumentsOK
  <1>2. CASE InsertAnnotation(u)
    BY <1>1, <1>2 DEF InsertAnnotation
  <1>3. CASE DeleteAnnotation(u)
    BY <1>3 DEF DeleteAnnotation
  <1>4. CASE UpdateAnnotation(u)
    <2>1. CASE Stored(work[u])
      <3>1. annotation \in Annotations /\ clock' = clock + 1
        BY <1>4, <2>1 DEF Stored, Typed, DocumentsOK, UpdateAnnotation
      <3>2. annotation'.stamp = clock'
        BY <1>4, <2>1, <3>1 DEF UpdateAnnotation, Annotations
      <3> QED BY <1>1, <3>1, <3>2
    <2>2. CASE ~Stored(work[u])
      BY <1>4, <2>2 DEF UpdateAnnotation
    <2> QED BY <2>1, <2>2
  <1> QED BY <1>2, <1>3, <1>4 DEF SavesAnnotation

LEMMA LoadedAfterSave ==
  ASSUME Typed, LoadedNotes, NEW u \in Users, SavesAnnotation(u)
  PROVE  /\ annotation' # Absent => annotation'.stamp <= clock'
         /\ \A v \in Users : tabs[v].notes # Absent =>
              /\ tabs[v].notes.stamp <= clock'
              /\ annotation' # Absent /\ annotation'.stamp <= tabs[v].notes.stamp
                   => tabs[v].notes.text = annotation'.notes
  <1>1. clock \in Nat /\ \A v \in Users : tabs[v].notes # Absent => tabs[v].notes.stamp \in Nat
    BY UserOK DEF Typed, DocumentsOK, Tabs
  <1>2. CASE UNCHANGED <<annotation, clock>>
    BY <1>2 DEF LoadedNotes
  <1>3. CASE annotation' = Absent /\ clock' \in {clock, clock + 1}
    BY <1>1, <1>3 DEF LoadedNotes
  <1>4. CASE annotation' \in Annotations /\ annotation'.stamp = clock + 1 /\ clock' = clock + 1
    BY <1>1, <1>4 DEF LoadedNotes
  <1> QED BY <1>2, <1>3, <1>4, AnnotationSaved

LEMMA LoadedNotesStep ==
  ASSUME Typed, LoadedNotes, [Next]_vars
  PROVE  LoadedNotes'
  <1>1. CASE UNCHANGED vars \/ ReplaceDrawing
    BY <1>1 DEF vars, documents, history, ReplaceDrawing, LoadedNotes
  <1>2. ASSUME NEW u \in Users, Serves(u), Serve(u) PROVE LoadedNotes'
    <2>1. PICK w : Move(u, w) /\ (w = Absent \/ Same(w, work[u]))
      BY <1>2, MoveKeeps
    <2>2. work[u] \in Requests /\ work[u] # Absent
      BY <1>2, MoveKeeps, Unlike
    <2>3. \A v \in Users : tabs'[v].notes = tabs[v].notes
      BY <1>2, ServedTab DEF Typed, UsersOK, Tabs
    <2>4. \A v \in Users : work'[v] # Absent =>
            work[v] # Absent /\ work'[v].op = work[v].op /\ work'[v].base = work[v].base
      BY <2>1, <2>2 DEF Move, Same, Typed, UsersOK
    <2>5. \/ SavesAnnotation(u) \/ UNCHANGED <<annotation, clock>>
      BY <1>2, AnnotationKept
    <2>6. CASE SavesAnnotation(u)
      BY <2>3, <2>4, <2>6, LoadedAfterSave DEF LoadedNotes
    <2>7. CASE UNCHANGED <<annotation, clock>>
      BY <2>3, <2>4, <2>7 DEF LoadedNotes
    <2> QED BY <2>5, <2>6, <2>7
  <1>3. ASSUME NEW u \in Users, OpenNotes(u) PROVE LoadedNotes'
    <2>1. annotation \in Annotations /\ Idle(u) /\ clock \in Nat
      BY <1>3 DEF OpenNotes, Typed, DocumentsOK
    <2>2. UNCHANGED <<annotation, clock, work>>
      BY <1>3 DEF OpenNotes, documents, history
    <2>3. tabs'[u].notes = [text |-> annotation.notes, stamp |-> annotation.stamp]
      BY <1>3, UserOK DEF OpenNotes, Typed, UsersOK, Tabs
    <2>4. \A v \in Users \ {u} : tabs'[v] = tabs[v]
      BY <1>3 DEF OpenNotes, Typed, UsersOK
    <2>5. annotation.stamp \in Nat /\ tabs'[u].notes.text = annotation.notes /\ tabs'[u].notes.stamp = annotation.stamp
      BY <2>1, <2>3 DEF Annotations
    <2>6. annotation # Absent => annotation.stamp <= clock
      BY DEF LoadedNotes
    <2>7. ASSUME NEW v \in Users, tabs'[v].notes # Absent
          PROVE  /\ tabs'[v].notes.stamp <= clock
                 /\ annotation # Absent /\ annotation.stamp <= tabs'[v].notes.stamp => tabs'[v].notes.text = annotation.notes
      <3>1. CASE v = u
        BY <2>1, <2>5, <2>6, <3>1, Unlike
      <3>2. CASE v # u
        BY <2>4, <2>7, <3>2 DEF LoadedNotes
      <3> QED BY <3>1, <3>2
    <2>8. ASSUME NEW v \in Users, work[v] # Absent, work[v].op = "notes", work[v].base # 0
          PROVE  tabs'[v].notes # Absent /\ work[v].base = tabs'[v].notes.stamp
      BY <2>1, <2>4, <2>8 DEF LoadedNotes, Idle
    <2> QED BY <2>2, <2>6, <2>7, <2>8 DEF LoadedNotes
  <1>4. ASSUME NEW u \in Users, OpenPage(u) \/ Draw(u) \/ Erase(u) PROVE LoadedNotes'
    <2>1. PICK p : ShowPage(u, p) /\ Editing
      BY <1>4 DEF OpenPage, Draw, Erase
    <2>2. \A v \in Users : tabs'[v].notes = tabs[v].notes
      BY <2>1 DEF ShowPage, Typed, UsersOK, Tabs
    <2> QED BY <2>1, <2>2 DEF LoadedNotes, Editing, documents, history
  <1>5. ASSUME NEW u \in Users, Sends(u) PROVE LoadedNotes'
    <2>1. PICK w : Send(u, w)
      BY <1>5, Sending
    <2>2. UNCHANGED <<annotation, clock, tabs>> /\ work' = [work EXCEPT ![u] = w]
      BY <2>1 DEF Send, documents, Move
    <2>3. work'[u].op = "notes" /\ work'[u].base # 0 => tabs[u].notes # Absent /\ work'[u].base = tabs[u].notes.stamp
      <3>1. CASE SendNotes(u)
        <4>1. PICK text \in {0, sent + 1}, base \in {0} \cup (IF tabs[u].notes = Absent THEN {} ELSE {tabs[u].notes.stamp}) :
                Send(u, [NewRequest("notes") EXCEPT !.text = text, !.base = base])
          BY <3>1 DEF SendNotes
        <4>2. work'[u].base = base
          BY <4>1 DEF Send, Move, NewRequest, Typed, UsersOK
        <4> QED BY <4>2
      <3>2. CASE SendComment(u)
        BY <3>2 DEF SendComment, Send, Move, NewRequest, Typed, UsersOK
      <3>3. CASE SendEdit(u)
        <4>1. PICK op \in Targeted : \E t, to : Send(u, [NewRequest(op) EXCEPT !.target = t, !.to = to])
          BY <3>3 DEF SendEdit
        <4>2. work'[u].op = op
          BY <4>1 DEF Send, Move, NewRequest, Typed, UsersOK
        <4> QED BY <4>2 DEF Targeted
      <3>4. CASE SendCanvas(u)
        <4>1. work'[u].op = "canvas"
          BY <3>4 DEF SendCanvas, Send, Move, NewRequest, Typed, UsersOK
        <4> QED BY <4>1
      <3>5. CASE SendThread(u)
        <4>1. work'[u].op = "thread"
          BY <3>5 DEF SendThread, Send, Move, NewRequest, Typed, UsersOK
        <4> QED BY <4>1
      <3>6. CASE SendOnThread(u)
        <4>1. PICK op \in OnThread : \E t, to : Send(u, [NewRequest(op) EXCEPT !.source = Page(u).source, !.target = t, !.to = to])
          BY <3>6 DEF SendOnThread
        <4>2. work'[u].op = op
          BY <4>1 DEF Send, Move, NewRequest, Typed, UsersOK
        <4> QED BY <4>2 DEF OnThread
      <3> QED BY <1>5, <3>1, <3>2, <3>3, <3>4, <3>5, <3>6 DEF Sends
    <2>4. \A v \in Users \ {u} : work'[v] = work[v]
      BY <2>2 DEF Typed, UsersOK
    <2> QED BY <2>2, <2>3, <2>4 DEF LoadedNotes
  <1> QED BY <1>1, <1>2, <1>3, <1>4, <1>5, Kinds DEF Next, Browses, Serves

LEMMA LoadedNotesInit == Init => LoadedNotes
  BY StartsAssumption DEF Init, LoadedNotes, Annotations

LEMMA ReplacedNotesStep ==
  ASSUME Typed, LoadedNotes, [Next]_vars, Notes(annotation) # 0, Notes(annotation') # Notes(annotation)
  PROVE  \E u \in Users :
           /\ Saving(u)
           /\ \/ work[u].seen # annotation
              \/ /\ work[u].op = "notes"
                 /\ \/ work[u].base = 0
                    \/ tabs[u].notes.text = Notes(annotation)
                    \/ work'[u].told = Notes(annotation)
  <1>1. PICK u \in Users : Serve(u) /\ SavesAnnotation(u)
    <2>1. CASE UNCHANGED vars \/ ReplaceDrawing
      BY <2>1 DEF vars, documents, ReplaceDrawing
    <2> QED BY <2>1, AnnotationKept DEF Next
  <1> DEFINE w == work[u]
  <1>2. SUFFICES ASSUME w.seen = annotation
                 PROVE  /\ w.op = "notes"
                        /\ \/ w.base = 0
                           \/ tabs[u].notes.text = Notes(annotation)
                           \/ work'[u].told = Notes(annotation)
    BY <1>1, Goes
  <1>3. /\ w \in Requests /\ w.op \in AnnotationKinds /\ annotation \in Annotations /\ annotation # Absent
        /\ Notes(annotation) = annotation.notes /\ Notes(w.seen) = w.seen.notes
    BY <1>1, <1>2, SaverOK DEF SavesAnnotation, InsertAnnotation, DeleteAnnotation, UpdateAnnotation, Typed, DocumentsOK, Notes
  <1>4. ~InsertAnnotation(u) /\ Stored(w)
    BY <1>2, <1>3 DEF InsertAnnotation, Stored
  <1>5. Move(u, [w EXCEPT !.phase = "part", !.told = Told(w)])
    BY <1>1, <1>4 DEF SavesAnnotation, DeleteAnnotation, UpdateAnnotation
  <1>6. work'[u].told = Told(w)
    BY <1>3, <1>5 DEF Move, Typed, UsersOK, Requests
  <1>7. w.op = "notes"
    <2>1. SUFFICES ASSUME w.op # "notes" PROVE FALSE
      OBVIOUS
    <2>2. NewNotes(w) = annotation.notes
      BY <1>2, <1>3, <2>1 DEF NewNotes
    <2>3. CASE DeleteAnnotation(u)
      BY <1>3, <2>2, <2>3 DEF DeleteAnnotation, Emptied
    <2>4. CASE UpdateAnnotation(u)
      <3>1. annotation' = [annotation EXCEPT
               !.notes    = Field(NewNotes(w), w.seen.notes, @),
               !.comments = Field(NewRows(w), w.seen.comments, @),
               !.stamp    = clock']
        BY <1>4, <2>4 DEF UpdateAnnotation
      <3>2. annotation'.notes = annotation.notes
        BY <1>2, <1>3, <2>2, <3>1 DEF Annotations, Field
      <3>3. annotation' # Absent
        <4>1. NewNotes(w) \in Texts /\ NewRows(w) \in Seq(Comments) /\ clock' \in Nat
          BY <1>2, <1>3, <2>4, RowsMade, UpdateAnnotationTyped DEF Typed, DocumentsOK
        <4>2. annotation.notes \in Texts /\ annotation.comments \in Seq(Comments)
          BY <1>3 DEF Annotations
        <4>3. annotation' \in Annotations
          BY <1>2, <1>3, <3>1, <4>1, <4>2 DEF Annotations, Field
        <4> QED BY <4>3, Unlike
      <3> QED BY <1>3, <3>2, <3>3 DEF Notes
    <2> QED BY <1>1, <1>4, <2>3, <2>4 DEF SavesAnnotation
  <1>8. CASE w.base # 0 /\ w.seen.stamp > w.base
    BY <1>2, <1>3, <1>6, <1>7, <1>8 DEF Told
  <1>9. CASE w.base # 0 /\ ~(w.seen.stamp > w.base)
    <2>1. tabs[u].notes # Absent /\ w.base = tabs[u].notes.stamp
      BY <1>3, <1>7, <1>9, Unlike DEF LoadedNotes
    <2>2. annotation.stamp \in Nat /\ w.base \in Nat
      BY <1>3 DEF Annotations, Requests
    <2>3. annotation.stamp <= tabs[u].notes.stamp
      BY <1>2, <1>9, <2>1, <2>2
    <2> QED BY <1>3, <1>7, <2>1, <2>3 DEF LoadedNotes
  <1> QED BY <1>7, <1>8, <1>9

\* Notes that are replaced go back to the one who replaces them, unless the
\* client does not say what it had loaded or requests overlapped
\* (ReplacedNotesAreReturned).
THEOREM NotesAreReturned == Spec => ReplacedNotesAreReturned
  <1>1. Typed /\ LoadedNotes /\ [Next]_vars =>
          [Notes(annotation) # 0 /\ Notes(annotation') # Notes(annotation) =>
             \E u \in Users :
               /\ Saving(u)
               /\ \/ work[u].seen # annotation
                  \/ /\ work[u].op = "notes"
                     /\ \/ work[u].base = 0
                        \/ tabs[u].notes.text = Notes(annotation)
                        \/ work'[u].told = Notes(annotation)]_vars
    BY ReplacedNotesStep
  <1>2. Typed /\ LoadedNotes /\ [Next]_vars => LoadedNotes'
    BY LoadedNotesStep
  <1> QED BY <1>1, <1>2, SpecTyped, LoadedNotesInit, PTL DEF Spec, ReplacedNotesAreReturned

-------------------------------------------------------------------------------
(* Messages and their threads.                                             *)

\* Requests are numbered in the order they are sent.
Numbered ==
  \A u \in Users : work[u] # Absent =>
    /\ work[u].n \in 1 .. sent
    /\ \A v \in Users : v # u /\ work[v] # Absent => work[v].n # work[u].n

\* Every thread has an id of its own and the messages that were sent to it.
Addressing(t) == \A m \in t.messages : m[2] = t.id
ThreadsOK(s, n) == Distinct(s) /\ \A i \in DOMAIN s : s[i].id \in 1 .. n /\ Addressing(s[i])

\* The entries of seen are where stored has them.
Matches(seen, stored) ==
  Len(seen) <= Len(stored) /\ \A i \in 1 .. Len(seen) : seen[i].id = stored[i].id

\* As long as no thread left its layer, a position found when a layer was read
\* is the position of the same thread when it is written.
InPlace ==
  /\ \A s \in Sources : layers[s] # Absent => ThreadsOK(layers[s].threads, sent)
  /\ \A u \in Users : work[u] # Absent =>
       /\ work[u].phase \in {"load", "write"} =>
            \A s \in Sources : layers[s] # Absent => work[u].n \notin Ids(layers[s].threads)
       /\ work[u].phase = "write" /\ work[u].seen # Absent =>
            /\ Matches(work[u].seen.threads, layers[work[u].source].threads)
            /\ \A i \in DOMAIN work[u].seen.threads : Addressing(work[u].seen.threads[i])

PositionsOK == Numbered /\ (~dropped => InPlace)

LEMMA NumberedStep ==
  ASSUME Typed, Numbered, [Next]_vars
  PROVE  Numbered' /\ sent <= sent'
  <1>1. sent \in Nat
    BY DEF Typed, DocumentsOK, Texts
  <1>2. CASE UNCHANGED vars \/ ReplaceDrawing
    BY <1>1, <1>2 DEF vars, ReplaceDrawing, Numbered
  <1>3. ASSUME NEW u \in Users, Serves(u) PROVE Numbered' /\ sent <= sent'
    <2>1. PICK w : Move(u, w) /\ (w = Absent \/ Same(w, work[u]))
      BY <1>3, MoveKeeps
    <2>2. work[u] # Absent /\ sent' = sent
      BY <1>3, MoveKeeps, ServedTab, Unlike
    <2>3. \A v \in Users : work'[v] # Absent => work[v] # Absent /\ work'[v].n = work[v].n
      BY <2>1, <2>2 DEF Move, Same, Typed, UsersOK
    <2> QED BY <1>1, <2>2, <2>3 DEF Numbered
  <1>4. ASSUME NEW u \in Users, Browses(u) PROVE Numbered' /\ sent <= sent'
    BY <1>1, <1>4 DEF Browses, OpenNotes, OpenPage, Draw, Erase, Editing, Numbered
  <1>5. ASSUME NEW u \in Users, Sends(u) PROVE Numbered' /\ sent <= sent'
    <2>1. PICK w : Send(u, w) /\ w.n = sent + 1
      BY <1>5, Sending
    <2>2. work' = [work EXCEPT ![u] = w] /\ sent' = sent + 1
      BY <2>1 DEF Send, Move
    <2>3. work'[u] = w /\ \A v \in Users \ {u} : work'[v] = work[v]
      BY <2>2 DEF Typed, UsersOK
    <2>4. \A v \in Users \ {u} : work'[v] # Absent => work'[v].n \in 1 .. sent
      BY <2>3 DEF Numbered
    <2>5. \A v \in Users \ {u} : work'[v] # Absent => work'[v].n \in 1 .. sent' /\ work'[v].n # w.n
      BY <1>1, <2>1, <2>2, <2>4
    <2> QED BY <1>1, <2>1, <2>2, <2>3, <2>5 DEF Numbered
  <1> QED BY <1>2, <1>3, <1>4, <1>5, Kinds DEF Next, Serves

\* Entries that are all still there are where they were.
LEMMA Complete ==
  ASSUME NEW seen \in Seq(Threads), NEW stored \in Seq(Threads), Matches(seen, stored), Distinct(stored),
         Ids(stored) \subseteq Ids(seen)
  PROVE  Len(stored) = Len(seen)
  <1>1. /\ Len(seen) \in Nat /\ DOMAIN seen = 1 .. Len(seen)
        /\ Len(stored) \in Nat /\ DOMAIN stored = 1 .. Len(stored)
    BY LenProperties
  <1>a. Len(seen) <= Len(stored)
    BY DEF Matches
  <1>2. ASSUME Len(seen) < Len(stored) PROVE FALSE
    <2>1. Len(stored) \in DOMAIN stored
      BY <1>1, <1>2
    <2>2. PICK i \in DOMAIN seen : seen[i].id = stored[Len(stored)].id
      BY <2>1 DEF Ids
    <2>3. i \in DOMAIN stored /\ stored[i].id = stored[Len(stored)].id
      BY <1>1, <1>2, <2>2 DEF Matches
    <2>4. i = Len(stored)
      BY <2>1, <2>3 DEF Distinct
    <2> QED BY <1>1, <1>2, <2>2, <2>4
  <1> DEFINE m == Len(seen)
             n == Len(stored)
  <1>3. m \in Nat /\ n \in Nat /\ m <= n /\ ~(m < n)
    BY <1>1, <1>a, <1>2
  <1> HIDE DEF m, n
  <1>4. n = m
    BY <1>3
  <1> QED BY <1>4 DEF m, n

LEMMA Transitive ==
  ASSUME NEW a \in Seq(Threads), NEW b \in Seq(Threads), NEW c \in Seq(Threads), Matches(a, b), Matches(b, c)
  PROVE  Matches(a, c)
  <1>1. Len(a) \in Nat /\ Len(b) \in Nat /\ Len(c) \in Nat
    BY LenProperties
  <1> QED BY <1>1 DEF Matches

\* The threads that a save makes of those it read and those that are stored:
\* if none leaves the layer, each stays in its place and keeps its messages.
Makes(u, new, stored) ==
  /\ new \in Seq(Threads) /\ ThreadsOK(new, sent) /\ Matches(stored, new)
  /\ Ids(new) \subseteq Ids(stored) \cup {work[u].n}

LEMMA CanvasKeepsThreads ==
  ASSUME Typed, InPlace, NEW u \in Users, SaveCanvas(u), Unchanged(work[u]), ~dropped'
  PROVE  Makes(u, work[u].seen.threads, layers[work[u].source].threads)
  <1> DEFINE seen == work[u].seen.threads
             stored == layers[work[u].source].threads
  <1>1. /\ work[u].source \in Sources /\ work[u].seen \in Layers /\ work[u] # Absent /\ work[u].phase = "write"
        /\ work[u].seen # Absent /\ layers[work[u].source] # Absent /\ work[u].n \in Texts
    BY MarkupOK DEF SaveCanvas, Typed, RequestOK, At
  <1>2. /\ seen \in Seq(Threads) /\ stored \in Seq(Threads) /\ DOMAIN seen = 1 .. Len(seen)
        /\ DOMAIN stored = 1 .. Len(stored)
    BY <1>1, LayerOK, MarkupRead DEF Typed
  <1>3. Matches(seen, stored) /\ ThreadsOK(stored, sent) /\ \A i \in DOMAIN seen : Addressing(seen[i])
    BY <1>1 DEF InPlace
  <1>4. Ids(stored) \subseteq Ids(seen)
    BY DEF SaveCanvas, Losing
  <1> HIDE DEF seen, stored
  <1>5. Len(stored) = Len(seen)
    BY <1>2, <1>3, <1>4, Complete DEF ThreadsOK
  <1>6. \A i \in DOMAIN seen : i \in DOMAIN stored /\ seen[i].id = stored[i].id
    BY <1>2, <1>3, <1>5 DEF Matches
  <1>7. ThreadsOK(seen, sent) /\ Ids(seen) \subseteq Ids(stored)
    BY <1>3, <1>6 DEF ThreadsOK, Distinct, Ids
  <1>8. Matches(stored, seen)
    BY <1>2, <1>5, <1>6, LenProperties DEF Matches
  <1> QED BY <1>2, <1>7, <1>8 DEF Makes, seen, stored

LEMMA ThreadKeepsThreads ==
  ASSUME Typed, Numbered, InPlace, NEW u \in Users, SaveThread(u), ~dropped'
  PROVE  Makes(u, LayerMade(work[u]).threads, layers[work[u].source].threads)
  <1> DEFINE w == work[u]
             seen == w.seen.threads
             stored == layers[w.source].threads
             new == SavedThreads(w, stored)
             i == Where(w)
  <1>1. /\ w \in Requests /\ w.op \in ThreadKinds /\ w.source \in Sources /\ w.seen \in Layers
        /\ w.op \in OnThread => Has(seen, w.target)
        /\ w.n \in Texts /\ w.target \in Texts
        /\ layers[w.source] \in Layers /\ layers[w.source] # Absent
        /\ LayerMade(w).threads = new
    BY ThreadSaved
  <1>2. w # Absent /\ w.phase = "write" /\ w.seen # Absent /\ w.n \in 1 .. sent /\ sent \in Nat
    BY <1>1, Unlike DEF SaveThread, At, Numbered, Typed, DocumentsOK, Texts
  <1>3. /\ seen \in Seq(Threads) /\ stored \in Seq(Threads) /\ new \in Seq(Threads)
        /\ DOMAIN seen = 1 .. Len(seen) /\ DOMAIN stored = 1 .. Len(stored)
        /\ Len(seen) \in Nat /\ Len(stored) \in Nat
        /\ \A j \in 1 .. Len(stored) : stored[j] \in Threads
    BY <1>1, MarkupRead, ThreadsMade
  <1>4. Matches(seen, stored) /\ ThreadsOK(stored, sent) /\ \A j \in DOMAIN seen : Addressing(seen[j])
    BY <1>1, <1>2 DEF InPlace
  <1>5. w.n \notin Ids(stored)
    BY <1>1, <1>2 DEF InPlace
  <1>6. Ids(stored) \subseteq Ids(new)
    BY <1>1 DEF SaveThread, Losing, LayerMade
  <1>7. w.op \in OnThread => i \in 1 .. Len(seen) /\ seen[i].id = w.target
    BY <1>1, Addressed
  <1>8. CASE w.op = "thread"
    <2> DEFINE e == [id |-> w.n, status |-> "open", messages |-> {<<w.n, w.n>>}]
    <2>1. e \in Threads /\ e.id = w.n /\ Addressing(e)
      BY <1>1 DEF Threads, Addressing
    <2>2. new = Append(seen, e)
      BY <1>8 DEF SavedThreads, Added
    <2> HIDE DEF seen, stored, new, e, w
    <2>3. /\ Len(new) = Len(seen) + 1 /\ DOMAIN new = 1 .. Len(seen) + 1
          /\ \A j \in 1 .. Len(seen) : new[j] = seen[j]
          /\ new[Len(seen) + 1] = e
      BY <1>3, <2>1, <2>2, AppendProperties, LenProperties
    <2>4. Ids(stored) \subseteq Ids(seen)
      <3> SUFFICES ASSUME NEW x \in Ids(stored) PROVE x \in Ids(seen)
        OBVIOUS
      <3>1. PICK j \in 1 .. Len(seen) + 1 : new[j].id = x
        BY <1>6, <2>3 DEF Ids
      <3>2. x # w.n
        BY <1>5
      <3>3. j \in 1 .. Len(seen)
        BY <1>3, <2>1, <2>3, <3>1, <3>2
      <3> QED BY <1>3, <2>3, <3>1, <3>3 DEF Ids
    <2>5. Len(stored) = Len(seen)
      BY <1>3, <1>4, <2>4, Complete DEF ThreadsOK
    <2>6. \A j \in 1 .. Len(seen) : new[j].id = stored[j].id /\ Addressing(new[j])
      BY <1>3, <1>4, <2>3 DEF Matches
    <2>7. Matches(stored, new) /\ Ids(new) \subseteq Ids(stored) \cup {w.n}
      <3>1. \A j \in 1 .. Len(seen) + 1 : j = Len(seen) + 1 \/ j \in 1 .. Len(seen)
        BY <1>3
      <3> QED BY <1>3, <2>1, <2>3, <2>5, <2>6, <3>1 DEF Matches, Ids
    <2>8. ThreadsOK(new, sent)
      <3>1. \A j \in DOMAIN new : j = Len(seen) + 1 \/ j \in DOMAIN stored
        BY <1>3, <2>3, <2>5
      <3>2. \A j \in DOMAIN new : new[j].id \in 1 .. sent /\ Addressing(new[j])
        BY <1>2, <1>3, <1>4, <2>1, <2>3, <2>5, <2>6, <3>1 DEF ThreadsOK
      <3>3. \A j \in DOMAIN stored : new[j].id = stored[j].id /\ new[j].id # w.n
        BY <1>3, <1>5, <2>5, <2>6 DEF Ids
      <3>4. Distinct(new)
        BY <1>4, <2>1, <2>3, <3>1, <3>3 DEF ThreadsOK, Distinct
      <3> QED BY <3>2, <3>4 DEF ThreadsOK
    <2> QED BY <1>1, <1>3, <2>7, <2>8 DEF Makes, w, stored
  <1>9. CASE w.op = "delete"
    <2>1. new = Without(seen, w.target)
      BY <1>9 DEF SavedThreads
    <2>2. w.target \notin Ids(new)
      BY <1>3, <2>1, WithoutOK
    <2>3. w.target \in Ids(stored)
      <3> HIDE DEF seen, stored, new, i, w
      <3>1. i \in 1 .. Len(seen) /\ seen[i].id = w.target
        BY <1>7, <1>9 DEF OnThread
      <3>2. i \in DOMAIN stored /\ stored[i].id = w.target
        BY <1>3, <1>4, <3>1 DEF Matches
      <3> QED BY <3>2 DEF Ids
    <2> QED BY <1>6, <2>2, <2>3
  <1>10. CASE w.op \in {"message", "state"}
    <2>1. PICK e \in Threads : new = WriteAt(stored, i, e) /\ e.id = stored[i].id /\ Addressing(e)
      <3>1. i \in 1 .. Len(stored) /\ stored[i].id = w.target /\ EntryAt(stored, i) = stored[i]
            /\ Addressing(seen[i]) /\ Addressing(stored[i]) /\ stored[i] \in Threads /\ seen[i] \in Threads
            /\ seen[i].id = w.target
        <4> HIDE DEF seen, stored, new, i, w
        <4>1. i \in 1 .. Len(seen) /\ seen[i].id = w.target
          BY <1>7, <1>10 DEF OnThread
        <4>2. i \in 1 .. Len(stored) /\ stored[i].id = w.target
          BY <1>3, <1>4, <4>1 DEF Matches
        <4>3. EntryAt(stored, i) = stored[i] /\ Addressing(seen[i]) /\ Addressing(stored[i])
          BY <1>3, <1>4, <4>1, <4>2 DEF EntryAt, ThreadsOK
        <4>4. stored[i] \in Threads /\ seen[i] \in Threads
          BY <1>3, <4>1, <4>2, ElementOfSeq
        <4> QED BY <4>1, <4>2, <4>3, <4>4
      <3>2. CASE w.op = "message"
        <4> DEFINE x == [stored[i] EXCEPT !.messages = seen[i].messages \cup {<<w.n, w.target>>}]
        <4>1. x \in Threads /\ x.id = stored[i].id /\ x.messages = seen[i].messages \cup {<<w.n, w.target>>}
          <5>1. w.n \in Texts /\ w.target \in Texts /\ stored[i] \in Threads /\ seen[i] \in Threads
            BY <1>1, <3>1
          <5> HIDE DEF seen, stored, new, i, w
          <5>2. seen[i].messages \cup {<<w.n, w.target>>} \subseteq Texts \X Texts
            BY <5>1 DEF Threads
          <5> QED BY <5>1, <5>2 DEF Threads
        <4>2. new = WriteAt(stored, i, x)
          BY <3>1, <3>2 DEF SavedThreads
        <4> HIDE DEF x
        <4>3. Addressing(x)
          BY <3>1, <4>1 DEF Addressing
        <4> QED BY <4>1, <4>2, <4>3
      <3>3. CASE w.op = "state"
        <4> DEFINE x == IF seen[i].status = w.to THEN stored[i] ELSE [stored[i] EXCEPT !.status = w.to]
        <4>1. x \in Threads /\ x.id = stored[i].id /\ x.messages = stored[i].messages
          BY <1>1, <3>1 DEF Threads, Requests
        <4>2. new = WriteAt(stored, i, x)
          BY <3>1, <3>3 DEF SavedThreads
        <4> HIDE DEF x
        <4>3. Addressing(x)
          BY <3>1, <4>1 DEF Addressing
        <4> QED BY <4>1, <4>2, <4>3
      <3> QED BY <1>10, <3>2, <3>3
    <2>2. i \in 1 .. Len(stored) /\ i \in Nat \ {0} /\ i <= Len(stored)
      BY <1>3, <1>4, <1>7, <1>10 DEF Matches, OnThread
    <2> HIDE DEF seen, stored, new, i, w
    <2>3. /\ Len(new) = Len(stored) /\ DOMAIN new = 1 .. Len(stored) /\ new[i] = e
          /\ \A j \in 1 .. Len(stored) : j # i => new[j] = stored[j]
      <3>1. stored \in Seq(Threads) /\ e \in Threads /\ new = WriteAt(stored, i, e)
        BY <1>3, <2>1
      <3>2. /\ Len(new) = Len(stored) /\ new[i] = e
            /\ \A j \in 1 .. Len(stored) : j # i => new[j] = stored[j]
        <4>1. /\ Len(WriteAt(stored, i, e)) = IF i <= Len(stored) THEN Len(stored) ELSE i
              /\ i <= Len(stored) => /\ WriteAt(stored, i, e)[i] = e
                                     /\ \A j \in 1 .. Len(stored) : j # i => WriteAt(stored, i, e)[j] = stored[j]
          BY <2>2, <3>1, Written
        <4> QED BY <2>2, <3>1, <4>1
      <3>3. DOMAIN new = 1 .. Len(new)
        BY <1>3, LenProperties
      <3> QED BY <3>2, <3>3
    <2>4. \A j \in 1 .. Len(stored) : new[j].id = stored[j].id /\ Addressing(new[j])
      BY <1>3, <1>4, <2>1, <2>3 DEF ThreadsOK
    <2>5. Matches(stored, new) /\ Ids(new) \subseteq Ids(stored)
      BY <1>3, <2>3, <2>4 DEF Matches, Ids
    <2>6. ThreadsOK(new, sent)
      BY <1>3, <1>4, <2>3, <2>4 DEF ThreadsOK, Distinct
    <2> QED BY <1>1, <1>3, <2>5, <2>6 DEF Makes, stored, w
  <1> QED BY <1>1, <1>8, <1>9, <1>10 DEF ThreadKinds

LEMMA DroppedStays == ASSUME [Next]_vars, dropped PROVE dropped'
  <1>1. CASE UNCHANGED vars \/ ReplaceDrawing
    BY <1>1 DEF vars, history, ReplaceDrawing
  <1>2. ASSUME NEW u \in Users, Serve(u) PROVE dropped'
    <2>1. CASE SavesLayer(u)
      BY <2>1 DEF SavesLayer, InsertLayer, SaveCanvas, SaveThread, Losing
    <2> QED BY <1>2, <2>1, LayersKept
  <1> QED BY <1>1, <1>2 DEF Next

LEMMA PlacesKept ==
  ASSUME Typed, Numbered, InPlace, NEW u \in Users, NEW s \in Sources, work[u] # Absent,
         layers[s] # Absent, NEW l \in Layers, layers' = [layers EXCEPT ![s] = l], UNCHANGED sent,
         Makes(u, l.threads, layers[s].threads),
         NEW w, Move(u, w), w = Absent \/ w.phase \notin {"load", "write"}
  PROVE  InPlace'
  <1>1. /\ layers'[s] = l /\ l # Absent /\ \A r \in Sources \ {s} : layers'[r] = layers[r]
        /\ \A r \in Sources : layers[r] # Absent => layers'[r] # Absent
    BY LayerWritten DEF Typed
  <1>2. work'[u] = w /\ \A v \in Users \ {u} : work'[v] = work[v]
    BY DEF Move, Typed, UsersOK
  <1>3. \A r \in Sources : layers'[r] # Absent => ThreadsOK(layers'[r].threads, sent')
    BY <1>1 DEF Makes, InPlace, ThreadsOK
  <1>4. ASSUME NEW v \in Users, work'[v] # Absent, work'[v].phase \in {"load", "write"}
        PROVE  /\ \A r \in Sources : layers'[r] # Absent => work'[v].n \notin Ids(layers'[r].threads)
               /\ work'[v].phase = "write" /\ work'[v].seen # Absent =>
                    /\ Matches(work'[v].seen.threads, layers'[work'[v].source].threads)
                    /\ \A i \in DOMAIN work'[v].seen.threads : Addressing(work'[v].seen.threads[i])
    <2>1. v # u /\ work'[v] = work[v] /\ work[v].n # work[u].n /\ work[v] \in Requests
      BY <1>2, <1>4, UserOK DEF Numbered, Typed, Idle
    <2>2. \A r \in Sources : layers'[r] # Absent => work[v].n \notin Ids(layers'[r].threads)
      <3>1. work[v].n \notin Ids(layers[s].threads) /\ Ids(l.threads) \subseteq Ids(layers[s].threads) \cup {work[u].n}
        BY <1>4, <2>1 DEF InPlace, Makes
      <3>2. work[v].n \notin Ids(l.threads)
        BY <2>1, <3>1
      <3> QED BY <1>1, <1>4, <2>1, <3>2 DEF InPlace
    <2>3. ASSUME work[v].phase = "write", work[v].seen # Absent
          PROVE  /\ Matches(work[v].seen.threads, layers'[work[v].source].threads)
                 /\ \A i \in DOMAIN work[v].seen.threads : Addressing(work[v].seen.threads[i])
      <3>1. /\ Matches(work[v].seen.threads, layers[work[v].source].threads)
            /\ \A i \in DOMAIN work[v].seen.threads : Addressing(work[v].seen.threads[i])
        BY <2>1, <2>3, <1>4 DEF InPlace
      <3>2. work[v].seen \in Layers /\ work[v].source \in Sources
        BY <2>1, <2>3, <1>4, UserOK DEF Typed, Idle, RequestOK, Requests
      <3>3. CASE work[v].source = s
        <4>1. work[v].seen.threads \in Seq(Threads) /\ layers[s].threads \in Seq(Threads) /\ l.threads \in Seq(Threads)
          BY <3>2, LayerOK, MarkupRead DEF Typed
        <4> QED BY <1>1, <3>1, <3>3, <4>1, Transitive DEF Makes
      <3>4. CASE work[v].source # s
        BY <1>1, <3>1, <3>2, <3>4
      <3> QED BY <3>3, <3>4
    <2> QED BY <2>1, <2>2, <2>3
  <1> QED BY <1>3, <1>4 DEF InPlace

\* The layers stay as they are, or one is added, while a user's request goes on.
LEMMA PlacesStay ==
  ASSUME Typed, InPlace, NEW u \in Users, NEW w, Move(u, w), sent' \in Nat, sent <= sent',
         \A s \in Sources : layers'[s] # Absent =>
           \/ layers'[s] = layers[s]
           \/ layers[s] = Absent /\ layers'[s].threads = <<>>,
         \A s \in Sources : layers[s] # Absent => layers'[s] # Absent,
         w = Absent \/ w.phase \notin {"load", "write"}
  PROVE  InPlace'
  <1>1. work'[u] = w /\ \A v \in Users \ {u} : work'[v] = work[v]
    BY DEF Move, Typed, UsersOK
  <1>2. DOMAIN <<>> = {} /\ Ids(<<>>) = {}
    BY EmptySeq DEF Ids
  <1>3. \A s \in Sources : layers'[s] # Absent => ThreadsOK(layers'[s].threads, sent')
    <2>1. \A k \in 1 .. sent : k \in 1 .. sent'
      BY DEF Typed, DocumentsOK, Texts
    <2> QED BY <1>2, <2>1 DEF InPlace, ThreadsOK, Distinct
  <1>4. ASSUME NEW v \in Users, work'[v] # Absent, work'[v].phase \in {"load", "write"}
        PROVE  /\ \A s \in Sources : layers'[s] # Absent => work'[v].n \notin Ids(layers'[s].threads)
               /\ work'[v].phase = "write" /\ work'[v].seen # Absent =>
                    /\ Matches(work'[v].seen.threads, layers'[work'[v].source].threads)
                    /\ \A i \in DOMAIN work'[v].seen.threads : Addressing(work'[v].seen.threads[i])
    <2>1. v # u /\ work'[v] = work[v] /\ work[v] \in Requests /\ RequestOK(work[v], tabs[v].page, layers)
      BY <1>1, <1>4, UserOK DEF Typed, Idle
    <2>2. \A s \in Sources : layers'[s] # Absent => work[v].n \notin Ids(layers'[s].threads)
      BY <1>2, <1>4, <2>1 DEF InPlace
    <2>3. ASSUME work[v].phase = "write", work[v].seen # Absent
          PROVE  layers'[work[v].source] = layers[work[v].source]
      <3>1. work[v].source \in Sources
        BY <2>1 DEF Requests
      <3>2. layers[work[v].source] # Absent
        BY <2>1, <2>3 DEF RequestOK
      <3> QED BY <3>1, <3>2
    <2> QED BY <1>4, <2>1, <2>2, <2>3 DEF InPlace
  <1> QED BY <1>3, <1>4 DEF InPlace

\* Where a request is after an action that serves it.
LEMMA PhaseAfter ==
  ASSUME Typed, NEW u \in Users, Serves(u), ~LoadLayer(u)
  PROVE  \E w : Move(u, w) /\ (w = Absent \/ w.phase \notin {"load", "write"})
  <1>1. work[u] \in Requests
    BY MoveKeeps
  <1> DEFINE Goal == \E w : Move(u, w) /\ (w = Absent \/ w.phase \notin {"load", "write"})
  <1>2. ASSUME Done(u) PROVE Goal
    BY <1>2 DEF Done
  <1>3. CASE SavesAnnotation(u)
    <2>1. /\ [work[u] EXCEPT !.phase = "part"].phase = "part"
          /\ [work[u] EXCEPT !.phase = "part", !.told = Told(work[u])].phase = "part"
      BY <1>1 DEF Requests
    <2> QED BY <1>2, <1>3, <2>1 DEF SavesAnnotation, InsertAnnotation, DeleteAnnotation, UpdateAnnotation
  <1>4. CASE InsertLayer(u) \/ SaveCanvas(u)
    <2>1. /\ [work[u] EXCEPT !.version = 1, !.phase = "count", !.seen = Absent].phase = "count"
          /\ [work[u] EXCEPT !.phase = "reload", !.seen = Absent].phase = "reload"
      BY <1>1 DEF Requests
    <2> QED BY <1>2, <1>4, <2>1 DEF InsertLayer, SaveCanvas, Conflict
  <1>5. CASE SaveThread(u)
    <2>1. PICK k : Move(u, [work[u] EXCEPT !.version = k, !.phase = "count", !.seen = Absent])
      BY <1>5 DEF SaveThread
    <2>2. [work[u] EXCEPT !.version = k, !.phase = "count", !.seen = Absent].phase = "count"
      BY <1>1 DEF Requests
    <2> QED BY <2>1, <2>2
  <1>6. CASE LoadAnnotation(u)
    <2>1. Done(u) \/ \E p \in {"save", "repair"} :
            Move(u, [[work[u] EXCEPT !.seen = annotation, !.was = SearchOf(part)] EXCEPT !.phase = p])
      BY <1>6 DEF LoadAnnotation
    <2>2. ASSUME NEW p \in {"save", "repair"},
                 Move(u, [[work[u] EXCEPT !.seen = annotation, !.was = SearchOf(part)] EXCEPT !.phase = p])
          PROVE  Goal
      <3>1. [[work[u] EXCEPT !.seen = annotation, !.was = SearchOf(part)] EXCEPT !.phase = p].phase = p
        BY <1>1 DEF Requests
      <3> QED BY <2>2, <3>1
    <2> QED BY <1>2, <2>1, <2>2
  <1>7. CASE ReloadLayer(u)
    <2>1. [work[u] EXCEPT !.version = layers[work[u].source].version, !.phase = "count"].phase = "count"
      BY <1>1 DEF Requests
    <2> QED BY <1>2, <1>7, <2>1 DEF ReloadLayer
  <1>8. CASE CountComments(u)
    <2>1. [work[u] EXCEPT !.count = Open(Rows(annotation)), !.phase = "threads"].phase = "threads"
      BY <1>1 DEF Requests
    <2> QED BY <1>8, <2>1 DEF CountComments
  <1>9. CASE CountThreads(u)
    <2>1. [work[u] EXCEPT !.count = @ + OpenThreads, !.phase = "store"].phase = "store"
      BY <1>1 DEF Requests
    <2> QED BY <1>2, <1>9, <2>1 DEF CountThreads
  <1>10. CASE RepairSearch(u)
    <2> DEFINE text == SearchText(Notes(work[u].seen), Rows(work[u].seen))
    <2>1. [work[u] EXCEPT !.was = text, !.phase = "save"].phase = "save"
      BY <1>1 DEF Requests
    <2> QED BY <1>10, <2>1 DEF RepairSearch
  <1>11. CASE SavePart(u)
    <2>1. Done(u) \/ Move(u, [work[u] EXCEPT !.phase = "count", !.seen = Absent, !.was = Absent])
      BY <1>11 DEF SavePart
    <2>2. [work[u] EXCEPT !.phase = "count", !.seen = Absent, !.was = Absent].phase = "count"
      BY <1>1 DEF Requests
    <2> QED BY <1>2, <2>1, <2>2
  <1>12. CASE StoreCount(u)
    BY <1>2, <1>12 DEF StoreCount
  <1> QED BY <1>3, <1>4, <1>5, <1>6, <1>7, <1>8, <1>9, <1>10, <1>11, <1>12
          DEF Serves, SavesAnnotation, SavesLayer, Reads, SavesPart

\* A request that reads its layer ends or goes on with what is stored.
LEMMA LayerRead ==
  ASSUME Typed, NEW u \in Users, LoadLayer(u)
  PROVE  \/ Done(u)
         \/ /\ Move(u, [work[u] EXCEPT !.seen = layers[work[u].source], !.phase = "write"])
            /\ work[u] \in Requests /\ work[u].phase = "load" /\ work[u] # Absent
  <1>1. work[u] \in Requests /\ work[u].phase = "load" /\ work[u] # Absent
    BY UserOK DEF LoadLayer, At, Typed, Idle
  <1> QED BY <1>1 DEF LoadLayer, Conflict

LEMMA InPlaceStep ==
  ASSUME Typed, Numbered, InPlace, [Next]_vars, ~dropped'
  PROVE  InPlace'
  <1>0. sent \in Nat /\ sent' \in Nat /\ sent <= sent'
    BY StepTyped, NumberedStep DEF Typed, DocumentsOK, Texts
  <1>1. CASE UNCHANGED vars \/ ReplaceDrawing
    BY <1>1 DEF vars, documents, ReplaceDrawing, InPlace
  <1>2. ASSUME NEW u \in Users, Serves(u), ~LoadLayer(u), UNCHANGED layers PROVE InPlace'
    BY <1>0, <1>2, PhaseAfter, PlacesStay
  <1>3. ASSUME NEW u \in Users, LoadLayer(u) PROVE InPlace'
    <2>1. UNCHANGED <<layers, sent>>
      BY <1>3 DEF LoadLayer, documents, Serving
    <2>2. CASE Done(u)
      BY <1>0, <2>1, <2>2, PlacesStay DEF Done
    <2>3. CASE ~Done(u)
      <3> DEFINE w == [work[u] EXCEPT !.seen = layers[work[u].source], !.phase = "write"]
      <3>1. Move(u, w) /\ work[u] \in Requests /\ work[u].phase = "load" /\ work[u] # Absent
        BY <1>3, <2>3, LayerRead
      <3>2. w.seen = layers[work[u].source] /\ w.n = work[u].n /\ w.source = work[u].source /\ w.source \in Sources
        BY <3>1 DEF Requests
      <3> HIDE DEF w
      <3>3. work'[u] = w /\ \A v \in Users \ {u} : work'[v] = work[v]
        BY <3>1 DEF Move, Typed, UsersOK
      <3>4. w.seen # Absent => /\ Matches(w.seen.threads, layers[w.source].threads)
                               /\ \A i \in DOMAIN w.seen.threads : Addressing(w.seen.threads[i])
        <4>1. SUFFICES ASSUME w.seen # Absent
                       PROVE  /\ Matches(w.seen.threads, layers[w.source].threads)
                              /\ \A i \in DOMAIN w.seen.threads : Addressing(w.seen.threads[i])
          OBVIOUS
        <4>2. layers[w.source] # Absent /\ w.seen = layers[w.source] /\ Len(layers[w.source].threads) \in Nat
          BY <3>2, <4>1, LayerOK, MarkupRead DEF Typed
        <4> QED BY <3>2, <4>2 DEF InPlace, Matches, ThreadsOK
      <3>5. \A s \in Sources : layers[s] # Absent => w.n \notin Ids(layers[s].threads)
        BY <3>1, <3>2 DEF InPlace
      <3> QED BY <2>1, <3>3, <3>4, <3>5 DEF InPlace
    <2> QED BY <2>2, <2>3
  <1>4. ASSUME NEW u \in Users, InsertLayer(u) PROVE InPlace'
    <2>1. PICK w : Move(u, w) /\ (w = Absent \/ w.phase \notin {"load", "write"})
      BY <1>4, PhaseAfter DEF Serves, SavesLayer, InsertLayer, LoadLayer, At
    <2>2. work[u].source \in Sources
      BY <1>4, MarkupOK DEF InsertLayer
    <2>3. \/ UNCHANGED layers
          \/ layers[work[u].source] = Absent
             /\ layers' = [layers EXCEPT ![work[u].source] = [canvas |-> work[u].canvas, threads |-> <<>>, version |-> 1]]
      BY <1>4 DEF InsertLayer
    <2>4. \A s \in Sources : layers'[s] # Absent =>
            layers'[s] = layers[s] \/ (layers[s] = Absent /\ layers'[s].threads = <<>>)
      BY <2>2, <2>3 DEF Typed, DocumentsOK
    <2>5. \A s \in Sources : layers[s] # Absent => layers'[s] # Absent
      BY <2>2, <2>3 DEF Typed, DocumentsOK
    <2> QED BY <1>0, <2>1, <2>4, <2>5, PlacesStay
  <1>5. ASSUME NEW u \in Users, SaveCanvas(u) \/ SaveThread(u), layers' # layers PROVE InPlace'
    <2>1. PICK w : Move(u, w) /\ (w = Absent \/ w.phase \notin {"load", "write"})
      BY <1>5, PhaseAfter DEF Serves, SavesLayer, SaveCanvas, SaveThread, LoadLayer, At
    <2>2. /\ work[u].source \in Sources /\ work[u] # Absent /\ layers[work[u].source] # Absent /\ UNCHANGED sent
          /\ work[u] \in Requests
      BY <1>5, MarkupOK DEF SaveCanvas, SaveThread, At, RequestOK, Serving
    <2>3. CASE SaveCanvas(u)
      <3> DEFINE l == [canvas |-> work[u].canvas, threads |-> work[u].seen.threads, version |-> work[u].base + 1]
      <3>1. Unchanged(work[u]) /\ layers' = [layers EXCEPT ![work[u].source] = l]
        BY <1>5, <2>3 DEF SaveCanvas
      <3>2. l \in Layers /\ l.threads = work[u].seen.threads
        <4>1. work[u].seen \in Layers
          BY <2>3, MarkupOK DEF SaveCanvas, At, RequestOK
        <4> QED BY <2>2, <4>1, MarkupRead DEF Layers, Requests
      <3>3. Makes(u, l.threads, layers[work[u].source].threads)
        BY <2>3, <3>1, <3>2, CanvasKeepsThreads
      <3> HIDE DEF l
      <3> QED BY <2>1, <2>2, <3>1, <3>2, <3>3, PlacesKept
    <2>4. CASE SaveThread(u)
      BY <2>1, <2>2, <2>4, ThreadSaved, ThreadKeepsThreads, PlacesKept
    <2> QED BY <1>5, <2>3, <2>4
  <1>6. ASSUME NEW u \in Users, Browses(u) PROVE InPlace'
    BY <1>6 DEF Browses, OpenNotes, OpenPage, Draw, Erase, Editing, documents, InPlace
  <1>7. ASSUME NEW u \in Users, Sends(u) PROVE InPlace'
    <2>1. PICK w : Send(u, w) /\ w.phase = "load" /\ w.n = sent + 1
      BY <1>7, Sending
    <2>2. UNCHANGED layers /\ sent' = sent + 1 /\ work' = [work EXCEPT ![u] = w]
      BY <2>1 DEF Send, documents, Move
    <2>3. work'[u] = w /\ \A v \in Users \ {u} : work'[v] = work[v]
      BY <2>2 DEF Typed, UsersOK
    <2>4. \A s \in Sources : layers[s] # Absent => ThreadsOK(layers[s].threads, sent') /\ w.n \notin Ids(layers[s].threads)
      <3>1. \A k \in 1 .. sent : k \in 1 .. sent' /\ k # w.n
        BY <1>0, <2>1, <2>2
      <3> QED BY <3>1 DEF InPlace, ThreadsOK, Ids
    <2> QED BY <2>1, <2>2, <2>3, <2>4 DEF InPlace
  <1>8. ASSUME NEW u \in Users, Serves(u) PROVE InPlace'
    <2>1. CASE SavesLayer(u)
      BY <1>2, <1>4, <1>5, <1>8, <2>1 DEF SavesLayer, InsertLayer, SaveCanvas, SaveThread, LoadLayer, At
    <2>2. CASE ~SavesLayer(u)
      <3>1. UNCHANGED layers \/ LoadLayer(u)
        BY <1>8, <2>2, Quiet DEF Serves, SavesAnnotation, InsertAnnotation, DeleteAnnotation, UpdateAnnotation,
           SavesPart, RepairSearch, SavePart, StoreCount, documents
      <3> QED BY <1>2, <1>3, <1>8, <3>1
    <2> QED BY <2>1, <2>2
  <1> QED BY <1>1, <1>6, <1>7, <1>8, Kinds DEF Next, Serves

LEMMA PositionsInit == Init => PositionsOK
  <1> SUFFICES ASSUME Init PROVE PositionsOK
    OBVIOUS
  <1>1. PICK s \in Starts : annotation = s.annotation /\ layers = s.layers /\ sent = s.sent
    BY DEF Init
  <1>2. ASSUME NEW x \in Sources, layers[x] # Absent PROVE ThreadsOK(layers[x].threads, sent)
    <2>1. Entries(layers[x]) = layers[x].threads
      BY <1>2 DEF Entries
    <2>2. /\ Distinct(Entries(s.layers[x])) /\ Ids(Entries(s.layers[x])) \subseteq 1 .. s.sent
          /\ \A i \in DOMAIN Entries(s.layers[x]) : \A m \in Entries(s.layers[x])[i].messages :
               m[2] = Entries(s.layers[x])[i].id
      BY StartsAssumption
    <2> QED BY <1>1, <2>1, <2>2 DEF ThreadsOK, Ids, Addressing
  <1>3. \A u \in Users : work[u] = Absent
    BY DEF Init
  <1> QED BY <1>2, <1>3 DEF PositionsOK, Numbered, InPlace

\* Whatever writes by position overlap, no message is in another thread and no
\* entry is without its thread while none left its layer
\* (MessagesStayInTheirThread).
THEOREM MessagesStay == Spec => []MessagesStayInTheirThread
  <1>1. Typed /\ PositionsOK /\ [Next]_vars => PositionsOK'
    BY NumberedStep, InPlaceStep, DroppedStays DEF PositionsOK
  <1>2. Typed /\ PositionsOK => MessagesStayInTheirThread
    BY DEF PositionsOK, InPlace, ThreadsOK, Addressing, MessagesStayInTheirThread, Existing, Nobody, Typed, DocumentsOK, Texts
  <1> QED BY <1>1, <1>2, PositionsInit, SpecTyped, PTL DEF Spec

-------------------------------------------------------------------------------
(* The canvas an editor works on.                                          *)

\* The canvas c of version b is the one stored or an older one.
Precedes(b, c, l) == IF l = Absent THEN b = 0 ELSE b <= l.version /\ (b = l.version => l.canvas = c)

\* What an editor shows, and what its save knows of the layer, p being the
\* page and w the request of one user.
CanvasOK(p, w, ls) ==
  /\ p # Absent /\ ~p.adopted => Precedes(p.base, p.saved, ls[p.source])
  /\ w # Absent /\ w.op = "canvas" =>
       /\ w.source = p.source /\ w.base = p.base
       /\ w.phase = "reload" => Precedes(w.base + 1, w.canvas, ls[w.source])
       /\ w.phase \in {"count", "threads", "store"} /\ w.version = w.base + 1 =>
            Precedes(w.version, w.canvas, ls[w.source])

Canvases    == \A u \in Users : CanvasOK(tabs[u].page, work[u], layers)
CanvasKnown == ~regressed => Canvases

\* A layer stays, is made or gets a version of its own.
Succeeds(m, l) ==
  \/ m = l
  \/ m \in Layers /\ IF l = Absent THEN m.version > 0 ELSE m.version > l.version

LEMMA PrecedesStill ==
  ASSUME NEW b \in Nat, NEW c, NEW l \in {Absent} \cup Layers, NEW m, Succeeds(m, l), Precedes(b, c, l)
  PROVE  Precedes(b, c, m)
  <1>1. CASE m # l
    <2>1. m \in Layers /\ m # Absent /\ m.version \in Nat /\ (l # Absent => l.version \in Nat)
      BY <1>1, Unlike, MarkupRead DEF Succeeds
    <2> QED BY <1>1, <2>1 DEF Succeeds, Precedes
  <1> QED BY <1>1

LEMMA LayersSucceed ==
  ASSUME Typed, [Next]_vars, ~regressed'
  PROVE  ~regressed /\ \A s \in Sources : Succeeds(layers'[s], layers[s])
  <1>1. CASE UNCHANGED <<layers, regressed>>
    BY <1>1 DEF Succeeds
  <1>2. ASSUME NEW u \in Users, InsertLayer(u), layers' # layers
        PROVE  ~regressed /\ \A s \in Sources : Succeeds(layers'[s], layers[s])
    <2> DEFINE l == [canvas |-> work[u].canvas, threads |-> <<>>, version |-> 1]
    <2>1. work[u].source \in Sources /\ work[u].canvas \subseteq Objects /\ UNCHANGED regressed
          /\ layers' = [layers EXCEPT ![work[u].source] = l] /\ layers[work[u].source] = Absent
      BY <1>2, MarkupOK DEF InsertLayer
    <2>2. l \in Layers /\ l.version = 1
      BY <2>1, EmptySeq DEF Layers
    <2> HIDE DEF l
    <2> QED BY <2>1, <2>2, LayerWritten DEF Typed, Succeeds
  <1>3. ASSUME NEW u \in Users, SaveCanvas(u), layers' # layers
        PROVE  ~regressed /\ \A s \in Sources : Succeeds(layers'[s], layers[s])
    <2> DEFINE l == [canvas |-> work[u].canvas, threads |-> work[u].seen.threads, version |-> work[u].base + 1]
    <2>1. work[u].source \in Sources /\ work[u].canvas \subseteq Objects /\ UNCHANGED regressed
          /\ work[u].seen \in Layers /\ work[u].base \in Nat /\ layers[work[u].source] # Absent
          /\ layers' = [layers EXCEPT ![work[u].source] = l] /\ layers[work[u].source].version = work[u].base
      BY <1>3, MarkupOK DEF SaveCanvas, RequestOK, At, Requests, Unchanged
    <2>2. l \in Layers /\ l.version = work[u].base + 1
      BY <2>1, MarkupRead DEF Layers
    <2> HIDE DEF l
    <2> QED BY <2>1, <2>2, LayerWritten DEF Typed, Succeeds
  <1>4. ASSUME NEW u \in Users, SaveThread(u)
        PROVE  ~regressed /\ \A s \in Sources : Succeeds(layers'[s], layers[s])
    <2> DEFINE l == LayerMade(work[u])
               r == work[u].source
    <2>1. /\ r \in Sources /\ layers[r] \in Layers /\ layers[r] # Absent /\ l \in Layers
          /\ layers' = [layers EXCEPT ![r] = l]
      BY <1>4, ThreadSaved
    <2>2. regressed' = (regressed \/ l.version <= layers[r].version)
      BY <1>4 DEF SaveThread, LayerMade
    <2> HIDE DEF l, r
    <2>3. ~regressed /\ ~(l.version <= layers[r].version)
      BY <2>2, Zenon
    <2>4. l.version \in Nat /\ layers[r].version \in Nat
      BY <2>1, MarkupRead
    <2>5. l.version > layers[r].version
      BY <2>3, <2>4
    <2> QED BY <2>1, <2>3, <2>5, LayerWritten DEF Typed, Succeeds
  <1>5. CASE UNCHANGED vars \/ ReplaceDrawing
    BY <1>1, <1>5 DEF vars, documents, history, ReplaceDrawing
  <1>6. ASSUME NEW u \in Users, Serve(u)
        PROVE  ~regressed /\ \A s \in Sources : Succeeds(layers'[s], layers[s])
    <2>1. CASE SavesLayer(u)
      <3>1. SaveThread(u) \/ UNCHANGED regressed
        BY <2>1 DEF SavesLayer, InsertLayer, SaveCanvas
      <3> QED BY <1>1, <1>2, <1>3, <1>4, <2>1, <3>1 DEF SavesLayer
    <2> QED BY <1>1, <1>6, <2>1, LayersKept
  <1> QED BY <1>5, <1>6 DEF Next

\* The layers move on while a user's page and request stay.
LEMMA CanvasStays ==
  ASSUME Typed, NEW u \in Users, CanvasOK(tabs[u].page, work[u], layers),
         NEW ls, \A s \in Sources : Succeeds(ls[s], layers[s])
  PROVE  CanvasOK(tabs[u].page, work[u], ls)
  <1> DEFINE p == tabs[u].page
             w == work[u]
  <1>1. p \in {Absent} \cup Pages /\ w \in {Absent} \cup Requests
    BY DEF Typed, UsersOK, Tabs
  <1> HIDE DEF p, w
  <1>2. p # Absent => p.source \in Sources /\ p.base \in Nat
    BY <1>1 DEF Pages
  <1>3. w # Absent => w.source \in Sources /\ w.base \in Nat /\ w.version \in Nat /\ w.base + 1 \in Nat
    BY <1>1 DEF Requests
  <1>4. \A s \in Sources : layers[s] \in {Absent} \cup Layers
    BY DEF Typed, DocumentsOK
  <1>5. p # Absent /\ ~p.adopted => Precedes(p.base, p.saved, ls[p.source])
    BY <1>2, <1>4, PrecedesStill DEF CanvasOK, p
  <1>6. w # Absent /\ w.op = "canvas" =>
          /\ w.source = p.source /\ w.base = p.base
          /\ w.phase = "reload" => Precedes(w.base + 1, w.canvas, ls[w.source])
          /\ w.phase \in {"count", "threads", "store"} /\ w.version = w.base + 1 =>
               Precedes(w.version, w.canvas, ls[w.source])
    BY <1>3, <1>4, PrecedesStill DEF CanvasOK, p, w
  <1> QED BY <1>5, <1>6 DEF CanvasOK, p, w

\* A step of u's leaves its page and its request in order.
LEMMA CanvasStepOf ==
  ASSUME Typed, Canvases, NEW u \in Users, Serve(u), Typed', ~regressed'
  PROVE  CanvasOK(tabs'[u].page, work'[u], layers')
  <1> DEFINE p == tabs[u].page
             w == work[u]
             Goal == CanvasOK(tabs'[u].page, work'[u], layers')
  <1>0. [Next]_vars
    BY DEF Next
  <1>1. \A s \in Sources : Succeeds(layers'[s], layers[s])
    BY <1>0, LayersSucceed
  <1>2. CanvasOK(p, w, layers) /\ CanvasOK(p, w, layers')
    BY <1>1, CanvasStays DEF Canvases
  <1>3. tabs[u] \in Tabs /\ p \in {Absent} \cup Pages /\ w \in {Absent} \cup Requests /\ (w # Absent => RequestOK(w, p, layers))
    BY DEF Typed, UsersOK, Tabs
  <1>4. \A x, y : tabs' = [tabs EXCEPT ![u] = x] /\ work' = [work EXCEPT ![u] = y] => tabs'[u] = x /\ work'[u] = y
    BY DEF Typed, UsersOK
  <1>5. \A x : tabs' = [tabs EXCEPT ![u].page = x] => tabs'[u].page = x
    BY <1>3 DEF Typed, UsersOK, Tabs
  <1>6. \A y : Move(u, y) => work'[u] = y
    BY DEF Typed, UsersOK, Move
  <1> HIDE DEF p, w
  \* The page stays and the request is not of a canvas.
  <1>7. ASSUME UNCHANGED tabs, work'[u] = Absent \/ work'[u].op # "canvas" PROVE Goal
    BY <1>2, <1>7 DEF CanvasOK, p, w
  \* The page stays, but may be told of a conflict, and the request ends.
  <1>8. ASSUME Done(u), UNCHANGED tabs \/ (p # Absent /\ ShowPage(u, [Page(u) EXCEPT !.conflict = TRUE])) PROVE Goal
    <2>1. work'[u] = Absent
      BY <1>6, <1>8 DEF Done
    <2>2. CASE UNCHANGED tabs
      BY <1>7, <2>1, <2>2
    <2>3. CASE p # Absent /\ ShowPage(u, [Page(u) EXCEPT !.conflict = TRUE])
      <3> DEFINE q == [p EXCEPT !.conflict = TRUE]
      <3>1. tabs'[u].page = q
        BY <1>5, <2>3 DEF ShowPage, Page, p
      <3>2. q.source = p.source /\ q.base = p.base /\ q.saved = p.saved /\ q.adopted = p.adopted
        BY <1>3, <2>3 DEF Pages
      <3> HIDE DEF q
      <3> QED BY <1>2, <2>1, <2>3, <3>1, <3>2 DEF CanvasOK
    <2> QED BY <1>8, <2>2, <2>3
  <1>9. CASE Browses(u)
    <2>1. work'[u] = Absent /\ UNCHANGED layers
      BY <1>9 DEF Browses, OpenNotes, OpenPage, Draw, Erase, Editing, Editable, Idle, documents
    <2>2. CASE OpenNotes(u)
      <3> DEFINE n == [text |-> annotation.notes, stamp |-> annotation.stamp]
      <3>1. tabs'[u].page = p
        BY <1>3, <2>2 DEF OpenNotes, Typed, UsersOK, Tabs, p
      <3> QED BY <1>2, <2>1, <3>1 DEF CanvasOK
    <2>3. CASE OpenPage(u)
      <3>1. tabs'[u].page = Fresh(source)
        BY <1>5, <2>3 DEF OpenPage, ShowPage
      <3>2. layers[source] \in {Absent} \cup Layers
        BY DEF Typed, DocumentsOK
      <3>3. layers[source] # Absent => layers[source].version \in Nat
        BY <3>2, MarkupRead
      <3>4. Precedes(Fresh(source).base, Fresh(source).saved, layers[Fresh(source).source])
        BY <3>3 DEF Fresh, Precedes
      <3> QED BY <2>1, <3>1, <3>4 DEF CanvasOK
    <2>4. CASE Draw(u) \/ Erase(u)
      <3>1. p # Absent /\ \E c : tabs'[u].page = [p EXCEPT !.canvas = c]
        <4>1. Page(u) # Absent
          BY <2>4 DEF Draw, Erase, Editable
        <4>2. \E c : ShowPage(u, [Page(u) EXCEPT !.canvas = c])
          BY <2>4 DEF Draw, Erase
        <4> QED BY <1>5, <4>1, <4>2 DEF ShowPage, Page, p
      <3>2. PICK c : tabs'[u].page = [p EXCEPT !.canvas = c]
        BY <3>1
      <3> DEFINE q == [p EXCEPT !.canvas = c]
      <3>3. q.source = p.source /\ q.base = p.base /\ q.saved = p.saved /\ q.adopted = p.adopted
        BY <1>3, <3>1 DEF Pages
      <3> HIDE DEF q
      <3> QED BY <1>2, <2>1, <3>1, <3>2, <3>3 DEF CanvasOK, q
    <2> QED BY <1>9, <2>2, <2>3, <2>4 DEF Browses
  <1>10. CASE Sends(u)
    <2>1. PICK x : Send(u, x) /\ x.phase = "load"
      BY <1>10, Sending
    <2>2. UNCHANGED <<tabs, layers>> /\ work'[u] = x
      BY <1>6, <2>1 DEF Send, documents
    <2>3. CASE SendCanvas(u)
      <3> DEFINE y == [NewRequest("canvas") EXCEPT !.source = Page(u).source, !.base = Page(u).base, !.canvas = Page(u).canvas]
      <3>1. work'[u] = y
        BY <1>6, <2>3 DEF SendCanvas, Send
      <3>2. y.source = Page(u).source /\ y.base = Page(u).base /\ y.phase = "load"
        BY DEF NewRequest
      <3> HIDE DEF y
      <3> QED BY <1>2, <2>2, <3>1, <3>2 DEF CanvasOK, Page, p
    <2>4. CASE ~SendCanvas(u)
      <3>1. x.op # "canvas"
        <4>1. CASE SendNotes(u)
          <5>1. PICK t, b : Send(u, [NewRequest("notes") EXCEPT !.text = t, !.base = b])
            BY <4>1 DEF SendNotes
          <5>2. [NewRequest("notes") EXCEPT !.text = t, !.base = b].op = "notes"
            BY DEF NewRequest
          <5> QED BY <1>6, <2>2, <5>1, <5>2 DEF Send
        <4>2. CASE SendComment(u)
          BY <1>6, <2>2, <4>2 DEF SendComment, Send, NewRequest
        <4>3. CASE SendEdit(u)
          <5>1. PICK op \in Targeted : \E t, z : Send(u, [NewRequest(op) EXCEPT !.target = t, !.to = z])
            BY <4>3 DEF SendEdit
          <5>2. PICK t, z : Send(u, [NewRequest(op) EXCEPT !.target = t, !.to = z])
            BY <5>1
          <5>3. [NewRequest(op) EXCEPT !.target = t, !.to = z].op = op
            BY DEF NewRequest
          <5> QED BY <1>6, <2>2, <5>2, <5>3 DEF Send, Targeted
        <4>4. CASE SendThread(u)
          <5>1. [NewRequest("thread") EXCEPT !.source = Page(u).source].op = "thread"
            BY DEF NewRequest
          <5> QED BY <1>6, <2>2, <4>4, <5>1 DEF SendThread, Send
        <4>5. CASE SendOnThread(u)
          <5>1. PICK op \in OnThread : \E t, z : Send(u, [NewRequest(op) EXCEPT !.source = Page(u).source, !.target = t, !.to = z])
            BY <4>5 DEF SendOnThread
          <5>2. PICK t, z : Send(u, [NewRequest(op) EXCEPT !.source = Page(u).source, !.target = t, !.to = z])
            BY <5>1
          <5>3. [NewRequest(op) EXCEPT !.source = Page(u).source, !.target = t, !.to = z].op = op
            BY DEF NewRequest
          <5> QED BY <1>6, <2>2, <5>2, <5>3 DEF Send, OnThread
        <4> QED BY <1>10, <2>4, <4>1, <4>2, <4>3, <4>4, <4>5 DEF Sends
      <3> QED BY <1>7, <2>2, <3>1
    <2> QED BY <2>3, <2>4
  <1>11. CASE Serves(u) /\ w.op # "canvas" /\ UNCHANGED tabs
    <2>1. PICK x : Move(u, x) /\ (x = Absent \/ Same(x, w))
      BY <1>11, MoveKeeps DEF w
    <2> QED BY <1>6, <1>7, <1>11, <2>1 DEF Same
  \* The page stays and the request goes on.
  <1>12. ASSUME NEW x, work'[u] = x, Same(x, w), UNCHANGED tabs,
                w.op = "canvas" => /\ x.phase = "reload" => Precedes(w.base + 1, w.canvas, layers'[w.source])
                                   /\ x.phase \in {"count", "threads", "store"} /\ x.version = w.base + 1 =>
                                        Precedes(x.version, w.canvas, layers'[w.source]),
                w # Absent
         PROVE  Goal
    <2>1. tabs'[u].page = p
      BY <1>12 DEF p
    <2> QED BY <1>2, <1>12, <2>1 DEF CanvasOK, Same
  <1>13. CASE LoadLayer(u)
    <2>1. CASE Done(u) /\ (UNCHANGED tabs \/ Conflict(u))
      BY <1>3, <1>8, <1>13, <2>1 DEF Conflict, LoadLayer, At, RequestOK, w, p
    <2>2. CASE ~(Done(u) /\ (UNCHANGED tabs \/ Conflict(u)))
      <3> DEFINE x == [w EXCEPT !.seen = layers[w.source], !.phase = "write"]
      <3>1. Move(u, x) /\ UNCHANGED tabs /\ w # Absent
        BY <1>13, <2>2 DEF LoadLayer, Conflict, At, w
      <3>2. Same(x, w) /\ x.phase = "write"
        BY <1>3, <3>1 DEF Same, Requests
      <3> HIDE DEF x
      <3> QED BY <1>6, <1>12, <3>1, <3>2
    <2> QED BY <2>1, <2>2
  <1>14. CASE InsertLayer(u)
    <2>1. w # Absent /\ w.phase = "write" /\ w.op = "canvas" /\ w.seen = Absent /\ w \in Requests /\ w.source \in Sources
          /\ w.base = 0 /\ p # Absent
      BY <1>3, <1>14 DEF InsertLayer, At, RequestOK, MarkupKinds, Requests, w
    <2>2. CASE layers[w.source] # Absent
      BY <1>8, <1>14, <2>1, <2>2 DEF InsertLayer, Conflict, w
    <2>3. CASE layers[w.source] = Absent
      <3> DEFINE x == [w EXCEPT !.version = 1, !.phase = "count", !.seen = Absent]
                 l == [canvas |-> w.canvas, threads |-> <<>>, version |-> 1]
      <3>1. layers' = [layers EXCEPT ![w.source] = l] /\ Move(u, x) /\ UNCHANGED tabs
        BY <1>14, <2>3 DEF InsertLayer, w
      <3>2. layers'[w.source] = l /\ l # Absent
        <4>1. l \in Layers
          BY <2>1, EmptySeq DEF Layers, Requests
        <4> QED BY <2>1, <3>1, <4>1, Unlike DEF Typed, DocumentsOK
      <3>3. Same(x, w) /\ x.phase = "count" /\ x.version = 1
        BY <2>1 DEF Same, Requests
      <3>4. Precedes(1, w.canvas, layers'[w.source])
        BY <3>2 DEF Precedes
      <3> HIDE DEF x
      <3> QED BY <1>6, <1>12, <2>1, <3>1, <3>3, <3>4
    <2> QED BY <2>2, <2>3
  <1>15. CASE SaveCanvas(u)
    <2>1. w # Absent /\ w.phase = "write" /\ w.op = "canvas" /\ w.seen # Absent /\ w \in Requests /\ w.source \in Sources
          /\ w.seen \in Layers /\ p # Absent /\ w.base \in Nat
      BY <1>3, <1>15 DEF SaveCanvas, At, RequestOK, MarkupKinds, Requests, w
    <2>2. CASE ~Unchanged(w)
      BY <1>8, <1>15, <2>1, <2>2 DEF SaveCanvas, Conflict, w
    <2>3. CASE Unchanged(w)
      <3> DEFINE x == [w EXCEPT !.phase = "reload", !.seen = Absent]
                 l == [canvas |-> w.canvas, threads |-> w.seen.threads, version |-> w.base + 1]
      <3>1. layers' = [layers EXCEPT ![w.source] = l] /\ Move(u, x) /\ UNCHANGED tabs
        BY <1>15, <2>3 DEF SaveCanvas, w
      <3>2. layers'[w.source] = l /\ l # Absent
        <4>1. l \in Layers
          BY <2>1, MarkupRead DEF Layers, Requests
        <4> QED BY <2>1, <3>1, <4>1, Unlike DEF Typed, DocumentsOK
      <3>3. Same(x, w) /\ x.phase = "reload"
        BY <2>1 DEF Same, Requests
      <3>4. Precedes(w.base + 1, w.canvas, layers'[w.source])
        BY <2>1, <3>2 DEF Precedes
      <3> HIDE DEF x
      <3> QED BY <1>6, <1>12, <2>1, <3>1, <3>3, <3>4
    <2> QED BY <2>2, <2>3
  <1>16. CASE ReloadLayer(u)
    <2>1. w # Absent /\ w.phase = "reload" /\ w.op = "canvas" /\ w \in Requests /\ w.source \in Sources /\ UNCHANGED <<tabs, layers>>
          /\ layers[w.source] # Absent /\ w.base \in Nat
      BY <1>3, <1>16 DEF ReloadLayer, At, RequestOK, Requests, documents, w
    <2>2. CASE Done(u)
      BY <1>8, <2>1, <2>2
    <2>3. CASE ~Done(u)
      <3> DEFINE k == layers[w.source].version
                 x == [w EXCEPT !.version = k, !.phase = "count"]
      <3>1. Move(u, x)
        BY <1>16, <2>3 DEF ReloadLayer, w
      <3>2. Same(x, w) /\ x.phase = "count" /\ x.version = k
        BY <2>1 DEF Same, Requests
      <3> HIDE DEF x
      <3>3. Precedes(w.base + 1, w.canvas, layers[w.source])
        BY <1>2, <2>1 DEF CanvasOK
      <3>4. k \in Nat
        BY <2>1, LayerOK, MarkupRead DEF Typed
      <3>5. k = w.base + 1 => Precedes(k, w.canvas, layers'[w.source])
        BY <2>1, <3>3, <3>4 DEF Precedes
      <3> QED BY <1>6, <1>12, <2>1, <3>1, <3>2, <3>5
    <2> QED BY <2>2, <2>3
  <1>17. CASE CountComments(u)
    <2> DEFINE x == [w EXCEPT !.count = Open(Rows(annotation)), !.phase = "threads"]
    <2>1. w # Absent /\ w.phase = "count" /\ w \in Requests /\ UNCHANGED tabs /\ Move(u, x)
      BY <1>3, <1>17 DEF CountComments, At, w
    <2>2. Same(x, w) /\ x.phase = "threads" /\ x.version = w.version
      BY <2>1 DEF Same, Requests
    <2> HIDE DEF x
    <2> QED BY <1>2, <1>6, <1>12, <2>1, <2>2 DEF CanvasOK
  <1>18. CASE CountThreads(u)
    <2> DEFINE x == [w EXCEPT !.count = @ + OpenThreads, !.phase = "store"]
    <2>1. w # Absent /\ w.phase = "threads" /\ w \in Requests /\ UNCHANGED tabs /\ (Done(u) \/ Move(u, x))
      BY <1>3, <1>18 DEF CountThreads, At, w
    <2>2. Same(x, w) /\ x.phase = "store" /\ x.version = w.version
      BY <2>1 DEF Same, Requests
    <2> HIDE DEF x
    <2> QED BY <1>2, <1>6, <1>8, <1>12, <2>1, <2>2 DEF CanvasOK
  <1>19. CASE StoreCount(u)
    <2>1. w # Absent /\ w.phase = "store" /\ w \in Requests /\ UNCHANGED layers /\ Done(u) /\ work'[u] = Absent
      BY <1>3, <1>6, <1>19 DEF StoreCount, At, Done, w
    <2>2. CASE w.op \notin MarkupKinds
      BY <1>8, <1>19, <2>1, <2>2 DEF StoreCount, w
    <2>3. CASE w.op \in MarkupKinds
      <3>1. p # Absent /\ Page(u) \in Pages /\ p = Page(u)
        BY <1>3, <2>1, <2>3 DEF RequestOK, Page, p
      <3> DEFINE q == Answered(u, w)
      <3>2. tabs'[u].page = q
        BY <1>5, <1>19, <2>3 DEF StoreCount, ShowPage, w
      <3>3. /\ q.base = w.version /\ q.source = p.source
            /\ w.op = "canvas" => q.saved = w.canvas /\ q.adopted = (w.version # w.base + 1)
            /\ w.op # "canvas" => q.adopted = TRUE
        BY <2>1, <3>1, AnsweredTyped
      <3> HIDE DEF q
      <3>4. CASE w.op # "canvas"
        BY <2>1, <3>2, <3>3, <3>4 DEF CanvasOK
      <3>5. CASE w.op = "canvas"
        BY <1>2, <2>1, <3>2, <3>3, <3>5 DEF CanvasOK
      <3> QED BY <3>4, <3>5
    <2> QED BY <2>2, <2>3
  <1>20. CASE SavesAnnotation(u) \/ SaveThread(u) \/ LoadAnnotation(u) \/ RepairSearch(u) \/ SavePart(u)
    <2>1. Serves(u) /\ UNCHANGED tabs
      BY <1>20 DEF Serves, SavesAnnotation, SavesLayer, Reads, SavesPart, InsertAnnotation, DeleteAnnotation,
         UpdateAnnotation, SaveThread, LoadAnnotation, RepairSearch, SavePart
    <2>2. w # Absent /\ (w.op # "canvas" \/ w.phase \in {"repair", "save", "part"})
      BY <1>20 DEF SavesAnnotation, InsertAnnotation, DeleteAnnotation, UpdateAnnotation, SaveThread, LoadAnnotation,
         RepairSearch, SavePart, At, AnnotationKinds, w
    <2>3. w.op # "canvas"
      BY <1>3, <2>2 DEF RequestOK, AnnotationKinds
    <2> QED BY <1>11, <2>1, <2>3
  <1> QED BY <1>9, <1>10, <1>13, <1>14, <1>15, <1>16, <1>17, <1>18, <1>19, <1>20, Kinds DEF SavesLayer, Reads, SavesPart

LEMMA CanvasStep ==
  ASSUME Typed, CanvasKnown, [Next]_vars
  PROVE  CanvasKnown'
  <1> SUFFICES ASSUME ~regressed' PROVE Canvases'
    BY DEF CanvasKnown
  <1>1. Canvases /\ Typed' /\ \A s \in Sources : Succeeds(layers'[s], layers[s])
    BY LayersSucceed, StepTyped DEF CanvasKnown
  <1>2. CASE UNCHANGED <<layers, work, tabs>>
    BY <1>1, <1>2 DEF Canvases
  <1>3. ASSUME NEW u \in Users, Serve(u), NEW v \in Users PROVE CanvasOK(tabs'[v].page, work'[v], layers')
    <2>1. CASE v = u
      BY <1>1, <1>3, <2>1, CanvasStepOf
    <2>2. CASE v # u
      <3>1. (\E y : work' = [work EXCEPT ![u] = y]) \/ UNCHANGED work
        BY <1>3, Kinds, MoveKeeps, Sending DEF Browses, OpenNotes, OpenPage, Draw, Erase, Editing, Send, Serves, Move
      <3>2. (\E p : tabs' = [tabs EXCEPT ![u].page = p]) \/ (\E n : tabs' = [tabs EXCEPT ![u].notes = n]) \/ UNCHANGED tabs
        BY <1>3, Kinds, ServedTab, Sending DEF Browses, OpenNotes, OpenPage, Draw, Erase, ShowPage, Send, Serves
      <3>3. work'[v] = work[v] /\ tabs'[v] = tabs[v]
        BY <2>2, <3>1, <3>2 DEF Typed, UsersOK
      <3> QED BY <1>1, <3>3, CanvasStays DEF Canvases
    <2> QED BY <2>1, <2>2
  <1>4. CASE UNCHANGED vars \/ ReplaceDrawing
    BY <1>2, <1>4 DEF vars, documents, ReplaceDrawing
  <1> QED BY <1>3, <1>4 DEF Next, Canvases

LEMMA CanvasInit == Init => CanvasKnown
  BY DEF Init, CanvasKnown, Canvases, CanvasOK

\* A canvas that is accepted and not for an adopted version.
LEMMA CanvasReplacesStep ==
  ASSUME Typed, CanvasKnown, [Next]_vars, NEW u \in Users, Accepted(u), ~regressed, ~Page(u).adopted
  PROVE  layers[work[u].source].canvas = Page(u).saved
  <1>1. PICK v \in Users : Serve(v) /\ SavesLayer(v)
    BY LayersKept DEF Accepted, Next, vars, documents, ReplaceDrawing
  <1>2. PICK y : work' = [work EXCEPT ![v] = y]
    BY <1>1, MoveKeeps DEF Serves, Move
  <1>3. v = u
    BY <1>2 DEF Accepted, Typed, UsersOK
  <1>4. SaveCanvas(u) /\ Unchanged(work[u])
    BY <1>1, <1>3 DEF SavesLayer, Accepted, InsertLayer, SaveThread, SaveCanvas
  <1>5. /\ work[u] # Absent /\ work[u].source \in Sources /\ work[u].op = "canvas" /\ work[u].seen # Absent
        /\ layers[work[u].source] # Absent /\ Page(u) # Absent
    BY <1>4, MarkupOK DEF SaveCanvas, RequestOK, At
  <1>6. CanvasOK(Page(u), work[u], layers)
    BY DEF CanvasKnown, Canvases, Page
  <1> QED BY <1>4, <1>5, <1>6 DEF CanvasOK, Precedes, Unchanged

\* A canvas is saved over the very canvas its editor was loaded with, unless a
\* version was used twice or an answer's version was taken over
\* (CanvasReplacesWhatWasLoaded).
THEOREM CanvasReplacesItsOwn == Spec => CanvasReplacesWhatWasLoaded
  <1>1. Typed /\ CanvasKnown /\ [Next]_vars => CanvasKnown'
    BY CanvasStep
  <1>2. Typed /\ CanvasKnown /\ [Next]_vars =>
          [\A u \in Users : Accepted(u) /\ ~regressed /\ ~Page(u).adopted
             => layers[work[u].source].canvas = Page(u).saved]_vars
    BY CanvasReplacesStep
  <1> QED BY <1>1, <1>2, CanvasInit, SpecTyped, PTL DEF Spec, CanvasReplacesWhatWasLoaded

-------------------------------------------------------------------------------
(* The part follows its reviews.                                           *)

PendingRight(a, p, ls) == p.pending = Open(Rows(a)) + Cardinality(Opened(ls))
TextsRight(a, p)       == SearchOf(p) = SearchText(Notes(a), Rows(a))

\* Where the only request on the way stands, given the documents.
InStep(w, a, p, ls) ==
  /\ w.phase # "repair"
  /\ w.phase \in {"load", "save", "write"} => PendingRight(a, p, ls) /\ TextsRight(a, p)
  /\ w.phase = "save" => w.seen = a /\ w.was = SearchOf(p)
  /\ w.phase = "part" => /\ w.was = SearchOf(p) /\ NewNotes(w) = Notes(a) /\ NewRows(w) = Rows(a)
                         /\ w.op = "notes" => PendingRight(a, p, ls)
  /\ w.phase = "write" => w.seen = ls[w.source]
  /\ w.phase \in {"reload", "count", "threads", "store"} => TextsRight(a, p)
  /\ w.phase = "threads" => w.count = Open(Rows(a))
  /\ w.phase = "store" => w.count = Open(Rows(a)) + Cardinality(Opened(ls))

Following ==
  /\ \A s \in Sources : Valid(layers[s])
  /\ \A u, v \in Users : work[u] # Absent /\ work[v] # Absent => u = v
  /\ (\A u \in Users : work[u] = Absent) => PendingRight(annotation, part, layers) /\ TextsRight(annotation, part)
  /\ \A u \in Users : work[u] # Absent => InStep(work[u], annotation, part, layers)

LEMMA ReadableIfValid == ASSUME NEW l, Valid(l) PROVE Readable(l)
  BY DEF Valid, Readable, Ids, Hole

\* It is enough to look at the user whose request is served.
LEMMA FollowingOn ==
  ASSUME Typed, NEW u \in Users, \A v \in Users \ {u} : work[v] = Absent, NEW x, Move(u, x),
         \A s \in Sources : Valid(layers'[s]),
         x = Absent => PendingRight(annotation', part', layers') /\ TextsRight(annotation', part'),
         x # Absent => InStep(x, annotation', part', layers')
  PROVE  Following'
  <1>1. work'[u] = x /\ \A v \in Users \ {u} : work'[v] = Absent
    BY DEF Typed, UsersOK, Move
  <1> QED BY <1>1 DEF Following

LEMMA SameWork ==
  ASSUME NEW x, NEW w, Same(x, w), x.seen = w.seen
  PROVE  NewNotes(x) = NewNotes(w) /\ NewRows(x) = NewRows(w)
  BY DEF Same, NewNotes, NewRows

\* What is known of a request that is the only one.
LEMMA Alone ==
  ASSUME Typed, Following, NEW u \in Users, work[u] # Absent
  PROVE  /\ \A v \in Users \ {u} : work[v] = Absent
         /\ InStep(work[u], annotation, part, layers) /\ work[u] \in Requests
         /\ RequestOK(work[u], tabs[u].page, layers)
         /\ \A s \in Sources : Valid(layers[s]) /\ Readable(layers[s])
         /\ annotation \in {Absent} \cup Annotations
  BY ReadableIfValid DEF Following, Typed, UsersOK, DocumentsOK

LEMMA FollowsLoadAnnotation ==
  ASSUME Typed, Following, NEW u \in Users, LoadAnnotation(u)
  PROVE  Following'
  <1> DEFINE w == work[u]
             x == [[w EXCEPT !.seen = annotation, !.was = SearchOf(part)] EXCEPT !.phase = "save"]
  <1>1. w # Absent /\ w.phase = "load" /\ UNCHANGED documents
    BY DEF LoadAnnotation, At
  <1>2. InStep(w, annotation, part, layers) /\ w \in Requests
    BY <1>1, Alone
  <1>3. PendingRight(annotation, part, layers) /\ TextsRight(annotation, part)
    BY <1>1, <1>2 DEF InStep
  <1>4. CASE Done(u)
    BY <1>1, <1>3, <1>4, Alone, FollowingOn DEF Done, documents
  <1>5. CASE ~Done(u)
    <2>1. [w EXCEPT !.seen = annotation, !.was = SearchOf(part)].was = SearchOf(part)
      BY <1>2 DEF Requests
    <2>2. Move(u, x)
      BY <1>3, <1>5, <2>1 DEF LoadAnnotation, TextsRight
    <2>3. x.phase = "save" /\ x.seen = annotation /\ x.was = SearchOf(part)
      BY <1>2 DEF Requests
    <2> HIDE DEF x
    <2>4. InStep(x, annotation, part, layers)
      BY <1>3, <2>3 DEF InStep
    <2>5. x # Absent
      <3>1. x \in Requests
        BY <1>2, <1>3 DEF x, Requests, Typed, DocumentsOK, SearchOf
      <3> QED BY <3>1, Unlike
    <2> QED BY <1>1, <2>2, <2>4, <2>5, Alone, FollowingOn DEF documents
  <1> QED BY <1>4, <1>5

\* A save of the annotation writes what the request made of it.
LEMMA AnnotationFollows ==
  ASSUME Typed, Following, NEW u \in Users, SavesAnnotation(u)
  PROVE  /\ Notes(annotation') = NewNotes(work[u]) /\ Rows(annotation') = NewRows(work[u])
         /\ \E t \in Texts : Move(u, [work[u] EXCEPT !.phase = "part", !.told = t])
  <1> DEFINE w == work[u]
  <1>1. w # Absent /\ w.phase = "save" /\ At(u, "save") /\ w \in Requests
    BY Alone DEF SavesAnnotation, InsertAnnotation, DeleteAnnotation, UpdateAnnotation, At
  <1>2. w.seen = annotation /\ annotation \in {Absent} \cup Annotations
    BY <1>1, Alone DEF InStep
  <1>3. [w EXCEPT !.phase = "part"] = [w EXCEPT !.phase = "part", !.told = w.told] /\ w.told \in Texts
    BY <1>1 DEF Requests
  <1>4. Notes(Absent) = 0 /\ Rows(Absent) = <<>>
    BY DEF Notes, Rows
  <1>5. NewRows(w) \in Seq(Comments) /\ NewNotes(w) \in Texts /\ w.n \in Texts /\ clock \in Nat
    BY <1>1, SaverOK DEF Typed, DocumentsOK
  <1>6. CASE InsertAnnotation(u)
    <2>1. annotation = Absent
      BY <1>2, <1>6 DEF InsertAnnotation
    <2>2. CASE Emptied(w)
      BY <1>3, <1>4, <1>6, <2>1, <2>2 DEF InsertAnnotation, Emptied
    <2>3. CASE ~Emptied(w)
      <3> DEFINE a == [id |-> w.n, notes |-> NewNotes(w), comments |-> NewRows(w), stamp |-> clock + 1]
      <3>1. annotation' = a /\ Move(u, [w EXCEPT !.phase = "part"])
        BY <1>6, <2>1, <2>3 DEF InsertAnnotation
      <3>2. a # Absent
        <4>1. a \in Annotations
          BY <1>5 DEF Annotations
        <4> QED BY <4>1, Unlike
      <3>3. Notes(a) = NewNotes(w) /\ Rows(a) = NewRows(w)
        BY <3>2 DEF Notes, Rows
      <3> QED BY <1>3, <3>1, <3>3
    <2> QED BY <2>2, <2>3
  <1>7. CASE DeleteAnnotation(u)
    <2>1. Stored(w)
      BY <1>2, <1>7 DEF DeleteAnnotation, Stored
    <2>2. annotation' = Absent /\ Emptied(w) /\ Move(u, [w EXCEPT !.phase = "part", !.told = Told(w)])
      BY <1>7, <2>1 DEF DeleteAnnotation
    <2>3. Told(w) \in Texts
      BY <1>1, <1>7, SaverOK DEF DeleteAnnotation
    <2> QED BY <1>4, <2>2, <2>3 DEF Emptied
  <1>8. CASE UpdateAnnotation(u)
    <2>1. Stored(w) /\ annotation # Absent /\ annotation \in Annotations
      BY <1>2, <1>8 DEF UpdateAnnotation, Stored
    <2>2. Move(u, [w EXCEPT !.phase = "part", !.told = Told(w)]) /\ Told(w) \in Texts
      BY <1>1, <1>8, <2>1, SaverOK DEF UpdateAnnotation
    <2> DEFINE a == [annotation EXCEPT !.notes = NewNotes(w), !.comments = NewRows(w), !.stamp = clock']
    <2>3. annotation' = a
      <3>1. Field(NewNotes(w), w.seen.notes, annotation.notes) = NewNotes(w)
            /\ Field(NewRows(w), w.seen.comments, annotation.comments) = NewRows(w)
        BY <1>2 DEF Field
      <3> QED BY <1>8, <2>1, <3>1 DEF UpdateAnnotation
    <2>4. a # Absent /\ a.notes = NewNotes(w) /\ a.comments = NewRows(w)
      <3>1. clock' \in Nat
        BY <1>5, <1>8, <2>1 DEF UpdateAnnotation
      <3>2. a \in Annotations
        BY <1>5, <2>1, <3>1 DEF Annotations
      <3> QED BY <2>1, <3>2, Unlike DEF Annotations
    <2> HIDE DEF a
    <2> QED BY <2>2, <2>3, <2>4 DEF Notes, Rows
  <1> QED BY <1>6, <1>7, <1>8 DEF SavesAnnotation

LEMMA FollowsSaveAnnotation ==
  ASSUME Typed, Following, NEW u \in Users, SavesAnnotation(u)
  PROVE  Following'
  <1> DEFINE w == work[u]
  <1>1. w # Absent /\ w.phase = "save" /\ UNCHANGED <<layers, part>>
    BY DEF SavesAnnotation, InsertAnnotation, DeleteAnnotation, UpdateAnnotation, At
  <1>2. /\ w \in Requests /\ w.seen = annotation /\ w.was = SearchOf(part)
        /\ PendingRight(annotation, part, layers)
    BY <1>1, Alone DEF InStep
  <1>3. PICK t \in Texts : Move(u, [w EXCEPT !.phase = "part", !.told = t])
    BY AnnotationFollows
  <1> DEFINE x == [w EXCEPT !.phase = "part", !.told = t]
  <1>4. x.phase = "part" /\ Same(x, w) /\ x.seen = w.seen /\ x.was = w.was
    BY <1>2 DEF Same, Requests
  <1> HIDE DEF x
  <1>5. NewNotes(x) = Notes(annotation') /\ NewRows(x) = Rows(annotation')
    BY <1>4, SameWork, AnnotationFollows
  <1>6. x.op = "notes" => Rows(annotation') = Rows(annotation)
    BY <1>2, <1>4, <1>5 DEF NewRows
  <1>7. InStep(x, annotation', part', layers')
    BY <1>1, <1>2, <1>4, <1>5, <1>6 DEF InStep, PendingRight
  <1>8. Move(u, x)
    BY <1>3 DEF x
  <1>9. x # Absent
    <2>1. x \in Requests
      BY <1>2, <1>3 DEF x, Requests
    <2> QED BY <2>1, Unlike
  <1> QED BY <1>1, <1>7, <1>8, <1>9, Alone, FollowingOn

LEMMA FollowsSavePart ==
  ASSUME Typed, Following, NEW u \in Users, SavePart(u)
  PROVE  Following'
  <1> DEFINE w == work[u]
             text == SearchText(NewNotes(w), NewRows(w))
             x == [w EXCEPT !.phase = "count", !.seen = Absent, !.was = Absent]
  <1>1. w # Absent /\ w.phase = "part" /\ UNCHANGED <<layers, annotation>> /\ At(u, "part")
    BY DEF SavePart, At
  <1>2. /\ w \in Requests /\ w.was = SearchOf(part)
        /\ NewNotes(w) = Notes(annotation) /\ NewRows(w) = Rows(annotation)
        /\ w.op = "notes" => PendingRight(annotation, part, layers)
    BY <1>1, Alone DEF InStep
  <1>3. text \in Texts2
    BY <1>1, SaverOK, TextsFound
  <1>4. SaveSearch(SearchOf(part), text)
    BY <1>2 DEF SavePart
  <1>5. text = SearchText(Notes(annotation), Rows(annotation))
    BY <1>2
  <1> HIDE DEF text
  <1>6. SearchOf(part') = text /\ part'.pending = part.pending
    <2>1. part \in [notes : Texts, comments : SUBSET Texts, pending : Nat]
      BY DEF Typed, DocumentsOK
    <2>2. Field(text.notes, SearchOf(part).notes, part.notes) = text.notes
          /\ Field(text.comments, SearchOf(part).comments, part.comments) = text.comments
      BY DEF Field, SearchOf
    <2>3. part' = [part EXCEPT !.notes = text.notes, !.comments = text.comments]
      BY <1>4, <2>2 DEF SaveSearch
    <2> QED BY <1>3, <2>1, <2>3 DEF SearchOf, Texts2
  <1>7. TextsRight(annotation', part')
    BY <1>1, <1>5, <1>6 DEF TextsRight
  <1>8. CASE w.op = "notes"
    BY <1>1, <1>2, <1>6, <1>7, <1>8, Alone, FollowingOn DEF SavePart, Counts, Done, PendingRight
  <1>9. CASE w.op # "notes"
    <2>1. Move(u, x)
      BY <1>9 DEF SavePart, Counts
    <2>2. x.phase = "count" /\ x \in Requests
      BY <1>2 DEF Requests
    <2> HIDE DEF x
    <2>3. x # Absent /\ InStep(x, annotation', part', layers')
      BY <1>7, <2>2, Unlike DEF InStep
    <2> QED BY <1>1, <2>1, <2>3, Alone, FollowingOn
  <1> QED BY <1>8, <1>9

LEMMA FollowsLoadLayer ==
  ASSUME Typed, Following, NEW u \in Users, LoadLayer(u)
  PROVE  Following'
  <1> DEFINE w == work[u]
             x == [w EXCEPT !.seen = layers[w.source], !.phase = "write"]
  <1>1. w # Absent /\ w.phase = "load" /\ UNCHANGED documents
    BY DEF LoadLayer, At
  <1>2. InStep(w, annotation, part, layers) /\ w \in Requests
    BY <1>1, Alone
  <1>3. PendingRight(annotation, part, layers) /\ TextsRight(annotation, part)
    BY <1>1, <1>2 DEF InStep
  <1>4. CASE Done(u)
    BY <1>1, <1>3, <1>4, Alone, FollowingOn DEF Done, documents
  <1>5. CASE ~Done(u)
    <2>1. Move(u, x)
      BY <1>5, LayerRead
    <2>2. x.phase = "write" /\ x.seen = layers[x.source] /\ x \in Requests
      BY <1>2 DEF Requests, Typed, DocumentsOK
    <2> HIDE DEF x
    <2>3. x # Absent /\ InStep(x, annotation, part, layers)
      BY <1>3, <2>2, Unlike DEF InStep
    <2> QED BY <1>1, <2>1, <2>3, Alone, FollowingOn DEF documents
  <1> QED BY <1>4, <1>5

\* A save of a layer goes on, and every thread of the layer has an id.
LEMMA FollowsWrite ==
  ASSUME Typed, Following, NEW u \in Users, UNCHANGED <<annotation, part>>,
         At(u, "write"), NEW l \in Layers, layers' = [layers EXCEPT ![work[u].source] = l],
         Nobody \notin Ids(l.threads), NEW x \in Requests, Move(u, x), x.phase \in {"reload", "count"}
  PROVE  Following'
  <1>1. /\ work[u] \in Requests /\ work[u] # Absent /\ TextsRight(annotation, part)
        /\ \A s \in Sources : Valid(layers[s])
    BY Alone DEF At, InStep
  <1>2. work[u].source \in Sources
    BY <1>1 DEF Requests
  <1>3. \A s \in Sources : Valid(layers'[s])
    <2>1. l # Absent
      BY Unlike
    <2> QED BY <1>1, <1>2, <2>1, LayerWritten DEF Typed, Valid, Entries
  <1>4. x # Absent /\ InStep(x, annotation', part', layers')
    BY <1>1, Unlike DEF InStep
  <1> QED BY <1>1, <1>3, <1>4, Alone, FollowingOn

LEMMA FollowsInsertLayer ==
  ASSUME Typed, Following, NEW u \in Users, InsertLayer(u)
  PROVE  Following'
  <1> DEFINE w == work[u]
             l == [canvas |-> w.canvas, threads |-> <<>>, version |-> 1]
             x == [w EXCEPT !.version = 1, !.phase = "count", !.seen = Absent]
  <1>1. w # Absent /\ w.phase = "write" /\ w.seen = Absent /\ UNCHANGED <<annotation, part>> /\ At(u, "write")
    BY DEF InsertLayer, At
  <1>2. w \in Requests /\ layers[w.source] = Absent
    BY <1>1, Alone DEF InStep
  <1>3. layers' = [layers EXCEPT ![w.source] = l] /\ Move(u, x)
    BY <1>2 DEF InsertLayer
  <1>4. l \in Layers /\ Nobody \notin Ids(l.threads)
    BY <1>2, EmptySeq DEF Layers, Requests, Ids
  <1>5. x \in Requests /\ x.phase = "count"
    BY <1>2 DEF Requests
  <1> HIDE DEF l, x
  <1> QED BY <1>1, <1>3, <1>4, <1>5, FollowsWrite

LEMMA FollowsSaveCanvas ==
  ASSUME Typed, Following, NEW u \in Users, SaveCanvas(u)
  PROVE  Following'
  <1> DEFINE w == work[u]
             l == [canvas |-> w.canvas, threads |-> w.seen.threads, version |-> w.base + 1]
             x == [w EXCEPT !.phase = "reload", !.seen = Absent]
  <1>1. w # Absent /\ w.phase = "write" /\ w.seen # Absent /\ UNCHANGED <<annotation, part>> /\ At(u, "write")
        /\ w.op = "canvas"
    BY DEF SaveCanvas, At
  <1>2. /\ w \in Requests /\ w.seen = layers[w.source] /\ Valid(layers[w.source]) /\ w.seen \in Layers
        /\ w.base = w.seen.version
    <2>1. w \in Requests /\ w.seen = layers[w.source] /\ RequestOK(w, tabs[u].page, layers)
      BY <1>1, Alone DEF InStep
    <2>2. w.source \in Sources
      BY <2>1 DEF Requests
    <2> QED BY <1>1, <2>1, <2>2, Alone DEF RequestOK
  <1>3. layers' = [layers EXCEPT ![w.source] = l] /\ Move(u, x)
    BY <1>2 DEF SaveCanvas, Unchanged
  <1>4. l \in Layers /\ Nobody \notin Ids(l.threads)
    BY <1>1, <1>2 DEF Layers, Requests, Valid, Entries
  <1>5. x \in Requests /\ x.phase = "reload"
    BY <1>2 DEF Requests
  <1> HIDE DEF l, x
  <1> QED BY <1>1, <1>3, <1>4, <1>5, FollowsWrite

\* Threads written to the layer they were read from keep their ids.
LEMMA IdsMade ==
  ASSUME NEW w \in Requests, w.op \in ThreadKinds, w.seen \in Layers, w.op \in OnThread => Has(w.seen.threads, w.target),
         Nobody \notin Ids(w.seen.threads), w.n # Nobody
  PROVE  Nobody \notin Ids(SavedThreads(w, w.seen.threads))
  <1> DEFINE seen == w.seen.threads
             i == Where(w)
             new == SavedThreads(w, seen)
  <1>1. /\ seen \in Seq(Threads) /\ DOMAIN seen = 1 .. Len(seen) /\ Len(seen) \in Nat
        /\ \A j \in 1 .. Len(seen) : seen[j] \in Threads
    BY MarkupRead
  <1>2. w.op \in OnThread => i \in 1 .. Len(seen) /\ EntryAt(seen, i) = seen[i]
    BY <1>1, Addressed DEF EntryAt
  <1>3. w.n \in Texts /\ w.target \in Texts /\ w.to \in {"open", "resolved"}
    BY DEF Requests
  <1> HIDE DEF seen, i
  <1>4. CASE w.op = "thread"
    <2> DEFINE e == [id |-> w.n, status |-> "open", messages |-> {<<w.n, w.n>>}]
    <2>1. e \in Threads /\ e.id = w.n
      BY <1>3 DEF Threads
    <2>2. new = Append(seen, e)
      BY <1>4 DEF SavedThreads, Added, seen
    <2> HIDE DEF e, new
    <2>3. /\ DOMAIN new = 1 .. Len(seen) + 1 /\ new[Len(seen) + 1] = e
          /\ \A j \in 1 .. Len(seen) : new[j] = seen[j]
      BY <1>1, <2>1, <2>2, AppendProperties, LenProperties
    <2>4. \A j \in 1 .. Len(seen) + 1 : j = Len(seen) + 1 \/ j \in 1 .. Len(seen)
      BY <1>1
    <2> QED BY <1>1, <2>1, <2>3, <2>4 DEF Ids, seen, new
  <1>5. CASE w.op = "delete"
    <2>1. new = Without(seen, w.target)
      BY <1>5 DEF SavedThreads, seen
    <2>2. Nobody \notin Ids(Without(seen, w.target))
      BY <1>1, WithoutOK DEF seen
    <2> QED BY <2>1, <2>2 DEF seen
  <1>6. CASE w.op \in {"message", "state"}
    <2>1. i \in 1 .. Len(seen) /\ EntryAt(seen, i) = seen[i] /\ seen[i] \in Threads
      BY <1>1, <1>2, <1>6 DEF OnThread
    <2>2. \E e \in Threads : new = WriteAt(seen, i, e) /\ e.id = seen[i].id
      <3>1. CASE w.op = "message"
        <4> DEFINE x == [seen[i] EXCEPT !.messages = seen[i].messages \cup {<<w.n, w.target>>}]
        <4>1. x \in Threads /\ x.id = seen[i].id
          <5>1. seen[i].messages \cup {<<w.n, w.target>>} \subseteq Texts \X Texts
            BY <1>3, <2>1 DEF Threads
          <5> QED BY <2>1, <5>1 DEF Threads
        <4>2. new = WriteAt(seen, i, x)
          BY <2>1, <3>1 DEF SavedThreads, seen, i
        <4> HIDE DEF x, new
        <4> QED BY <4>1, <4>2
      <3>2. CASE w.op = "state"
        <4> DEFINE x == IF seen[i].status = w.to THEN seen[i] ELSE [seen[i] EXCEPT !.status = w.to]
        <4>1. x \in Threads /\ x.id = seen[i].id
          BY <1>3, <2>1 DEF Threads
        <4>2. new = WriteAt(seen, i, x)
          BY <2>1, <3>2 DEF SavedThreads, seen, i
        <4> HIDE DEF x, new
        <4> QED BY <4>1, <4>2
      <3> QED BY <1>6, <3>1, <3>2
    <2>3. PICK e \in Threads : new = WriteAt(seen, i, e) /\ e.id = seen[i].id
      BY <2>2
    <2> HIDE DEF new
    <2>4. new \in Seq(Threads) /\ Len(new) = Len(seen) /\ new[i] = e /\ \A j \in 1 .. Len(seen) : j # i => new[j] = seen[j]
      <3>1. i \in Nat \ {0} /\ i <= Len(seen)
        BY <1>1, <2>1
      <3>2. /\ WriteAt(seen, i, e) \in Seq(Threads)
            /\ Len(WriteAt(seen, i, e)) = IF i <= Len(seen) THEN Len(seen) ELSE i
            /\ i <= Len(seen) => /\ WriteAt(seen, i, e)[i] = e
                                 /\ \A j \in 1 .. Len(seen) : j # i => WriteAt(seen, i, e)[j] = seen[j]
        BY <1>1, <3>1, Written
      <3> QED BY <2>3, <3>1, <3>2
    <2>5. DOMAIN new = 1 .. Len(seen)
      BY <2>4, LenProperties
    <2>6. \A j \in 1 .. Len(seen) : new[j].id = seen[j].id
      BY <2>3, <2>4
    <2> QED BY <1>1, <2>5, <2>6 DEF Ids, new, seen
  <1> QED BY <1>4, <1>5, <1>6 DEF ThreadKinds

LEMMA FollowsSaveThread ==
  ASSUME Typed, Numbered, Following, NEW u \in Users, SaveThread(u)
  PROVE  Following'
  <1> DEFINE w == work[u]
             l == LayerMade(w)
             x == [w EXCEPT !.version = l.version, !.phase = "count", !.seen = Absent]
  <1>1. w # Absent /\ w.phase = "write" /\ UNCHANGED <<annotation, part>> /\ At(u, "write") /\ Move(u, x)
    BY DEF SaveThread, At, LayerMade
  <1>2. /\ w \in Requests /\ w.op \in ThreadKinds /\ w.source \in Sources /\ w.seen \in Layers
        /\ w.op \in OnThread => Has(w.seen.threads, w.target)
        /\ l \in Layers /\ l.threads = SavedThreads(w, layers[w.source].threads)
        /\ layers' = [layers EXCEPT ![w.source] = l]
    BY ThreadSaved
  <1>3. w.seen = layers[w.source] /\ Valid(layers[w.source])
    BY <1>1, <1>2, Alone DEF InStep
  <1>4. w.n # Nobody
    BY <1>1 DEF Numbered, Nobody, Typed, DocumentsOK, Texts
  <1>5. Nobody \notin Ids(w.seen.threads)
    BY <1>2, <1>3, Unlike DEF Valid, Entries
  <1>6. Nobody \notin Ids(l.threads)
    BY <1>2, <1>3, <1>4, <1>5, IdsMade
  <1>7. x \in Requests /\ x.phase = "count"
    BY <1>2, MarkupRead DEF Requests
  <1> HIDE DEF x, l
  <1> QED BY <1>1, <1>2, <1>6, <1>7, FollowsWrite

\* A request reads the layer again and counts what it finds.
LEMMA FollowsCount ==
  ASSUME Typed, Following, NEW u \in Users, ReloadLayer(u) \/ CountComments(u) \/ CountThreads(u)
  PROVE  Following'
  <1> DEFINE w == work[u]
  <1>1. w # Absent /\ w.phase \in {"reload", "count", "threads"} /\ UNCHANGED documents
    BY DEF ReloadLayer, CountComments, CountThreads, At
  <1>2. /\ w \in Requests /\ InStep(w, annotation, part, layers) /\ \A s \in Sources : Readable(layers[s])
        /\ RequestOK(w, tabs[u].page, layers)
    BY <1>1, Alone
  <1>3. ASSUME NEW x \in Requests, Move(u, x), InStep(x, annotation, part, layers) PROVE Following'
    BY <1>1, <1>3, Alone, FollowingOn, Unlike DEF documents
  <1>4. CASE ReloadLayer(u)
    <2> DEFINE x == [w EXCEPT !.version = layers[w.source].version, !.phase = "count"]
    <2>1. w.source \in Sources /\ w.phase = "reload"
      BY <1>2, <1>4 DEF Requests, ReloadLayer, At
    <2>2. layers[w.source].version \in Nat
      BY <1>2, <2>1, LayerOK, MarkupRead DEF RequestOK, Typed
    <2>3. x \in Requests /\ x.phase = "count"
      BY <1>2, <2>2 DEF Requests
    <2>4. Move(u, x)
      BY <1>2, <1>4, <2>1 DEF ReloadLayer
    <2> HIDE DEF x
    <2> QED BY <1>2, <1>3, <2>1, <2>3, <2>4 DEF InStep
  <1>5. CASE CountComments(u)
    <2> DEFINE c == Open(Rows(annotation))
               x == [w EXCEPT !.count = c, !.phase = "threads"]
    <2>1. w.phase = "count" /\ Move(u, x)
      BY <1>5 DEF CountComments, At
    <2>2. c \in Nat
      BY DocumentRead, Counted DEF Typed, DocumentsOK
    <2> HIDE DEF c
    <2>3. x \in Requests /\ x.phase = "threads" /\ x.count = c
      BY <1>2, <2>2 DEF Requests
    <2> HIDE DEF x
    <2> QED BY <1>2, <1>3, <2>1, <2>3 DEF InStep, c
  <1>6. CASE CountThreads(u)
    <2> DEFINE c == w.count + OpenThreads
               x == [w EXCEPT !.count = c, !.phase = "store"]
    <2>1. w.phase = "threads" /\ Move(u, [w EXCEPT !.count = @ + OpenThreads, !.phase = "store"])
      BY <1>2, <1>6 DEF CountThreads, At
    <2>2. Move(u, x)
      BY <1>2, <2>1 DEF Requests
    <2>3. w.count \in Nat /\ OpenThreads \in Nat /\ c \in Nat
      BY <1>2, OpenedFinite DEF Requests, OpenThreads
    <2>4. c = Open(Rows(annotation)) + Cardinality(Opened(layers))
      BY <1>2, <2>1 DEF InStep, OpenThreads
    <2> HIDE DEF c
    <2>5. x \in Requests /\ x.phase = "store" /\ x.count = c
      BY <1>2, <2>3 DEF Requests
    <2> HIDE DEF x
    <2> QED BY <1>2, <1>3, <2>1, <2>2, <2>4, <2>5 DEF InStep
  <1> QED BY <1>4, <1>5, <1>6

LEMMA FollowsStoreCount ==
  ASSUME Typed, Following, NEW u \in Users, StoreCount(u)
  PROVE  Following'
  <1> DEFINE w == work[u]
  <1>1. w # Absent /\ w.phase = "store" /\ UNCHANGED <<annotation, layers>> /\ Done(u)
    BY DEF StoreCount, At
  <1>2. InStep(w, annotation, part, layers)
    BY <1>1, Alone
  <1>3. part'.pending = w.count /\ SearchOf(part') = SearchOf(part)
    BY DEF StoreCount, Typed, DocumentsOK, SearchOf
  <1>4. PendingRight(annotation', part', layers') /\ TextsRight(annotation', part')
    BY <1>1, <1>2, <1>3 DEF InStep, PendingRight, TextsRight
  <1> QED BY <1>1, <1>4, Alone, FollowingOn DEF Done

LEMMA FollowingStep ==
  ASSUME Typed, Numbered, ~overlap => Following, [Next]_vars, ~overlap'
  PROVE  Following'
  <1>1. CASE UNCHANGED vars \/ ReplaceDrawing
    BY <1>1 DEF vars, documents, history, ReplaceDrawing, Following
  <1>2. ASSUME NEW u \in Users, Sends(u) PROVE Following'
    <2>1. PICK x : Send(u, x) /\ x.phase = "load"
      BY <1>2, Sending
    <2>2. ~overlap /\ \A v \in Users : work[v] = Absent
      BY <2>1 DEF Send, Idle, Typed, DocumentsOK
    <2>3. Following /\ UNCHANGED documents /\ Move(u, x)
      BY <2>1, <2>2 DEF Send
    <2>4. InStep(x, annotation', part', layers')
      BY <2>1, <2>2, <2>3 DEF Following, InStep, documents
    <2>5. \A s \in Sources : Valid(layers'[s])
      BY <2>3 DEF Following, documents
    <2>6. PendingRight(annotation', part', layers') /\ TextsRight(annotation', part')
      BY <2>2, <2>3 DEF Following, documents
    <2> QED BY <2>2, <2>3, <2>4, <2>5, <2>6, FollowingOn
  <1>3. ASSUME NEW u \in Users, Browses(u) PROVE Following'
    BY <1>3 DEF Browses, OpenNotes, OpenPage, Draw, Erase, Editing, documents, history, Following
  <1>4. ASSUME NEW u \in Users, Serves(u) PROVE Following'
    <2>1. Following
      BY <1>4, ServedTab
    <2>2. ~RepairSearch(u)
      BY <2>1, Alone DEF RepairSearch, At, InStep
    <2> QED BY <1>4, <2>1, <2>2, FollowsLoadAnnotation, FollowsSaveAnnotation, FollowsSavePart, FollowsLoadLayer,
            FollowsInsertLayer, FollowsSaveCanvas, FollowsSaveThread, FollowsCount, FollowsStoreCount
            DEF Serves, SavesLayer, Reads, SavesPart
  <1> QED BY <1>1, <1>2, <1>3, <1>4, Kinds DEF Next, Serves

LEMMA FollowingInit == Init => Following
  <1> SUFFICES ASSUME Init PROVE Following
    OBVIOUS
  <1>1. PICK s \in Starts :
          /\ annotation = s.annotation /\ layers = s.layers
          /\ part = [notes |-> SearchText(Notes(s.annotation), Rows(s.annotation)).notes,
                     comments |-> SearchText(Notes(s.annotation), Rows(s.annotation)).comments,
                     pending |-> s.pending]
    BY DEF Init
  <1>2. s.pending = Open(Rows(annotation)) + Cardinality(Opened(layers))
    BY <1>1, StartsAssumption
  <1>3. TextsRight(annotation, part)
    BY <1>1 DEF TextsRight, SearchOf, SearchText
  <1>4. \A x \in Sources : Valid(layers[x])
    <2>1. \A x \in Sources : Ids(Entries(s.layers[x])) \subseteq 1 .. s.sent
      BY StartsAssumption
    <2> QED BY <1>1, <2>1 DEF Valid, Nobody
  <1> QED BY <1>1, <1>2, <1>3, <1>4 DEF Following, PendingRight, Init

\* As long as requests did not overlap, the part shows its reviews whenever
\* none is on the way (PartFollowsReviews).
THEOREM PartShowsReviews == Spec => []PartFollowsReviews
  <1>1. Typed /\ Numbered /\ (~overlap => Following) /\ [Next]_vars => (~overlap => Following)'
    BY FollowingStep
  <1>2. (~overlap => Following) => PartFollowsReviews
    BY DEF Following, PartFollowsReviews, PendingRight, TextsRight, OpenThreads, Idle
  <1>3. Typed /\ Numbered /\ [Next]_vars => Numbered'
    BY NumberedStep
  <1>4. Init => Numbered
    BY DEF Init, Numbered
  <1> QED BY <1>1, <1>2, <1>3, <1>4, FollowingInit, SpecTyped, PTL DEF Spec

-------------------------------------------------------------------------------
(* How far counts and versions go.  A position in a list that is stored,   *)
(* was read or has been counted was made by a request of its own, and so   *)
(* was a version; a request that has saved nothing yet made none.          *)

\* The request has saved nothing yet.
Unsaved(w) == w # Absent /\ w.phase \in {"load", "repair", "save", "write"}

\* The requests that may have left something.
Spent == (1 .. sent) \ {work[u].n : u \in {v \in Users : Unsaved(work[v])}}

\* Positions in lists that are stored, were read or have been counted.
CommentPlaces(n)   == {<<"comment", 0, i>> : i \in 1 .. n}
ThreadPlaces(s, n) == {<<"thread", s, i>> : i \in 1 .. n}
StoredPlaces == CommentPlaces(Len(Rows(annotation))) \cup UNION {ThreadPlaces(s, Len(Entries(layers[s]))) : s \in Sources}
ReadPlaces(w) ==
  IF w = Absent THEN {}
  ELSE CASE w.phase \in {"repair", "save"} -> CommentPlaces(Len(Rows(w.seen)))
         [] w.phase = "threads"            -> CommentPlaces(w.count)
         [] w.phase = "write"              -> ThreadPlaces(w.source, Len(Entries(w.seen)))
         [] OTHER                          -> {}
Places == StoredPlaces \cup UNION {ReadPlaces(work[u]) : u \in Users}

\* Versions up to those that are stored or were read.
StoredVersions  == UNION {1 .. layers[s].version : s \in Existing}
ReadVersions(w) == IF w # Absent /\ w.phase = "write" /\ w.seen # Absent THEN 1 .. w.seen.version ELSE {}
Versions == StoredVersions \cup UNION {ReadVersions(work[u]) : u \in Users}

\* No request leaves more than one of either.
Paid(things) == IsFiniteSet(things) /\ Cardinality(things) <= Cardinality(Spent)

Answers == /\ part.pending <= sent
           /\ \A u \in Users : work[u] # Absent => work[u].count <= sent /\ work[u].version <= sent

Bounded == Numbered /\ Paid(Places) /\ Paid(Versions) /\ Answers

LEMMA Interval == \A n \in Nat : IsFiniteSet(1 .. n) /\ Cardinality(1 .. n) = n
  BY FS_Interval

LEMMA SpentFinite ==
  ASSUME Typed
  PROVE  IsFiniteSet(Spent) /\ Cardinality(Spent) \in Nat /\ Cardinality(Spent) <= sent
  <1>1. sent \in Nat
    BY DEF Typed, DocumentsOK, Texts
  <1>2. Spent \in SUBSET (1 .. sent)
    BY DEF Spent
  <1>3. IsFiniteSet(1 .. sent) /\ Cardinality(1 .. sent) = sent
    BY <1>1, Interval
  <1>4. IsFiniteSet(Spent) /\ Cardinality(Spent) <= Cardinality(1 .. sent)
    BY <1>2, <1>3, FS_Subset
  <1> QED BY <1>3, <1>4, FS_CardinalityType

\* Fewer things are paid by more requests, and one thing more by one more.
LEMMA Enough ==
  ASSUME NEW K, IsFiniteSet(K), NEW S, IsFiniteSet(S), Cardinality(K) <= Cardinality(S),
         NEW L, L \subseteq K, NEW T, IsFiniteSet(T), S \subseteq T
  PROVE  IsFiniteSet(L) /\ Cardinality(L) <= Cardinality(T)
  <1>1. IsFiniteSet(L) /\ Cardinality(L) <= Cardinality(K)
    BY FS_Subset
  <1>2. Cardinality(S) <= Cardinality(T)
    BY FS_Subset
  <1>3. Cardinality(L) \in Nat /\ Cardinality(K) \in Nat /\ Cardinality(S) \in Nat /\ Cardinality(T) \in Nat
    BY <1>1, FS_CardinalityType
  <1> QED BY <1>1, <1>2, <1>3

LEMMA OneMore ==
  ASSUME NEW K, IsFiniteSet(K), NEW S, IsFiniteSet(S), Cardinality(K) <= Cardinality(S),
         NEW x, NEW L, L \subseteq K \cup {x},
         NEW k, k \notin S, NEW T, IsFiniteSet(T), S \cup {k} \subseteq T
  PROVE  IsFiniteSet(L) /\ Cardinality(L) <= Cardinality(T)
  <1>1. IsFiniteSet(K \cup {x}) /\ Cardinality(K \cup {x}) <= Cardinality(K) + 1
    <2>1. Cardinality(K) \in Nat
      BY FS_CardinalityType
    <2>2. /\ IsFiniteSet(K \cup {x})
          /\ Cardinality(K \cup {x}) = IF x \in K THEN Cardinality(K) ELSE Cardinality(K) + 1
      BY FS_AddElement
    <2> QED BY <2>1, <2>2
  <1>2. IsFiniteSet(S \cup {k}) /\ Cardinality(S \cup {k}) = Cardinality(S) + 1
    BY FS_AddElement
  <1>3. Cardinality(K) \in Nat /\ Cardinality(S) \in Nat /\ Cardinality(K \cup {x}) \in Nat
    BY <1>1, FS_CardinalityType
  <1>4. Cardinality(K \cup {x}) <= Cardinality(S \cup {k})
    BY <1>1, <1>2, <1>3
  <1> QED BY <1>1, <1>2, <1>4, Enough

-------------------------------------------------------------------------------
(* A step of a request.                                                    *)

Saves(u, w) == Unsaved(work[u]) /\ ~Unsaved(w)
Fits(u, w, new, old) == new \subseteq old \/ (Saves(u, w) /\ \E x : new \subseteq old \cup {x})

GoesOn(u, w) ==
  /\ Move(u, w) /\ work[u] # Absent
  /\ w # Absent => w.n = work[u].n /\ w.count <= sent /\ w.version <= sent
  /\ Unsaved(w) => Unsaved(work[u])
  /\ Fits(u, w, StoredPlaces' \cup ReadPlaces(w), Places)
  /\ Fits(u, w, StoredVersions' \cup ReadVersions(w), Versions)
  /\ part'.pending <= sent /\ sent' = sent

LEMMA SpentOn ==
  ASSUME Typed, Numbered, NEW u \in Users, NEW w, GoesOn(u, w)
  PROVE  /\ Spent \subseteq Spent'
         /\ Saves(u, w) => work[u].n \notin Spent /\ work[u].n \in Spent'
  <1>1. work'[u] = w /\ \A v \in Users \ {u} : work'[v] = work[v]
    BY DEF GoesOn, Move, Typed, UsersOK
  <1>2. ASSUME NEW v \in Users, Unsaved(work'[v]) PROVE Unsaved(work[v]) /\ work'[v].n = work[v].n
    BY <1>1, <1>2 DEF GoesOn, Unsaved
  <1>3. Spent \subseteq Spent'
    BY <1>2 DEF Spent, GoesOn
  <1>4. ASSUME Saves(u, w) PROVE work[u].n \notin Spent /\ work[u].n \in Spent'
    <2>1. work[u].n \notin Spent /\ work[u].n \in 1 .. sent'
      BY <1>4 DEF Saves, Spent, GoesOn, Numbered
    <2>2. ASSUME NEW v \in Users, Unsaved(work'[v]) PROVE work'[v].n # work[u].n
      BY <1>1, <1>2, <1>4, <2>2 DEF Saves, Numbered, Unsaved
    <2> QED BY <2>1, <2>2 DEF Spent
  <1> QED BY <1>3, <1>4

LEMMA PaidOn ==
  ASSUME Typed, Typed', Numbered, NEW u \in Users, NEW w, GoesOn(u, w),
         NEW K, Paid(K), NEW L, Fits(u, w, L, K)
  PROVE  IsFiniteSet(L) /\ Cardinality(L) <= Cardinality(Spent')
  <1>1. IsFiniteSet(Spent) /\ IsFiniteSet(K) /\ Cardinality(K) <= Cardinality(Spent)
    BY SpentFinite DEF Paid
  <1>2. IsFiniteSet(Spent')
    <2>1. sent' \in Nat /\ Spent' \in SUBSET (1 .. sent')
      BY DEF Typed, DocumentsOK, Texts, Spent
    <2> QED BY <2>1, Interval, FS_Subset
  <1>3. CASE L \subseteq K
    BY <1>1, <1>2, <1>3, SpentOn, Enough
  <1>4. CASE Saves(u, w) /\ \E x : L \subseteq K \cup {x}
    <2>1. PICK x : L \subseteq K \cup {x}
      BY <1>4
    <2>2. work[u].n \notin Spent /\ Spent \cup {work[u].n} \subseteq Spent'
      BY <1>4, SpentOn
    <2> QED BY <1>1, <1>2, <2>1, <2>2, OneMore
  <1> QED BY <1>3, <1>4 DEF Fits

LEMMA BoundsGoOn ==
  ASSUME Typed, Typed', Bounded, Numbered', NEW u \in Users, NEW w, GoesOn(u, w)
  PROVE  Bounded'
  <1>1. work'[u] = w /\ \A v \in Users \ {u} : work'[v] = work[v]
    BY DEF GoesOn, Move, Typed, UsersOK
  <1>2. Fits(u, w, Places', Places)
    <2>1. Places' \subseteq Places \cup (StoredPlaces' \cup ReadPlaces(w))
      BY <1>1 DEF Places
    <2> QED BY <2>1 DEF GoesOn, Fits
  <1>3. Fits(u, w, Versions', Versions)
    <2>1. Versions' \subseteq Versions \cup (StoredVersions' \cup ReadVersions(w))
      BY <1>1 DEF Versions
    <2> QED BY <2>1 DEF GoesOn, Fits
  <1>4. Paid(Places)' /\ Paid(Versions)'
    <2>1. IsFiniteSet(Places') /\ Cardinality(Places') <= Cardinality(Spent')
      BY <1>2, PaidOn DEF Bounded
    <2>2. IsFiniteSet(Versions') /\ Cardinality(Versions') <= Cardinality(Spent')
      BY <1>3, PaidOn DEF Bounded
    <2> QED BY <2>1, <2>2 DEF Paid
  <1>5. Answers'
    BY <1>1 DEF Bounded, Answers, GoesOn
  <1> QED BY <1>4, <1>5 DEF Bounded


\* Whatever is paid is no more than the requests, or than the others if one has saved nothing.
LEMMA PaidBound ==
  ASSUME Typed, NEW K, Paid(K)
  PROVE  Cardinality(K) \in Nat /\ Cardinality(K) <= sent
  <1>1. Cardinality(K) \in Nat /\ sent \in Nat
    BY FS_CardinalityType DEF Paid, Typed, DocumentsOK, Texts
  <1> QED BY <1>1, SpentFinite DEF Paid

LEMMA SpareBound ==
  ASSUME Typed, Numbered, NEW u \in Users, Unsaved(work[u])
  PROVE  Cardinality(Spent) + 1 <= sent
  <1>1. work[u].n \in 1 .. sent /\ work[u].n \notin Spent /\ sent \in Nat
    BY DEF Numbered, Unsaved, Spent, Typed, DocumentsOK, Texts
  <1>2. Spent \cup {work[u].n} \in SUBSET (1 .. sent)
    BY <1>1 DEF Spent
  <1>3. IsFiniteSet(1 .. sent) /\ Cardinality(1 .. sent) = sent
    BY <1>1, Interval
  <1>4. Cardinality(Spent \cup {work[u].n}) <= sent
    BY <1>2, <1>3, FS_Subset
  <1>5. Cardinality(Spent \cup {work[u].n}) = Cardinality(Spent) + 1
    BY <1>1, SpentFinite, FS_AddElement
  <1> QED BY <1>4, <1>5

LEMMA Injected ==
  ASSUME NEW S, NEW T, IsFiniteSet(T), NEW f \in [S -> T], \A a, b \in S : f[a] = f[b] => a = b
  PROVE  IsFiniteSet(S) /\ Cardinality(S) <= Cardinality(T)
  <1>1. f \in Injection(S, T)
    BY DEF Injection, IsInjective
  <1> QED BY <1>1, FS_Injection

LEMMA VersionPaid ==
  ASSUME Typed, Bounded, NEW n \in Nat, 1 .. n \subseteq Versions
  PROVE  n <= Cardinality(Spent) /\ n <= sent
  <1>1. Cardinality(1 .. n) <= Cardinality(Versions)
    BY FS_Subset DEF Bounded, Paid
  <1>2. Cardinality(1 .. n) = n
    BY Interval
  <1>3. Cardinality(Versions) \in Nat /\ Cardinality(Versions) <= sent /\ Cardinality(Versions) <= Cardinality(Spent)
    BY PaidBound DEF Bounded, Paid
  <1>4. sent \in Nat /\ Cardinality(Spent) \in Nat
    BY SpentFinite DEF Typed, DocumentsOK, Texts
  <1> QED BY <1>1, <1>2, <1>3, <1>4

LEMMA NextVersionPaid ==
  ASSUME Typed, Bounded, NEW u \in Users, Unsaved(work[u]), NEW n \in Nat, 1 .. n \subseteq Versions
  PROVE  n + 1 <= sent
  <1>1. n <= Cardinality(Spent)
    BY VersionPaid
  <1>2. Cardinality(Spent) + 1 <= sent
    BY SpareBound DEF Bounded
  <1>3. sent \in Nat /\ Cardinality(Spent) \in Nat
    BY SpentFinite DEF Typed, DocumentsOK, Texts
  <1> QED BY <1>1, <1>2, <1>3


-------------------------------------------------------------------------------
(* What each action leaves and reads.                                      *)

LEMMA Fewer ==
  ASSUME NEW m \in Nat, NEW n \in Nat, m <= n
  PROVE  /\ CommentPlaces(m) \subseteq CommentPlaces(n)
         /\ \A s : ThreadPlaces(s, m) \subseteq ThreadPlaces(s, n)
         /\ 1 .. m \subseteq 1 .. n
  BY DEF CommentPlaces, ThreadPlaces

LEMMA OneLonger ==
  ASSUME NEW n \in Nat
  PROVE  /\ CommentPlaces(n + 1) \subseteq CommentPlaces(n) \cup {<<"comment", 0, n + 1>>}
         /\ \A s : ThreadPlaces(s, n + 1) \subseteq ThreadPlaces(s, n) \cup {<<"thread", s, n + 1>>}
         /\ 1 .. n + 1 \subseteq 1 .. n \cup {n + 1}
         /\ CommentPlaces(0) = {} /\ \A s : ThreadPlaces(s, 0) = {}
  BY DEF CommentPlaces, ThreadPlaces

LEMMA Known ==
  /\ CommentPlaces(Len(Rows(annotation))) \subseteq Places
  /\ \A s \in Sources : ThreadPlaces(s, Len(Entries(layers[s]))) \subseteq Places
  /\ \A s \in Sources : layers[s] # Absent => 1 .. layers[s].version \subseteq Versions
  /\ \A u \in Users : ReadPlaces(work[u]) \subseteq Places /\ ReadVersions(work[u]) \subseteq Versions
  BY DEF Places, StoredPlaces, Versions, StoredVersions, Existing

LEMMA StoredIn ==
  ASSUME NEW X, CommentPlaces(Len(Rows(annotation'))) \subseteq X,
         \A s \in Sources : ThreadPlaces(s, Len(Entries(layers'[s]))) \subseteq X
  PROVE  StoredPlaces' \subseteq X
  BY DEF StoredPlaces

LEMMA VersionsIn ==
  ASSUME NEW X, \A s \in Sources : layers'[s] # Absent => 1 .. layers'[s].version \subseteq X
  PROVE  StoredVersions' \subseteq X
  BY DEF StoredVersions, Existing

LEMMA AsStored ==
  /\ UNCHANGED <<annotation, layers>> => StoredPlaces' \subseteq Places
  /\ UNCHANGED layers => StoredVersions' \subseteq Versions
  BY Known, StoredIn, VersionsIn

LEMMA Going ==
  ASSUME Typed, Bounded, NEW u \in Users, work[u] # Absent
  PROVE  /\ work[u] \in Requests /\ work[u].count \in Nat /\ work[u].version \in Nat
         /\ work[u].count <= sent /\ work[u].version <= sent /\ part.pending <= sent /\ part.pending \in Nat
         /\ sent \in Nat /\ work[u].n \in Texts /\ work[u].n <= sent /\ 1 <= sent
         /\ RequestOK(work[u], tabs[u].page, layers)
  BY UserOK DEF Bounded, Answers, Numbered, Typed, Idle, Requests, DocumentsOK, Texts

\* A request that ends, or goes on without reading or saving anything.
LEMMA EndsWithin ==
  ASSUME Typed, Bounded, NEW u \in Users, work[u] # Absent, Done(u), UNCHANGED <<annotation, layers, sent>>,
         part'.pending <= sent
  PROVE  GoesOn(u, Absent)
  <1>1. ReadPlaces(Absent) = {} /\ ReadVersions(Absent) = {} /\ ~Unsaved(Absent)
    BY DEF ReadPlaces, ReadVersions, Unsaved
  <1> QED BY <1>1, AsStored DEF GoesOn, Done, Fits


LEMMA RowsLong ==
  ASSUME NEW w \in Requests, w.op \in AnnotationKinds, w.seen \in {Absent} \cup Annotations
  PROVE  /\ Len(Rows(w.seen)) \in Nat /\ Len(NewRows(w)) \in Nat
         /\ Len(NewRows(w)) <= Len(Rows(w.seen)) \/ Len(NewRows(w)) = Len(Rows(w.seen)) + 1
  <1> DEFINE rows == Rows(w.seen)
  <1>1. rows \in Seq(Comments) /\ NewRows(w) \in Seq(Comments)
    BY RowsMade, DocumentRead
  <1>2. DOMAIN rows = 1 .. Len(rows) /\ Len(rows) \in Nat /\ DOMAIN NewRows(w) = 1 .. Len(NewRows(w)) /\ Len(NewRows(w)) \in Nat
    BY <1>1, LenProperties
  <1>3. CASE w.op \in {"status", "reply"}
    <2>1. DOMAIN NewRows(w) = DOMAIN rows
      BY <1>3, RowsMade
    <2>2. \A m, n \in Nat : 1 .. m = 1 .. n => m = n
      OBVIOUS
    <2>3. Len(NewRows(w)) = Len(rows)
      BY <1>2, <2>1, <2>2
    <2> QED BY <1>2, <2>3
  <1>4. CASE w.op = "comment"
    <2> DEFINE e == [id |-> w.n, status |-> "open", replies |-> {}]
    <2>1. e \in Comments /\ NewRows(w) = Append(rows, e)
      BY <1>4 DEF NewRows, Comments, Requests
    <2> HIDE DEF e, rows
    <2> QED BY <1>1, <1>2, <2>1, AppendProperties DEF rows
  <1>5. CASE w.op = "remove"
    <2>1. NewRows(w) = Without(rows, w.target)
      BY <1>5 DEF NewRows
    <2> QED BY <1>1, <1>2, <2>1, WithoutOK
  <1>6. CASE w.op = "notes"
    BY <1>2, <1>6 DEF NewRows
  <1> QED BY <1>2, <1>3, <1>4, <1>5, <1>6 DEF AnnotationKinds

\* The list of comments a request saves is the one it read, or one longer.
LEMMA RowsWithin ==
  ASSUME Typed, Bounded, NEW u \in Users, At(u, "save")
  PROVE  \E x : /\ CommentPlaces(Len(NewRows(work[u]))) \subseteq Places \cup {x}
                /\ CommentPlaces(Len(Rows(annotation))) \subseteq Places \cup {x}
                /\ \A s \in Sources : ThreadPlaces(s, Len(Entries(layers[s]))) \subseteq Places \cup {x}
                /\ CommentPlaces(0) \subseteq Places \cup {x}
  <1> DEFINE m == Len(Rows(work[u].seen))
             n == Len(NewRows(work[u]))
  <1>1. m \in Nat /\ n \in Nat /\ (n <= m \/ n = m + 1)
    BY SaverOK, RowsLong
  <1>2. CommentPlaces(m) \subseteq Places
    BY Known DEF At, ReadPlaces
  <1> HIDE DEF m, n
  <1>3. CommentPlaces(n) \subseteq Places \cup {<<"comment", 0, m + 1>>}
    BY <1>1, <1>2, Fewer, OneLonger
  <1>4. CommentPlaces(0) = {}
    BY OneLonger
  <1> QED BY <1>3, <1>4, Known DEF n

LEMMA SavedRows ==
  ASSUME Typed, NEW u \in Users, SavesAnnotation(u)
  PROVE  Len(Rows(annotation')) \in {0, Len(Rows(annotation)), Len(NewRows(work[u]))}
  <1>0. annotation' \in {Absent} \cup Annotations
    BY InsertAnnotationTyped, DeleteAnnotationTyped, UpdateAnnotationTyped DEF SavesAnnotation, Typed, DocumentsOK
  <1>1. Len(Rows(Absent)) = 0
    BY EmptySeq DEF Rows
  <1>2. CASE UNCHANGED annotation \/ annotation' = Absent
    BY <1>1, <1>2
  <1>3. CASE InsertAnnotation(u) /\ annotation' # annotation
    BY <1>3 DEF InsertAnnotation, Rows
  <1>4. CASE UpdateAnnotation(u) /\ annotation' # annotation /\ annotation' # Absent
    <2>1. annotation \in Annotations /\ annotation # Absent
      BY <1>4 DEF UpdateAnnotation, Stored, Typed, DocumentsOK
    <2>2. annotation'.comments \in {annotation.comments, NewRows(work[u])}
      BY <1>4, <2>1 DEF UpdateAnnotation, Annotations, Field
    <2> QED BY <1>4, <2>1, <2>2 DEF Rows
  <1>5. CASE DeleteAnnotation(u)
    BY <1>2, <1>5 DEF DeleteAnnotation
  <1> QED BY <1>2, <1>3, <1>4, <1>5 DEF SavesAnnotation

LEMMA LoadAnnotationGoes ==
  ASSUME Typed, Bounded, NEW u \in Users, LoadAnnotation(u)
  PROVE  \E w : GoesOn(u, w)
  <1> DEFINE w(p) == [[work[u] EXCEPT !.seen = annotation, !.was = SearchOf(part)] EXCEPT !.phase = p]
  <1>1. work[u] # Absent /\ work[u].phase = "load" /\ UNCHANGED <<annotation, layers, part, sent>>
    BY DEF LoadAnnotation, At, documents, Serving
  <1>2. ASSUME NEW p \in {"save", "repair"}, Move(u, w(p)) PROVE GoesOn(u, w(p))
    <2>1. /\ w(p).n = work[u].n /\ w(p).count <= sent /\ w(p).version <= sent /\ w(p).phase = p /\ w(p).seen = annotation
          /\ w(p) # Absent
      <3>1. w(p) \in Requests
        <4>1. SearchOf(part) \in Texts2
          BY DEF Typed, DocumentsOK, SearchOf, Texts2
        <4>2. work[u] \in Requests
          BY <1>1, Going
        <4> QED BY <4>1, <4>2 DEF Typed, DocumentsOK, Requests, Texts2
      <3> QED BY <1>1, <3>1, Going, Unlike DEF Requests
    <2>2. ReadPlaces(w(p)) \subseteq Places /\ ReadVersions(w(p)) = {}
      BY <2>1, Known DEF ReadPlaces, ReadVersions
    <2>3. Unsaved(work[u])
      BY <1>1 DEF Unsaved
    <2> HIDE DEF w
    <2> QED BY <1>1, <1>2, <2>1, <2>2, <2>3, Going, AsStored DEF GoesOn, Fits
  <1>3. Done(u) \/ \E p \in {"save", "repair"} : Move(u, w(p))
    BY DEF LoadAnnotation
  <1> HIDE DEF w
  <1> QED BY <1>1, <1>2, <1>3, EndsWithin, Going

LEMMA RepairSearchGoes ==
  ASSUME Typed, Bounded, NEW u \in Users, RepairSearch(u)
  PROVE  \E w : GoesOn(u, w)
  <1> DEFINE text == SearchText(Notes(work[u].seen), Rows(work[u].seen))
             w == [work[u] EXCEPT !.was = text, !.phase = "save"]
  <1>1. work[u] # Absent /\ work[u].phase = "repair" /\ UNCHANGED <<annotation, layers, sent>> /\ Move(u, w)
    BY DEF RepairSearch, At, Serving
  <1>2. text \in Texts2 /\ work[u].was \in Texts2
    BY <1>1, SaverOK, DocumentRead, TextsFound DEF At
  <1>3. part'.pending = part.pending
    BY <1>2, SearchSaved DEF RepairSearch, Typed
  <1> HIDE DEF text
  <1>4. w \in Requests
    <2>1. work[u] \in Requests
      BY <1>1, Going
    <2> QED BY <1>2, <2>1 DEF Requests, Texts2
  <1>5. /\ w.n = work[u].n /\ w.count = work[u].count /\ w.version = work[u].version /\ w.phase = "save"
        /\ w.seen = work[u].seen
    BY <1>1, Going DEF Requests
  <1> HIDE DEF w
  <1>6. ReadPlaces(w) = ReadPlaces(work[u]) /\ ReadVersions(w) = {}
    BY <1>1, <1>4, <1>5, Unlike DEF ReadPlaces, ReadVersions
  <1>7. Unsaved(work[u])
    BY <1>1 DEF Unsaved
  <1> QED BY <1>1, <1>3, <1>4, <1>5, <1>6, <1>7, Going, AsStored, Known DEF GoesOn, Fits

LEMMA SavesAnnotationGoes ==
  ASSUME Typed, Bounded, NEW u \in Users, SavesAnnotation(u)
  PROVE  \E w : GoesOn(u, w)
  <1> DEFINE w(k) == [work[u] EXCEPT !.phase = "part", !.told = k]
  <1>1. /\ At(u, "save") /\ work[u] # Absent /\ work[u].phase = "save" /\ UNCHANGED <<layers, part, sent>>
        /\ \/ Done(u) /\ UNCHANGED annotation
           \/ Move(u, [work[u] EXCEPT !.phase = "part"])
           \/ \E k \in Texts : Move(u, w(k))
    <2>1. At(u, "save") /\ work[u] # Absent /\ work[u].phase = "save" /\ UNCHANGED <<layers, part, sent>>
      BY DEF SavesAnnotation, InsertAnnotation, DeleteAnnotation, UpdateAnnotation, At, Serving
    <2>2. work[u].seen # Absent => Told(work[u]) \in Texts
      BY <2>1, SaverOK
    <2> QED BY <2>1, <2>2 DEF SavesAnnotation, InsertAnnotation, DeleteAnnotation, UpdateAnnotation
  <1>2. PICK x : StoredPlaces' \subseteq Places \cup {x}
    <2>1. PICK x : /\ CommentPlaces(Len(NewRows(work[u]))) \subseteq Places \cup {x}
                   /\ CommentPlaces(Len(Rows(annotation))) \subseteq Places \cup {x}
                   /\ \A s \in Sources : ThreadPlaces(s, Len(Entries(layers[s]))) \subseteq Places \cup {x}
                   /\ CommentPlaces(0) \subseteq Places \cup {x}
      BY <1>1, RowsWithin
    <2>2. CommentPlaces(Len(Rows(annotation'))) \subseteq Places \cup {x}
      BY <2>1, SavedRows
    <2> QED BY <1>1, <2>1, <2>2, StoredIn
  <1>3. ASSUME NEW y, Move(u, y), y # Absent, y.phase = "part", y.n = work[u].n, y.count = work[u].count, y.version = work[u].version
        PROVE  GoesOn(u, y)
    <2>1. ReadPlaces(y) = {} /\ ReadVersions(y) = {} /\ Saves(u, y)
      BY <1>1, <1>3 DEF ReadPlaces, ReadVersions, Saves, Unsaved
    <2> QED BY <1>1, <1>2, <1>3, <2>1, Going, AsStored DEF GoesOn, Fits, Saves
  <1>4. work[u] \in Requests
    BY <1>1, Going
  <1>5. ASSUME NEW k \in Texts, Move(u, w(k)) PROVE GoesOn(u, w(k))
    <2>1. /\ w(k).phase = "part" /\ w(k).n = work[u].n /\ w(k).count = work[u].count
          /\ w(k).version = work[u].version /\ w(k) \in Requests
      BY <1>4, <1>5 DEF Requests
    <2> HIDE DEF w
    <2> QED BY <1>3, <1>5, <2>1, Unlike
  <1>6. ASSUME NEW y, y = [work[u] EXCEPT !.phase = "part"], Move(u, y) PROVE GoesOn(u, y)
    <2>1. y.phase = "part" /\ y.n = work[u].n /\ y.count = work[u].count /\ y.version = work[u].version /\ y \in Requests
      BY <1>4, <1>6 DEF Requests
    <2> QED BY <1>3, <1>6, <2>1, Unlike
  <1> HIDE DEF w
  <1> QED BY <1>1, <1>5, <1>6, EndsWithin, Going


LEMMA SavePartGoes ==
  ASSUME Typed, Bounded, NEW u \in Users, SavePart(u)
  PROVE  \E w : GoesOn(u, w)
  <1> DEFINE w == [work[u] EXCEPT !.phase = "count", !.seen = Absent, !.was = Absent]
  <1>1. /\ work[u] # Absent /\ work[u].phase = "part" /\ UNCHANGED <<annotation, layers, sent>>
        /\ Done(u) \/ Move(u, w)
    BY DEF SavePart, At, Serving
  <1>2. part'.pending = part.pending
    <2>1. work[u].was \in Texts2 /\ NewRows(work[u]) \in Seq(Comments) /\ NewNotes(work[u]) \in Texts
      BY <1>1, SaverOK DEF At
    <2> QED BY <2>1, SearchSaved, TextsFound DEF SavePart, Typed
  <1>3. work[u] \in Requests
    BY <1>1, Going
  <1>4. /\ w \in Requests /\ w.n = work[u].n /\ w.count = work[u].count /\ w.version = work[u].version
        /\ w.phase = "count"
    BY <1>3 DEF Requests
  <1> HIDE DEF w
  <1>5. ReadPlaces(w) = {} /\ ReadVersions(w) = {} /\ ~Unsaved(w)
    BY <1>4, Unlike DEF ReadPlaces, ReadVersions, Unsaved
  <1>6. Move(u, w) => GoesOn(u, w)
    BY <1>1, <1>2, <1>4, <1>5, Going, AsStored DEF GoesOn, Fits
  <1> QED BY <1>1, <1>2, <1>6, EndsWithin, Going

-------------------------------------------------------------------------------
(* Markups.                                                                *)

LEMMA EntriesLong ==
  /\ \A l \in Layers : l # Absent /\ Entries(l) = l.threads /\ Len(l.threads) \in Nat /\ l.version \in Nat
  /\ Len(Entries(Absent)) = 0
  BY Unlike, MarkupRead, EmptySeq DEF Entries

LEMMA LayerWithin ==
  ASSUME Typed, NEW s \in Sources, NEW l \in Layers, layers' = [layers EXCEPT ![s] = l], UNCHANGED annotation,
         NEW x, ThreadPlaces(s, Len(l.threads)) \subseteq Places \cup {x},
         NEW v, 1 .. l.version \subseteq Versions \cup {v}
  PROVE  StoredPlaces' \subseteq Places \cup {x} /\ StoredVersions' \subseteq Versions \cup {v}
  <1>1. layers'[s] = l /\ \A r \in Sources \ {s} : layers'[r] = layers[r]
    BY LayerWritten DEF Typed
  <1>2. \A r \in Sources : ThreadPlaces(r, Len(Entries(layers'[r]))) \subseteq Places \cup {x}
    BY <1>1, Known, EntriesLong
  <1>3. \A r \in Sources : layers'[r] # Absent => 1 .. layers'[r].version \subseteq Versions \cup {v}
    BY <1>1, Known
  <1> QED BY <1>2, <1>3, Known, StoredIn, VersionsIn

\* A request that has saved a layer has nothing read on it any more.
LEMMA LayerGoes ==
  ASSUME Typed, Bounded, NEW u \in Users, At(u, "write"),
         NEW s \in Sources, NEW l \in Layers, layers' = [layers EXCEPT ![s] = l], UNCHANGED <<annotation, part, sent>>,
         NEW x, ThreadPlaces(s, Len(l.threads)) \subseteq Places \cup {x},
         NEW v, 1 .. l.version \subseteq Versions \cup {v},
         NEW w \in Requests, Move(u, w), w.phase \in {"count", "reload"}, w.n = work[u].n, w.count = work[u].count,
         w.version <= sent
  PROVE  GoesOn(u, w)
  <1>1. StoredPlaces' \subseteq Places \cup {x} /\ StoredVersions' \subseteq Versions \cup {v}
    BY LayerWithin
  <1>2. ReadPlaces(w) = {} /\ ReadVersions(w) = {} /\ Saves(u, w)
    BY Unlike DEF ReadPlaces, ReadVersions, Saves, Unsaved, At
  <1> QED BY <1>1, <1>2, Going DEF GoesOn, Fits, At, Saves

LEMMA LoadLayerGoes ==
  ASSUME Typed, Bounded, NEW u \in Users, LoadLayer(u)
  PROVE  \E w : GoesOn(u, w)
  <1> DEFINE w == [work[u] EXCEPT !.seen = layers[work[u].source], !.phase = "write"]
  <1>1. /\ work[u] # Absent /\ work[u].phase = "load" /\ UNCHANGED <<annotation, layers, part, sent>>
        /\ Done(u) \/ Move(u, w)
    BY DEF LoadLayer, At, documents, Serving, Conflict
  <1>2. work[u] \in Requests /\ work[u].source \in Sources /\ layers[work[u].source] \in {Absent} \cup Layers
    BY <1>1, Going DEF Requests, Typed, DocumentsOK
  <1>3. /\ w \in Requests /\ w.n = work[u].n /\ w.count = work[u].count /\ w.version = work[u].version
        /\ w.phase = "write" /\ w.source = work[u].source /\ w.seen = layers[work[u].source]
    BY <1>2 DEF Requests
  <1> HIDE DEF w
  <1>4. ReadPlaces(w) = ThreadPlaces(w.source, Len(Entries(w.seen)))
    BY <1>3, Unlike DEF ReadPlaces
  <1>5. ReadPlaces(w) \subseteq Places /\ ReadVersions(w) \subseteq Versions
    BY <1>2, <1>3, <1>4, Known DEF ReadVersions
  <1>6. Unsaved(work[u])
    BY <1>1 DEF Unsaved
  <1>7. Move(u, w) => GoesOn(u, w)
    BY <1>1, <1>3, <1>5, <1>6, Going, AsStored DEF GoesOn, Fits
  <1> QED BY <1>1, <1>7, EndsWithin, Going

LEMMA InsertLayerGoes ==
  ASSUME Typed, Bounded, NEW u \in Users, InsertLayer(u)
  PROVE  \E w : GoesOn(u, w)
  <1> DEFINE l == [canvas |-> work[u].canvas, threads |-> <<>>, version |-> 1]
             w == [work[u] EXCEPT !.version = 1, !.phase = "count", !.seen = Absent]
  <1>1. At(u, "write") /\ work[u] # Absent /\ UNCHANGED <<annotation, part, sent>>
    BY DEF InsertLayer, At, Serving
  <1>2. work[u] \in Requests /\ work[u].source \in Sources /\ work[u].canvas \subseteq Objects
    BY <1>1, MarkupOK
  <1>3. l \in Layers /\ l.threads = <<>> /\ l.version = 1
    BY <1>2, EmptySeq DEF Layers
  <1>4. w \in Requests /\ w.n = work[u].n /\ w.count = work[u].count /\ w.version = 1 /\ w.phase = "count"
    BY <1>2 DEF Requests
  <1>5. \/ Move(u, w) /\ layers' = [layers EXCEPT ![work[u].source] = l]
        \/ Done(u) /\ UNCHANGED layers
    BY DEF InsertLayer, Conflict
  <1> HIDE DEF l, w
  <1>6. ThreadPlaces(work[u].source, Len(l.threads)) = {}
    BY <1>3, OneLonger, EmptySeq
  <1>7. 1 .. l.version \subseteq Versions \cup {1}
    BY <1>3
  <1>8. CASE Move(u, w) /\ layers' = [layers EXCEPT ![work[u].source] = l]
    <2>1. w.version <= sent
      BY <1>1, <1>4, Going
    <2> QED BY <1>1, <1>2, <1>3, <1>4, <1>6, <1>7, <1>8, <2>1, LayerGoes
  <1> QED BY <1>1, <1>5, <1>8, EndsWithin, Going

\* What was read of a layer before it is written.
LEMMA ReadWithin ==
  ASSUME Typed, NEW u \in Users, At(u, "write"), work[u].seen \in Layers
  PROVE  /\ ThreadPlaces(work[u].source, Len(work[u].seen.threads)) \subseteq Places
         /\ 1 .. work[u].seen.version \subseteq Versions
  <1>1. work[u].seen # Absent /\ Entries(work[u].seen) = work[u].seen.threads
    BY EntriesLong
  <1>2. ReadPlaces(work[u]) \subseteq Places /\ ReadVersions(work[u]) \subseteq Versions
    BY Known
  <1>3. ReadPlaces(work[u]) = ThreadPlaces(work[u].source, Len(work[u].seen.threads))
    BY <1>1 DEF ReadPlaces, At
  <1>4. ReadVersions(work[u]) = 1 .. work[u].seen.version
    BY <1>1 DEF ReadVersions, At
  <1> QED BY <1>2, <1>3, <1>4

LEMMA SaveCanvasGoes ==
  ASSUME Typed, Bounded, NEW u \in Users, SaveCanvas(u)
  PROVE  \E w : GoesOn(u, w)
  <1> DEFINE l == [canvas |-> work[u].canvas, threads |-> work[u].seen.threads, version |-> work[u].base + 1]
             w == [work[u] EXCEPT !.phase = "reload", !.seen = Absent]
  <1>1. At(u, "write") /\ work[u] # Absent /\ UNCHANGED <<annotation, part, sent>>
    BY DEF SaveCanvas, At, Serving
  <1>2. /\ work[u] \in Requests /\ work[u].source \in Sources /\ work[u].canvas \subseteq Objects
        /\ work[u].seen \in Layers /\ work[u].base = work[u].seen.version
    BY <1>1, MarkupOK DEF SaveCanvas, RequestOK, At
  <1>3. work[u].seen.version \in Nat /\ work[u].seen.threads \in Seq(Threads)
    BY <1>2, MarkupRead
  <1>4. l \in Layers /\ l.threads = work[u].seen.threads /\ l.version = work[u].seen.version + 1
    BY <1>2, <1>3 DEF Layers
  <1>5. /\ w \in Requests /\ w.n = work[u].n /\ w.count = work[u].count /\ w.version = work[u].version
        /\ w.phase = "reload"
    BY <1>2 DEF Requests
  <1>6. \/ Move(u, w) /\ layers' = [layers EXCEPT ![work[u].source] = l]
        \/ Done(u) /\ UNCHANGED layers
    BY DEF SaveCanvas, Conflict
  <1> HIDE DEF l, w
  <1>a. /\ ThreadPlaces(work[u].source, Len(work[u].seen.threads)) \subseteq Places
        /\ 1 .. work[u].seen.version \subseteq Versions
    BY <1>1, <1>2, ReadWithin
  <1>7. ThreadPlaces(work[u].source, Len(l.threads)) \subseteq Places \cup {0}
    BY <1>4, <1>a
  <1>8. 1 .. l.version \subseteq Versions \cup {work[u].seen.version + 1}
    BY <1>3, <1>4, <1>a
  <1>9. CASE Move(u, w) /\ layers' = [layers EXCEPT ![work[u].source] = l]
    <2>1. w.version <= sent
      BY <1>1, <1>5, Going
    <2> QED BY <1>1, <1>2, <1>4, <1>5, <1>7, <1>8, <1>9, <2>1, LayerGoes
  <1> QED BY <1>1, <1>6, <1>9, EndsWithin, Going


LEMMA ReloadLayerGoes ==
  ASSUME Typed, Bounded, NEW u \in Users, ReloadLayer(u)
  PROVE  \E w : GoesOn(u, w)
  <1> DEFINE w == [work[u] EXCEPT !.version = layers[work[u].source].version, !.phase = "count"]
  <1>1. /\ At(u, "reload") /\ work[u] # Absent /\ UNCHANGED <<annotation, layers, part, sent>>
        /\ Done(u) \/ Move(u, w)
    BY DEF ReloadLayer, At, documents, Serving
  <1>2. /\ work[u] \in Requests /\ work[u].source \in Sources /\ layers[work[u].source] \in Layers
        /\ layers[work[u].source] # Absent
    <2>1. work[u] \in Requests /\ work[u].source \in Sources /\ layers[work[u].source] # Absent
      BY <1>1, MarkupOK DEF RequestOK, At
    <2> QED BY <2>1, LayerOK DEF Typed
  <1>3. layers[work[u].source].version \in Nat /\ layers[work[u].source].version <= sent
    <2>1. 1 .. layers[work[u].source].version \subseteq Versions /\ layers[work[u].source].version \in Nat
      BY <1>2, Known, MarkupRead
    <2> QED BY <2>1, VersionPaid
  <1>4. /\ w \in Requests /\ w.n = work[u].n /\ w.count = work[u].count /\ w.phase = "count"
        /\ w.version = layers[work[u].source].version
    BY <1>2, <1>3 DEF Requests
  <1> HIDE DEF w
  <1>5. ReadPlaces(w) = {} /\ ReadVersions(w) = {} /\ ~Unsaved(w)
    BY <1>4, Unlike DEF ReadPlaces, ReadVersions, Unsaved
  <1>6. Move(u, w) => GoesOn(u, w)
    BY <1>1, <1>3, <1>4, <1>5, Going, AsStored DEF GoesOn, Fits
  <1> QED BY <1>1, <1>6, EndsWithin, Going

\* The list of threads a request saves is the one stored, the one it read, or one longer.
LEMMA ThreadsLong ==
  ASSUME NEW w \in Requests, w.op \in ThreadKinds, w.seen \in Layers,
         w.op \in OnThread => Has(w.seen.threads, w.target), NEW stored \in Seq(Threads)
  PROVE  /\ Len(SavedThreads(w, stored)) \in Nat
         /\ \/ Len(SavedThreads(w, stored)) <= Len(stored)
            \/ Len(SavedThreads(w, stored)) <= Len(w.seen.threads)
            \/ Len(SavedThreads(w, stored)) = Len(w.seen.threads) + 1
  <1> DEFINE seen  == w.seen.threads
             new   == SavedThreads(w, stored)
             i     == Where(w)
             entry == EntryAt(stored, i)
  <1>1. seen \in Seq(Threads) /\ \A j \in 1 .. Len(seen) : seen[j] \in Threads
    BY MarkupRead
  <1>2. /\ Len(stored) \in Nat /\ DOMAIN stored = 1 .. Len(stored) /\ \A j \in 1 .. Len(stored) : stored[j] \in Threads
        /\ Len(seen) \in Nat /\ Len(new) \in Nat
    BY <1>1, ThreadsMade, LenProperties, ElementOfSeq
  <1>3. w.n \in Texts /\ w.target \in Texts /\ w.to \in {"open", "resolved"}
    BY DEF Requests
  <1>4. w.op \in OnThread => i \in 1 .. Len(seen) /\ i \in Nat \ {0} /\ seen[i].messages \subseteq Texts \X Texts
    BY <1>1, Addressed, MarkupRead DEF Threads
  <1>5. entry \in Threads
    BY <1>2, ReviewAssumption DEF EntryAt, Threads, Nobody, Texts
  <1>6. CASE w.op = "thread"
    <2> DEFINE e == [id |-> w.n, status |-> "open", messages |-> {<<w.n, w.n>>}]
    <2>1. e \in Threads
      BY <1>3 DEF Threads
    <2>2. new = Append(seen, e)
      BY <1>6 DEF SavedThreads, Added
    <2> HIDE DEF seen, new, e
    <2>3. Len(new) = Len(seen) + 1
      BY <1>1, <2>1, <2>2, AppendProperties
    <2> QED BY <1>2, <2>3 DEF seen, new
  <1>7. CASE w.op = "delete"
    <2>1. new = Without(seen, w.target)
      BY <1>7 DEF SavedThreads
    <2> HIDE DEF seen, new
    <2>2. Len(new) <= Len(seen)
      BY <1>1, <2>1, WithoutOK
    <2> QED BY <1>2, <2>2 DEF seen, new
  <1>8. ASSUME NEW e \in Threads, new = WriteAt(stored, i, e), w.op \in OnThread
        PROVE  Len(new) <= Len(stored) \/ Len(new) <= Len(seen)
    <2> HIDE DEF seen, new, i
    <2>1. Len(new) = IF i <= Len(stored) THEN Len(stored) ELSE i
      BY <1>4, <1>8, Written
    <2> QED BY <1>2, <1>4, <1>8, <2>1
  <1>9. CASE w.op = "message"
    <2> DEFINE e == [entry EXCEPT !.messages = seen[i].messages \cup {<<w.n, w.target>>}]
    <2> HIDE DEF seen, i, entry
    <2>1. e \in Threads
      BY <1>3, <1>4, <1>5, <1>9 DEF Threads, OnThread
    <2>2. new = WriteAt(stored, i, e)
      BY <1>9 DEF SavedThreads, seen, i, entry
    <2> HIDE DEF e, new
    <2>3. Len(new) <= Len(stored) \/ Len(new) <= Len(seen)
      BY <1>8, <1>9, <2>1, <2>2 DEF OnThread
    <2> QED BY <1>2, <2>3 DEF seen, new
  <1>10. CASE w.op = "state"
    <2> DEFINE e == IF seen[i].status = w.to THEN entry ELSE [entry EXCEPT !.status = w.to]
    <2> HIDE DEF seen, i, entry
    <2>1. e \in Threads
      BY <1>3, <1>5 DEF Threads
    <2>2. new = WriteAt(stored, i, e)
      BY <1>10 DEF SavedThreads, seen, i, entry
    <2> HIDE DEF e, new
    <2>3. Len(new) <= Len(stored) \/ Len(new) <= Len(seen)
      BY <1>8, <1>10, <2>1, <2>2 DEF OnThread
    <2> QED BY <1>2, <2>3 DEF seen, new
  <1> QED BY <1>6, <1>7, <1>9, <1>10 DEF ThreadKinds

LEMMA SaveThreadGoes ==
  ASSUME Typed, Bounded, NEW u \in Users, SaveThread(u)
  PROVE  \E w : GoesOn(u, w)
  <1> DEFINE l == LayerMade(work[u])
             stored == layers[work[u].source]
             seen == work[u].seen
             w == [work[u] EXCEPT !.version = l.version, !.phase = "count", !.seen = Absent]
  <1>1. /\ At(u, "write") /\ work[u] # Absent /\ UNCHANGED <<annotation, part, sent>> /\ Move(u, w)
    BY DEF SaveThread, At, Serving, LayerMade
  <1>2. /\ work[u] \in Requests /\ work[u].op \in ThreadKinds /\ work[u].source \in Sources /\ seen \in Layers
        /\ work[u].op \in OnThread => Has(seen.threads, work[u].target)
        /\ stored \in Layers /\ stored # Absent
        /\ l \in Layers /\ l.threads = SavedThreads(work[u], stored.threads)
        /\ l.version = seen.version + 1 /\ layers' = [layers EXCEPT ![work[u].source] = l]
    BY ThreadSaved
  <1>3. seen.version \in Nat /\ Len(seen.threads) \in Nat /\ stored.threads \in Seq(Threads) /\ Len(stored.threads) \in Nat
    BY <1>2, MarkupRead
  <1>4. w \in Requests /\ w.n = work[u].n /\ w.count = work[u].count /\ w.version = l.version /\ w.phase = "count"
    <2>1. l.version \in Nat /\ work[u] \in Requests
      BY <1>2, <1>3
    <2> HIDE DEF l
    <2> QED BY <2>1 DEF Requests
  <1>5. /\ ThreadPlaces(work[u].source, Len(seen.threads)) \subseteq Places
        /\ 1 .. seen.version \subseteq Versions
    BY <1>1, <1>2, ReadWithin
  <1>6. ThreadPlaces(work[u].source, Len(stored.threads)) \subseteq Places
    BY <1>2, Known, EntriesLong
  <1>7. w.version <= sent
    <2>1. Unsaved(work[u])
      BY <1>1 DEF Unsaved, At
    <2> QED BY <1>2, <1>3, <1>4, <1>5, <2>1, NextVersionPaid
  <1>8. ThreadPlaces(work[u].source, Len(l.threads)) \subseteq Places \cup {<<"thread", work[u].source, Len(seen.threads) + 1>>}
    <2> DEFINE n == Len(l.threads)
    <2>1. n \in Nat /\ (n <= Len(stored.threads) \/ n <= Len(seen.threads) \/ n = Len(seen.threads) + 1)
      BY <1>2, <1>3, ThreadsLong
    <2> HIDE DEF n, l, w, stored, seen
    <2> QED BY <1>3, <1>5, <1>6, <2>1, Fewer, OneLonger DEF n
  <1>9. 1 .. l.version \subseteq Versions \cup {seen.version + 1}
    BY <1>2, <1>3, <1>5
  <1> DEFINE x == <<"thread", work[u].source, Len(seen.threads) + 1>>
             v == seen.version + 1
             s == work[u].source
  <1>10. ThreadPlaces(s, Len(l.threads)) \subseteq Places \cup {x} /\ 1 .. l.version \subseteq Versions \cup {v}
    BY <1>8, <1>9
  <1>11. s \in Sources /\ l \in Layers /\ layers' = [layers EXCEPT ![s] = l]
    BY <1>2
  <1> HIDE DEF l, w, stored, seen, x, v, s
  <1> QED BY <1>1, <1>4, <1>7, <1>10, <1>11, LayerGoes


-------------------------------------------------------------------------------
(* Counting.                                                               *)

OpenedPlaces == {<<"thread", o[1], o[2]>> : o \in Opened(layers)}

LEMMA OpenedKnown ==
  ASSUME Typed
  PROVE  OpenedPlaces \subseteq Places
  <1> SUFFICES ASSUME NEW o \in Opened(layers) PROVE <<"thread", o[1], o[2]>> \in Places
    BY DEF OpenedPlaces
  <1>1. o[1] \in Sources /\ layers[o[1]] # Absent /\ o[2] \in DOMAIN layers[o[1]].threads
    BY DEF Opened
  <1>2. /\ Entries(layers[o[1]]) = layers[o[1]].threads /\ Len(layers[o[1]].threads) \in Nat
        /\ DOMAIN layers[o[1]].threads = 1 .. Len(layers[o[1]].threads)
    BY <1>1, LayerOK, MarkupRead DEF Typed, Entries
  <1>3. <<"thread", o[1], o[2]>> \in ThreadPlaces(o[1], Len(Entries(layers[o[1]])))
    BY <1>1, <1>2 DEF ThreadPlaces
  <1> QED BY <1>1, <1>3, Known

LEMMA OpenPaid ==
  ASSUME Typed, Paid(Places), NEW n \in Nat, CommentPlaces(n) \subseteq Places
  PROVE  n + OpenThreads <= sent /\ n <= sent
  <1> DEFINE A == CommentPlaces(n)
             B == OpenedPlaces
  <1>1. IsFiniteSet(Places)
    BY DEF Paid
  <1>2. IsFiniteSet(A) /\ IsFiniteSet(B)
    BY <1>1, OpenedKnown, FS_Subset
  <1>3. n <= Cardinality(A)
    <2> DEFINE f == [i \in 1 .. n |-> <<"comment", 0, i>>]
    <2>1. f \in [1 .. n -> A]
      BY DEF CommentPlaces
    <2>2. \A i, j \in 1 .. n : f[i] = f[j] => i = j
      OBVIOUS
    <2>3. Cardinality(1 .. n) <= Cardinality(A)
      BY <1>2, <2>1, <2>2, Injected
    <2> QED BY <2>3, Interval
  <1>4. Cardinality(Opened(layers)) <= Cardinality(B)
    <2> DEFINE f == [o \in Opened(layers) |-> <<"thread", o[1], o[2]>>]
    <2>1. f \in [Opened(layers) -> B]
      BY DEF OpenedPlaces
    <2>2. \A o, p \in Opened(layers) : f[o] = f[p] => o = p
      BY DEF Opened
    <2> QED BY <1>2, <2>1, <2>2, Injected
  <1>5. A \cap B = {} /\ A \cup B \subseteq Places
    BY OpenedKnown DEF CommentPlaces, OpenedPlaces
  <1> HIDE DEF A, B
  <1>6. Cardinality(A \cup B) = Cardinality(A) + Cardinality(B)
    <2>1. Cardinality(A \cup B) = Cardinality(A) + Cardinality(B) - Cardinality(A \cap B)
      BY <1>2, FS_Union
    <2>2. Cardinality(A \cap B) = 0
      BY <1>5, FS_EmptySet
    <2> QED BY <1>2, <2>1, <2>2, FS_CardinalityType
  <1>7. Cardinality(A \cup B) <= Cardinality(Places) /\ Cardinality(Places) <= sent /\ Cardinality(Places) \in Nat
    BY <1>1, <1>5, FS_Subset, PaidBound
  <1>8. /\ Cardinality(A) \in Nat /\ Cardinality(B) \in Nat /\ Cardinality(Opened(layers)) \in Nat /\ sent \in Nat
    BY <1>2, FS_CardinalityType, OpenedFinite DEF Typed, DocumentsOK, Texts
  <1> QED BY <1>3, <1>4, <1>6, <1>7, <1>8 DEF OpenThreads

LEMMA OpenWithin ==
  ASSUME NEW S, NEW s \in Seq(S)
  PROVE  Open(s) \in Nat /\ Len(s) \in Nat /\ Open(s) <= Len(s)
  <1>1. DOMAIN s = 1 .. Len(s) /\ Len(s) \in Nat
    BY LenProperties
  <1>2. IsFiniteSet(1 .. Len(s)) /\ Cardinality(1 .. Len(s)) = Len(s)
    BY <1>1, Interval
  <1>3. {i \in DOMAIN s : s[i].status = "open"} \in SUBSET (1 .. Len(s))
    BY <1>1
  <1>4. Open(s) <= Len(s)
    BY <1>2, <1>3, FS_Subset DEF Open
  <1> QED BY <1>1, <1>4, Counted

LEMMA CountCommentsGoes ==
  ASSUME Typed, Bounded, NEW u \in Users, CountComments(u)
  PROVE  \E w : GoesOn(u, w)
  <1> DEFINE c == Open(Rows(annotation))
             w == [work[u] EXCEPT !.count = c, !.phase = "threads"]
  <1>1. /\ work[u] # Absent /\ work[u].phase = "count" /\ UNCHANGED <<annotation, layers, part, sent>> /\ Move(u, w)
    BY DEF CountComments, At, documents, Serving
  <1>2. c \in Nat /\ Len(Rows(annotation)) \in Nat /\ c <= Len(Rows(annotation))
    BY DocumentRead, OpenWithin DEF Typed, DocumentsOK
  <1> HIDE DEF c
  <1>3. CommentPlaces(c) \subseteq Places
    BY <1>2, Fewer, Known
  <1>4. work[u] \in Requests /\ c <= sent
    BY <1>1, <1>2, <1>3, OpenPaid, Going DEF Bounded
  <1>5. /\ w \in Requests /\ w.n = work[u].n /\ w.version = work[u].version /\ w.phase = "threads" /\ w.count = c
    BY <1>2, <1>4 DEF Requests
  <1> HIDE DEF w
  <1>6. ReadPlaces(w) = CommentPlaces(c) /\ ReadVersions(w) = {} /\ ~Unsaved(w)
    BY <1>5, Unlike DEF ReadPlaces, ReadVersions, Unsaved
  <1> QED BY <1>1, <1>3, <1>4, <1>5, <1>6, Going, AsStored DEF GoesOn, Fits

LEMMA CountThreadsGoes ==
  ASSUME Typed, Bounded, NEW u \in Users, CountThreads(u)
  PROVE  \E w : GoesOn(u, w)
  <1> DEFINE c == work[u].count + OpenThreads
             w == [work[u] EXCEPT !.count = c, !.phase = "store"]
  <1>1. work[u] # Absent /\ work[u].phase = "threads" /\ UNCHANGED <<annotation, layers, part, sent>>
    BY DEF CountThreads, At, documents, Serving
  <1>2. work[u] \in Requests /\ work[u].count \in Nat
    BY <1>1, Going
  <1>3. Done(u) \/ Move(u, w)
    BY <1>2 DEF CountThreads, Requests
  <1>4. CommentPlaces(work[u].count) \subseteq Places
    BY <1>1, Known DEF ReadPlaces
  <1>5. c \in Nat /\ c <= sent
    BY <1>2, <1>4, OpenPaid, OpenedFinite DEF OpenThreads, Bounded
  <1> HIDE DEF c
  <1>6. /\ w \in Requests /\ w.n = work[u].n /\ w.version = work[u].version /\ w.phase = "store" /\ w.count = c
    BY <1>2, <1>5 DEF Requests
  <1> HIDE DEF w
  <1>7. ReadPlaces(w) = {} /\ ReadVersions(w) = {} /\ ~Unsaved(w)
    BY <1>6, Unlike DEF ReadPlaces, ReadVersions, Unsaved
  <1>8. Move(u, w) => GoesOn(u, w)
    BY <1>1, <1>5, <1>6, <1>7, Going, AsStored DEF GoesOn, Fits
  <1> QED BY <1>1, <1>3, <1>8, EndsWithin, Going

LEMMA StoreCountGoes ==
  ASSUME Typed, Bounded, NEW u \in Users, StoreCount(u)
  PROVE  \E w : GoesOn(u, w)
  <1>1. work[u] # Absent /\ UNCHANGED <<annotation, layers, sent>> /\ Done(u)
    BY DEF StoreCount, At, Serving
  <1>2. part'.pending = work[u].count
    BY DEF StoreCount, Typed, DocumentsOK
  <1> QED BY <1>1, <1>2, EndsWithin, Going

LEMMA ServesGoes ==
  ASSUME Typed, Bounded, NEW u \in Users, Serves(u)
  PROVE  \E w : GoesOn(u, w)
  BY LoadAnnotationGoes, RepairSearchGoes, SavesAnnotationGoes, SavePartGoes, LoadLayerGoes, InsertLayerGoes, SaveCanvasGoes,
     ReloadLayerGoes, SaveThreadGoes, CountCommentsGoes, CountThreadsGoes, StoreCountGoes
     DEF Serves, SavesLayer, Reads, SavesPart

\* What is asked for has read nothing; what is asked of the browser alone leaves all as it is.
LEMMA SentBounded ==
  ASSUME Typed, Typed', Bounded, Numbered', NEW u \in Users, Sends(u)
  PROVE  Bounded'
  <1>1. PICK w : Send(u, w) /\ w.phase = "load" /\ w.n = sent + 1 /\ w.count = 0 /\ w.version = 0
    BY Sending
  <1>2. /\ UNCHANGED documents /\ sent' = sent + 1 /\ work[u] = Absent /\ sent \in Nat
        /\ work'[u] = w /\ \A v \in Users \ {u} : work'[v] = work[v]
    BY <1>1 DEF Send, Move, Idle, Typed, UsersOK, DocumentsOK, Texts
  <1>3. ReadPlaces(w) = {} /\ ReadVersions(w) = {}
    BY <1>1 DEF ReadPlaces, ReadVersions
  <1>4. StoredPlaces' \subseteq Places /\ StoredVersions' \subseteq Versions
    BY <1>2, AsStored DEF documents
  <1>5. Places' \subseteq Places
    BY <1>2, <1>3, <1>4 DEF Places
  <1>6. Versions' \subseteq Versions
    BY <1>2, <1>3, <1>4 DEF Versions
  <1>7. Spent \subseteq Spent'
    <2>1. \A v \in Users : Unsaved(work'[v]) => work'[v].n = sent + 1 \/ (Unsaved(work[v]) /\ work'[v].n = work[v].n)
      BY <1>1, <1>2
    <2>2. \A k \in 1 .. sent : k \in 1 .. sent' /\ k # sent + 1
      BY <1>2
    <2> QED BY <2>1, <2>2 DEF Spent
  <1>8. IsFiniteSet(Spent) /\ IsFiniteSet(Spent')
    <2>1. sent' \in Nat /\ Spent' \in SUBSET (1 .. sent')
      BY DEF Typed, DocumentsOK, Texts, Spent
    <2> QED BY <2>1, SpentFinite, Interval, FS_Subset
  <1>9. Paid(Places)' /\ Paid(Versions)'
    BY <1>5, <1>6, <1>7, <1>8, Enough DEF Bounded, Paid
  <1>10. Answers'
    <2>1. part.pending \in Nat /\ part.pending <= sent /\ UNCHANGED part
      BY <1>2 DEF Bounded, Answers, Typed, DocumentsOK, documents
    <2>2. \A v \in Users \ {u} : work[v] # Absent => work[v].count <= sent /\ work[v].version <= sent
                                                     /\ work[v].count \in Nat /\ work[v].version \in Nat
      BY Going
    <2> QED BY <1>1, <1>2, <2>1, <2>2 DEF Answers
  <1> QED BY <1>9, <1>10 DEF Bounded


LEMMA StaysBounded ==
  ASSUME Bounded, UNCHANGED <<documents, work, sent>>
  PROVE  Bounded'
  <1>1. Spent' = Spent
    BY DEF Spent
  <1>2. StoredPlaces' = StoredPlaces /\ StoredVersions' = StoredVersions
    BY DEF documents, StoredPlaces, StoredVersions, Existing
  <1>3. Places' = Places
    BY <1>2 DEF Places
  <1>4. Versions' = Versions
    BY <1>2 DEF Versions
  <1> QED BY <1>1, <1>3, <1>4 DEF Bounded, Paid, Answers, Numbered, documents

LEMMA BoundedStep ==
  ASSUME Typed, Typed', Bounded, Numbered', [Next]_vars
  PROVE  Bounded'
  <1>1. CASE UNCHANGED vars \/ ReplaceDrawing
    <2>1. UNCHANGED <<documents, work, sent>>
      BY <1>1 DEF vars, ReplaceDrawing
    <2> QED BY <2>1, StaysBounded
  <1>2. ASSUME NEW u \in Users, Browses(u) PROVE Bounded'
    <2>1. UNCHANGED <<documents, work, sent>>
      BY <1>2 DEF Browses, OpenNotes, OpenPage, Draw, Erase, Editing
    <2> QED BY <2>1, StaysBounded
  <1>3. ASSUME NEW u \in Users, Serves(u) PROVE Bounded'
    BY <1>3, ServesGoes, BoundsGoOn
  <1> QED BY <1>1, <1>2, <1>3, SentBounded, Kinds DEF Next, Serves

\* At the start every comment and every thread has the number of its request.
LEMMA StartPlaces ==
  ASSUME Init
  PROVE  \E f \in [Places -> 1 .. sent] : \A a, b \in Places : f[a] = f[b] => a = b
  <1>1. PICK s \in Starts : annotation = s.annotation /\ layers = s.layers /\ sent = s.sent
    BY DEF Init
  <1> DEFINE rows == Rows(annotation)
             threads(x) == Entries(layers[x])
             ThreadOf(p) == threads(p[2])[p[3]]
             f == [p \in Places |-> IF p[1] = "comment" THEN rows[p[3]].id ELSE ThreadOf(p).id]
  <1>2. /\ Distinct(rows) /\ Ids(rows) \subseteq 1 .. sent
        /\ \A x \in Sources : /\ Distinct(threads(x)) /\ Ids(threads(x)) \subseteq (1 .. sent) \ Ids(rows)
                              /\ \A y \in Sources \ {x} : Ids(threads(x)) \cap Ids(threads(y)) = {}
    BY <1>1, StartsAssumption
  <1>3. DOMAIN rows = 1 .. Len(rows)
    BY <1>1, DocumentRead, LenProperties, StartsAssumption
  <1>4. \A x \in Sources : DOMAIN threads(x) = 1 .. Len(threads(x))
    <2>1. \A x \in Sources : layers[x] \in {Absent} \cup Layers
      BY <1>1, StartsAssumption
    <2>2. <<>> \in Seq(Threads) /\ \A l \in Layers : l # Absent /\ l.threads \in Seq(Threads)
      BY MarkupRead, Unlike, EmptySeq
    <2>3. \A x \in Sources : threads(x) \in Seq(Threads)
      BY <2>1, <2>2 DEF Entries
    <2> QED BY <2>3, LenProperties
  <1>5. ASSUME NEW p \in Places
        PROVE  \/ \E i \in DOMAIN rows : p = <<"comment", 0, i>>
               \/ \E x \in Sources : \E i \in DOMAIN threads(x) : p = <<"thread", x, i>>
    <2>1. \A u \in Users : ReadPlaces(work[u]) = {}
      BY DEF Init, ReadPlaces
    <2>2. p \in StoredPlaces
      BY <2>1 DEF Places
    <2> HIDE DEF f
    <2> QED BY <1>3, <1>4, <2>2 DEF StoredPlaces, CommentPlaces, ThreadPlaces
  <1>6. ASSUME NEW p \in Places
        PROVE  \/ \E i \in DOMAIN rows : p = <<"comment", 0, i>> /\ f[p] = rows[i].id
               \/ \E x \in Sources : \E i \in DOMAIN threads(x) : p = <<"thread", x, i>> /\ f[p] = threads(x)[i].id
    BY <1>5
  <1> HIDE DEF rows, threads, f
  <1>7. \A p \in Places : f[p] \in 1 .. sent
    BY <1>2, <1>6 DEF Ids
  <1>8. ASSUME NEW a \in Places, NEW b \in Places, f[a] = f[b] PROVE a = b
    <2>1. CASE \E i \in DOMAIN rows : a = <<"comment", 0, i>> /\ f[a] = rows[i].id
      <3>1. PICK i \in DOMAIN rows : a = <<"comment", 0, i>> /\ f[a] = rows[i].id
        BY <2>1
      <3>2. f[b] \in Ids(rows)
        BY <1>8, <3>1 DEF Ids
      <3>3. ~\E x \in Sources : \E j \in DOMAIN threads(x) : b = <<"thread", x, j>> /\ f[b] = threads(x)[j].id
        BY <1>2, <3>2 DEF Ids
      <3>4. PICK j \in DOMAIN rows : b = <<"comment", 0, j>> /\ f[b] = rows[j].id
        BY <1>6, <3>3
      <3>5. i = j
        BY <1>2, <1>8, <3>1, <3>4 DEF Distinct
      <3> QED BY <3>1, <3>4, <3>5
    <2>2. CASE \E x \in Sources : \E i \in DOMAIN threads(x) : a = <<"thread", x, i>> /\ f[a] = threads(x)[i].id
      <3>0. PICK x \in Sources : \E i \in DOMAIN threads(x) : a = <<"thread", x, i>> /\ f[a] = threads(x)[i].id
        BY <2>2
      <3>1. PICK i \in DOMAIN threads(x) : a = <<"thread", x, i>> /\ f[a] = threads(x)[i].id
        BY <3>0
      <3>2. f[b] \in Ids(threads(x)) /\ f[b] \notin Ids(rows)
        BY <1>2, <1>8, <3>1 DEF Ids
      <3>a. PICK y \in Sources : \E j \in DOMAIN threads(y) : b = <<"thread", y, j>> /\ f[b] = threads(y)[j].id
        BY <1>6, <3>2 DEF Ids
      <3>3. PICK j \in DOMAIN threads(y) : b = <<"thread", y, j>> /\ f[b] = threads(y)[j].id
        BY <3>a
      <3>4. f[b] \in Ids(threads(y))
        BY <3>3 DEF Ids
      <3>5. x = y
        BY <1>2, <3>2, <3>4
      <3>6. i = j
        BY <1>2, <1>8, <3>1, <3>3, <3>5 DEF Distinct
      <3> QED BY <3>1, <3>3, <3>5, <3>6
    <2> QED BY <1>6, <2>1, <2>2
  <1>9. f \in [Places -> 1 .. sent]
    BY <1>7 DEF f
  <1> QED BY <1>8, <1>9

LEMMA BoundedInit == Init => Bounded
  <1> SUFFICES ASSUME Init PROVE Bounded
    OBVIOUS
  <1>1. PICK s \in Starts : annotation = s.annotation /\ layers = s.layers /\ sent = s.sent /\ part.pending = s.pending
    BY DEF Init
  <1>2. Typed /\ sent \in Nat
    BY InitTyped DEF Typed, DocumentsOK, Texts
  <1>3. \A u \in Users : work[u] = Absent
    BY DEF Init
  <1>4. Spent = 1 .. sent
    BY <1>3 DEF Spent, Unsaved
  <1>5. IsFiniteSet(Spent) /\ Cardinality(Spent) = sent
    BY <1>2, <1>4, Interval
  <1>6. Paid(Places)
    BY <1>4, <1>5, StartPlaces, Injected DEF Paid
  <1>7. Paid(Versions)
    <2>1. \A u \in Users : ReadVersions(work[u]) = {}
      BY <1>3 DEF ReadVersions
    <2>2. \A x \in Sources : layers[x] # Absent => layers[x].version \in Nat /\ layers[x].version <= sent
      BY <1>1, <1>2, StartsAssumption, LayerOK, MarkupRead DEF Typed
    <2>3. Versions \in SUBSET (1 .. sent)
      BY <1>2, <2>1, <2>2 DEF Versions, StoredVersions, Existing
    <2> QED BY <1>2, <1>4, <1>5, <2>3, FS_Subset DEF Paid
  <1>8. Numbered
    BY <1>3 DEF Numbered
  <1>9. part.pending <= sent
    <2> DEFINE n == Open(Rows(annotation))
    <2>1. n \in Nat /\ Len(Rows(annotation)) \in Nat /\ n <= Len(Rows(annotation))
      BY <1>2, DocumentRead, OpenWithin DEF Typed, DocumentsOK
    <2>2. part.pending = n + OpenThreads
      BY <1>1, StartsAssumption DEF OpenThreads
    <2> HIDE DEF n
    <2>3. CommentPlaces(n) \subseteq Places
      BY <2>1, Fewer, Known
    <2> QED BY <1>2, <1>6, <2>1, <2>2, <2>3, OpenPaid
  <1> QED BY <1>3, <1>6, <1>7, <1>8, <1>9 DEF Bounded, Answers

\* Documents, requests and browsers are well formed; no more reviews are counted than
\* were raised and no layer has seen more saves than were asked (TypeOK).
THEOREM ReviewsTyped == Spec => []TypeOK
  <1>1. Typed /\ Typed' /\ Numbered /\ Bounded /\ [Next]_vars => Bounded'
    BY NumberedStep, BoundedStep
  <1>2. ASSUME Typed, Bounded PROVE TypeOK
    <2>1. \A s \in Sources : layers[s] # Absent => layers[s] \in Layers /\ layers[s].version <= sent
      <3> SUFFICES ASSUME NEW s \in Sources, layers[s] # Absent PROVE layers[s] \in Layers /\ layers[s].version <= sent
        OBVIOUS
      <3>1. layers[s] \in Layers /\ layers[s].version \in Nat
        BY <1>2, LayerOK, MarkupRead DEF Typed
      <3> QED BY <1>2, <3>1, Known, VersionPaid
    <2>2. part \in [notes : Texts, comments : SUBSET Texts, pending : 0 .. sent]
      BY <1>2 DEF Typed, DocumentsOK, Bounded, Answers, Texts
    <2>3. \A u \in Users : /\ work[u] \in {Absent} \cup Requests
                           /\ ~Idle(u) => work[u].count <= sent /\ work[u].version <= sent
                           /\ tabs[u].notes \in {Absent} \cup [text : Texts, stamp : Nat]
                           /\ tabs[u].page \in {Absent} \cup Pages
      BY <1>2 DEF Typed, UsersOK, Tabs, Bounded, Answers, Idle
    <2> QED BY <1>2, <2>1, <2>2, <2>3 DEF TypeOK, Typed, DocumentsOK
  <1>3. Init => Bounded
    BY BoundedInit
  <1>4. Bounded => Numbered
    BY DEF Bounded
  <1> QED BY <1>1, <1>2, <1>3, <1>4, SpecTyped, PTL DEF Spec
===============================================================================
