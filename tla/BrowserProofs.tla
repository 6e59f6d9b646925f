----------------------------- MODULE BrowserProofs -----------------------------
(***************************************************************************)
(* Lemmas about the requests on their way in Browser: what becomes of them *)
(* when requests are sent, served, answered and taken.  Where the order of *)
(* the requests does not matter, they are the set Elems(calls).  And about *)
(* its lists: what the elements at some places of a list are.              *)
(***************************************************************************)
EXTENDS Browser, SequenceTheorems, FiniteSetTheorems, WellFoundedInduction, TLAPS

IsSequence(s) == \E S : s \in Seq(S)
Elems(s)      == {s[i] : i \in DOMAIN s}
CallFields    == {"op", "args", "work", "reply"}

-------------------------------------------------------------------------------
(* One by one.                                                             *)

\* A request that is sent comes after the others.
LEMMA RequestSent ==
  ASSUME NEW S, NEW s \in Seq(S), NEW c
  PROVE  /\ \E T : s \o <<c>> \in Seq(T)
         /\ Len(s) \in Nat /\ Len(s \o <<c>>) = Len(s) + 1
         /\ \A j \in 1 .. Len(s) : (s \o <<c>>)[j] = s[j]
         /\ (s \o <<c>>)[Len(s) + 1] = c
  <1>1. s \in Seq(S \cup {c}) /\ <<c>> \in Seq(S \cup {c}) /\ Len(<<c>>) = 1 /\ <<c>>[1] = c
    BY SeqMonotonic
  <1>2. /\ s \o <<c>> \in Seq(S \cup {c}) /\ Len(s \o <<c>>) = Len(s) + 1 /\ Len(s) \in Nat
        /\ \A j \in 1 .. Len(s) + 1 : (s \o <<c>>)[j] = IF j <= Len(s) THEN s[j] ELSE <<c>>[j - Len(s)]
    BY <1>1, ConcatProperties, LenProperties
  <1> QED BY <1>1, <1>2

\* A request that is worked on or answered stays in its place.
LEMMA RequestServed ==
  ASSUME NEW S, NEW s \in Seq(S), NEW i \in DOMAIN s, NEW c
  PROVE  /\ \E T : [s EXCEPT ![i] = c] \in Seq(T)
         /\ Len(s) \in Nat /\ i \in 1 .. Len(s) /\ Len([s EXCEPT ![i] = c]) = Len(s)
         /\ \A j \in 1 .. Len(s) : [s EXCEPT ![i] = c][j] = IF j = i THEN c ELSE s[j]
  <1>1. s \in Seq(S \cup {c}) /\ Len(s) \in Nat /\ DOMAIN s = 1 .. Len(s)
    BY SeqMonotonic, LenProperties
  <1>2. [s EXCEPT ![i] = c] \in Seq(S \cup {c})
    BY <1>1, ExceptSeq
  <1> QED BY <1>1, <1>2, ExceptSeq, LenProperties

LEMMA CallReplaced ==
  ASSUME NEW S, calls \in Seq(S), NEW i \in DOMAIN calls, NEW STATE c, calls' = [calls EXCEPT ![i] = c]
  PROVE  /\ \E T : calls' \in Seq(T)
         /\ Len(calls) \in Nat /\ i \in 1 .. Len(calls) /\ Len(calls') = Len(calls)
         /\ \A j \in 1 .. Len(calls) : calls'[j] = IF j = i THEN c ELSE calls[j]
  <1> DEFINE s == [calls EXCEPT ![i] = c]
  <1>1. /\ \E T : s \in Seq(T)
        /\ Len(calls) \in Nat /\ i \in 1 .. Len(calls) /\ Len(s) = Len(calls)
        /\ \A j \in 1 .. Len(calls) : s[j] = IF j = i THEN c ELSE calls[j]
    BY RequestServed
  <1>2. calls' = s
    OBVIOUS
  <1> HIDE DEF s
  <1> QED BY <1>1, <1>2

\* A request whose answer is taken leaves the others.
LEMMA RequestTaken ==
  ASSUME NEW S, calls \in Seq(S), NEW i \in DOMAIN calls
  PROVE  /\ Others(i) \in Seq(S)
         /\ Len(calls) \in Nat /\ i \in 1 .. Len(calls) /\ Len(Others(i)) = Len(calls) - 1
         /\ \A j \in 1 .. Len(calls) - 1 : \E k \in 1 .. Len(calls) : Others(i)[j] = calls[k]
  <1> DEFINE k(j) == IF j < i THEN j ELSE j + 1
  <1>1. i \in 1 .. Len(calls) /\ Len(calls) \in Nat /\ DOMAIN calls = 1 .. Len(calls)
    BY LenProperties
  <1>2. \A j \in 1 .. Len(calls) - 1 : k(j) \in 1 .. Len(calls) /\ calls[k(j)] \in S
    BY <1>1, ElementOfSeq
  <1>3. Others(i) = [j \in 1 .. Len(calls) - 1 |-> calls[k(j)]]
    BY DEF Others
  <1> HIDE DEF k
  <1>4. Len(calls) - 1 \in Nat
    BY <1>1
  <1>5. Others(i) \in Seq(S) /\ Len(Others(i)) = Len(calls) - 1
    BY <1>2, <1>3, <1>4, IsASeq, LenProperties
  <1> QED BY <1>1, <1>2, <1>3, <1>5

-------------------------------------------------------------------------------
(* As a set.                                                               *)

\* Sequences of requests, none, one or several.
LEMMA Few ==
  /\ IsSequence(<<>>) /\ Elems(<<>>) = {}
  /\ \A c : IsSequence(<<c>>) /\ Elems(<<c>>) = {c}
  /\ \A c, d : IsSequence(<<c, d>>) /\ Elems(<<c, d>>) = {c, d}
  <1>1. <<>> \in Seq({}) /\ DOMAIN <<>> = {}
    OBVIOUS
  <1>2. ASSUME NEW c PROVE IsSequence(<<c>>) /\ Elems(<<c>>) = {c}
    <2>1. <<c>> \in Seq({c}) /\ DOMAIN <<c>> = {1} /\ <<c>>[1] = c
      BY LenProperties
    <2> QED BY <2>1 DEF IsSequence, Elems
  <1>3. ASSUME NEW c, NEW d PROVE IsSequence(<<c, d>>) /\ Elems(<<c, d>>) = {c, d}
    <2>1. <<c, d>> \in Seq({c, d}) /\ Len(<<c, d>>) = 2 /\ 1 .. 2 = {1, 2}
      OBVIOUS
    <2>2. DOMAIN <<c, d>> = {1, 2} /\ <<c, d>>[1] = c /\ <<c, d>>[2] = d
      BY <2>1, LenProperties
    <2> QED BY <2>1, <2>2 DEF IsSequence, Elems
  <1> QED BY <1>1, <1>2, <1>3 DEF IsSequence, Elems

LEMMA Joined ==
  ASSUME NEW s, NEW t, IsSequence(s), IsSequence(t)
  PROVE  IsSequence(s \o t) /\ Elems(s \o t) = Elems(s) \cup Elems(t)
  <1>1. PICK S : s \in Seq(S)
    BY DEF IsSequence
  <1>2. PICK T : t \in Seq(T)
    BY DEF IsSequence
  <1>3. s \in Seq(S \cup T) /\ t \in Seq(S \cup T)
    BY <1>1, <1>2, SeqMonotonic
  <1>4. /\ s \o t \in Seq(S \cup T) /\ Len(s \o t) = Len(s) + Len(t)
        /\ \A j \in 1 .. Len(s) + Len(t) : (s \o t)[j] = IF j <= Len(s) THEN s[j] ELSE t[j - Len(s)]
    BY <1>3, ConcatProperties
  <1>5. /\ Len(s) \in Nat /\ Len(t) \in Nat /\ DOMAIN s = 1 .. Len(s) /\ DOMAIN t = 1 .. Len(t)
        /\ DOMAIN (s \o t) = 1 .. Len(s) + Len(t)
    BY <1>3, <1>4, LenProperties
  <1>6. Elems(s \o t) \subseteq Elems(s) \cup Elems(t)
    <2> SUFFICES ASSUME NEW j \in 1 .. Len(s) + Len(t) PROVE (s \o t)[j] \in Elems(s) \cup Elems(t)
      BY <1>5 DEF Elems
    <2>1. CASE j <= Len(s)
      BY <1>4, <1>5, <2>1 DEF Elems
    <2>2. CASE ~(j <= Len(s))
      <3>1. j - Len(s) \in 1 .. Len(t) /\ (s \o t)[j] = t[j - Len(s)]
        BY <1>4, <1>5, <2>2
      <3> QED BY <1>5, <3>1 DEF Elems
    <2> QED BY <2>1, <2>2
  <1>7. Elems(s) \subseteq Elems(s \o t)
    <2> SUFFICES ASSUME NEW j \in 1 .. Len(s) PROVE s[j] \in Elems(s \o t)
      BY <1>5 DEF Elems
    <2>1. j \in 1 .. Len(s) + Len(t) /\ (s \o t)[j] = s[j]
      BY <1>4, <1>5
    <2> QED BY <1>5, <2>1 DEF Elems
  <1>8. Elems(t) \subseteq Elems(s \o t)
    <2> SUFFICES ASSUME NEW j \in 1 .. Len(t) PROVE t[j] \in Elems(s \o t)
      BY <1>5 DEF Elems
    <2>1. Len(s) + j \in 1 .. Len(s) + Len(t) /\ ~(Len(s) + j <= Len(s)) /\ (Len(s) + j) - Len(s) = j
      BY <1>5
    <2>2. (s \o t)[Len(s) + j] = t[j]
      BY <1>4, <2>1
    <2> QED BY <1>5, <2>1, <2>2 DEF Elems
  <1> QED BY <1>4, <1>6, <1>7, <1>8 DEF IsSequence

\* Requests that are changed where they are.
LEMMA Mapped ==
  ASSUME NEW s, IsSequence(s), NEW t, DOMAIN t = DOMAIN s, t = [i \in DOMAIN s |-> t[i]]
  PROVE  IsSequence(t) /\ Elems(t) = {t[i] : i \in DOMAIN s}
  <1>1. PICK S : s \in Seq(S)
    BY DEF IsSequence
  <1>2. Len(s) \in Nat /\ DOMAIN s = 1 .. Len(s)
    BY <1>1, LenProperties
  <1> DEFINE T == {t[i] : i \in 1 .. Len(s)}
  <1>3. [i \in 1 .. Len(s) |-> t[i]] \in Seq(T)
    <2>1. \A i \in 1 .. Len(s) : t[i] \in T
      OBVIOUS
    <2> HIDE DEF T
    <2> QED BY <1>2, <2>1, IsASeq
  <1>4. t \in Seq(T)
    BY <1>2, <1>3
  <1> QED BY <1>2, <1>4 DEF IsSequence, Elems

\* What remains when an answer is taken.
LEMMA Remaining ==
  ASSUME IsSequence(calls), NEW i \in DOMAIN calls
  PROVE  /\ IsSequence(Others(i)) /\ Elems(Others(i)) \subseteq Elems(calls) /\ calls[i] \in Elems(calls)
         /\ Elems(calls) \subseteq Elems(Others(i)) \cup {calls[i]}
  <1>1. PICK S : calls \in Seq(S)
    BY DEF IsSequence
  <1>2. /\ Others(i) \in Seq(S) /\ Len(Others(i)) = Len(calls) - 1
        /\ \A j \in 1 .. Len(calls) - 1 : \E k \in 1 .. Len(calls) : Others(i)[j] = calls[k]
    BY <1>1, RequestTaken
  <1>3. DOMAIN Others(i) = 1 .. Len(calls) - 1 /\ DOMAIN calls = 1 .. Len(calls)
    BY <1>1, <1>2, LenProperties
  <1>4. Elems(calls) \subseteq Elems(Others(i)) \cup {calls[i]}
    <2> SUFFICES ASSUME NEW k \in 1 .. Len(calls), k # i PROVE calls[k] \in Elems(Others(i))
      BY <1>3 DEF Elems
    <2> DEFINE j == IF k < i THEN k ELSE k - 1
    <2>1. Len(calls) \in Nat /\ i \in 1 .. Len(calls)
      BY <1>1, RequestTaken
    <2>2. j \in 1 .. Len(calls) - 1 /\ (IF j < i THEN j ELSE j + 1) = k
      BY <2>1
    <2>3. Others(i)[j] = calls[k]
      BY <2>2 DEF Others
    <2> HIDE DEF j
    <2> QED BY <1>3, <2>2, <2>3 DEF Elems
  <1> QED BY <1>2, <1>3, <1>4 DEF IsSequence, Elems

\* A request that the server answers keeps what it asks.
LEMMA Answered ==
  ASSUME IsSequence(calls), NEW i \in DOMAIN calls, DOMAIN calls[i] = CallFields, NEW STATE r, Reply(i, r)
  PROVE  \E c : /\ DOMAIN c = CallFields /\ c.op = calls[i].op /\ c.args = calls[i].args /\ c.reply = r
                /\ IsSequence(calls') /\ Elems(calls') \subseteq Elems(calls) \cup {c}
                /\ c \in Elems(calls') /\ Elems(calls) \subseteq Elems(calls') \cup {calls[i]}
  <1> DEFINE c == [calls[i] EXCEPT !.reply = r, !.work = Absent]
  <1>1. DOMAIN c = CallFields /\ c.op = calls[i].op /\ c.args = calls[i].args /\ c.reply = r
    BY DEF CallFields
  <1>2. PICK S : calls \in Seq(S)
    BY DEF IsSequence
  <1>3. calls' = [calls EXCEPT ![i] = c]
    BY <1>2 DEF Reply
  <1> HIDE DEF c
  <1>4. /\ \E T : calls' \in Seq(T)
        /\ Len(calls) \in Nat /\ i \in 1 .. Len(calls) /\ Len(calls') = Len(calls)
        /\ \A j \in 1 .. Len(calls) : calls'[j] = IF j = i THEN c ELSE calls[j]
    BY <1>2, <1>3, CallReplaced
  <1>5. DOMAIN calls' = 1 .. Len(calls) /\ DOMAIN calls = 1 .. Len(calls)
    BY <1>2, <1>4, LenProperties
  <1>6. IsSequence(calls') /\ Elems(calls') \subseteq Elems(calls) \cup {c}
    BY <1>4, <1>5 DEF IsSequence, Elems
  <1>7. c \in Elems(calls') /\ Elems(calls) \subseteq Elems(calls') \cup {calls[i]}
    BY <1>4, <1>5 DEF Elems
  <1> QED BY <1>1, <1>6, <1>7

-------------------------------------------------------------------------------
(* Lists.                                                                  *)

LEMMA Smallest ==
  ASSUME NEW T, T \subseteq Nat, T # {}
  PROVE  \E x \in T : \A y \in T : x <= y
  <1>1. PICK x \in T : \A y \in T : <<y, x>> \notin OpToRel(<, Nat)
    BY WFMin, NatLessThanWellFounded
  <1>2. ASSUME NEW y \in T PROVE x <= y
    <2>1. x \in Nat /\ y \in Nat
      OBVIOUS
    <2>2. y < x => <<y, x>> \in {ss \in Nat \X Nat : ss[1] < ss[2]}
      BY <2>1
    <2>3. ~(y < x)
      BY <1>1, <2>2, Zenon DEF OpToRel
    <2> QED BY <2>1, <2>3
  <1> QED BY <1>2

Distinct(s) == \A i, j \in DOMAIN s : s[i] = s[j] => i = j

\* The ranks of some places are the numbers up to their count.
LEMMA Ranks ==
  ASSUME NEW N \in Nat, NEW K \in SUBSET (1 .. N)
  PROVE  /\ Cardinality(K) \in Nat
         /\ \A k, l \in K : Rank(k, K) = Rank(l, K) => k = l
         /\ \A n \in 1 .. Cardinality(K) : \E k \in K : Rank(k, K) = n
         /\ \A k \in K : Rank(k, K) \in 1 .. Cardinality(K)
  <1>1. IsFiniteSet(1 .. N)
    BY FS_Interval
  <1>2. IsFiniteSet(K) /\ Cardinality(K) \in Nat
    BY <1>1, FS_Subset, FS_CardinalityType
  <1> DEFINE upTo(k) == {j \in K : j <= k}
             C == Cardinality(K)
  <1>3. \A k \in K : IsFiniteSet(upTo(k)) /\ Cardinality(upTo(k)) \in Nat /\ Cardinality(upTo(k)) <= C
    <2> SUFFICES ASSUME NEW k \in K
                 PROVE  IsFiniteSet(upTo(k)) /\ Cardinality(upTo(k)) \in Nat /\ Cardinality(upTo(k)) <= C
      OBVIOUS
    <2>1. upTo(k) \in SUBSET K
      OBVIOUS
    <2> HIDE DEF upTo
    <2> QED BY <1>2, <2>1, FS_Subset, FS_CardinalityType
  <1>4. \A k \in K : Rank(k, K) = Cardinality(upTo(k))
    BY DEF Rank
  <1>5. ASSUME NEW k \in K PROVE Cardinality(upTo(k)) # 0
    <2>1. k \in upTo(k)
      OBVIOUS
    <2> QED BY <1>3, <2>1, FS_EmptySet
  <1>6. ASSUME NEW k \in K, NEW l \in K, k < l PROVE Cardinality(upTo(k)) # Cardinality(upTo(l))
    <2>0. k \in Nat /\ l \in Nat /\ \A j \in K : j \in Nat
      OBVIOUS
    <2>1. upTo(k) \in SUBSET upTo(l) /\ l \in upTo(l) /\ l \notin upTo(k)
      <3>1. l <= l /\ ~(l <= k) /\ \A j \in Nat : j <= k => j <= l
        BY <1>6, <2>0
      <3> QED BY <2>0, <3>1
    <2>2. IsFiniteSet(upTo(l))
      BY <1>3
    <2> HIDE DEF upTo
    <2> QED BY <2>1, <2>2, FS_Subset
  <1> HIDE DEF upTo
  <1>7. \A k \in K : Rank(k, K) \in 1 .. C
    BY <1>2, <1>3, <1>4, <1>5
  <1>8. \A k, l \in K : Rank(k, K) = Rank(l, K) => k = l
    <2> SUFFICES ASSUME NEW k \in K, NEW l \in K, Rank(k, K) = Rank(l, K) PROVE k = l
      OBVIOUS
    <2>1. ~(k < l) /\ ~(l < k)
      BY <1>4, <1>6
    <2> QED BY <2>1
  <1> DEFINE f == [k \in K |-> Rank(k, K)]
  <1>9. f \in Injection(K, 1 .. C)
    BY <1>7, <1>8 DEF Injection, IsInjective
  <1>10. f \in Surjection(K, 1 .. C)
    <2>1. IsFiniteSet(1 .. C) /\ Cardinality(1 .. C) = C
      BY <1>2, FS_Interval
    <2> HIDE DEF f
    <2> QED BY <1>9, <2>1, FS_Injection
  <1>11. \A n \in 1 .. C : \E k \in K : f[k] = n
    BY <1>10 DEF Surjection
  <1> QED BY <1>2, <1>7, <1>8, <1>11

\* The elements at some places of a list are a list, of nothing else.
LEMMA PickedIs ==
  ASSUME NEW s, IsSequence(s), NEW K \in SUBSET (DOMAIN s)
  PROVE  /\ IsSequence(Picked(s, K)) /\ Len(Picked(s, K)) \in Nat
         /\ Elems(Picked(s, K)) = {s[k] : k \in K}
         /\ (\A k, l \in K : s[k] = s[l] => k = l) => Distinct(Picked(s, K))
  <1>1. PICK S : s \in Seq(S)
    BY DEF IsSequence
  <1>2. Len(s) \in Nat /\ DOMAIN s = 1 .. Len(s)
    BY <1>1, LenProperties
  <1> DEFINE C == Cardinality(K)
             at(n) == CHOOSE k \in K : Rank(k, K) = n
  <1>3. /\ C \in Nat
        /\ \A n \in 1 .. C : at(n) \in K /\ Rank(at(n), K) = n
        /\ \A k \in K : Rank(k, K) \in 1 .. C
        /\ \A k, l \in K : Rank(k, K) = Rank(l, K) => k = l
    <2>1. /\ C \in Nat
          /\ \A k, l \in K : Rank(k, K) = Rank(l, K) => k = l
          /\ \A n \in 1 .. C : \E k \in K : Rank(k, K) = n
          /\ \A k \in K : Rank(k, K) \in 1 .. C
      BY <1>2, Ranks
    <2>2. ASSUME NEW n \in 1 .. C PROVE at(n) \in K /\ Rank(at(n), K) = n
      BY <2>1
    <2> QED BY <2>1, <2>2
  <1> DEFINE t == Picked(s, K)
  <1>4. t = [n \in 1 .. C |-> s[at(n)]]
    BY DEF Picked
  <1> HIDE DEF C, at, t
  <1>5. t \in Seq(S) /\ DOMAIN t = 1 .. C /\ Len(t) = C
    <2>1. \A n \in 1 .. C : s[at(n)] \in S
      BY <1>1, <1>2, <1>3, ElementOfSeq
    <2>2. t \in Seq(S)
      BY <1>3, <1>4, <2>1, IsASeq
    <2> QED BY <1>3, <1>4, <2>2, LenProperties
  <1>6. Elems(t) = {s[k] : k \in K}
    <2>1. \A n \in 1 .. C : t[n] = s[at(n)] /\ at(n) \in K
      BY <1>3, <1>4
    <2>2. \A k \in K : Rank(k, K) \in 1 .. C /\ at(Rank(k, K)) = k
      BY <1>3
    <2> QED BY <1>5, <2>1, <2>2 DEF Elems
  <1>7. ASSUME \A k, l \in K : s[k] = s[l] => k = l PROVE Distinct(t)
    <2> SUFFICES ASSUME NEW i \in 1 .. C, NEW j \in 1 .. C, t[i] = t[j] PROVE i = j
      BY <1>5 DEF Distinct
    <2>1. at(i) = at(j)
      BY <1>3, <1>4, <1>7
    <2> QED BY <1>3, <2>1
  <1> QED BY <1>3, <1>5, <1>6, <1>7 DEF IsSequence, t

\* Each element is kept once.
LEMMA FirstOnesAre ==
  ASSUME NEW s, IsSequence(s)
  PROVE  IsSequence(FirstOnes(s)) /\ Elems(FirstOnes(s)) = Elems(s) /\ Distinct(FirstOnes(s))
  <1> DEFINE K == {k \in DOMAIN s : \A j \in 1 .. k - 1 : s[j] # s[k]}
  <1>1. Len(s) \in Nat /\ DOMAIN s = 1 .. Len(s)
    BY LenProperties DEF IsSequence
  <1>2. \A k, l \in K : s[k] = s[l] => k = l
    <2> SUFFICES ASSUME NEW k \in K, NEW l \in K, s[k] = s[l] PROVE k = l
      OBVIOUS
    <2>1. ~(k < l)
      <3>1. k < l => k \in 1 .. l - 1
        BY <1>1
      <3> QED BY <3>1
    <2>2. ~(l < k)
      <3>1. l < k => l \in 1 .. k - 1
        BY <1>1
      <3> QED BY <3>1
    <2> QED BY <1>1, <2>1, <2>2
  <1>3. ASSUME NEW i \in DOMAIN s PROVE \E k \in K : s[k] = s[i]
    <2> DEFINE T == {k \in DOMAIN s : s[k] = s[i]}
    <2>1. T \subseteq Nat /\ T # {}
      BY <1>1
    <2>2. PICK k \in T : \A j \in T : k <= j
      BY <2>1, Smallest
    <2>3. ASSUME NEW j \in 1 .. k - 1 PROVE s[j] # s[k]
      <3>1. j \in DOMAIN s /\ j < k /\ k \in Nat /\ j \in Nat
        BY <1>1
      <3>2. j \in T => k <= j
        BY <2>2
      <3> QED BY <3>1, <3>2
    <2> QED BY <2>3
  <1>4. K \in SUBSET (DOMAIN s)
    OBVIOUS
  <1>5. FirstOnes(s) = Picked(s, K)
    BY DEF FirstOnes
  <1> HIDE DEF K
  <1>6. IsSequence(FirstOnes(s)) /\ Elems(FirstOnes(s)) = {s[k] : k \in K} /\ Distinct(FirstOnes(s))
    BY <1>2, <1>4, <1>5, PickedIs
  <1> QED BY <1>3, <1>4, <1>6 DEF Elems
===============================================================================
