---------------------------- MODULE NumberRegister ----------------------------
(***************************************************************************)
(* What the automatic counter of app/services/numbering.py promises,       *)
(* without its scan, its documents or its workers: a value of a series is  *)
(* free, then held by one request, then issued by that request or lost,    *)
(* and never comes back.  Only the removal of the whole scheme forgets it. *)
(***************************************************************************)
CONSTANTS
  Schemes,  \* scheme ids
  Claim     \* a value of a series: a record with the series in field key

VARIABLES
  held,     \* claimed by a request that has not ended
  issued,   \* answered to a client
  lost,     \* used up without an answer
  retired   \* schemes whose counters were removed

regVars == <<held, issued, lost, retired>>

Live(S) == {c \in S : c.key.scheme \notin retired}

Init == held = {} /\ issued = {} /\ lost = {} /\ retired = {}

\* A free value of a live series becomes the request's own.
Hold(c) ==
  /\ c \notin held \cup issued \cup lost
  /\ c.key.scheme \notin retired
  /\ held' = held \cup {c}
  /\ UNCHANGED <<issued, lost, retired>>

\* The holder answers its client.
Issue(c) ==
  /\ c \in held
  /\ held' = held \ {c} /\ issued' = issued \cup {c}
  /\ UNCHANGED <<lost, retired>>

\* The holder fails or dies: the value stays used.
Lose(c) ==
  /\ c \in held
  /\ held' = held \ {c} /\ lost' = lost \cup {c}
  /\ UNCHANGED <<issued, retired>>

\* A free value is recorded as used: its number is in use, or it lies beyond
\* the scheme's ceiling.
Discard(c) ==
  /\ c \notin held \cup issued \cup lost
  /\ c.key.scheme \notin retired
  /\ lost' = lost \cup {c}
  /\ UNCHANGED <<held, issued, retired>>

Retire(s) ==
  LET Kept(S) == {c \in S : c.key.scheme # s} IN
  /\ retired' = retired \cup {s}
  /\ held' = Kept(held) /\ issued' = Kept(issued) /\ lost' = Kept(lost)

Next ==
  \/ \E c \in Claim : Hold(c) \/ Issue(c) \/ Lose(c) \/ Discard(c)
  \/ \E s \in Schemes : Retire(s)

Spec == Init /\ [][Next]_regVars
=============================================================================
