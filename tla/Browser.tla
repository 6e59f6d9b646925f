-------------------------------- MODULE Browser --------------------------------
(***************************************************************************)
(* One page of the React front end (src/frontend/src) in one browser tab.  *)
(*                                                                         *)
(*   - `page' is the state of the mounted components, a record per page.   *)
(*   - `calls' are the requests on their way.  The server handles them and *)
(*     the browser takes their answers in any order.  A handler sees the   *)
(*     state of the render it was created in, so `args' holds whatever the *)
(*     handler of the answer closed over, besides what is sent.            *)
(*   - A request, the worker that serves it, or its answer may be lost,    *)
(*     and the server may refuse: the page sees a failure.                 *)
(*   - `server' is what the page's requests read and write.                *)
(*                                                                         *)
(* Users, other clients and the network's mishaps have `left' acts left.   *)
(***************************************************************************)
EXTENDS Naturals, Sequences, FiniteSets

CONSTANTS
  Absent,    \* no value: null, undefined or an empty string
  Failure    \* the answer of a request that failed

VARIABLES page, calls, server, left

vars == <<page, calls, server, left>>

On(name) == page.at = name

Act == left > 0 /\ left' = left - 1

Show(p)   == page' = p

Call(op, args) == [op |-> op, args |-> args, work |-> Absent, reply |-> Absent]
Send(cs)       == calls' = calls \o cs

Waiting(op)   == \E i \in DOMAIN calls : calls[i].op = op
IsAsked(i, op)    == calls[i].op = op /\ calls[i].reply = Absent /\ calls[i].work = Absent
IsWorking(i)      == calls[i].reply = Absent /\ calls[i].work # Absent
IsAnswered(i, op) == calls[i].op = op /\ calls[i].reply # Absent
Failed(i)         == calls[i].reply = Failure

\* A handler of several steps keeps in `work' what it has in memory.
Work(i, w)  == calls' = [calls EXCEPT ![i].work = w]
Reply(i, r) == calls' = [calls EXCEPT ![i].reply = r, ![i].work = Absent]

Others(i) == [j \in 1 .. Len(calls) - 1 |-> calls[IF j < i THEN j ELSE j + 1]]

\* The handler of an answer ends, or sends more requests.
Take(i)            == calls' = Others(i)
TakeAndSend(i, cs) == calls' = Others(i) \o cs

Lose ==
  /\ Act
  /\ \E i \in DOMAIN calls : ~Failed(i) /\ Reply(i, Failure)
  /\ UNCHANGED <<page, server>>

-------------------------------------------------------------------------------
(* Lists, as the pages and the server keep and filter them.                *)

\* The elements at some places, in their order.
Rank(k, places)   == Cardinality({j \in places : j <= k})
Picked(s, places) == [n \in 1 .. Cardinality(places) |-> s[CHOOSE k \in places : Rank(k, places) = n]]

\* Of equal elements the first one is kept.
FirstOnes(s) == Picked(s, {k \in DOMAIN s : \A j \in 1 .. k - 1 : s[j] # s[k]})
===============================================================================
