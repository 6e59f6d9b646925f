------------------------------- MODULE MCReviews -------------------------------
(* Small instances of Reviews: one part, its drawing, two browsers.        *)
EXTENDS Reviews, TLC

CONSTANTS u1, u2
MCUsers      == {u1, u2}
UserSymmetry == Permutations(MCUsers)

Nothing == [annotation |-> Absent, layers |-> [s \in Sources |-> Absent], source |-> 1,
            sent |-> 0, pending |-> 0, kinds |-> {}]

Comment(n) == [id |-> n, status |-> "open", replies |-> {}]
Thread(n)  == [id |-> n, status |-> "open", messages |-> {<<n, n>>}]

\* A comment (1) and notes (2).
Commented == [id |-> 1, notes |-> 2, stamp |-> 2, comments |-> <<Comment(1)>>]
\* A canvas with an object (1) and threads on it.
MarkedUp(threads) ==
  [Nothing.layers EXCEPT ![1] = [canvas |-> {1}, threads |-> threads, version |-> 1 + Len(threads)]]

Talk   == {"notes", "comment", "status", "reply", "remove"}
Mark   == {"canvas", "thread", "message", "state", "delete"}

\* left is how many more requests are served.
Start(left, asked) == [Nothing EXCEPT !.sent = MaxRequests - left, !.kinds = asked]

MCStarts ==
  {Start(3, {"notes", "comment", "remove"}),
   [Start(2, Talk) EXCEPT !.annotation = Commented, !.pending = 1],
   [Start(3, {"notes", "comment", "remove"}) EXCEPT !.annotation = Commented, !.pending = 1],
   Start(2, {"canvas", "thread"}),
   [Start(2, Mark) EXCEPT !.layers = MarkedUp(<<Thread(2), Thread(3)>>), !.pending = 2],
   [Start(3, {"canvas", "message"}) EXCEPT !.layers = MarkedUp(<<Thread(2)>>), !.pending = 1],
   [Start(3, {"message", "delete"}) EXCEPT
      !.layers = MarkedUp(<<Thread(2), Thread(3)>>), !.pending = 2],
   [Start(2, {"status", "state", "replace"}) EXCEPT
      !.annotation = Commented, !.layers = MarkedUp(<<Thread(2)>>), !.pending = 2]}

EditorStart  == {[Start(3, {"canvas", "message"}) EXCEPT
                    !.layers = MarkedUp(<<Thread(2)>>), !.pending = 1]}
ReplaceStart == {Start(2, {"canvas", "thread", "state", "replace"})}
===============================================================================
