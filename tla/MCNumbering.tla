----------------------------- MODULE MCNumbering -----------------------------
(* A small instance of Numbering for TLC. *)
EXTENDS Numbering, TLC

CONSTANTS w1, w2, s1

MCWorkers == {w1, w2}
\* The workers are interchangeable.
WorkerSymmetry == Permutations(MCWorkers)
MCOneWorker == {w1}
MCSchemes == {s1}

\* Two documents for the scheme: capped and uncapped; the second starts a new
\* series each period although its text does not change.
MCSettings ==
  {[pattern |-> [literal |-> "PART", dated |-> FALSE],
    seq |-> [start |-> 1, ceiling |-> 1, reset |-> FALSE],
    scoped |-> FALSE, revision |-> "", active |-> TRUE],
   [pattern |-> [literal |-> "PART", dated |-> FALSE],
    seq |-> [start |-> 1, ceiling |-> 0, reset |-> TRUE],
    scoped |-> FALSE, revision |-> "", active |-> TRUE]}
=============================================================================
