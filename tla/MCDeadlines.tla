----------------------------- MODULE MCDeadlines -----------------------------
(* Deadlines with no deadline and two distinct deadlines. *)
EXTENDS Deadlines

MCTimes == {NoDeadline, "t1", "t2"}
=============================================================================
