----------------------------- MODULE MCStudies -----------------------------
(***************************************************************************)
(* Studies of every kind with two goal functions.                          *)
(***************************************************************************)
EXTENDS Studies

MCKinds == {"sweep", "nlopt", "bayesopt", "pagmo", "model"}

\* The first two are better in one goal each.  The third one, whose first goal
\* failed, is dominated by the first and dominates the second: among all three
\* dominating is no order.
MCGoals == {<<0, -1>>, <<-1, 1>>, [g \in {2} |-> 0]}
=============================================================================
