------------------------- MODULE MCNonlinearSolver -------------------------
(***************************************************************************)
(* Settings of a field around the defaults of field.cpp, scaled down.      *)
(***************************************************************************)
EXTENDS NonlinearSolver

R(num, den) == [num |-> num, den |-> den]

MCNorms == 0..3

\* A factor of 32 units can be halved four times, below the minimum of 4, and
\* multiplied by 3/2 from there (rounded down).
Default ==
    [linearityType |-> "Newton", dampingType |-> "Automatic", dampingCoeff |-> 32,
     stepsToIncrease |-> 1, decreaseRatio |-> R(6, 5), reuseJacobian |-> TRUE,
     jacobianReuseRatio |-> R(4, 5), maxStepsReuse |-> 2,
     residualTolerance |-> 0, changeTolerance |-> 1]

Newtons ==
    {[Default EXCEPT !.dampingType = type, !.stepsToIncrease = steps,
          !.maxStepsReuse = reuse, !.residualTolerance = tolerance] :
        type \in {"Automatic", "Off"}, steps \in {1, 2}, reuse \in {0, 1, 2},
        tolerance \in {0, 1}}

Picards ==
    {[Default EXCEPT !.linearityType = "Picard", !.dampingType = type,
          !.stepsToIncrease = steps, !.dampingCoeff = coeff] :
        type \in {"Automatic", "Fixed"}, steps \in {1, 2}, coeff \in {32, 96}}

MCSettings == Newtons \cup Picards \cup
    {[Default EXCEPT !.reuseJacobian = FALSE], [Default EXCEPT !.linearityType = "Linear"]}

\* the dialog takes any ratio, also one below 1
StrictSettings == {[Default EXCEPT !.decreaseRatio = R(1, 2)]}
=============================================================================
