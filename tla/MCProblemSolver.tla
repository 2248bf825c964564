-------------------------- MODULE MCProblemSolver --------------------------
(***************************************************************************)
(* Problems of the shipped modules: current heats, heat expands, magnetic  *)
(* losses heat.  Time is counted in units of a step length.                *)
(***************************************************************************)
EXTENDS ProblemSolver, TLC

CONSTANTS
    coarse, fine,
    SolvedFields,       \* the fields of the problems of the run
    MaxAdaptivityStep   \* the adaptivity steps a solution may have

Field == {"current", "elasticity", "heat", "magnetic"}

MCSolutionIDs == [field : SolvedFields, timeStep : 0..TimeTotal,
                  adaptivityStep : 0..MaxAdaptivityStep]
MCMeshes == {coarse, fine}
MCCells == (coarse :> 4) @@ (fine :> 16)
MCVectors == 0..TimeTotal
MCPluginCouplings ==
    [f \in Field |-> CASE f = "heat" -> {"current", "magnetic"}
                       [] f = "elasticity" -> {"heat"}
                       [] OTHER -> {}]

Weak(s, t) == [source |-> s, target |-> t]

AllSteady == [f \in Field |-> "steady"]
HeatTransient == [AllSteady EXCEPT !["heat"] = "transient"]
NotAdaptive == [f \in Field |-> 0]
HeatAdaptive == [NotAdaptive EXCEPT !["heat"] = 3]

Steady3 ==
    [fields |-> <<"current", "elasticity", "heat">>,
     weakCouplings |-> <<Weak("current", "heat"), Weak("heat", "elasticity")>>,
     analysis |-> AllSteady, adaptivitySteps |-> NotAdaptive, mayAbort |-> TRUE,
     timeMethod |-> "Fixed", timeOrder |-> 1, constantTimeStep |-> 1]

Magnetic3 ==
    [Steady3 EXCEPT !.fields = <<"elasticity", "heat", "magnetic">>,
        !.weakCouplings = <<Weak("heat", "elasticity"), Weak("magnetic", "heat")>>]

Adaptive3 ==
    [Steady3 EXCEPT !.adaptivitySteps = HeatAdaptive, !.mayAbort = FALSE]

\* The last field of the chain may be aborted in its adaptivity loop.
AdaptiveLast ==
    [Steady3 EXCEPT !.adaptivitySteps = [NotAdaptive EXCEPT !["elasticity"] = 2]]

Transient3(method, timeOrder, constantTimeStep) ==
    [Steady3 EXCEPT !.analysis = HeatTransient, !.timeMethod = method,
        !.timeOrder = timeOrder, !.constantTimeStep = constantTimeStep]

Transient1(method, timeOrder, constantTimeStep) ==
    [Transient3(method, timeOrder, constantTimeStep) EXCEPT
        !.fields = <<"heat">>, !.weakCouplings = <<>>]

AdaptiveTransient(method, steps) ==
    [Transient1(method, 2, 2) EXCEPT !.mayAbort = FALSE,
        !.adaptivitySteps = [NotAdaptive EXCEPT !["heat"] = steps]]

\* the problems of the passing runs
CoupledProblems ==
    {Steady3, Magnetic3, Adaptive3, AdaptiveLast, Transient3("BDF", 2, 2),
     AdaptiveTransient("Fixed", 2)}
TransientProblems ==
    {Transient1("Fixed", o, 3) : o \in 1..3} \cup
    {Transient1("BDF", o, n) : o \in 2..3, n \in {1, 3, 6}}

\* the problem of the run that shows a disagreement
RefusingProblems == {Transient1("BDF", 2, 3)}
=============================================================================
