----------------------------- MODULE SolverDeal -----------------------------
(***************************************************************************)
(* SolverDeal solves one field: in one go, with mesh adaptivity, or over   *)
(* time by BDF formulas of variable step length.  Every solution goes to   *)
(* the store of the computation.                                           *)
(*                                                                         *)
(* Source: solveSteadyState and solveTransient in                          *)
(* agros-library/solver/solver.cpp.                                        *)
(*                                                                         *)
(* Numbers are abstracted as follows.  Time is counted in units that every *)
(* step length is a multiple of.  A vector of a transient field stands for *)
(* the time it was computed for, so that a history that mixes up steps     *)
(* shows.  A mesh is any member of Meshes; an error estimate is a choice:  *)
(* the step is accepted or refused, and the next length is any length the  *)
(* code may compute in that case.                                          *)
(***************************************************************************)
EXTENDS SolutionStore, Sequences

CONSTANTS
    Problems,   \* the problem configurations of the instance
    TimeTotal,  \* ProblemConfig::TimeTotal
    FirstMesh   \* the calculation mesh that solveInit made

ASSUME TimeAssumption ==
    /\ TimeTotal \in Nat \ {0}
    /\ 0..TimeTotal \subseteq Vectors \cap RunTimes
    /\ FirstMesh \in Meshes

\* Lengths are multiples of the unit, so a step of one unit cannot be
\* shortened: it is the bound below which no step is refused.
Lengths == 1..TimeTotal

\* maxTimeStepRatio and maxTimeStepLength
TimeStepRatio == 2
MaxTimeStepLength == IF TimeTotal < 5 THEN 1 ELSE TimeTotal \div 5

VARIABLES
    problem,          \* what the user set up; constant while solving
    timeStepLengths,  \* Computation::m_timeStepLengths
    calculationMesh,  \* Computation::m_calculationMesh
    abort,            \* Computation::m_abort
    pc,               \* where the solving thread is
    target,           \* the field that is being solved
    adaptiveStep,     \* adaptiveStep of either loop
    primal,           \* primal->solution
    solutions,        \* solutions: history of the BDF formula
    stepLengths,      \* stepLengths
    solverTime,       \* m_time
    timeStep,         \* timeStep
    nextLength,       \* nextTimeStepLength
    solutionID,       \* solutionID: what was stored last
    rereadStep        \* step of the last loop of solveTransient

computationVars == <<problem, timeStepLengths, calculationMesh, abort>>
stepVars == <<primal, solutions, stepLengths, solverTime, timeStep,
              nextLength, solutionID>>
loopVars == <<adaptiveStep, rereadStep>>

SolverInit ==
    /\ problem \in Problems
    /\ timeStepLengths = <<0>>
    /\ calculationMesh = FirstMesh
    /\ abort = FALSE
    /\ target = None
    /\ adaptiveStep = 0
    /\ primal = 0
    /\ solutions = <<>>
    /\ stepLengths = <<>>
    /\ solverTime = 0
    /\ timeStep = 1
    /\ nextLength = 1
    /\ solutionID = None
    /\ rereadStep = 0

-----------------------------------------------------------------------------
ID(f, t, k) == [field |-> f, timeStep |-> t, adaptivityStep |-> k]

TimeLastStep == Len(timeStepLengths) - 1
MaxAdaptivitySteps == problem.adaptivitySteps[target]
HasAdaptivity == MaxAdaptivitySteps > 0

\* An assert of the store fails, or its null dof handler is dereferenced:
\* the process ends.
Crash == pc' = "crashed"

\* addSolution, with the place the solver goes on at afterwards; SolutionIDs
\* bounds the steps that can be stored
Store(id, s, runTime, next) ==
    /\ id \in SolutionIDs
    /\ IF MayAdd(id)
       THEN AddSolution(id, s, runTime) /\ pc' = next
       ELSE Crash /\ UNCHANGED storeVars

-----------------------------------------------------------------------------
(***************************************************************************)
(* solveSteadyState                                                        *)
(***************************************************************************)
Steady == problem.analysis[target] = "steady"

SolveSteady ==
    /\ pc = "solve"
    /\ Steady
    /\ ~HasAdaptivity
    /\ Store(ID(target, TimeLastStep, 0),
             [mesh |-> calculationMesh, vector |-> 0], 0, "nextField")
    /\ UNCHANGED <<computationVars, target, stepVars, loopVars>>

\* One round of the adaptivity loop.  From the second one on the mesh is
\* refined and coarsened first.
SteadyAdaptiveStep ==
    /\ pc = "solve"
    /\ Steady
    /\ HasAdaptivity
    /\ ~abort
    /\ calculationMesh' \in IF adaptiveStep > 0 THEN Meshes ELSE {calculationMesh}
    /\ \E converged \in BOOLEAN :
          LET last == converged \/ adaptiveStep + 1 = MaxAdaptivitySteps
          IN  /\ Store(ID(target, TimeLastStep, adaptiveStep),
                       [mesh |-> calculationMesh', vector |-> 0], 0,
                       IF last THEN "nextField" ELSE "solve")
              /\ adaptiveStep' = IF last THEN 0 ELSE adaptiveStep + 1
    /\ UNCHANGED <<problem, timeStepLengths, abort, target, stepVars, rereadStep>>

SteadyAborted ==
    /\ pc = "solve"
    /\ Steady
    /\ HasAdaptivity
    /\ abort
    /\ adaptiveStep' = 0
    /\ pc' = "nextField"
    /\ UNCHANGED <<storeVars, computationVars, target, stepVars, rereadStep>>

-----------------------------------------------------------------------------
(***************************************************************************)
(* solveTransient                                                          *)
(***************************************************************************)
StoreInitialCondition ==
    /\ pc = "solve"
    /\ ~Steady
    /\ IF TimeLastStep = 0
       THEN Store(ID(target, 0, 0), [mesh |-> calculationMesh, vector |-> 0],
                  0, "timeLoop")
       ELSE Crash /\ UNCHANGED storeVars
    /\ primal' = 0
    /\ solutions' = <<>>
    /\ stepLengths' = <<>>
    /\ solverTime' = 0
    /\ timeStep' = 1
    /\ nextLength' = problem.constantTimeStep
    /\ solutionID' = ID(target, 0, 0)
    /\ UNCHANGED <<computationVars, target, loopVars>>

\* mutated form: the last step is not shortened
Unclamped(time, length) == length

\* "set last step": the last step ends at TimeTotal
Clamped(time, length) ==
    IF time + length > TimeTotal THEN TimeTotal - time ELSE length

\* mutated form: one entry too many is kept
RecentAndOneMore(history) ==
    IF Len(history) > problem.timeOrder THEN Tail(history) ELSE history

\* the history is cut to TimeOrder - 1 entries before one is added
Recent(history) ==
    IF Len(history) > problem.timeOrder - 1 THEN Tail(history) ELSE history

BeginTimeStep ==
    /\ pc = "timeLoop"
    /\ ~abort
    /\ solverTime < TimeTotal
    /\ LET length == Clamped(solverTime, nextLength)
       IN  /\ solverTime' = solverTime + length
           /\ solutions' = Append(Recent(solutions), primal)
           /\ stepLengths' = Append(Recent(stepLengths), length)
    /\ adaptiveStep' = 0
    /\ pc' = "step"
    /\ UNCHANGED <<storeVars, computationVars, target, primal, timeStep,
                   nextLength, solutionID, rereadStep>>

\* abort or end time: the loop that reads all steps again follows
EndTimeLoop ==
    /\ pc = "timeLoop"
    /\ abort \/ solverTime >= TimeTotal
    /\ rereadStep' = 0
    /\ pc' = "reread"
    /\ UNCHANGED <<storeVars, computationVars, target, stepVars, adaptiveStep>>

Order == IF timeStep < Len(solutions) THEN timeStep ELSE Len(solutions)

\* mutated form: the length before it was cut to the end time
ProposedLength == nextLength

ActualLength == stepLengths[Len(stepLengths)]
EstimatesError == Order > 1 /\ problem.timeMethod = "BDF"

\* Space adaptivity repeats the first time step only.
MaxAdaptiveSteps == IF timeStep = 1 /\ HasAdaptivity THEN MaxAdaptivitySteps ELSE 1

\* The guess is cut to the longest step and to ratio times the actual
\* length, and raised to the actual length divided by ratio last.
NextLengths(actual) ==
    {n \in Lengths :
        /\ n <= actual * TimeStepRatio
        /\ n * TimeStepRatio >= actual
        /\ n > MaxTimeStepLength => (n - 1) * TimeStepRatio < actual}

\* A step is stored and becomes the start of the next one.  Without space
\* adaptivity the system is set up again on the same mesh; with it the mesh
\* is adapted and the history interpolated, unless the first step has
\* stopped changing.
AcceptTimeStep ==
    /\ pc = "step"
    /\ nextLength' \in IF EstimatesError THEN NextLengths(ActualLength) ELSE {nextLength}
    /\ timeStepLengths' = Append(timeStepLengths, ActualLength)
    /\ solutionID' = ID(target, timeStep, adaptiveStep)
    /\ primal' = solverTime
    /\ \E settled \in IF adaptiveStep > 0 THEN BOOLEAN ELSE {FALSE} :
          LET last == settled \/ adaptiveStep + 1 = MaxAdaptiveSteps
          IN  /\ calculationMesh' \in
                    IF HasAdaptivity /\ ~settled THEN Meshes ELSE {calculationMesh}
              /\ Store(ID(target, timeStep, adaptiveStep),
                       [mesh |-> calculationMesh, vector |-> solverTime],
                       ActualLength, IF last THEN "timeLoop" ELSE "step")
              /\ adaptiveStep' = IF last THEN 0 ELSE adaptiveStep + 1
              /\ timeStep' = IF last THEN timeStep + 1 ELSE timeStep
    /\ UNCHANGED <<problem, abort, target, solutions, stepLengths, solverTime,
                   rereadStep>>

\* mutated form: a refused step is not shortened
NotShortened(actual) == NextLengths(actual)

\* the guess of a refused step is shorter than the step
RefusedLengths(actual) == {n \in NextLengths(actual) : n < actual}

MayRefuse ==
    /\ pc = "step"
    /\ EstimatesError
    /\ ActualLength > 1
    /\ nextLength' \in RefusedLengths(ActualLength)

\* mutated form of RestartTransient: the solution of the first step stays
RestartKeepingSolution ==
    /\ MayRefuse
    /\ timeStep = 2
    /\ pc' = "timeLoop"
    /\ timeStepLengths' = SubSeq(timeStepLengths, 1, TimeLastStep)
    /\ solverTime' = 0
    /\ timeStep' = 1
    /\ solutions' = <<>>
    /\ stepLengths' = <<>>
    /\ primal' = 0
    /\ UNCHANGED <<storeVars, problem, calculationMesh, abort, target, solutionID,
                   loopVars>>

\* "initial step should be wrong": the second step was refused, so the
\* first one is taken back, too.
RestartTransient ==
    /\ MayRefuse
    /\ timeStep = 2
    /\ IF Contains(solutionID)
       THEN RemoveSolution(solutionID) /\ pc' = "timeLoop"
       ELSE Crash /\ UNCHANGED storeVars
    /\ timeStepLengths' = SubSeq(timeStepLengths, 1, TimeLastStep)
    /\ solverTime' = 0
    /\ timeStep' = 1
    /\ solutions' = <<>>
    /\ stepLengths' = <<>>
    /\ primal' = 0
    /\ UNCHANGED <<problem, calculationMesh, abort, target, solutionID, loopVars>>

\* Erasing the end of the std::vector drops its last element in libstdc++;
\* the element in front of it becomes the start of the next step.
RefuseTimeStep ==
    /\ MayRefuse
    /\ timeStep # 2
    /\ solverTime' = solverTime - ActualLength
    /\ stepLengths' = SubSeq(stepLengths, 1, Len(stepLengths) - 1)
    /\ solutions' = SubSeq(solutions, 1, Len(solutions) - 1)
    /\ primal' = IF solutions' = <<>> THEN 0 ELSE solutions'[Len(solutions')]
    /\ pc' = "timeLoop"
    /\ UNCHANGED <<storeVars, computationVars, target, timeStep, solutionID,
                   loopVars>>

\* the last adaptivity step of every time step is read again, if there is one
RereadStep ==
    /\ pc = "reread"
    /\ rereadStep <= TimeLastStep
    /\ LET id == ID(target, rereadStep, LastAdaptiveStep(target, rereadStep))
       IN  IF Contains(id) THEN MultiArray(id) ELSE UNCHANGED storeVars
    /\ rereadStep' = rereadStep + 1
    /\ UNCHANGED <<computationVars, pc, target, stepVars, adaptiveStep>>

EndTransient ==
    /\ pc = "reread"
    /\ rereadStep > TimeLastStep
    /\ rereadStep' = 0
    /\ pc' = "nextField"
    /\ UNCHANGED <<storeVars, computationVars, target, stepVars, adaptiveStep>>

SolveField ==
    \/ SolveSteady
    \/ SteadyAdaptiveStep
    \/ SteadyAborted
    \/ StoreInitialCondition
    \/ BeginTimeStep
    \/ EndTimeLoop
    \/ AcceptTimeStep
    \/ RestartTransient
    \/ RefuseTimeStep
    \/ RereadStep
    \/ EndTransient
=============================================================================
