--------------------------- MODULE ProblemSolver ---------------------------
(***************************************************************************)
(* ProblemSolver solves the fields of a computation one after the other,   *)
(* after it has sorted them so that the source of a weak coupling comes    *)
(* before its target.  A target gets the newest solution of each source    *)
(* from the store.  The user may abort at any time; the flag is read by    *)
(* the loops of SolverDeal only.                                           *)
(*                                                                         *)
(* Source: ProblemSolver::solveProblem in                                  *)
(* agros-library/solver/solver_utils.cpp, from the state that              *)
(* Computation::solve has made with clearSolution and solveInit.           *)
(***************************************************************************)
EXTENDS SolverDeal, BDFTable, Functions

CONSTANT PluginCouplings    \* plugin()->couplings() of each field

\* The fields are the keys of a map; ID(f, 0, 0) is an identifier of the
\* instance.
ASSUME ProblemsAssumption ==
    \A p \in Problems :
        LET fields == Range(p.fields)
        IN  /\ p.fields \in Seq(fields)
            /\ IsInjective(p.fields)
            /\ None \notin fields
            /\ p.weakCouplings \in Seq([source : fields, target : fields])
            /\ \A f \in fields : /\ p.analysis[f] \in {"steady", "transient"}
                                 /\ p.adaptivitySteps[f] \in Nat
                                 /\ ID(f, 0, 0) \in SolutionIDs
            /\ p.timeOrder \in 1..3
            /\ p.constantTimeStep \in Lengths

VARIABLES
    order,      \* fieldInfosSorted
    turn,       \* how many of them have been taken
    looked,     \* how many the loop that looks for sources has passed
    held        \* m_couplingSources of each SolverDeal

vars == <<storeVars, computationVars, pc, target, stepVars, loopVars,
          order, turn, looked, held>>
problemVars == <<order, turn, looked, held>>

NoFields == [f \in {} |-> None]

Init ==
    /\ StoreInit
    /\ SolverInit
    /\ pc = "sort"
    /\ order = problem.fields
    /\ turn = 0
    /\ looked = 0
    /\ held = [f \in Range(problem.fields) |-> NoFields]

-----------------------------------------------------------------------------
IndexOf(f, fields) == CHOOSE i \in DOMAIN fields : fields[i] = f

\* QList::move(i, 0)
MoveToFront(f, fields) ==
    [j \in DOMAIN fields |-> IF j = 1 THEN f
                            ELSE IF j <= IndexOf(f, fields) THEN fields[j - 1]
                            ELSE fields[j]]

\* mutated form of Visit: sources and targets are mixed up
VisitReversed(sorted, coupling) ==
    IF IndexOf(coupling.target, sorted.fields) > IndexOf(coupling.source, sorted.fields)
    THEN [fields |-> MoveToFront(coupling.target, sorted.fields), swapped |-> TRUE]
    ELSE sorted

\* mutated form of Visit: swapped is set for every coupling
VisitAlwaysSwapped(sorted, coupling) == [sorted EXCEPT !.swapped = TRUE]

\* The body of the loop over the couplings.
Visit(sorted, coupling) ==
    IF IndexOf(coupling.target, sorted.fields) < IndexOf(coupling.source, sorted.fields)
    THEN [fields |-> MoveToFront(coupling.source, sorted.fields), swapped |-> TRUE]
    ELSE sorted

Visited(fields, couplings) ==
    LET visited[n \in 0..Len(couplings)] ==
            IF n = 0 THEN [fields |-> fields, swapped |-> FALSE]
            ELSE Visit(visited[n - 1], couplings[n])
    IN  visited[Len(couplings)]

\* One round of do ... while (swapped); only weak couplings are looked at.
SortFields ==
    /\ pc = "sort"
    /\ LET sorted == Visited(order, problem.weakCouplings)
       IN  /\ order' = sorted.fields
           /\ pc' = IF sorted.swapped THEN "sort" ELSE "nextField"
    /\ UNCHANGED <<storeVars, computationVars, target, stepVars, loopVars,
                   turn, looked, held>>

NextField ==
    /\ pc = "nextField"
    /\ turn < Len(order)
    /\ turn' = turn + 1
    /\ target' = order[turn']
    /\ looked' = 0
    /\ pc' = "sources"
    /\ UNCHANGED <<storeVars, computationVars, stepVars, loopVars, order, held>>

\* couplings.contains(sourceFieldId), for all fields that are sorted: the
\* coupling type is not asked for
SourcesLeft ==
    {i \in DOMAIN order : i > looked /\ order[i] \in PluginCouplings[target]}

\* mutated form of NewestSolution: the first time step
FirstSolution(f) == ID(f, 0, LastAdaptiveStep(f, 0))

NewestSolution(f) == ID(f, LastTimeStep(f), LastAdaptiveStep(f, LastTimeStep(f)))

\* setCouplingSource keeps a copy of the MultiArray, that is of pointers to
\* the dof handler and the vector in the cache.
SetCouplingSource ==
    /\ pc = "sources"
    /\ \E i \in SourcesLeft :
          LET id == NewestSolution(order[i])
          IN  /\ \A j \in SourcesLeft : i <= j
              /\ looked' = i
              /\ IF Contains(id)
                 THEN /\ MultiArray(id)
                      /\ held' = [held EXCEPT ![target] =
                             [f \in DOMAIN @ \cup {id.field} |->
                                 IF f = id.field THEN id ELSE @[f]]]
                      /\ UNCHANGED pc
                 ELSE Crash /\ UNCHANGED <<storeVars, held>>
    /\ UNCHANGED <<computationVars, target, stepVars, loopVars, order, turn>>

SourcesAreSet ==
    /\ pc = "sources"
    /\ SourcesLeft = {}
    /\ pc' = "solve"
    /\ UNCHANGED <<storeVars, computationVars, target, stepVars, loopVars, problemVars>>

EndProblem ==
    /\ pc = "nextField"
    /\ turn = Len(order)
    /\ pc' = "done"
    /\ UNCHANGED <<storeVars, computationVars, target, stepVars, loopVars, problemVars>>

SolverThread ==
    \/ SortFields
    \/ NextField
    \/ SetCouplingSource
    \/ SourcesAreSet
    \/ SolveField /\ UNCHANGED problemVars
    \/ EndProblem

\* Computation::abortSolving, called by the thread of the user interface
AbortSolving ==
    /\ problem.mayAbort
    /\ ~abort
    /\ pc \notin {"done", "crashed"}
    /\ abort' = TRUE
    /\ UNCHANGED <<storeVars, problem, timeStepLengths, calculationMesh, pc,
                   target, stepVars, loopVars, problemVars>>

Ended == pc \in {"done", "crashed"} /\ UNCHANGED vars

Next == SolverThread \/ AbortSolving \/ Ended

\* The solving thread runs until solveProblem returns; nobody has to abort.
Spec == Init /\ [][Next]_vars /\ WF_vars(SolverThread)

-----------------------------------------------------------------------------
Fields == Range(problem.fields)
InTransient(places) == target \in Fields /\ ~Steady /\ pc \in places

TypeOK ==
    /\ problem \in Problems
    /\ timeStepLengths \in Seq(Lengths \cup {0})
    /\ calculationMesh \in Meshes
    /\ abort \in BOOLEAN
    /\ pc \in {"sort", "nextField", "sources", "solve", "timeLoop", "step",
              "reread", "done", "crashed"}
    /\ target \in Fields \cup {None}
    /\ adaptiveStep \in Nat
    /\ primal \in Vectors
    /\ solutions \in Seq(Vectors)
    /\ stepLengths \in Seq(Lengths)
    /\ solverTime \in 0..TimeTotal
    /\ timeStep \in Nat \ {0}
    /\ nextLength \in Lengths
    /\ solutionID \in SolutionIDs \cup {None}
    /\ rereadStep \in Nat
    /\ order \in Seq(Fields) /\ Range(order) = Fields /\ IsInjective(order)
    /\ turn \in 0..Len(order)
    /\ looked \in 0..Len(order)
    /\ DOMAIN held = Fields
    /\ \A f \in Fields : \A g \in DOMAIN held[f] : held[f][g] \in SolutionIDs

(***************************************************************************)
(* No assert of the solver or of the store fails while a problem is        *)
(* solved: addSolution gets identifiers that are neither stored nor left   *)
(* half removed, with the previous time step still in the cache; multiArray *)
(* and removeSolution get identifiers that are stored; the one transient   *)
(* field starts at time step 0.                                            *)
(***************************************************************************)
AssertsHold == pc # "crashed"

(***************************************************************************)
(* The MultiArray copies that a solver holds point into the cache.  They   *)
(* stay valid while the target is solved, although every solution it       *)
(* stores or reads again may flush the cache.                              *)
(***************************************************************************)
HeldSourcesStayCached ==
    target \in Fields /\ pc \in {"sources", "solve", "timeLoop", "step", "reread"} =>
        \A f \in DOMAIN held[target] : held[target][f] \in Cached

(***************************************************************************)
(* A target was given the last solution its sources have at the end: no    *)
(* source is solved, or goes on being solved, after its target.            *)
(***************************************************************************)
CouplingsUseFinalSolutions ==
    pc = "done" =>
        \A f \in Fields :
            /\ DOMAIN held[f] = PluginCouplings[f] \cap Fields
            /\ \A g \in DOMAIN held[f] : \A id \in Indexed :
                  id.field = g => /\ id.timeStep <= held[f][g].timeStep
                                  /\ id.timeStep = held[f][g].timeStep =>
                                        id.adaptivityStep <= held[f][g].adaptivityStep

(***************************************************************************)
(* Between two steps the store holds one solution for each step length,    *)
(* with that length in its details and computed for the time it sums to.   *)
(***************************************************************************)
StoredStepsMatchLengths ==
    InTransient({"timeLoop", "reread"}) =>
        \A id \in {i \in SolutionIDs : i.field = target} :
            IF id.timeStep <= TimeLastStep /\ id.adaptivityStep = 0
            THEN /\ Contains(id)
                 /\ runTimeDetails[id] = timeStepLengths[id.timeStep + 1]
                 /\ dataFiles[id].vector =
                        SumOf(SubSeq(timeStepLengths, 1, id.timeStep + 1))
            ELSE ~Contains(id)

(***************************************************************************)
(* The formula a step is computed with, and the lower one that estimates   *)
(* its error, differentiate the polynomial through the last accepted times *)
(* and the one being tried: the lengths the table is given are those of    *)
(* the steps that were taken, also behind refused ones and at the end time.*)
(***************************************************************************)
FormulaIsExact ==
    LET taken == Append(timeStepLengths, ActualLength)
        age(i) == SumOf(SubSeq(taken, Len(taken) - i + 1, Len(taken)))
        exact(n) == /\ HasFormula(n, stepLengths)
                    /\ IsDerivative(Coefficients(n, stepLengths),
                                        [i \in 1..n |-> age(i)])
    IN  InTransient({"step"}) =>
            /\ Len(stepLengths) = Len(solutions)
            /\ Order < Len(taken)
            /\ exact(Order)
            /\ EstimatesError => exact(Order - 1)

(***************************************************************************)
(* The solutions given to the BDF formula are the last accepted ones.      *)
(***************************************************************************)
HistoryIsAccepted ==
    InTransient({"step"}) =>
        \A i \in 1..Len(solutions) :
            LET id == ID(target, TimeLastStep - Len(solutions) + i, 0)
            IN  Contains(id) /\ solutions[i] = dataFiles[id].vector

(***************************************************************************)
(* A transient field that was not aborted ends exactly at the total time.  *)
(***************************************************************************)
EndsAtTotalTime ==
    pc = "done" /\ ~abort =>
        \A f \in Fields : problem.analysis[f] = "transient" =>
            /\ SumOf(timeStepLengths) = TimeTotal
            /\ dataFiles[NewestSolution(f)].vector = TimeTotal

(***************************************************************************)
(* Solving ends: the fields can be sorted, refused steps get shorter, and  *)
(* every loop goes on.                                                     *)
(***************************************************************************)
SolvingEnds == <>(pc \in {"done", "crashed"})
=============================================================================
