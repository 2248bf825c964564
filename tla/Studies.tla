------------------------------ MODULE Studies ------------------------------
(***************************************************************************)
(* OptiLab: studies that make, solve and rate computations with varied     *)
(* parameters (study.cpp, study_sweep.cpp, study_nlopt.cpp,                *)
(* study_bayesopt.cpp, study_pagmo2.cpp, study_model.cpp, study_dialog.cpp *)
(* and optilab_study.cpp).                                                 *)
(*                                                                         *)
(* A study runs on the thread of the user interface.  The optimizer, a     *)
(* library, calls the study back for every point it wants evaluated; after *)
(* an evaluation the dialog processes events, and only there can the user  *)
(* abort.  The studies keep the computations in sets, in memory by         *)
(* pointer and in the file by the name of their directory.                 *)
(***************************************************************************)
EXTENDS Integers, Sequences, SequencesExt, FiniteSets

CONSTANTS
    Kinds,            \* "sweep", "nlopt", "bayesopt", "pagmo", "model"
    Goals,            \* results of the goal functions that could be evaluated
    Clears,           \* values of Study::General_ClearSolution
    Evaluations,      \* points the optimizer asks for in one phase
    MaxStudies,       \* bound: studies of the problem
    MaxPagmo,         \* bound: pagmo studies that exist at a time
    MaxComputations,  \* bound: computations made
    MaxRuns,          \* bound: studies solved
    MaxFiles          \* bound: times the problem is saved, and is loaded

ASSUME EvaluationsAssumption == Evaluations \in Nat \ {0}

\* A goal function whose expression cannot be evaluated leaves no result:
\* which goals a computation has results of differs from one to the next.
ASSUME GoalsAssumption ==
    \A l \in Goals : \A g \in DOMAIN l : l[g] \in Int

VARIABLES
    computations,     \* every computation made: results, evaluated, solution
    registry,         \* Agros::computations()
    studies,          \* Studies::m_studies
    localStudy,       \* the static pointer of study_pagmo2.cpp: index or Null
    run,              \* the study being solved: step, point, phase
    runs,             \* studies solved so far
    file,             \* what was saved last: studies and registry
    files             \* how often it was saved and loaded

vars == <<computations, registry, studies, localStudy, run, runs, file, files>>

Null == 0
NoRun == [study |-> Null, pc |-> "idle", comp |-> Null, left |-> 0,
          phase |-> 1, told |-> FALSE, late |-> FALSE]
NoFile == [studies |-> <<>>, registry |-> {}, saved |-> FALSE]
Created == 1 .. Len(computations)

Study(kind, clears, sets) ==
    [kind |-> kind, clears |-> clears, sets |-> sets, isSolving |-> FALSE,
     abort |-> FALSE]

\* the computations of the sets, in their order
Listed(sets) == FlattenSeq(sets)

\* the members of a list that are wanted, in their order
Kept(list, wanted) ==
    LET kept[n \in 0 .. Len(list)] ==
            IF n = 0 THEN <<>>
            ELSE IF list[n] \in wanted THEN Append(kept[n - 1], list[n])
            ELSE kept[n - 1]
    IN  kept[Len(list)]

----------------------------------------------------------------------------
\* Study::dominateComputations, nondominatedSort and findExtreme

\* ComputationResults::value of the results l, 0 for a goal without one
Value(l, g) == IF g \in DOMAIN l THEN l[g] ELSE 0

\* only the goals that l has results of are compared
dominateComputations(l, r) ==
    /\ \A g \in DOMAIN l : l[g] <= Value(r, g)
    /\ \E g \in DOMAIN l : l[g] < Value(r, g)

\* Mutant: the members it dominates stay
FrontKeepsDominated(front, c) ==
    IF \E i \in DOMAIN front : dominateComputations(computations[front[i]].goals,
                                                    computations[c].goals)
    THEN front ELSE Append(front, c)

\* one computation against the front: it takes out those it dominates until
\* one is found that dominates it
FrontWith(front, c) ==
    LET goals(x) == computations[x].goals
        beats(x) == dominateComputations(goals(x), goals(c))
        first == {i \in DOMAIN front : beats(front[i])}
        checked == IF first = {} THEN Len(front)
                   ELSE (CHOOSE i \in first : \A j \in first : i <= j) - 1
        kept == Kept(SubSeq(front, 1, checked),
                     {x \in Range(front) : ~dominateComputations(goals(c), goals(x))})
                \o SubSeq(front, checked + 1, Len(front))
    IN  IF first = {} THEN Append(kept, c) ELSE kept

\* the front, once every computation was compared with it
FrontAfter(start, all) ==
    LET after[n \in 0 .. Len(all)] ==
            IF n = 0 THEN start ELSE FrontWith(after[n - 1], all[n])
    IN  after[Len(all)]

\* the sort goes over all of them again until the fronts add up
nondominatedSort(all) ==
    LET pass[n \in 0 .. Len(all)] ==
            IF n = 0 THEN [front |-> <<>>, assigned |-> 0]
            ELSE LET last == pass[n - 1]
                     front == FrontAfter(last.front, all)
                 IN  [front |-> front, assigned |-> last.assigned + Len(front)]
        enough == CHOOSE n \in 0 .. Len(all) :
                     /\ pass[n].assigned >= Len(all)
                     /\ \A m \in 0 .. n - 1 : pass[m].assigned < Len(all)
    IN  pass[enough].front

\* the first computation with the smallest value of goal g
findMinimum(all, g) ==
    LET best[n \in 0 .. Len(all)] ==
            IF n = 0 THEN Null
            ELSE LET last == best[n - 1]
                     value(c) == Value(computations[c].goals, g)
                 IN  IF last = Null \/ value(all[n]) < value(last) THEN all[n] ELSE last
    IN  best[Len(all)]

----------------------------------------------------------------------------
Init ==
    /\ computations = <<>>
    /\ registry = {}
    /\ studies = <<>>
    /\ localStudy = Null
    /\ run = NoRun
    /\ runs = 0
    /\ file = NoFile
    /\ files = 0

Pagmos(list) == {i \in DOMAIN list : list[i].kind = "pagmo"}

\* Study::factory for every study of a file: the last pagmo study made
LastPagmo(list) ==
    IF Pagmos(list) = {} THEN Null
    ELSE CHOOSE i \in Pagmos(list) : \A j \in Pagmos(list) : j <= i

\* OptiLabStudy::doNewStudy, accepted: the constructor of a pagmo study makes
\* it the local one (bound: only while another run may be started)
NewStudy(kind, clears) ==
    /\ run.pc = "idle"
    /\ runs < MaxRuns
    /\ Len(studies) < MaxStudies
    /\ kind = "pagmo" => Cardinality(Pagmos(studies)) < MaxPagmo
    /\ studies' = Append(studies, Study(kind, clears, <<>>))
    /\ localStudy' = IF kind = "pagmo" THEN Len(studies') ELSE localStudy
    /\ UNCHANGED <<computations, registry, run, runs, file, files>>

\* Study::solve
Reset(study) == [study EXCEPT !.sets = <<>>, !.abort = FALSE]

\* how many computations the study may make
Budget(kind) ==
    IF kind = "model" THEN 1 ELSE IF kind = "bayesopt" THEN 2 * Evaluations ELSE Evaluations

\* OptiLabStudy::doItemSolve up to the first point: the modal dialog is shown,
\* the sets are cleared, and all but pagmo start with an empty set
Solve(s) ==
    /\ run.pc = "idle"
    /\ runs < MaxRuns
    /\ s \in DOMAIN studies
    /\ Len(computations) + Budget(studies[s].kind) <= MaxComputations
    /\ LET sets == IF studies[s].kind = "pagmo" THEN <<>> ELSE << <<>> >>
       IN  studies' = [studies EXCEPT
               ![s] = [Reset(@) EXCEPT !.isSolving = TRUE,
                           !.sets = (Reset(studies[s]).sets) \o sets]]
    /\ run' = [NoRun EXCEPT !.study = s, !.pc = "ask",
                            !.left = IF studies[s].kind = "model" THEN 1 ELSE Evaluations]
    /\ runs' = runs + 1
    /\ UNCHANGED <<computations, registry, localStudy, file, files>>

\* the study whose parameters, flags and sets an evaluation uses
Evaluated == IF studies[run.study].kind = "pagmo" THEN localStudy ELSE run.study

InitialSample == studies[run.study].kind = "bayesopt" /\ run.phase = 1

\* Mutant: nobody asks before an evaluation
AsksNobody == FALSE

\* who looks at m_abort before a computation is made: not the model, and not
\* the initial samples of bayesopt
Asks == studies[run.study].kind # "model" /\ ~InitialSample

\* Mutant: a refused point is asked for again
RefuseAgain ==
    /\ run.pc = "ask"
    /\ run.left > 0
    /\ Asks
    /\ studies[Evaluated].abort
    /\ UNCHANGED vars

\* an evaluation is refused after an abort: NLopt is told to stop and the
\* steps of bayesopt end, the others go on with the next point
Refuse ==
    /\ run.pc = "ask"
    /\ run.left > 0
    /\ Asks
    /\ studies[Evaluated].abort
    /\ run' = [run EXCEPT !.left = IF studies[run.study].kind \in {"nlopt", "bayesopt"}
                                   THEN 0 ELSE @ - 1]
    /\ UNCHANGED <<computations, registry, studies, localStudy, runs, file, files>>

\* Problem::createComputation(true) for the next point
Evaluate ==
    /\ run.pc = "ask"
    /\ run.left > 0
    /\ Asks => ~studies[Evaluated].abort
    /\ computations' = Append(computations,
                              [goals |-> <<>>, evaluated |-> FALSE, isSolved |-> FALSE])
    /\ registry' = registry \union {Len(computations')}
    /\ run' = [run EXCEPT !.pc = "solve", !.comp = Len(computations'),
                          !.late = run.told /\ ~InitialSample]
    /\ UNCHANGED <<studies, localStudy, runs, file, files>>

\* Study::evaluateStep with General_SolveProblem set: solved, the goal functions
\* are evaluated, and nobody looks at whether all of them could be
Solved(goals) ==
    /\ run.pc = "solve"
    /\ computations' = [computations EXCEPT
            ![run.comp] = [goals |-> goals, evaluated |-> TRUE, isSolved |-> TRUE]]
    /\ run' = [run EXCEPT !.pc = "events"]
    /\ UNCHANGED <<registry, studies, localStudy, runs, file, files>>

\* evaluateStep throws; the point is rated and forgotten, but a model study
\* catches another type of exception, which leaves it flagged
NotSolved ==
    /\ run.pc = "solve"
    /\ run' = [run EXCEPT !.pc = IF studies[run.study].kind = "model"
                                 THEN "escaped" ELSE "ask",
                          !.left = @ - 1]
    /\ UNCHANGED <<computations, registry, studies, localStudy, runs, file, files>>

\* StudySolverDialog::aborted and reject, while its callback processes events
Abort ==
    /\ run.pc = "events"
    /\ studies[run.study].isSolving
    /\ ~studies[run.study].abort
    /\ studies' = [studies EXCEPT ![run.study].abort = TRUE]
    /\ run' = [run EXCEPT !.told = TRUE]
    /\ UNCHANGED <<computations, registry, localStudy, runs, file, files>>

\* Study::addComputation
addComputation(sets, c) ==
    IF sets = <<>> THEN << <<c>> >>
    ELSE [sets EXCEPT ![Len(sets)] = Append(@, c)]

\* The evaluation returns.  NLopt and pagmo look at m_abort once more, and
\* neither clear nor add the computation after an abort.
Add ==
    /\ run.pc = "events"
    /\ LET e == Evaluated
           dropped == studies[run.study].kind \in {"nlopt", "pagmo"} /\ studies[e].abort
       IN  IF dropped
           THEN UNCHANGED <<computations, studies>>
           ELSE /\ computations' = [computations EXCEPT
                       ![run.comp].isSolved = ~studies[e].clears]
                /\ studies' = [studies EXCEPT ![e].sets = addComputation(@, run.comp)]
    /\ run' = [run EXCEPT !.pc = "ask", !.left = @ - 1]
    /\ UNCHANGED <<registry, localStudy, runs, file, files>>

\* Mutant: the steps are counted with the initial samples
NextPhaseCountsAll ==
    /\ run.pc = "ask"
    /\ run.left = 0
    /\ studies[run.study].kind = "bayesopt"
    /\ run.phase = 1
    /\ studies' = [studies EXCEPT ![run.study].sets = Append(@, <<>>)]
    /\ run' = [run EXCEPT !.phase = 2, !.left = 2 * Evaluations]
    /\ UNCHANGED <<computations, registry, localStudy, runs, file, files>>

\* the initial samples of bayesopt are done, its steps follow
NextPhase ==
    /\ run.pc = "ask"
    /\ run.left = 0
    /\ studies[run.study].kind = "bayesopt"
    /\ run.phase = 1
    /\ studies' = [studies EXCEPT ![run.study].sets = Append(@, <<>>)]
    /\ run' = [run EXCEPT !.phase = 2, !.left = Evaluations]
    /\ UNCHANGED <<computations, registry, localStudy, runs, file, files>>

NotEmpty(sets) == Kept(sets, Range(sets) \ {<<>>})

\* The optimizer has returned: the flags are reset, pagmo's abort excepted,
\* whose last evaluations count as a success; sets left empty are removed but
\* by NLopt and bayesopt.  doItemSolve closes the dialog.
Finish ==
    /\ run.pc = "ask"
    /\ run.left = 0
    /\ studies[run.study].kind = "bayesopt" => run.phase = 2
    /\ LET kind == studies[run.study].kind
       IN  studies' = [studies EXCEPT
               ![run.study].isSolving = FALSE,
               ![run.study].abort = kind = "pagmo" /\ @,
               ![Evaluated].sets =
                   IF kind \in {"nlopt", "bayesopt"} THEN @ ELSE NotEmpty(@)]
    /\ run' = NoRun
    /\ UNCHANGED <<computations, registry, localStudy, runs, file, files>>

\* The library throws something of its own between two evaluations: pagmo
\* catches every exception and keeps its sets, NLopt nothing but its forced
\* stop, and the exception leaves the slot with the study flagged.
Throw ==
    /\ run.pc = "ask"
    /\ studies[run.study].kind \in {"pagmo", "nlopt"}
    /\ IF studies[run.study].kind = "pagmo"
       THEN /\ studies' = [studies EXCEPT ![run.study].isSolving = FALSE]
            /\ run' = NoRun
       ELSE /\ run' = [run EXCEPT !.pc = "escaped"]
            /\ UNCHANGED studies
    /\ UNCHANGED <<computations, registry, localStudy, runs, file, files>>

----------------------------------------------------------------------------
\* Mutant: clearComputations leaves the studies alone
WithRegistered(sets) == sets

\* Study::removeComputation for each of the registered ones
WithoutRegistered(sets) ==
    IF registry = {} THEN sets
    ELSE NotEmpty([i \in DOMAIN sets |-> Kept(sets[i], Created \ registry)])

\* Agros::clearComputations, from "Delete solutions"
DeleteSolutions ==
    /\ run.pc = "idle"
    /\ registry # {}
    /\ registry' = {}
    /\ studies' = [s \in DOMAIN studies |->
                      [studies[s] EXCEPT !.sets = WithoutRegistered(@)]]
    /\ UNCHANGED <<computations, localStudy, run, runs, file, files>>

\* Studies::removeStudy
RemoveStudy(s) ==
    /\ run.pc = "idle"
    /\ s \in DOMAIN studies
    /\ studies' = RemoveAt(studies, s)
    /\ localStudy' = IF localStudy = s THEN Null
                     ELSE IF localStudy > s THEN localStudy - 1 ELSE localStudy
    /\ UNCHANGED <<computations, registry, run, runs, file, files>>

\* Problem::writeProblemToFile: Study::save writes the directories' names
\* (bound: only while the file may still be loaded)
Save ==
    /\ run.pc = "idle"
    /\ files + 1 < MaxFiles
    /\ file' = [studies |-> [s \in DOMAIN studies |->
                               Study(studies[s].kind, studies[s].clears, studies[s].sets)],
                registry |-> registry, saved |-> TRUE]
    /\ files' = files + 1
    /\ UNCHANGED <<computations, registry, studies, localStudy, run, runs>>

\* ComputationSet::load looks the names up in the registry, which
\* readProblemFromAgs has filled by then, and drops those it does not find
KnownComputations(sets) ==
    [i \in DOMAIN sets |-> Kept(sets[i], file.registry)]

\* Problem::readProblemFromAgs
Load ==
    /\ run.pc = "idle"
    /\ file.saved
    /\ files < MaxFiles
    /\ registry' = file.registry
    /\ studies' = [s \in DOMAIN file.studies |->
                      [file.studies[s] EXCEPT !.sets = KnownComputations(@)]]
    /\ localStudy' = LastPagmo(file.studies)
    /\ files' = files + 1
    /\ UNCHANGED <<computations, run, runs, file>>

----------------------------------------------------------------------------
StudyStep ==
    \/ Refuse
    \/ Evaluate
    \/ \E goals \in Goals : Solved(goals)
    \/ NotSolved
    \/ Add
    \/ NextPhase
    \/ Finish
    \/ Throw

Next ==
    \/ \E kind \in Kinds, clears \in Clears : NewStudy(kind, clears)
    \/ \E s \in DOMAIN studies : Solve(s) \/ RemoveStudy(s)
    \/ StudyStep
    \/ Abort
    \/ DeleteSolutions
    \/ Save
    \/ Load

\* The optimizer and the event loop return; the user need not do anything.
Fairness == WF_vars(StudyStep)

Spec == Init /\ [][Next]_vars /\ Fairness
----------------------------------------------------------------------------
TypeOK ==
    /\ \A c \in Created : computations[c] \in
          [goals : Goals \union {<<>>}, evaluated : BOOLEAN, isSolved : BOOLEAN]
    /\ registry \subseteq Created
    /\ \A s \in DOMAIN studies : studies[s] \in
          [kind : Kinds, clears : Clears, sets : Seq(Seq(Created)),
           isSolving : BOOLEAN, abort : BOOLEAN]
    /\ localStudy \in {Null} \union Pagmos(studies)
    /\ run.pc \in {"idle", "ask", "solve", "events", "escaped"}
    /\ run.study \in Nat /\ run.comp \in {Null} \union Created
    /\ run.left \in 0 .. Evaluations /\ run.phase \in 1 .. 2

\* A study lists only computations that the registry knows: they are saved by
\* name, and ComputationSet::load drops the names it cannot find ("TODO:
\* temporary fix (remove bad solution)").
ListedIsRegistered ==
    \A s \in DOMAIN studies : \A i \in DOMAIN studies[s].sets :
        Range(studies[s].sets[i]) \subseteq registry

\* A study lists only computations whose evaluation came to its end, none whose
\* solution failed, and each of them once.  That all the goal functions gave a
\* result is not certain: evaluateStep drops what evaluateGoalFunctions returns.
ListedIsEvaluated ==
    \A s \in DOMAIN studies :
        LET all == Listed(studies[s].sets)
        IN  /\ IsInjective(all)
            /\ \A i \in DOMAIN all : computations[all[i]].evaluated

\* No evaluation begins once the user has aborted, the initial samples of
\* bayesopt excepted, which are all solved: the evaluation that was going on
\* is the last.
NothingBegunAfterAbort == ~run.late

\* the computations of all that no other one dominates
ParetoFront(all) ==
    {c \in Range(all) : \A d \in Range(all) :
        ~dominateComputations(computations[d].goals, computations[c].goals)}

\* dominating is transitive, which it need not be where goals failed
Ordered(all) ==
    LET beats(c, d) == dominateComputations(computations[c].goals, computations[d].goals)
    IN  \A b, c, d \in Range(all) : beats(b, c) /\ beats(c, d) => beats(b, d)

\* all have results of the same goals
Comparable(all) ==
    \A c, d \in Range(all) : DOMAIN computations[c].goals = DOMAIN computations[d].goals

\* A study lists what was evaluated, once, and nondominatedSort, whatever the
\* order they came in, returns of it all that no other one dominates, and
\* nothing else where dominating is an order.  So it is when all have results
\* of the same goals; then the minimum of each goal is on or tied with a
\* member of the front.
FrontIsPareto ==
    /\ ListedIsEvaluated
    /\ \A s \in DOMAIN studies :
          LET all == Listed(studies[s].sets)
              front == Range(nondominatedSort(all))
              pareto == ParetoFront(all)
              value(c, g) == Value(computations[c].goals, g)
          IN  /\ pareto \subseteq front
              /\ front \subseteq Range(all)
              /\ Comparable(all) \/ Ordered(all) => front = pareto
              /\ Comparable(all) =>
                    \A m \in Range(all) : \A g \in DOMAIN computations[m].goals :
                        \E c \in front : value(c, g) = value(findMinimum(all, g), g)

\* A study that is solved comes to an end, by itself or by an exception that
\* leaves the slot; with the bounded budget of the optimizer an abort is not
\* needed.
StudyEnds == (run.pc = "ask") ~> (run.pc \in {"idle", "escaped"})
=============================================================================
