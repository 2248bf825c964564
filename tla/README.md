# Formal models of Agros

Agros solves coupled partial differential equations on two-dimensional
geometries: the user draws a scene, adds physical fields, assigns materials and
boundary conditions, and the program meshes the geometry, solves the fields one
after the other and keeps every solution for the post-processor. This directory
holds TLA+ models of the parts whose correctness depends on the order in which
things happen: what is stored, cached and read again, which step is repeated
from where, which field is solved first, which object still refers to which.
The numbers themselves (matrices, meshes, geometry) are choices of the models.

Paths below are relative to `src/`; `LIB` is `agros-library`.

## 1. Inventory

| component | state | operations | hard behaviour | what makes it correct |
|---|---|---|---|---|
| **solution store** `LIB/solver/solutionstore.cpp` | list of identifiers, details of each solution, cache of `MultiArray`s and its order, `.msh`, `.dof`, `.sol` files, `runtime.json` | `addSolution`, `replaceSolution`, `removeSolution`, `multiArray`, `clear`, `loadRunTimeDetails` | five pieces of state change one after the other; the cache is flushed by whoever inserts; the mesh file of the previous step is copied | readers see a map; flushing never loses anything; every archive can be opened; the cache is bounded |
| **field solver** `LIB/solver/solver.cpp` (`SolverDeal`) | time, history of solutions and step lengths, adaptivity step, the time axis of the computation | `solveSteadyState`, `solveTransient` | steps are refused, the first one is restarted, the last one is cut; adaptivity repeats the first one; abort at any time | time axis, stored steps and the lengths given to the formula agree; the loop ends, at the total time |
| **problem solver** `LIB/solver/solver_utils.cpp` (`ProblemSolver`) | order of fields, sources each solver holds | `solveProblem` | sorting until nothing moves; raw pointers into the cache of the store | a target works on the final solutions of its sources, and they stay valid |
| **nonlinear solver** `LIB/solver/solver_nonlinear.cpp` | iteration, damping factor, residuals, age of the Jacobian | Picard's and Newton's methods | damping, line search, reused Jacobians and steps taken back interact; abort is read in one place | the residual that is judged is that of the iterate; the factor stays in range; iterations end |
| **problem document** `LIB/solver/problem.cpp`, `LIB/scene*.cpp`, `LIB/solver/coupling.cpp` | fields, couplings, labels and faces with one marker per field, none markers, materials and boundaries, polynomial orders per label, recipes | add and remove fields, materials, labels; couplings; copy to a computation; save and open | pointers in memory, positions and names in files, copies and undo commands | nothing refers to what was deleted; a copy and a file say what the problem says |
| **undo stack** `agros-gui/app/scenegeometrydialog.cpp` | commands done and undone | push, undo, redo | commands find nodes, faces and labels by point and markers by name, and outlive the document; some edits push none | undoing and redoing walks through the scenes the user saw |
| **computation** `LIB/solver/problem.cpp` (`Computation`) | flags `m_isSolving`, `m_isMeshing`, `m_abort`, `m_isPostprocessingRunning`; mesh; store; post-processor | `solve`, `mesh`, `abortSolving`, `clearSolution`, `createComputation` | a solving thread, the thread of the user interface, exceptions | flags are reset on every path; an abort is not lost; nothing is cleared while it is used |
| **post-processor** `PostDeal` in `LIB/solver/problem.cpp` | field, step and variable shown, cached values | `refresh`, `processSolved`, `setActiveViewField` | the field shown may have been deleted | what is shown exists |
| **studies** `LIB/optilab/study*.cpp` | sets of computations, flags | `solve` of five kinds, `evaluateStep`, `addComputation`, `nondominatedSort`, `abortSolving` | callbacks of libraries, failed evaluations, abort in the event loop | a failed or aborted evaluation leaves no trace; the front is the front |
| **scene geometry** `LIB/scene.cpp`, `sceneedge.cpp`, `scenenode.cpp` | nodes, edges, crossings | `addNode`, `addFace`, removal, moves, checks | edges refer to nodes by pointer and are looked up by coordinates; real arithmetic | no edge of a removed node, no two nodes at one point |
| **BDF coefficients** `LIB/solver/bdf2.cpp` | table of coefficients | `setOrderAndPreviousSteps` | ratios of lengths that were refused, cut or restarted | the formula is exact for polynomials of its order |
| recipes and results `LIB/solver/problem_result.cpp` | recipes of the problem, results of a computation | `evaluate` | labels by position | the label meant is the label integrated |
| **mesh generator** `LIB/mesh/meshgenerator_triangle.cpp`, `meshgenerator.cpp` | lists of nodes, edges and elements | `writeToTriangle`, `readTriangleMeshFormat`, `fillNeighborStructures`, `writeTodealii` | markers travel through five numberings: faces, segments, halves of edges, elements, cells | every face of a cell has the marker of the scene's face it lies on |
| estimators, weak forms, linear solvers, particle tracing, values and tables, expression parser | none or local | numerical kernels | arithmetic | numerical accuracy |
| configuration, parameters, functions | key-value data | get, set, load, save | formulas that depend on parameters | |
| **application singleton** `LIB/util/global.cpp` | the problem, the computations, the log | `addComputation`, `clearComputations` | computations are shared with the problem, studies, threads, dialogs, views | what is listed is there |
| user interface, Python interface | views | menus, dialogs, scripts | the same operations by two ways that check different things | |
| module generator, vendored libraries | – | build time | – | |

How they interact. A script (`agros-python/pythonlab`) or a dialog
(`agros-gui`) edits the **problem**. `createComputation` copies it to a
**computation**. `Computation::solve`, in a thread of its own when the user
interface calls it, empties the **store**, meshes, and runs the **problem
solver**, which makes one **field solver** per field, hands it the solutions of
its sources from the store, and lets it store its own; the field solver calls the
**nonlinear solver** for every system. `abortSolving` only sets a flag. The
post-processor and scripts read the store; saving compresses its directory, and
opening makes a new store from the files. **Studies** make computations in a loop.

`PROJECT.json` lists every component with its status, and every hazard with the
line where it bites and the properties that watch it.

## 2. Modules

```
SolutionMap                    a map that can be saved and opened      (abstract)
    ^ refinement
SolutionStore  ---- SolutionArchive ---- SolutionArchiveProofs
    ^ EXTENDS             ^ MCSolutionArchive
SolverDeal ---- ProblemSolver ---- MCProblemSolver
                    | EXTENDS ^ ProblemSolverProofs (also of BDFTable)
                BDFTable
NonlinearSolver ---- NonlinearSolverProofs, MCNonlinearSolver
ProblemDocument ---- ProblemDocumentProofs, MCProblemDocument
SceneGeometry   ---- MCSceneGeometry
      |                   | EXTENDS
      |              MCTriangleMesh ---- TriangleMesh
SceneGeometryProofs (also of TriangleMesh)
SolveSession    ---- SolveSessionProofs, MCSolveSession
Studies         ---- StudiesProofs, MCStudies
                          | EXTENDS
                     FiniteInduction (also under ProblemSolverProofs, ProblemDocumentProofs, SceneGeometryProofs)
```

**SolutionStore** (`solutionstore.cpp`). One variable per member of the class
and per kind of file: `multiSolutions` (`m_multiSolutions`), `runTimeDetails`,
`dealCache`, `cacheIDOrder`, `meshFiles`, `dataFiles` (the `.dof` and `.sol`
files, which are always written together), `runtimeJson`. The two `QList`s are
kept as numbers of occurrences, because the code only appends, removes one
occurrence, tests, and walks over all. Each method is an operator:
`AddSolution`, `ReplaceSolution`, `RemoveSolution`, `MultiArray`, `ClearStore`,
with `InsertToCache` and `SaveRunTimeDetails` as the parts they share. What the
asserts of a method ask of its caller is an operator too (`MayAdd`), and callers
that break it crash.

**SolutionArchive** puts the store between its clients: a solver adds under a new
identifier, a script replaces a vector, a refused step takes one back, anybody
reads, the user clears, saves (with or without solutions) and opens. The variable
`archive` is the `.ags` file.

**SolutionMap** is the promise: a map with `Add`, `Replace`, `Remove`,
`RemoveAll`, `Save`, `Open`. `StoreIsAMap` is the refinement; `Stored` maps the
store to what a reader gets, from the cache or from the files.

**SolverDeal** (`solver.cpp`) extends the store. `pc` is the place in the code;
one action per step: `SolveSteady`, `SteadyAdaptiveStep`, `StoreInitialCondition`,
`BeginTimeStep`, `AcceptTimeStep`, `RefuseTimeStep`, `RestartTransient`,
`RereadStep`. Time is counted in units; a vector of a transient field stands for
the time it was computed for, so that a history that mixes up steps shows. A
mesh is a member of `Meshes`; the error estimate is a choice between refusing and
accepting, and the next length is any length the formula of the code allows.
Erasing the end of a `std::vector`, which is undefined, is modelled by what
libstdc++ does: the last element goes.

**ProblemSolver** (`solver_utils.cpp`) sorts the fields (`SortFields` is one
round of `do ... while (swapped)`), takes one after the other, collects the
sources (`SetCouplingSource`, one at a time; `looked` is the place of the inner loop) and
runs SolverDeal. `Visited` is the loop over the couplings, as a recursive function. `AbortSolving` belongs to the
thread of the user interface and may interleave anywhere. A failing assert, or
the null dof handler behind a flushed cache entry, is the place `crashed`.

**NonlinearSolver** (`solver_nonlinear.cpp`). One action per stage of the loops:
`PicardIteration`; `BeginNewtonIteration`, `ReuseJacobian`, `FullNewtonStep`,
`LineSearch`, `EndLineSearch`, `StopCriteria`. Damping factors are integers in
units (halving and multiplying by 3/2 round down); a residual is any member of
`Norms`. Iterates are not vectors: `step` counts how many units of the direction
have been added since the iteration began, `residualOf` where the residual was
computed, `jacobianOf` the iteration that assembled the Jacobian.

**ProblemDocument** (`problem.cpp`, `scene*.cpp`, `coupling.cpp`, and the callers
in `agros-python` and `agros-gui`). A document is a record, an operation of the
code an operator between documents, because the problem and the computation are
both built by the methods of `ProblemBase`. Labels have an address (`at`), since
polynomial orders are kept under the pointer; markers are names, `"none"` being
the none marker of a field, whose existence is `none`. A marker by name is
faithful because nothing deletes a material without taking it off the labels
first; that this holds is the property `MarkersAreAlive`. `Listed` is what is
written to `problem.json`, by positions in lists; `FieldsRead`, `TypesRead` read
it. `readFromProblem` copies by the positions of pointers in the same lists, so
`Copied` is the composition of the two. `failed` names the lookup at which the
program stops: a label out of range, a coupling or field that is not there, the
asserts of a recipe. `scripted` tells a Python script, which has no undo, from
the menus. Labels with materials stand for faces with boundaries, the second
instance of the same class templates.

**BDFTable** (`bdf2.cpp`). The three tables of coefficients as fractions of
integers, the ratios multiplied out, and next to them the reference: `IsDerivative`
says that a table differentiates the Lagrange polynomials through the last values
at the newest time. ProblemSolver uses it in `FormulaIsExact`: the formula
chosen in `SolverDeal`, given the lengths the solver gives it, is exact at the times
the stored solutions were computed for.

**SolveSession** (`problem.cpp`, `global.cpp`, `mainwindow.cpp`, `logwidget.cpp`,
`other.cpp`, `postprocessorview.cpp`, `physicalfield.cpp`, `optilab.cpp`). A session of the
graphical program. `computations` are all objects ever made; a pointer to one is its
number, and who holds it (`Held`: registry, problem, post-processor, dialog,
thread) decides when `~Computation` removes its directory (`Destroyed`). One action
per command of the main window (`SolveNew`, `SolveCurrent`, `SolveSelected`,
`DeleteSolutions`, `NewDocument`, `Open`, `SelectComputation`), one per step of
`Computation::solve` between which the other thread can look (`Guard`, `Claim`,
`Clear`, `SolveInit`, `Step`, `AskAborted`, `EndSolve`, `Unflag`, `EvaluateRecipes`,
`Failed`), and the dialog's `AbortSolving`, `CloseDialog` and `SolveFinished`. The user closes the dialog whenever
its computation is not flagged as being solved (`closeEvent`): before the thread sets the flag, while the recipes are
evaluated or an exception is handled, and until `doSolveFinished`; nobody need wait. A solve whose dialog is gone before it was
handled is marked (`left`, set by `Abandoned`), also where the handling of an older solve closes the dialog of a newer one. The
window is then free beside a thread that goes on. What follows is undefined in the code and a choice in the model: `Crash`
may end the program where `doSolveFinished` tells a dialog that is gone to close or asks a current computation that is null, and where a
thread works on fields that were deleted, or two threads on one computation (`Races`); or nothing happens and the session goes on. `Refresh` is the
second half of a command: the views are brought up to date before the next one. The
solver itself is reduced to steps that store a solution, end or throw: the other
modules say what it stores. Fields are versions (`fields`, `view`), so that a
view of deleted fields shows. `Open` registers a computation for every directory
it finds, also for one left there by a computation that somebody still holds.
The ghosts `told` and `cut` record for whom an abort was meant and which solve it ended.

**Studies** (`study*.cpp`, `optilab_study.cpp`, `study_dialog.cpp`). A study runs on the
thread of the user interface: `run` is the study being solved, the point it is at
and its phase. A computation has results of the goals whose expressions could be evaluated: `evaluateStep` does not look at
what `evaluateGoalFunctions` returns, so that one with failed goals is listed like any other, and the sort reads
0 for what is missing (`Value`). `Evaluate`, `Solved` or `NotSolved`, and `Add` are one evaluation;
`Abort` is possible only between them, where the dialog processes events. The kinds
differ in who looks at the abort flag (`Asks`), what is still added (`Add`), and
how they end (`Finish`, `Throw`); the optimizer decides nothing else. `localStudy`
is the static pointer of the pagmo problem. `nondominatedSort` is the loop of the code as
a recursive function, one value per pass; `FrontAfter` is a pass, and `FrontWith` its body with the list
that is erased from while it is walked over.

**SceneGeometry** (`scenenode.cpp`, `sceneedge.cpp`, `scene.cpp`,
`scenegeometrydialog.cpp`, `sceneview_geometry.cpp`, `preprocessorview.cpp`). Nodes have an identity and a point;
faces refer to identities, commands to points. `Redo` and `Undo` are the methods of
the commands, `Pushed` what `QUndoStack::push` does; each edit is the handler
that pushes, with what it does to the scene before and after. Points lie on a line: the
properties tell them apart and translate them. The ghost `past` holds what the user saw at each
index of the stack, as long as the scene is `ordinary`: the document is the
first one, no face was swapped, and the commands can tell the faces apart (one between two
nodes, with the default number of segments). What happens otherwise is no lack of the
model: a swap leaves no command, a removed node forgets the segments of its faces, and
`get` compares angles without their absolute value, so that undo and redo then
really lead elsewhere. `FacesHangOnTwoNodes` has no such condition but for distinct points.
What a loop over a list makes of the scene is `AfterAll`, a recursive function of the position; `InOrder` and `Those`
are the elements at some positions, in the order of the list, as the loops over containers and selections come by them.
`ReadScene` says what a scene read from a saved file may be.

**TriangleMesh** (`meshgenerator_triangle.cpp`, `meshgenerator.cpp`). The conversion around the
library Triangle, as functions of its input and output. `Chain` is the loop that cuts an arc into segments
between new nodes, `InputOf` that loop over all faces. `IsTriangulation` is what Triangle promises of its
output: nodes are distinct, triangles turn one way and share at most one side, and an edge is written in the direction of
one of its triangles (`writeedges` in `3rdparty/triangle/triangle.c`). `Elements` and `Node` are the three quads of a triangle,
`Halves` the two edges a marked edge is replaced by, `Neighbours` the quads `fillNeighborStructures` finds, and
`UserIndex` what `writeTodealii` leaves on a face: the boundary line, or the marker that is kept for the pair of quads.
The pair is kept under the numbers of elements and looked up under those of cells, which move up where an element is not
`Written` because its label `isHole` (`CellIndex`, `ElementAt`). That no element is left out has two reasons, both stated: `writeToTriangle` gives
Triangle a region only for labels that have a material (`Regions`), makes holes of the others, and a triangle without
a region is refused when it is read (`TrianglesAreOfRegions`); and the two ways in which the code asks for
a material, of all markers of a label (`markersCount`) and of the problem's fields (`isHole`), agree because materials are of fields the problem
has (`MaterialsAreOfFields`, which is part of `MarkersAreAlive` in `ProblemDocument`).
deal.II is taken to keep the order of the cells, as the code does. The module has no state; `MCTriangleMesh` evaluates it on
three triangulations, with all sides or one side marked and edges written in either direction, and on the scenes of
three faces with up to four segments. `FieldsMatter` and `RegionsMatter` show there that without either of those two facts
markers of interfaces would be lost or misplaced; `DirectionMatters` shows there that the promise about the direction is needed:
an edge on the boundary that is written backwards would have no neighbours.

The MC modules give the constants values and name the bounds; each `.cfg` is one run.

## 3. Runs

All runs use the specification with its constants replaced, and no definition.

| run | configuration | what it shows |
|---|---|---|
| `store` | three time steps of one field and one solution of another, two meshes, two vectors, cache of two | The five invariants of the store, and that it implements `SolutionMap`: flushing, duplicates in the order of the cache, copied mesh files, refused steps, clearing, saving and opening in any order. |
| `transient` | one transient field, fixed and adaptive (BDF) lengths, orders 1 to 3, abort at any time, `TimeTotal` 10 | Time axis and store agree after refusals and restarts; every step, and the step of lower order that estimates its error, is computed with a formula that is exact for the lengths that were taken; no assert fails; the cache is bounded; a solution that was not aborted ends at exactly the total time; solving ends. |
| `coupled` | chains of three fields, steady, adaptive, transient, with abort where it is harmless | Fields get sorted; every target holds the final solution of its sources; pointers into the cache stay valid while the target's own solutions flush it; solving ends. |
| `nonlinear` | Newton and Picard over 34 settings, four norms | Damping in range, residual of the iterate, Jacobian not too old, iterations end. |
| `document` | two fields with a coupling that depends on an analysis, two points, a new or an opened problem, three edits, one undo command | References are alive, the computation has exactly the couplings that have weak forms, a copy says what the problem says, and a file that is opened and written again is the same file. |
| `session` | an archive with one computation, three computations, two solves, one opening, dialogs closed whenever the code allows it | An abort ends the solve it was given to and no other. Of a solve that is not left alone: it is registered and the problem's until it was handled, the program does not crash, the post-processor shows no deleted field, and a thread that ended, also by an exception, leaves a window that can be used. |
| `studies` | one study of each kind, two points per phase, two goals of which one may fail, two solves, a save and a load | Studies list registered and evaluated computations, once; an abort begins no evaluation (initial samples of BayesOpt excepted); `nondominatedSort` keeps the Pareto front, and is the Pareto front where dominating is an order; a study ends. |
| `geometry` | two nodes and a face at first, three points, three edits, any number of undos and redos, another document; evaluates `MCTriangleMesh` | No face outlives its node; nodes stay apart; undo and redo restore what the user saw. |

The other runs each show one disagreement between the code and what the code
itself says (comments, asserts, messages); `PROJECT.json` quotes the lines.

| run | property that fails | what happens |
|---|---|---|
| `refused_step` | `HistoryIsAccepted` | A step is refused after the second one: `solver.cpp:1047` drops the last *accepted* solution as well, and the step is repeated from the one before it. |
| `line_search` | `AbortEnds` | With a decrease ratio below 1 the line search repeats the minimal step for ever and does not read the abort flag. |
| `reopened` | `RegisteredIsOnDisk` | The same document is opened again: the post-processor lets go of its old computation after the new one was registered under the same name, and `~Computation` (`problem.cpp:1827`) removes the directory of the new one. |
| `cut_loose` | `NoFaceIsCutLoose` | A new face is swapped (no command), undo does not find it, and the undo of its node meets `assert(0)` in `sceneedge.cpp:373`. |

Some of what the code does wrong has no run of its own; the passing runs leave it
out, and here is where:

* A coupling set to *none* is left out of the sorting (`solver_utils.cpp:93`) but not
  of the look-up of sources (`solver_utils.cpp:119`), so that a source may be asked for
  before it is solved. The problems of `coupled` have their couplings in force.
* An abort before the first adaptivity step of a source (`solver.cpp:780`) leaves it without a
  solution, and its target is solved nevertheless. In `coupled` only a last field
  may be aborted in its adaptivity loop (`mayAbort`, `AdaptiveLast`).
* With space adaptivity, taking back the first time step (`solver.cpp:1038`) removes one of its
  solutions only. `coupled` has an adaptive transient field with fixed lengths, which are never refused.
* Each repetition of a first step for the mesh appends its length to the time axis (`solver.cpp:1062`), which then
  has more lengths than steps. `StoredStepsMatchLengths` is claimed of `transient` alone.
* The previous step is looked up in the cache only (`solutionstore.cpp:241`). With the cache of the
  smallest size, BDF and two fields solved before the transient one, a refused second step goes back to an initial condition that
  was flushed: a default entry is inserted and its null pointer followed. The problems of the runs have room (`FirstStepsFit`).
* The analysis of a field changes without its couplings (`pyfield.cpp:64`): the model does so,
  and the copy of such a problem fails (`CopyFailure`).
* The undo stack survives its document and may bring two labels to one point: the run
  `document` stops there (`Bounds`), `geometry` goes on, but claims distinct points only before.
* A dialog that is closed before the thread has set its flag, or between the reset of the flag (`problem.cpp:2101`, or a handler) and
  `doSolveFinished`, is deleted and told to close afterwards (`mainwindow.cpp:596`); meanwhile the
  window is free, the same computation can be solved twice, and its fields can be deleted under the thread. All of this is
  modelled, up to the crash. `SolvedIsRegistered`, `ShownFieldIsAlive` and the two liveness properties speak of solves that were not left
  alone (`left`, `Patient`): of the others they are false, and no doc says that they hold.
* A goal whose expression fails leaves a computation without this result, and it is listed. Computations that miss
  different goals can then dominate each other in a way that is not transitive, and the front may hold dominated ones: the run
  `studies` reaches such a front. `FrontIsPareto` says what is left of it.
* A second pagmo study, even one whose dialog was cancelled, takes the static pointer
  from the first: `MaxPagmo = 1`.

Every property of a passing run has a mutant: a definition of the model changed
as a plausible bug would change the code (an assert or a guard dropped, an entry
too many kept, a loop left out), under which TLC finds the property violated. The
mutated forms stand in the modules, in front of the definition they change.

## 4. Bounds, and why they are enough

* `CacheSize = 2` is the smallest the settings allow (2 to 50, `confdialog.cpp:201`):
  the third solution of a field flushes, and with two fields the cache grows to
  its true bound of one more per field.
* `store`: at most one duplicate in the order of the cache (`MaxDuplicates`), one
  solution that may be replaced, two that may be archived, and one mesh for the
  second field. Two meshes and two vectors tell stale content from new. These
  bounds are only for TLC: the theorems have none of them.
* `TimeTotal = 10` units allows a longest step of a fifth of it, steps that are
  doubled and halved twice, several refusals in a row, a restart and a last step
  that is cut. A step of one unit cannot be shortened and is never refused: the
  code refuses in real numbers, and its lengths shrink geometrically; the bound is
  what makes refusals finite in the model. `TimeStepRatio` (2) and the fifth of the total
  time are constants of the code. Time order 3 shows a history that is cut.
* `MaxIters = 4` in place of 100: the code compares the counter with it and
  nothing else; four iterations suffice to reuse a Jacobian twice, be refused and
  start again. Norms 0 to 3 cover smaller, equal and larger for every ratio used.
  A factor of 32 units is halved past the minimum of 4 and raised again.
* `document`: `MaxEdits = 3` operations after the initial problem, which may be an
  opened one that has fields, a label, materials and a recipe already, so that three edits reach every
  pairing of operations; copying, solving, saving and opening are not counted.
  `MaxCommands = 1`, `MaxRecipes = 1`; two addresses, so that an address is used
  again only after it was freed. `Bounds` opens a file only in a program without a computation, and
  stops where two labels are at one point.
* `session`: `MaxSolves = 2` and `MaxObjects = 3` let a computation be solved, reused and
  overtaken by another while the first is still pending, with or without its dialog, beside one that was opened. Solutions are counted to
  `MaxSteps = 1`, since only *none* and *some* are asked for; the theorems hold for any number.
  `reopened` needs one solve only and opens twice, the least that makes an old and a new computation of one directory.
* `studies`: `Evaluations = 2` points per phase show a first and a last one, and give
  BayesOpt both phases; three results of two goals, one of which misses a goal, contain dominated, dominating and
  incomparable ones and ties, and all three together a dominance that is not transitive; four computations make every order of insertion into a front of up to three.
  `MaxRuns = 2` solves a study again after an abort, an exception, a deletion or a load.
* `geometry`: the third point is free to create, move or copy to; three edits suffice to add a
  node, join it and take something away, and undo and redo are not counted. Angles 0 and 90 and
  segments 4 and 6 make faces that differ in one of them.
* `CHECK_DEADLOCK FALSE` where the system may stop: in `store`, where the bounded set of identifiers may be
  full; in `document` and `geometry`, where the edits are used up and a failed lookup or assertion stops the program; in
  `session` and `studies`, where the bounds are used up.

## 5. Fairness

`ProblemSolver` and `NonlinearSolver` assume `WF_vars(SolverThread)`: the solving
thread is an ordinary thread that waits for nobody, so it makes a step as long as
it can. `SolveSession` assumes the same of each solving thread, and of the event loop that
the thread's `finished` signal is delivered and a command's refresh completes;
`Studies` that the optimizer goes on (`WF_vars(StudyStep)`): the library calls back or returns.
Aborting, closing and every other command are never forced: the user need not. The
other modules state safety only.
Liveness is checked of a thread that is never blocked; a linear solver that does not return
is outside the models.

## 6. Proofs

`SolutionArchiveProofs`, `ProblemSolverProofs`, `NonlinearSolverProofs`, `SolveSessionProofs`,
`StudiesProofs`, `ProblemDocumentProofs` and `SceneGeometryProofs`, with the lemmas of `FiniteInduction`, are checked by TLAPS for every value of the constants.

**The store.** The inductive invariant `IInv` is the conjunction of the five
invariants that the run checks; none of them is inductive alone. A
removed solution leaves the index only because it was listed once
(`FilesMatchIndex`); a flushed one can be loaded again because its files are there;
a copied mesh file fits because the cached previous solution is the one on the
disk (`CacheCoherent`) and equal numbers of cells mean equal meshes
(`CellsAssumption`); an archive is complete because it copies a directory in
which `runtime.json` matches the list. One lemma per action shows that it keeps
`IInv`. `SpecCacheIsBounded` needs more: inserting removes all cached entries of
one field, and the proof counts fields and entries with the theorems on finite
sets. `SpecStoreIsAMap` proves the refinement from `StoredIsData`: under `IInv`
the reader's map is the content of the data files, whether an entry is cached or
not.

**The solver.** Five invariants follow each other. `IInv` says what the store may hold while the fields
go by: only fields up to the present one (`Listed`), of that one nothing later than the counters of the
place, so that `addSolution` always finds its identifier free, and an axis, a history and counters that
fit each other (`Places`, `OneForEachStep`). `SourcesInv` says of each place in the order which sources its solver holds,
that each is still the newest solution of a field before it, and that while the field is solved it is cached: nothing flushes
another field's solutions (`SolveFieldFrame`), so that the size of the cache does not matter. `AxisInv`
says that the time is the sum of the lengths and that the store has one solution per length, with this length and at this
time (`StepsOf`); `HistoryInv` that the lengths kept for the formula are the last ones of the axis, although a refused step takes one
away and they are cut at the order. From it and from the exactness of the three tables follows `FormulaIsExact` (`AgesAreSums`: the sums of
the last lengths are the ages of the solutions). `EndsInv` carries the end of a field's loop to the end of the problem. `Visited`,
the sort, keeps the fields a permutation (`VisitedKeeps`); that it ends is liveness and stays with TLC.

Two hypotheses are about the problems. `RepeatedStepsAreFixed`, in the first three theorems: a transient field that
repeats its first step for a finer mesh has fixed lengths. With adaptive ones the step can be refused after it was
stored more than once, and `solver.cpp:1038` removes one of its solutions only (listed in section 3).
`NoStepIsRepeated`, in the last three: a first step that is repeated is put on the axis again, which then counts it twice.
The fields of the run `transient` satisfy both; `coupled` satisfies the first. These theorems hold of a problem whose look-up
of a source fails too: `crashed` is a place like others.

That it is never reached is `SpecAssertsHold`, which says of which problems (`SafeProblems`; those of both runs are):

* `CouplingsAreWeak`: what the plugins ask for is a weak coupling in force, so that the sort has put it before its target
  (section 3 has what happens otherwise).
* `SourcesAreFinished`: no source with steps of space adaptivity in a problem that is aborted (also in section 3).
* `OneTransientField`, which the code asserts (`solver.cpp:863`).
* `FirstStepsFit`: a transient field that may come back to its first step, because BDF refuses the second or because the
  first is repeated for the mesh, has room in the cache for its first solutions and those of the fields before it.
  The initial condition would be flushed otherwise, and is looked up in the cache alone.
* `RepeatedStepsAreFixed`, as above.

The invariant (`Running`) has five parts beside `IInv`. `Ordered`: a pass of the sort that swaps nothing leaves an order in which
sources come first (`UnswappedIsOrdered`). `Early` and `Once`: what the steady fields before the transient one have
stored is at step 0, once each. `Stored`: a field that was solved has a solution. `StartCached`: the step before the one being
solved is cached, and the initial condition as long as the second step may be refused; while the solutions are those of `FirstStepsFit`
they are counted, and nothing is flushed (`FirstStepsAreKept`).

**The nonlinear solver.** `IInv` adds two parts. `CounterIsAge` says what
`numReusedJacobian` counts: since the code compares it with its limit by `==`,
`JacobianIsRecent` holds only because the counter grows by one and is looked at
before it can pass the limit. `Places` says which settings lead to which stage.
`FactorsInRange` collects the integer arithmetic of halving and raising.

**The session.** `Typed` is the type invariant with the shapes the actions need: a
list of the post-processor that is not empty has a directory to show, whose `Max` and
`Min` are members (`MinMaxAreMembers`, from the well-foundedness of finite sets). On it rest three
separate invariants. `AbortIsTold`: where the solver has yet to look at the flag
of its computation, a set flag was set for this solve; `clearSolution`, after the solving flag and
before the first step, establishes it, so that no handler of an exception need reset
`m_abort`. `OneSolve`: at most one thread waits to be handled with its dialog still open; the dialog
belongs to it, its computation is the problem's and registered and has the fields the solve began with; and the program has
crashed only after a solve was left alone. From it follows
`SolvedIsRegistered`, since every command that would change either needs a free
window. `ShownIsFresh`: as long as no solve was left alone, a computation that is shown, solved and processed shows its own
fields; `createComputation(false)` empties the store of what it reuses, and a solve that ends
makes the post-processor forget what it shows before it is solved again. Any number of
computations, threads, directories and solutions is covered, and a user who closes dialogs at any time the code allows.

**The studies.** `IInv` joins the type invariant with `ListedIsRegistered` and what both need: a
study that runs exists, and the computation in the hand of the optimizer is registered, so that
it still is when it is added. `AbortInv` says whose flag the static pointer of the pagmo problem reads while
a pagmo study runs: with at most one such study, that of the study itself. `SpecNothingBegunAfterAbort` therefore assumes
`MaxPagmo \in 0 .. 1`; with two, removing the one the pointer shows makes the next study read a study that is gone,
and TLC stops there too (the hazard at `study_pagmo2.cpp:154`). `DoneInv` says that what
is listed was evaluated and is listed once, which needs that the computation being evaluated is
listed nowhere yet. On it rests `SpecFrontIsPareto`. No computation dominates itself, so that the sort never loses a member of the
Pareto front and lists nothing new, whichever goals failed (`FrontAfterKeeps`). Where dominating is transitive, which it is among results of
the same goals (`BeatsOrder`):
inserting one computation keeps the front free of dominated ones and
covers everything it has seen (`FrontWith` with the list that is erased from while it is
walked over); by induction a pass over all of them ends in the Pareto front; another pass changes
nothing; and a computation with the smallest value of a goal is dominated only by one with the same value.

**The document.** `Valid` says when a document is sound on its own: its parts have their types, labels have addresses of their
own (the orders are kept under them), and `ReferencesAreAlive`. `Sound` is the same without *every field has a marker*,
which is what a change of fields leaves until `fieldsChange` has put the none markers (`NonesPut`). Each operator of the model has a lemma
that it keeps `Valid`, or makes it of `Sound`. `IInv` adds what the operations need of the rest of the state: the couplings of the computation
(`Exact`), the shape of the commands on the stack, and that a file on the disk can be read whole. Reading is a loop over the fields, each of
which finds the labels by position; `FiniteInduction` carries the sound document, the fields read so far and the unread ones through it, for any
number of fields. The recipes of a problem that is opened are alive because a file lists recipes of its own fields only.

`CopyIsFaithful` and `OpenedIsWhatWasSaved` compare position by position. The reader drops a label at a point that has
one, and every position after it then means another label: both theorems therefore assume
`[]LabelsAreAtDistinctPoints`, which the run's constraint assumes too, and which the code means to keep but for the undo stack (section 3).
`CopyOfDistinctPointsIsFaithful` needs it only in the state that is copied, not before. For the file the invariant gets two more parts:
`FileIsListed`, that a file that was saved is the list of a valid document, and `FileIsDistinct`, that its points are distinct.
The couplings the reader makes beyond those of the file are left open, as the property does.

**Induction.** The theorems of the library about induction take operators as parameters. `FiniteInduction`
states induction for a set of naturals (`SetInduction`, from the well-foundedness of `<`), the existence of a function
defined by recursion up to `N` (`RecursionExists`), and that two of them agree (`StepsAgree`). A loop of the
code that is written as a recursive function can so be proved about for every length of its
list. The folds of the community modules and `SelectSeq` cannot: they stay closed to the provers. `ElementRemoved` is what
`RemoveAt` of `SequencesExt` returns, for the studies and the labels of a document.

**The formulas.** The first section of `ProblemSolverProofs` is about `BDFTable`: its theorems are `IsDerivative` of the three tables, for all lengths
of the steps: first with its products written out, identities of polynomials after
the fractions are cleared, whose denominators `DenominatorsArePositive` shows positive; then
as it stands, with `SumOf` and `ProductOf` of lists of up to four members evaluated (`SumOfFew`, `ProductOfFew`).
That the right lengths are given is `SpecFormulaIsExact` of the solver.

**The scene.** A command holds coordinates and finds nodes and faces by them, in scenes that are yet to come when it is made.
The invariant `Inv` can therefore speak only of what is seen (`View`): the points of the nodes and, when `exact`, the
lines between them. `Does` says what a command makes of a view, `Fits` also that it has recorded what it took away. A command
that does is redone to the view it should make, and then fits (`RedoDoes`); one that fits is undone
to the view before (`UndoFits`). Both hold of the scene itself only if it is `Fine`: nodes at distinct points, no loops, every face
on its nodes, and, when `exact`, no two faces between the same nodes. `Walk` says of the whole stack that each item
fits between two views. `PointsGo` is the walk of the points, which
lasts as long as the document: swaps and second faces change no point. `PicturesGo` is the walk of points and lines through the very
pictures of the ghost `past`, as long as these are plain. Each edit is shown to push items that fit where they
are pushed; pushing discards the views after the index, undo and redo go along them (`UndoLastKeeps`, `RedoNextKeeps`). A
command that removes a node must have removed its faces before: this is what `DeleteSelected` does in two passes, and what `Detach`
does when an added node is undone. `FacesHang` takes the one part that needs no condition, that faces hang on nodes, from
`Typed`, and the distinct points from `PointsGo`; `UndoWalksBack` is `PicturesGo` at the index. The numbers of nodes are only compared, those of
new nodes found by `FreshId`, and all loops have as many rounds as their list has elements.

**The mesh.** The last section of `SceneGeometryProofs`. From `IsTriangulation`: a quad has one corner of the triangulation and the middles of the two sides
that meet there (`CornerInQuad`, `MiddleInQuad`), so that a quad at a half of an edge lies in a triangle that has this edge,
in one direction or the other (`SideOfNeighbour`), and each direction belongs to one triangle. This gives the one or two neighbours that
`fillNeighborStructures` asserts (`HalvesHaveNeighbours`). Two quads that meet at a half lie in different triangles, which share
only that side (`QuadsMeetAtOneFace`). Every element becomes a cell (`EveryElementIsWritten`, from `TrianglesAreOfRegions` and
`MaterialsAreOfFields`), so that the number of a cell is that of its element (`CellsAreElements`); hence the lookup by the quad behind a face finds the marker of
that face and no other (`UserIndexIsOfFace`). `ArcIsConnected` is about the numbers of the nodes on an arc.

Assumptions on the constants, all named in the modules: identifiers are records
of field and steps and finite in number (`SolutionIDsAssumption`), meshes with
equally many cells are the same mesh (`CellsAssumption`: this is what the code
takes for granted at `solutionstore.cpp:242`, and not true of every refined
mesh), `None` is none of the things stored (`NoneAssumption`), settings have
their types (`SettingsAssumption`, `NumbersAssumption`). `ProblemDocument` assumes that a
module's first analysis is one of its analyses, that couplings name modules, that
no material is called `none` (`AnalysesAssumption`, `CouplingsAssumption`, `MarkerNameAssumption`), that there are finitely many modules
and the bounds are numbers (`FieldsAssumption`, `BoundsAssumption`), and that the files a program can start with are of fields of the modules and
can be read (`FilesAssumption`; `FileOK` names what is asked of a file);
`SolverDeal` that the total time is positive and that there are times up to it (`TimeAssumption`); `ProblemSolver` that
a problem has each field once, couplings between its fields, an order of 1 to 3 and a constant length up to the total
time (`ProblemsAssumption`);
`SolveSession` that an archive lists numbers of solutions and that bounds are numbers (`DocumentAssumption`,
`BoundsAssumption`); `Studies` that a phase has a point (`EvaluationsAssumption`) and that the results of goals that could be evaluated are numbers
(`GoalsAssumption`; not a number, as of 0/0, is left out); `SceneGeometry` that points and the distances of a translation are integers (only their
differences and their equality are used; `PointsAssumption`), angles and segments numbers (`FacesAssumption`), and that the scenes
a program starts with or opens can be read from a file it wrote (`ScenesAssumption`).

Only model-checked: liveness (`SolvingEnds`, `IterationsEnd`, `AbortEnds`,
`AbortEndsTheSolve`, `WindowIsUnblocked`, `StudyEnds`; liveness
under fairness is beyond the prover), and the four properties the code does not keep (section 3), of which the runs show a counterexample.

## 7. Not modelled, and why

* Numerical kernels (assembly, linear solvers, estimators, Triangle itself, particle tracing, values and tables): real arithmetic. Where they
  decide something, the models choose any outcome.
* Of the mesh generator coordinates (curved sides, incenters, the points and areas of regions and holes), and the
  unused functions that shift nodes; the generator that runs Triangle as a process.
* Geometry (crossings, nodes on edges, closest labels): real arithmetic. Nodes and
  edges are modelled as references, at points of a line.
* Values of materials, parameters and formulas; formats of files; logging, dialogs.
* In `SceneGeometry` labels (they are in `ProblemDocument`), the boundaries of faces, rotation and scaling,
  the templates of rectangles and circles.
* In `SolveSession` what OptiLab holds besides the others: `m_selectedComputation` and `m_studyComputations` (`optilab.cpp:57`) keep a
  computation alive until the next selection, so that its directory may be removed later than in the model. (The studies' own sets hold registered
  computations alone: `clearComputations` takes them out of both.) Also which early return or exception ends a solve (they leave the same
  state), and solving without the user interface, where one thread does everything.
* In `Studies` the cancelled dialog of a new pagmo study (`optilab_study.cpp:703`: the study is made and deleted, and the static
  pointer with it), studies that do not solve their problem (`General_SolveProblem`), parameters and settings.
* Several labels in one undo command, legacy files (`.a2d`, XML), import and export.
* Pure build-time and vendored code.
* Writes of files that fail: the code does not look at them.

## 8. Plan

1. **A finer store**: files written one by one, with a save in between, and an end of the
   program between two of them.
2. **Proofs**: of the properties the runs check only liveness is left. With the finer store its proofs have to follow.
3. **Post-processor**: fields, steps and variables that are chosen for a computation
   (`PhysicalFieldWidget`, `PostDeal`), beyond the one pointer of `SolveSession`.
4. **Two pagmo studies** and a study beside a solving thread, once it is decided what they should do.

The order is that of how much depends on it: the files are what the user keeps.
