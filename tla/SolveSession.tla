---------------------------- MODULE SolveSession ----------------------------
(***************************************************************************)
(* A session of the graphical program: the objects Computation that live   *)
(* in it, the threads that solve them (SolveThread, Computation::solve),   *)
(* the modal log dialog, and the post-processor that shows one of them     *)
(* (problem.cpp, global.cpp, mainwindow.cpp, logwidget.cpp,                *)
(* postprocessorview.cpp, physicalfield.cpp).                              *)
(*                                                                         *)
(* A computation is reached through shared pointers of the registry        *)
(* (Agros::computations), of the problem, of the post-processor, of the    *)
(* dialog and of the thread; it is destroyed, and its directory removed,   *)
(* when the last of them lets go.  The thread of the user interface does   *)
(* one command at a time; the solving thread runs between any two of its   *)
(* steps.  Directories are named by the time they are made at: numbers.    *)
(* The user can close the dialog whenever its computation is not flagged   *)
(* as being solved: before the thread sets the flag, and from the moment   *)
(* it resets it to doSolveFinished.  What the window then does under the   *)
(* thread, and doSolveFinished with the dialog, may crash the program.     *)
(***************************************************************************)
EXTENDS Integers, Sequences, FiniteSets, FiniteSetsExt

CONSTANTS
    Document,       \* the archive: the solutions in its directories, oldest first
    MaxSteps,       \* bound: solutions of a computation that are told apart
    MaxObjects,     \* bound: computations made in a session
    MaxSolves,      \* bound: solves started
    MaxOpens        \* bound: times the archive is opened

ASSUME DocumentAssumption == Document \in Seq(1 .. MaxSteps)
ASSUME BoundsAssumption ==
    /\ MaxSteps \in Nat \ {0} /\ MaxObjects \in Nat /\ MaxSolves \in Nat
    /\ MaxOpens \in Nat

VARIABLES
    computations,   \* every Computation made, in order
    registry,       \* Agros::m_computations: directory -> computation
    current,        \* Problem::m_currentComputation, or Null
    shown,          \* PostprocessorWidget::m_currentComputation, or Null
    combo,          \* PhysicalFieldWidget: the directories listed, the one selected last
    threads,        \* the solves started: step, computation, its fields, how they went
    dialog,         \* the computation of the log dialog, or Null when there is none
    gui,            \* "idle", "refresh" when a command has yet to refresh the views, "crashed"
    disk,           \* solutions with files in each directory, or Gone
    opens           \* times the archive has been opened

vars == <<computations, registry, current, shown, combo, threads, dialog, gui,
          disk, opens>>

Null == 0
Gone == -1
Directories == 1 .. (MaxObjects + Len(Document))
Objects == 1 .. Len(computations)
Threads == 1 .. Len(threads)

----------------------------------------------------------------------------
Computation(dir, steps, fields) ==
    [dir |-> dir, solving |-> FALSE, abort |-> FALSE, steps |-> steps,
     fields |-> fields, view |-> Null, processed |-> FALSE]

\* Computation::isSolved: the store lists a solution
isSolved(c) == c # Null /\ computations[c].steps > 0

\* the time goes on: a new directory is later than all others
NewDirectory ==
    1 + Max({0} \union DOMAIN Document \union {computations[c].dir : c \in Objects})

Bound(reg) == {reg[d] : d \in DOMAIN reg}

\* QSharedPointer: who still holds a computation.  (What OptiLab selected or
\* listed last holds computations a little longer: not modelled.)
Held(reg, cur, shw, thr, dlg) ==
    (Bound(reg) \union {cur, shw, dlg} \union
     {thr[t].comp : t \in 1 .. Len(thr)}) \ {Null}

\* Computation::~Computation of what no pointer holds any more
Destroyed(files, held) ==
    LET released == Held(registry, current, shown, threads, dialog) \ held
    IN  [d \in Directories |->
            IF \E c \in released : computations[c].dir = d THEN Gone ELSE files[d]]

\* the files of a directory that exists
WithFiles(files, d, n) == [files EXCEPT ![d] = IF @ = Gone THEN Gone ELSE n]

\* Mutant: solutions are taken from the store without asking isEmpty
ClearSolutionTakesOneMore(comp) == [comp EXCEPT !.abort = FALSE, !.steps = @ - 1]

\* Mutant: clearSolution keeps m_abort
ClearSolutionKeepsAbort(comp) == [comp EXCEPT !.steps = 0]

\* Computation::clearSolution
clearSolution(comp) == [comp EXCEPT !.abort = FALSE, !.steps = 0]

\* Computation::clearFields, and readFromProblem makes fields anew (or none)
clearFields(comp) == [clearSolution(comp) EXCEPT !.fields = Null]

----------------------------------------------------------------------------
Init ==
    /\ computations = <<>>
    /\ registry = <<>>
    /\ current = Null
    /\ shown = Null
    /\ combo = [items |-> {}, last |-> Null]
    /\ threads = <<>>
    /\ dialog = Null
    /\ gui = "idle"
    /\ disk = [d \in Directories |-> Gone]
    /\ opens = 0

\* The log dialog is modal: the main window takes commands only without it.
WindowIsFree == gui = "idle" /\ dialog = Null

\* MainWindow::doSolveComputation: the dialog and the thread, which makes
\* the computation the current one
StartSolve(c, fields) ==
    /\ Len(threads) < MaxSolves
    /\ dialog' = c
    /\ current' = c
    /\ threads' = Append(threads, [pc |-> "start", comp |-> c, fields |-> fields,
                                   left |-> FALSE, told |-> FALSE, cut |-> FALSE])

\* The dialog goes away: a thread that has not been handled is on its own.
Abandoned(thr) ==
    [t \in Threads |-> [thr[t] EXCEPT !.left = @ \/ thr[t].pc # "handled"]]

\* No solve has been left alone, by a user who closes its dialog or by the
\* handling of an older solve.
Patient == \A t \in Threads : ~threads[t].left

\* Mutant: the registry is not asked
ReusedWithoutRegistry == current

\* Problem::createComputation: which computation is cleared and read anew
Reused == IF current # Null /\ registry # <<>> THEN current ELSE Null

\* doSolveNewComputation, and doSolveCurrentComputation with nothing to reuse
SolveNew(hasFields) ==
    /\ WindowIsFree
    /\ Len(computations) < MaxObjects
    /\ LET c == Len(computations) + 1
           d == NewDirectory
           fields == IF hasFields THEN 1 ELSE Null
       IN  /\ d \in Directories
           /\ computations' = Append(computations, Computation(d, 0, fields))
           /\ registry' = [e \in DOMAIN registry \union {d} |->
                              IF e = d THEN c ELSE registry[e]]
           /\ StartSolve(c, fields)
           /\ disk' = [Destroyed(disk, Held(registry', c, shown, threads', c))
                          EXCEPT ![d] = 0]
    /\ UNCHANGED <<shown, combo, gui, opens>>

\* doSolveCurrentComputation
SolveCurrent(hasFields) ==
    /\ WindowIsFree
    /\ Reused # Null
    /\ LET c == Reused
           fields == IF hasFields THEN 2 + Len(threads) ELSE Null
       IN  /\ computations' = [computations EXCEPT
                                  ![c] = [clearFields(@) EXCEPT !.fields = fields]]
           /\ disk' = WithFiles(disk, computations[c].dir, 0)
           /\ StartSolve(c, fields)
    /\ UNCHANGED <<registry, shown, combo, gui, opens>>

\* OptiLab::doSolveCurrentComputation: the selected computation as it is
SolveSelected(d) ==
    /\ WindowIsFree
    /\ StartSolve(registry[d], computations[registry[d]].fields)
    /\ disk' = Destroyed(disk, Held(registry, registry[d], shown, threads', registry[d]))
    /\ UNCHANGED <<computations, registry, shown, combo, gui, opens>>

----------------------------------------------------------------------------
\* Computation::solve, on the solving thread

At(t, pc) == threads[t].pc = pc
Goto(t, pc) == threads' = [threads EXCEPT ![t].pc = pc]
OnlyThread == UNCHANGED <<registry, current, shown, combo, dialog, gui, opens>>

\* isPreparedForAction, a transient problem of coupled adaptive fields, and a
\* problem without fields
Guard(t) ==
    /\ At(t, "start")
    /\ LET c == computations[threads[t].comp]
       IN  \E refused \in BOOLEAN :
              Goto(t, IF c.solving \/ refused \/ c.fields = Null THEN "posted" ELSE "claim")
    /\ UNCHANGED <<computations, disk>>
    /\ OnlyThread

\* m_isSolving = true
Claim(t) ==
    /\ At(t, "claim")
    /\ computations' = [computations EXCEPT ![threads[t].comp].solving = TRUE]
    /\ Goto(t, "clear")
    /\ UNCHANGED disk
    /\ OnlyThread

\* clearSolution()
Clear(t) ==
    /\ At(t, "clear")
    /\ computations' = [computations EXCEPT ![threads[t].comp] = clearSolution(@)]
    /\ disk' = WithFiles(disk, computations[threads[t].comp].dir, 0)
    /\ Goto(t, "init")
    /\ OnlyThread

\* solveInit: the settings, the geometry and the mesh are fine, or it throws
SolveInit(t, pc) ==
    /\ At(t, "init")
    /\ pc \in {"step", "failed"}
    /\ Goto(t, pc)
    /\ UNCHANGED <<computations, disk>>
    /\ OnlyThread

\* one step of solveProblem stores a solution, the last one or not, or throws
Step(t, pc) ==
    /\ At(t, "step")
    /\ pc \in {"loop", "end", "failed"}
    /\ Goto(t, pc)
    /\ LET c == threads[t].comp
           n == Min({MaxSteps, computations[c].steps + 1})
       IN  IF pc = "failed"
           THEN UNCHANGED <<computations, disk>>
           ELSE /\ computations' = [computations EXCEPT ![c].steps = n]
                /\ disk' = WithFiles(disk, computations[c].dir, n)
    /\ OnlyThread

\* Mutant: no loop asks isAborted
AskNobody(t) ==
    /\ At(t, "loop")
    /\ Goto(t, "step")
    /\ UNCHANGED <<computations, disk>>
    /\ OnlyThread

\* the loops over the steps ask isAborted
AskAborted(t) ==
    /\ At(t, "loop")
    /\ LET cut == computations[threads[t].comp].abort
       IN  threads' = [threads EXCEPT ![t].pc = IF cut THEN "end" ELSE "step",
                                      ![t].cut = cut]
    /\ UNCHANGED <<computations, disk>>
    /\ OnlyThread

\* m_abort = false
EndSolve(t) ==
    /\ At(t, "end")
    /\ computations' = [computations EXCEPT ![threads[t].comp].abort = FALSE]
    /\ Goto(t, "unflag")
    /\ UNCHANGED disk
    /\ OnlyThread

\* m_isSolving = false; then the recipes are evaluated
Unflag(t) ==
    /\ At(t, "unflag")
    /\ computations' = [computations EXCEPT ![threads[t].comp].solving = FALSE]
    /\ Goto(t, "recipes")
    /\ UNCHANGED disk
    /\ OnlyThread

\* Mutant: a handler forgets m_isSolving
FailedStaysFlagged(t) ==
    /\ At(t, "failed")
    /\ Goto(t, "posted")
    /\ UNCHANGED <<computations, disk>>
    /\ OnlyThread

\* the handlers of exceptions reset m_isSolving alone
Failed(t) ==
    /\ At(t, "failed")
    /\ computations' = [computations EXCEPT ![threads[t].comp].solving = FALSE]
    /\ Goto(t, "posted")
    /\ UNCHANGED disk
    /\ OnlyThread

\* recipes()->evaluate, then the thread posts finished()
EvaluateRecipes(t) ==
    /\ At(t, "recipes")
    /\ Goto(t, "posted")
    /\ UNCHANGED <<computations, disk>>
    /\ OnlyThread

ThreadStep(t) ==
    \/ Guard(t)
    \/ Claim(t)
    \/ Clear(t)
    \/ \E pc \in {"step", "failed"} : SolveInit(t, pc)
    \/ \E pc \in {"loop", "end", "failed"} : Step(t, pc)
    \/ AskAborted(t)
    \/ EndSolve(t)
    \/ Unflag(t)
    \/ Failed(t)
    \/ EvaluateRecipes(t)

\* Undefined behaviour of a solve that was left: its fields are deleted or made
\* anew under it, or another thread solves the same computation.
Working(t) == threads[t].pc \notin {"posted", "handled"}
Races(t) ==
    /\ Working(t)
    /\ \/ computations[threads[t].comp].fields # threads[t].fields
       \/ \E u \in Threads \ {t} : Working(u) /\ threads[u].comp = threads[t].comp

----------------------------------------------------------------------------
\* The dialog and the main window, on the thread of the user interface

\* LogSolverDialog::reject while the computation solves
AbortSolving ==
    /\ dialog # Null
    /\ computations[dialog].solving
    /\ computations' = [computations EXCEPT ![dialog].abort = TRUE]
    /\ threads' = [t \in Threads |->
                      [threads[t] EXCEPT !.told = @ \/ threads[t].comp = dialog]]
    /\ UNCHANGED <<registry, current, shown, combo, dialog, gui, disk, opens>>

\* LogSolverDialog::closeEvent is not ignored: the dialog deletes itself
CloseDialog ==
    /\ dialog # Null
    /\ ~computations[dialog].solving
    /\ dialog' = Null
    /\ threads' = Abandoned(threads)
    /\ disk' = Destroyed(disk, Held(registry, current, shown, threads', Null))
    /\ UNCHANGED <<computations, registry, current, shown, combo, gui, opens>>

\* Mutant: it goes on showing the computation
KeepShown == shown

\* PostprocessorWidget::solveFinished forgets what it shows
ForgetShown == Null

\* SolveThread deletes itself
Deleted(t) == [pc |-> "handled", comp |-> Null, fields |-> Null,
               left |-> threads[t].left, told |-> FALSE, cut |-> FALSE]

\* MainWindow::doSolveFinished: closeLog closes the newest dialog unless its
\* computation is flagged; solveFinished goes on in Refresh.  A dialog that was
\* closed is gone, and its pointer may seem to work.
SolveFinished(t) ==
    /\ gui = "idle"
    /\ At(t, "posted")
    /\ current # Null
    /\ LET closes == isSolved(current) /\ dialog # Null /\ ~computations[dialog].solving
           handled == [threads EXCEPT ![t] = Deleted(t)]
       IN  /\ dialog' = IF closes THEN Null ELSE dialog
           /\ threads' = IF closes THEN Abandoned(handled) ELSE handled
    /\ IF isSolved(current)
       THEN shown' = ForgetShown /\ gui' = "refresh"
       ELSE UNCHANGED <<shown, gui>>
    /\ disk' = Destroyed(disk, Held(registry, current, shown', threads', dialog'))
    /\ UNCHANGED <<computations, registry, current, combo, opens>>

\* doSolveFinished asks a current computation that is none, or tells a dialog
\* that is gone to close; or a thread comes upon memory that was deleted.  The
\* program ends, and leaves its directories.
Crash ==
    /\ \/ /\ gui = "idle"
          /\ \E t \in Threads : At(t, "posted")
          /\ current = Null \/ (isSolved(current) /\ dialog = Null)
       \/ \E t \in Threads : Races(t)
    /\ gui' = "crashed"
    /\ computations' = <<>>
    /\ registry' = <<>>
    /\ current' = Null
    /\ shown' = Null
    /\ dialog' = Null
    /\ threads' = [t \in Threads |-> Deleted(t)]
    /\ UNCHANGED <<combo, disk, opens>>

\* Agros::clearComputations: every registered computation is emptied
ClearComputations ==
    [c \in Objects |-> IF c \in Bound(registry) THEN clearFields(computations[c])
                                                ELSE computations[c]]
FilesCleared ==
    [d \in Directories |-> IF d \in DOMAIN registry /\ disk[d] # Gone THEN 0 ELSE disk[d]]

\* MainWindow::doDeleteSolutions leaves the problem its current computation
DeleteSolutions ==
    /\ WindowIsFree
    /\ registry # <<>>
    /\ computations' = ClearComputations
    /\ registry' = <<>>
    /\ disk' = Destroyed(FilesCleared, Held(<<>>, current, shown, threads, dialog))
    /\ gui' = "refresh"
    /\ UNCHANGED <<current, shown, combo, threads, dialog, opens>>

\* MainWindow::doDocumentNew and doDocumentClose: Problem::clearFieldsAndConfig
NewDocument ==
    /\ WindowIsFree
    /\ current # Null \/ registry # <<>>
    /\ computations' = ClearComputations
    /\ registry' = <<>>
    /\ current' = Null
    /\ disk' = Destroyed(FilesCleared, Held(<<>>, Null, shown, threads, dialog))
    /\ gui' = "refresh"
    /\ UNCHANGED <<shown, combo, threads, dialog, opens>>

\* Problem::readProblemFromAgs: clearFieldsAndConfig, extractDir, a computation
\* registered for every directory.  One that something still holds has kept its
\* directory, not its problem.json: it is found too, without fields.  (Names
\* between those found are of no directory, and nobody holds their objects.)
Open ==
    LET first == Len(computations)
        emptied == Destroyed(FilesCleared, Held(<<>>, Null, shown, threads, dialog))
        left == {d \in Directories \ DOMAIN Document : emptied[d] # Gone}
        found == left \union DOMAIN Document
    IN  /\ WindowIsFree
        /\ opens < MaxOpens
        /\ Document # <<>>
        /\ first + Max(found) <= MaxObjects
        /\ computations' = ClearComputations \o
              [d \in 1 .. Max(found) |-> IF d \in DOMAIN Document
                                         THEN Computation(d, Document[d], 1)
                                         ELSE Computation(d, 0, Null)]
        /\ registry' = [d \in found |-> first + d]
        /\ current' = IF left = {} THEN first + Len(Document) ELSE Null
        /\ disk' = [d \in Directories |->
                       IF d \in DOMAIN Document THEN Document[d] ELSE emptied[d]]
        /\ gui' = "refresh"
        /\ opens' = opens + 1
        /\ UNCHANGED <<shown, combo, threads, dialog>>

\* the user picks another computation in the list of the post-processor
SelectComputation(d) ==
    /\ WindowIsFree
    /\ d \in combo.items \intersect DOMAIN registry
    /\ d # combo.last
    /\ combo' = [combo EXCEPT !.last = d]
    /\ shown' = IF isSolved(registry[d]) THEN shown ELSE registry[d]
    /\ gui' = "refresh"
    /\ disk' = Destroyed(disk, Held(registry, current, shown', threads, dialog))
    /\ UNCHANGED <<computations, registry, current, threads, dialog, opens>>

Solved == {d \in DOMAIN registry : isSolved(registry[d])}

\* fillComboBoxComputation: as many items as before are taken for the same
\* ones; else the last one is selected
Listed ==
    IF Solved = {} THEN Null
    ELSE IF Cardinality(combo.items) # Cardinality(Solved) THEN Max(Solved)
    ELSE IF combo.last \in Solved THEN combo.last
    ELSE Min(Solved)

\* PostprocessorWidget::refresh, with the slots its field widget calls; apply
\* only when another computation is shown than before
Refresh ==
    LET c == IF Listed = Null THEN Null ELSE registry[Listed]
    IN  /\ gui = "refresh"
        /\ gui' = "idle"
        /\ combo' = [items |-> Solved, last |-> Listed]
        /\ shown' = c
        /\ computations' =
              IF c \in {Null, shown} THEN computations
              ELSE [computations EXCEPT ![c].view = computations[c].fields,
                                        ![c].processed = TRUE]
        /\ disk' = Destroyed(disk, Held(registry, current, c, threads, dialog))
        /\ UNCHANGED <<registry, current, threads, dialog, opens>>

----------------------------------------------------------------------------
Next ==
    \/ \E hasFields \in BOOLEAN : SolveNew(hasFields) \/ SolveCurrent(hasFields)
    \/ \E d \in DOMAIN registry : SolveSelected(d)
    \/ \E t \in Threads : ThreadStep(t) \/ SolveFinished(t)
    \/ AbortSolving
    \/ CloseDialog
    \/ Crash
    \/ DeleteSolutions
    \/ NewDocument
    \/ Open
    \/ \E d \in Directories : SelectComputation(d)
    \/ Refresh

\* The solving thread and the event loop go on; the user need not do anything.
Fairness ==
    /\ \A t \in 1 .. MaxSolves :
          /\ WF_vars(t \in Threads /\ ThreadStep(t))
          /\ WF_vars(t \in Threads /\ SolveFinished(t))
    /\ WF_vars(Refresh)

Spec == Init /\ [][Next]_vars /\ Fairness
----------------------------------------------------------------------------
Pcs == {"start", "claim", "clear", "init", "step", "loop", "end", "unflag",
        "recipes", "failed", "posted", "handled"}

TypeOK ==
    /\ \A c \in Objects : computations[c] \in
          [dir : Directories, solving : BOOLEAN, abort : BOOLEAN, steps : 0 .. MaxSteps,
           fields : Nat, view : Nat, processed : BOOLEAN]
    /\ \A d \in DOMAIN registry : d \in Directories /\ registry[d] \in Objects
    /\ {current, shown, dialog} \subseteq Objects \union {Null}
    /\ combo \in [items : SUBSET Directories, last : Directories \union {Null}]
    /\ \A t \in Threads : threads[t] \in
          [pc : Pcs, comp : Objects \union {Null}, fields : Nat,
           left : BOOLEAN, told : BOOLEAN, cut : BOOLEAN]
    /\ gui \in {"idle", "refresh", "crashed"}
    /\ disk \in [Directories -> 0 .. MaxSteps \union {Gone}]
    /\ opens \in 0 .. MaxOpens

\* A solve is cut short only when the user has told this very solve to abort:
\* a flag left over from a solve that failed, or set after the loop was left,
\* never ends a later one (m_abort is reset by clearSolution alone when the
\* solver throws).
AbortIsOfThisSolve ==
    \A t \in Threads : threads[t].cut => threads[t].told

\* The computation a thread solves stays the one doSolveFinished will ask,
\* and the registry still lists it, as long as the dialog of the solve is
\* there: its result can be shown and saved.  It must hold across
\* createComputation(false), which takes the computation the problem
\* remembers, after the solutions were deleted or another was solved, and
\* when the handling of an older solve closes the dialog of a newer one.
SolvedIsRegistered ==
    \A t \in Threads : ~At(t, "handled") /\ ~threads[t].left =>
        /\ threads[t].comp = current
        /\ current \in Bound(registry)

\* Unless a solve was left alone, the program does not crash, and when the
\* window is free the field the post-processor shows is one that the shown
\* computation still has: painting, which asks isSolved() and isProcessed(),
\* never follows a pointer into fields that createComputation or
\* clearComputations deleted.
ShownFieldIsAlive ==
    Patient =>
        /\ gui # "crashed"
        /\ WindowIsFree /\ isSolved(shown) /\ computations[shown].processed =>
              computations[shown].view = computations[shown].fields

\* The solutions a registered computation lists have their files on disk:
\* SolutionStore::multiArray asserts that the mesh file exists.
RegisteredIsOnDisk ==
    \A d \in DOMAIN registry :
        isSolved(registry[d]) => disk[d] = computations[registry[d]].steps

\* An abort that the solver can still see (given after clearSolution, which
\* drops an earlier one) ends the solve, whatever the number of time steps,
\* unless a solve was left alone (another thread may then clear the flag) or
\* is after its end, when the program may crash.
AbortEndsTheSolve ==
    \A t \in 1 .. MaxSolves :
        (/\ Patient
         /\ t \in Threads
         /\ threads[t].pc \in {"init", "step", "loop"}
         /\ computations[threads[t].comp].abort)
        ~> \/ gui = "crashed"
           \/ t \in Threads /\ threads[t].pc \in {"posted", "handled"}

\* A thread that has ended leaves the window usable to a user who has not
\* left it alone: the dialog is closed, or it no longer ignores the user who
\* closes it.
WindowIsUnblocked ==
    \A t \in 1 .. MaxSolves :
        (t \in Threads /\ At(t, "posted"))
        ~> \/ ~Patient
           \/ /\ t \in Threads /\ At(t, "handled")
              /\ dialog # Null => ~computations[dialog].solving
=============================================================================
