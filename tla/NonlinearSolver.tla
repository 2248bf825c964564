-------------------------- MODULE NonlinearSolver --------------------------
(***************************************************************************)
(* AssembleNonlinear solves the equations of one field on one mesh: in one *)
(* go, by Picard's or by Newton's method.  Both damp their steps; Newton's *)
(* method also reuses the Jacobian and searches along the direction of the *)
(* step when the residual grows.  The user may abort at any time; the flag *)
(* is read between two iterations only.                                    *)
(*                                                                         *)
(* Source: agros-library/solver/solver_nonlinear.cpp.                      *)
(*                                                                         *)
(* The equations are not modelled: a residual or a relative change is any  *)
(* member of Norms, where it is computed for an iterate that was not looked *)
(* at before.  Iterates are told apart by how far the current iteration has *)
(* gone along its direction.                                               *)
(***************************************************************************)
EXTENDS Integers

CONSTANTS
    Settings,     \* the settings of the field
    MaxIters,     \* MAX_NUM_NONLIN_ITERS
    Norms,        \* residual norms and relative changes, scaled to numbers
    Hundred,      \* the relative change Picard's method starts from, 100.0
    One,          \* the damping factor 1.0, in units
    MinDamping    \* minAllowedDampingCoeff, in units

Ratio == [num : Nat, den : Nat \ {0}]

ASSUME SettingsAssumption ==
    \A s \in Settings :
        /\ s.linearityType \in {"Linear", "Picard", "Newton"}
        /\ s.dampingType \in {"Automatic", "Fixed", "Off"}
        /\ s.dampingCoeff \in Nat
        /\ s.stepsToIncrease \in Nat \ {0}
        /\ s.decreaseRatio \in Ratio
        /\ s.reuseJacobian \in BOOLEAN
        /\ s.jacobianReuseRatio \in Ratio
        /\ s.maxStepsReuse \in Nat
        /\ s.residualTolerance \in Nat
        /\ s.changeTolerance \in Nat

ASSUME NumbersAssumption ==
    /\ MaxIters \in Nat
    /\ Norms \subseteq Nat
    /\ Hundred \in Norms
    /\ One \in Nat
    /\ MinDamping \in Nat
    /\ MinDamping <= One

VARIABLES
    settings,                \* constant while solving
    pc,                      \* where the solving thread is
    abort,                   \* Computation::m_abort
    iteration,
    criteriaReached,
    dampingFactor,           \* in units
    dampingSuccessfulSteps,
    lastRelChangeSol,        \* Picard's method
    residualNorm,            \* Newton's method
    previousResidualNorm,
    numReusedJacobian,
    \* where the iterate is: how many units of its direction have been added
    \* since the iteration began, where the residual was computed last, and
    \* the iteration that assembled the Jacobian
    step,
    residualOf,
    jacobianOf

iterationVars == <<iteration, criteriaReached>>
dampingVars == <<dampingFactor, dampingSuccessfulSteps>>
newtonVars == <<residualNorm, previousResidualNorm, numReusedJacobian,
                step, residualOf, jacobianOf>>
vars == <<settings, pc, abort, iterationVars, dampingVars, lastRelChangeSol,
          newtonVars>>

Exceeds(norm, ratio, other) == norm * ratio.den > other * ratio.num

Init ==
    /\ settings \in Settings
    /\ pc = "start"
    /\ abort \in BOOLEAN
    /\ iteration = 0
    /\ criteriaReached = FALSE
    /\ dampingFactor = IF settings.dampingType = "Off" THEN One ELSE settings.dampingCoeff
    /\ dampingSuccessfulSteps = 0
    /\ lastRelChangeSol = Hundred
    /\ residualNorm \in Norms
    /\ previousResidualNorm = residualNorm
    /\ numReusedJacobian = 0
    /\ step = 0
    /\ residualOf = 0
    /\ jacobianOf = 0

SolveProblemLinear ==
    /\ pc = "start"
    /\ settings.linearityType = "Linear"
    /\ pc' = "done"
    /\ UNCHANGED <<settings, abort, iterationVars, dampingVars, lastRelChangeSol,
                   newtonVars>>

\* Newton's method has computed the residual of its initial guess.
StartIterations ==
    /\ pc = "start"
    /\ settings.linearityType # "Linear"
    /\ pc' = "loop"
    /\ UNCHANGED <<settings, abort, iterationVars, dampingVars, lastRelChangeSol,
                   newtonVars>>

\* mutated form: one iteration too many
GoesOnOnce == iteration <= MaxIters /\ ~criteriaReached /\ ~abort

GoesOn == iteration < MaxIters /\ ~criteriaReached /\ ~abort

EndIterations ==
    /\ pc = "loop"
    /\ ~GoesOn
    /\ pc' = "done"
    /\ UNCHANGED <<settings, abort, iterationVars, dampingVars, lastRelChangeSol,
                   newtonVars>>

-----------------------------------------------------------------------------
(***************************************************************************)
(* Picard's method.  The factor is halved when the change has grown, and   *)
(* raised by half of it after enough other steps.                          *)
(***************************************************************************)
\* mutated form: raised beyond the factor of the user
PicardRaisedFreely(factor) == (factor * 3) \div 2

PicardRaised(factor) ==
    LET raised == (factor * 3) \div 2
    IN  IF raised > settings.dampingCoeff THEN settings.dampingCoeff
        ELSE IF raised > One THEN One ELSE raised

PicardDamping(relChangeSol) ==
    IF lastRelChangeSol < relChangeSol /\ dampingFactor > MinDamping
    THEN /\ dampingFactor' = dampingFactor \div 2
         /\ dampingSuccessfulSteps' = 0 - 1
    ELSE /\ dampingSuccessfulSteps' = dampingSuccessfulSteps + 1
         /\ dampingFactor' = IF dampingSuccessfulSteps' >= settings.stepsToIncrease
                             THEN PicardRaised(dampingFactor) ELSE dampingFactor

PicardIteration ==
    /\ pc = "loop"
    /\ settings.linearityType = "Picard"
    /\ GoesOn
    /\ iteration' = iteration + 1
    /\ \E relChangeSol \in Norms :
          /\ IF settings.dampingType = "Automatic" THEN PicardDamping(relChangeSol)
             ELSE UNCHANGED dampingVars
          /\ lastRelChangeSol' = relChangeSol
          /\ criteriaReached' = ~(settings.changeTolerance < relChangeSol)
    /\ UNCHANGED <<settings, pc, abort, newtonVars>>

-----------------------------------------------------------------------------
(***************************************************************************)
(* Newton's method.                                                        *)
(***************************************************************************)
\* mutated form: one step too many
ReusedTooOften == numReusedJacobian > settings.maxStepsReuse

\* "Jacobian has been reused too many times. Do not do it this time"
MayNotReuse == numReusedJacobian = settings.maxStepsReuse

BeginNewtonIteration ==
    /\ pc = "loop"
    /\ settings.linearityType = "Newton"
    /\ GoesOn
    /\ iteration' = iteration + 1
    /\ previousResidualNorm' = residualNorm
    /\ numReusedJacobian' = IF MayNotReuse THEN 0 ELSE numReusedJacobian
    /\ pc' = IF ~MayNotReuse /\ iteration' > 1 /\ settings.reuseJacobian
             THEN "reuse" ELSE "full"
    /\ step' = 0
    /\ residualOf' = residualOf - step
    /\ UNCHANGED <<settings, abort, criteriaReached, dampingVars,
                   lastRelChangeSol, residualNorm, jacobianOf>>

\* mutated form: a step that does not reduce the residual is not taken back
ReuseWithoutRevert ==
    /\ pc = "reuse"
    /\ residualNorm' \in Norms
    /\ residualOf' = step + dampingFactor
    /\ step' = step + dampingFactor
    /\ IF residualNorm' * settings.jacobianReuseRatio.den
             < previousResidualNorm * settings.jacobianReuseRatio.num
       THEN numReusedJacobian' = numReusedJacobian + 1 /\ pc' = "criteria"
       ELSE numReusedJacobian' = 0 /\ pc' = "full"
    /\ UNCHANGED <<settings, abort, iterationVars, dampingVars, lastRelChangeSol,
                   previousResidualNorm, jacobianOf>>

\* A step with the old Jacobian is kept when it reduces the residual enough;
\* otherwise it is taken back.
ReuseJacobian ==
    /\ pc = "reuse"
    /\ residualNorm' \in Norms
    /\ residualOf' = step + dampingFactor
    /\ IF residualNorm' * settings.jacobianReuseRatio.den
             < previousResidualNorm * settings.jacobianReuseRatio.num
       THEN /\ step' = step + dampingFactor
            /\ numReusedJacobian' = numReusedJacobian + 1
            /\ pc' = "criteria"
       ELSE /\ step' = step
            /\ numReusedJacobian' = 0
            /\ pc' = "full"
    /\ UNCHANGED <<settings, abort, iterationVars, dampingVars, lastRelChangeSol,
                   previousResidualNorm, jacobianOf>>

FullNewtonStep ==
    /\ pc = "full"
    /\ jacobianOf' = iteration
    /\ step' = step + dampingFactor
    /\ residualOf' = step'
    /\ residualNorm' \in Norms
    /\ pc' = IF settings.dampingType = "Automatic" THEN "lineSearch" ELSE "criteria"
    /\ UNCHANGED <<settings, abort, iterationVars, dampingVars, lastRelChangeSol,
                   previousResidualNorm, numReusedJacobian>>

ResidualGrows == Exceeds(residualNorm, settings.decreaseRatio, previousResidualNorm)

\* mutated form of LineSearch: the residual of the last try is not kept
LineSearchFromStart ==
    /\ pc = "lineSearch"
    /\ ResidualGrows
    /\ dampingSuccessfulSteps' = 0 - 1
    /\ dampingFactor' = IF dampingFactor > MinDamping THEN dampingFactor \div 2
                        ELSE dampingFactor
    /\ step' = step - dampingFactor + dampingFactor'
    /\ residualNorm' \in IF step' = step THEN {residualNorm} ELSE Norms
    /\ residualOf' = step'
    /\ UNCHANGED <<settings, pc, abort, iterationVars, lastRelChangeSol,
                   previousResidualNorm, numReusedJacobian, jacobianOf>>

\* "Take back the previous steps (too long) and make a new one": with the
\* minimal factor the new one is the one that was taken back.
LineSearch ==
    /\ pc = "lineSearch"
    /\ ResidualGrows
    /\ dampingSuccessfulSteps' = 0 - 1
    /\ dampingFactor' = IF dampingFactor > MinDamping THEN dampingFactor \div 2
                        ELSE dampingFactor
    /\ step' = step - dampingFactor + dampingFactor'
    /\ previousResidualNorm' = residualNorm
    /\ residualNorm' \in IF step' = step THEN {residualNorm} ELSE Norms
    /\ residualOf' = step'
    /\ UNCHANGED <<settings, pc, abort, iterationVars, lastRelChangeSol,
                   numReusedJacobian, jacobianOf>>

NewtonRaised(factor) ==
    IF factor * 2 <= settings.dampingCoeff THEN factor * 2 ELSE settings.dampingCoeff

EndLineSearch ==
    /\ pc = "lineSearch"
    /\ ~ResidualGrows
    /\ dampingSuccessfulSteps' = dampingSuccessfulSteps + 1
    /\ dampingFactor' = IF /\ dampingSuccessfulSteps' > 0
                           /\ dampingSuccessfulSteps' >= settings.stepsToIncrease
                        THEN NewtonRaised(dampingFactor) ELSE dampingFactor
    /\ pc' = "criteria"
    /\ UNCHANGED <<settings, abort, iterationVars, lastRelChangeSol, newtonVars>>

\* a tolerance of 0 is not asked for
Reached(tolerance, norm) == tolerance = 0 \/ norm <= tolerance

StopCriteria ==
    /\ pc = "criteria"
    /\ \E relChangeSol \in Norms :
          criteriaReached' = (/\ Reached(settings.residualTolerance, residualNorm)
                              /\ Reached(settings.changeTolerance, relChangeSol))
    /\ pc' = "loop"
    /\ UNCHANGED <<settings, abort, iteration, dampingVars, lastRelChangeSol,
                   newtonVars>>

SolverThread ==
    \/ SolveProblemLinear
    \/ StartIterations
    \/ PicardIteration
    \/ BeginNewtonIteration
    \/ ReuseJacobian
    \/ FullNewtonStep
    \/ LineSearch
    \/ EndLineSearch
    \/ StopCriteria
    \/ EndIterations

\* Computation::abortSolving, called by the thread of the user interface
AbortSolving ==
    /\ pc # "done"
    /\ ~abort
    /\ abort' = TRUE
    /\ UNCHANGED <<settings, pc, iterationVars, dampingVars, lastRelChangeSol,
                   newtonVars>>

Ended == pc = "done" /\ UNCHANGED vars

Next == SolverThread \/ AbortSolving \/ Ended

\* The solving thread runs until solve returns; nobody has to abort.
Spec == Init /\ [][Next]_vars /\ WF_vars(SolverThread)

-----------------------------------------------------------------------------
TypeOK ==
    /\ settings \in Settings
    /\ pc \in {"start", "loop", "reuse", "full", "lineSearch", "criteria", "done"}
    /\ abort \in BOOLEAN
    /\ iteration \in 0..MaxIters
    /\ criteriaReached \in BOOLEAN
    /\ dampingFactor \in Nat
    /\ dampingSuccessfulSteps \in Nat \cup {0 - 1}
    /\ lastRelChangeSol \in Norms
    /\ residualNorm \in Norms
    /\ previousResidualNorm \in Norms
    /\ numReusedJacobian \in Nat
    /\ step \in Int
    /\ residualOf \in Int
    /\ jacobianOf \in Nat

(***************************************************************************)
(* The factor is lowered and raised by either method and stays between     *)
(* half of the minimum and the factor the user has set.                    *)
(***************************************************************************)
Coefficient == IF settings.dampingType = "Off" THEN One ELSE settings.dampingCoeff
LeastFactor == IF Coefficient < MinDamping \div 2 THEN Coefficient ELSE MinDamping \div 2

DampingInRange == LeastFactor <= dampingFactor /\ dampingFactor <= Coefficient

(***************************************************************************)
(* Newton's method judges the iterate it is at: when it checks the         *)
(* criteria or starts an iteration, the residual was computed for that     *)
(* iterate, although steps have been tried and taken back; a step with a   *)
(* new Jacobian starts where the iteration began, and while a line is      *)
(* searched exactly one step of the current length has been made.          *)
(***************************************************************************)
ResidualIsOfIterate ==
    /\ pc \in {"loop", "lineSearch", "criteria"} => residualOf = step
    /\ pc \in {"reuse", "full"} => step = 0
    /\ pc = "lineSearch" => step = dampingFactor

(***************************************************************************)
(* A Jacobian is used for at most maxStepsReuse iterations after the one   *)
(* it was assembled in.                                                    *)
(***************************************************************************)
JacobianIsRecent ==
    pc = "criteria" => iteration - jacobianOf <= settings.maxStepsReuse

(***************************************************************************)
(* The solver ends, since iterations are counted and a line search that    *)
(* has reached the minimal factor sees the same residual again.            *)
(***************************************************************************)
IterationsEnd == <>(pc = "done")

(***************************************************************************)
(* What abortSolving tells the user, "Aborting calculation...": a          *)
(* calculation that is aborted ends.                                       *)
(***************************************************************************)
AbortEnds == abort ~> pc = "done"
=============================================================================
