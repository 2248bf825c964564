----------------------- MODULE NonlinearSolverProofs -----------------------
(***************************************************************************)
(* The safety properties of the nonlinear solver, proved for any settings, *)
(* norms, damping factors and number of iterations.                        *)
(***************************************************************************)
EXTENDS NonlinearSolver, TLAPS

(***************************************************************************)
(* What the counter of reused Jacobians counts: the iterations since the   *)
(* Jacobian was assembled.  Its limit is checked with "=" only, so the     *)
(* limit holds because the counter grows by one, and only below it.        *)
(***************************************************************************)
CounterIsAge ==
    /\ numReusedJacobian <= settings.maxStepsReuse
    /\ iteration = 0 \/ ~settings.reuseJacobian => numReusedJacobian = 0
    /\ pc = "start" => iteration = 0 /\ jacobianOf = 0
    /\ pc \in {"loop", "lineSearch", "criteria"} /\ settings.linearityType = "Newton"
          => iteration - jacobianOf = numReusedJacobian
    /\ pc = "reuse" => /\ numReusedJacobian < settings.maxStepsReuse
                       /\ iteration - jacobianOf = numReusedJacobian + 1
                       /\ settings.reuseJacobian /\ iteration > 0
    /\ pc = "full" => numReusedJacobian = 0

\* Which settings lead to which places; before the first iteration nothing
\* has been added to the iterate.
Places ==
    /\ pc = "start" => step = 0 /\ residualOf = 0
    /\ pc \in {"reuse", "full", "lineSearch", "criteria"} =>
          settings.linearityType = "Newton"
    /\ pc = "lineSearch" => settings.dampingType = "Automatic"

IInv ==
    /\ TypeOK
    /\ DampingInRange
    /\ ResidualIsOfIterate
    /\ Places
    /\ CounterIsAge

(***************************************************************************)
(* What the assumptions say of the settings of the field.                  *)
(***************************************************************************)
LEMMA SettingsType ==
  ASSUME settings \in Settings
  PROVE  /\ settings.dampingCoeff \in Nat /\ settings.maxStepsReuse \in Nat
         /\ settings.reuseJacobian \in BOOLEAN
         /\ Coefficient \in Nat /\ LeastFactor \in Nat
         /\ LeastFactor <= Coefficient
         /\ 2 * LeastFactor <= MinDamping
         /\ LeastFactor <= One
  <1>1. /\ settings.dampingCoeff \in Nat /\ settings.maxStepsReuse \in Nat
        /\ settings.reuseJacobian \in BOOLEAN
    BY SettingsAssumption
  <1>2. Coefficient \in Nat
    BY <1>1, NumbersAssumption DEF Coefficient
  <1>3. MinDamping \div 2 \in Nat /\ 2 * (MinDamping \div 2) <= MinDamping
    BY NumbersAssumption
  <1>. QED  BY <1>1, <1>2, <1>3, NumbersAssumption DEF LeastFactor

(***************************************************************************)
(* Every way to change the factor keeps it in its range: halving it above  *)
(* the minimum, and raising it by either method.                           *)
(***************************************************************************)
LEMMA FactorsInRange ==
  ASSUME TypeOK, DampingInRange
  PROVE  /\ dampingFactor > MinDamping =>
               /\ dampingFactor \div 2 \in Nat
               /\ LeastFactor <= dampingFactor \div 2
               /\ dampingFactor \div 2 <= Coefficient
         /\ settings.dampingType = "Automatic" =>
               /\ PicardRaised(dampingFactor) \in Nat
               /\ LeastFactor <= PicardRaised(dampingFactor)
               /\ PicardRaised(dampingFactor) <= Coefficient
               /\ NewtonRaised(dampingFactor) \in Nat
               /\ LeastFactor <= NewtonRaised(dampingFactor)
               /\ NewtonRaised(dampingFactor) <= Coefficient
  <1>0. /\ dampingFactor \in Nat /\ MinDamping \in Nat /\ One \in Nat
        /\ LeastFactor \in Nat /\ Coefficient \in Nat
        /\ LeastFactor <= Coefficient /\ 2 * LeastFactor <= MinDamping
        /\ LeastFactor <= One /\ settings.dampingCoeff \in Nat
        /\ LeastFactor <= dampingFactor /\ dampingFactor <= Coefficient
    BY SettingsType, NumbersAssumption DEF TypeOK, DampingInRange
  <1>1. ASSUME dampingFactor > MinDamping
        PROVE  /\ dampingFactor \div 2 \in Nat
               /\ LeastFactor <= dampingFactor \div 2
               /\ dampingFactor \div 2 <= Coefficient
    BY <1>0, <1>1
  <1>2. ASSUME settings.dampingType = "Automatic"
        PROVE  /\ PicardRaised(dampingFactor) \in Nat
               /\ LeastFactor <= PicardRaised(dampingFactor)
               /\ PicardRaised(dampingFactor) <= Coefficient
               /\ NewtonRaised(dampingFactor) \in Nat
               /\ LeastFactor <= NewtonRaised(dampingFactor)
               /\ NewtonRaised(dampingFactor) <= Coefficient
    <2>1. Coefficient = settings.dampingCoeff
      BY <1>2 DEF Coefficient
    <2>2. (dampingFactor * 3) \div 2 \in Nat /\ dampingFactor <= (dampingFactor * 3) \div 2
      BY <1>0
    <2>3. /\ PicardRaised(dampingFactor) \in Nat
          /\ LeastFactor <= PicardRaised(dampingFactor)
          /\ PicardRaised(dampingFactor) <= Coefficient
      BY <1>0, <2>1, <2>2 DEF PicardRaised
    <2>. QED  BY <1>0, <2>1, <2>3 DEF NewtonRaised
  <1>. QED  BY <1>1, <1>2

(***************************************************************************)
(* A factor that is left alone stays in its range.                         *)
(***************************************************************************)
LEMMA SameFactor ==
  ASSUME DampingInRange, UNCHANGED <<settings, dampingFactor>>
  PROVE  DampingInRange'
  BY DEF DampingInRange, LeastFactor, Coefficient

(***************************************************************************)
(* The initial states satisfy the invariant.                               *)
(***************************************************************************)
LEMMA InitIInv == Init => IInv
  <1> SUFFICES ASSUME Init PROVE IInv
    OBVIOUS
  <1>1. settings \in Settings
    BY DEF Init
  <1>2. dampingFactor = Coefficient
    BY DEF Init, Coefficient
  <1>3. TypeOK
    <2>1. dampingFactor \in Nat
      BY <1>1, <1>2, SettingsType
    <2>2. Hundred \in Norms
      BY NumbersAssumption
    <2>3. /\ pc = "start" /\ abort \in BOOLEAN /\ criteriaReached = FALSE
          /\ residualNorm \in Norms /\ previousResidualNorm = residualNorm
          /\ iteration = 0 /\ dampingSuccessfulSteps = 0 /\ numReusedJacobian = 0
          /\ lastRelChangeSol = Hundred /\ step = 0 /\ residualOf = 0 /\ jacobianOf = 0
      BY DEF Init
    <2>4. /\ iteration \in 0..MaxIters /\ numReusedJacobian \in Nat /\ jacobianOf \in Nat
          /\ dampingSuccessfulSteps \in Nat /\ step \in Int /\ residualOf \in Int
      BY <2>3, NumbersAssumption
    <2>5. lastRelChangeSol \in Norms /\ previousResidualNorm \in Norms
      BY <2>2, <2>3
    <2>. QED  BY <1>1, <2>1, <2>3, <2>4, <2>5, Zenon DEF TypeOK
  <1>4. DampingInRange
    BY <1>1, <1>2, SettingsType DEF DampingInRange
  <1>5. ResidualIsOfIterate /\ Places
    BY DEF Init, ResidualIsOfIterate, Places
  <1>6. CounterIsAge
    BY <1>1, SettingsType DEF Init, CounterIsAge
  <1>. QED  BY <1>3, <1>4, <1>5, <1>6 DEF IInv

(***************************************************************************)
(* One iteration of Picard's method.                                       *)
(***************************************************************************)
LEMMA PicardKeepsIInv == IInv /\ PicardIteration => IInv'
  <1> SUFFICES ASSUME IInv, PicardIteration PROVE IInv'
    OBVIOUS
  <1>0. TypeOK /\ DampingInRange /\ ResidualIsOfIterate /\ Places /\ CounterIsAge
    BY DEF IInv
  <1>1. PICK relChangeSol \in Norms :
            /\ IF settings.dampingType = "Automatic" THEN PicardDamping(relChangeSol)
               ELSE UNCHANGED dampingVars
            /\ lastRelChangeSol' = relChangeSol
            /\ criteriaReached' = ~(settings.changeTolerance < relChangeSol)
    BY DEF PicardIteration
  <1>2. /\ pc = "loop" /\ settings.linearityType = "Picard" /\ iteration' = iteration + 1
        /\ iteration < MaxIters /\ settings' = settings /\ pc' = pc /\ abort' = abort
        /\ UNCHANGED <<residualNorm, previousResidualNorm, numReusedJacobian,
                       step, residualOf, jacobianOf>>
    BY DEF PicardIteration, GoesOn, newtonVars
  <1>3. /\ dampingFactor' \in Nat /\ dampingSuccessfulSteps' \in Nat \cup {0 - 1}
        /\ DampingInRange'
    <2>1. CASE settings.dampingType # "Automatic"
      BY <1>0, <1>1, <1>2, <2>1, SameFactor DEF dampingVars, TypeOK
    <2>2. CASE settings.dampingType = "Automatic"
      <3>1. /\ \/ dampingFactor' \in {dampingFactor, PicardRaised(dampingFactor)}
               \/ dampingFactor > MinDamping /\ dampingFactor' = dampingFactor \div 2
            /\ dampingSuccessfulSteps' \in {0 - 1, dampingSuccessfulSteps + 1}
        BY <1>1, <2>2 DEF PicardDamping
      <3>2. /\ dampingFactor' \in Nat
            /\ LeastFactor <= dampingFactor' /\ dampingFactor' <= Coefficient
        BY <1>0, <2>2, <3>1, FactorsInRange DEF TypeOK, DampingInRange
      <3>3. LeastFactor' = LeastFactor /\ Coefficient' = Coefficient
        BY <1>2 DEF LeastFactor, Coefficient
      <3>. QED  BY <1>0, <3>1, <3>2, <3>3 DEF TypeOK, DampingInRange
    <2>. QED  BY <2>1, <2>2
  <1>4. TypeOK'
    BY <1>0, <1>1, <1>2, <1>3, NumbersAssumption DEF TypeOK
  <1>5. ResidualIsOfIterate' /\ Places'
    BY <1>0, <1>2 DEF ResidualIsOfIterate, Places
  <1>6. CounterIsAge'
    BY <1>0, <1>2, <1>4 DEF CounterIsAge, TypeOK
  <1>. QED  BY <1>3, <1>4, <1>5, <1>6 DEF IInv

(***************************************************************************)
(* The line search and its end change the damping factor, too.             *)
(***************************************************************************)
LEMMA LineSearchKeepsIInv == IInv /\ LineSearch => IInv'
  <1> SUFFICES ASSUME IInv, LineSearch PROVE IInv'
    OBVIOUS
  <1>0. TypeOK /\ DampingInRange /\ ResidualIsOfIterate /\ Places /\ CounterIsAge
    BY DEF IInv
  <1>1. /\ pc = "lineSearch" /\ pc' = pc /\ settings' = settings
        /\ dampingSuccessfulSteps' = 0 - 1
        /\ dampingFactor' = IF dampingFactor > MinDamping THEN dampingFactor \div 2
                            ELSE dampingFactor
        /\ step' = step - dampingFactor + dampingFactor'
        /\ previousResidualNorm' = residualNorm
        /\ residualNorm' \in {residualNorm} \cup Norms
        /\ residualOf' = step'
        /\ UNCHANGED <<abort, iteration, criteriaReached, lastRelChangeSol,
                       numReusedJacobian, jacobianOf>>
    BY DEF LineSearch, iterationVars
  <1>2. /\ dampingFactor' \in Nat
        /\ LeastFactor <= dampingFactor' /\ dampingFactor' <= Coefficient
    BY <1>0, <1>1, FactorsInRange DEF TypeOK, DampingInRange
  <1>3. DampingInRange'
    BY <1>1, <1>2 DEF DampingInRange, LeastFactor, Coefficient
  <1>4. TypeOK'
    BY <1>0, <1>1, <1>2 DEF TypeOK
  <1>5. step' = dampingFactor'
    BY <1>0, <1>1, <1>2 DEF ResidualIsOfIterate, TypeOK
  <1>6. ResidualIsOfIterate' /\ Places'
    BY <1>0, <1>1, <1>5 DEF ResidualIsOfIterate, Places
  <1>7. CounterIsAge'
    BY <1>0, <1>1 DEF CounterIsAge
  <1>. QED  BY <1>3, <1>4, <1>6, <1>7 DEF IInv

LEMMA EndLineSearchKeepsIInv == IInv /\ EndLineSearch => IInv'
  <1> SUFFICES ASSUME IInv, EndLineSearch PROVE IInv'
    OBVIOUS
  <1>0. /\ TypeOK /\ DampingInRange /\ ResidualIsOfIterate /\ Places /\ CounterIsAge
        /\ settings.dampingType = "Automatic"
    BY DEF IInv, Places, EndLineSearch
  <1>1. /\ pc = "lineSearch" /\ pc' = "criteria" /\ settings' = settings
        /\ dampingSuccessfulSteps' = dampingSuccessfulSteps + 1
        /\ dampingFactor' \in {dampingFactor, NewtonRaised(dampingFactor)}
        /\ UNCHANGED <<abort, iteration, criteriaReached, lastRelChangeSol,
                       residualNorm, previousResidualNorm, numReusedJacobian,
                       step, residualOf, jacobianOf>>
    BY DEF EndLineSearch, iterationVars, newtonVars
  <1>2. /\ dampingFactor' \in Nat
        /\ LeastFactor <= dampingFactor' /\ dampingFactor' <= Coefficient
    BY <1>0, <1>1, FactorsInRange DEF TypeOK, DampingInRange
  <1>3. DampingInRange'
    BY <1>1, <1>2 DEF DampingInRange, LeastFactor, Coefficient
  <1>4. TypeOK'
    BY <1>0, <1>1, <1>2 DEF TypeOK
  <1>5. ResidualIsOfIterate' /\ Places'
    BY <1>0, <1>1 DEF ResidualIsOfIterate, Places
  <1>6. CounterIsAge'
    BY <1>0, <1>1 DEF CounterIsAge
  <1>. QED  BY <1>3, <1>4, <1>5, <1>6 DEF IInv

(***************************************************************************)
(* Actions of either method that leave the damping factor alone.  Each     *)
(* keeps the type, the bookkeeping of the iterate and the counter.         *)
(***************************************************************************)
LEMMA OtherStepsKeepIInv ==
  ASSUME IInv,
         \/ SolveProblemLinear \/ StartIterations \/ EndIterations
         \/ BeginNewtonIteration \/ ReuseJacobian \/ FullNewtonStep
         \/ StopCriteria \/ AbortSolving \/ UNCHANGED vars
  PROVE  IInv'
  <1> USE DEF iterationVars, dampingVars, newtonVars
  <1>0. /\ TypeOK /\ DampingInRange /\ ResidualIsOfIterate /\ Places /\ CounterIsAge
        /\ settings.maxStepsReuse \in Nat
    BY SettingsType DEF IInv, TypeOK
  <1>1. UNCHANGED <<settings, dampingFactor, dampingSuccessfulSteps>>
    BY DEF SolveProblemLinear, StartIterations, EndIterations, BeginNewtonIteration,
           ReuseJacobian, FullNewtonStep, StopCriteria, AbortSolving, vars
  <1>2. DampingInRange'
    BY <1>0, <1>1, SameFactor
  <1>3. CASE SolveProblemLinear \/ StartIterations \/ EndIterations
    BY <1>0, <1>2, <1>3
    DEF SolveProblemLinear, StartIterations, EndIterations, IInv, TypeOK,
        ResidualIsOfIterate, Places, CounterIsAge
  <1>4. CASE BeginNewtonIteration
    <2>1. TypeOK'
      BY <1>0, <1>4, NumbersAssumption DEF BeginNewtonIteration, GoesOn, TypeOK
    <2>2. ResidualIsOfIterate' /\ Places'
      BY <1>0, <1>4 DEF BeginNewtonIteration, ResidualIsOfIterate, Places, TypeOK
    <2>3. CounterIsAge'
      BY <1>0, <1>4 DEF BeginNewtonIteration, MayNotReuse, CounterIsAge, TypeOK
    <2>. QED  BY <1>2, <2>1, <2>2, <2>3 DEF IInv
  <1>5. CASE ReuseJacobian
    <2>1. TypeOK'
      BY <1>0, <1>5 DEF ReuseJacobian, TypeOK
    <2>2. ResidualIsOfIterate' /\ Places'
      BY <1>0, <1>5 DEF ReuseJacobian, ResidualIsOfIterate, Places
    <2>3. CounterIsAge'
      BY <1>0, <1>5 DEF ReuseJacobian, CounterIsAge, TypeOK
    <2>. QED  BY <1>2, <2>1, <2>2, <2>3 DEF IInv
  <1>6. CASE FullNewtonStep
    <2>1. TypeOK'
      BY <1>0, <1>6 DEF FullNewtonStep, TypeOK
    <2>2. ResidualIsOfIterate' /\ Places'
      BY <1>0, <1>6 DEF FullNewtonStep, ResidualIsOfIterate, Places, TypeOK
    <2>3. CounterIsAge'
      BY <1>0, <1>6 DEF FullNewtonStep, CounterIsAge, TypeOK
    <2>. QED  BY <1>2, <2>1, <2>2, <2>3 DEF IInv
  <1>7. CASE StopCriteria
    <2>1. /\ criteriaReached' \in BOOLEAN /\ pc = "criteria" /\ pc' = "loop"
          /\ UNCHANGED <<settings, abort, iteration, dampingVars, lastRelChangeSol,
                         newtonVars>>
      BY <1>7 DEF StopCriteria
    <2>2. TypeOK'
      BY <1>0, <2>1 DEF TypeOK
    <2>3. ResidualIsOfIterate' /\ Places' /\ CounterIsAge'
      BY <1>0, <2>1 DEF ResidualIsOfIterate, Places, CounterIsAge
    <2>. QED  BY <1>2, <2>2, <2>3 DEF IInv
  <1>8. CASE AbortSolving \/ UNCHANGED vars
    BY <1>0, <1>2, <1>8
    DEF AbortSolving, vars, IInv, TypeOK, ResidualIsOfIterate, Places, CounterIsAge
  <1>. QED  BY <1>3, <1>4, <1>5, <1>6, <1>7, <1>8

\* Every step keeps the invariant.
LEMMA NextKeepsIInv == IInv /\ [Next]_vars => IInv'
  BY PicardKeepsIInv, LineSearchKeepsIInv, EndLineSearchKeepsIInv, OtherStepsKeepIInv
  DEF Next, SolverThread, Ended

\* The invariant holds in every reachable state.
THEOREM SpecIInv == Spec => []IInv
  BY InitIInv, NextKeepsIInv, PTL DEF Spec

\* Every variable of the nonlinear solver keeps its type.
THEOREM SpecTypeOK == Spec => []TypeOK
  <1>1. IInv => TypeOK
    BY DEF IInv
  <1>. QED  BY <1>1, SpecIInv, PTL

\* Halving and raising keep the damping factor between half of the minimum
\* and the factor the user has set, whatever the residuals do.
THEOREM SpecDampingInRange == Spec => []DampingInRange
  <1>1. IInv => DampingInRange
    BY DEF IInv
  <1>. QED  BY <1>1, SpecIInv, PTL

\* The residual that is judged is the one of the iterate Newton's method is at.
THEOREM SpecResidualIsOfIterate == Spec => []ResidualIsOfIterate
  <1>1. IInv => ResidualIsOfIterate
    BY DEF IInv
  <1>. QED  BY <1>1, SpecIInv, PTL

\* No Jacobian is used for more iterations than the user allows.
THEOREM SpecJacobianIsRecent == Spec => []JacobianIsRecent
  <1>1. IInv => JacobianIsRecent
    BY DEF IInv, CounterIsAge, Places, JacobianIsRecent
  <1>. QED  BY <1>1, SpecIInv, PTL
=============================================================================
