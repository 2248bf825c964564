------------------------- MODULE SolveSessionProofs -------------------------
(***************************************************************************)
(* The invariants of a session, proved for any archive and any numbers of  *)
(* computations, solves and solutions.                                     *)
(***************************************************************************)
EXTENDS SolveSession, FiniteSetTheorems, SequenceTheorems, TLAPS

(***************************************************************************)
(* A non-empty set of natural numbers has a smallest element: of the       *)
(* finite sets of what is smaller than one of its elements, one contains   *)
(* no other.                                                               *)
(***************************************************************************)
LEMMA SmallestExists ==
  ASSUME NEW S, S \subseteq Nat, S # {}
  PROVE  \E m \in S : \A x \in S : m <= x
  <1>1. PICK n \in S : TRUE
    OBVIOUS
  <1> DEFINE B == {x \in S : x <= n}
             Below(x) == {y \in B : y < x}
             F == {Below(x) : x \in B}
  <1>2. IsFiniteSet(B)
    BY <1>1, FS_BoundedSetOfNaturals
  <1>3. F \subseteq FiniteSubsetsOf(B)
    <2>1. \A x \in B : Below(x) \in SUBSET B
      OBVIOUS
    <2>2. FiniteSubsetsOf(B) = SUBSET B
      BY <1>2, FS_FiniteSubsetsOfFinite
    <2>. QED  BY <2>1, <2>2
  <1>4. F # {}
    <2>1. n \in B /\ Below(n) \in F
      BY <1>1
    <2>. QED  BY <2>1
  <1>5. IsWellFoundedOn(StrictSubsetOrdering(B), FiniteSubsetsOf(B))
    BY FS_StrictSubsetOrderingWellFounded
  <1>6. PICK U \in F : \A V \in F : <<V, U>> \notin StrictSubsetOrdering(B)
    <2> HIDE DEF F, B
    <2>. QED  BY <1>3, <1>4, <1>5, WFMin
  <1>7. PICK m \in B : U = Below(m)
    BY <1>6
  <1>8. ASSUME NEW y \in B, y < m PROVE FALSE
    <2>1. Below(y) \in F /\ Below(y) \in SUBSET B /\ U \in SUBSET B
      BY <1>7, <1>8
    <2>2. y \in U /\ y \notin Below(y)
      BY <1>7, <1>8
    <2>3. ASSUME NEW z \in Below(y) PROVE z \in U
      <3>1. z \in B /\ z < y
        BY <2>3
      <3>2. z < m
        BY <3>1, <1>7, <1>8
      <3>. QED  BY <3>1, <3>2, <1>7
    <2>4. Below(y) # U
      BY <2>2
    <2>5. <<Below(y), U>> \in StrictSubsetOrdering(B)
      <3> HIDE DEF Below, B
      <3>. QED  BY <2>1, <2>3, <2>4 DEF StrictSubsetOrdering
    <2>. QED  BY <1>6, <2>1, <2>5
  <1>9. ASSUME NEW x \in S PROVE m <= x
    <2>1. CASE x \in B
      BY <1>8, <2>1
    <2>2. CASE x \notin B
      BY <1>1, <1>7, <2>2
    <2>. QED  BY <2>1, <2>2
  <1>. QED  BY <1>7, <1>9

(***************************************************************************)
(* Max and Min of a non-empty set of directories are among them.           *)
(***************************************************************************)
LEMMA LargestExists ==
  ASSUME NEW S, NEW b \in Nat, S \subseteq 0 .. b, S # {}
  PROVE  \E m \in S : \A x \in S : m >= x
  <1> DEFINE T == {b - x : x \in S}
  <1>1. \A x \in S : x \in Nat /\ b - x \in Nat /\ b - x \in T
    OBVIOUS
  <1>2. PICK t \in T : \A u \in T : t <= u
    <2>1. T \subseteq Nat /\ T # {}
      <3>1. T \subseteq Nat
        BY <1>1
      <3>. QED  BY <3>1, <1>1
    <2> HIDE DEF T
    <2>. QED  BY <2>1, SmallestExists
  <1>3. PICK m \in S : t = b - m
    BY <1>2
  <1>4. ASSUME NEW x \in S PROVE m >= x
    <2>1. b - m <= b - x
      BY <1>1, <1>2, <1>3
    <2>. QED  BY <1>1, <2>1
  <1>. QED  BY <1>4

(***************************************************************************)
(* The choices Min and Max of a non-empty set fall among its members.      *)
(***************************************************************************)
LEMMA MinMaxAreMembers ==
  ASSUME NEW S, NEW b \in Nat, S \subseteq 0 .. b, S # {}
  PROVE  Min(S) \in S /\ Max(S) \in S
  <1>1. S \subseteq Nat
    OBVIOUS
  <1>2. \E m \in S : \A x \in S : m <= x
    BY <1>1, SmallestExists
  <1>3. \E m \in S : \A x \in S : m >= x
    BY LargestExists
  <1>. QED  BY <1>2, <1>3, Zenon DEF Min, Max

(***************************************************************************)
(* The choice Max of a non-empty set is as large as any member.            *)
(***************************************************************************)
LEMMA MaxIsLargest ==
  ASSUME NEW S, NEW b \in Nat, S \subseteq 0 .. b, S # {}
  PROVE  Max(S) \in S /\ \A x \in S : Max(S) >= x
  <1>1. \E m \in S : \A x \in S : m >= x
    BY LargestExists
  <1>. QED  BY <1>1, Zenon DEF Max

(***************************************************************************)
(* A stored solution never takes the number of solutions past its bound.   *)
(***************************************************************************)
LEMMA NextStepIsInRange ==
  ASSUME NEW n \in 0 .. MaxSteps
  PROVE  Min({MaxSteps, n + 1}) \in 0 .. MaxSteps
  <1> DEFINE S == {MaxSteps, n + 1}
  <1>1. S \subseteq Nat /\ S # {} /\ MaxSteps \in S
    BY BoundsAssumption
  <1>2. PICK m \in S : \A x \in S : m <= x
    BY <1>1, SmallestExists
  <1>3. Min(S) \in S /\ \A x \in S : Min(S) <= x
    BY <1>2, Zenon DEF Min
  <1>. QED  BY <1>1, <1>3, BoundsAssumption

----------------------------------------------------------------------------
(***************************************************************************)
(* Types with the shapes of the sequences, which TypeOK leaves open, and   *)
(* that a thread which has not been deleted has a computation.             *)
(***************************************************************************)
ComputationType ==
    [dir : Directories, solving : BOOLEAN, abort : BOOLEAN, steps : 0 .. MaxSteps,
     fields : Nat, view : Nat, processed : BOOLEAN]

ThreadType ==
    [pc : Pcs, comp : Nat, fields : Nat, left : BOOLEAN, told : BOOLEAN, cut : BOOLEAN]

FilesType == [Directories -> 0 .. MaxSteps \union {Gone}]

Typed ==
    /\ computations \in Seq(ComputationType)
    /\ threads \in Seq(ThreadType)
    /\ \A t \in Threads :
          /\ threads[t].comp \in Objects \union {Null}
          /\ At(t, "handled") \/ threads[t].comp \in Objects
    /\ \A d \in DOMAIN registry : d \in Directories /\ registry[d] \in Objects
    /\ {current, shown, dialog} \subseteq Objects \union {Null}
    /\ combo \in [items : SUBSET Directories, last : Directories \union {Null}]
    /\ gui \in {"idle", "refresh", "crashed"}
    /\ disk \in FilesType
    /\ opens \in 0 .. MaxOpens

(***************************************************************************)
(* Names of directories are natural numbers up to a bound.                 *)
(***************************************************************************)
LEMMA DirectoriesAreBounded ==
  /\ MaxObjects + Len(Document) \in Nat
  /\ Directories \subseteq 0 .. (MaxObjects + Len(Document))
  /\ DOMAIN Document = 1 .. Len(Document)
  /\ DOMAIN Document \subseteq Directories
  /\ \A d \in DOMAIN Document : Document[d] \in 1 .. MaxSteps
  <1>1. /\ Len(Document) \in Nat
        /\ DOMAIN Document = 1 .. Len(Document)
        /\ \A d \in DOMAIN Document : Document[d] \in 1 .. MaxSteps
    BY DocumentAssumption, LenProperties
  <1>. QED  BY <1>1, BoundsAssumption DEF Directories

(***************************************************************************)
(* What a step of a solving thread does: it changes its own thread, which  *)
(* is not deleted, and flags, steps and files of its own computation.      *)
(***************************************************************************)
LEMMA ThreadStepEffect ==
  ASSUME Typed, NEW t \in Threads, ThreadStep(t)
  PROVE  LET c == threads[t].comp IN
         /\ OnlyThread
         /\ c \in Objects
         /\ threads' \in Seq(ThreadType) /\ Len(threads') = Len(threads)
         /\ \A u \in Threads \ {t} : threads'[u] = threads[u]
         /\ threads'[t].comp = c /\ threads'[t].told = threads[t].told
         /\ threads'[t].fields = threads[t].fields /\ threads'[t].left = threads[t].left
         /\ ~At(t, "handled") /\ ~At(t, "handled")'
         /\ computations' \in Seq(ComputationType)
         /\ Len(computations') = Len(computations)
         /\ \A d \in Objects \ {c} : computations'[d] = computations[d]
         /\ computations'[c].fields = computations[c].fields
         /\ computations'[c].view = computations[c].view
         /\ computations'[c].processed = computations[c].processed
         /\ disk' \in FilesType
  <1> DEFINE c == threads[t].comp
  <1>1. /\ computations \in Seq(ComputationType) /\ threads \in Seq(ThreadType)
        /\ Len(computations) \in Nat /\ Len(threads) \in Nat
        /\ threads[t] \in ThreadType
        /\ disk \in FilesType
    BY DEF Typed, Threads
  <1>2. OnlyThread
    BY DEF ThreadStep, Guard, Claim, Clear, SolveInit, Step, AskAborted, EndSolve,
           Unflag, Failed, EvaluateRecipes
  <1>3. ~At(t, "handled")
    BY DEF ThreadStep, Guard, Claim, Clear, SolveInit, Step, AskAborted, EndSolve,
           Unflag, Failed, EvaluateRecipes, At
  <1>4. c \in Objects /\ computations[c] \in ComputationType
    BY <1>1, <1>3 DEF Typed, Objects
  <1>5. PICK p \in Pcs \ {"handled"}, b \in BOOLEAN :
           threads' = [threads EXCEPT ![t] = [threads[t] EXCEPT !.pc = p, !.cut = b]]
    <2>1. ASSUME NEW p \in Pcs, Goto(t, p)
          PROVE  threads' = [threads EXCEPT ![t] = [threads[t] EXCEPT
                                !.pc = p, !.cut = threads[t].cut]]
      BY <1>1, <2>1 DEF Goto, ThreadType
    <2>2. threads[t].cut \in BOOLEAN
      BY <1>1 DEF ThreadType
    <2>3. CASE AskAborted(t)
      <3>1. computations[c].abort \in BOOLEAN
        BY <1>4 DEF ComputationType
      <3>2. threads' = [threads EXCEPT ![t] = [threads[t] EXCEPT
                !.pc = IF computations[c].abort THEN "end" ELSE "step",
                !.cut = computations[c].abort]]
        BY <1>1, <2>3 DEF AskAborted, ThreadType
      <3>. QED  BY <3>1, <3>2 DEF Pcs
    <2>4. CASE \E p \in Pcs \ {"handled"} : Goto(t, p)
      BY <2>1, <2>2, <2>4
    <2>. QED  BY <2>3, <2>4
              DEF ThreadStep, Guard, Claim, Clear, SolveInit, Step, EndSolve,
                  Unflag, Failed, EvaluateRecipes, Pcs
  <1>6. /\ threads' \in Seq(ThreadType) /\ Len(threads') = Len(threads)
        /\ \A u \in Threads \ {t} : threads'[u] = threads[u]
        /\ threads'[t].comp = c /\ threads'[t].told = threads[t].told
        /\ threads'[t].fields = threads[t].fields /\ threads'[t].left = threads[t].left
        /\ ~At(t, "handled")'
    <2> DEFINE r == [threads[t] EXCEPT !.pc = p, !.cut = b]
    <2>1. /\ r \in ThreadType /\ r.comp = c /\ r.told = threads[t].told /\ r.pc # "handled"
          /\ r.fields = threads[t].fields /\ r.left = threads[t].left
      BY <1>1, <1>5 DEF ThreadType
    <2>2. threads' = [threads EXCEPT ![t] = r]
      BY <1>5
    <2> HIDE DEF r
    <2>. QED  BY <1>1, <2>1, <2>2, ExceptSeq DEF Threads, At
  <1>7. PICK s \in BOOLEAN, a \in BOOLEAN, n \in 0 .. MaxSteps :
           computations' = [computations EXCEPT
               ![c] = [computations[c] EXCEPT !.solving = s, !.abort = a, !.steps = n]]
    <2> DEFINE is(s, a, n) == computations' = [computations EXCEPT ![c] =
                  [computations[c] EXCEPT !.solving = s, !.abort = a, !.steps = n]]
               cs == computations[c].solving
               ca == computations[c].abort
               cn == computations[c].steps
    <2>1. cs \in BOOLEAN /\ ca \in BOOLEAN /\ cn \in 0 .. MaxSteps /\ 0 \in 0 .. MaxSteps
      BY <1>4, BoundsAssumption DEF ComputationType
    <2>2. CASE UNCHANGED computations
      <3>1. [computations[c] EXCEPT !.solving = cs, !.abort = ca, !.steps = cn]
              = computations[c]
        BY <1>4 DEF ComputationType
      <3>2. computations = [computations EXCEPT ![c] = computations[c]]
        BY <1>1, <1>4 DEF Objects
      <3>3. is(cs, ca, cn)
        BY <2>2, <3>1, <3>2
      <3>. QED  BY <2>1, <3>3
    <2>3. CASE Claim(t)
      <3>1. is(TRUE, ca, cn)
        BY <1>1, <1>4, <2>3 DEF ComputationType, Objects, Claim
      <3>. QED  BY <2>1, <3>1
    <2>4. CASE Clear(t)
      <3>1. is(cs, FALSE, 0)
        BY <1>1, <1>4, <2>4 DEF ComputationType, Objects, Clear, clearSolution
      <3>. QED  BY <2>1, <3>1
    <2>5. CASE EndSolve(t)
      <3>1. is(cs, FALSE, cn)
        BY <1>1, <1>4, <2>5 DEF ComputationType, Objects, EndSolve
      <3>. QED  BY <2>1, <3>1
    <2>6. CASE Unflag(t) \/ Failed(t)
      <3>1. is(FALSE, ca, cn)
        BY <1>1, <1>4, <2>6 DEF ComputationType, Objects, Unflag, Failed
      <3>. QED  BY <2>1, <3>1
    <2>7. ASSUME NEW pc \in {"loop", "end", "failed"}, Step(t, pc), pc # "failed"
          PROVE  \E m \in 0 .. MaxSteps : is(cs, ca, m)
      <3> DEFINE m == Min({MaxSteps, computations[c].steps + 1})
      <3>1. m \in 0 .. MaxSteps
        BY <2>1, BoundsAssumption, NextStepIsInRange
      <3>2. is(cs, ca, m)
        BY <1>1, <1>4, <2>7 DEF ComputationType, Objects, Step
      <3>. QED  BY <3>1, <3>2
    <2>8. ASSUME NEW pc \in {"loop", "end", "failed"}, Step(t, pc), pc = "failed"
          PROVE  UNCHANGED computations
      BY <2>8 DEF Step
    <2>. QED
      <3>1. CASE \E pc \in {"loop", "end", "failed"} : Step(t, pc)
        BY <2>1, <2>2, <2>7, <2>8, <3>1
      <3>2. CASE UNCHANGED computations \/ Claim(t) \/ Clear(t) \/ EndSolve(t)
                 \/ Unflag(t) \/ Failed(t)
        BY <2>2, <2>3, <2>4, <2>5, <2>6, <3>2
      <3>. QED  BY <3>1, <3>2 DEF ThreadStep, Guard, SolveInit, AskAborted, EvaluateRecipes
  <1>8. /\ computations' \in Seq(ComputationType)
        /\ Len(computations') = Len(computations)
        /\ \A d \in Objects \ {c} : computations'[d] = computations[d]
        /\ computations'[c].fields = computations[c].fields
        /\ computations'[c].view = computations[c].view
        /\ computations'[c].processed = computations[c].processed
    <2> DEFINE r == [computations[c] EXCEPT !.solving = s, !.abort = a, !.steps = n]
    <2>1. r \in ComputationType /\ r.fields = computations[c].fields
          /\ r.view = computations[c].view /\ r.processed = computations[c].processed
      BY <1>4, <1>7 DEF ComputationType
    <2>2. computations' = [computations EXCEPT ![c] = r]
      BY <1>7
    <2> HIDE DEF r
    <2>. QED  BY <1>1, <1>4, <2>1, <2>2, ExceptSeq DEF Objects
  <1>9. disk' \in FilesType
    <2>1. ASSUME NEW d, NEW m \in 0 .. MaxSteps
          PROVE  WithFiles(disk, d, m) \in FilesType
      BY <1>1 DEF WithFiles, FilesType
    <2>2. 0 \in 0 .. MaxSteps
      BY BoundsAssumption
    <2>3. CASE UNCHANGED disk
      BY <1>1, <2>3
    <2>4. CASE Clear(t)
      BY <2>1, <2>2, <2>4 DEF Clear
    <2>5. ASSUME NEW pc \in {"loop", "end", "failed"}, Step(t, pc)
          PROVE  disk' \in FilesType
      <3>1. Min({MaxSteps, computations[c].steps + 1}) \in 0 .. MaxSteps
        BY <1>4, BoundsAssumption, NextStepIsInRange DEF ComputationType
      <3>2. CASE pc = "failed"
        BY <1>1, <2>5, <3>2 DEF Step
      <3>3. CASE pc # "failed"
        <4>1. disk' = WithFiles(disk, computations[c].dir,
                                Min({MaxSteps, computations[c].steps + 1}))
          BY <2>5, <3>3 DEF Step
        <4>. QED  BY <2>1, <3>1, <4>1
      <3>. QED  BY <3>2, <3>3
    <2>. QED
      BY <2>3, <2>4, <2>5 DEF ThreadStep, Guard, Claim, SolveInit, AskAborted,
                              EndSolve, Unflag, Failed, EvaluateRecipes
  <1>. QED  BY <1>2, <1>3, <1>4, <1>6, <1>8, <1>9

(***************************************************************************)
(* clearFields and the clearing of a registry keep the shape.              *)
(***************************************************************************)
LEMMA ClearedFields ==
  ASSUME NEW x \in ComputationType
  PROVE  /\ clearFields(x) \in ComputationType
         /\ clearFields(x).steps = 0 /\ clearFields(x).abort = FALSE
  <1> DEFINE y == clearSolution(x)
  <1>1. y \in ComputationType /\ y.steps = 0 /\ y.abort = FALSE
    <2>1. 0 \in 0 .. MaxSteps
      BY BoundsAssumption
    <2>2. y = [x EXCEPT !.abort = FALSE, !.steps = 0]
      BY DEF clearSolution
    <2> HIDE DEF y
    <2>. QED  BY <2>1, <2>2 DEF ComputationType
  <1>2. clearFields(x) = [y EXCEPT !.fields = 0]
    BY DEF clearFields, Null
  <1> HIDE DEF y
  <1>. QED  BY <1>1, <1>2 DEF ComputationType

(***************************************************************************)
(* Clearing the registered computations keeps their number and shapes.     *)
(***************************************************************************)
LEMMA ClearedComputations ==
  ASSUME Typed
  PROVE  /\ ClearComputations \in Seq(ComputationType)
         /\ Len(ClearComputations) = Len(computations)
         /\ FilesCleared \in FilesType
         /\ \A c \in Objects :
               \/ ClearComputations[c] = computations[c]
               \/ ClearComputations[c].steps = 0 /\ ClearComputations[c].abort = FALSE
  <1> DEFINE f(c) == IF c \in Bound(registry) THEN clearFields(computations[c])
                                              ELSE computations[c]
  <1>1. Len(computations) \in Nat /\ \A c \in 1 .. Len(computations) :
            computations[c] \in ComputationType
    BY DEF Typed
  <1>2. \A c \in 1 .. Len(computations) :
            /\ f(c) \in ComputationType
            /\ f(c) = computations[c] \/ (f(c).steps = 0 /\ f(c).abort = FALSE)
    BY <1>1, ClearedFields
  <1>3. ClearComputations = [c \in 1 .. Len(computations) |-> f(c)]
    BY DEF ClearComputations, Objects
  <1>4. FilesCleared \in FilesType
    BY BoundsAssumption DEF Typed, FilesCleared, FilesType
  <1> HIDE DEF f
  <1>. QED  BY <1>1, <1>2, <1>3, <1>4 DEF Objects

(***************************************************************************)
(* Removing directories of destroyed computations leaves numbers of files. *)
(***************************************************************************)
LEMMA DestroyedType ==
  ASSUME NEW files \in FilesType, NEW held
  PROVE  Destroyed(files, held) \in FilesType
  <1> DEFINE gone(d) == \E c \in Held(registry, current, shown, threads, dialog) \ held :
                           computations[c].dir = d
  <1>1. Destroyed(files, held) = [d \in Directories |-> IF gone(d) THEN Gone ELSE files[d]]
    BY DEF Destroyed
  <1> HIDE DEF gone
  <1>. QED  BY <1>1 DEF FilesType

(***************************************************************************)
(* StartSolve adds one thread.                                             *)
(***************************************************************************)
Started(c, f) ==
    [pc |-> "start", comp |-> c, fields |-> f, left |-> FALSE, told |-> FALSE, cut |-> FALSE]

LEMMA StartSolveEffect ==
  ASSUME Typed, NEW c \in Nat, NEW f \in Nat, StartSolve(c, f)
  PROVE  /\ threads' \in Seq(ThreadType)
         /\ Len(threads') = Len(threads) + 1 /\ Len(threads) \in Nat
         /\ \A t \in Threads : threads'[t] = threads[t]
         /\ threads'[Len(threads) + 1] = Started(c, f)
         /\ dialog' = c /\ current' = c
  <1> DEFINE r == Started(c, f)
  <1>1. r \in ThreadType
    BY DEF ThreadType, Pcs, Started
  <1>2. threads' = Append(threads, r) /\ dialog' = c /\ current' = c
    BY DEF StartSolve, Started
  <1>3. threads \in Seq(ThreadType)
    BY DEF Typed
  <1> HIDE DEF r
  <1>4. /\ threads' \in Seq(ThreadType)
        /\ Len(threads') = Len(threads) + 1 /\ Len(threads) \in Nat
        /\ \A t \in Threads : threads'[t] = threads[t]
        /\ threads'[Len(threads) + 1] = r
    BY <1>1, <1>2, <1>3 DEF Threads
  <1>. QED  BY <1>2, <1>4 DEF r

(***************************************************************************)
(* Every command that solves starts a thread, with the fields its          *)
(* computation has from then on.                                           *)
(***************************************************************************)
LEMMA SolveStarts ==
  ASSUME Typed,
         \/ \E hasFields \in BOOLEAN : SolveNew(hasFields) \/ SolveCurrent(hasFields)
         \/ \E d \in DOMAIN registry : SolveSelected(d)
  PROVE  \E c \in Nat, f \in Nat :
            /\ StartSolve(c, f) /\ c # Null
            /\ computations'[c].fields = f
            /\ shown \notin {c, Null} => computations'[shown] = computations[shown]
            /\ \/ c \in Bound(registry')
               \/ c = current /\ registry # <<>> /\ registry' = registry
            /\ WindowIsFree /\ gui' = gui /\ shown' = shown
  <1>1. computations \in Seq(ComputationType) /\ Len(computations) \in Nat
        /\ Len(threads) \in Nat /\ shown \in Objects \union {Null}
    BY DEF Typed
  <1>2. ASSUME NEW hasFields \in BOOLEAN, SolveNew(hasFields)
        PROVE  \E c \in Nat, f \in Nat :
                  /\ StartSolve(c, f) /\ c # Null
                  /\ computations'[c].fields = f
                  /\ shown \notin {c, Null} => computations'[shown] = computations[shown]
                  /\ \/ c \in Bound(registry')
                     \/ c = current /\ registry # <<>> /\ registry' = registry
                  /\ WindowIsFree /\ gui' = gui /\ shown' = shown
    <2> DEFINE c == Len(computations) + 1
               f == IF hasFields THEN 1 ELSE Null
               n == Computation(NewDirectory, 0, f)
    <2>1. /\ computations' = Append(computations, n)
          /\ registry' = [e \in DOMAIN registry \union {NewDirectory} |->
                             IF e = NewDirectory THEN c ELSE registry[e]]
          /\ StartSolve(c, f) /\ WindowIsFree /\ gui' = gui /\ shown' = shown
      BY <1>2 DEF SolveNew
    <2>2. NewDirectory \in DOMAIN registry' /\ registry'[NewDirectory] = c
      BY <2>1
    <2>3. c \in Bound(registry')
      BY <2>2 DEF Bound
    <2>4. c \in Nat /\ f \in Nat /\ c # Null
      BY <1>1 DEF Null
    <2>5. n.fields = f
      BY DEF Computation
    <2> HIDE DEF n, f
    <2>6. computations'[c] = n /\ \A b \in Objects : computations'[b] = computations[b]
      BY <1>1, <2>1 DEF Objects
    <2>. QED  BY <1>1, <2>1, <2>3, <2>4, <2>5, <2>6
  <1>3. ASSUME NEW hasFields \in BOOLEAN, SolveCurrent(hasFields)
        PROVE  \E c \in Nat, f \in Nat :
                  /\ StartSolve(c, f) /\ c # Null
                  /\ computations'[c].fields = f
                  /\ shown \notin {c, Null} => computations'[shown] = computations[shown]
                  /\ \/ c \in Bound(registry')
                     \/ c = current /\ registry # <<>> /\ registry' = registry
                  /\ WindowIsFree /\ gui' = gui /\ shown' = shown
    <2> DEFINE c == Reused
               f == IF hasFields THEN 2 + Len(threads) ELSE Null
               y == clearFields(computations[c])
               n == [y EXCEPT !.fields = f]
    <2>1. /\ computations' = [computations EXCEPT ![c] = n] /\ c # Null
          /\ StartSolve(c, f) /\ WindowIsFree /\ gui' = gui /\ shown' = shown
          /\ registry' = registry
      BY <1>3 DEF SolveCurrent
    <2>2. c = current /\ registry # <<>>
      BY <2>1 DEF Reused
    <2>3. c \in Objects /\ c \in Nat /\ f \in Nat
      BY <1>1, <2>1, <2>2 DEF Typed, Objects, Null
    <2>4. y \in ComputationType
      <3>1. computations[c] \in ComputationType
        BY <1>1, <2>3 DEF Objects
      <3> HIDE DEF c
      <3>. QED  BY <3>1, ClearedFields
    <2> HIDE DEF y, f, c
    <2>5. n.fields = f
      BY <2>4 DEF ComputationType
    <2> HIDE DEF n
    <2>6. computations'[c] = n /\ \A b \in Objects \ {c} : computations'[b] = computations[b]
      BY <1>1, <2>1, <2>3 DEF Objects
    <2>. QED  BY <1>1, <2>1, <2>2, <2>3, <2>5, <2>6
  <1>4. ASSUME NEW d \in DOMAIN registry, SolveSelected(d)
        PROVE  \E c \in Nat, f \in Nat :
                  /\ StartSolve(c, f) /\ c # Null
                  /\ computations'[c].fields = f
                  /\ shown \notin {c, Null} => computations'[shown] = computations[shown]
                  /\ \/ c \in Bound(registry')
                     \/ c = current /\ registry # <<>> /\ registry' = registry
                  /\ WindowIsFree /\ gui' = gui /\ shown' = shown
    <2> DEFINE c == registry[d]
               f == computations[c].fields
    <2>1. /\ StartSolve(c, f) /\ WindowIsFree
          /\ UNCHANGED <<computations, registry, shown, gui>>
      BY <1>4 DEF SolveSelected
    <2>2. c \in Objects /\ c \in Bound(registry)
      BY DEF Typed, Bound
    <2> HIDE DEF c
    <2>3. c \in Nat /\ c # Null /\ f \in Nat
      <3>1. computations[c] \in ComputationType
        BY <1>1, <2>2 DEF Objects
      <3>2. f \in Nat
        BY <3>1 DEF ComputationType
      <3>3. c \in Nat /\ c # Null
        BY <1>1, <2>2 DEF Objects, Null
      <3>. QED  BY <3>2, <3>3
    <2>. QED  BY <2>1, <2>2, <2>3
  <1>. QED  BY <1>2, <1>3, <1>4

(***************************************************************************)
(* The directory that is listed last is one of those that are solved.      *)
(***************************************************************************)
LEMMA ListedIsSolved ==
  ASSUME Typed
  PROVE  Listed \in Solved \/ (Listed = Null /\ Solved = {})
  <1>1. Solved \subseteq Directories
    BY DEF Typed, Solved
  <1>2. CASE Solved = {}
    BY <1>2 DEF Listed
  <1>3. CASE Solved # {}
    <2>1. Min(Solved) \in Solved /\ Max(Solved) \in Solved
      BY <1>1, <1>3, DirectoriesAreBounded, MinMaxAreMembers
    <2>. QED  BY <1>3, <2>1 DEF Listed
  <1>. QED  BY <1>2, <1>3

(***************************************************************************)
(* The shapes are stronger than the type invariant.                        *)
(***************************************************************************)
LEMMA TypedImpliesTypeOK == Typed => TypeOK
  <1> SUFFICES ASSUME Typed PROVE TypeOK
    OBVIOUS
  <1>1. \A c \in Objects : computations[c] \in ComputationType
    BY DEF Typed, Objects
  <1>2. ASSUME NEW t \in Threads
        PROVE  threads[t] \in [pc : Pcs, comp : Objects \union {Null}, fields : Nat,
                               left : BOOLEAN, told : BOOLEAN, cut : BOOLEAN]
    <2>1. threads[t] \in ThreadType /\ threads[t].comp \in Objects \union {Null}
      BY DEF Typed, Threads
    <2>. QED  BY <2>1 DEF ThreadType
  <1>. QED  BY <1>1, <1>2 DEF Typed, TypeOK, ComputationType, FilesType

(***************************************************************************)
(* Every step keeps the types.                                             *)
(***************************************************************************)
LEMMA SolveTyped ==
  ASSUME Typed, NEW hasFields \in BOOLEAN, SolveNew(hasFields) \/ SolveCurrent(hasFields)
  PROVE  Typed'
  <1>1. CASE SolveNew(hasFields)
    <2> DEFINE c == Len(computations) + 1
               d == NewDirectory
               f == IF hasFields THEN 1 ELSE Null
               n == Computation(d, 0, f)
    <2>1. /\ d \in Directories
          /\ computations' = Append(computations, n)
          /\ registry' = [e \in DOMAIN registry \union {d} |->
                             IF e = d THEN c ELSE registry[e]]
          /\ StartSolve(c, f)
          /\ disk' = [Destroyed(disk, Held(registry', c, shown, threads', c)) EXCEPT ![d] = 0]
          /\ UNCHANGED <<shown, combo, gui, opens>>
      BY <1>1 DEF SolveNew
    <2>2. Len(computations) \in Nat /\ c \in Nat /\ f \in Nat
      BY DEF Typed, Null
    <2>3. n \in ComputationType
      BY <2>1, BoundsAssumption DEF ComputationType, Computation, Null
    <2> HIDE DEF d, n, f
    <2>4. computations' \in Seq(ComputationType) /\ Len(computations') = c
      BY <2>1, <2>3 DEF Typed
    <2>5. Objects' = Objects \union {c}
      BY <2>2, <2>4 DEF Objects
    <2>6. /\ threads' \in Seq(ThreadType)
          /\ Len(threads') = Len(threads) + 1 /\ Len(threads) \in Nat
          /\ \A t \in Threads : threads'[t] = threads[t]
          /\ threads'[Len(threads) + 1] = Started(c, f)
          /\ dialog' = c /\ current' = c
      BY <2>1, <2>2, StartSolveEffect
    <2>7. \A t \in Threads' : /\ threads'[t].comp \in Objects' \union {Null}
                              /\ At(t, "handled")' \/ threads'[t].comp \in Objects'
      BY <2>5, <2>6 DEF Typed, Threads, At, Started
    <2>8. \A e \in DOMAIN registry' : e \in Directories /\ registry'[e] \in Objects'
      BY <2>1, <2>5 DEF Typed
    <2>9. disk' \in FilesType
      <3> DEFINE files == Destroyed(disk, Held(registry', c, shown, threads', c))
      <3>1. files \in FilesType
        BY DestroyedType DEF Typed
      <3>2. disk' = [files EXCEPT ![d] = 0] /\ 0 \in 0 .. MaxSteps
        BY <2>1, BoundsAssumption
      <3> HIDE DEF files
      <3>. QED  BY <3>1, <3>2 DEF FilesType
    <2>. QED  BY <2>1, <2>4, <2>5, <2>6, <2>7, <2>8, <2>9 DEF Typed
  <1>2. CASE SolveCurrent(hasFields)
    <2> DEFINE c == Reused
               f == IF hasFields THEN 2 + Len(threads) ELSE Null
               n == [clearFields(computations[c]) EXCEPT !.fields = f]
    <2>1. /\ c # Null
          /\ computations' = [computations EXCEPT ![c] = n]
          /\ StartSolve(c, f)
          /\ disk' = WithFiles(disk, computations[c].dir, 0)
          /\ UNCHANGED <<registry, shown, combo, gui, opens>>
      BY <1>2 DEF SolveCurrent
    <2>2. /\ c \in Objects /\ Len(computations) \in Nat /\ Len(threads) \in Nat /\ c \in Nat
          /\ f \in Nat
      BY <2>1 DEF Typed, Reused, Objects, Null
    <2>3. n \in ComputationType
      <3>1. clearFields(computations[c]) \in ComputationType
        <4>1. computations[c] \in ComputationType
          BY <2>2 DEF Typed, Objects
        <4>. QED  BY <4>1, ClearedFields
      <3>. QED  BY <2>2, <3>1 DEF ComputationType, Null
    <2> HIDE DEF c, n, f
    <2>4. computations' \in Seq(ComputationType) /\ Len(computations') = Len(computations)
      BY <2>1, <2>2, <2>3, ExceptSeq DEF Typed, Objects
    <2>5. Objects' = Objects
      BY <2>4 DEF Objects
    <2>6. /\ threads' \in Seq(ThreadType)
          /\ Len(threads') = Len(threads) + 1
          /\ \A t \in Threads : threads'[t] = threads[t]
          /\ threads'[Len(threads) + 1] = Started(c, f)
          /\ dialog' = c /\ current' = c
      BY <2>1, <2>2, StartSolveEffect
    <2>7. \A t \in Threads' : /\ threads'[t].comp \in Objects' \union {Null}
                              /\ At(t, "handled")' \/ threads'[t].comp \in Objects'
      <3>1. \A t \in Threads' : t \in Threads \/ t = Len(threads) + 1
        BY <2>2, <2>6 DEF Threads
      <3>2. \A t \in Threads : /\ threads'[t].comp \in Objects \union {Null}
                               /\ At(t, "handled")' \/ threads'[t].comp \in Objects
        BY <2>6 DEF Typed, At
      <3>3. threads'[Len(threads) + 1].comp \in Objects
        BY <2>2, <2>6 DEF Started
      <3>. QED  BY <2>5, <3>1, <3>2, <3>3
    <2>8. disk' \in FilesType
      <3>1. disk \in FilesType /\ 0 \in 0 .. MaxSteps
        BY BoundsAssumption DEF Typed
      <3>. QED  BY <2>1, <3>1 DEF FilesType, WithFiles
    <2>. QED  BY <2>1, <2>2, <2>4, <2>5, <2>6, <2>7, <2>8 DEF Typed
  <1>. QED  BY <1>1, <1>2

(***************************************************************************)
(* Solving a selected computation keeps the shapes.                        *)
(***************************************************************************)
LEMMA SolveSelectedTyped ==
  ASSUME Typed, NEW d \in DOMAIN registry, SolveSelected(d)
  PROVE  Typed'
  <1> DEFINE c == registry[d]
             f == computations[c].fields
  <1>1. c \in Objects /\ c \in Nat /\ f \in Nat
    <2>1. c \in Objects /\ computations[c] \in ComputationType
      BY DEF Typed, Objects
    <2>. QED  BY <2>1 DEF Objects, ComputationType
  <1>2. /\ StartSolve(c, f)
        /\ disk' = Destroyed(disk, Held(registry, c, shown, threads', c))
        /\ UNCHANGED <<computations, registry, shown, combo, gui, opens>>
    BY DEF SolveSelected
  <1> HIDE DEF c, f
  <1>3. disk' \in FilesType
    BY <1>2, DestroyedType DEF Typed
  <1>4. /\ threads' \in Seq(ThreadType)
        /\ Len(threads') = Len(threads) + 1 /\ Len(threads) \in Nat
        /\ \A t \in Threads : threads'[t] = threads[t]
        /\ threads'[Len(threads) + 1] = Started(c, f)
        /\ dialog' = c /\ current' = c
    BY <1>1, <1>2, StartSolveEffect
  <1>5. Objects' = Objects
    BY <1>2 DEF Objects
  <1>6. \A t \in Threads' : /\ threads'[t].comp \in Objects' \union {Null}
                            /\ At(t, "handled")' \/ threads'[t].comp \in Objects'
    BY <1>1, <1>4, <1>5 DEF Typed, Threads, At, Started
  <1>. QED  BY <1>1, <1>2, <1>3, <1>4, <1>5, <1>6 DEF Typed

(***************************************************************************)
(* A step of a solving thread keeps the shapes.                            *)
(***************************************************************************)
LEMMA ThreadStepTyped ==
  ASSUME Typed, NEW t \in Threads, ThreadStep(t)
  PROVE  Typed'
  <1> DEFINE c == threads[t].comp
  <1>1. /\ UNCHANGED <<registry, current, shown, combo, dialog, gui, opens>>
        /\ c \in Objects
        /\ threads' \in Seq(ThreadType) /\ Len(threads') = Len(threads)
        /\ \A u \in Threads \ {t} : threads'[u] = threads[u]
        /\ threads'[t].comp = c
        /\ computations' \in Seq(ComputationType)
        /\ Len(computations') = Len(computations)
        /\ disk' \in FilesType
    BY ThreadStepEffect DEF OnlyThread
  <1>2. Objects' = Objects /\ Threads' = Threads
    BY <1>1 DEF Objects, Threads
  <1>3. \A u \in Threads : /\ threads'[u].comp \in Objects \union {Null}
                           /\ At(u, "handled")' \/ threads'[u].comp \in Objects
    BY <1>1 DEF Typed, At
  <1>. QED  BY <1>1, <1>2, <1>3 DEF Typed

(***************************************************************************)
(* When the dialog goes away, every thread that has not been handled is    *)
(* left alone, and nothing else of it changes.                             *)
(***************************************************************************)
SameButLeft(x, y) ==
    /\ x.pc = y.pc /\ x.comp = y.comp /\ x.fields = y.fields
    /\ x.told = y.told /\ x.cut = y.cut
    /\ y.left => x.left

LEMMA AbandonedEffect ==
  ASSUME NEW thr \in Seq(ThreadType), Len(thr) = Len(threads)
  PROVE  /\ Abandoned(thr) \in Seq(ThreadType)
         /\ Len(Abandoned(thr)) = Len(threads)
         /\ \A t \in Threads : /\ SameButLeft(Abandoned(thr)[t], thr[t])
                               /\ thr[t].pc # "handled" => Abandoned(thr)[t].left
                               /\ thr[t].pc = "handled" =>
                                     Abandoned(thr)[t].left = thr[t].left
  <1> DEFINE s(t) == [thr[t] EXCEPT !.left = @ \/ thr[t].pc # "handled"]
  <1>1. ASSUME NEW t \in Threads
        PROVE  /\ s(t) \in ThreadType /\ SameButLeft(s(t), thr[t])
               /\ thr[t].pc # "handled" => s(t).left
               /\ thr[t].pc = "handled" => s(t).left = thr[t].left
    <2>1. thr[t] \in ThreadType
      BY DEF Threads
    <2>. QED  BY <2>1 DEF ThreadType, SameButLeft
  <1>2. Abandoned(thr) = [t \in 1 .. Len(threads) |-> s(t)] /\ Len(threads) \in Nat
    BY DEF Abandoned, Threads
  <1> HIDE DEF s
  <1>3. /\ Abandoned(thr) \in Seq(ThreadType) /\ Len(Abandoned(thr)) = Len(threads)
        /\ \A t \in Threads : Abandoned(thr)[t] = s(t)
    BY <1>1, <1>2 DEF Threads
  <1>. QED  BY <1>1, <1>3

(***************************************************************************)
(* What is left of a thread that deletes itself.                           *)
(***************************************************************************)
LEMMA DeletedThread ==
  ASSUME Typed, NEW t \in Threads
  PROVE  /\ Deleted(t) \in ThreadType
         /\ Deleted(t).pc = "handled" /\ Deleted(t).comp = Null
         /\ Deleted(t).left = threads[t].left
         /\ Deleted(t).told = FALSE /\ Deleted(t).cut = FALSE
  <1>1. threads[t] \in ThreadType
    BY DEF Typed, Threads
  <1>2. threads[t].left \in BOOLEAN
    BY <1>1 DEF ThreadType
  <1>. QED  BY <1>2 DEF Deleted, ThreadType, Pcs, Null

(***************************************************************************)
(* doSolveFinished deletes its own thread.  The other threads it leaves    *)
(* alone when it closes the dialog, or does not touch.                     *)
(***************************************************************************)
LEMMA SolveFinishedEffect ==
  ASSUME Typed, NEW t \in Threads, SolveFinished(t)
  PROVE  /\ threads' \in Seq(ThreadType) /\ Len(threads') = Len(threads)
         /\ \A u \in Threads \ {t} : SameButLeft(threads'[u], threads[u])
         /\ SameButLeft(threads'[t], Deleted(t))
         /\ \/ dialog' = dialog /\ \A u \in Threads \ {t} : threads'[u] = threads[u]
            \/ dialog' = Null /\ \A u \in Threads :
                                   threads'[u].pc # "handled" => threads'[u].left
         /\ dialog' \in {dialog, Null} /\ shown' \in {shown, Null}
         /\ gui = "idle" /\ gui' \in {"idle", "refresh"}
         /\ UNCHANGED <<computations, registry, current, combo, opens>>
  <1> DEFINE handled == [threads EXCEPT ![t] = Deleted(t)]
             closes == isSolved(current) /\ dialog # Null /\ ~computations[dialog].solving
  <1>1. Deleted(t) \in ThreadType
    BY DeletedThread
  <1>2. /\ threads' = IF closes THEN Abandoned(handled) ELSE handled
        /\ dialog' = IF closes THEN Null ELSE dialog
        /\ shown' \in {shown, Null}
        /\ gui = "idle" /\ gui' \in {"idle", "refresh"}
        /\ UNCHANGED <<computations, registry, current, combo, opens>>
    BY DEF SolveFinished, ForgetShown
  <1>3. /\ handled \in Seq(ThreadType) /\ Len(handled) = Len(threads)
        /\ \A u \in Threads \ {t} : handled[u] = threads[u]
        /\ handled[t] = Deleted(t)
    BY <1>1, ExceptSeq DEF Typed, Threads
  <1> HIDE DEF closes, handled
  <1>4. CASE closes
    BY <1>2, <1>3, <1>4, AbandonedEffect DEF SameButLeft
  <1>5. CASE ~closes
    BY <1>2, <1>3, <1>5 DEF SameButLeft
  <1>. QED  BY <1>2, <1>4, <1>5

(***************************************************************************)
(* doSolveFinished keeps the shapes.                                       *)
(***************************************************************************)
LEMMA SolveFinishedTyped ==
  ASSUME Typed, NEW t \in Threads, SolveFinished(t)
  PROVE  Typed'
  <1>1. /\ threads' \in Seq(ThreadType) /\ Len(threads') = Len(threads)
        /\ \A u \in Threads \ {t} : SameButLeft(threads'[u], threads[u])
        /\ SameButLeft(threads'[t], Deleted(t))
        /\ dialog' \in {dialog, Null} /\ shown' \in {shown, Null}
        /\ gui' \in {"idle", "refresh"}
        /\ UNCHANGED <<computations, registry, current, combo, opens>>
    BY SolveFinishedEffect
  <1>2. Objects' = Objects /\ Threads' = Threads
    BY <1>1 DEF Objects, Threads
  <1>3. \A u \in Threads : /\ threads'[u].comp \in Objects \union {Null}
                           /\ At(u, "handled")' \/ threads'[u].comp \in Objects
    <2>1. threads'[t].comp = Null /\ threads'[t].pc = "handled"
      BY <1>1 DEF Deleted, SameButLeft
    <2>2. ASSUME NEW u \in Threads \ {t}
          PROVE  threads'[u].comp = threads[u].comp /\ threads'[u].pc = threads[u].pc
      BY <1>1 DEF SameButLeft
    <2>3. \A u \in Threads : /\ threads[u].comp \in Objects \union {Null}
                             /\ threads[u].pc = "handled" \/ threads[u].comp \in Objects
      BY DEF Typed, At
    <2>. QED  BY <2>1, <2>2, <2>3 DEF At
  <1>4. disk' \in FilesType
    BY DestroyedType DEF Typed, SolveFinished
  <1>. QED  BY <1>1, <1>2, <1>3, <1>4 DEF Typed

(***************************************************************************)
(* A crash leaves only the files and what was counted.                     *)
(***************************************************************************)
LEMMA CrashEffect ==
  ASSUME Typed, Crash
  PROVE  /\ computations' = <<>> /\ registry' = <<>> /\ gui' = "crashed"
         /\ current' = Null /\ shown' = Null /\ dialog' = Null
         /\ UNCHANGED <<combo, disk, opens>>
         /\ threads' \in Seq(ThreadType) /\ Len(threads') = Len(threads)
         /\ \A t \in Threads : threads'[t] = Deleted(t)
  <1>1. \A t \in Threads : Deleted(t) \in ThreadType
    BY DeletedThread
  <1>2. threads' = [t \in 1 .. Len(threads) |-> Deleted(t)] /\ Len(threads) \in Nat
    BY DEF Crash, Threads, Typed
  <1>3. /\ threads' \in Seq(ThreadType) /\ Len(threads') = Len(threads)
        /\ \A t \in Threads : threads'[t] = Deleted(t)
    <2> HIDE DEF Deleted
    <2>. QED  BY <1>1, <1>2 DEF Threads
  <1>. QED  BY <1>3 DEF Crash

(***************************************************************************)
(* What is left after a crash has the shapes.                              *)
(***************************************************************************)
LEMMA CrashTyped ==
  ASSUME Typed, Crash
  PROVE  Typed'
  <1>1. /\ computations' = <<>> /\ registry' = <<>> /\ gui' = "crashed"
        /\ current' = Null /\ shown' = Null /\ dialog' = Null
        /\ UNCHANGED <<combo, disk, opens>>
        /\ threads' \in Seq(ThreadType) /\ Len(threads') = Len(threads)
        /\ \A t \in Threads : threads'[t] = Deleted(t)
    BY CrashEffect
  <1>2. computations' \in Seq(ComputationType) /\ DOMAIN registry' = {} /\ Threads' = Threads
    BY <1>1 DEF Threads
  <1>3. \A t \in Threads : threads'[t].comp = Null /\ At(t, "handled")'
    BY <1>1, DeletedThread DEF At
  <1>. QED  BY <1>1, <1>2, <1>3 DEF Typed

(***************************************************************************)
(* An abort raises the flag of one computation and tells its threads.      *)
(***************************************************************************)
LEMMA AbortSolvingEffect ==
  ASSUME Typed, AbortSolving
  PROVE  /\ dialog \in Objects
         /\ computations' \in Seq(ComputationType)
         /\ Len(computations') = Len(computations)
         /\ \A c \in Objects : /\ c # dialog => computations'[c] = computations[c]
                               /\ computations'[c].steps = computations[c].steps
                               /\ computations'[c].fields = computations[c].fields
                               /\ computations'[c].view = computations[c].view
                               /\ computations'[c].processed = computations[c].processed
         /\ threads' \in Seq(ThreadType) /\ Len(threads') = Len(threads)
         /\ \A t \in Threads :
               /\ threads'[t].comp = threads[t].comp
               /\ threads'[t].pc = threads[t].pc
               /\ threads'[t].cut = threads[t].cut
               /\ threads'[t].left = threads[t].left
               /\ threads'[t].fields = threads[t].fields
               /\ threads[t].told => threads'[t].told
               /\ threads[t].comp = dialog => threads'[t].told
  <1>1. /\ dialog \in Objects
        /\ computations' = [computations EXCEPT ![dialog] =
                               [computations[dialog] EXCEPT !.abort = TRUE]]
        /\ threads' = [t \in Threads |->
                          [threads[t] EXCEPT !.told = @ \/ threads[t].comp = dialog]]
    BY DEF Typed, AbortSolving
  <1>2. computations \in Seq(ComputationType) /\ computations[dialog] \in ComputationType
    BY <1>1 DEF Typed, Objects
  <1> DEFINE r == [computations[dialog] EXCEPT !.abort = TRUE]
             s(t) == [threads[t] EXCEPT !.told = @ \/ threads[t].comp = dialog]
  <1>3. /\ r \in ComputationType /\ r.steps = computations[dialog].steps
        /\ r.fields = computations[dialog].fields
        /\ r.view = computations[dialog].view
        /\ r.processed = computations[dialog].processed
    BY <1>2 DEF ComputationType
  <1>4. ASSUME NEW t \in Threads
        PROVE  /\ s(t) \in ThreadType
               /\ s(t).comp = threads[t].comp /\ s(t).pc = threads[t].pc
               /\ s(t).cut = threads[t].cut /\ s(t).left = threads[t].left
               /\ s(t).fields = threads[t].fields
               /\ threads[t].told => s(t).told
               /\ threads[t].comp = dialog => s(t).told
    <2>1. threads[t] \in ThreadType
      BY DEF Typed, Threads
    <2>. QED  BY <2>1 DEF ThreadType
  <1>5. Len(threads) \in Nat
    BY DEF Typed
  <1>6. threads' = [t \in 1 .. Len(threads) |-> s(t)]
    BY <1>1 DEF Threads
  <1>7. computations' = [computations EXCEPT ![dialog] = r]
    BY <1>1
  <1> HIDE DEF r, s
  <1>8. /\ computations' \in Seq(ComputationType)
        /\ Len(computations') = Len(computations)
        /\ \A c \in Objects : computations'[c] = IF c = dialog THEN r ELSE computations[c]
    <2>1. dialog \in 1 .. Len(computations) /\ r \in ComputationType
      BY <1>1, <1>3 DEF Objects
    <2>. QED  BY <1>2, <1>7, <2>1, ExceptSeq DEF Objects
  <1>9. /\ threads' \in Seq(ThreadType) /\ Len(threads') = Len(threads)
        /\ \A t \in Threads : threads'[t] = s(t)
    <2>1. \A t \in 1 .. Len(threads) : s(t) \in ThreadType
      BY <1>4 DEF Threads
    <2>2. threads' \in [1 .. Len(threads) -> ThreadType]
      BY <1>6, <2>1
    <2>3. threads' \in Seq(ThreadType)
      BY <1>5, <2>2
    <2>4. Len(threads') = Len(threads)
      BY <1>5, <1>6, <2>3
    <2>. QED  BY <1>6, <2>3, <2>4 DEF Threads
  <1>10. \A c \in Objects :
            /\ c # dialog => computations'[c] = computations[c]
            /\ computations'[c].steps = computations[c].steps
            /\ computations'[c].fields = computations[c].fields
            /\ computations'[c].view = computations[c].view
            /\ computations'[c].processed = computations[c].processed
    BY <1>3, <1>8
  <1>11. \A t \in Threads :
            /\ threads'[t].comp = threads[t].comp
            /\ threads'[t].pc = threads[t].pc
            /\ threads'[t].cut = threads[t].cut
            /\ threads'[t].left = threads[t].left
            /\ threads'[t].fields = threads[t].fields
            /\ threads[t].told => threads'[t].told
            /\ threads[t].comp = dialog => threads'[t].told
    BY <1>4, <1>9
  <1>12. dialog \in Objects
    BY <1>1
  <1>13. computations' \in Seq(ComputationType) /\ Len(computations') = Len(computations)
    BY <1>8
  <1>14. threads' \in Seq(ThreadType) /\ Len(threads') = Len(threads)
    BY <1>9
  <1>. QED  BY <1>10, <1>11, <1>12, <1>13, <1>14

(***************************************************************************)
(* An abort keeps the shapes.                                              *)
(***************************************************************************)
LEMMA AbortSolvingTyped ==
  ASSUME Typed, AbortSolving
  PROVE  Typed'
  <1>1. /\ computations' \in Seq(ComputationType)
        /\ Len(computations') = Len(computations)
        /\ threads' \in Seq(ThreadType) /\ Len(threads') = Len(threads)
        /\ \A t \in Threads : /\ threads'[t].comp = threads[t].comp
                              /\ threads'[t].pc = threads[t].pc
    BY AbortSolvingEffect
  <1>2. Objects' = Objects /\ Threads' = Threads
    BY <1>1 DEF Objects, Threads
  <1>3. \A u \in Threads : /\ threads'[u].comp \in Objects \union {Null}
                           /\ At(u, "handled")' \/ threads'[u].comp \in Objects
    BY <1>1 DEF Typed, At
  <1>. QED  BY <1>1, <1>2, <1>3 DEF Typed, AbortSolving

(***************************************************************************)
(* Commands that clear every registered computation and start nothing.     *)
(***************************************************************************)
LEMMA ClearingTyped ==
  ASSUME Typed, DeleteSolutions \/ NewDocument
  PROVE  Typed'
  <1>1. /\ computations' = ClearComputations /\ registry' = <<>>
        /\ current' \in {current, Null} /\ gui' = "refresh"
        /\ UNCHANGED <<shown, combo, threads, dialog, opens>>
    BY DEF DeleteSolutions, NewDocument
  <1>2. disk' \in FilesType
    <2>1. \A held : Destroyed(FilesCleared, held) \in FilesType
      BY ClearedComputations, DestroyedType
    <2>. QED  BY <2>1 DEF DeleteSolutions, NewDocument
  <1>3. computations' \in Seq(ComputationType) /\ Len(computations') = Len(computations)
    BY <1>1, ClearedComputations
  <1>4. Objects' = Objects /\ Threads' = Threads /\ DOMAIN registry' = {}
    BY <1>1, <1>3 DEF Objects, Threads
  <1>. QED  BY <1>1, <1>2, <1>3, <1>4 DEF Typed, At

(***************************************************************************)
(* Opening adds a computation for every directory of the archive.          *)
(***************************************************************************)
LEMMA OpenEffect ==
  ASSUME Typed, Open
  PROVE  \E last \in Directories, found \in SUBSET Directories :
         LET first == Len(computations) IN
         /\ first \in Nat /\ last \in Nat /\ found \subseteq 1 .. last
         /\ computations' \in Seq(ComputationType)
         /\ Len(computations') = first + last
         /\ \A c \in Objects : computations'[c] = ClearComputations[c]
         /\ registry' = [d \in found |-> first + d]
         /\ current' = Null \/ \E d \in found : current' = first + d
         /\ UNCHANGED <<shown, combo, threads, dialog>>
  <1> DEFINE first == Len(computations)
             emptied == Destroyed(FilesCleared, Held(<<>>, Null, shown, threads, dialog))
             left == {d \in Directories \ DOMAIN Document : emptied[d] # Gone}
             found == left \union DOMAIN Document
             last == Max(found)
             new == [d \in 1 .. last |-> IF d \in DOMAIN Document
                                         THEN Computation(d, Document[d], 1)
                                         ELSE Computation(d, 0, Null)]
  <1>1. /\ first \in Nat /\ Len(Document) \in Nat \ {0}
        /\ DOMAIN Document = 1 .. Len(Document) /\ Len(Document) \in DOMAIN Document
    <2>1. Document \in Seq(1 .. MaxSteps) /\ Document # <<>>
      BY DocumentAssumption DEF Open
    <2>. QED  BY <2>1, EmptySeq, LenProperties DEF Typed
  <1>2. /\ last \in Directories /\ last \in Nat /\ found \subseteq 1 .. last
        /\ found \subseteq Directories /\ 1 .. last \subseteq Directories
    <2>1. left \subseteq Directories /\ DOMAIN Document \subseteq Directories
      BY DirectoriesAreBounded
    <2>2. found \subseteq Directories /\ found # {}
      BY <1>1, <2>1
    <2> HIDE DEF found
    <2>3. PICK b \in Nat : Directories = 1 .. b
      BY BoundsAssumption, DocumentAssumption DEF Directories
    <2>4. found \subseteq 0 .. b
      BY <2>2, <2>3
    <2>5. last \in found /\ \A x \in found : last >= x
      BY <2>2, <2>4, MaxIsLargest
    <2> HIDE DEF last
    <2>6. last \in 1 .. b /\ last \in Nat
      BY <2>2, <2>3, <2>5
    <2>7. found \subseteq 1 .. last
      <3> SUFFICES ASSUME NEW x \in found PROVE x \in 1 .. last
        OBVIOUS
      <3>1. x \in 1 .. b /\ last >= x
        BY <2>2, <2>3, <2>5
      <3>. QED  BY <2>6, <3>1
    <2>8. 1 .. last \subseteq 1 .. b
      BY <2>3, <2>6
    <2>. QED  BY <2>2, <2>3, <2>6, <2>7, <2>8
  <1>3. new \in Seq(ComputationType) /\ Len(new) = last
    <2>1. \A d \in 1 .. last :
             (IF d \in DOMAIN Document THEN Computation(d, Document[d], 1)
              ELSE Computation(d, 0, Null)) \in ComputationType
      BY <1>2, DirectoriesAreBounded, BoundsAssumption DEF Computation, ComputationType, Null
    <2> HIDE DEF last
    <2>. QED  BY <1>2, <2>1
  <1>4. /\ computations' = ClearComputations \o new
        /\ registry' = [d \in found |-> first + d]
        /\ current' = IF left = {} THEN first + Len(Document) ELSE Null
        /\ UNCHANGED <<shown, combo, threads, dialog>>
    BY DEF Open
  <1>5. current' = Null \/ \E d \in found : current' = first + d
    BY <1>1, <1>4
  <1> HIDE DEF new, found, last
  <1>6. ClearComputations \in Seq(ComputationType) /\ Len(ClearComputations) = first
    BY ClearedComputations
  <1>7. /\ computations' \in Seq(ComputationType)
        /\ Len(computations') = first + last
        /\ \A c \in Objects : computations'[c] = ClearComputations[c]
    <2> DEFINE old == ClearComputations
    <2>1. old \in Seq(ComputationType) /\ Len(old) = first
      BY <1>6
    <2>2. computations' = old \o new
      BY <1>4
    <2> HIDE DEF old
    <2>3. /\ old \o new \in Seq(ComputationType)
          /\ Len(old \o new) = Len(old) + Len(new)
          /\ \A i \in 1 .. Len(old) + Len(new) :
                (old \o new)[i] = IF i <= Len(old) THEN old[i] ELSE new[i - Len(old)]
      BY <1>3, <2>1, ConcatProperties, Zenon
    <2>4. \A c \in Objects : c <= Len(old) /\ c \in 1 .. Len(old) + Len(new)
      BY <1>1, <1>2, <1>3, <2>1 DEF Objects
    <2>5. \A c \in Objects : computations'[c] = old[c]
      BY <2>2, <2>3, <2>4
    <2>. QED  BY <1>3, <2>1, <2>2, <2>3, <2>5 DEF old
  <1>. QED  BY <1>1, <1>2, <1>4, <1>5, <1>7

(***************************************************************************)
(* Opening a document keeps the shapes.                                    *)
(***************************************************************************)
LEMMA OpenTyped ==
  ASSUME Typed, Open
  PROVE  Typed'
  <1> DEFINE first == Len(computations)
  <1>1. PICK last \in Directories, found \in SUBSET Directories :
        /\ first \in Nat /\ last \in Nat /\ found \subseteq 1 .. last
        /\ computations' \in Seq(ComputationType)
        /\ Len(computations') = first + last
        /\ registry' = [d \in found |-> first + d]
        /\ current' = Null \/ \E d \in found : current' = first + d
        /\ UNCHANGED <<shown, combo, threads, dialog>>
    BY OpenEffect
  <1>2. Objects' = 1 .. (first + last) /\ Objects \subseteq Objects'
        /\ Threads' = Threads
    BY <1>1 DEF Objects, Threads
  <1>3. \A d \in found : d \in Directories /\ first + d \in Objects'
    BY <1>1, <1>2, BoundsAssumption, DocumentAssumption DEF Directories
  <1>4. disk' \in FilesType
    <2> DEFINE emptied == Destroyed(FilesCleared, Held(<<>>, Null, shown, threads, dialog))
    <2>1. emptied \in FilesType
      BY ClearedComputations, DestroyedType
    <2>2. disk' = [d \in Directories |->
                     IF d \in DOMAIN Document THEN Document[d] ELSE emptied[d]]
      BY DEF Open
    <2> HIDE DEF emptied
    <2>. QED  BY <2>1, <2>2, DirectoriesAreBounded DEF FilesType
  <1>5. opens' \in 0 .. MaxOpens /\ gui' = "refresh"
    BY BoundsAssumption DEF Typed, Open
  <1>6. current' \in Objects' \union {Null}
    BY <1>1, <1>3
  <1>7. \A d \in DOMAIN registry' : d \in Directories /\ registry'[d] \in Objects'
    BY <1>1, <1>3
  <1>. QED  BY <1>1, <1>2, <1>4, <1>5, <1>6, <1>7 DEF Typed, At

(***************************************************************************)
(* Closing the dialog leaves every thread that was not handled alone.      *)
(***************************************************************************)
LEMMA CloseDialogEffect ==
  ASSUME Typed, CloseDialog
  PROVE  /\ threads' \in Seq(ThreadType) /\ Len(threads') = Len(threads)
         /\ \A u \in Threads : SameButLeft(threads'[u], threads[u])
         /\ \A u \in Threads : threads'[u].pc # "handled" => threads'[u].left
         /\ dialog' = Null
         /\ UNCHANGED <<computations, registry, current, shown, combo, gui, opens>>
  <1>1. threads \in Seq(ThreadType)
    BY DEF Typed
  <1>. QED  BY <1>1, AbandonedEffect DEF CloseDialog, SameButLeft

(***************************************************************************)
(* Closing the dialog keeps the shapes.                                    *)
(***************************************************************************)
LEMMA CloseDialogTyped ==
  ASSUME Typed, CloseDialog
  PROVE  Typed'
  <1>1. /\ threads' \in Seq(ThreadType) /\ Len(threads') = Len(threads)
        /\ \A u \in Threads : SameButLeft(threads'[u], threads[u])
        /\ dialog' = Null
        /\ UNCHANGED <<computations, registry, current, shown, combo, gui, opens>>
    BY CloseDialogEffect
  <1>2. Objects' = Objects /\ Threads' = Threads
    BY <1>1 DEF Objects, Threads
  <1>3. disk' \in FilesType
    BY DestroyedType DEF Typed, CloseDialog
  <1>4. \A u \in Threads : /\ threads'[u].comp \in Objects \union {Null}
                           /\ At(u, "handled")' \/ threads'[u].comp \in Objects
    BY <1>1 DEF Typed, At, SameButLeft
  <1>. QED  BY <1>1, <1>2, <1>3, <1>4 DEF Typed

(***************************************************************************)
(* Selecting a computation keeps the shapes.                               *)
(***************************************************************************)
LEMMA ViewTyped ==
  ASSUME Typed, \E d \in Directories : SelectComputation(d)
  PROVE  Typed'
  <1>1. /\ UNCHANGED <<computations, registry, current, threads, dialog, opens>>
        /\ gui' = "refresh"
    BY DEF SelectComputation
  <1>2. Objects' = Objects /\ Threads' = Threads
    BY <1>1 DEF Objects, Threads
  <1>3. disk' \in FilesType
    BY DestroyedType DEF Typed, SelectComputation
  <1>4. shown' \in Objects \union {Null}
    BY DEF Typed, SelectComputation
  <1>5. combo' \in [items : SUBSET Directories, last : Directories \union {Null}]
    BY DEF Typed, SelectComputation
  <1>. QED  BY <1>1, <1>2, <1>3, <1>4, <1>5 DEF Typed, At

(***************************************************************************)
(* A refresh shows a computation that is registered, or none, and reads    *)
(* its fields unless it was shown before.                                  *)
(***************************************************************************)
LEMMA RefreshEffect ==
  ASSUME Typed, Refresh
  PROVE  /\ shown' \in Objects \union {Null}
         /\ computations' \in Seq(ComputationType)
         /\ Len(computations') = Len(computations)
         /\ \A c \in Objects :
               /\ computations'[c].abort = computations[c].abort
               /\ computations'[c].steps = computations[c].steps
               /\ computations'[c].fields = computations[c].fields
               /\ c # shown' \/ c = shown => computations'[c] = computations[c]
         /\ shown' \notin {Null, shown} =>
               computations'[shown'].view = computations'[shown'].fields
  <1> DEFINE c == shown'
             r == [computations[c] EXCEPT !.view = computations[c].fields,
                                          !.processed = TRUE]
  <1>1. c \in Objects \union {Null}
    BY ListedIsSolved DEF Typed, Refresh, Solved
  <1>2. computations' = IF c \in {Null, shown} THEN computations
                        ELSE [computations EXCEPT ![c] = r]
    BY DEF Refresh
  <1>3. computations \in Seq(ComputationType) /\ Len(computations) \in Nat
    BY DEF Typed
  <1>4. CASE c \in {Null, shown}
    BY <1>1, <1>2, <1>3, <1>4
  <1>5. CASE c \notin {Null, shown}
    <2>1. c \in 1 .. Len(computations)
      BY <1>1, <1>5 DEF Objects
    <2>2. computations[c] \in ComputationType
      BY <1>3, <2>1
    <2>3. /\ r \in ComputationType /\ r.view = r.fields
          /\ r.abort = computations[c].abort /\ r.steps = computations[c].steps
          /\ r.fields = computations[c].fields
      BY <2>2 DEF ComputationType
    <2> HIDE DEF r
    <2>4. computations' = [computations EXCEPT ![c] = r]
      BY <1>2, <1>5
    <2>5. /\ computations' \in Seq(ComputationType)
          /\ Len(computations') = Len(computations)
          /\ \A b \in Objects : computations'[b] = IF b = c THEN r ELSE computations[b]
      BY <1>3, <2>1, <2>3, <2>4, ExceptSeq DEF Objects
    <2>. QED  BY <1>1, <1>5, <2>3, <2>5
  <1>. QED  BY <1>4, <1>5

(***************************************************************************)
(* A refresh keeps the shapes.                                             *)
(***************************************************************************)
LEMMA RefreshTyped ==
  ASSUME Typed, Refresh
  PROVE  Typed'
  <1>1. /\ UNCHANGED <<registry, current, threads, dialog, opens>> /\ gui' = "idle"
        /\ combo' = [items |-> Solved, last |-> Listed]
    BY DEF Refresh
  <1>2. /\ shown' \in Objects \union {Null}
        /\ computations' \in Seq(ComputationType)
        /\ Len(computations') = Len(computations)
    BY RefreshEffect
  <1>3. Objects' = Objects /\ Threads' = Threads
    BY <1>1, <1>2 DEF Objects, Threads
  <1>4. Solved \subseteq Directories /\ Listed \in Directories \union {Null}
    BY ListedIsSolved DEF Typed, Solved
  <1>5. disk' \in FilesType
    BY DestroyedType DEF Typed, Refresh
  <1>. QED  BY <1>1, <1>2, <1>3, <1>4, <1>5 DEF Typed, At

(***************************************************************************)
(* The shapes are inductive.                                               *)
(***************************************************************************)
LEMMA TypedInductive == Typed /\ [Next]_vars => Typed'
  <1> SUFFICES ASSUME Typed, [Next]_vars PROVE Typed'
    OBVIOUS
  <1>1. CASE UNCHANGED vars
    BY <1>1 DEF vars, Typed, Objects, Threads, At
  <1>. QED
    BY <1>1, SolveTyped, SolveSelectedTyped, ThreadStepTyped, SolveFinishedTyped,
       AbortSolvingTyped, CloseDialogTyped, CrashTyped, ViewTyped, ClearingTyped, OpenTyped,
       RefreshTyped DEF Next

(***************************************************************************)
(* The shapes hold when the program starts.                                *)
(***************************************************************************)
LEMMA InitTyped == Init => Typed
  <1> SUFFICES ASSUME Init PROVE Typed
    OBVIOUS
  <1>1. Objects = {} /\ Threads = {} /\ DOMAIN registry = {}
    BY DEF Init, Objects, Threads
  <1>. QED  BY <1>1, BoundsAssumption DEF Init, Typed, FilesType, Null

(***************************************************************************)
(* Every variable of a session keeps its type, whatever is opened, solved, *)
(* aborted and deleted; a list that is not empty has a directory to show.  *)
(***************************************************************************)
THEOREM SpecTypeOK == Spec => []TypeOK
  <1>1. Spec => []Typed
    BY InitTyped, TypedInductive, PTL DEF Spec
  <1>. QED  BY <1>1, TypedImpliesTypeOK, PTL

----------------------------------------------------------------------------
(***************************************************************************)
(* The inductive invariant of aborts: where the solver has yet to look at  *)
(* the flag of its computation, the flag was raised for this solve.  It is *)
(* established by clearSolution, which comes after the solving flag is set *)
(* and before the first step.                                              *)
(***************************************************************************)
AbortIsTold ==
    \A t \in Threads :
        /\ threads[t].cut => threads[t].told
        /\ threads[t].pc \in {"init", "step", "loop"}
             /\ computations[threads[t].comp].abort => threads[t].told

(***************************************************************************)
(* A thread that looks at its flag is cut short only when the flag is set. *)
(***************************************************************************)
LEMMA ThreadStepAbort ==
  ASSUME Typed, NEW t \in Threads, ThreadStep(t)
  PROVE  LET c == threads[t].comp IN
         /\ computations'[c].abort => computations[c].abort
         /\ threads'[t].cut => threads[t].cut \/ (At(t, "loop") /\ computations[c].abort)
         /\ threads'[t].pc \in {"init", "step", "loop"} =>
               threads[t].pc \in {"init", "step", "loop"} \/ ~computations'[c].abort
  <1> DEFINE c == threads[t].comp
  <1>1. /\ computations \in Seq(ComputationType) /\ threads \in Seq(ThreadType)
        /\ t \in 1 .. Len(threads) /\ threads[t] \in ThreadType
    BY DEF Typed, Threads
  <1>2. c \in 1 .. Len(computations) /\ computations[c] \in ComputationType
    BY <1>1, ThreadStepEffect DEF Objects
  <1>3. ASSUME NEW p, Goto(t, p)
        PROVE  threads'[t].pc = p /\ threads'[t].cut = threads[t].cut
    BY <1>1, <1>3 DEF Goto, ThreadType
  <1>4. CASE Guard(t) \/ Claim(t) \/ EndSolve(t) \/ Unflag(t) \/ Failed(t)
             \/ EvaluateRecipes(t)
    <2>1. threads'[t].pc \notin {"init", "step", "loop"} /\ threads'[t].cut = threads[t].cut
      BY <1>3, <1>4 DEF Guard, Claim, EndSolve, Unflag, Failed, EvaluateRecipes
    <2>2. computations'[c].abort => computations[c].abort
      <3>1. CASE Guard(t) \/ EvaluateRecipes(t)
        BY <3>1 DEF Guard, EvaluateRecipes
      <3>2. CASE Claim(t) \/ Unflag(t) \/ Failed(t)
        BY <1>2, <3>2 DEF Claim, Unflag, Failed, ComputationType
      <3>3. CASE EndSolve(t)
        BY <1>2, <3>3 DEF EndSolve, ComputationType
      <3>. QED  BY <1>4, <3>1, <3>2, <3>3
    <2>. QED  BY <2>1, <2>2
  <1>5. CASE Clear(t)
    <2>1. threads'[t].cut = threads[t].cut
      BY <1>3, <1>5 DEF Clear
    <2>2. ~computations'[c].abort
      BY <1>2, <1>5 DEF Clear, clearSolution, ComputationType
    <2>. QED  BY <2>1, <2>2
  <1>6. CASE (\E pc \in {"step", "failed"} : SolveInit(t, pc))
             \/ (\E pc \in {"loop", "end", "failed"} : Step(t, pc))
    <2>1. threads[t].pc \in {"init", "step"} /\ threads'[t].cut = threads[t].cut
      BY <1>3, <1>6 DEF SolveInit, Step, At
    <2>2. computations'[c].abort = computations[c].abort
      BY <1>2, <1>6 DEF SolveInit, Step, ComputationType
    <2>. QED  BY <2>1, <2>2
  <1>7. CASE AskAborted(t)
    <2>1. At(t, "loop") /\ threads[t].pc = "loop" /\ computations' = computations
      BY <1>7 DEF AskAborted, At
    <2>2. threads'[t].cut = computations[c].abort
      BY <1>1, <1>7 DEF AskAborted, ThreadType
    <2>. QED  BY <2>1, <2>2
  <1>. QED  BY <1>4, <1>5, <1>6, <1>7 DEF ThreadStep

(***************************************************************************)
(* A thread that is started has not been told, and looks at no flag yet.   *)
(***************************************************************************)
LEMMA SolveAbortIsTold ==
  ASSUME Typed, AbortIsTold,
         \/ \E hasFields \in BOOLEAN : SolveNew(hasFields) \/ SolveCurrent(hasFields)
         \/ \E d \in DOMAIN registry : SolveSelected(d)
  PROVE  AbortIsTold'
  <1>1. PICK c \in Nat, f \in Nat : StartSolve(c, f)
    BY SolveStarts
  <1>2. /\ Len(threads') = Len(threads) + 1 /\ Len(threads) \in Nat
        /\ \A t \in Threads : threads'[t] = threads[t]
        /\ threads'[Len(threads) + 1] = Started(c, f)
    BY <1>1, StartSolveEffect
  <1>3. \A b \in Objects : computations'[b].abort => computations[b].abort
    <2>1. computations \in Seq(ComputationType) /\ Len(computations) \in Nat
      BY DEF Typed
    <2>2. ASSUME NEW hasFields \in BOOLEAN, SolveNew(hasFields)
          PROVE  \A b \in Objects : computations'[b] = computations[b]
      BY <2>1, <2>2 DEF SolveNew, Objects
    <2>3. ASSUME NEW hasFields \in BOOLEAN, SolveCurrent(hasFields), NEW b \in Objects
          PROVE  computations'[b].abort => computations[b].abort
      <3> DEFINE y == clearFields(computations[b])
                 r == [y EXCEPT !.fields = IF hasFields THEN 2 + Len(threads) ELSE Null]
      <3>1. computations[b] \in ComputationType
        BY <2>1 DEF Objects
      <3>2. y \in ComputationType /\ y.abort = FALSE
        BY <3>1, ClearedFields
      <3> HIDE DEF y
      <3>3. r.abort = FALSE
        BY <3>2 DEF ComputationType
      <3>4. computations'[b] = IF b = Reused THEN r ELSE computations[b]
        BY <2>1, <2>3 DEF SolveCurrent, Objects, y
      <3>. QED  BY <3>3, <3>4
    <2>4. ASSUME NEW d \in DOMAIN registry, SolveSelected(d)
          PROVE  computations' = computations
      BY <2>4 DEF SolveSelected
    <2>. QED  BY <2>2, <2>3, <2>4
  <1>4. ASSUME NEW t \in Threads'
        PROVE  /\ threads'[t].cut => threads'[t].told
               /\ threads'[t].pc \in {"init", "step", "loop"}
                    /\ computations'[threads'[t].comp].abort => threads'[t].told
    <2>1. CASE t \in Threads
      <3>1. threads'[t] = threads[t]
        BY <1>2, <2>1
      <3>2. threads[t].pc \in {"init", "step", "loop"} => threads[t].comp \in Objects
        BY <2>1 DEF Typed, At
      <3>. QED  BY <1>3, <2>1, <3>1, <3>2 DEF AbortIsTold
    <2>2. CASE t = Len(threads) + 1
      BY <1>2, <2>2 DEF Started
    <2>. QED  BY <1>2, <2>1, <2>2 DEF Threads
  <1>. QED  BY <1>4 DEF AbortIsTold

(***************************************************************************)
(* A step of a thread sets no flag: clearSolution and the end reset it.    *)
(***************************************************************************)
LEMMA ThreadStepAbortIsTold ==
  ASSUME Typed, AbortIsTold, NEW t \in Threads, ThreadStep(t)
  PROVE  AbortIsTold'
  <1> DEFINE c == threads[t].comp
  <1>1. /\ c \in Objects /\ Len(threads') = Len(threads)
        /\ \A u \in Threads \ {t} : threads'[u] = threads[u]
        /\ threads'[t].comp = c /\ threads'[t].told = threads[t].told
        /\ \A d \in Objects \ {c} : computations'[d] = computations[d]
    BY ThreadStepEffect
  <1>2. /\ computations'[c].abort => computations[c].abort
        /\ threads'[t].cut => threads[t].cut \/ (At(t, "loop") /\ computations[c].abort)
        /\ threads'[t].pc \in {"init", "step", "loop"} =>
              threads[t].pc \in {"init", "step", "loop"} \/ ~computations'[c].abort
    BY ThreadStepAbort
  <1>3. ASSUME NEW u \in Threads
        PROVE  /\ threads'[u].cut => threads'[u].told
               /\ threads'[u].pc \in {"init", "step", "loop"}
                    /\ computations'[threads'[u].comp].abort => threads'[u].told
    <2>1. CASE u = t
      BY <1>1, <1>2, <2>1 DEF AbortIsTold, At
    <2>2. CASE u # t
      <3>1. threads'[u] = threads[u]
        BY <1>1, <2>2
      <3>2. threads[u].pc \in {"init", "step", "loop"} => threads[u].comp \in Objects
        BY DEF Typed, At
      <3>. QED  BY <1>1, <1>2, <3>1, <3>2 DEF AbortIsTold
    <2>. QED  BY <2>1, <2>2
  <1>. QED  BY <1>1, <1>3 DEF AbortIsTold, Threads

(***************************************************************************)
(* What neither solves nor aborts sets no flag.                            *)
(***************************************************************************)
LEMMA OtherAbortIsTold ==
  ASSUME Typed, AbortIsTold,
         \/ \E t \in Threads : SolveFinished(t)
         \/ CloseDialog \/ DeleteSolutions \/ NewDocument \/ Open \/ Refresh
         \/ \E d \in Directories : SelectComputation(d)
         \/ UNCHANGED vars
  PROVE  AbortIsTold'
  <1>1. \A c \in Objects : computations'[c].abort => computations[c].abort
    BY ClearedComputations, OpenEffect, RefreshEffect
       DEF SolveFinished, CloseDialog, DeleteSolutions, NewDocument, SelectComputation, vars
  <1>2. /\ Threads' = Threads
        /\ \A t \in Threads : \/ SameButLeft(threads'[t], threads[t])
                              \/ SameButLeft(threads'[t], Deleted(t))
    <2>1. Threads' = Threads
      BY SolveFinishedEffect, CloseDialogEffect, OpenEffect
         DEF DeleteSolutions, NewDocument, Refresh, SelectComputation, vars, Threads
    <2> SUFFICES ASSUME NEW u \in Threads
                 PROVE  \/ SameButLeft(threads'[u], threads[u])
                        \/ SameButLeft(threads'[u], Deleted(u))
      BY <2>1
    <2>2. CASE \E t \in Threads : SolveFinished(t)
      BY <2>2, SolveFinishedEffect
    <2>3. CASE CloseDialog
      BY <2>3, CloseDialogEffect
    <2>4. CASE ~CloseDialog /\ ~\E t \in Threads : SolveFinished(t)
      <3>1. threads' = threads
        BY <2>4, OpenEffect DEF DeleteSolutions, NewDocument, Refresh, SelectComputation, vars
      <3>. QED  BY <3>1 DEF SameButLeft
    <2>. QED  BY <2>2, <2>3, <2>4
  <1>3. \A t \in Threads : threads[t].pc \in {"init", "step", "loop"} =>
            threads[t].comp \in Objects
    BY DEF Typed, At
  <1>. QED  BY <1>1, <1>2, <1>3, DeletedThread DEF AbortIsTold, SameButLeft

(***************************************************************************)
(* After a crash no thread is left.                                        *)
(***************************************************************************)
LEMMA CrashAbortIsTold ==
  ASSUME Typed, Crash
  PROVE  AbortIsTold'
  <1>1. Threads' = Threads /\ \A t \in Threads : threads'[t] = Deleted(t)
    BY CrashEffect DEF Threads
  <1>. QED  BY <1>1, DeletedThread DEF AbortIsTold

(***************************************************************************)
(* An abort tells every thread of the computation whose flag it sets.      *)
(***************************************************************************)
LEMMA AbortSolvingIsTold ==
  ASSUME Typed, AbortIsTold, AbortSolving
  PROVE  AbortIsTold'
  <1>1. /\ \A c \in Objects : c # dialog => computations'[c] = computations[c]
        /\ Len(threads') = Len(threads)
        /\ \A t \in Threads :
               /\ threads'[t].comp = threads[t].comp
               /\ threads'[t].pc = threads[t].pc
               /\ threads'[t].cut = threads[t].cut
               /\ threads[t].told => threads'[t].told
               /\ threads[t].comp = dialog => threads'[t].told
    BY AbortSolvingEffect
  <1>2. \A t \in Threads : threads[t].pc \in {"init", "step", "loop"} =>
            threads[t].comp \in Objects
    BY DEF Typed, At
  <1>. QED  BY <1>1, <1>2 DEF AbortIsTold, Threads

(***************************************************************************)
(* No solve is cut short by an abort that was meant for another one.       *)
(***************************************************************************)
THEOREM SpecAbortIsOfThisSolve == Spec => []AbortIsOfThisSolve
  <1>1. Init => AbortIsTold
    BY DEF Init, AbortIsTold, Threads
  <1>2. Typed /\ AbortIsTold /\ [Next]_vars => AbortIsTold'
    BY SolveAbortIsTold, ThreadStepAbortIsTold, OtherAbortIsTold, AbortSolvingIsTold,
       CrashAbortIsTold DEF Next
  <1>3. AbortIsTold => AbortIsOfThisSolve
    BY DEF AbortIsTold, AbortIsOfThisSolve
  <1>. QED  BY <1>1, <1>2, <1>3, InitTyped, TypedInductive, PTL DEF Spec

----------------------------------------------------------------------------
(***************************************************************************)
(* What the modal dialog guarantees: at most one thread waits to be        *)
(* handled with its dialog open; it solves the current computation, which  *)
(* is registered and keeps the fields the solve has begun with.  The       *)
(* problem's current computation is registered unless the registry is      *)
(* empty, and the program has crashed only after a solve was left alone.   *)
(***************************************************************************)
Alive(t) == threads[t].pc # "handled"
Waited(t) == Alive(t) /\ ~threads[t].left

OneSolve ==
    /\ \A t \in Threads : Waited(t) =>
          /\ threads[t].comp = current
          /\ dialog = current
          /\ current \in Bound(registry)
          /\ computations[current].fields = threads[t].fields
    /\ \A t, u \in Threads : Waited(t) /\ Waited(u) => t = u
    /\ current = Null \/ registry = <<>> \/ current \in Bound(registry)
    /\ Patient => gui # "crashed"

(***************************************************************************)
(* A solve starts only in a free window, where no other thread is waited   *)
(* for.                                                                    *)
(***************************************************************************)
LEMMA FreeWindow ==
  ASSUME Typed, OneSolve, WindowIsFree
  PROVE  \A t \in Threads : ~Waited(t)
  <1> SUFFICES ASSUME NEW t \in Threads, Waited(t) PROVE FALSE
    OBVIOUS
  <1>1. threads[t].comp = Null /\ threads[t].comp \in Objects
    BY DEF OneSolve, WindowIsFree, Waited, Alive, Typed, At
  <1>. QED  BY <1>1 DEF Objects, Null

(***************************************************************************)
(* The thread that is started is the one that is waited for.               *)
(***************************************************************************)
LEMMA SolveOneSolve ==
  ASSUME Typed, OneSolve,
         \/ \E hasFields \in BOOLEAN : SolveNew(hasFields) \/ SolveCurrent(hasFields)
         \/ \E d \in DOMAIN registry : SolveSelected(d)
  PROVE  OneSolve'
  <1>1. PICK c \in Nat, f \in Nat :
            /\ StartSolve(c, f) /\ c # Null
            /\ computations'[c].fields = f
            /\ \/ c \in Bound(registry')
               \/ c = current /\ registry # <<>> /\ registry' = registry
            /\ WindowIsFree /\ gui' = gui
    BY SolveStarts
  <1>2. c \in Bound(registry')
    BY <1>1 DEF OneSolve
  <1>3. /\ Len(threads') = Len(threads) + 1 /\ Len(threads) \in Nat
        /\ \A t \in Threads : threads'[t] = threads[t]
        /\ threads'[Len(threads) + 1] = Started(c, f)
        /\ dialog' = c /\ current' = c
    BY <1>1, StartSolveEffect
  <1>4. \A t \in Threads' : Waited(t)' => t = Len(threads) + 1
    <2>1. \A t \in Threads : ~Waited(t)
      BY <1>1, FreeWindow
    <2>. QED  BY <1>3, <2>1 DEF Threads, Waited, Alive
  <1>5. gui' # "crashed"
    BY <1>1 DEF WindowIsFree
  <1>. QED  BY <1>1, <1>2, <1>3, <1>4, <1>5 DEF OneSolve, Started

(***************************************************************************)
(* Under a thread that is waited for alone, no memory is deleted and no    *)
(* other thread works, and doSolveFinished finds the dialog.               *)
(***************************************************************************)
LEMMA CrashOneSolve ==
  ASSUME Typed, OneSolve, Crash
  PROVE  OneSolve'
  <1>1. /\ registry' = <<>> /\ current' = Null /\ Threads' = Threads
        /\ \A t \in Threads : threads'[t] = Deleted(t)
    BY CrashEffect DEF Threads
  <1>2. \A t \in Threads : ~Waited(t)' /\ threads'[t].left = threads[t].left
    BY <1>1, DeletedThread DEF Waited, Alive
  <1>3. ~Patient
    <2> SUFFICES ASSUME Patient PROVE FALSE
      OBVIOUS
    <2>1. \A t \in Threads : Alive(t) => Waited(t)
      BY DEF Patient, Waited
    <2>2. ASSUME NEW t \in Threads, At(t, "posted"),
                 current = Null \/ (isSolved(current) /\ dialog = Null)
          PROVE  FALSE
      <3>1. Waited(t)
        BY <2>1, <2>2 DEF At, Alive
      <3>2. threads[t].comp = Null /\ threads[t].comp \in Objects
        BY <2>2, <3>1 DEF OneSolve, Typed, At, isSolved, Waited, Alive
      <3>. QED  BY <3>2 DEF Objects, Null
    <2>3. ASSUME NEW t \in Threads, Races(t) PROVE FALSE
      <3>1. Waited(t)
        BY <2>1, <2>3 DEF Races, Working, Alive
      <3>2. computations[threads[t].comp].fields = threads[t].fields
        BY <3>1 DEF OneSolve
      <3>3. PICK u \in Threads \ {t} : Working(u)
        BY <2>3, <3>2 DEF Races
      <3>4. Waited(u)
        BY <2>1, <3>3 DEF Working, Alive
      <3>. QED  BY <3>1, <3>3, <3>4 DEF OneSolve
    <2>. QED  BY <2>2, <2>3 DEF Crash
  <1>. QED  BY <1>1, <1>2, <1>3 DEF OneSolve, Patient

(***************************************************************************)
(* No other step registers, drops or starts anything under a thread that   *)
(* is waited for: a dialog that goes away leaves every thread alone.       *)
(***************************************************************************)
LEMMA OtherOneSolve ==
  ASSUME Typed, OneSolve,
         \/ \E t \in Threads : ThreadStep(t) \/ SolveFinished(t)
         \/ AbortSolving \/ CloseDialog \/ DeleteSolutions \/ NewDocument \/ Open
         \/ \E d \in Directories : SelectComputation(d)
         \/ Refresh \/ UNCHANGED vars
  PROVE  OneSolve'
  <1>0. \A t \in Threads : Alive(t) => threads[t].comp \in Objects
    BY DEF Typed, At, Alive
  <1>1. ASSUME NEW t \in Threads, ThreadStep(t) PROVE OneSolve'
    <2>1. /\ UNCHANGED <<registry, current, dialog, gui>>
          /\ Len(threads') = Len(threads)
          /\ \A u \in Threads \ {t} : threads'[u] = threads[u]
          /\ threads'[t].comp = threads[t].comp
          /\ threads'[t].fields = threads[t].fields /\ threads'[t].left = threads[t].left
          /\ ~At(t, "handled") /\ ~At(t, "handled")'
      BY <1>1, ThreadStepEffect DEF OnlyThread
    <2>2. /\ Threads' = Threads
          /\ \A u \in Threads : /\ Waited(u)' <=> Waited(u)
                                /\ threads'[u].comp = threads[u].comp
                                /\ threads'[u].fields = threads[u].fields
                                /\ threads'[u].left = threads[u].left
      BY <2>1 DEF Threads, Waited, Alive, At
    <2>3. \A c \in Objects : computations'[c].fields = computations[c].fields
      BY <1>1, ThreadStepEffect
    <2>4. \A u \in Threads : Waited(u) => current \in Objects
      BY <1>0 DEF OneSolve, Waited
    <2>. QED  BY <2>1, <2>2, <2>3, <2>4 DEF OneSolve, Bound, Patient
  <1>2. ASSUME NEW t \in Threads, SolveFinished(t) PROVE OneSolve'
    <2>1. /\ UNCHANGED <<computations, registry, current>> /\ Len(threads') = Len(threads)
          /\ \A u \in Threads \ {t} : SameButLeft(threads'[u], threads[u])
          /\ SameButLeft(threads'[t], Deleted(t))
          /\ \/ dialog' = dialog /\ \A u \in Threads \ {t} : threads'[u] = threads[u]
             \/ \A u \in Threads : threads'[u].pc # "handled" => threads'[u].left
          /\ gui' # "crashed"
      BY <1>2, SolveFinishedEffect
    <2>2. Threads' = Threads /\ ~Waited(t)'
      BY <2>1 DEF Threads, Waited, Alive, Deleted, SameButLeft
    <2>3. CASE \A u \in Threads : threads'[u].pc # "handled" => threads'[u].left
      <3>1. \A u \in Threads : ~Waited(u)'
        BY <2>3 DEF Waited, Alive
      <3>. QED  BY <2>1, <2>2, <3>1 DEF OneSolve, Bound
    <2>4. CASE dialog' = dialog /\ \A u \in Threads \ {t} : threads'[u] = threads[u]
      <3>1. \A u \in Threads : Waited(u)' => Waited(u) /\ threads'[u] = threads[u]
        BY <2>2, <2>4 DEF Waited, Alive
      <3>. QED  BY <2>1, <2>2, <2>4, <3>1 DEF OneSolve, Bound
    <2>. QED  BY <2>1, <2>3, <2>4
  <1>3. CASE AbortSolving
    <2>1. /\ UNCHANGED <<registry, current, dialog, gui>>
          /\ Len(threads') = Len(threads)
          /\ \A u \in Threads : /\ threads'[u].comp = threads[u].comp
                                /\ threads'[u].pc = threads[u].pc
                                /\ threads'[u].left = threads[u].left
                                /\ threads'[u].fields = threads[u].fields
          /\ \A c \in Objects : computations'[c].fields = computations[c].fields
      BY <1>3, AbortSolvingEffect DEF AbortSolving
    <2>2. \A u \in Threads : Waited(u) => current \in Objects
      BY <1>0 DEF OneSolve, Waited
    <2>3. Threads' = Threads /\ \A u \in Threads : Waited(u)' <=> Waited(u)
      BY <2>1 DEF Waited, Alive, Threads
    <2>. QED  BY <2>1, <2>2, <2>3 DEF OneSolve, Bound, Patient
  <1>4. CASE CloseDialog
    <2>1. /\ UNCHANGED <<registry, current, gui>> /\ Threads' = Threads
          /\ \A u \in Threads : /\ SameButLeft(threads'[u], threads[u])
                                /\ threads'[u].pc # "handled" => threads'[u].left
      BY <1>4, CloseDialogEffect DEF Threads
    <2>2. \A u \in Threads : ~Waited(u)'
      BY <2>1 DEF Waited, Alive
    <2>3. Patient' => Patient
      BY <2>1 DEF Patient, SameButLeft
    <2>. QED  BY <2>1, <2>2, <2>3 DEF OneSolve, Bound
  <1>5. CASE DeleteSolutions \/ NewDocument
    <2>1. /\ WindowIsFree /\ registry' = <<>> /\ threads' = threads
          /\ current' \in {current, Null} /\ gui' = "refresh"
      BY <1>5 DEF DeleteSolutions, NewDocument
    <2>2. \A t \in Threads : ~Waited(t)
      BY <2>1, FreeWindow
    <2>. QED  BY <2>1, <2>2 DEF OneSolve, Waited, Alive, Threads
  <1>6. CASE Open
    <2>1. WindowIsFree /\ threads' = threads /\ gui' = "refresh"
      BY <1>6 DEF Open
    <2>2. current' = Null \/ current' \in Bound(registry')
      BY <1>6, OpenEffect DEF Bound
    <2>3. \A t \in Threads : ~Waited(t)
      BY <2>1, FreeWindow
    <2>. QED  BY <2>1, <2>2, <2>3 DEF OneSolve, Waited, Alive, Threads
  <1>7. CASE Refresh
    <2>1. /\ UNCHANGED <<registry, current, threads, dialog>> /\ gui' = "idle"
          /\ \A c \in Objects : computations'[c].fields = computations[c].fields
      BY <1>7, RefreshEffect DEF Refresh
    <2>2. \A u \in Threads : Waited(u) => current \in Objects
      BY <1>0 DEF OneSolve, Waited
    <2>. QED  BY <2>1, <2>2 DEF OneSolve, Bound, Waited, Alive, Threads
  <1>8. CASE UNCHANGED vars \/ \E d \in Directories : SelectComputation(d)
    <2>1. /\ UNCHANGED <<computations, registry, current, threads, dialog>>
          /\ gui' \in {gui, "refresh"}
      BY <1>8 DEF SelectComputation, vars
    <2>. QED  BY <2>1 DEF OneSolve, Bound, Waited, Alive, Threads, Patient
  <1>. QED  BY <1>1, <1>2, <1>3, <1>4, <1>5, <1>6, <1>7, <1>8

(***************************************************************************)
(* One solve at a time is inductive, with the shapes.                      *)
(***************************************************************************)
LEMMA OneSolveInductive == Typed /\ OneSolve /\ [Next]_vars => OneSolve'
  BY SolveOneSolve, CrashOneSolve, OtherOneSolve DEF Next

(***************************************************************************)
(* There is no solve when the program starts.                              *)
(***************************************************************************)
LEMMA InitOneSolve == Init => OneSolve
  BY DEF Init, OneSolve, Threads

(***************************************************************************)
(* Whenever the user closes the dialog, the computation of every solve     *)
(* that still has its dialog is the current one and registered until       *)
(* doSolveFinished has run.                                                *)
(***************************************************************************)
THEOREM SpecSolvedIsRegistered == Spec => []SolvedIsRegistered
  <1>1. OneSolve => SolvedIsRegistered
    BY DEF OneSolve, SolvedIsRegistered, Waited, Alive, At
  <1>. QED  BY <1>1, InitTyped, TypedInductive, InitOneSolve, OneSolveInductive, PTL DEF Spec

----------------------------------------------------------------------------
(***************************************************************************)
(* As long as no solve was left alone, what is shown was read from the     *)
(* fields it has, unless it has not been solved or is just being solved.   *)
(* doSolveFinished makes the post-processor forget a computation whose     *)
(* fields were made anew before the window is free again; a solve that has *)
(* left no solution leaves nothing to paint.                               *)
(***************************************************************************)
IsFresh(c) == computations[c].view = computations[c].fields

ShownIsFresh ==
    Patient /\ isSolved(shown) /\ computations[shown].processed
        => IsFresh(shown) \/ \E t \in Threads : Alive(t) /\ threads[t].comp = shown

(***************************************************************************)
(* What a solve makes stale is the computation its own thread now solves.  *)
(***************************************************************************)
LEMMA SolveShownIsFresh ==
  ASSUME Typed, ShownIsFresh,
         \/ \E hasFields \in BOOLEAN : SolveNew(hasFields) \/ SolveCurrent(hasFields)
         \/ \E d \in DOMAIN registry : SolveSelected(d)
  PROVE  ShownIsFresh'
  <1>1. PICK c \in Nat, f \in Nat :
            /\ StartSolve(c, f) /\ c # Null
            /\ shown \notin {c, Null} => computations'[shown] = computations[shown]
            /\ shown' = shown
    BY SolveStarts
  <1>2. /\ Len(threads') = Len(threads) + 1 /\ Len(threads) \in Nat
        /\ \A t \in Threads : threads'[t] = threads[t]
        /\ threads'[Len(threads) + 1] = Started(c, f)
    BY <1>1, StartSolveEffect
  <1>3. \A t \in Threads : t \in Threads' /\ (Alive(t) => Alive(t)')
                          /\ threads'[t].comp = threads[t].comp
                          /\ threads'[t].left = threads[t].left
    BY <1>2 DEF Threads, Alive
  <1>4. Patient' => Patient
    BY <1>3 DEF Patient
  <1>5. CASE shown = c
    <2>. PICK u \in Nat : u = Len(threads) + 1
      BY <1>2
    <2>1. u \in 1 .. Len(threads')
      BY <1>2
    <2>2. threads'[u].pc = "start" /\ threads'[u].comp = c
      BY <1>2 DEF Started
    <2>3. u \in Threads' /\ threads'[u].pc # "handled"
      BY <2>1, <2>2 DEF Threads
    <2>4. threads'[u].comp = shown'
      BY <1>1, <1>5, <2>2
    <2>. QED  BY <2>3, <2>4 DEF ShownIsFresh, Alive
  <1>6. CASE shown # c
    BY <1>1, <1>3, <1>4, <1>6 DEF ShownIsFresh, isSolved, IsFresh
  <1>. QED  BY <1>5, <1>6

(***************************************************************************)
(* The other steps keep, or renew, what is shown.                          *)
(***************************************************************************)
LEMMA OtherShownIsFresh ==
  ASSUME Typed, OneSolve, ShownIsFresh,
         \/ \E t \in Threads : ThreadStep(t) \/ SolveFinished(t)
         \/ AbortSolving \/ CloseDialog \/ Crash \/ DeleteSolutions \/ NewDocument \/ Open
         \/ \E d \in Directories : SelectComputation(d)
         \/ Refresh \/ UNCHANGED vars
  PROVE  ShownIsFresh'
  <1>1. shown \in Objects \union {Null}
    BY DEF Typed
  <1>2. ASSUME NEW t \in Threads, ThreadStep(t) PROVE ShownIsFresh'
    <2> DEFINE c == threads[t].comp
    <2>1. /\ shown' = shown /\ Len(threads') = Len(threads)
          /\ \A u \in Threads \ {t} : threads'[u] = threads[u]
          /\ threads'[t].comp = c /\ threads'[t].left = threads[t].left
          /\ Alive(t) /\ Alive(t)'
          /\ \A d \in Objects \ {c} : computations'[d] = computations[d]
      BY <1>2, ThreadStepEffect DEF OnlyThread, Alive, At
    <2>2. Threads' = Threads /\ \A u \in Threads :
             (Alive(u)' <=> Alive(u)) /\ threads'[u].comp = threads[u].comp
             /\ threads'[u].left = threads[u].left
      BY <2>1 DEF Threads, Alive
    <2>3. Patient' => Patient
      BY <2>2 DEF Patient
    <2>4. CASE shown = c
      BY <2>1, <2>2, <2>4 DEF ShownIsFresh
    <2>5. CASE shown # c
      BY <1>1, <2>1, <2>2, <2>3, <2>5 DEF ShownIsFresh, isSolved, IsFresh
    <2>. QED  BY <2>4, <2>5
  <1>3. ASSUME NEW t \in Threads, SolveFinished(t) PROVE ShownIsFresh'
    <2>1. /\ UNCHANGED computations /\ Len(threads') = Len(threads)
          /\ \A u \in Threads \ {t} : SameButLeft(threads'[u], threads[u])
          /\ SameButLeft(threads'[t], Deleted(t))
          /\ shown' = IF isSolved(current) THEN Null ELSE shown
          /\ Alive(t)
      BY <1>3, SolveFinishedEffect DEF SolveFinished, ForgetShown, Alive, At
    <2>2. Threads' = Threads /\ \A u \in Threads \ {t} :
             (Alive(u)' <=> Alive(u)) /\ threads'[u].comp = threads[u].comp
      BY <2>1 DEF Threads, Alive, SameButLeft
    <2>3. Patient' => Patient
      BY <2>1, <2>2 DEF Patient, SameButLeft, Deleted
    <2>4. Patient => threads[t].comp = current
      BY <2>1 DEF OneSolve, Waited, Patient
    <2>5. CASE shown = current \/ isSolved(current)
      BY <2>1, <2>5 DEF ShownIsFresh, isSolved
    <2>6. CASE shown # current /\ ~isSolved(current)
      BY <2>1, <2>2, <2>3, <2>4, <2>6 DEF ShownIsFresh, isSolved, IsFresh
    <2>. QED  BY <2>5, <2>6
  <1>4. CASE AbortSolving
    <2>1. /\ shown' = shown /\ Len(threads') = Len(threads)
          /\ \A u \in Threads : threads'[u].comp = threads[u].comp
                              /\ threads'[u].pc = threads[u].pc
                              /\ threads'[u].left = threads[u].left
          /\ \A c \in Objects : /\ computations'[c].steps = computations[c].steps
                               /\ computations'[c].fields = computations[c].fields
                               /\ computations'[c].view = computations[c].view
                               /\ computations'[c].processed = computations[c].processed
      BY <1>4, AbortSolvingEffect DEF AbortSolving
    <2>. QED  BY <1>1, <2>1 DEF ShownIsFresh, isSolved, IsFresh, Alive, Threads, Patient
  <1>5. CASE DeleteSolutions \/ NewDocument \/ Open
    <2>1. /\ shown' = shown /\ threads' = threads
          /\ \A c \in Objects : computations'[c] = ClearComputations[c]
      BY <1>5, OpenEffect DEF DeleteSolutions, NewDocument
    <2>2. shown # Null => computations'[shown] = computations[shown]
                          \/ computations'[shown].steps = 0
      BY <1>1, <2>1, ClearedComputations
    <2>. QED  BY <2>1, <2>2 DEF ShownIsFresh, isSolved, IsFresh, Alive, Threads, Patient
  <1>6. ASSUME NEW d \in Directories, SelectComputation(d) PROVE ShownIsFresh'
    BY <1>6 DEF SelectComputation, ShownIsFresh, isSolved, IsFresh, Alive, Threads, Patient
  <1>7. CASE Refresh
    <2>1. /\ shown' \in Objects \union {Null} /\ threads' = threads
          /\ shown' = shown /\ shown # Null => computations'[shown] = computations[shown]
          /\ shown' \notin {Null, shown} => IsFresh(shown)'
      BY <1>7, RefreshEffect DEF Refresh, IsFresh
    <2>. QED  BY <2>1 DEF ShownIsFresh, isSolved, IsFresh, Alive, Threads, Patient
  <1>8. CASE CloseDialog
    <2>1. /\ UNCHANGED <<computations, shown>> /\ Threads' = Threads
          /\ \A u \in Threads : SameButLeft(threads'[u], threads[u])
      BY <1>8, CloseDialogEffect DEF Threads
    <2>. QED  BY <2>1 DEF ShownIsFresh, isSolved, IsFresh, Alive, Patient, SameButLeft
  <1>9. CASE Crash
    BY <1>9 DEF Crash, ShownIsFresh, isSolved
  <1>10. CASE UNCHANGED vars
    BY <1>10 DEF vars, ShownIsFresh, isSolved, IsFresh, Alive, Threads, Patient
  <1>. QED  BY <1>2, <1>3, <1>4, <1>5, <1>6, <1>7, <1>8, <1>9, <1>10

(***************************************************************************)
(* Unless a solve was left alone, the program does not crash, and when the *)
(* window is free, what it paints is the field the computation has,        *)
(* whatever was solved, cut short, deleted or opened before.               *)
(***************************************************************************)
THEOREM SpecShownFieldIsAlive == Spec => []ShownFieldIsAlive
  <1>1. Init => ShownIsFresh
    BY DEF Init, ShownIsFresh, isSolved, Null
  <1>2. Typed /\ OneSolve /\ ShownIsFresh /\ [Next]_vars => ShownIsFresh'
    BY SolveShownIsFresh, OtherShownIsFresh DEF Next
  <1>3. Typed /\ OneSolve /\ ShownIsFresh => ShownFieldIsAlive
    <2>1. ASSUME Typed, OneSolve, ShownIsFresh, Patient, WindowIsFree, isSolved(shown),
                 computations[shown].processed
          PROVE  IsFresh(shown)
      <3>1. \A t \in Threads : ~Alive(t)
        BY <2>1, FreeWindow DEF Patient, Waited
      <3>. QED  BY <2>1, <3>1 DEF ShownIsFresh
    <2>. QED  BY <2>1 DEF ShownFieldIsAlive, OneSolve, IsFresh
  <1>. QED  BY <1>1, <1>2, <1>3, InitTyped, TypedInductive, InitOneSolve, OneSolveInductive,
               PTL DEF Spec
=============================================================================
