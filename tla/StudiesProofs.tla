---------------------------- MODULE StudiesProofs ----------------------------
(***************************************************************************)
(* The invariants of the studies, proved for any kinds of studies, any     *)
(* goal values and any bounds. Four invariants follow each other: what     *)
(* the sets, the registry and the file hold (IInv), who may be told to     *)
(* stop (AbortInv), what a listed computation is (DoneInv), and from it   *)
(* what the sort of the computations returns.                              *)
(***************************************************************************)
EXTENDS Studies, FiniteInduction

(* Definitions of the model on lists                                       *)

\* RemoveAt moves the following elements up by one.
LEMMA RemoveAtProperties ==
    ASSUME NEW S, NEW s \in Seq(S), NEW i \in 1 .. Len(s)
    PROVE  /\ RemoveAt(s, i) \in Seq(S)
           /\ Len(RemoveAt(s, i)) = Len(s) - 1
           /\ \A j \in 1 .. Len(s) - 1 :
                 RemoveAt(s, i)[j] = IF j < i THEN s[j] ELSE s[j + 1]
<1>1. RemoveAt(s, i) = WithoutElement(s, i)
  BY DEF RemoveAt, WithoutElement
<1> QED BY <1>1, ElementRemoved

\* Kept, unfolded: the list that has been kept of the first n members.
LEMMA KeptRec ==
    ASSUME NEW S, NEW s \in Seq(S), NEW wanted
    PROVE  \E g \in [0 .. Len(s) -> Seq(S)] :
              /\ Kept(s, wanted) = g[Len(s)]
              /\ g[0] = <<>>
              /\ \A n \in 1 .. Len(s) :
                    g[n] = IF s[n] \in wanted THEN Append(g[n - 1], s[n]) ELSE g[n - 1]
<1> DEFINE N == Len(s)
           step == [n \in 1 .. N |-> [t \in Seq(S) |->
                       IF s[n] \in wanted THEN Append(t, s[n]) ELSE t]]
           Rec(g) == g = [n \in 0 .. N |->
                            IF n = 0 THEN <<>>
                            ELSE IF s[n] \in wanted THEN Append(g[n - 1], s[n])
                            ELSE g[n - 1]]
           f == CHOOSE g : Rec(g)
<1>0. N \in Nat /\ <<>> \in Seq(S) /\ s \in [1 .. N -> S]
  OBVIOUS
<1>1. step \in [1 .. N -> [Seq(S) -> Seq(S)]]
  OBVIOUS
<1> HIDE DEF step, N, f
<1>2. PICK g : Follows(g, Seq(S), N, <<>>, step)
  <2>1. StaysIn(Seq(S), N, step)
    BY <1>1 DEF StaysIn
  <2> QED BY <1>0, <2>1, RecursionExists
<1>3. /\ g \in [0 .. N -> Seq(S)]
      /\ g[0] = <<>>
      /\ \A i \in 1 .. N : g[i] = step[i][g[i - 1]]
  BY <1>2 DEF Follows
<1> USE DEF step
<1>4. \A i \in 1 .. N : g[i] = IF s[i] \in wanted THEN Append(g[i - 1], s[i]) ELSE g[i - 1]
  <2> TAKE i \in 1 .. N
  <2>1. g[i - 1] \in Seq(S)
    BY <1>0, <1>3
  <2> QED BY <1>3, <2>1
<1> HIDE DEF step, N
<1>5. Rec(g)
  <2>1. g = [n \in 0 .. N |-> g[n]]
    BY <1>3
  <2>2. \A n \in 0 .. N : g[n] = IF n = 0 THEN <<>>
                            ELSE IF s[n] \in wanted THEN Append(g[n - 1], s[n])
                            ELSE g[n - 1]
    <3> TAKE n \in 0 .. N
    <3>1. CASE n = 0
      BY <3>1, <1>3
    <3>2. CASE n # 0
      <4>1. n \in 1 .. N
        BY <1>0, <3>2
      <4> QED BY <4>1, <3>2, <1>4
    <3> QED BY <3>1, <3>2
  <2> QED BY <2>1, <2>2
<1>6. Rec(f)
  <2> HIDE DEF Rec
  <2> QED BY <1>5 DEF f
<1>7. Kept(s, wanted) = f[N]
  BY Zenon DEF Kept, N, f
<1>8. f[0] = <<>> /\ \A i \in 1 .. N : f[i] = IF s[i] \in wanted THEN Append(f[i - 1], s[i]) ELSE f[i - 1]
  <2>1. \A n \in 0 .. N : f[n] = IF n = 0 THEN <<>>
                            ELSE IF s[n] \in wanted THEN Append(f[n - 1], s[n])
                            ELSE f[n - 1]
    BY Zenon, <1>6
  <2> QED BY <2>1, <1>0
<1>9. f[N] = g[N]
  <2> HIDE DEF Rec
  <2>0. StepsAgree(f, g, N)
    BY <1>3, <1>4, <1>8 DEF StepsAgree
  <2>1. \A i \in 0 .. N : f[i] = g[i]
    BY <1>0, <2>0, SameValues
  <2> QED BY <1>0, <2>1
<1> QED BY <1>3, <1>4, <1>7, <1>9 DEF N

\* h tells where in s the members of k come from.
Selects(h, k, s, wanted) ==
    /\ h \in [1 .. Len(k) -> 1 .. Len(s)]
    /\ \A i, j \in 1 .. Len(k) : h[i] = h[j] => i = j
    /\ \A i \in 1 .. Len(k) : k[i] = s[h[i]] /\ s[h[i]] \in wanted

(***************************************************************************)
(* Kept (the loops that remove members from a QList) returns members that  *)
(* are wanted, each from a place of its own, and all of them.              *)
(***************************************************************************)
LEMMA KeptPositions ==
    ASSUME NEW S, NEW s \in Seq(S), NEW wanted
    PROVE  /\ Kept(s, wanted) \in Seq(S)
           /\ \E h : Selects(h, Kept(s, wanted), s, wanted)
           /\ \A m \in 1 .. Len(s) : s[m] \in wanted =>
                 \E i \in 1 .. Len(Kept(s, wanted)) : Kept(s, wanted)[i] = s[m]
<1> DEFINE N == Len(s)
<1>0. N \in Nat /\ s \in [1 .. N -> S]
  OBVIOUS
<1>1. PICK g \in [0 .. N -> Seq(S)] :
              /\ Kept(s, wanted) = g[N]
              /\ g[0] = <<>>
              /\ \A n \in 1 .. N :
                    g[n] = IF s[n] \in wanted THEN Append(g[n - 1], s[n]) ELSE g[n - 1]
  BY KeptRec, SMTT(40)
<1> HIDE DEF N
<1> DEFINE Places(n, h) ==
              /\ h \in [1 .. Len(g[n]) -> 1 .. n]
              /\ \A i, j \in DOMAIN h : h[i] = h[j] => i = j
              /\ \A i \in DOMAIN h : g[n][i] = s[h[i]] /\ s[h[i]] \in wanted
           All(n) == \A m \in 1 .. n : s[m] \in wanted =>
                        \E i \in 1 .. Len(g[n]) : g[n][i] = s[m]
           T == {n \in 0 .. N : (\E h : Places(n, h)) /\ All(n)}
<1>2. 0 \in T
  <2>1. Places(0, <<>>)
    BY <1>1
  <2>2. All(0)
    OBVIOUS
  <2> HIDE DEF Places, All
  <2> QED BY <2>1, <2>2, <1>0
<1>3. ASSUME NEW k \in 0 .. N - 1, k \in T PROVE k + 1 \in T
  <2>0. k \in Nat /\ k + 1 \in 1 .. N /\ (k + 1) - 1 = k /\ g[k] \in Seq(S) /\ s[k + 1] \in S
    BY <1>0
  <2>1. PICK h : Places(k, h)
    BY <1>3
  <2>2. CASE s[k + 1] \in wanted
    <3> DEFINE n == Len(g[k])
               f == [i \in 1 .. n + 1 |-> IF i = n + 1 THEN k + 1 ELSE h[i]]
    <3>1. g[k + 1] = Append(g[k], s[k + 1])
      BY <1>1, <2>0, <2>2
    <3>2. /\ n \in Nat
          /\ Len(g[k + 1]) = n + 1
          /\ \A i \in 1 .. n : g[k + 1][i] = g[k][i]
          /\ g[k + 1][n + 1] = s[k + 1]
      BY <2>0, <3>1, AppendProperties
    <3> HIDE DEF n
    <3>3. /\ h \in [1 .. n -> 1 .. k]
          /\ \A i, j \in 1 .. n : h[i] = h[j] => i = j
          /\ \A i \in 1 .. n : g[k][i] = s[h[i]] /\ s[h[i]] \in wanted
      BY <2>1 DEF n
    <3>4. Places(k + 1, f)
      <4>1. f \in [1 .. n + 1 -> 1 .. k + 1]
        BY <3>2, <3>3, <2>0
      <4>2. \A i, j \in 1 .. n + 1 : f[i] = f[j] => i = j
        <5> TAKE i, j \in 1 .. n + 1
        <5>1. i \in 1 .. n => h[i] \in 1 .. k
          BY <3>3
        <5>2. j \in 1 .. n => h[j] \in 1 .. k
          BY <3>3
        <5> QED BY <5>1, <5>2, <3>2, <3>3, <2>0
      <4>3. \A i \in 1 .. n + 1 : g[k + 1][i] = s[f[i]] /\ s[f[i]] \in wanted
        BY <3>2, <3>3, <2>2, <2>0
      <4> HIDE DEF f
      <4>4. DOMAIN f = 1 .. n + 1
        BY <4>1
      <4> QED BY <3>2, <4>1, <4>2, <4>3, <4>4
    <3>5. All(k + 1)
      <4> SUFFICES ASSUME NEW m \in 1 .. k + 1, s[m] \in wanted
                   PROVE  \E i \in 1 .. n + 1 : g[k + 1][i] = s[m]
        BY <3>2
      <4>1. CASE m = k + 1
        BY <4>1, <3>2
      <4>2. CASE m # k + 1
        <5>1. PICK i \in 1 .. n : g[k][i] = s[m]
          BY <4>2, <1>3, <2>0 DEF n
        <5> QED BY <5>1, <3>2
      <4> QED BY <4>1, <4>2
    <3> HIDE DEF Places, All, f
    <3> QED BY <3>4, <3>5, <2>0
  <2>3. CASE s[k + 1] \notin wanted
    <3>1. g[k + 1] = g[k]
      BY <1>1, <2>0, <2>3
    <3>2. Places(k + 1, h)
      BY <2>1, <3>1, <2>0
    <3>3. All(k + 1)
      <4> SUFFICES ASSUME NEW m \in 1 .. k + 1, s[m] \in wanted
                   PROVE  \E i \in 1 .. Len(g[k + 1]) : g[k + 1][i] = s[m]
        OBVIOUS
      <4>1. m \in 1 .. k
        BY <2>0, <2>3
      <4> QED BY <1>3, <3>1, <4>1
    <3> HIDE DEF Places, All
    <3> QED BY <3>2, <3>3, <2>0
  <2> QED BY <2>2, <2>3
<1>4. \A k \in 0 .. N : k \in T
  <2> HIDE DEF T
  <2>1. \A k \in 0 .. N - 1 : k \in T => k + 1 \in T
    BY <1>3
  <2> QED BY <1>0, <1>2, <2>1, SetInduction
<1>5. N \in T
  <2> HIDE DEF T
  <2> QED BY <1>0, <1>4
<1>6. PICK h : Places(N, h)
  BY <1>5
<1>7. All(N)
  BY <1>5
<1> DEFINE K == Kept(s, wanted)
<1>8. K = g[N] /\ K \in Seq(S)
  BY <1>0, <1>1
<1> HIDE DEF K
<1>9. /\ h \in [1 .. Len(K) -> 1 .. N]
      /\ \A i, j \in DOMAIN h : h[i] = h[j] => i = j
      /\ \A i \in DOMAIN h : K[i] = s[h[i]] /\ s[h[i]] \in wanted
  BY <1>6, <1>8
<1>10. \A m \in 1 .. N : s[m] \in wanted => \E i \in 1 .. Len(K) : K[i] = s[m]
  BY <1>7, <1>8
<1>11. Selects(h, K, s, wanted)
  BY <1>9 DEF Selects, N
<1> QED BY <1>8, <1>10, <1>11 DEF N, K

\* Kept returns a list of wanted members.
LEMMA KeptType ==
    ASSUME NEW S, NEW s \in Seq(S), NEW wanted
    PROVE  Kept(s, wanted) \in Seq(S \cap wanted)
<1> DEFINE k == Kept(s, wanted)
<1>1. PICK h : Selects(h, k, s, wanted)
  BY KeptPositions
<1>2. k \in Seq(S)
  BY KeptPositions
<1> HIDE DEF k
<1>3. \A i \in 1 .. Len(k) : k[i] \in S \cap wanted
  BY <1>1, <1>2 DEF Selects
<1> QED BY <1>2, <1>3 DEF k

\* Kept returns the set of the wanted members.
LEMMA RangeOfKept ==
    ASSUME NEW S, NEW s \in Seq(S), NEW wanted
    PROVE  Kept(s, wanted) \in Seq(S) /\ Range(Kept(s, wanted)) = Range(s) \cap wanted
<1> DEFINE k == Kept(s, wanted)
<1>1. k \in Seq(S) /\ \A m \in 1 .. Len(s) : s[m] \in wanted => \E i \in 1 .. Len(k) : k[i] = s[m]
  BY KeptPositions
<1>2. PICK h : Selects(h, k, s, wanted)
  BY KeptPositions
<1> HIDE DEF k
<1>3. Range(k) = {k[i] : i \in 1 .. Len(k)} /\ Range(s) = {s[i] : i \in 1 .. Len(s)}
  BY <1>1, RangeEquality
<1>4. \A x \in Range(k) : x \in Range(s) /\ x \in wanted
  BY <1>2, <1>3 DEF Selects
<1>5. \A x \in Range(s) : x \in wanted => x \in Range(k)
  BY <1>1, <1>3
<1> QED BY <1>1, <1>4, <1>5 DEF k

-----------------------------------------------------------------------------
(* What is kept, registered and saved                                      *)

\* The studies whose sets list members of R only.
StudyRecords(R) ==
    [kind : Kinds, clears : Clears, sets : Seq(Seq(R)), isSolving : BOOLEAN,
     abort : BOOLEAN]

\* A list of lists stays one when the set of their members grows.
LEMMA SetsMonotonic ==
    ASSUME NEW R, NEW Q, R \subseteq Q, NEW sets \in Seq(Seq(R))
    PROVE  sets \in Seq(Seq(Q))
<1>1. Seq(R) \subseteq Seq(Q)
  BY SeqMonotonic
<1> QED BY <1>1, SeqMonotonic

\* So does a list of studies, when the registry grows.
LEMMA StudiesMonotonic ==
    ASSUME NEW R, NEW Q, R \subseteq Q, NEW list \in Seq(StudyRecords(R))
    PROVE  list \in Seq(StudyRecords(Q))
<1>1. Seq(Seq(R)) \subseteq Seq(Seq(Q))
  BY SetsMonotonic
<1>2. StudyRecords(R) \subseteq StudyRecords(Q)
  BY <1>1 DEF StudyRecords
<1> QED BY <1>2, SeqMonotonic

\* Removing empty sets (removeEmptyComputationSets) adds no computation.
LEMMA NotEmptyType ==
    ASSUME NEW R, NEW sets \in Seq(Seq(R))
    PROVE  NotEmpty(sets) \in Seq(Seq(R))
<1>1. NotEmpty(sets) \in Seq(Seq(R) \cap (Range(sets) \ {<<>>}))
  BY KeptType DEF NotEmpty
<1> QED BY <1>1, SeqMonotonic

\* addComputation keeps the sets a list of lists.
LEMMA AddType ==
    ASSUME NEW R, NEW sets \in Seq(Seq(R)), NEW c \in R
    PROVE  addComputation(sets, c) \in Seq(Seq(R))
<1>1. CASE sets = <<>>
  BY <1>1 DEF addComputation
<1>2. CASE sets # <<>>
  <2>1. Len(sets) \in 1 .. Len(sets) /\ sets[Len(sets)] \in Seq(R)
    BY <1>2
  <2>2. Append(sets[Len(sets)], c) \in Seq(R)
    BY <2>1
  <2>3. addComputation(sets, c)
          = [sets EXCEPT ![Len(sets)] = Append(sets[Len(sets)], c)]
    BY <1>2 DEF addComputation
  <2> QED BY <2>1, <2>2, <2>3, ExceptSeq
<1> QED BY <1>1, <1>2

(***************************************************************************)
(* The sets that ComputationSet::load makes list only what the registry    *)
(* of the file knows.                                                      *)
(***************************************************************************)
LEMMA KnownType ==
    ASSUME NEW R, NEW sets \in Seq(Seq(R))
    PROVE  KnownComputations(sets) \in Seq(Seq(file.registry))
<1>1. \A i \in 1 .. Len(sets) : Kept(sets[i], file.registry) \in Seq(file.registry)
  <2> TAKE i \in 1 .. Len(sets)
  <2>1. sets[i] \in Seq(R)
    OBVIOUS
  <2>2. Kept(sets[i], file.registry) \in Seq(R \cap file.registry)
    BY <2>1, KeptType
  <2> QED BY <2>2, SeqMonotonic
<1>2. DOMAIN sets = 1 .. Len(sets) /\ Len(sets) \in Nat
  OBVIOUS
<1>3. KnownComputations(sets) \in [1 .. Len(sets) -> Seq(file.registry)]
  BY <1>1, <1>2 DEF KnownComputations
<1> QED BY <1>2, <1>3, FunctionIsSequence

(***************************************************************************)
(* Removing each registered computation from sets that list registered     *)
(* ones only leaves nothing in them.                                       *)
(***************************************************************************)
LEMMA WithoutRegisteredType ==
    ASSUME NEW sets \in Seq(Seq(registry))
    PROVE  WithoutRegistered(sets) \in Seq(Seq({}))
<1>1. CASE registry = {}
  BY <1>1 DEF WithoutRegistered
<1>2. CASE registry # {}
  <2> DEFINE left == [i \in DOMAIN sets |-> Kept(sets[i], Created \ registry)]
  <2>1. \A i \in 1 .. Len(sets) : Kept(sets[i], Created \ registry) \in Seq({})
    <3> TAKE i \in 1 .. Len(sets)
    <3>1. sets[i] \in Seq(registry)
      OBVIOUS
    <3>2. Kept(sets[i], Created \ registry) \in Seq(registry \cap (Created \ registry))
      BY <3>1, KeptType
    <3>3. registry \cap (Created \ registry) = {}
      OBVIOUS
    <3> QED BY <3>2, <3>3
  <2>2. DOMAIN sets = 1 .. Len(sets) /\ Len(sets) \in Nat
    OBVIOUS
  <2>3. left \in Seq(Seq({}))
    <3>1. left \in [1 .. Len(sets) -> Seq({})]
      BY <2>1, <2>2
    <3> HIDE DEF left
    <3> QED BY <2>2, <3>1, FunctionIsSequence
  <2>4. WithoutRegistered(sets) = NotEmpty(left)
    BY <1>2 DEF WithoutRegistered
  <2> HIDE DEF left
  <2> QED BY <2>3, <2>4, NotEmptyType
<1> QED BY <1>1, <1>2

\* A computation: evaluated or not, with a solution or not.
Computations == [goals : Goals \union {<<>>}, evaluated : BOOLEAN, isSolved : BOOLEAN]

(***************************************************************************)
(* The sets list what the registry knows, in memory and in the file, and   *)
(* the registries know computations that were made.                        *)
(***************************************************************************)
KeptInv ==
    /\ computations \in Seq(Computations)
    /\ registry \subseteq Created
    /\ studies \in Seq(StudyRecords(registry))
    /\ localStudy \in {Null} \union Pagmos(studies)
    /\ file.registry \subseteq Created
    /\ file.studies \in Seq(StudyRecords(file.registry))

\* The state of a study that is solved.
Runs == [study : Nat, pc : {"idle", "ask", "solve", "events", "escaped"},
         comp : Nat, left : 0 .. Evaluations, phase : 1 .. 2,
         told : BOOLEAN, late : BOOLEAN]

(***************************************************************************)
(* The computation that is being evaluated is registered, and one more     *)
(* evaluation was granted.                                                 *)
(***************************************************************************)
RunInv ==
    /\ run \in Runs
    /\ run.pc = "idle" => run = NoRun
    /\ run.pc # "idle" => run.study \in DOMAIN studies
    /\ run.comp \in {Null} \union Created
    /\ run.pc \in {"solve", "events"} => run.comp \in registry /\ run.left > 0

(***************************************************************************)
(* The inductive invariant of the type invariant and of                    *)
(* ListedIsRegistered.                                                     *)
(***************************************************************************)
IInv == KeptInv /\ RunInv

\* It holds before anything was done.
LEMMA InitIInv == Init => IInv
<1> SUFFICES ASSUME Init PROVE IInv
  OBVIOUS
<1>1. NoRun \in Runs
  BY EvaluationsAssumption DEF NoRun, Runs, Null
<1>2. KeptInv
  BY DEF Init, KeptInv, Created, NoFile, Null, Pagmos
<1> QED BY <1>1, <1>2 DEF Init, IInv, RunInv, NoRun, Null

\* The lengths and the members of the lists of one state.
LEMMA StateFacts ==
    ASSUME IInv
    PROVE  /\ Len(computations) \in Nat /\ DOMAIN computations = Created
           /\ Len(studies) \in Nat /\ DOMAIN studies = 1 .. Len(studies)
           /\ \A s \in DOMAIN studies : studies[s] \in StudyRecords(registry)
           /\ Len(file.studies) \in Nat /\ DOMAIN file.studies = 1 .. Len(file.studies)
           /\ \A s \in DOMAIN file.studies : file.studies[s] \in StudyRecords(file.registry)
           /\ \A c \in Created : c \in Nat \ {0}
BY DEF IInv, KeptInv, Created

\* Changing one study leaves a list of studies, of the same kinds.
LEMMA StudyChanged ==
    ASSUME IInv, NEW s \in DOMAIN studies, NEW study \in StudyRecords(registry),
           study.kind = studies[s].kind
    PROVE  /\ [studies EXCEPT ![s] = study] \in Seq(StudyRecords(registry))
           /\ Pagmos([studies EXCEPT ![s] = study]) = Pagmos(studies)
           /\ DOMAIN [studies EXCEPT ![s] = study] = DOMAIN studies
<1>1. studies \in Seq(StudyRecords(registry)) /\ s \in 1 .. Len(studies)
  BY StateFacts DEF IInv, KeptInv
<1>2. [studies EXCEPT ![s] = study] \in Seq(StudyRecords(registry))
  BY <1>1, ExceptSeq
<1>3. DOMAIN [studies EXCEPT ![s] = study] = DOMAIN studies
  OBVIOUS
<1> QED BY <1>2, <1>3 DEF Pagmos

\* OptiLabStudy::doNewStudy preserves the invariant.
LEMMA NewStudyIInv ==
    ASSUME IInv, NEW kind \in Kinds, NEW clears \in Clears, NewStudy(kind, clears)
    PROVE  IInv'
<1> DEFINE new == Study(kind, clears, <<>>)
           n == Len(studies)
<1>1. new \in StudyRecords(registry) /\ new.kind = kind
  BY DEF Study, StudyRecords
<1>2. studies \in Seq(StudyRecords(registry)) /\ n \in Nat
  BY DEF IInv, KeptInv
<1>3. studies' = Append(studies, new)
  BY DEF NewStudy
<1> HIDE DEF new
<1>4. /\ studies' \in Seq(StudyRecords(registry))
      /\ Len(studies') = n + 1
      /\ \A i \in 1 .. n : studies'[i] = studies[i]
      /\ studies'[n + 1] = new
  BY <1>1, <1>2, <1>3, AppendProperties
<1>5. DOMAIN studies = 1 .. n /\ DOMAIN studies' = 1 .. n + 1
  BY <1>2, <1>4
<1> HIDE DEF n
<1>6. /\ \A i \in Pagmos(studies) : i \in Pagmos(studies')
      /\ kind = "pagmo" => n + 1 \in Pagmos(studies')
  BY <1>1, <1>2, <1>4, <1>5 DEF Pagmos
<1>7. UNCHANGED <<computations, registry, run, runs, file, files>>
  BY DEF NewStudy
<1>8. localStudy' \in {Null} \union Pagmos(studies')
  BY <1>4, <1>6 DEF NewStudy, IInv, KeptInv
<1> QED BY <1>4, <1>5, <1>7, <1>8, <1>2 DEF IInv, KeptInv, RunInv, Created

\* OptiLabStudy::doItemSolve preserves it: the sets are cleared.
LEMMA SolveIInv ==
    ASSUME IInv, NEW s \in DOMAIN studies, Solve(s)
    PROVE  IInv'
<1> DEFINE old == studies[s]
           sets == IF old.kind = "pagmo" THEN <<>> ELSE << <<>> >>
           new == [old EXCEPT !.sets = sets, !.isSolving = TRUE, !.abort = FALSE]
<1>1. old \in StudyRecords(registry)
  BY StateFacts
<1>2. sets \in Seq(Seq(registry)) /\ <<>> \o sets = sets
  OBVIOUS
<1>3. new \in StudyRecords(registry) /\ new.kind = old.kind
  BY <1>1, <1>2 DEF StudyRecords
<1>4. [Reset(old) EXCEPT !.isSolving = TRUE, !.sets = (Reset(old).sets) \o sets] = new
  BY <1>1, <1>2 DEF StudyRecords, Reset
<1>5. studies' = [studies EXCEPT ![s] = new]
  BY <1>4 DEF Solve
<1> HIDE DEF new
<1>6. /\ studies' \in Seq(StudyRecords(registry))
      /\ Pagmos(studies') = Pagmos(studies)
      /\ DOMAIN studies' = DOMAIN studies
  BY <1>3, <1>5, StudyChanged
<1>7. UNCHANGED <<computations, registry, localStudy, file, files>>
  BY DEF Solve
<1> DEFINE left == IF studies[s].kind = "model" THEN 1 ELSE Evaluations
<1>8. run' = [NoRun EXCEPT !.study = s, !.pc = "ask", !.left = left] /\ s \in Nat
  BY StateFacts DEF Solve
<1>9. left \in 0 .. Evaluations
  BY EvaluationsAssumption
<1> HIDE DEF left
<1>10. run' = [study |-> s, pc |-> "ask", comp |-> 0, left |-> left, phase |-> 1,
               told |-> FALSE, late |-> FALSE]
  BY <1>8 DEF NoRun, Null
<1>11. run' \in Runs
  <2>1. s \in Nat
    BY <1>8
  <2> QED BY <2>1, <1>9, <1>10, EvaluationsAssumption DEF Runs
<1>12. RunInv'
  BY <1>6, <1>10, <1>11 DEF RunInv, Null
<1> QED BY <1>6, <1>7, <1>12 DEF IInv, KeptInv, Created

\* A refused evaluation preserves it: the budget stays in its range.
LEMMA RefuseIInv ==
    ASSUME IInv, Refuse
    PROVE  IInv'
<1> DEFINE left == IF studies[run.study].kind \in {"nlopt", "bayesopt"} THEN 0 ELSE run.left - 1
<1>0. run \in Runs /\ run.left > 0 /\ run' = [run EXCEPT !.left = left]
  BY DEF Refuse, IInv, RunInv
<1>1. left \in 0 .. Evaluations
  BY <1>0, EvaluationsAssumption DEF Runs
<1> HIDE DEF left
<1>4. run' \in Runs /\ run'.pc = run.pc /\ run'.comp = run.comp /\ run'.study = run.study
  BY <1>0, <1>1 DEF Runs
<1>2. UNCHANGED <<computations, registry, studies, localStudy, runs, file, files>>
  BY DEF Refuse
<1>3. run.pc = "ask"
  BY DEF Refuse
<1> QED BY <1>2, <1>3, <1>4 DEF IInv, KeptInv, RunInv, Created

(***************************************************************************)
(* Problem::createComputation preserves it: the computation is registered  *)
(* as soon as it is made.                                                  *)
(***************************************************************************)
LEMMA EvaluateIInv ==
    ASSUME IInv, Evaluate
    PROVE  IInv'
<1> DEFINE new == [goals |-> <<>>, evaluated |-> FALSE, isSolved |-> FALSE]
           n == Len(computations)
           late == run.told /\ ~InitialSample
<1>1. computations \in Seq(Computations) /\ new \in Computations /\ n \in Nat
  BY DEF IInv, KeptInv, Computations
<1>2. computations' = Append(computations, new)
  BY DEF Evaluate
<1> HIDE DEF new
<1>3. computations' \in Seq(Computations) /\ Len(computations') = n + 1
  BY <1>1, <1>2, AppendProperties
<1> HIDE DEF n
<1>4. Created \subseteq Created' /\ n + 1 \in Created'
  BY <1>1, <1>3 DEF Created, n
<1>5. registry' = registry \union {n + 1}
  BY <1>3 DEF Evaluate
<1>6. UNCHANGED <<studies, localStudy, runs, file, files>>
  BY DEF Evaluate
<1>7. studies' \in Seq(StudyRecords(registry'))
  <2>1. registry \subseteq registry' /\ studies \in Seq(StudyRecords(registry))
    BY <1>5 DEF IInv, KeptInv
  <2> QED BY <2>1, <1>6, StudiesMonotonic
<1>8. KeptInv'
  BY <1>3, <1>4, <1>5, <1>6, <1>7 DEF IInv, KeptInv
<1>9. /\ run.pc = "ask" /\ run.left > 0 /\ run \in Runs /\ run.study \in DOMAIN studies
      /\ run' = [run EXCEPT !.pc = "solve", !.comp = n + 1, !.late = late]
  BY <1>3 DEF Evaluate, IInv, RunInv
<1>12. late \in BOOLEAN
  OBVIOUS
<1> HIDE DEF late
<1>10. run' \in Runs /\ run'.pc = "solve" /\ run'.comp = n + 1 /\ run'.left > 0
       /\ run'.study = run.study
  <2>1. run \in Runs /\ n + 1 \in Nat
    BY <1>1, <1>9
  <2> DEFINE c == n + 1
  <2>2. run' = [run EXCEPT !.pc = "solve", !.comp = c, !.late = late] /\ c \in Nat
    BY <2>1, <1>9
  <2> HIDE DEF c
  <2>3. run' \in Runs /\ run'.pc = "solve" /\ run'.comp = c /\ run'.left = run.left
        /\ run'.study = run.study
    BY <2>1, <2>2, <1>12, EvaluationsAssumption DEF Runs
  <2> QED BY <2>3, <1>9 DEF c
<1>11. RunInv'
  BY <1>4, <1>5, <1>6, <1>9, <1>10 DEF RunInv
<1> QED BY <1>8, <1>11 DEF IInv

\* Study::evaluateStep preserves it.
LEMMA SolvedIInv ==
    ASSUME IInv, NEW goals \in Goals, Solved(goals)
    PROVE  IInv'
<1> DEFINE new == [goals |-> goals, evaluated |-> TRUE, isSolved |-> TRUE]
<1>1. computations \in Seq(Computations) /\ new \in Computations
  BY DEF IInv, KeptInv, Computations
<1>2. run.comp \in 1 .. Len(computations) /\ run.pc = "solve"
  BY DEF Solved, IInv, KeptInv, RunInv, Created
<1>3. computations' = [computations EXCEPT ![run.comp] = new]
  BY DEF Solved
<1> HIDE DEF new
<1>4. computations' \in Seq(Computations) /\ Len(computations') = Len(computations)
  BY <1>1, <1>2, <1>3, ExceptSeq
<1>5. UNCHANGED <<registry, studies, localStudy, runs, file, files>>
  BY DEF Solved
<1>6. run' = [run EXCEPT !.pc = "events"]
  BY DEF Solved
<1>7. run' \in Runs /\ run'.pc = "events" /\ run'.comp = run.comp
      /\ run'.study = run.study /\ run'.left = run.left
  BY <1>6 DEF IInv, RunInv, Runs
<1> QED BY <1>2, <1>4, <1>5, <1>7 DEF IInv, KeptInv, RunInv, Created

\* An exception of evaluateStep preserves it.
LEMMA NotSolvedIInv ==
    ASSUME IInv, NotSolved
    PROVE  IInv'
<1>1. /\ run.pc = "solve" /\ run.left > 0 /\ run \in Runs
      /\ UNCHANGED <<computations, registry, studies, localStudy, runs, file, files>>
  BY DEF NotSolved, IInv, RunInv
<1> DEFINE pc == IF studies[run.study].kind = "model" THEN "escaped" ELSE "ask"
<1>2. run' = [run EXCEPT !.pc = pc, !.left = run.left - 1]
  BY DEF NotSolved
<1>4. pc \in {"ask", "escaped"}
  OBVIOUS
<1> DEFINE left == run.left - 1
<1>5. left \in 0 .. Evaluations
  BY <1>1, EvaluationsAssumption DEF Runs
<1>6. run' = [run EXCEPT !.pc = pc, !.left = left]
  BY <1>2
<1> HIDE DEF pc, left
<1>3. run' \in Runs /\ run'.pc \in {"ask", "escaped"} /\ run'.comp = run.comp
      /\ run'.study = run.study
  BY <1>1, <1>6, <1>4, <1>5, EvaluationsAssumption DEF Runs
<1> QED BY <1>1, <1>3 DEF IInv, KeptInv, RunInv, Created

\* StudySolverDialog::aborted preserves it.
LEMMA AbortIInv ==
    ASSUME IInv, Abort
    PROVE  IInv'
<1> DEFINE s == run.study
           new == [studies[s] EXCEPT !.abort = TRUE]
<1>1. s \in DOMAIN studies /\ run.pc = "events"
  BY DEF Abort, IInv, RunInv
<1>2. new \in StudyRecords(registry) /\ new.kind = studies[s].kind
  BY <1>1, StateFacts DEF StudyRecords
<1>3. studies' = [studies EXCEPT ![s] = new]
  BY DEF Abort
<1> HIDE DEF new
<1>4. /\ studies' \in Seq(StudyRecords(registry))
      /\ Pagmos(studies') = Pagmos(studies)
      /\ DOMAIN studies' = DOMAIN studies
  BY <1>1, <1>2, <1>3, StudyChanged
<1>5. run' = [run EXCEPT !.told = TRUE]
      /\ UNCHANGED <<computations, registry, localStudy, runs, file, files>>
  BY DEF Abort
<1>6. run' \in Runs /\ run'.pc = "events" /\ run'.comp = run.comp
      /\ run'.study = run.study /\ run'.left = run.left
  BY <1>1, <1>5 DEF IInv, RunInv, Runs
<1> QED BY <1>1, <1>4, <1>5, <1>6 DEF IInv, KeptInv, RunInv, Created

\* A finite set of naturals that is not empty has a greatest element.
LEMMA GreatestOf ==
    ASSUME NEW n \in Nat, NEW T, T \subseteq 1 .. n, T # {}
    PROVE  \E i \in T : \A j \in T : j <= i
<1> DEFINE Above == {k \in 0 .. n : \A j \in T : j <= k}
<1>1. Above \subseteq Nat /\ n \in Above
  OBVIOUS
<1>2. PICK k \in Above : \A m \in Above : k <= m
  BY <1>1, LeastNatural
<1>3. k \in T
  <2>1. SUFFICES ASSUME k \notin T PROVE FALSE
    OBVIOUS
  <2>2. k \in 1 .. n
    <3>1. PICK j \in T : TRUE
      OBVIOUS
    <3>2. j \in 1 .. n /\ j <= k /\ k \in 0 .. n
      BY <1>2
    <3> QED BY <3>2
  <2>3. \A j \in T : j <= k - 1
    BY <1>2, <2>1, <2>2
  <2>4. k - 1 \in Above
    BY <2>2, <2>3
  <2> QED BY <1>2, <2>2, <2>4
<1> QED BY <1>2, <1>3

(***************************************************************************)
(* The last pagmo study of a list that has one is one of its studies, so   *)
(* the static pointer of study_pagmo2.cpp is null or points to a study.    *)
(***************************************************************************)
LEMMA LastPagmoOf ==
    ASSUME NEW S, NEW list \in Seq(S)
    PROVE  /\ LastPagmo(list) \in {Null} \union Pagmos(list)
           /\ Pagmos(list) # {} => LastPagmo(list) \in Pagmos(list)
<1>1. CASE Pagmos(list) = {}
  BY <1>1 DEF LastPagmo
<1>2. CASE Pagmos(list) # {}
  <2>1. Pagmos(list) \subseteq 1 .. Len(list) /\ Len(list) \in Nat
    BY DEF Pagmos
  <2>2. \E i \in Pagmos(list) : \A j \in Pagmos(list) : j <= i
    BY <1>2, <2>1, GreatestOf
  <2> QED BY <1>2, <2>2 DEF LastPagmo
<1> QED BY <1>1, <1>2

(***************************************************************************)
(* Study::addComputation preserves the invariant: what it adds is          *)
(* registered.                                                             *)
(***************************************************************************)
LEMMA AddIInv ==
    ASSUME IInv, Add
    PROVE  IInv'
<1> DEFINE e == Evaluated
           c == run.comp
           new == [studies[e] EXCEPT !.sets = addComputation(studies[e].sets, c)]
           done == ~studies[e].clears
<1>1. /\ run \in Runs /\ run.left > 0 /\ run.pc = "events"
      /\ c \in registry /\ registry \subseteq Created
      /\ run.study \in DOMAIN studies
      /\ computations \in Seq(Computations)
      /\ studies \in Seq(StudyRecords(registry))
  BY DEF IInv, KeptInv, RunInv, Add
<1>2. /\ computations' \in Seq(Computations)
      /\ Len(computations') = Len(computations)
  <2>1. CASE UNCHANGED <<computations, studies>>
    BY <1>1, <2>1
  <2>2. CASE computations' = [computations EXCEPT ![run.comp].isSolved = ~studies[e].clears]
    <3> DEFINE cleared == [computations[c] EXCEPT !.isSolved = done]
    <3>1. c \in 1 .. Len(computations) /\ done \in BOOLEAN
      BY <1>1 DEF Created
    <3>2. computations[c] \in Computations
      BY <1>1, <3>1
    <3>3. computations' = [computations EXCEPT ![c] = cleared]
      BY <2>2
    <3> HIDE DEF done
    <3>4. cleared \in Computations
      BY <3>1, <3>2 DEF Computations
    <3> HIDE DEF cleared, c
    <3> QED BY <1>1, <3>1, <3>3, <3>4, ExceptSeq
  <2> QED BY <2>1, <2>2 DEF Add
<1>3. /\ studies' \in Seq(StudyRecords(registry))
      /\ Pagmos(studies') = Pagmos(studies)
      /\ DOMAIN studies' = DOMAIN studies
  <2>1. CASE UNCHANGED <<computations, studies>>
    BY <1>1, <2>1
  <2>2. CASE studies' = [studies EXCEPT ![e].sets = addComputation(@, run.comp)]
    <3>1. CASE e \notin DOMAIN studies
      <4>1. studies' = studies
        BY <1>1, <2>2, <3>1
      <4> QED BY <1>1, <4>1
    <3>2. CASE e \in DOMAIN studies
      <4>1. studies[e] \in StudyRecords(registry)
        BY <3>2, StateFacts
      <4>2. addComputation(studies[e].sets, c) \in Seq(Seq(registry))
        BY <1>1, <4>1, AddType DEF StudyRecords
      <4>3. new \in StudyRecords(registry) /\ new.kind = studies[e].kind
        BY <4>1, <4>2 DEF StudyRecords
      <4>4. studies' = [studies EXCEPT ![e] = new]
        BY <2>2
      <4> HIDE DEF new, e
      <4> QED BY <3>2, <4>3, <4>4, StudyChanged
    <3> QED BY <3>1, <3>2
  <2> QED BY <2>1, <2>2 DEF Add
<1>4. run' = [run EXCEPT !.pc = "ask", !.left = run.left - 1]
      /\ UNCHANGED <<registry, localStudy, runs, file, files>>
  BY DEF Add
<1>5. run' \in Runs /\ run'.pc = "ask" /\ run'.comp = run.comp /\ run'.study = run.study
  <2> DEFINE left == run.left - 1
  <2>1. run \in Runs /\ run' = [run EXCEPT !.pc = "ask", !.left = left]
    BY <1>1, <1>4
  <2>2. left \in 0 .. Evaluations
    BY <1>1, EvaluationsAssumption DEF Runs
  <2> HIDE DEF left
  <2> QED BY <2>1, <2>2, EvaluationsAssumption DEF Runs
<1> HIDE DEF e, c, new, done
<1> QED BY <1>1, <1>2, <1>3, <1>4, <1>5 DEF IInv, KeptInv, RunInv, Created

\* The second phase of bayesopt preserves it.
LEMMA NextPhaseIInv ==
    ASSUME IInv, NextPhase
    PROVE  IInv'
<1> DEFINE s == run.study
           more == Append(studies[s].sets, <<>>)
           new == [studies[s] EXCEPT !.sets = more]
<1>1. s \in DOMAIN studies /\ run.pc = "ask" /\ run \in Runs
  BY DEF NextPhase, IInv, RunInv
<1>2. studies[s] \in StudyRecords(registry)
  BY <1>1, StateFacts
<1>3. more \in Seq(Seq(registry))
  BY <1>2 DEF StudyRecords
<1>4. studies' = [studies EXCEPT ![s] = new]
  BY DEF NextPhase
<1> HIDE DEF more
<1>5. new \in StudyRecords(registry) /\ new.kind = studies[s].kind
  BY <1>2, <1>3 DEF StudyRecords
<1> HIDE DEF new
<1>6. /\ studies' \in Seq(StudyRecords(registry))
      /\ Pagmos(studies') = Pagmos(studies)
      /\ DOMAIN studies' = DOMAIN studies
  BY <1>1, <1>4, <1>5, StudyChanged
<1>7. run' = [run EXCEPT !.phase = 2, !.left = Evaluations]
      /\ UNCHANGED <<computations, registry, localStudy, runs, file, files>>
  BY DEF NextPhase
<1>8. run' \in Runs /\ run'.pc = "ask" /\ run'.comp = run.comp /\ run'.study = run.study
  <2> DEFINE left == Evaluations
             phase == 2
  <2>1. run \in Runs /\ run' = [run EXCEPT !.phase = phase, !.left = left]
    BY <1>1, <1>7
  <2>2. left \in 0 .. Evaluations /\ phase \in 1 .. 2
    BY EvaluationsAssumption
  <2> HIDE DEF left, phase
  <2>3. run' \in Runs /\ run'.pc = run.pc /\ run'.comp = run.comp /\ run'.study = run.study
    BY <2>1, <2>2, EvaluationsAssumption DEF Runs
  <2> QED BY <1>1, <2>3
<1> QED BY <1>1, <1>6, <1>7, <1>8 DEF IInv, KeptInv, RunInv, Created

\* A run that has ended is the initial one.
LEMMA IdleRun ==
    ASSUME IInv, run' = NoRun
    PROVE  RunInv'
<1>1. NoRun \in Runs
  BY EvaluationsAssumption DEF NoRun, Runs, Null
<1> QED BY <1>1 DEF RunInv, NoRun, Null

(***************************************************************************)
(* What the end of a study leaves of the studies: the flags and empty      *)
(* sets change.                                                            *)
(***************************************************************************)
LEMMA FinishStudies ==
    ASSUME IInv, Finish
    PROVE  /\ studies' \in Seq(StudyRecords(registry))
           /\ Pagmos(studies') = Pagmos(studies)
<1> DEFINE s == run.study
           e == Evaluated
           kind == studies[s].kind
           aborted == kind = "pagmo" /\ studies[s].abort
           one == [studies[s] EXCEPT !.isSolving = FALSE, !.abort = aborted]
           ended == [studies EXCEPT ![s] = one]
           sets == IF kind \in {"nlopt", "bayesopt"} THEN ended[e].sets
                   ELSE NotEmpty(ended[e].sets)
           new == [ended[e] EXCEPT !.sets = sets]
<1>1. s \in DOMAIN studies /\ studies \in Seq(StudyRecords(registry))
  BY DEF Finish, IInv, KeptInv, RunInv
<1>2. studies[s] \in StudyRecords(registry) /\ aborted \in BOOLEAN
  BY <1>1, StateFacts
<1>3. studies' = [ended EXCEPT ![e].sets = IF kind \in {"nlopt", "bayesopt"} THEN @ ELSE NotEmpty(@)]
  BY DEF Finish
<1> HIDE DEF aborted
<1>4. one \in StudyRecords(registry) /\ one.kind = studies[s].kind
  BY <1>2 DEF StudyRecords
<1> HIDE DEF one
<1>5. /\ ended \in Seq(StudyRecords(registry))
      /\ Pagmos(ended) = Pagmos(studies)
      /\ DOMAIN ended = DOMAIN studies
  BY <1>1, <1>4, StudyChanged
<1> HIDE DEF ended
<1>6. /\ studies' \in Seq(StudyRecords(registry))
      /\ Pagmos(studies') = Pagmos(studies)
      /\ DOMAIN studies' = DOMAIN studies
  <2>1. CASE e \notin DOMAIN ended
    <3>1. studies' = ended
      BY <1>3, <1>5, <2>1
    <3> QED BY <1>5, <3>1
  <2>2. CASE e \in DOMAIN ended
    <3>1. ended[e] \in StudyRecords(registry)
      BY <1>5, <2>2
    <3>2. sets \in Seq(Seq(registry))
      BY <3>1, NotEmptyType DEF StudyRecords
    <3>3. studies' = [ended EXCEPT ![e] = new]
      BY <1>3
    <3> HIDE DEF sets
    <3>4. new \in StudyRecords(registry) /\ new.kind = ended[e].kind
      BY <3>1, <3>2 DEF StudyRecords
    <3> HIDE DEF new, e
    <3>5. e \in 1 .. Len(ended)
      BY <1>5, <2>2
    <3>6. studies' \in Seq(StudyRecords(registry))
      BY <1>5, <3>3, <3>4, <3>5, ExceptSeq
    <3>7. DOMAIN studies' = DOMAIN ended
      BY <3>3
    <3>8. Pagmos(studies') = Pagmos(ended)
      BY <3>3, <3>4, <3>7 DEF Pagmos
    <3> QED BY <1>5, <3>6, <3>7, <3>8
  <2> QED BY <2>1, <2>2
<1> QED BY <1>6

\* The end of a study preserves the invariant.
LEMMA FinishIInv ==
    ASSUME IInv, Finish
    PROVE  IInv'
<1>1. run' = NoRun /\ UNCHANGED <<computations, registry, localStudy, runs, file, files>>
  BY DEF Finish
<1> QED BY <1>1, FinishStudies, IdleRun DEF IInv, KeptInv, Created

\* An exception of the optimizer preserves it.
LEMMA ThrowIInv ==
    ASSUME IInv, Throw
    PROVE  IInv'
<1> DEFINE s == run.study
           new == [studies[s] EXCEPT !.isSolving = FALSE]
<1>1. s \in DOMAIN studies /\ run.pc = "ask" /\ run \in Runs
  BY DEF Throw, IInv, RunInv
<1>2. UNCHANGED <<computations, registry, localStudy, runs, file, files>>
  BY DEF Throw
<1>3. CASE studies[s].kind = "pagmo"
  <2>1. new \in StudyRecords(registry) /\ new.kind = studies[s].kind
    BY <1>1, StateFacts DEF StudyRecords
  <2>2. studies' = [studies EXCEPT ![s] = new] /\ run' = NoRun
    BY <1>3 DEF Throw
  <2> HIDE DEF new
  <2>3. /\ studies' \in Seq(StudyRecords(registry))
        /\ Pagmos(studies') = Pagmos(studies)
    BY <1>1, <2>1, <2>2, StudyChanged
  <2> QED BY <1>2, <2>2, <2>3, IdleRun DEF IInv, KeptInv, Created
<1>4. CASE studies[s].kind # "pagmo"
  <2>1. studies' = studies /\ run' = [run EXCEPT !.pc = "escaped"]
    BY <1>4 DEF Throw
  <2>2. run' \in Runs /\ run'.pc = "escaped" /\ run'.comp = run.comp /\ run'.study = run.study
    BY <1>1, <2>1 DEF Runs
  <2> QED BY <1>1, <1>2, <2>1, <2>2 DEF IInv, KeptInv, RunInv, Created
<1> QED BY <1>3, <1>4

(***************************************************************************)
(* Agros::clearComputations preserves it: the sets lose what the registry  *)
(* loses.                                                                  *)
(***************************************************************************)
LEMMA DeleteSolutionsIInv ==
    ASSUME IInv, DeleteSolutions
    PROVE  IInv'
<1> DEFINE cleared(s) == [studies[s] EXCEPT !.sets = WithoutRegistered(studies[s].sets)]
           n == Len(studies)
<1>1. n \in Nat /\ DOMAIN studies = 1 .. n
  BY StateFacts
<1>2. /\ run.pc = "idle" /\ registry' = {}
      /\ studies' = [s \in DOMAIN studies |-> cleared(s)]
      /\ UNCHANGED <<computations, localStudy, run, runs, file, files>>
  BY DEF DeleteSolutions
<1> HIDE DEF n
<1>3. ASSUME NEW s \in 1 .. n
      PROVE  cleared(s) \in StudyRecords({}) /\ cleared(s).kind = studies[s].kind
  <2>1. studies[s] \in StudyRecords(registry)
    BY <1>1, StateFacts
  <2>2. WithoutRegistered(studies[s].sets) \in Seq(Seq({}))
    BY <2>1, WithoutRegisteredType DEF StudyRecords
  <2> DEFINE sets == WithoutRegistered(studies[s].sets)
  <2> HIDE DEF sets
  <2>3. sets \in Seq(Seq({}))
    BY <2>2 DEF sets
  <2>4. [studies[s] EXCEPT !.sets = sets] \in StudyRecords({})
        /\ [studies[s] EXCEPT !.sets = sets].kind = studies[s].kind
    BY <2>1, <2>3 DEF StudyRecords
  <2> QED BY <2>4 DEF sets
<1> HIDE DEF cleared
<1>4. studies' \in [1 .. n -> StudyRecords({})]
  BY <1>1, <1>2, <1>3
<1>5. studies' \in Seq(StudyRecords({}))
  BY <1>1, <1>4, FunctionIsSequence
<1>6. Pagmos(studies') = Pagmos(studies)
  BY <1>1, <1>2, <1>3 DEF Pagmos
<1>7. KeptInv'
  BY <1>2, <1>5, <1>6 DEF IInv, KeptInv, Created
<1>8. RunInv'
  BY <1>2 DEF IInv, RunInv, NoRun, Created, Null
<1> QED BY <1>7, <1>8 DEF IInv

\* Studies::removeStudy preserves it: the static pointer follows.
LEMMA RemoveStudyIInv ==
    ASSUME IInv, NEW s \in DOMAIN studies, RemoveStudy(s)
    PROVE  IInv'
<1> DEFINE n == Len(studies)
<1>1. n \in Nat /\ s \in 1 .. n /\ DOMAIN studies = 1 .. n
      /\ studies \in Seq(StudyRecords(registry))
  BY StateFacts DEF IInv, KeptInv
<1>2. /\ run.pc = "idle" /\ studies' = RemoveAt(studies, s)
      /\ localStudy' = IF localStudy = s THEN Null
                       ELSE IF localStudy > s THEN localStudy - 1 ELSE localStudy
      /\ UNCHANGED <<computations, registry, run, runs, file, files>>
  BY DEF RemoveStudy
<1>3. /\ studies' \in Seq(StudyRecords(registry))
      /\ Len(studies') = n - 1
      /\ \A j \in 1 .. n - 1 : studies'[j] = IF j < s THEN studies[j] ELSE studies[j + 1]
  BY <1>1, <1>2, RemoveAtProperties
<1>4. DOMAIN studies' = 1 .. n - 1
  BY <1>3
<1> HIDE DEF n
<1>5. localStudy' \in {Null} \union Pagmos(studies')
  <2>1. CASE localStudy = Null
    BY <1>1, <1>2, <2>1 DEF Null
  <2>2. CASE localStudy # Null
    <3>1. localStudy \in 1 .. n /\ studies[localStudy].kind = "pagmo"
      BY <1>1, <2>2 DEF IInv, KeptInv, Pagmos
    <3>2. CASE localStudy = s
      BY <1>2, <3>2
    <3>3. CASE localStudy > s
      <4>1. localStudy - 1 \in 1 .. n - 1 /\ studies'[localStudy - 1] = studies[localStudy]
        BY <1>1, <1>3, <3>1, <3>3
      <4>2. localStudy' = localStudy - 1
        BY <1>1, <1>2, <3>1, <3>3
      <4> QED BY <4>1, <4>2, <3>1, <1>4 DEF Pagmos
    <3>4. CASE localStudy < s
      <4>1. localStudy \in 1 .. n - 1 /\ studies'[localStudy] = studies[localStudy]
        BY <1>1, <1>3, <3>1, <3>4
      <4>2. localStudy' = localStudy
        BY <1>1, <1>2, <3>1, <3>4
      <4> QED BY <4>1, <4>2, <3>1, <1>4 DEF Pagmos
    <3> QED BY <1>1, <3>1, <3>2, <3>3, <3>4
  <2> QED BY <2>1, <2>2
<1>6. KeptInv'
  BY <1>2, <1>3, <1>5 DEF IInv, KeptInv, Created
<1>7. RunInv'
  BY <1>2 DEF IInv, RunInv, NoRun, Created, Null
<1> QED BY <1>6, <1>7 DEF IInv

(***************************************************************************)
(* Problem::writeProblemToFile preserves it: the file gets the sets and    *)
(* the registry of one state.                                              *)
(***************************************************************************)
LEMMA SaveIInv ==
    ASSUME IInv, Save
    PROVE  IInv'
<1> DEFINE n == Len(studies)
           saved(s) == Study(studies[s].kind, studies[s].clears, studies[s].sets)
<1>1. n \in Nat /\ DOMAIN studies = 1 .. n
  BY StateFacts
<1>2. /\ run.pc = "idle"
      /\ file'.studies = [s \in DOMAIN studies |-> saved(s)]
      /\ file'.registry = registry
      /\ UNCHANGED <<computations, registry, studies, localStudy, run, runs>>
  BY DEF Save
<1> HIDE DEF n
<1>3. ASSUME NEW s \in 1 .. n PROVE saved(s) \in StudyRecords(registry)
  <2>1. studies[s] \in StudyRecords(registry)
    BY <1>1, StateFacts
  <2> QED BY <2>1 DEF Study, StudyRecords
<1> HIDE DEF saved
<1>4. file'.studies \in [1 .. n -> StudyRecords(registry)]
  BY <1>1, <1>2, <1>3
<1>5. file'.studies \in Seq(StudyRecords(registry))
  BY <1>1, <1>4, FunctionIsSequence
<1>6. KeptInv'
  BY <1>2, <1>5 DEF IInv, KeptInv, Created
<1>7. RunInv'
  BY <1>2 DEF IInv, RunInv, NoRun, Created, Null
<1> QED BY <1>6, <1>7 DEF IInv

(***************************************************************************)
(* Problem::readProblemFromAgs preserves it: the registry is read before   *)
(* the sets.                                                               *)
(***************************************************************************)
LEMMA LoadIInv ==
    ASSUME IInv, Load
    PROVE  IInv'
<1> DEFINE n == Len(file.studies)
           old(s) == file.studies[s]
           loaded(s) == [file.studies[s] EXCEPT !.sets = KnownComputations(file.studies[s].sets)]
<1>1. n \in Nat /\ DOMAIN file.studies = 1 .. n
  BY StateFacts
<1>2. /\ run.pc = "idle"
      /\ registry' = file.registry
      /\ studies' = [s \in DOMAIN file.studies |-> loaded(s)]
      /\ localStudy' = LastPagmo(file.studies)
      /\ UNCHANGED <<computations, run, runs, file>>
  BY DEF Load
<1> HIDE DEF n
<1>3. ASSUME NEW s \in 1 .. n
      PROVE  loaded(s) \in StudyRecords(file.registry) /\ loaded(s).kind = file.studies[s].kind
  <2> DEFINE sets == KnownComputations(file.studies[s].sets)
  <2>1. file.studies[s] \in StudyRecords(file.registry)
    BY <1>1, StateFacts
  <2>2. sets \in Seq(Seq(file.registry))
    BY <2>1, KnownType DEF StudyRecords
  <2> HIDE DEF sets
  <2>3. [file.studies[s] EXCEPT !.sets = sets] \in StudyRecords(file.registry)
        /\ [file.studies[s] EXCEPT !.sets = sets].kind = file.studies[s].kind
    BY <2>1, <2>2 DEF StudyRecords
  <2> QED BY <2>3 DEF sets
<1> HIDE DEF loaded
<1>4. studies' \in [1 .. n -> StudyRecords(file.registry)]
  BY <1>1, <1>2, <1>3
<1>5. studies' \in Seq(StudyRecords(file.registry))
  BY <1>1, <1>4, FunctionIsSequence
<1>6. Pagmos(studies') = Pagmos(file.studies)
  BY <1>1, <1>2, <1>3 DEF Pagmos
<1>7. localStudy' \in {Null} \union Pagmos(studies')
  BY <1>2, <1>6, LastPagmoOf DEF IInv, KeptInv
<1>8. KeptInv'
  BY <1>2, <1>5, <1>7 DEF IInv, KeptInv, Created
<1>9. RunInv'
  BY <1>2 DEF IInv, RunInv, NoRun, Created, Null
<1> QED BY <1>8, <1>9 DEF IInv

\* Every step preserves the invariant.
LEMMA NextIInv == IInv /\ [Next]_vars => IInv'
<1> SUFFICES ASSUME IInv, [Next]_vars
             PROVE  IInv'
  OBVIOUS
<1>1. ASSUME NEW kind \in Kinds, NEW clears \in Clears, NewStudy(kind, clears) PROVE IInv'
  BY <1>1, NewStudyIInv
<1>2. ASSUME NEW s \in DOMAIN studies, Solve(s) PROVE IInv'
  BY <1>2, SolveIInv
<1>3. ASSUME NEW s \in DOMAIN studies, RemoveStudy(s) PROVE IInv'
  BY <1>3, RemoveStudyIInv
<1>4. CASE StudyStep
  BY <1>4, RefuseIInv, EvaluateIInv, SolvedIInv, NotSolvedIInv, AddIInv, NextPhaseIInv,
     FinishIInv, ThrowIInv DEF StudyStep
<1>5. CASE Abort
  BY <1>5, AbortIInv
<1>6. CASE DeleteSolutions
  BY <1>6, DeleteSolutionsIInv
<1>7. CASE Save
  BY <1>7, SaveIInv
<1>8. CASE Load
  BY <1>8, LoadIInv
<1>9. CASE UNCHANGED vars
  BY <1>9 DEF vars, IInv, KeptInv, RunInv, Created, Pagmos
<1> QED BY <1>1, <1>2, <1>3, <1>4, <1>5, <1>6, <1>7, <1>8, <1>9 DEF Next

\* The inductive invariant holds in every state.
LEMMA SpecIInv == Spec => []IInv
BY InitIInv, NextIInv, PTL DEF Spec

(***************************************************************************)
(* TypeOK is an invariant: in particular the static pointer of             *)
(* study_pagmo2.cpp is null or points to a pagmo study that exists.        *)
(***************************************************************************)
THEOREM SpecTypeOK == Spec => []TypeOK
<1>1. IInv => TypeOK
  <2> SUFFICES ASSUME IInv PROVE TypeOK
    OBVIOUS
  <2>1. \A s \in DOMAIN studies : studies[s] \in StudyRecords(Created)
    <3>1. studies \in Seq(StudyRecords(Created))
      BY StudiesMonotonic DEF IInv, KeptInv
    <3> QED BY <3>1
  <2>2. \A c \in Created : computations[c] \in Computations
    BY DEF IInv, KeptInv, Created
  <2>3. registry \subseteq Created /\ localStudy \in {Null} \union Pagmos(studies)
    BY DEF IInv, KeptInv
  <2>4. /\ run.pc \in {"idle", "ask", "solve", "events", "escaped"}
        /\ run.study \in Nat /\ run.comp \in {Null} \union Created
        /\ run.left \in 0 .. Evaluations /\ run.phase \in 1 .. 2
    BY DEF IInv, RunInv, Runs
  <2> QED BY <2>1, <2>2, <2>3, <2>4 DEF TypeOK, StudyRecords, Computations
<1> QED BY <1>1, SpecIInv, PTL

(***************************************************************************)
(* No study ever lists a computation that the registry does not know, so   *)
(* ComputationSet::load finds every directory name that Study::save has    *)
(* written, after any sequence of studies, removals, deletions, saves and  *)
(* loads.                                                                  *)
(***************************************************************************)
THEOREM SpecListedIsRegistered == Spec => []ListedIsRegistered
<1>1. IInv => ListedIsRegistered
  <2> SUFFICES ASSUME IInv, NEW s \in DOMAIN studies, NEW i \in DOMAIN studies[s].sets
               PROVE  Range(studies[s].sets[i]) \subseteq registry
    BY DEF ListedIsRegistered
  <2>1. studies[s].sets \in Seq(Seq(registry))
    BY StateFacts DEF StudyRecords
  <2>2. studies[s].sets[i] \in Seq(registry)
    BY <2>1
  <2> QED BY <2>2, RangeOfSeq
<1> QED BY <1>1, SpecIInv, PTL

-----------------------------------------------------------------------------
(* Aborting                                                                *)

(***************************************************************************)
(* The pagmo study, in memory and in the file, is the only one; a study    *)
(* that was told to stop is still running and its flag is still set; the   *)
(* model study, which asks nobody, has no evaluation left then.            *)
(***************************************************************************)
AbortInv ==
    /\ \A i \in Pagmos(studies) : localStudy = i
    /\ \A i, j \in Pagmos(file.studies) : i = j
    /\ run.told => run.pc # "idle" /\ studies[run.study].abort
    /\ run.pc # "idle" /\ studies[run.study].kind = "model" =>
          run.left <= 1 /\ (run.told /\ run.pc = "ask" => run.left = 0)
    /\ ~run.late

(***************************************************************************)
(* Only the begin and the end of a study and an abort change m_abort, and  *)
(* none of them a kind.                                                    *)
(***************************************************************************)
LEMMA FlagsKept ==
    ASSUME IInv, Refuse \/ Evaluate \/ NotSolved \/ Add \/ NextPhase
                 \/ Throw \/ \E goals \in Goals : Solved(goals)
    PROVE  /\ DOMAIN studies' = DOMAIN studies
           /\ \A i \in DOMAIN studies : /\ studies'[i].kind = studies[i].kind
                                        /\ studies'[i].abort = studies[i].abort
           /\ UNCHANGED <<localStudy, file>>
<1> DEFINE Same == /\ DOMAIN studies' = DOMAIN studies
                   /\ \A i \in DOMAIN studies : /\ studies'[i].kind = studies[i].kind
                                                /\ studies'[i].abort = studies[i].abort
<1>1. \A s \in DOMAIN studies : studies[s] \in StudyRecords(registry)
  BY StateFacts
<1>2. CASE studies' = studies
  BY <1>2 DEF Refuse, Evaluate, NotSolved, Add, NextPhase, Throw, Solved
<1>3. CASE Add
  <2>1. CASE studies' = [studies EXCEPT ![Evaluated].sets = addComputation(@, run.comp)]
    <3> DEFINE e == Evaluated
               sets == addComputation(studies[e].sets, run.comp)
    <3>1. studies' = [studies EXCEPT ![e] = [studies[e] EXCEPT !.sets = sets]]
      BY <2>1
    <3> HIDE DEF e, sets
    <3>2. Same
      BY <1>1, <3>1 DEF StudyRecords
    <3> QED BY <1>3, <3>2 DEF Add
  <2> QED BY <1>2, <1>3, <2>1 DEF Add
<1>4. CASE NextPhase
  <2> DEFINE sets == Append(studies[run.study].sets, <<>>)
  <2>1. studies' = [studies EXCEPT ![run.study] = [studies[run.study] EXCEPT !.sets = sets]]
    BY <1>4 DEF NextPhase
  <2> HIDE DEF sets
  <2>2. Same
    BY <1>1, <2>1 DEF StudyRecords
  <2> QED BY <1>4, <2>2 DEF NextPhase
<1>5. CASE Throw
  <2>1. CASE studies' = [studies EXCEPT ![run.study].isSolving = FALSE]
    <3>1. Same
      BY <1>1, <2>1 DEF StudyRecords
    <3> QED BY <1>5, <3>1 DEF Throw
  <2> QED BY <1>2, <1>5, <2>1 DEF Throw
<1> QED BY <1>2, <1>3, <1>4, <1>5 DEF Refuse, Evaluate, NotSolved, Solved

\* Every step preserves the invariant on aborting.
LEMMA AbortInvStep ==
    ASSUME MaxPagmo \in 0 .. 1, IInv, IInv', AbortInv, [Next]_vars
    PROVE  AbortInv'
<1> DEFINE Local == \A i \in Pagmos(studies) : localStudy = i
           Filed == \A i, j \in Pagmos(file.studies) : i = j
           Told == /\ run.told => run.pc # "idle" /\ studies[run.study].abort
                   /\ run.pc # "idle" /\ studies[run.study].kind = "model" =>
                         run.left <= 1 /\ (run.told /\ run.pc = "ask" => run.left = 0)
                   /\ ~run.late
<1>0. /\ run \in Runs
      /\ run.pc = "idle" => run = NoRun
      /\ run.pc # "idle" => run.study \in DOMAIN studies
      /\ Local /\ Filed /\ Told
  BY DEF IInv, RunInv, AbortInv
<1>1. ASSUME NEW kind \in Kinds, NEW clears \in Clears, NewStudy(kind, clears)
      PROVE  AbortInv'
  <2> DEFINE n == Len(studies)
             new == Study(kind, clears, <<>>)
  <2>1. n \in Nat /\ DOMAIN studies = 1 .. n /\ studies \in Seq(StudyRecords(registry))
        /\ new \in StudyRecords(registry) /\ new.kind = kind
    BY StateFacts DEF IInv, KeptInv, Study, StudyRecords
  <2>2. studies' = Append(studies, new) /\ run.pc = "idle" /\ UNCHANGED <<run, file>>
        /\ (kind = "pagmo" => Cardinality(Pagmos(studies)) < MaxPagmo)
        /\ localStudy' = IF kind = "pagmo" THEN Len(studies') ELSE localStudy
    BY <1>1 DEF NewStudy
  <2> HIDE DEF new
  <2>3. /\ Len(studies') = n + 1 /\ DOMAIN studies' = 1 .. n + 1
        /\ \A i \in 1 .. n : studies'[i] = studies[i]
        /\ studies'[n + 1] = new
    BY <2>1, <2>2, AppendProperties
  <2>4. CASE kind = "pagmo"
    <3>1. Pagmos(studies) = {}
      <4>1. IsFiniteSet(Pagmos(studies))
        <5>1. IsFiniteSet(1 .. n) /\ Pagmos(studies) \subseteq 1 .. n
          BY <2>1, FS_Interval DEF Pagmos
        <5> QED BY <5>1, FS_Subset
      <4>2. Cardinality(Pagmos(studies)) \in Nat /\ Cardinality(Pagmos(studies)) < 1
        BY <2>2, <2>4, <4>1, FS_CardinalityType
      <4>3. Cardinality(Pagmos(studies)) = 0
        BY <4>2
      <4> QED BY <4>1, <4>3, FS_EmptySet
    <3>2. Local'
      BY <2>1, <2>2, <2>3, <2>4, <3>1 DEF Pagmos
    <3> QED BY <1>0, <2>2, <3>2 DEF AbortInv, NoRun
  <2>5. CASE kind # "pagmo"
    <3>1. Local'
      BY <1>0, <2>1, <2>2, <2>3, <2>5 DEF Pagmos
    <3> QED BY <1>0, <2>2, <3>1 DEF AbortInv, NoRun
  <2> QED BY <2>4, <2>5
<1>2. ASSUME NEW s \in DOMAIN studies, Solve(s)
      PROVE  AbortInv'
  <2>1. DOMAIN studies' = DOMAIN studies /\ \A i \in DOMAIN studies : studies'[i].kind = studies[i].kind
    <3> DEFINE old == studies[s]
               sets == (Reset(old).sets) \o (IF old.kind = "pagmo" THEN <<>> ELSE << <<>> >>)
    <3>1. old \in StudyRecords(registry)
      BY StateFacts
    <3>2. studies' = [studies EXCEPT ![s] = [Reset(old) EXCEPT !.isSolving = TRUE, !.sets = sets]]
      BY <1>2 DEF Solve
    <3> HIDE DEF sets
    <3>3. [Reset(old) EXCEPT !.isSolving = TRUE, !.sets = sets].kind = old.kind
      BY <3>1 DEF Reset, StudyRecords
    <3> QED BY <3>2, <3>3
  <2>2. Pagmos(studies') = Pagmos(studies)
    BY <2>1 DEF Pagmos
  <2> DEFINE left == IF studies[s].kind = "model" THEN 1 ELSE Evaluations
  <2>3. run' = [NoRun EXCEPT !.study = s, !.pc = "ask", !.left = left]
        /\ UNCHANGED <<localStudy, file>>
    BY <1>2 DEF Solve
  <2>4. studies'[s].kind = "model" => left <= 1
    BY <2>1
  <2> HIDE DEF left
  <2>5. /\ ~run'.told /\ ~run'.late /\ run'.left = left /\ run'.study = s
    BY <2>3 DEF NoRun
  <2> QED BY <1>0, <2>2, <2>3, <2>4, <2>5 DEF AbortInv
<1>3. ASSUME NEW s \in DOMAIN studies, RemoveStudy(s)
      PROVE  AbortInv'
  <2> DEFINE n == Len(studies)
  <2>1. n \in Nat /\ s \in 1 .. n /\ DOMAIN studies = 1 .. n
        /\ studies \in Seq(StudyRecords(registry))
    BY StateFacts DEF IInv, KeptInv
  <2>2. /\ run.pc = "idle" /\ studies' = RemoveAt(studies, s) /\ UNCHANGED <<run, file>>
        /\ localStudy' = IF localStudy = s THEN Null
                         ELSE IF localStudy > s THEN localStudy - 1 ELSE localStudy
    BY <1>3 DEF RemoveStudy
  <2>3. /\ Len(studies') = n - 1
        /\ \A j \in 1 .. n - 1 : studies'[j] = IF j < s THEN studies[j] ELSE studies[j + 1]
        /\ studies' \in Seq(StudyRecords(registry))
    BY <2>1, <2>2, RemoveAtProperties
  <2>4. DOMAIN studies' = 1 .. n - 1
    BY <2>3
  <2> HIDE DEF n
  <2>5. ASSUME NEW i \in Pagmos(studies') PROVE localStudy' = i
    <3>1. i \in 1 .. n - 1 /\ studies'[i].kind = "pagmo"
      BY <2>4 DEF Pagmos
    <3>2. CASE i < s
      <4>1. i \in Pagmos(studies)
        BY <2>1, <2>3, <3>1, <3>2 DEF Pagmos
      <4>2. localStudy = i
        BY <1>0, <4>1
      <4> QED BY <2>1, <2>2, <3>1, <3>2, <4>2
    <3>3. CASE ~ (i < s)
      <4>1. i + 1 \in Pagmos(studies)
        BY <2>1, <2>3, <3>1, <3>3 DEF Pagmos
      <4>2. localStudy = i + 1
        BY <1>0, <4>1
      <4> QED BY <2>1, <2>2, <3>1, <3>3, <4>2
    <3> QED BY <3>2, <3>3
  <2> QED BY <1>0, <2>2, <2>5 DEF AbortInv, NoRun
<1>4. ASSUME Refuse \/ Evaluate \/ NotSolved \/ Add \/ NextPhase
             \/ Throw \/ \E goals \in Goals : Solved(goals)
      PROVE  AbortInv'
  <2>1. /\ DOMAIN studies' = DOMAIN studies
        /\ \A i \in DOMAIN studies : /\ studies'[i].kind = studies[i].kind
                                     /\ studies'[i].abort = studies[i].abort
        /\ UNCHANGED <<localStudy, file>>
    BY <1>4, FlagsKept
  <2>2. Pagmos(studies') = Pagmos(studies)
    BY <2>1 DEF Pagmos
  <2> DEFINE kind == studies[run.study].kind
             aborted == studies[run.study].abort
  <2>3. run.pc # "idle" /\ run.study \in DOMAIN studies
    BY <1>0, <1>4 DEF Refuse, Evaluate, NotSolved, Add, NextPhase, Throw, Solved
  <2>4. /\ run.told => aborted
        /\ kind = "model" => run.left <= 1 /\ (run.told /\ run.pc = "ask" => run.left = 0)
        /\ ~run.late
    BY <1>0, <2>3
  <2>5. Evaluate => ~(run.told /\ ~InitialSample)
    <3> SUFFICES ASSUME Evaluate, run.told, ~InitialSample PROVE FALSE
      OBVIOUS
    <3>1. run.pc = "ask" /\ run.left > 0 /\ (Asks => ~studies[Evaluated].abort)
      BY DEF Evaluate
    <3>2. kind # "model"
      BY <2>4, <3>1
    <3>3. ~studies[Evaluated].abort
      BY <3>1, <3>2 DEF Asks
    <3>4. Evaluated = run.study
      BY <1>0, <2>3 DEF Evaluated, Pagmos
    <3> QED BY <2>4, <3>3, <3>4
  <2>6. /\ run'.study = run.study \/ run' = NoRun
        /\ run'.told = run.told \/ run' = NoRun
        /\ ~run'.late
    <3>1. CASE Evaluate
      <4> DEFINE late == run.told /\ ~InitialSample
                 comp == Len(computations')
      <4>1. run' = [run EXCEPT !.pc = "solve", !.comp = comp, !.late = late] /\ ~late
        BY <2>5, <3>1 DEF Evaluate
      <4> HIDE DEF late, comp
      <4> QED BY <1>0, <4>1 DEF Runs
    <3>2. CASE Refuse
      <4> DEFINE left == IF kind \in {"nlopt", "bayesopt"} THEN 0 ELSE run.left - 1
      <4>1. run' = [run EXCEPT !.left = left]
        BY <3>2 DEF Refuse
      <4> HIDE DEF left
      <4> QED BY <1>0, <2>4, <4>1 DEF Runs
    <3>3. CASE NotSolved
      <4> DEFINE pc == IF kind = "model" THEN "escaped" ELSE "ask"
                 left == run.left - 1
      <4>1. run' = [run EXCEPT !.pc = pc, !.left = left]
        BY <3>3 DEF NotSolved
      <4> HIDE DEF pc, left
      <4> QED BY <1>0, <2>4, <4>1 DEF Runs
    <3>4. CASE Add \/ NextPhase \/ \E goals \in Goals : Solved(goals)
      <4>1. \/ run' = [run EXCEPT !.pc = "ask", !.left = run.left - 1]
            \/ run' = [run EXCEPT !.phase = 2, !.left = Evaluations]
            \/ run' = [run EXCEPT !.pc = "events"]
        BY <3>4 DEF Add, NextPhase, Solved
      <4> QED BY <1>0, <2>4, <4>1 DEF Runs
    <3>5. CASE Throw
      <4>1. run' = [run EXCEPT !.pc = "escaped"] \/ run' = NoRun
        BY <3>5 DEF Throw
      <4> QED BY <1>0, <2>4, <4>1 DEF Runs, NoRun
    <3> QED BY <1>4, <3>1, <3>2, <3>3, <3>4, <3>5
  <2>7. run' # NoRun /\ kind = "model" =>
           run'.left <= 1 /\ (run'.told /\ run'.pc = "ask" => run'.left = 0)
    <3> SUFFICES ASSUME run' # NoRun, kind = "model"
                 PROVE  run'.left <= 1 /\ (run'.told /\ run'.pc = "ask" => run'.left = 0)
      OBVIOUS
    <3>1. run.left \in Int /\ run.left <= 1 /\ (run.told /\ run.pc = "ask" => run.left = 0)
          /\ run.left >= 0
      BY <1>0, <2>4, EvaluationsAssumption DEF Runs
    <3>2. CASE Evaluate
      BY <1>0, <3>1, <3>2 DEF Evaluate, Runs
    <3>3. CASE Refuse \/ NextPhase \/ Throw
      BY <3>3 DEF Refuse, NextPhase, Throw, Asks
    <3>4. CASE NotSolved
      <4>1. run' = [run EXCEPT !.pc = "escaped", !.left = run.left - 1]
        BY <3>4 DEF NotSolved
      <4> QED BY <1>0, <3>1, <4>1 DEF Runs
    <3>5. CASE Add
      <4>1. run' = [run EXCEPT !.pc = "ask", !.left = run.left - 1] /\ run.left > 0
        BY <3>5 DEF Add, IInv, RunInv
      <4> QED BY <1>0, <3>1, <4>1 DEF Runs
    <3>6. CASE \E goals \in Goals : Solved(goals)
      BY <1>0, <3>1, <3>6 DEF Solved, Runs
    <3> QED BY <1>4, <3>2, <3>3, <3>4, <3>5, <3>6
  <2>8. CASE run' = NoRun
    BY <1>0, <2>1, <2>2, <2>8 DEF AbortInv, NoRun
  <2>9. CASE run' # NoRun
    <3>1. run'.study = run.study /\ run'.told = run.told /\ ~run'.late
      BY <2>6, <2>9
    <3>2. run'.pc # "idle"
      BY <2>9 DEF IInv, RunInv
    <3>3. studies'[run'.study].kind = kind /\ studies'[run'.study].abort = aborted
      BY <2>1, <2>3, <3>1
    <3> HIDE DEF kind, aborted
    <3> QED BY <1>0, <2>1, <2>2, <2>4, <2>7, <2>9, <3>1, <3>2, <3>3 DEF AbortInv
  <2> QED BY <2>8, <2>9
<1>5. CASE Finish
  <2>1. run' = NoRun /\ UNCHANGED <<localStudy, file>>
    BY <1>5 DEF Finish
  <2>2. Pagmos(studies') = Pagmos(studies)
    BY <1>5, FinishStudies
  <2> QED BY <1>0, <2>1, <2>2 DEF AbortInv, NoRun
<1>6. CASE Abort
  <2>1. /\ run.pc = "events" /\ run.study \in DOMAIN studies
        /\ studies' = [studies EXCEPT ![run.study].abort = TRUE]
        /\ run' = [run EXCEPT !.told = TRUE] /\ UNCHANGED <<localStudy, file>>
    BY <1>0, <1>6 DEF Abort
  <2>2. studies[run.study] \in StudyRecords(registry)
    BY <2>1, StateFacts
  <2>3. /\ DOMAIN studies' = DOMAIN studies
        /\ \A i \in DOMAIN studies : studies'[i].kind = studies[i].kind
        /\ studies'[run.study].abort
    BY <2>1, <2>2 DEF StudyRecords
  <2>4. Pagmos(studies') = Pagmos(studies)
    BY <2>3 DEF Pagmos
  <2>5. run'.pc = "events" /\ run'.study = run.study /\ run'.left = run.left
        /\ run'.late = run.late
    BY <1>0, <2>1 DEF Runs
  <2> QED BY <1>0, <2>1, <2>3, <2>4, <2>5 DEF AbortInv
<1>7. CASE DeleteSolutions
  <2>1. /\ run.pc = "idle" /\ UNCHANGED <<localStudy, run, file>>
        /\ studies' = [s \in DOMAIN studies |->
                          [studies[s] EXCEPT !.sets = WithoutRegistered(@)]]
    BY <1>7 DEF DeleteSolutions
  <2>2. \A s \in DOMAIN studies : studies'[s].kind = studies[s].kind
    <3> TAKE s \in DOMAIN studies
    <3> DEFINE sets == WithoutRegistered(studies[s].sets)
    <3>1. studies'[s] = [studies[s] EXCEPT !.sets = sets]
      BY <2>1
    <3>2. studies[s] \in StudyRecords(registry)
      BY StateFacts
    <3> HIDE DEF sets
    <3> QED BY <3>1, <3>2 DEF StudyRecords
  <2>3. Pagmos(studies') = Pagmos(studies)
    BY <2>1, <2>2 DEF Pagmos
  <2> QED BY <1>0, <2>1, <2>3 DEF AbortInv, NoRun
<1>8. CASE Save
  <2>1. /\ run.pc = "idle" /\ UNCHANGED <<localStudy, run, studies>>
        /\ file'.studies = [s \in DOMAIN studies |->
                Study(studies[s].kind, studies[s].clears, studies[s].sets)]
    BY <1>8 DEF Save
  <2>2. Pagmos(file'.studies) = Pagmos(studies)
    BY <2>1 DEF Pagmos, Study
  <2> QED BY <1>0, <2>1, <2>2 DEF AbortInv, NoRun
<1>9. CASE Load
  <2>1. /\ run.pc = "idle" /\ localStudy' = LastPagmo(file.studies)
        /\ UNCHANGED <<run, file>>
        /\ studies' = [s \in DOMAIN file.studies |->
                          [file.studies[s] EXCEPT !.sets = KnownComputations(@)]]
    BY <1>9 DEF Load
  <2>2. \A s \in DOMAIN file.studies : studies'[s].kind = file.studies[s].kind
    <3> TAKE s \in DOMAIN file.studies
    <3> DEFINE sets == KnownComputations(file.studies[s].sets)
    <3>1. studies'[s] = [file.studies[s] EXCEPT !.sets = sets]
      BY <2>1
    <3>2. file.studies[s] \in StudyRecords(file.registry)
      BY StateFacts
    <3> HIDE DEF sets
    <3> QED BY <3>1, <3>2 DEF StudyRecords
  <2>3. Pagmos(studies') = Pagmos(file.studies)
    BY <2>1, <2>2 DEF Pagmos
  <2>5. Pagmos(file.studies) # {} => LastPagmo(file.studies) \in Pagmos(file.studies)
    BY LastPagmoOf DEF IInv, KeptInv
  <2>6. \A i \in Pagmos(studies') : localStudy' = i
    BY <1>0, <2>1, <2>3, <2>5
  <2> QED BY <1>0, <2>1, <2>6 DEF AbortInv, NoRun
<1>10. CASE UNCHANGED vars
  BY <1>0, <1>10 DEF vars, AbortInv, Pagmos
<1> QED BY <1>1, <1>2, <1>3, <1>4, <1>5, <1>6, <1>7, <1>8, <1>9, <1>10 DEF Next, StudyStep

(***************************************************************************)
(* Once the user has aborted, no evaluation begins, the initial samples    *)
(* of bayesopt excepted, as long as there is at most one pagmo study.      *)
(* With two the static pointer may point to the other study, whose flag    *)
(* the user did not set; that is listed as a hazard.                       *)
(***************************************************************************)
THEOREM SpecNothingBegunAfterAbort ==
    ASSUME MaxPagmo \in 0 .. 1
    PROVE  Spec => []NothingBegunAfterAbort
<1>1. Init => AbortInv
  BY DEF Init, AbortInv, Pagmos, NoRun, NoFile
<1>2. IInv /\ IInv' /\ AbortInv /\ [Next]_vars => AbortInv'
  BY AbortInvStep
<1>3. AbortInv => NothingBegunAfterAbort
  BY DEF AbortInv, NothingBegunAfterAbort
<1> QED BY <1>1, <1>2, <1>3, SpecIInv, PTL DEF Spec

-----------------------------------------------------------------------------
(* What is listed is evaluated, and listed once                            *)

\* The computations whose evaluation came to its end.
Done == {c \in Created : computations[c].evaluated}

\* No computation is listed twice, in one set or in two.
Distinct(sets) ==
    \A i, j \in DOMAIN sets : \A m \in DOMAIN sets[i], n \in DOMAIN sets[j] :
        sets[i][m] = sets[j][n] => i = j /\ m = n

\* All that the sets list is good.
Members(sets, good) == \A i \in DOMAIN sets : \A m \in DOMAIN sets[i] : sets[i][m] \in good

\* What the studies of a list list is evaluated and listed once.
AllDone(list) ==
    \A s \in DOMAIN list : Distinct(list[s].sets) /\ Members(list[s].sets, Done)

(***************************************************************************)
(* The inductive invariant of ListedIsEvaluated: the computation that is       *)
(* evaluated is listed by no study yet, so that adding it lists it once,   *)
(* and it is evaluated by then.                                            *)
(***************************************************************************)
DoneInv ==
    /\ AllDone(studies)
    /\ AllDone(file.studies)
    /\ run.pc = "events" => run.comp \in Done
    /\ run.pc \in {"solve", "events"} =>
          \A s \in DOMAIN studies : Members(studies[s].sets, Nat \ {run.comp})

\* Removing empty sets lists nothing twice and nothing new.
LEMMA NotEmptyDistinct ==
    ASSUME NEW R, NEW sets \in Seq(Seq(R)), NEW good
    PROVE  /\ Distinct(sets) => Distinct(NotEmpty(sets))
           /\ Members(sets, good) => Members(NotEmpty(sets), good)
<1> DEFINE k == NotEmpty(sets)
<1>1. PICK h : Selects(h, k, sets, Range(sets) \ {<<>>})
  BY KeptPositions DEF NotEmpty
<1>2. k \in Seq(Seq(R)) /\ DOMAIN k = 1 .. Len(k) /\ DOMAIN sets = 1 .. Len(sets)
  BY NotEmptyType
<1> HIDE DEF k
<1>3. \A i \in DOMAIN k : h[i] \in DOMAIN sets /\ k[i] = sets[h[i]]
  BY <1>1, <1>2 DEF Selects
<1>4. \A i, j \in DOMAIN k : h[i] = h[j] => i = j
  BY <1>1, <1>2 DEF Selects
<1>5. ASSUME Distinct(sets) PROVE Distinct(k)
  <2> SUFFICES ASSUME NEW i \in DOMAIN k, NEW j \in DOMAIN k, NEW m \in DOMAIN k[i],
                      NEW n \in DOMAIN k[j], k[i][m] = k[j][n]
               PROVE  i = j /\ m = n
    BY DEF Distinct
  <2>1. h[i] = h[j] /\ m = n
    BY <1>3, <1>5 DEF Distinct
  <2> QED BY <1>4, <2>1
<1>6. ASSUME Members(sets, good) PROVE Members(k, good)
  BY <1>3, <1>6 DEF Members
<1> QED BY <1>5, <1>6 DEF k

\* Nor does loading, which drops what the registry does not know.
LEMMA KnownDistinct ==
    ASSUME NEW R, NEW sets \in Seq(Seq(R)), NEW good
    PROVE  /\ Distinct(sets) => Distinct(KnownComputations(sets))
           /\ Members(sets, good) => Members(KnownComputations(sets), good)
<1> DEFINE k == KnownComputations(sets)
           From(i, h) == /\ h \in [DOMAIN k[i] -> DOMAIN sets[i]]
                         /\ \A m, n \in DOMAIN k[i] : h[m] = h[n] => m = n
                         /\ \A m \in DOMAIN k[i] : k[i][m] = sets[i][h[m]]
<1>1. DOMAIN k = DOMAIN sets /\ \A i \in DOMAIN sets : k[i] = Kept(sets[i], file.registry)
  BY DEF KnownComputations
<1>2. \A i \in DOMAIN sets : \E h : From(i, h)
  <2> TAKE i \in DOMAIN sets
  <2>1. sets[i] \in Seq(R)
    OBVIOUS
  <2>2. k[i] \in Seq(R)
    BY <1>1, <2>1, KeptPositions
  <2>3. PICK h : Selects(h, k[i], sets[i], file.registry)
    BY <1>1, <2>1, KeptPositions
  <2>4. DOMAIN k[i] = 1 .. Len(k[i]) /\ DOMAIN sets[i] = 1 .. Len(sets[i])
    BY <2>1, <2>2
  <2> HIDE DEF k
  <2>5. From(i, h)
    BY <2>3, <2>4 DEF Selects
  <2> QED BY <2>5
<1> HIDE DEF k, From
<1> DEFINE h == [i \in DOMAIN sets |-> CHOOSE g : From(i, g)]
<1>3. \A i \in DOMAIN sets : From(i, h[i])
  BY <1>2
<1> HIDE DEF h
<1>4. \A i \in DOMAIN k : \A m \in DOMAIN k[i] :
          h[i][m] \in DOMAIN sets[i] /\ k[i][m] = sets[i][h[i][m]]
  BY <1>1, <1>3 DEF From
<1>5. \A i \in DOMAIN k : \A m, n \in DOMAIN k[i] : h[i][m] = h[i][n] => m = n
  BY <1>1, <1>3 DEF From
<1>6. ASSUME Distinct(sets) PROVE Distinct(k)
  <2> SUFFICES ASSUME NEW i \in DOMAIN k, NEW j \in DOMAIN k, NEW m \in DOMAIN k[i],
                      NEW n \in DOMAIN k[j], k[i][m] = k[j][n]
               PROVE  i = j /\ m = n
    BY DEF Distinct
  <2>1. i = j /\ h[i][m] = h[j][n]
    BY <1>1, <1>4, <1>6 DEF Distinct
  <2> QED BY <1>5, <2>1
<1>7. ASSUME Members(sets, good) PROVE Members(k, good)
  BY <1>1, <1>4, <1>7 DEF Members
<1> QED BY <1>6, <1>7 DEF k

\* addComputation lists an evaluated computation that was not listed once.
LEMMA AddDistinct ==
    ASSUME NEW R, NEW sets \in Seq(Seq(R)), NEW c \in R, NEW good, c \in good,
           Distinct(sets), Members(sets, good), Members(sets, Nat \ {c})
    PROVE  Distinct(addComputation(sets, c)) /\ Members(addComputation(sets, c), good)
<1> DEFINE k == addComputation(sets, c)
           last == Len(sets)
           n == Len(sets[last])
<1>1. CASE sets = <<>>
  <2>1. k = << <<c>> >>
    BY <1>1 DEF addComputation
  <2> HIDE DEF k
  <2> QED BY <2>1 DEF Distinct, Members, k
<1>2. CASE sets # <<>>
  <2>1. /\ last \in 1 .. last /\ DOMAIN sets = 1 .. last /\ sets[last] \in Seq(R)
        /\ n \in Nat /\ DOMAIN sets[last] = 1 .. n
    BY <1>2
  <2>2. k = [sets EXCEPT ![last] = Append(sets[last], c)]
    BY <1>2 DEF addComputation
  <2> HIDE DEF k, n, last
  <2>3. /\ DOMAIN k = DOMAIN sets
        /\ \A i \in DOMAIN k : i # last => k[i] = sets[i]
        /\ k[last] = Append(sets[last], c)
    BY <2>1, <2>2
  <2>4. /\ DOMAIN k[last] = 1 .. n + 1
        /\ \A m \in 1 .. n : k[last][m] = sets[last][m]
        /\ k[last][n + 1] = c
    BY <2>1, <2>3, AppendProperties DEF n
  <2>5. ASSUME NEW i \in DOMAIN k, NEW m \in DOMAIN k[i]
        PROVE  \/ i = last /\ m = n + 1 /\ k[i][m] = c
               \/ m \in DOMAIN sets[i] /\ k[i][m] = sets[i][m] /\ k[i][m] # c
                  /\ k[i][m] \in good
    <3>1. CASE i = last /\ m = n + 1
      BY <2>4, <3>1
    <3>2. CASE ~ (i = last /\ m = n + 1)
      <4>1. m \in DOMAIN sets[i] /\ k[i][m] = sets[i][m] /\ i \in DOMAIN sets
        <5>1. CASE i = last
          BY <2>1, <2>3, <2>4, <3>2, <5>1
        <5>2. CASE i # last
          BY <2>3, <5>2
        <5> QED BY <5>1, <5>2
      <4> QED BY <4>1 DEF Members
    <3> QED BY <3>1, <3>2
  <2>6. Distinct(k)
    <3> SUFFICES ASSUME NEW i \in DOMAIN k, NEW j \in DOMAIN k, NEW m \in DOMAIN k[i],
                        NEW l \in DOMAIN k[j], k[i][m] = k[j][l]
                 PROVE  i = j /\ m = l
      BY DEF Distinct
    <3>1. CASE k[i][m] = c
      <4>1. i = last /\ m = n + 1
        BY <2>5, <3>1
      <4>2. j = last /\ l = n + 1
        BY <2>5, <3>1
      <4> QED BY <4>1, <4>2
    <3>2. CASE k[i][m] # c
      <4>1. m \in DOMAIN sets[i] /\ k[i][m] = sets[i][m]
        BY <2>5, <3>2
      <4>2. l \in DOMAIN sets[j] /\ k[j][l] = sets[j][l]
        BY <2>5, <3>2
      <4>3. i \in DOMAIN sets /\ j \in DOMAIN sets /\ sets[i][m] = sets[j][l]
        BY <2>3, <4>1, <4>2
      <4> QED BY <4>1, <4>2, <4>3 DEF Distinct
    <3> QED BY <3>1, <3>2
  <2>7. Members(k, good)
    BY <2>5 DEF Members
  <2> QED BY <2>6, <2>7 DEF k
<1> QED BY <1>1, <1>2

(***************************************************************************)
(* What was evaluated stays so: General_ClearSolution removes the solution *)
(* of a computation and not its results.                                   *)
(***************************************************************************)
LEMMA DoneGrows ==
    ASSUME IInv, [Next]_vars
    PROVE  Done \subseteq Done'
<1>1. computations \in Seq(Computations) /\ DOMAIN computations = Created
  BY StateFacts DEF IInv, KeptInv
<1>2. CASE computations' = computations
  BY <1>2 DEF Done, Created
<1>3. CASE Evaluate
  <2> DEFINE new == [goals |-> <<>>, evaluated |-> FALSE, isSolved |-> FALSE]
  <2>1. computations' = Append(computations, new) /\ new \in Computations
    BY <1>3 DEF Evaluate, Computations
  <2> HIDE DEF new
  <2>2. /\ Len(computations) \in Nat /\ Len(computations') = Len(computations) + 1
        /\ \A c \in 1 .. Len(computations) : computations'[c] = computations[c]
    BY <1>1, <2>1, AppendProperties
  <2> QED BY <2>2 DEF Done, Created
<1>4. ASSUME NEW goals \in Goals, Solved(goals) PROVE Done \subseteq Done'
  <2> DEFINE new == [goals |-> goals, evaluated |-> TRUE, isSolved |-> TRUE]
  <2>1. computations' = [computations EXCEPT ![run.comp] = new] /\ new \in Computations
    BY <1>4 DEF Solved, Computations
  <2>2. new.evaluated
    OBVIOUS
  <2> HIDE DEF new
  <2>3. run.comp \in 1 .. Len(computations)
    BY <1>4 DEF Solved, IInv, RunInv, KeptInv, Created
  <2>4. Len(computations') = Len(computations)
    BY <1>1, <2>1, <2>3, ExceptSeq
  <2>5. \A c \in Created : computations'[c] = IF c = run.comp THEN new ELSE computations[c]
    BY <1>1, <2>1
  <2> QED BY <2>2, <2>4, <2>5 DEF Done, Created
<1>5. CASE Add
  <2> DEFINE done == ~studies[Evaluated].clears
  <2>1. CASE computations' = [computations EXCEPT ![run.comp].isSolved = done]
    <3> DEFINE cleared == [computations[run.comp] EXCEPT !.isSolved = done]
    <3>1. computations' = [computations EXCEPT ![run.comp] = cleared]
      BY <2>1
    <3>2. run.comp \in 1 .. Len(computations) /\ done \in BOOLEAN
      BY <1>5 DEF Add, IInv, RunInv, KeptInv, Created
    <3>3. computations[run.comp] \in Computations
      BY <1>1, <3>2
    <3> HIDE DEF done
    <3>4. cleared \in Computations /\ cleared.evaluated = computations[run.comp].evaluated
      BY <3>2, <3>3 DEF Computations
    <3> HIDE DEF cleared
    <3>5. Len(computations') = Len(computations)
      BY <1>1, <3>1, <3>2, <3>4, ExceptSeq
    <3>6. \A c \in Created : computations'[c].evaluated = computations[c].evaluated
      BY <1>1, <3>1, <3>4
    <3> QED BY <3>5, <3>6 DEF Done, Created
  <2> QED BY <1>2, <1>5, <2>1 DEF Add
<1> QED
  BY <1>2, <1>3, <1>4, <1>5
     DEF Next, StudyStep, vars, NewStudy, Solve, RemoveStudy, Refuse, NotSolved, NextPhase,
         Finish, Throw, Abort, DeleteSolutions, Save, Load

\* What is good stays good when more is.
LEMMA MembersGrow ==
    ASSUME NEW sets, NEW good, NEW better, good \subseteq better, Members(sets, good)
    PROVE  Members(sets, better)
BY DEF Members

(***************************************************************************)
(* What a step other than addComputation may do to the sets of a study     *)
(* that stays.                                                             *)
(***************************************************************************)
SetsFrom(sets, old) ==
    \/ sets = old
    \/ sets = <<>> \/ sets = << <<>> >>
    \/ sets = Append(old, <<>>)
    \/ sets = NotEmpty(old)

\* None of that lists anything new.
LEMMA SetsFromOld ==
    ASSUME NEW R, NEW old \in Seq(Seq(R)), NEW sets, SetsFrom(sets, old), NEW good
    PROVE  /\ Distinct(old) => Distinct(sets)
           /\ Members(old, good) => Members(sets, good)
<1>1. CASE sets = Append(old, <<>>)
  <2> DEFINE n == Len(old)
             empty == <<>>
  <2>0. n \in Nat /\ DOMAIN old = 1 .. n /\ empty \in Seq(R) /\ DOMAIN empty = {}
    OBVIOUS
  <2>1. /\ DOMAIN sets = 1 .. n + 1
        /\ \A i \in 1 .. n : sets[i] = old[i]
        /\ DOMAIN sets[n + 1] = {}
    BY <1>1, <2>0, AppendProperties
  <2> HIDE DEF n, empty
  <2>2. \A i \in DOMAIN sets : \A m \in DOMAIN sets[i] :
            i \in DOMAIN old /\ sets[i] = old[i]
    BY <2>0, <2>1
  <2>3. ASSUME Distinct(old) PROVE Distinct(sets)
    BY <2>2, <2>3 DEF Distinct
  <2>4. ASSUME Members(old, good) PROVE Members(sets, good)
    BY <2>2, <2>4 DEF Members
  <2> QED BY <2>3, <2>4
<1>2. CASE sets = <<>> \/ sets = << <<>> >>
  BY <1>2 DEF Distinct, Members
<1>3. CASE sets = NotEmpty(old)
  BY <1>3, NotEmptyDistinct
<1> QED BY <1>1, <1>2, <1>3 DEF SetsFrom

\* Sets that list nothing list only what is good, and once.
LEMMA EmptySets ==
    ASSUME NEW sets \in Seq(Seq({})), NEW good
    PROVE  Distinct(sets) /\ Members(sets, good)
<1>1. \A i \in DOMAIN sets : DOMAIN sets[i] = {}
  <2> TAKE i \in DOMAIN sets
  <2>1. sets[i] \in Seq({})
    OBVIOUS
  <2> QED BY <2>1
<1> QED BY <1>1 DEF Distinct, Members

(***************************************************************************)
(* The steps of a study other than addComputation, the begin of a study    *)
(* and an abort change the sets in these ways only.                        *)
(***************************************************************************)
LEMMA SetsKept ==
    ASSUME IInv,
           \/ \E s \in DOMAIN studies : Solve(s)
           \/ StudyStep /\ ~Add
           \/ Abort
    PROVE  /\ DOMAIN studies' = DOMAIN studies
           /\ \A s \in DOMAIN studies : SetsFrom(studies'[s].sets, studies[s].sets)
           /\ UNCHANGED file
<1> DEFINE Goal == /\ DOMAIN studies' = DOMAIN studies
                   /\ \A s \in DOMAIN studies : SetsFrom(studies'[s].sets, studies[s].sets)
<1>1. \A s \in DOMAIN studies : studies[s] \in StudyRecords(registry)
  BY StateFacts
<1>2. CASE studies' = studies
  <2>1. UNCHANGED file
    BY DEF Solve, StudyStep, Refuse, Evaluate, Solved, NotSolved, NextPhase, Finish, Throw, Abort
  <2> QED BY <1>2, <2>1 DEF SetsFrom
<1>3. ASSUME NEW s \in DOMAIN studies, Solve(s) PROVE Goal /\ UNCHANGED file
  <2> DEFINE sets == IF studies[s].kind = "pagmo" THEN <<>> ELSE << <<>> >>
             new == [Reset(studies[s]) EXCEPT !.isSolving = TRUE,
                           !.sets = (Reset(studies[s]).sets) \o sets]
  <2>1. studies' = [studies EXCEPT ![s] = new]
    BY <1>3 DEF Solve
  <2>2. new.sets = sets
    BY <1>1 DEF Reset, StudyRecords
  <2>3. sets = <<>> \/ sets = << <<>> >>
    OBVIOUS
  <2> HIDE DEF new, sets
  <2>4. Goal
    BY <2>1, <2>2, <2>3 DEF SetsFrom
  <2> QED BY <1>3, <2>4 DEF Solve
<1>4. CASE NextPhase
  <2> DEFINE sets == Append(studies[run.study].sets, <<>>)
             new == [studies[run.study] EXCEPT !.sets = sets]
  <2>0. run.study \in DOMAIN studies
    BY <1>4 DEF NextPhase, IInv, RunInv
  <2>1. studies' = [studies EXCEPT ![run.study] = new]
    BY <1>4 DEF NextPhase
  <2>2. new.sets = sets
    BY <1>1, <2>0 DEF StudyRecords
  <2> HIDE DEF new
  <2>3. Goal
    BY <2>1, <2>2 DEF SetsFrom
  <2> QED BY <1>4, <2>3 DEF NextPhase
<1>5. CASE Finish
  <2> DEFINE r == run.study
             e == Evaluated
             kind == studies[r].kind
             aborted == kind = "pagmo" /\ studies[r].abort
             one == [studies[r] EXCEPT !.isSolving = FALSE, !.abort = aborted]
             ended == [studies EXCEPT ![r] = one]
             sets == IF kind \in {"nlopt", "bayesopt"} THEN ended[e].sets
                     ELSE NotEmpty(ended[e].sets)
             new == [ended[e] EXCEPT !.sets = sets]
  <2>0. r \in DOMAIN studies
    BY <1>5 DEF Finish, IInv, RunInv
  <2>1. studies' = [ended EXCEPT ![e] = new]
    BY <1>5 DEF Finish
  <2>2. one.sets = studies[r].sets /\ one \in StudyRecords(registry)
    BY <1>1, <2>0 DEF StudyRecords
  <2> HIDE DEF one
  <2>3. /\ DOMAIN ended = DOMAIN studies
        /\ \A s \in DOMAIN studies : ended[s].sets = studies[s].sets /\ ended[s] \in StudyRecords(registry)
    BY <1>1, <2>0, <2>2
  <2> HIDE DEF ended
  <2>4. sets = ended[e].sets \/ sets = NotEmpty(ended[e].sets)
    OBVIOUS
  <2> HIDE DEF sets
  <2>5. e \in DOMAIN studies => new.sets = sets
    BY <2>3 DEF StudyRecords
  <2> HIDE DEF new, e
  <2>6. Goal
    BY <2>1, <2>3, <2>4, <2>5 DEF SetsFrom
  <2> QED BY <1>5, <2>6 DEF Finish
<1>6. CASE Throw
  <2> DEFINE new == [studies[run.study] EXCEPT !.isSolving = FALSE]
  <2>0. run.study \in DOMAIN studies
    BY <1>6 DEF Throw, IInv, RunInv
  <2>1. CASE studies' = [studies EXCEPT ![run.study] = new]
    <3>1. new.sets = studies[run.study].sets
      BY <1>1, <2>0 DEF StudyRecords
    <3> HIDE DEF new
    <3>2. Goal
      BY <2>1, <3>1 DEF SetsFrom
    <3> QED BY <1>6, <3>2 DEF Throw
  <2> QED BY <1>2, <1>6, <2>1 DEF Throw
<1>7. CASE Abort
  <2> DEFINE new == [studies[run.study] EXCEPT !.abort = TRUE]
  <2>0. run.study \in DOMAIN studies
    BY <1>7 DEF Abort, IInv, RunInv
  <2>1. studies' = [studies EXCEPT ![run.study] = new]
    BY <1>7 DEF Abort
  <2>2. new.sets = studies[run.study].sets
    BY <1>1, <2>0 DEF StudyRecords
  <2> HIDE DEF new
  <2>3. Goal
    BY <2>1, <2>2 DEF SetsFrom
  <2> QED BY <1>7, <2>3 DEF Abort
<1> QED BY <1>2, <1>3, <1>4, <1>5, <1>6, <1>7 DEF StudyStep, Refuse, Evaluate, Solved, NotSolved

\* Add changes the sets by addComputation or not at all.
LEMMA AddSets ==
    ASSUME IInv, Add
    PROVE  \/ studies' = studies
           \/ /\ DOMAIN studies' = DOMAIN studies
              /\ \A s \in DOMAIN studies :
                    \/ studies'[s] = studies[s]
                    \/ studies'[s].sets = addComputation(studies[s].sets, run.comp)
<1>1. CASE studies' = [studies EXCEPT ![Evaluated].sets = addComputation(@, run.comp)]
  <2> DEFINE e == Evaluated
             sets == addComputation(studies[e].sets, run.comp)
             new == [studies[e] EXCEPT !.sets = sets]
  <2>1. studies' = [studies EXCEPT ![e] = new]
    BY <1>1
  <2>2. e \in DOMAIN studies => new.sets = sets
    BY StateFacts DEF StudyRecords
  <2> HIDE DEF new, e
  <2> QED BY <2>1, <2>2
<1> QED BY <1>1 DEF Add

(***************************************************************************)
(* Every step preserves DoneInv. A new computation is in no set because   *)
(* the registry does not know it; that is where IInv is needed.            *)
(***************************************************************************)
LEMMA DoneInvStep ==
    ASSUME IInv, IInv', DoneInv, [Next]_vars
    PROVE  DoneInv'
<1>0. /\ Done \subseteq Done'
      /\ \A s \in DOMAIN studies : /\ studies[s] \in StudyRecords(registry)
                                   /\ studies[s].sets \in Seq(Seq(registry))
                                   /\ Distinct(studies[s].sets)
                                   /\ Members(studies[s].sets, Done)
                                   /\ Members(studies[s].sets, Done')
      /\ \A s \in DOMAIN file.studies : /\ file.studies[s] \in StudyRecords(file.registry)
                                   /\ file.studies[s].sets \in Seq(Seq(file.registry))
                                   /\ Distinct(file.studies[s].sets)
                                   /\ Members(file.studies[s].sets, Done)
                                   /\ Members(file.studies[s].sets, Done')
  <2>1. Done \subseteq Done'
    BY DoneGrows
  <2>2. \A s \in DOMAIN studies : studies[s] \in StudyRecords(registry)
    BY StateFacts
  <2>3. \A s \in DOMAIN file.studies : file.studies[s] \in StudyRecords(file.registry)
    BY StateFacts
  <2>4. \A s \in DOMAIN studies : studies[s].sets \in Seq(Seq(registry))
    BY <2>2 DEF StudyRecords
  <2>5. \A s \in DOMAIN file.studies : file.studies[s].sets \in Seq(Seq(file.registry))
    BY <2>3 DEF StudyRecords
  <2> QED BY <2>1, <2>2, <2>3, <2>4, <2>5, MembersGrow DEF DoneInv, AllDone
<1>1. AllDone(file.studies)' \/ Save
  <2>1. CASE UNCHANGED file
    BY <1>0, <2>1 DEF AllDone
  <2> QED BY <2>1 DEF Next, StudyStep, vars, NewStudy, Solve, RemoveStudy, Refuse, Evaluate, Solved,
         NotSolved, Add, NextPhase, Finish, Throw, Abort, DeleteSolutions, Load
<1>2. CASE (\E s \in DOMAIN studies : Solve(s)) \/ (StudyStep /\ ~Add) \/ Abort
  <2>1. /\ DOMAIN studies' = DOMAIN studies
        /\ \A s \in DOMAIN studies : SetsFrom(studies'[s].sets, studies[s].sets)
        /\ UNCHANGED file
    BY <1>2, SetsKept
  <2>2. AllDone(studies)'
    BY <1>0, <2>1, SetsFromOld DEF AllDone
  <2>3. AllDone(file.studies)'
    BY <1>0, <2>1 DEF AllDone
  <2>4. /\ run'.pc = "events" => run'.comp \in Done'
        /\ run'.pc \in {"solve", "events"} =>
              \A s \in DOMAIN studies : Members(studies[s].sets, Nat \ {run'.comp})
    <3>1. CASE Evaluate
      <4> DEFINE comp == Len(computations')
                 late == run.told /\ ~InitialSample
      <4>1. run' = [run EXCEPT !.pc = "solve", !.comp = comp, !.late = late] /\ run \in Runs
        BY <3>1 DEF Evaluate, IInv, RunInv
      <4> HIDE DEF late, comp
      <4>2. run'.pc = "solve" /\ run'.comp = comp
        BY <4>1 DEF Runs
      <4>3. comp = Len(computations) + 1 /\ Len(computations) \in Nat
        <5>1. computations' = Append(computations,
                                     [goals |-> <<>>, evaluated |-> FALSE, isSolved |-> FALSE])
              /\ computations \in Seq(Computations)
              /\ [goals |-> <<>>, evaluated |-> FALSE, isSolved |-> FALSE] \in Computations
          BY <3>1 DEF Evaluate, IInv, KeptInv, Computations
        <5> QED BY <5>1, AppendProperties DEF comp
      <4>4. registry \subseteq Nat \ {comp}
        BY <4>3 DEF IInv, KeptInv, Created
      <4>5. \A s \in DOMAIN studies : Members(studies[s].sets, Nat \ {comp})
        <5> TAKE s \in DOMAIN studies
        <5>1. \A i \in DOMAIN studies[s].sets : studies[s].sets[i] \in Seq(registry)
          BY <1>0
        <5>2. \A i \in DOMAIN studies[s].sets : \A m \in DOMAIN studies[s].sets[i] :
                  studies[s].sets[i][m] \in registry
          BY <5>1
        <5> QED BY <4>4, <5>2 DEF Members
      <4> QED BY <4>2, <4>5
    <3>2. ASSUME NEW goals \in Goals, Solved(goals)
          PROVE  /\ run'.pc = "events" => run'.comp \in Done'
                 /\ run'.pc \in {"solve", "events"} =>
                       \A s \in DOMAIN studies : Members(studies[s].sets, Nat \ {run'.comp})
      <4>1. run.pc = "solve" /\ run'.comp = run.comp /\ run.comp \in Created
        BY <3>2 DEF Solved, IInv, RunInv, KeptInv, Runs
      <4>2. computations \in Seq(Computations) /\ DOMAIN computations = Created
            /\ computations' = [computations EXCEPT
                  ![run.comp] = [goals |-> goals, evaluated |-> TRUE, isSolved |-> TRUE]]
            /\ [goals |-> goals, evaluated |-> TRUE, isSolved |-> TRUE] \in Computations
        BY <3>2, StateFacts DEF Solved, IInv, KeptInv, Computations
      <4>3. Created' = Created
        BY <4>1, <4>2, ExceptSeq DEF Created
      <4>4. run.comp \in Done'
        BY <4>1, <4>2, <4>3 DEF Done
      <4> QED BY <4>1, <4>4 DEF DoneInv
    <3>3. CASE Abort
      BY <1>0, <3>3 DEF Abort, DoneInv, IInv, RunInv, Runs
    <3>4. CASE (\E s \in DOMAIN studies : Solve(s)) \/ Refuse \/ NotSolved \/ NextPhase \/ Finish \/ Throw
      <4>1. run'.pc \in {"ask", "escaped", "idle"}
        <5>1. CASE \E s \in DOMAIN studies : Solve(s)
          BY <5>1 DEF Solve, NoRun
        <5>2. CASE Refuse
          BY <5>2 DEF Refuse, IInv, RunInv, Runs
        <5>3. CASE NotSolved
          <6> DEFINE pc == IF studies[run.study].kind = "model" THEN "escaped" ELSE "ask"
                     left == run.left - 1
          <6>1. run' = [run EXCEPT !.pc = pc, !.left = left] /\ pc \in {"ask", "escaped"}
            BY <5>3 DEF NotSolved
          <6> HIDE DEF pc, left
          <6> QED BY <6>1 DEF IInv, RunInv, Runs
        <5>4. CASE NextPhase
          BY <5>4 DEF NextPhase, IInv, RunInv, Runs
        <5>5. CASE Finish \/ Throw
          BY <5>5 DEF Finish, Throw, IInv, RunInv, Runs, NoRun
        <5> QED BY <3>4, <5>1, <5>2, <5>3, <5>4, <5>5
      <4> QED BY <4>1
    <3> QED BY <1>2, <3>1, <3>2, <3>3, <3>4 DEF StudyStep
  <2>5. run'.pc \in {"solve", "events"} =>
            \A s \in DOMAIN studies : Members(studies'[s].sets, Nat \ {run'.comp})
    BY <1>0, <2>1, <2>4, SetsFromOld
  <2> QED BY <2>1, <2>2, <2>3, <2>4, <2>5 DEF DoneInv
<1>3. CASE Add
  <2>1. run.comp \in Done' /\ run.comp \in registry
        /\ \A s \in DOMAIN studies : Members(studies[s].sets, Nat \ {run.comp})
    BY <1>0, <1>3 DEF Add, DoneInv, IInv, RunInv
  <2>2. run'.pc = "ask"
    BY <1>3 DEF Add, IInv, RunInv, Runs
  <2>3. AllDone(studies)'
    <3>1. CASE studies' = studies
      BY <1>0, <3>1 DEF AllDone
    <3>2. CASE studies' # studies
      <4>1. /\ DOMAIN studies' = DOMAIN studies
            /\ \A s \in DOMAIN studies :
                    \/ studies'[s] = studies[s]
                    \/ studies'[s].sets = addComputation(studies[s].sets, run.comp)
        BY <1>3, <3>2, AddSets
      <4>2. \A s \in DOMAIN studies :
               /\ Distinct(addComputation(studies[s].sets, run.comp))
               /\ Members(addComputation(studies[s].sets, run.comp), Done')
        BY <1>0, <2>1, AddDistinct
      <4> QED BY <1>0, <4>1, <4>2 DEF AllDone
    <3> QED BY <3>1, <3>2
  <2> QED BY <1>1, <1>3, <2>2, <2>3 DEF DoneInv, Add, Save
<1>4. ASSUME NEW kind \in Kinds, NEW clears \in Clears, NewStudy(kind, clears)
      PROVE  DoneInv'
  <2> DEFINE n == Len(studies)
             new == Study(kind, clears, <<>>)
  <2>1. n \in Nat /\ DOMAIN studies = 1 .. n /\ studies \in Seq(StudyRecords(registry))
        /\ new \in StudyRecords(registry) /\ new.sets = <<>>
    BY StateFacts DEF IInv, KeptInv, Study, StudyRecords
  <2>2. studies' = Append(studies, new) /\ run.pc = "idle" /\ UNCHANGED <<run, file>>
    BY <1>4 DEF NewStudy
  <2> HIDE DEF new
  <2>3. /\ Len(studies') = n + 1 /\ DOMAIN studies' = 1 .. n + 1
        /\ \A i \in 1 .. n : studies'[i] = studies[i]
        /\ studies'[n + 1] = new
    BY <2>1, <2>2, AppendProperties
  <2>4. Distinct(new.sets) /\ Members(new.sets, Done')
    BY <2>1 DEF Distinct, Members
  <2>5. AllDone(studies)'
    BY <1>0, <2>1, <2>3, <2>4 DEF AllDone
  <2>6. AllDone(file.studies)'
    BY <1>0, <2>2 DEF AllDone
  <2> QED BY <2>2, <2>5, <2>6 DEF DoneInv
<1>5. ASSUME NEW s \in DOMAIN studies, RemoveStudy(s)
      PROVE  DoneInv'
  <2> DEFINE n == Len(studies)
  <2>1. n \in Nat /\ s \in 1 .. n /\ DOMAIN studies = 1 .. n
        /\ studies \in Seq(StudyRecords(registry))
    BY StateFacts DEF IInv, KeptInv
  <2>2. run.pc = "idle" /\ studies' = RemoveAt(studies, s) /\ UNCHANGED <<run, file>>
    BY <1>5 DEF RemoveStudy
  <2>3. /\ Len(studies') = n - 1
        /\ \A j \in 1 .. n - 1 : studies'[j] = IF j < s THEN studies[j] ELSE studies[j + 1]
        /\ studies' \in Seq(StudyRecords(registry))
    BY <2>1, <2>2, RemoveAtProperties
  <2>4. DOMAIN studies' = 1 .. n - 1
    BY <2>3
  <2> HIDE DEF n
  <2>5. \A j \in DOMAIN studies' : \E i \in DOMAIN studies : studies'[j] = studies[i]
    <3> TAKE j \in DOMAIN studies'
    <3>1. j \in 1 .. n /\ j + 1 \in 1 .. n
      BY <2>1, <2>4
    <3> QED BY <2>1, <2>3, <2>4, <3>1
  <2>6. AllDone(studies)'
    BY <1>0, <2>5 DEF AllDone
  <2>7. AllDone(file.studies)'
    BY <1>0, <2>2 DEF AllDone
  <2> QED BY <2>2, <2>6, <2>7 DEF DoneInv
<1>6. CASE DeleteSolutions
  <2>1. /\ run.pc = "idle" /\ UNCHANGED <<run, file>>
        /\ studies' = [s \in DOMAIN studies |->
                          [studies[s] EXCEPT !.sets = WithoutRegistered(@)]]
    BY <1>6 DEF DeleteSolutions
  <2>2. \A s \in DOMAIN studies : studies'[s].sets \in Seq(Seq({}))
    <3> TAKE s \in DOMAIN studies
    <3> DEFINE sets == WithoutRegistered(studies[s].sets)
    <3>1. studies'[s] = [studies[s] EXCEPT !.sets = sets]
      BY <2>1
    <3>2. sets \in Seq(Seq({}))
      BY <1>0, WithoutRegisteredType
    <3> HIDE DEF sets
    <3> QED BY <1>0, <3>1, <3>2 DEF StudyRecords
  <2>3. AllDone(studies)'
    BY <2>1, <2>2, EmptySets DEF AllDone
  <2>4. AllDone(file.studies)'
    BY <1>0, <2>1 DEF AllDone
  <2> QED BY <2>1, <2>3, <2>4 DEF DoneInv
<1>7. CASE Save
  <2>1. /\ run.pc = "idle" /\ UNCHANGED <<run, studies>>
        /\ file'.studies = [s \in DOMAIN studies |->
                Study(studies[s].kind, studies[s].clears, studies[s].sets)]
    BY <1>7 DEF Save
  <2>2. AllDone(studies)'
    BY <1>0, <2>1 DEF AllDone
  <2>3. AllDone(file.studies)'
    BY <1>0, <2>1 DEF AllDone, Study
  <2> QED BY <2>1, <2>2, <2>3 DEF DoneInv
<1>8. CASE Load
  <2>1. /\ run.pc = "idle" /\ UNCHANGED <<run, file>>
        /\ studies' = [s \in DOMAIN file.studies |->
                          [file.studies[s] EXCEPT !.sets = KnownComputations(@)]]
    BY <1>8 DEF Load
  <2>2. \A s \in DOMAIN file.studies :
            studies'[s].sets = KnownComputations(file.studies[s].sets)
    <3> TAKE s \in DOMAIN file.studies
    <3> DEFINE sets == KnownComputations(file.studies[s].sets)
    <3>1. studies'[s] = [file.studies[s] EXCEPT !.sets = sets]
      BY <2>1
    <3> HIDE DEF sets
    <3>2. studies'[s].sets = sets
      BY <1>0, <3>1 DEF StudyRecords
    <3> QED BY <3>2 DEF sets
  <2>3. AllDone(studies)'
    BY <1>0, <2>1, <2>2, KnownDistinct DEF AllDone
  <2>4. AllDone(file.studies)'
    BY <1>0, <2>1 DEF AllDone
  <2> QED BY <2>1, <2>3, <2>4 DEF DoneInv
<1>9. CASE UNCHANGED vars
  BY <1>0, <1>9 DEF vars, DoneInv, AllDone
<1> QED BY <1>2, <1>3, <1>4, <1>5, <1>6, <1>7, <1>8, <1>9 DEF Next

\* DoneInv holds in every state.
LEMMA SpecDoneInv == Spec => []DoneInv
<1>1. Init => DoneInv
  BY DEF Init, DoneInv, AllDone, NoFile, NoRun
<1>2. IInv /\ IInv' /\ DoneInv /\ [Next]_vars => DoneInv'
  BY DoneInvStep
<1> QED BY <1>1, <1>2, SpecIInv, PTL DEF Spec

\* The concatenation of the sets, unfolded: one set after the other.
LEMMA ListedRec ==
    ASSUME NEW S, NEW sets \in Seq(Seq(S)), sets # <<>>
    PROVE  \E g \in [0 .. Len(sets) -> Seq(S)] :
              /\ Listed(sets) = g[Len(sets)]
              /\ g[0] = <<>>
              /\ \A n \in 1 .. Len(sets) : g[n] = g[n - 1] \o sets[n]
<1> DEFINE N == Len(sets)
           step == [n \in 1 .. N |-> [t \in Seq(S) |-> t \o sets[n]]]
           Rec(g) == g = [n \in 1 .. N |-> IF n = 1 THEN sets[n] ELSE g[n - 1] \o sets[n]]
           f == CHOOSE g : Rec(g)
<1>0. /\ N \in Nat /\ N >= 1 /\ <<>> \in Seq(S)
      /\ \A n \in 1 .. N : sets[n] \in Seq(S)
  OBVIOUS
<1>1. step \in [1 .. N -> [Seq(S) -> Seq(S)]]
  <2>1. \A n \in 1 .. N : \A t \in Seq(S) : t \o sets[n] \in Seq(S)
    BY <1>0, ConcatProperties
  <2> QED BY <2>1
<1> HIDE DEF step, N, f
<1>2. PICK g : Follows(g, Seq(S), N, <<>>, step)
  <2>1. StaysIn(Seq(S), N, step)
    BY <1>1 DEF StaysIn
  <2> QED BY <1>0, <2>1, RecursionExists
<1>3. /\ g \in [0 .. N -> Seq(S)]
      /\ g[0] = <<>>
      /\ \A i \in 1 .. N : g[i] = step[i][g[i - 1]]
  BY <1>2 DEF Follows
<1> USE DEF step
<1>4. \A i \in 1 .. N : g[i] = g[i - 1] \o sets[i]
  <2> TAKE i \in 1 .. N
  <2>1. g[i - 1] \in Seq(S)
    BY <1>0, <1>3
  <2> QED BY <1>3, <2>1
<1> HIDE DEF step
<1>4a. g[1] = sets[1]
  <2>0. 1 \in 1 .. N /\ 1 - 1 = 0
    BY <1>0
  <2>1. g[1] = g[0] \o sets[1]
    BY <2>0, <1>4
  <2>2. g[0] = <<>> /\ sets[1] \in Seq(S)
    BY <2>0, <1>0, <1>3
  <2> QED BY <2>1, <2>2, ConcatEmptySeq
<1> DEFINE r == [n \in 1 .. N |-> g[n]]
<1>5. Rec(r)
  <2>1. \A n \in 1 .. N : r[n] = IF n = 1 THEN sets[n] ELSE r[n - 1] \o sets[n]
    <3> TAKE n \in 1 .. N
    <3>1. CASE n = 1
      BY <3>1, <1>4a
    <3>2. CASE n # 1
      <4>1. n - 1 \in 1 .. N
        BY <1>0, <3>2
      <4> QED BY <4>1, <3>2, <1>4
    <3> QED BY <3>1, <3>2
  <2> HIDE DEF r
  <2>2. r = [n \in 1 .. N |-> r[n]]
    BY DEF r
  <2> QED BY <2>1, <2>2
<1> HIDE DEF r
<1>6. Rec(f)
  <2> HIDE DEF Rec
  <2> QED BY <1>5 DEF f
<1>7. Listed(sets) = f[N]
  <2>1. ~ (Len(sets) = 0)
    BY <1>0 DEF N
  <2> QED BY <2>1, Zenon DEF Listed, FlattenSeq, N, f
<1>8. \A n \in 1 .. N : f[n] = IF n = 1 THEN sets[n] ELSE f[n - 1] \o sets[n]
  BY Zenon, <1>6
<1>9. f[N] = g[N]
  <2> HIDE DEF Rec
  <2> DEFINE T == {i \in 0 .. N : i >= 1 => f[i] = g[i]}
  <2>1. 0 \in T
    BY <1>0
  <2>2. \A k \in 0 .. N - 1 : k \in T => k + 1 \in T
    <3> SUFFICES ASSUME NEW k \in 0 .. N - 1, k \in T PROVE k + 1 \in T
      OBVIOUS
    <3>1. k + 1 \in 1 .. N /\ k + 1 \in 0 .. N /\ (k + 1) - 1 = k /\ k \in Nat
      BY <1>0
    <3>2. CASE k = 0
      <4>1. f[1] = sets[1]
        BY <1>0, <1>8
      <4> QED BY <3>1, <3>2, <4>1, <1>4a
    <3>3. CASE k # 0
      <4>1. f[k] = g[k] /\ k + 1 # 1
        BY <3>1, <3>3
      <4>2. f[k + 1] = f[k] \o sets[k + 1]
        BY <3>1, <4>1, <1>8
      <4>3. g[k + 1] = g[k] \o sets[k + 1]
        BY <3>1, <1>4
      <4> QED BY <3>1, <4>1, <4>2, <4>3
    <3> QED BY <3>2, <3>3
  <2> HIDE DEF T
  <2>4. \A k \in 0 .. N : k \in T
    BY <2>1, <2>2, <1>0, SetInduction
  <2> QED BY <2>4, <1>0 DEF T
<1> QED BY <1>3, <1>4, <1>7, <1>9 DEF N

\* The concatenation lists what the sets list, and nothing twice.
LEMMA ListedOnce ==
    ASSUME NEW S, NEW sets \in Seq(Seq(S)), NEW good, Members(sets, good), Distinct(sets)
    PROVE  /\ Listed(sets) \in Seq(S \cap good)
           /\ \A a, b \in 1 .. Len(Listed(sets)) : Listed(sets)[a] = Listed(sets)[b] => a = b
<1>1. CASE sets = <<>>
  <2>1. Listed(sets) = <<>>
    <3>1. Len(sets) = 0
      BY <1>1
    <3> QED BY <1>1, <3>1, Zenon DEF Listed, FlattenSeq
  <2> QED BY <2>1
<1>2. CASE sets # <<>>
  <2> DEFINE N == Len(sets)
  <2>0. /\ N \in Nat /\ DOMAIN sets = 1 .. N
        /\ \A n \in 1 .. N : sets[n] \in Seq(S) /\ DOMAIN sets[n] = 1 .. Len(sets[n])
                             /\ Len(sets[n]) \in Nat
    OBVIOUS
  <2>1. PICK g \in [0 .. N -> Seq(S)] :
              /\ Listed(sets) = g[N]
              /\ g[0] = <<>>
              /\ \A n \in 1 .. N : g[n] = g[n - 1] \o sets[n]
    BY <1>2, ListedRec
  <2> HIDE DEF N
  <2> DEFINE From(n) == \A a \in 1 .. Len(g[n]) : \E i \in 1 .. n : \E m \in DOMAIN sets[i] :
                            g[n][a] = sets[i][m]
             Once(n) == \A a, b \in 1 .. Len(g[n]) : g[n][a] = g[n][b] => a = b
             T == {n \in 0 .. N : From(n) /\ Once(n)}
  <2>2. 0 \in T
    BY <2>0, <2>1
  <2>3. ASSUME NEW k \in 0 .. N - 1, k \in T PROVE k + 1 \in T
    <3> DEFINE n == k + 1
               s == g[k]
               t == sets[n]
               p == Len(s)
               q == Len(t)
    <3>0. n \in 1 .. N /\ n - 1 = k /\ k \in Nat /\ s \in Seq(S) /\ t \in Seq(S)
          /\ DOMAIN t = 1 .. q /\ p \in Nat /\ q \in Nat /\ From(k) /\ Once(k)
      <4>1. n \in 1 .. N /\ n - 1 = k /\ k \in Nat /\ k \in 0 .. N
        BY <2>0
      <4>2. g[k] \in Seq(S)
        BY <2>1, <4>1
      <4>3. s \in Seq(S) /\ p \in Nat
        BY <4>2
      <4>4. t \in Seq(S) /\ DOMAIN t = 1 .. q /\ q \in Nat
        BY <2>0, <4>1
      <4>5. From(k) /\ Once(k)
        BY <2>3
      <4> QED BY <4>1, <4>3, <4>4, <4>5
    <3>1. g[n] = s \o t
      BY <2>1, <3>0
    <3> HIDE DEF n, s, t, p, q
    <3>2. Len(s \o t) = p + q /\ \A a \in 1 .. p + q :
              (s \o t)[a] = IF a <= p THEN s[a] ELSE t[a - p]
      <4>1. s \in Seq(S) /\ t \in Seq(S)
        BY <3>0
      <4> QED BY <4>1, ConcatProperties DEF p, q
    <3>3. \A a \in 1 .. p : \E i \in 1 .. k : \E m \in DOMAIN sets[i] : s[a] = sets[i][m]
      BY <3>0 DEF s, p
    <3>4. \A a, b \in 1 .. p : s[a] = s[b] => a = b
      BY <3>0 DEF s, p
    <3>5. \A a, b \in 1 .. q : t[a] = t[b] => a = b
      <4>1. n \in DOMAIN sets /\ DOMAIN sets[n] = 1 .. q
        BY <2>0, <3>0 DEF t
      <4> QED BY <4>1 DEF Distinct, t
    <3>6. \A a \in 1 .. p, b \in 1 .. q : s[a] # t[b]
      <4> SUFFICES ASSUME NEW a \in 1 .. p, NEW b \in 1 .. q, s[a] = t[b] PROVE FALSE
        OBVIOUS
      <4>1. PICK i \in 1 .. k : \E m \in DOMAIN sets[i] : s[a] = sets[i][m]
        BY <3>3
      <4>2. PICK m \in DOMAIN sets[i] : s[a] = sets[i][m]
        BY <4>1
      <4>3. i \in DOMAIN sets /\ n \in DOMAIN sets /\ b \in DOMAIN sets[n]
            /\ sets[i][m] = sets[n][b] /\ i # n
        BY <2>0, <3>0, <4>2 DEF t, n
      <4> QED BY <4>3 DEF Distinct
    <3>7. From(n)
      <4> SUFFICES ASSUME NEW a \in 1 .. Len(g[n])
                   PROVE  \E i \in 1 .. n : \E m \in DOMAIN sets[i] : g[n][a] = sets[i][m]
        OBVIOUS
      <4>0. a \in 1 .. p + q /\ g[n][a] = (s \o t)[a]
        BY <3>1, <3>2
      <4>1. CASE a <= p
        <5>1. PICK i \in 1 .. k : \E m \in DOMAIN sets[i] : s[a] = sets[i][m]
          BY <3>0, <3>3, <4>1
        <5>2. i \in 1 .. n
          BY <3>0 DEF n
        <5>3. g[n][a] = s[a]
          BY <3>2, <4>0, <4>1
        <5> QED BY <5>1, <5>2, <5>3
      <4>2. CASE ~ (a <= p)
        <5>1. a - p \in 1 .. q /\ (s \o t)[a] = t[a - p]
          BY <3>0, <3>2, <4>0, <4>2
        <5>2. n \in 1 .. n
          BY <3>0
        <5>3. a - p \in DOMAIN sets[n] /\ g[n][a] = sets[n][a - p]
          BY <3>0, <4>0, <5>1 DEF t
        <5> QED BY <5>2, <5>3
      <4> QED BY <4>1, <4>2
    <3>8. Once(n)
      <4> SUFFICES ASSUME NEW a \in 1 .. p + q, NEW b \in 1 .. p + q, (s \o t)[a] = (s \o t)[b]
                   PROVE  a = b
        BY <3>1, <3>2
      <4>0. p \in Nat /\ q \in Nat
        BY <3>0
      <4>1. /\ a <= p => a \in 1 .. p /\ (s \o t)[a] = s[a]
            /\ b <= p => b \in 1 .. p /\ (s \o t)[b] = s[b]
            /\ ~ (a <= p) => a - p \in 1 .. q /\ (s \o t)[a] = t[a - p]
            /\ ~ (b <= p) => b - p \in 1 .. q /\ (s \o t)[b] = t[b - p]
        <5>1. ASSUME NEW c \in 1 .. p + q
              PROVE  /\ c <= p => c \in 1 .. p /\ (s \o t)[c] = s[c]
                     /\ ~ (c <= p) => c - p \in 1 .. q /\ (s \o t)[c] = t[c - p]
          <6>1. (s \o t)[c] = IF c <= p THEN s[c] ELSE t[c - p]
            BY <3>2
          <6>2. (c <= p => c \in 1 .. p) /\ (~ (c <= p) => c - p \in 1 .. q)
            BY <4>0
          <6> QED BY <6>1, <6>2
        <5> QED BY <5>1
      <4>2. CASE a <= p /\ b <= p
        BY <3>4, <4>1, <4>2
      <4>3. CASE ~ (a <= p) /\ ~ (b <= p)
        <5>1. a - p = b - p
          BY <3>5, <4>1, <4>3
        <5> QED BY <3>0, <5>1
      <4>4. CASE a <= p /\ ~ (b <= p)
        BY <3>6, <4>1, <4>4
      <4>5. CASE ~ (a <= p) /\ b <= p
        BY <3>6, <4>1, <4>5
      <4> QED BY <4>2, <4>3, <4>4, <4>5
    <3> HIDE DEF From, Once
    <3>9. n \in 0 .. N /\ n = k + 1
      BY <3>0 DEF n
    <3> QED BY <3>7, <3>8, <3>9
  <2>4. \A k \in 0 .. N : k \in T
    <3> HIDE DEF T
    <3>1. \A k \in 0 .. N - 1 : k \in T => k + 1 \in T
      BY <2>3
    <3> QED BY <2>0, <2>2, <3>1, SetInduction
  <2>5. N \in T
    <3> HIDE DEF T
    <3> QED BY <2>0, <2>4
  <2>6. From(N) /\ Once(N)
    BY <2>5
  <2> DEFINE all == g[N]
  <2>7. all \in Seq(S)
    BY <2>0, <2>1
  <2>8. \A a \in 1 .. Len(all) : \E i \in DOMAIN sets : \E m \in DOMAIN sets[i] :
            all[a] = sets[i][m]
    BY <2>0, <2>6
  <2> HIDE DEF all
  <2>9. \A a \in 1 .. Len(all) : all[a] \in S \cap good
    BY <2>7, <2>8 DEF Members
  <2>10. all \in Seq(S \cap good)
    BY <2>7, <2>9
  <2> QED BY <2>1, <2>6, <2>10 DEF all
<1> QED BY <1>1, <1>2

\* The list that the sort and the extremes of a study start from.
LEMMA DoneFacts ==
    ASSUME IInv, DoneInv, NEW s \in DOMAIN studies
    PROVE  Listed(studies[s].sets) \in Seq(Done) /\ IsInjective(Listed(studies[s].sets))
<1> DEFINE sets == studies[s].sets
           all == Listed(sets)
<1>1. sets \in Seq(Seq(registry))
  BY StateFacts DEF StudyRecords
<1>2. Distinct(sets) /\ Members(sets, Done)
  BY DEF DoneInv, AllDone
<1> HIDE DEF sets
<1>3. all \in Seq(registry \cap Done) /\ \A a, b \in 1 .. Len(all) : all[a] = all[b] => a = b
  BY <1>1, <1>2, ListedOnce
<1> HIDE DEF all
<1>4. all \in Seq(Done) /\ DOMAIN all = 1 .. Len(all)
  BY <1>3
<1>5. IsInjective(all)
  BY <1>3, <1>4 DEF IsInjective
<1> QED BY <1>4, <1>5 DEF all, sets

(***************************************************************************)
(* Every computation a study lists came to the end of its evaluation, so   *)
(* that none is listed whose solution failed, and is listed once: the      *)
(* charts, findExtreme and nondominatedSort read each of them.             *)
(***************************************************************************)
THEOREM SpecListedIsEvaluated == Spec => []ListedIsEvaluated
<1>1. IInv /\ DoneInv => ListedIsEvaluated
  <2> SUFFICES ASSUME IInv, DoneInv, NEW s \in DOMAIN studies
               PROVE  /\ IsInjective(Listed(studies[s].sets))
                      /\ \A i \in DOMAIN Listed(studies[s].sets) :
                            computations[Listed(studies[s].sets)[i]].evaluated
    BY DEF ListedIsEvaluated
  <2> DEFINE all == Listed(studies[s].sets)
  <2>1. all \in Seq(Done) /\ IsInjective(all)
    BY DoneFacts
  <2> HIDE DEF all
  <2>2. \A i \in DOMAIN all : all[i] \in Done
    BY <2>1
  <2> QED BY <2>1, <2>2 DEF Done, all
<1> QED BY <1>1, SpecIInv, SpecDoneInv, PTL

-----------------------------------------------------------------------------
(* The Pareto front                                                        *)

\* Study::dominateComputations of two computations.
Beats(x, y) == dominateComputations(computations[x].goals, computations[y].goals)

\* No member of a front dominates another one.
Antichain(F) == \A x, y \in F : ~Beats(x, y)

\* Everything in A is on the front or dominated by a member of it.
Covers(F, A) == \A y \in A : y \in F \/ \E x \in F : Beats(x, y)

\* The reference: what nothing dominates.
Pareto(A) == {c \in A : \A d \in A : ~Beats(d, c)}

\* Of S nothing is lost but what something in A dominates.
Keeps(F, A, S) == \A y \in S : y \in F \/ \E x \in A : Beats(x, y)

\* Dominating is a strict order.
Order(A) == /\ \A x \in A : ~Beats(x, x)
            /\ \A x, y, z \in A : Beats(x, y) /\ Beats(y, z) => Beats(x, z)

\* The values of the goals that were evaluated are numbers, and so is what
\* value() returns for the others.
LEMMA GoalValues ==
    ASSUME IInv, NEW c \in Created
    PROVE  /\ c # Null
           /\ \A g \in DOMAIN computations[c].goals : computations[c].goals[g] \in Int
           /\ \A g : Value(computations[c].goals, g) \in Int
<1> DEFINE l == computations[c].goals
<1>1. computations[c] \in Computations /\ c # Null
  BY StateFacts DEF IInv, KeptInv, Null
<1>2. l \in Goals \/ l = <<>>
  BY <1>1 DEF Computations
<1> HIDE DEF l
<1>3. \A g \in DOMAIN l : l[g] \in Int
  <2>1. CASE l \in Goals
    BY <2>1, GoalsAssumption
  <2>2. CASE l = <<>>
    BY <2>2
  <2> QED BY <1>2, <2>1, <2>2
<1>4. \A g : Value(l, g) \in Int
  BY <1>3 DEF Value
<1> QED BY <1>1, <1>3, <1>4 DEF l

\* No computation dominates itself.
LEMMA BeatsItself == ASSUME IInv, NEW x \in Created PROVE ~Beats(x, x)
<1>1. \A g \in DOMAIN computations[x].goals : computations[x].goals[g] \in Int
  BY GoalValues
<1> QED BY <1>1 DEF Beats, dominateComputations, Value

(***************************************************************************)
(* dominateComputations is a strict order on computations that have        *)
(* results of the same goals.                                              *)
(***************************************************************************)
LEMMA BeatsOrder ==
    ASSUME IInv, NEW A, A \subseteq Created,
           \A c, d \in A : DOMAIN computations[c].goals = DOMAIN computations[d].goals
    PROVE  Order(A)
<1>1. \A x \in A : ~Beats(x, x)
  BY BeatsItself
<1>2. ASSUME NEW x \in A, NEW y \in A, NEW z \in A, Beats(x, y), Beats(y, z)
      PROVE  Beats(x, z)
  <2> DEFINE a == computations[x].goals
             b == computations[y].goals
             c == computations[z].goals
             G == DOMAIN a
  <2>1. /\ DOMAIN b = G /\ DOMAIN c = G
        /\ \A g \in G : a[g] \in Int /\ b[g] \in Int /\ c[g] \in Int
    <3>1. DOMAIN b = DOMAIN a /\ DOMAIN c = DOMAIN a
      OBVIOUS
    <3>2. /\ \A g \in DOMAIN a : a[g] \in Int
          /\ \A g \in DOMAIN b : b[g] \in Int
          /\ \A g \in DOMAIN c : c[g] \in Int
      BY GoalValues
    <3> HIDE DEF a, b, c
    <3> QED BY <3>1, <3>2
  <2>2. (\A g \in DOMAIN a : a[g] <= Value(b, g)) /\ (\E g \in DOMAIN a : a[g] < Value(b, g))
    BY <1>2 DEF Beats, dominateComputations
  <2>3. \A g \in DOMAIN b : b[g] <= Value(c, g)
    BY <1>2 DEF Beats, dominateComputations
  <2> HIDE DEF a, b, c
  <2>4. \A g \in G : Value(b, g) = b[g] /\ Value(c, g) = c[g]
    BY <2>1 DEF Value
  <2>5. \A g \in G : a[g] <= Value(c, g)
    <3> TAKE g \in G
    <3> QED BY <2>1, <2>2, <2>3, <2>4
  <2>6. \E g \in G : a[g] < Value(c, g)
    <3>1. PICK g \in G : a[g] < Value(b, g)
      BY <2>2
    <3>2. /\ Value(b, g) = b[g] /\ Value(c, g) = c[g]
          /\ b[g] <= Value(c, g) /\ a[g] \in Int /\ b[g] \in Int /\ c[g] \in Int
      BY <2>1, <2>3, <2>4
    <3> QED BY <3>1, <3>2
  <2> QED BY <2>5, <2>6 DEF Beats, dominateComputations, a, c
<1> QED BY <1>1, <1>2 DEF Order

(***************************************************************************)
(* The inner loop of nondominatedSort, which leaves at the first member    *)
(* that dominates c after it may have erased members.  What is erased is   *)
(* dominated by c, and the one that dominates c stays, so that the front   *)
(* is never left empty; without such a one, all that c dominates is gone.  *)
(***************************************************************************)
LEMMA FrontWithRange ==
    ASSUME NEW A, NEW front \in Seq(A), NEW c \in A
    PROVE  LET F == Range(front)
               G == Range(FrontWith(front, c))
           IN  /\ FrontWith(front, c) \in Seq(A)
               /\ G \subseteq F \union {c} /\ G # {}
               /\ \A y \in F : y \in G \/ Beats(c, y)
               /\ ~(\E x \in F : Beats(x, c)) => G = {x \in F : ~Beats(c, x)} \union {c}
               /\ (\E x \in F : Beats(x, c)) => G \subseteq F
<1> DEFINE goals(x) == computations[x].goals
           n == Len(front)
           first == {i \in DOMAIN front :
                        dominateComputations(computations[front[i]].goals, computations[c].goals)}
           least == CHOOSE i \in first : \A j \in first : i <= j
           checked == IF first = {} THEN n ELSE least - 1
           a == SubSeq(front, 1, checked)
           b == SubSeq(front, checked + 1, n)
           wanted == {x \in Range(front) :
                        ~dominateComputations(computations[c].goals, computations[x].goals)}
           kept == Kept(a, wanted) \o b
<1>1. FrontWith(front, c) = IF first = {} THEN Append(kept, c) ELSE kept
  BY DEF FrontWith
<1>2. first = {i \in 1 .. n : Beats(front[i], c)} /\ n \in Nat
  BY DEF Beats
<1>3. wanted = {x \in Range(front) : ~Beats(c, x)}
  BY DEF Beats
<1>4. Range(front) = {front[i] : i \in 1 .. n} /\ Range(front) \subseteq A
  BY RangeEquality, RangeOfSeq
<1>5. first # {} => least \in first
  <2> SUFFICES ASSUME first # {} PROVE least \in first
    OBVIOUS
  <2>1. first \subseteq Nat
    BY <1>2
  <2> HIDE DEF first
  <2>2. \E i \in first : \A j \in first : i <= j
    BY <2>1, LeastNatural
  <2> QED BY <2>2
<1> HIDE DEF least
<1>12. checked \in 0 .. n
  BY <1>2, <1>5
<1>13. first # {} => checked + 1 = least /\ least \in 1 .. n /\ Beats(front[least], c)
  BY <1>2, <1>5
<1> HIDE DEF checked
<1>6. a \in Seq(A) /\ b \in Seq(A) /\ a \o b = front
  <2>0. \A i \in 1 .. n : front[i] \in A
    OBVIOUS
  <2>1. a \in Seq(A)
    <3>1. \A i \in 1 .. checked : front[i] \in A
      BY <1>2, <1>12, <2>0
    <3> QED BY <1>2, <1>12, <3>1, SubSeqProperties
  <2>2. b \in Seq(A)
    <3>1. \A i \in checked + 1 .. n : front[i] \in A
      BY <1>2, <1>12, <2>0
    <3> QED BY <1>2, <1>12, <3>1, SubSeqProperties
  <2>3. a \o b = SubSeq(front, 1, n)
    <3>1. 1 \in 1 .. Len(front) + 1 /\ checked \in 1 - 1 .. Len(front)
          /\ n \in checked .. Len(front)
      BY <1>2, <1>12
    <3> HIDE DEF n
    <3> QED BY <3>1, ConcatAdjacentSubSeq
  <2>4. SubSeq(front, 1, n) = front
    BY SubSeqFull
  <2> QED BY <2>1, <2>2, <2>3, <2>4
<1>7. Range(a) \union Range(b) = Range(front)
  BY <1>6, RangeConcatenation, ZenonT(40)
<1>8. kept \in Seq(A) /\ Range(kept) = (Range(a) \cap wanted) \union Range(b)
  <2> HIDE DEF a, b, wanted
  <2>1. Kept(a, wanted) \in Seq(A) /\ Range(Kept(a, wanted)) = Range(a) \cap wanted
    BY <1>6, RangeOfKept
  <2> QED BY <1>6, <2>1, RangeConcatenation, ConcatProperties
<1>9. first = {} <=> ~(\E x \in Range(front) : Beats(x, c))
  BY <1>2, <1>4
<1>14. \A y \in Range(front) : y \in Range(kept) \/ Beats(c, y)
  <2> HIDE DEF kept, wanted, a, b, first, n
  <2> QED BY <1>3, <1>7, <1>8
<1>10. CASE first = {}
  <2>1. checked = n
    BY <1>10 DEF checked
  <2>2. b = <<>>
    BY <1>2, <2>1, SubSeqEmpty
  <2>3. Range(b) = {}
    <3>1. \A t : t = <<>> => Range(t) = {}
      BY DEF Range
    <3> QED BY <2>2, <3>1, Zenon
  <2> HIDE DEF kept, wanted, a, b, first, n
  <2>4. FrontWith(front, c) = Append(kept, c)
    BY <1>1, <1>10
  <2>5. Range(kept) = wanted
    BY <1>3, <1>7, <1>8, <2>3
  <2>6. Append(kept, c) \in Seq(A) /\ Range(Append(kept, c)) = Range(kept) \union {c}
    BY <1>8, RangeOfAppend
  <2> QED BY <1>3, <1>9, <1>10, <1>14, <2>4, <2>5, <2>6
<1>11. CASE first # {}
  <2>1. front[least] \in Range(b)
    <3> DEFINE k == checked + 1
    <3>1. k = least /\ k \in 1 .. n /\ k .. n # {} /\ n = Len(front)
      BY <1>2, <1>11, <1>13
    <3>2. Len(b) = n - k + 1 /\ b[1] = front[k] /\ 1 \in 1 .. Len(b)
      <4>1. \A i \in 1 .. n - k + 1 : b[i] = front[k + i - 1]
        BY <1>2, <3>1, SubSeqProperties
      <4>2. Len(b) = n - k + 1
        BY <1>2, <3>1, SubSeqProperties
      <4> HIDE DEF b, k
      <4> QED BY <1>2, <3>1, <4>1, <4>2
    <3>3. Range(b) = {b[i] : i \in 1 .. Len(b)}
      BY <1>6, RangeEquality
    <3> HIDE DEF b, k
    <3> QED BY <3>1, <3>2, <3>3
  <2> HIDE DEF kept, wanted, a, b, first, n
  <2>2. Range(kept) # {} /\ Range(kept) \subseteq Range(front)
    BY <1>7, <1>8, <2>1
  <2>3. FrontWith(front, c) = kept
    BY <1>1, <1>11
  <2> QED BY <1>8, <1>9, <1>11, <1>14, <2>2, <2>3
<1> QED BY <1>10, <1>11

(***************************************************************************)
(* One computation against the front, where dominating is an order: an     *)
(* antichain stays one, and covers what the old front covered, and the     *)
(* computation.                                                            *)
(***************************************************************************)
LEMMA FrontWithStays ==
    ASSUME NEW A, Order(A), NEW front \in Seq(A), NEW c \in A, Antichain(Range(front))
    PROVE  /\ Antichain(Range(FrontWith(front, c)))
           /\ Covers(Range(FrontWith(front, c)), Range(front) \union {c})
<1> DEFINE F == Range(front)
           G == Range(FrontWith(front, c))
<1>1. F \subseteq A
  BY RangeOfSeq
<1>2. /\ G \subseteq F \union {c}
      /\ \A y \in F : y \in G \/ Beats(c, y)
      /\ ~(\E x \in F : Beats(x, c)) => G = {x \in F : ~Beats(c, x)} \union {c}
      /\ (\E x \in F : Beats(x, c)) => G \subseteq F
  BY FrontWithRange
<1>3. Antichain(F)
  OBVIOUS
<1> HIDE DEF F, G
<1>4. CASE \E x \in F : Beats(x, c)
  <2>1. PICK x \in F : Beats(x, c)
    BY <1>4
  <2>2. \A y \in F : ~Beats(c, y)
    <3> SUFFICES ASSUME NEW y \in F, Beats(c, y) PROVE FALSE
      OBVIOUS
    <3>1. Beats(x, y)
      BY <1>1, <2>1 DEF Order
    <3> QED BY <1>3, <3>1 DEF Antichain
  <2>3. G = F
    BY <1>2, <1>4, <2>2
  <2>4. Covers(F, F \union {c})
    BY <2>1 DEF Covers
  <2> QED BY <1>3, <2>3, <2>4 DEF F, G
<1>5. CASE ~(\E x \in F : Beats(x, c))
  <2>1. G = {x \in F : ~Beats(c, x)} \union {c}
    BY <1>2, <1>5
  <2>2. Antichain(G)
    BY <1>1, <1>3, <1>5, <2>1 DEF Antichain, Order
  <2>3. Covers(G, F \union {c})
    BY <2>1 DEF Covers
  <2> QED BY <2>2, <2>3 DEF F, G
<1> QED BY <1>4, <1>5

\* Covering is transitive.
LEMMA CoversChain ==
    ASSUME NEW A, Order(A), NEW F \in SUBSET A, NEW G \in SUBSET A, NEW S \in SUBSET A,
           Covers(F, S), Covers(G, F)
    PROVE  Covers(G, S)
BY DEF Covers, Order

\* One pass of the sort, unfolded.
LEMMA FrontAfterRec ==
    ASSUME NEW A, NEW start \in Seq(A), NEW all \in Seq(A)
    PROVE  \E g \in [0 .. Len(all) -> Seq(A)] :
              /\ FrontAfter(start, all) = g[Len(all)]
              /\ g[0] = start
              /\ \A n \in 1 .. Len(all) : g[n] = FrontWith(g[n - 1], all[n])
<1> DEFINE N == Len(all)
           step == [n \in 1 .. N |-> [t \in Seq(A) |-> FrontWith(t, all[n])]]
           Rec(g) == g = [n \in 0 .. N |-> IF n = 0 THEN start ELSE FrontWith(g[n - 1], all[n])]
           f == CHOOSE g : Rec(g)
<1>0. N \in Nat /\ \A n \in 1 .. N : all[n] \in A
  OBVIOUS
<1>1. \A n \in 1 .. N : \A t \in Seq(A) : step[n][t] = FrontWith(t, all[n]) /\ step[n][t] \in Seq(A)
  BY <1>0, FrontWithRange
<1> HIDE DEF step, N, f
<1>2. PICK g : Follows(g, Seq(A), N, start, step)
  <2>1. StaysIn(Seq(A), N, step)
    BY <1>1 DEF StaysIn
  <2> QED BY <1>0, <2>1, RecursionExists
<1>3. /\ g \in [0 .. N -> Seq(A)]
      /\ g[0] = start
      /\ \A i \in 1 .. N : g[i] = step[i][g[i - 1]]
  BY <1>2 DEF Follows
<1>4. \A i \in 1 .. N : g[i] = FrontWith(g[i - 1], all[i])
  <2> TAKE i \in 1 .. N
  <2>1. g[i - 1] \in Seq(A)
    BY <1>0, <1>3
  <2> QED BY <1>1, <1>3, <2>1
<1>5. Rec(g)
  <2>1. g = [n \in 0 .. N |-> g[n]]
    BY <1>3
  <2>2. \A n \in 0 .. N : g[n] = IF n = 0 THEN start ELSE FrontWith(g[n - 1], all[n])
    <3> TAKE n \in 0 .. N
    <3>1. CASE n = 0
      BY <3>1, <1>3
    <3>2. CASE n # 0
      <4>1. n \in 1 .. N
        BY <1>0, <3>2
      <4> QED BY <4>1, <3>2, <1>4
    <3> QED BY <3>1, <3>2
  <2> QED BY <2>1, <2>2
<1>6. Rec(f)
  <2> HIDE DEF Rec
  <2> QED BY <1>5 DEF f
<1>7. FrontAfter(start, all) = f[N]
  BY Zenon DEF FrontAfter, N, f
<1>8. f[0] = start /\ \A i \in 1 .. N : f[i] = FrontWith(f[i - 1], all[i])
  <2>1. \A n \in 0 .. N : f[n] = IF n = 0 THEN start ELSE FrontWith(f[n - 1], all[n])
    BY Zenon, <1>6
  <2> QED BY <2>1, <1>0
<1>9. f[N] = g[N]
  <2> HIDE DEF Rec
  <2>0. StepsAgree(f, g, N)
    BY <1>3, <1>4, <1>8 DEF StepsAgree
  <2>1. \A i \in 0 .. N : f[i] = g[i]
    BY <1>0, <2>0, SameValues
  <2> QED BY <1>0, <2>1
<1> QED BY <1>3, <1>4, <1>7, <1>9 DEF N

(***************************************************************************)
(* A pass over all computations, whatever front of theirs it began with,   *)
(* leaves a front of theirs that is not empty and keeps all that nothing   *)
(* dominates.                                                              *)
(***************************************************************************)
LEMMA FrontAfterKeeps ==
    ASSUME NEW all, all \in Seq(Range(all)), all # <<>>, NEW start \in Seq(Range(all))
    PROVE  LET front == FrontAfter(start, all)
           IN  /\ front \in Seq(Range(all))
               /\ Range(front) # {}
               /\ Keeps(Range(front), Range(all), Range(all))
<1> DEFINE N == Len(all)
           A == Range(all)
<1>0. N \in Nat \ {0} /\ A = {all[n] : n \in 1 .. N} /\ \A n \in 1 .. N : all[n] \in A
  BY RangeEquality
<1>3. all \in Seq(A) /\ start \in Seq(A)
  OBVIOUS
<1> HIDE DEF A
<1>10. \E g \in [0 .. Len(all) -> Seq(A)] :
              /\ FrontAfter(start, all) = g[Len(all)]
              /\ g[0] = start
              /\ \A n \in 1 .. Len(all) : g[n] = FrontWith(g[n - 1], all[n])
  BY <1>3, FrontAfterRec, SMTT(40)
<1>1. PICK g \in [0 .. N -> Seq(A)] :
              /\ FrontAfter(start, all) = g[N]
              /\ g[0] = start
              /\ \A n \in 1 .. N : g[n] = FrontWith(g[n - 1], all[n])
  BY <1>10
<1> HIDE DEF N
<1>2. \A n \in 0 .. N : g[n] \in Seq(A)
  BY <1>1
<1> DEFINE Seen(n) == {all[m] : m \in 1 .. n}
           T == {n \in 0 .. N : /\ Keeps(Range(g[n]), A, Seen(n))
                                /\ n # 0 => Range(g[n]) # {}}
<1>4. 0 \in T
  <2>1. Seen(0) = {}
    OBVIOUS
  <2> HIDE DEF Seen
  <2> QED BY <1>0, <2>1 DEF Keeps
<1>5. ASSUME NEW k \in 0 .. N - 1, k \in T PROVE k + 1 \in T
  <2> DEFINE c == all[k + 1]
             F == Range(g[k])
             G == Range(g[k + 1])
  <2>1. k + 1 \in 1 .. N /\ k + 1 \in 0 .. N /\ (k + 1) - 1 = k /\ k \in 0 .. N /\ k \in Nat
    BY <1>0
  <2>2. g[k] \in Seq(A) /\ c \in A
    BY <1>0, <1>2, <2>1
  <2>3. g[k + 1] = FrontWith(g[k], c)
    BY <1>1, <2>1
  <2>4. Seen(k + 1) = Seen(k) \union {c}
    <3>1. \A m : m \in 1 .. k + 1 <=> m \in 1 .. k \/ m = k + 1
      BY <2>1
    <3> QED BY <3>1
  <2>5. Keeps(F, A, Seen(k)) /\ F \subseteq A
    BY <1>5, <2>2, RangeOfSeq
  <2>6. /\ G # {}
        /\ \A y \in F : y \in G \/ Beats(c, y)
        /\ c \in G \/ \E x \in F : Beats(x, c)
    <3> DEFINE H == Range(FrontWith(g[k], c))
    <3>1. /\ H # {}
          /\ \A y \in F : y \in H \/ Beats(c, y)
          /\ ~(\E x \in F : Beats(x, c)) => H = {x \in F : ~Beats(c, x)} \union {c}
      <4> DEFINE f == g[k]
      <4>1. f \in Seq(A) /\ c \in A
        BY <2>2
      <4> HIDE DEF c, f
      <4>2. LET E == Range(f)
                D == Range(FrontWith(f, c))
            IN  /\ D # {}
                /\ \A y \in E : y \in D \/ Beats(c, y)
                /\ ~(\E x \in E : Beats(x, c)) => D = {x \in E : ~Beats(c, x)} \union {c}
        BY <4>1, FrontWithRange
      <4> QED BY <4>2 DEF f
    <3>2. G = H
      BY <2>3
    <3> HIDE DEF F, G, H, c
    <3> QED BY <3>1, <3>2
  <2> HIDE DEF c, F, G, Seen
  <2>7. Keeps(G, A, Seen(k) \union {c})
    BY <2>2, <2>5, <2>6 DEF Keeps
  <2> QED BY <2>1, <2>4, <2>6, <2>7 DEF G
<1>6. N \in T
  <2> HIDE DEF T
  <2>1. \A k \in 0 .. N - 1 : k \in T => k + 1 \in T
    BY <1>5
  <2>2. \A k \in 0 .. N : k \in T
    BY <1>0, <1>4, <2>1, SetInduction
  <2> QED BY <1>0, <2>2
<1>7. Seen(N) = A
  BY <1>0
<1>8. FrontAfter(start, all) = g[N] /\ g[N] \in Seq(A)
  BY <1>0, <1>1, <1>2
<1> HIDE DEF Seen
<1> QED BY <1>0, <1>6, <1>7, <1>8 DEF A

(***************************************************************************)
(* Where dominating is an order, a pass that began with an antichain       *)
(* leaves the Pareto front.                                                *)
(***************************************************************************)
LEMMA FrontAfterPareto ==
    ASSUME NEW all, all \in Seq(Range(all)), Order(Range(all)),
           NEW start \in Seq(Range(all)), Antichain(Range(start))
    PROVE  LET front == FrontAfter(start, all)
           IN  /\ Antichain(Range(front))
               /\ Range(front) = Pareto(Range(all))
               /\ Covers(Range(front), Range(all))
<1> DEFINE N == Len(all)
           A == Range(all)
<1>0. N \in Nat /\ A = {all[n] : n \in 1 .. N} /\ Order(A)
      /\ \A n \in 1 .. N : all[n] \in A
  BY RangeEquality
<1>3. all \in Seq(A) /\ start \in Seq(A)
  OBVIOUS
<1> HIDE DEF A
<1>1. PICK g \in [0 .. N -> Seq(A)] :
              /\ FrontAfter(start, all) = g[N]
              /\ g[0] = start
              /\ \A n \in 1 .. N : g[n] = FrontWith(g[n - 1], all[n])
  BY <1>3, FrontAfterRec, SMTT(40)
<1> HIDE DEF N
<1>2. (\A n \in 0 .. N : g[n] \in Seq(A)) /\ Antichain(Range(g[0]))
  BY <1>1
<1> DEFINE Seen(n) == {all[m] : m \in 1 .. n}
           T == {n \in 0 .. N : Antichain(Range(g[n])) /\ Covers(Range(g[n]), Seen(n))}
<1>4. 0 \in T
  <2>1. Seen(0) = {}
    OBVIOUS
  <2> HIDE DEF Seen
  <2> QED BY <1>0, <1>2, <2>1 DEF Covers
<1>5. ASSUME NEW k \in 0 .. N - 1, k \in T PROVE k + 1 \in T
  <2> DEFINE c == all[k + 1]
             F == Range(g[k])
             G == Range(g[k + 1])
  <2>1. k + 1 \in 1 .. N /\ k + 1 \in 0 .. N /\ (k + 1) - 1 = k /\ k \in 0 .. N /\ k \in Nat
    BY <1>0
  <2>2. g[k] \in Seq(A) /\ g[k + 1] \in Seq(A) /\ c \in A
    BY <1>0, <1>2, <2>1
  <2>3. g[k + 1] = FrontWith(g[k], c)
    BY <1>1, <2>1
  <2>4. Seen(k + 1) = Seen(k) \union {c}
    <3>1. \A m : m \in 1 .. k + 1 <=> m \in 1 .. k \/ m = k + 1
      BY <2>1
    <3> QED BY <3>1
  <2>5. Antichain(F) /\ Covers(F, Seen(k))
    BY <1>5
  <2>6. Antichain(G) /\ Covers(G, F \union {c})
    BY <1>0, <2>2, <2>3, <2>5, FrontWithStays
  <2>7. F \subseteq A /\ G \subseteq A /\ Seen(k) \subseteq A
    <3>1. F \subseteq A /\ G \subseteq A
      BY <2>2, RangeOfSeq
    <3>2. \A m \in 1 .. k : m \in 1 .. N
      BY <1>0, <2>1
    <3> QED BY <1>0, <3>1, <3>2
  <2> HIDE DEF c, F, G, Seen
  <2>8. Covers(F \union {c}, Seen(k) \union {c})
    BY <2>5 DEF Covers
  <2>9. Covers(G, Seen(k) \union {c})
    BY <1>0, <2>2, <2>6, <2>7, <2>8, CoversChain
  <2> QED BY <2>1, <2>4, <2>6, <2>9 DEF G
<1>6. N \in T
  <2> HIDE DEF T
  <2>1. \A k \in 0 .. N - 1 : k \in T => k + 1 \in T
    BY <1>5
  <2>2. \A k \in 0 .. N : k \in T
    BY <1>0, <1>4, <2>1, SetInduction
  <2> QED BY <1>0, <2>2
<1> DEFINE front == FrontAfter(start, all)
           F == Range(front)
<1>7. F \subseteq A /\ Covers(F, A) /\ Antichain(F)
  <2>1. Seen(N) = A
    BY <1>0
  <2>2. front = g[N] /\ g[N] \in Seq(A)
    <3>1. N \in 0 .. N
      BY <1>0
    <3> QED BY <1>1, <1>2, <3>1, Zenon
  <2>3. F \subseteq A
    BY <2>2, RangeOfSeq
  <2> HIDE DEF Seen, front
  <2> QED BY <1>6, <2>1, <2>2, <2>3
<1> HIDE DEF front, F, T
<1>8. F = Pareto(A)
  <2>1. ASSUME NEW c \in F PROVE c \in Pareto(A)
    <3> SUFFICES ASSUME NEW d \in A, Beats(d, c) PROVE FALSE
      BY <1>7 DEF Pareto
    <3>1. CASE d \in F
      BY <1>7, <3>1 DEF Antichain
    <3>2. CASE d \notin F
      <4>1. PICK x \in F : Beats(x, d)
        BY <1>7, <3>2 DEF Covers
      <4>2. Beats(x, c)
        BY <1>0, <1>7, <4>1 DEF Order
      <4> QED BY <1>7, <4>2 DEF Antichain
    <3> QED BY <3>1, <3>2
  <2>2. ASSUME NEW c \in Pareto(A) PROVE c \in F
    BY <1>7 DEF Pareto, Covers
  <2> QED BY <2>1, <2>2
<1> QED BY <1>7, <1>8 DEF front, F, A

(***************************************************************************)
(* The state of nondominatedSort between two passes over the               *)
(* computations A.                                                         *)
(***************************************************************************)
Passes(A) == [front : Seq(A), assigned : Nat]

\* What a pass makes of it.
NextPass(all, p) ==
    LET front == FrontAfter(p.front, all)
    IN  [front |-> front, assigned |-> p.assigned + Len(front)]

\* The state before the first pass.
FirstPass == [front |-> <<>>, assigned |-> 0]

\* How many passes it takes.
Enough(all, pass) ==
    CHOOSE n \in 0 .. Len(all) : /\ pass[n].assigned >= Len(all)
                                 /\ \A m \in 0 .. n - 1 : pass[m].assigned < Len(all)

\* A pass assigns at least one more, and keeps all that nothing dominates.
LEMMA NextPassStays ==
    ASSUME NEW all, all \in Seq(Range(all)), all # <<>>, NEW p \in Passes(Range(all))
    PROVE  /\ NextPass(all, p) \in Passes(Range(all))
           /\ NextPass(all, p).assigned > p.assigned
           /\ NextPass(all, p).front = FrontAfter(p.front, all)
           /\ Keeps(Range(NextPass(all, p).front), Range(all), Range(all))
<1> DEFINE front == FrontAfter(p.front, all)
           A == Range(all)
<1>1. p.front \in Seq(A) /\ p.assigned \in Nat
  BY DEF Passes
<1>2. front \in Seq(A) /\ Range(front) # {} /\ Keeps(Range(front), A, A)
  BY <1>1, FrontAfterKeeps
<1>3. NextPass(all, p) = [front |-> front, assigned |-> p.assigned + Len(front)]
  BY DEF NextPass
<1> HIDE DEF front, A
<1>4. Len(front) \in Nat \ {0}
  <2>1. Range(front) = {front[n] : n \in 1 .. Len(front)} /\ Len(front) \in Nat
    BY <1>2, RangeEquality
  <2> QED BY <1>2, <2>1
<1> QED BY <1>1, <1>2, <1>3, <1>4 DEF Passes, A, front

\* The passes of the sort, unfolded.
LEMMA SortRec ==
    ASSUME NEW all, all \in Seq(Range(all))
    PROVE  \E g \in [0 .. Len(all) -> Passes(Range(all))] :
              /\ nondominatedSort(all) = g[Enough(all, g)].front
              /\ g[0] = FirstPass
              /\ \A n \in 1 .. Len(all) : g[n] = NextPass(all, g[n - 1])
<1> DEFINE N == Len(all)
           P == Passes(Range(all))
           step == [n \in 1 .. N |-> [p \in P |-> NextPass(all, p)]]
           Rec(g) == g = [n \in 0 .. N |->
                            IF n = 0 THEN [front |-> <<>>, assigned |-> 0]
                            ELSE LET last == g[n - 1]
                                     front == FrontAfter(last.front, all)
                                 IN  [front |-> front,
                                      assigned |-> last.assigned + Len(front)]]
           f == CHOOSE g : Rec(g)
<1>0. N \in Nat /\ FirstPass \in P
  <2>1. <<>> \in Seq(Range(all))
    OBVIOUS
  <2> QED BY <2>1 DEF FirstPass, Passes
<1>1. \A n \in 1 .. N : \A p \in P : step[n][p] = NextPass(all, p) /\ step[n][p] \in P
  <2>1. N >= 1 => all # <<>>
    OBVIOUS
  <2> QED BY <2>1, <1>0, NextPassStays
<1> HIDE DEF step, N, f, P
<1>2. PICK g : Follows(g, P, N, FirstPass, step)
  <2>1. StaysIn(P, N, step)
    BY <1>1 DEF StaysIn
  <2> QED BY <1>0, <2>1, RecursionExists
<1>3. /\ g \in [0 .. N -> P]
      /\ g[0] = FirstPass
      /\ \A i \in 1 .. N : g[i] = step[i][g[i - 1]]
  BY <1>2 DEF Follows
<1>4. \A i \in 1 .. N : g[i] = NextPass(all, g[i - 1])
  <2> TAKE i \in 1 .. N
  <2>1. g[i - 1] \in P
    BY <1>0, <1>3
  <2> QED BY <1>1, <1>3, <2>1
<1>5. Rec(g)
  <2>1. g = [n \in 0 .. N |-> g[n]]
    BY <1>3
  <2>2. \A n \in 0 .. N : g[n] = IF n = 0 THEN FirstPass ELSE NextPass(all, g[n - 1])
    <3> TAKE n \in 0 .. N
    <3>1. CASE n = 0
      BY <3>1, <1>3
    <3>2. CASE n # 0
      <4>1. n \in 1 .. N
        BY <1>0, <3>2
      <4> QED BY <4>1, <3>2, <1>4
    <3> QED BY <3>1, <3>2
  <2> QED BY <2>1, <2>2 DEF FirstPass, NextPass
<1>6. Rec(f)
  <2> HIDE DEF Rec
  <2> QED BY <1>5 DEF f
<1>7. nondominatedSort(all) = f[Enough(all, f)].front
  BY Zenon DEF nondominatedSort, Enough, N, f
<1>8. f[0] = FirstPass /\ \A i \in 1 .. N : f[i] = NextPass(all, f[i - 1])
  <2>1. \A n \in 0 .. N : f[n] = IF n = 0 THEN FirstPass ELSE NextPass(all, f[n - 1])
    BY Zenon, <1>6 DEF FirstPass, NextPass
  <2> QED BY <2>1, <1>0
<1>9. f = g
  <2>0. StepsAgree(f, g, N)
    <3> HIDE DEF Rec
    <3> QED BY <1>3, <1>4, <1>8 DEF StepsAgree
  <2>1. \A i \in 0 .. N : f[i] = g[i]
    <3> HIDE DEF Rec
    <3> QED BY <1>0, <2>0, SameValues
  <2>2. f = [n \in 0 .. N |-> f[n]]
    <3>1. f = [n \in 0 .. N |->
                            IF n = 0 THEN [front |-> <<>>, assigned |-> 0]
                            ELSE LET last == f[n - 1]
                                     front == FrontAfter(last.front, all)
                                 IN  [front |-> front,
                                      assigned |-> last.assigned + Len(front)]]
      BY <1>6, Zenon
    <3> QED BY <3>1, Zenon
  <2>3. g = [n \in 0 .. N |-> g[n]]
    BY <1>3
  <2> HIDE DEF Rec
  <2> QED BY <2>1, <2>2, <2>3
<1> QED BY <1>3, <1>4, <1>7, <1>9 DEF N, P

(***************************************************************************)
(* nondominatedSort comes to an end after at most as many passes as there  *)
(* are computations.  It returns only computations it was given, and of    *)
(* them all that nothing dominates; where dominating is an order, nothing  *)
(* else, and what it returns covers all of them.                           *)
(***************************************************************************)
LEMMA SortIsPareto ==
    ASSUME NEW all, all \in Seq(Range(all))
    PROVE  LET A == Range(all)
               F == Range(nondominatedSort(all))
           IN  /\ F \subseteq A
               /\ Pareto(A) \subseteq F
               /\ Order(A) => F = Pareto(A) /\ Covers(F, A)
<1> DEFINE N == Len(all)
<1>0. N \in Nat
  OBVIOUS
<1>1. PICK g \in [0 .. N -> Passes(Range(all))] :
              /\ nondominatedSort(all) = g[Enough(all, g)].front
              /\ g[0] = FirstPass
              /\ \A n \in 1 .. N : g[n] = NextPass(all, g[n - 1])
  BY SortRec
<1>2. \A n \in 0 .. N : g[n] \in Passes(Range(all)) /\ g[n].assigned \in Nat
  BY <1>1 DEF Passes
<1>3. CASE all = <<>>
  <2>1. N = 0
    BY <1>3
  <2>2. Enough(all, g) \in 0 .. 0
    <3>1. Len(all) = 0 /\ g[0].assigned = 0
      BY <1>1, <2>1 DEF FirstPass
    <3>2. \E n \in 0 .. Len(all) : /\ g[n].assigned >= Len(all)
                                   /\ \A m \in 0 .. n - 1 : g[m].assigned < Len(all)
      BY <3>1
    <3> QED BY <3>1, <3>2 DEF Enough
  <2>3. nondominatedSort(all) = <<>>
    BY <1>1, <2>2 DEF FirstPass
  <2>4. Range(<<>>) = {}
    BY DEF Range
  <2> QED BY <1>3, <2>3, <2>4 DEF Pareto, Covers
<1>4. CASE all # <<>>
  <2>0. N >= 1
    BY <1>4
  <2>1. \A n \in 1 .. N : /\ g[n].assigned > g[n - 1].assigned
                          /\ g[n].front = FrontAfter(g[n - 1].front, all)
                          /\ Keeps(Range(g[n].front), Range(all), Range(all))
    <3> TAKE n \in 1 .. N
    <3>1. g[n - 1] \in Passes(Range(all)) /\ g[n] = NextPass(all, g[n - 1])
      BY <1>0, <1>1, <1>2
    <3> QED BY <1>4, <3>1, NextPassStays
  <2> HIDE DEF N
  <2> DEFINE T == {n \in 0 .. N : g[n].assigned >= n}
  <2>2. 0 \in T
    BY <1>0, <1>1 DEF FirstPass
  <2>3. \A k \in 0 .. N - 1 : k \in T => k + 1 \in T
    <3> SUFFICES ASSUME NEW k \in 0 .. N - 1, k \in T PROVE k + 1 \in T
      OBVIOUS
    <3>1. k + 1 \in 1 .. N /\ k + 1 \in 0 .. N /\ (k + 1) - 1 = k /\ k \in 0 .. N
      BY <1>0
    <3>2. g[k + 1].assigned > g[k].assigned /\ g[k].assigned >= k
      BY <2>1, <3>1
    <3>3. g[k].assigned \in Nat /\ g[k + 1].assigned \in Nat
      BY <1>2, <3>1
    <3> QED BY <3>1, <3>2, <3>3
  <2> HIDE DEF T
  <2>4. \A k \in 0 .. N : k \in T
    BY <1>0, <2>2, <2>3, SetInduction
  <2>5. g[N].assigned >= N
    BY <1>0, <2>4 DEF T
  <2> DEFINE Ends == {n \in 0 .. N : g[n].assigned >= N}
             e == Enough(all, g)
  <2>6. e \in Ends
    <3>1. Ends # {} /\ Ends \subseteq Nat
      BY <1>0, <2>5
    <3>2. PICK n \in Ends : \A m \in Ends : n <= m
      BY <3>1, LeastNatural
    <3>3. \A m \in 0 .. n - 1 : g[m].assigned < N
      <4> TAKE m \in 0 .. n - 1
      <4>1. m \in 0 .. N /\ m < n /\ m \notin Ends
        BY <1>0, <3>2
      <4> QED BY <1>0, <1>2, <4>1
    <3>4. \E k \in 0 .. Len(all) : /\ g[k].assigned >= Len(all)
                                   /\ \A m \in 0 .. k - 1 : g[m].assigned < Len(all)
      BY <3>2, <3>3 DEF N
    <3> QED BY <3>4 DEF Enough, N
  <2>7. e \in 1 .. N
    <3> HIDE DEF e
    <3>1. g[0].assigned = 0
      BY <1>1 DEF FirstPass
    <3> QED BY <1>0, <2>0, <2>6, <3>1
  <2> HIDE DEF e, Ends
  <2>8. nondominatedSort(all) = g[e].front
    BY <1>1 DEF e
  <2>9. Range(g[e].front) \subseteq Range(all) /\ Keeps(Range(g[e].front), Range(all), Range(all))
    <3>1. g[e].front \in Seq(Range(all))
      BY <1>2, <2>6 DEF Passes, Ends
    <3> QED BY <2>1, <2>7, <3>1, RangeOfSeq
  <2>10. ASSUME Order(Range(all))
         PROVE  /\ Range(g[e].front) = Pareto(Range(all))
                /\ Covers(Range(g[e].front), Range(all))
    <3> DEFINE U == {n \in 0 .. N : /\ Antichain(Range(g[n].front))
                                    /\ n # 0 => /\ Range(g[n].front) = Pareto(Range(all))
                                                /\ Covers(Range(g[n].front), Range(all))}
    <3>1. 0 \in U
      <4>1. g[0].front = <<>>
        BY <1>1 DEF FirstPass
      <4>2. Range(<<>>) = {}
        BY DEF Range
      <4>3. Antichain({})
        BY DEF Antichain
      <4>4. Antichain(Range(g[0].front))
        BY <4>1, <4>2, <4>3
      <4> QED BY <1>0, <4>4
    <3>2. \A k \in 0 .. N - 1 : k \in U => k + 1 \in U
      <4> SUFFICES ASSUME NEW k \in 0 .. N - 1, k \in U PROVE k + 1 \in U
        OBVIOUS
      <4>1. k + 1 \in 1 .. N /\ k + 1 \in 0 .. N /\ (k + 1) - 1 = k /\ k \in 0 .. N
        BY <1>0
      <4>2. g[k + 1].front = FrontAfter(g[k].front, all) /\ g[k].front \in Seq(Range(all))
        BY <1>2, <2>1, <4>1 DEF Passes
      <4>3. /\ Antichain(Range(g[k + 1].front))
            /\ Range(g[k + 1].front) = Pareto(Range(all))
            /\ Covers(Range(g[k + 1].front), Range(all))
        BY <2>10, <4>2, FrontAfterPareto
      <4> QED BY <4>1, <4>3
    <3> HIDE DEF U
    <3>3. \A k \in 0 .. N : k \in U
      BY <1>0, <3>1, <3>2, SetInduction
    <3>4. e \in U /\ e # 0
      BY <1>0, <2>7, <3>3
    <3> QED BY <3>4 DEF U
  <2>11. Pareto(Range(all)) \subseteq Range(g[e].front)
    BY <2>9 DEF Keeps, Pareto
  <2> QED BY <2>8, <2>9, <2>10, <2>11
<1> QED BY <1>3, <1>4

(***************************************************************************)
(* One step of findExtreme: the better one of a computation and the best   *)
(* so far.                                                                 *)
(***************************************************************************)
Better(best, c, g) ==
    LET value(x) == Value(computations[x].goals, g)
    IN  IF best = Null \/ value(c) < value(best) THEN c ELSE best

\* findExtreme, unfolded.
LEMMA MinimumRec ==
    ASSUME NEW A, NEW all \in Seq(A), NEW goal
    PROVE  \E b \in [0 .. Len(all) -> A \union {Null}] :
              /\ findMinimum(all, goal) = b[Len(all)]
              /\ b[0] = Null
              /\ \A n \in 1 .. Len(all) : b[n] = Better(b[n - 1], all[n], goal)
<1> DEFINE N == Len(all)
           S == A \union {Null}
           step == [n \in 1 .. N |-> [t \in S |-> Better(t, all[n], goal)]]
           Rec(g) == g = [n \in 0 .. N |->
                IF n = 0 THEN Null
                ELSE LET last == g[n - 1]
                         value(c) == Value(computations[c].goals, goal)
                     IN  IF last = Null \/ value(all[n]) < value(last) THEN all[n] ELSE last]
           f == CHOOSE g : Rec(g)
<1>0. N \in Nat /\ (\A n \in 1 .. N : all[n] \in A) /\ Null \in S
  OBVIOUS
<1>1. \A n \in 1 .. N : \A t \in S : step[n][t] = Better(t, all[n], goal) /\ step[n][t] \in S
  BY <1>0 DEF Better
<1> HIDE DEF step, N, f, S
<1>2. PICK g : Follows(g, S, N, Null, step)
  <2>1. StaysIn(S, N, step)
    BY <1>1 DEF StaysIn
  <2> QED BY <1>0, <2>1, RecursionExists
<1>3. /\ g \in [0 .. N -> S]
      /\ g[0] = Null
      /\ \A i \in 1 .. N : g[i] = step[i][g[i - 1]]
  BY <1>2 DEF Follows
<1>4. \A i \in 1 .. N : g[i] = Better(g[i - 1], all[i], goal)
  <2> TAKE i \in 1 .. N
  <2>1. g[i - 1] \in S
    BY <1>0, <1>3
  <2> QED BY <1>1, <1>3, <2>1
<1>5. Rec(g)
  <2>1. g = [n \in 0 .. N |-> g[n]]
    BY <1>3
  <2>2. \A n \in 0 .. N : g[n] = IF n = 0 THEN Null ELSE Better(g[n - 1], all[n], goal)
    <3> TAKE n \in 0 .. N
    <3>1. CASE n = 0
      BY <3>1, <1>3
    <3>2. CASE n # 0
      <4>1. n \in 1 .. N
        BY <1>0, <3>2
      <4> QED BY <4>1, <3>2, <1>4
    <3> QED BY <3>1, <3>2
  <2> QED BY <2>1, <2>2 DEF Better
<1>6. Rec(f)
  <2> HIDE DEF Rec
  <2> QED BY <1>5 DEF f
<1>7. findMinimum(all, goal) = f[N]
  BY Zenon DEF findMinimum, N, f
<1>8. f[0] = Null /\ \A i \in 1 .. N : f[i] = Better(f[i - 1], all[i], goal)
  <2>1. \A n \in 0 .. N : f[n] = IF n = 0 THEN Null ELSE Better(f[n - 1], all[n], goal)
    BY Zenon, <1>6 DEF Better
  <2> QED BY <2>1, <1>0
<1>9. f[N] = g[N]
  <2> HIDE DEF Rec
  <2>0. StepsAgree(f, g, N)
    BY <1>3, <1>4, <1>8 DEF StepsAgree
  <2>1. \A i \in 0 .. N : f[i] = g[i]
    BY <1>0, <2>0, SameValues
  <2> QED BY <1>0, <2>1
<1> QED BY <1>3, <1>4, <1>7, <1>9 DEF N, S

\* It returns a computation with the smallest value.
LEMMA MinimumIsLeast ==
    ASSUME NEW A, NEW all \in Seq(A), all # <<>>, NEW goal, Null \notin A,
           \A c \in A : Value(computations[c].goals, goal) \in Int
    PROVE  /\ findMinimum(all, goal) \in Range(all)
           /\ \A c \in Range(all) :
                 Value(computations[findMinimum(all, goal)].goals, goal)
                     <= Value(computations[c].goals, goal)
<1> DEFINE N == Len(all)
           value(c) == Value(computations[c].goals, goal)
<1>0. N \in Nat /\ N >= 1 /\ \A n \in 1 .. N : all[n] \in A
  OBVIOUS
<1>10. \E b \in [0 .. Len(all) -> A \union {Null}] :
              /\ findMinimum(all, goal) = b[Len(all)]
              /\ b[0] = Null
              /\ \A n \in 1 .. Len(all) : b[n] = Better(b[n - 1], all[n], goal)
  BY MinimumRec, SMTT(40)
<1>1. PICK b \in [0 .. N -> A \union {Null}] :
              /\ findMinimum(all, goal) = b[N]
              /\ b[0] = Null
              /\ \A n \in 1 .. N : b[n] = Better(b[n - 1], all[n], goal)
  BY <1>10
<1>2. Range(all) = {all[n] : n \in 1 .. N}
  BY RangeEquality
<1> HIDE DEF N
<1> DEFINE Least(n) == n >= 1 => /\ b[n] \in A
                                 /\ \E m \in 1 .. n : b[n] = all[m]
                                 /\ \A m \in 1 .. n : value(b[n]) <= value(all[m])
           T == {n \in 0 .. N : Least(n)}
<1>3. 0 \in T
  BY <1>0
<1>4. \A k \in 0 .. N - 1 : k \in T => k + 1 \in T
  <2> SUFFICES ASSUME NEW k \in 0 .. N - 1, k \in T PROVE Least(k + 1) /\ k + 1 \in 0 .. N
    OBVIOUS
  <2>1. k + 1 \in 1 .. N /\ k + 1 \in 0 .. N /\ (k + 1) - 1 = k /\ k \in Nat /\ k + 1 \in 1 .. k + 1
    BY <1>0
  <2> DEFINE c == all[k + 1]
  <2>2. b[k + 1] = Better(b[k], c, goal) /\ c \in A
    BY <1>0, <1>1, <2>1
  <2>3. \A m \in 1 .. k + 1 : m \in 1 .. k \/ all[m] = c
    BY <2>1
  <2>4. \A m \in 1 .. k : all[m] \in A /\ m \in 1 .. k + 1
    BY <1>0, <2>1
  <2>5. \A x \in A : value(x) \in Int
    OBVIOUS
  <2> HIDE DEF value
  <2>6. b[k + 1] = IF b[k] = Null \/ value(c) < value(b[k]) THEN c ELSE b[k]
    BY <2>2 DEF Better, value
  <2>7. CASE k = 0
    <3>1. b[k + 1] = c
      BY <1>1, <2>6, <2>7
    <3>2. \A m \in 1 .. k + 1 : all[m] = c
      BY <2>3, <2>7
    <3>3. value(c) <= value(c)
      BY <2>2, <2>5
    <3> QED BY <2>1, <2>2, <3>1, <3>2, <3>3
  <2>8. CASE k # 0
    <3>1. /\ b[k] \in A
          /\ \E m \in 1 .. k : b[k] = all[m]
          /\ \A m \in 1 .. k : value(b[k]) <= value(all[m])
      BY <2>1, <2>8
    <3>2. value(c) \in Int /\ value(b[k]) \in Int /\ \A m \in 1 .. k : value(all[m]) \in Int
      BY <2>2, <2>4, <2>5, <3>1
    <3> HIDE DEF c
    <3>3. CASE value(c) < value(b[k])
      <4>1. b[k + 1] = c
        BY <2>6, <3>3
      <4>2. ASSUME NEW m \in 1 .. k
            PROVE  value(c) <= value(all[m])
        <5>1. value(b[k]) <= value(all[m]) /\ value(all[m]) \in Int
          BY <3>1, <3>2
        <5> QED BY <3>2, <3>3, <5>1
      <4>3. \A m \in 1 .. k + 1 : value(c) <= value(all[m])
        BY <2>3, <3>2, <4>2
      <4> QED BY <2>1, <2>2, <4>1, <4>3 DEF c
    <3>4. CASE ~(value(c) < value(b[k]))
      <4>1. b[k + 1] = b[k]
        BY <2>6, <3>1, <3>4
      <4>2. ASSUME NEW m \in 1 .. k + 1
            PROVE  value(b[k]) <= value(all[m])
        <5>1. CASE m \in 1 .. k
          BY <3>1, <5>1
        <5>2. CASE all[m] = c
          BY <3>2, <3>4, <5>2
        <5> QED BY <2>3, <5>1, <5>2
      <4>3. \E m \in 1 .. k + 1 : b[k] = all[m]
        BY <2>4, <3>1
      <4> QED BY <2>1, <3>1, <4>1, <4>2, <4>3
    <3> QED BY <3>3, <3>4
  <2> QED BY <2>7, <2>8, <2>1
<1> HIDE DEF T
<1>5. \A k \in 0 .. N : k \in T
  BY <1>0, <1>3, <1>4, SetInduction
<1>6. N \in T
  BY <1>0, <1>5
<1>7. Least(N)
  BY <1>6 DEF T
<1> QED BY <1>0, <1>1, <1>2, <1>7

(***************************************************************************)
(* nondominatedSort returns, of what a study lists, all that no other one  *)
(* dominates, even when goal functions failed and value() is 0 in their    *)
(* place.  It returns nothing else where dominating is an order, which it  *)
(* is on results of the same goals; then the smallest value of a goal that *)
(* findExtreme finds is the value of a member of the front.  All this in   *)
(* every state and for any number of computations and goals.               *)
(***************************************************************************)
THEOREM SpecFrontIsPareto == Spec => []FrontIsPareto
<1>1. IInv /\ DoneInv /\ ListedIsEvaluated => FrontIsPareto
  <2> SUFFICES ASSUME IInv, DoneInv, ListedIsEvaluated, NEW s \in DOMAIN studies
               PROVE  LET all == Listed(studies[s].sets)
                          front == Range(nondominatedSort(all))
                          pareto == ParetoFront(all)
                          value(c, g) == Value(computations[c].goals, g)
                      IN  /\ pareto \subseteq front
                          /\ front \subseteq Range(all)
                          /\ Comparable(all) \/ Ordered(all) => front = pareto
                          /\ Comparable(all) =>
                                \A m \in Range(all) : \A g \in DOMAIN computations[m].goals :
                                    \E c \in front : value(c, g) = value(findMinimum(all, g), g)
    BY DEF FrontIsPareto
  <2> DEFINE all == Listed(studies[s].sets)
             A == Range(all)
             front == Range(nondominatedSort(all))
             value(c, g) == Value(computations[c].goals, g)
  <2>1. all \in Seq(A) /\ A \subseteq Created
    <3>1. all \in Seq(Done)
      BY DoneFacts
    <3> HIDE DEF all
    <3>2. A \subseteq Done
      BY <3>1, RangeOfSeq
    <3>3. \A i \in 1 .. Len(all) : all[i] \in A
      <4>1. A = {all[i] : i \in 1 .. Len(all)}
        BY <3>1, RangeEquality
      <4> QED BY <4>1
    <3>4. all \in Seq(A)
      BY <3>1, <3>3
    <3> QED BY <3>2, <3>4 DEF Done
  <2> HIDE DEF all
  <2>2. /\ front \subseteq A
        /\ Pareto(A) \subseteq front
        /\ Order(A) => front = Pareto(A) /\ Covers(front, A)
    BY <2>1, SortIsPareto
  <2> HIDE DEF front
  <2>3. Pareto(A) = ParetoFront(all)
    BY DEF Pareto, ParetoFront, Beats
  <2>4. Ordered(all) => Order(A)
    <3>1. \A x \in A : ~Beats(x, x)
      BY <2>1, BeatsItself
    <3>2. Ordered(all) => \A x, y, z \in A : Beats(x, y) /\ Beats(y, z) => Beats(x, z)
      BY DEF Ordered, Beats
    <3> QED BY <3>1, <3>2 DEF Order
  <2>5. Comparable(all) => Order(A)
    <3> SUFFICES ASSUME Comparable(all) PROVE Order(A)
      OBVIOUS
    <3>1. \A c, d \in A : DOMAIN computations[c].goals = DOMAIN computations[d].goals
      BY DEF Comparable
    <3> HIDE DEF A
    <3> QED BY <2>1, <3>1, BeatsOrder
  <2>6. ASSUME Comparable(all), NEW k \in A, NEW g \in DOMAIN computations[k].goals
        PROVE  \E c \in front : value(c, g) = value(findMinimum(all, g), g)
    <3> DEFINE m == findMinimum(all, g)
    <3>1. all # <<>>
      <4>1. Range(<<>>) = {}
        BY DEF Range
      <4> QED BY <2>6, <4>1
    <3>2. \A c \in A : c # Null /\ value(c, g) \in Int
      BY <2>1, GoalValues
    <3>3. m \in A /\ \A c \in A : value(m, g) <= value(c, g)
      <4> HIDE DEF A
      <4>1. /\ m \in Range(all)
            /\ \A c \in Range(all) : value(m, g) <= value(c, g)
        BY <2>1, <3>1, <3>2, MinimumIsLeast
      <4> QED BY <4>1 DEF A
    <3>4. \A c \in A : g \in DOMAIN computations[c].goals
      BY <2>6 DEF Comparable
    <3>5. Covers(front, A)
      BY <2>2, <2>5, <2>6
    <3> HIDE DEF m, A
    <3>6. CASE m \in front
      BY <3>6 DEF m
    <3>7. CASE m \notin front
      <4>1. PICK x \in front : Beats(x, m)
        BY <3>3, <3>5, <3>7 DEF Covers
      <4>2. x \in A /\ value(m, g) <= value(x, g)
        BY <2>2, <3>3
      <4>3. value(x, g) <= value(m, g)
        BY <3>4, <4>1, <4>2 DEF Beats, dominateComputations, Value
      <4>4. value(x, g) = value(m, g)
        <5>1. value(x, g) \in Int /\ value(m, g) \in Int
          BY <3>2, <3>3, <4>2
        <5> HIDE DEF value
        <5> QED BY <4>2, <4>3, <5>1
      <4> QED BY <4>4 DEF m
    <3> QED BY <3>6, <3>7
  <2>7. Comparable(all) \/ Ordered(all) => front = ParetoFront(all)
    BY <2>2, <2>3, <2>4, <2>5
  <2> QED BY <2>2, <2>3, <2>6, <2>7 DEF all, front
<1> QED BY <1>1, SpecIInv, SpecDoneInv, SpecListedIsEvaluated, PTL
=============================================================================
