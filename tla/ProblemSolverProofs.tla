------------------------ MODULE ProblemSolverProofs ------------------------
(***************************************************************************)
(* Proofs about the solving of coupled fields, for any problems, lengths   *)
(* of steps, total time, caches: what the store holds while the fields are *)
(* solved one after the other (IInv), which of it a field is given as a    *)
(* source (SourcesInv), that the time axis and the stored solutions agree  *)
(* (AxisInv), that the formula is given the last lengths of the axis       *)
(* (HistoryInv), where the axis ends (EndsInv), and which problems never   *)
(* meet a failing assert (Running).  First about the formulas themselves:  *)
(* they differentiate, whatever lengths they are given.                    *)
(***************************************************************************)
EXTENDS ProblemSolver, FiniteInduction

-----------------------------------------------------------------------------
(* The formulas of BDFTable differentiate, for all lengths of the steps:   *)
(* the polynomial through the values they use has, at the newest time, the *)
(* derivative they compute (agros-library/solver/bdf2.cpp:41-71).  First   *)
(* with the products of IsDerivative written out, x, y and z being the     *)
(* ages of the values, then IsDerivative itself.                           *)

\* Lengths of steps.
Positive == Nat \ {0}

\* The first formula is the backward difference, exact for straight lines.
THEOREM FirstOrderIsDerivative ==
    ASSUME NEW a \in Positive
    PROVE  /\ FirstOrder[2].num * a = - FirstOrder[2].den * a
           /\ FirstOrder[1].num * a = FirstOrder[1].den * a
  BY DEF FirstOrder, Fraction, Positive

\* The second formula differentiates the parabola through the last three
\* values, whatever the two lengths are.
THEOREM SecondOrderIsDerivative ==
    ASSUME NEW a \in Positive, NEW b \in Positive,
           NEW x, x = a,
           NEW y, y = a + b
    PROVE  LET t == SecondOrder(a, b)
           IN  /\ t[2].num * x * (y - x) = - t[2].den * a * y
               /\ t[3].num * y * (x - y) = - t[3].den * a * x
               /\ t[1].num * (x * y) = t[1].den * a * (x + y)
  BY SMTT(30) DEF SecondOrder, Fraction, Positive

\* The third formula differentiates the cubic through the last four values,
\* whatever the three lengths are.
THEOREM ThirdOrderIsDerivative ==
    ASSUME NEW a \in Positive, NEW b \in Positive, NEW c \in Positive,
           NEW x, x = a,
           NEW y, y = a + b,
           NEW z, z = a + b + c
    PROVE  LET t == ThirdOrder(a, b, c)
           IN  /\ t[2].num * x * ((y - x) * (z - x)) = - t[2].den * a * (y * z)
               /\ t[3].num * y * ((x - y) * (z - y)) = - t[3].den * a * (x * z)
               /\ t[4].num * z * ((x - z) * (y - z)) = - t[4].den * a * (x * y)
               /\ t[1].num * (x * y * z) = t[1].den * a * (y * z + x * z + x * y)
  BY SMTT(60) DEF ThirdOrder, Fraction, Positive

\* No denominator of a table is zero, so that every coefficient is a number.
THEOREM DenominatorsArePositive ==
    ASSUME NEW a \in Positive, NEW b \in Positive, NEW c \in Positive
    PROVE  /\ \A i \in 1..2 : FirstOrder[i].den > 0
           /\ \A i \in 1..3 : SecondOrder(a, b)[i].den > 0
           /\ \A i \in 1..4 : ThirdOrder(a, b, c)[i].den > 0
<1>1. /\ a + b > 0 /\ b + c > 0 /\ a * a > 0 /\ b * b > 0 /\ c * c > 0
      /\ a * b > 0 /\ a * c > 0 /\ b * c > 0
  BY SMT DEF Positive
<1>2. /\ b * (a + b) > 0
      /\ b * (b + c) > 0
      /\ b * c * (a + b) > 0
  BY <1>1, SMT DEF Positive
<1>3. /\ a*c + 2*a*b + b*c + b*b + a*a > 0
      /\ a*b + a*c + 2*b*c + c*c + b*b > 0
  BY <1>1, SMT DEF Positive
<1>4. c*(a*b + a*c + 2*b*c + c*c + b*b) > 0
  <2> DEFINE s == a*b + a*c + 2*b*c + c*c + b*b
  <2>1. s \in Int /\ s > 0
    BY <1>3 DEF Positive
  <2> HIDE DEF s
  <2>2. c * s > 0
    BY <2>1, SMT DEF Positive
  <2> QED
    BY <2>2 DEF s
<1>5. \A i \in 1..2 : FirstOrder[i].den > 0
  BY DEF FirstOrder, Fraction
<1>6. \A i \in 1..3 : SecondOrder(a, b)[i].den > 0
  BY <1>1, <1>2, SMT DEF SecondOrder, Fraction, Positive
<1>7. \A i \in 1..4 : ThirdOrder(a, b, c)[i].den > 0
  BY <1>2, <1>3, <1>4, SMT DEF ThirdOrder, Fraction, Positive
<1> QED
  BY <1>5, <1>6, <1>7

\* SumOf is the function that takes one term after the other.
LEMMA SumOfFollows ==
    ASSUME NEW s \in Seq(Int)
    PROVE  \E g : /\ g \in [0 .. Len(s) -> Int]
                  /\ g[0] = 0
                  /\ \A i \in 1 .. Len(s) : g[i] = g[i - 1] + s[i]
                  /\ SumOf(s) = g[Len(s)]
<1> DEFINE N == Len(s)
           step == [i \in 1 .. N |-> [x \in Int |-> x + s[i]]]
           Rec(g) == g = [n \in 0 .. N |-> IF n = 0 THEN 0 ELSE g[n - 1] + s[n]]
           f == CHOOSE g : Rec(g)
<1>1. N \in Nat /\ \A i \in 1 .. N : s[i] \in Int
  OBVIOUS
<1>2. StaysIn(Int, N, step)
  BY <1>1 DEF StaysIn
<1> HIDE DEF step
<1>3. PICK g : Follows(g, Int, N, 0, step)
  <2> DEFINE zero == 0
  <2>1. zero \in Int
    OBVIOUS
  <2> HIDE DEF N, zero
  <2>2. \E g : Follows(g, Int, N, zero, step)
    BY <1>1, <1>2, <2>1, RecursionExists
  <2> QED BY <2>2 DEF zero
<1>4. /\ g \in [0 .. N -> Int] /\ g[0] = 0
      /\ \A i \in 1 .. N : g[i] = g[i - 1] + s[i]
  <2>1. g \in [0 .. N -> Int] /\ g[0] = 0 /\ \A i \in 1 .. N : g[i] = step[i][g[i - 1]]
    BY <1>3 DEF Follows
  <2>2. ASSUME NEW i \in 1 .. N PROVE g[i] = g[i - 1] + s[i]
    <3>0. i - 1 \in 0 .. N
      BY <1>1
    <3>1. g[i - 1] \in Int
      BY <2>1, <3>0
    <3> QED BY <2>1, <3>1 DEF step
  <2> QED BY <2>1, <2>2
<1>5. Rec(g)
  <2> DEFINE h == [n \in 0 .. N |-> IF n = 0 THEN 0 ELSE g[n - 1] + s[n]]
  <2>1. ASSUME NEW n \in 0 .. N PROVE g[n] = h[n]
    <3>1. CASE n = 0
      BY <1>4, <3>1
    <3>2. CASE n # 0
      <4>1. n \in 1 .. N
        BY <3>2
      <4> QED BY <1>4, <3>2, <4>1
    <3> QED BY <3>1, <3>2
  <2>2. DOMAIN g = 0 .. N /\ g = [n \in 0 .. N |-> g[n]]
    BY <1>4
  <2> QED BY <2>1, <2>2
<1>6. Rec(f)
  <2> HIDE DEF Rec
  <2> QED BY <1>5
<1>7. SumOf(s) = f[N]
  BY Zenon DEF SumOf, N, f, Rec
<1>8. \A n \in 0 .. N : f[n] = IF n = 0 THEN 0 ELSE f[n - 1] + s[n]
  <2> HIDE DEF f
  <2> QED BY <1>6
<1> HIDE DEF f, Rec
<1>9. StepsAgree(f, g, N)
  <2>1. f[0] = g[0]
    BY <1>1, <1>4, <1>8
  <2>2. ASSUME NEW i \in 1 .. N, f[i - 1] = g[i - 1] PROVE f[i] = g[i]
    <3>1. i \in 0 .. N /\ i # 0
      BY <1>1
    <3> QED BY <1>4, <1>8, <2>2, <3>1
  <2> QED BY <2>1, <2>2 DEF StepsAgree
<1>10. f[N] = g[N]
  <2>1. N \in 0 .. N
    BY <1>1
  <2> HIDE DEF N
  <2> QED BY <1>1, <1>9, <2>1, SameValues
<1> QED BY <1>4, <1>7, <1>10

\* ProductOf is the function that takes one factor after the other.
LEMMA ProductOfFollows ==
    ASSUME NEW s \in Seq(Int)
    PROVE  \E g : /\ g \in [0 .. Len(s) -> Int]
                  /\ g[0] = 1
                  /\ \A i \in 1 .. Len(s) : g[i] = g[i - 1] * s[i]
                  /\ ProductOf(s) = g[Len(s)]
<1> DEFINE N == Len(s)
           step == [i \in 1 .. N |-> [x \in Int |-> x * s[i]]]
           Rec(g) == g = [n \in 0 .. N |-> IF n = 0 THEN 1 ELSE g[n - 1] * s[n]]
           f == CHOOSE g : Rec(g)
<1>1. N \in Nat /\ \A i \in 1 .. N : s[i] \in Int
  OBVIOUS
<1>2. StaysIn(Int, N, step)
  BY <1>1 DEF StaysIn
<1> HIDE DEF step
<1>3. PICK g : Follows(g, Int, N, 1, step)
  <2> DEFINE one == 1
  <2>1. one \in Int
    OBVIOUS
  <2> HIDE DEF N, one
  <2>2. \E g : Follows(g, Int, N, one, step)
    BY <1>1, <1>2, <2>1, RecursionExists
  <2> QED BY <2>2 DEF one
<1>4. /\ g \in [0 .. N -> Int] /\ g[0] = 1
      /\ \A i \in 1 .. N : g[i] = g[i - 1] * s[i]
  <2>1. g \in [0 .. N -> Int] /\ g[0] = 1 /\ \A i \in 1 .. N : g[i] = step[i][g[i - 1]]
    BY <1>3 DEF Follows
  <2>2. ASSUME NEW i \in 1 .. N PROVE g[i] = g[i - 1] * s[i]
    <3>0. i - 1 \in 0 .. N
      BY <1>1
    <3>1. g[i - 1] \in Int
      BY <2>1, <3>0
    <3> QED BY <2>1, <3>1 DEF step
  <2> QED BY <2>1, <2>2
<1>5. Rec(g)
  <2> DEFINE h == [n \in 0 .. N |-> IF n = 0 THEN 1 ELSE g[n - 1] * s[n]]
  <2>1. ASSUME NEW n \in 0 .. N PROVE g[n] = h[n]
    <3>1. CASE n = 0
      BY <1>4, <3>1
    <3>2. CASE n # 0
      <4>1. n \in 1 .. N
        BY <3>2
      <4> QED BY <1>4, <3>2, <4>1
    <3> QED BY <3>1, <3>2
  <2>2. DOMAIN g = 0 .. N /\ g = [n \in 0 .. N |-> g[n]]
    BY <1>4
  <2> QED BY <2>1, <2>2
<1>6. Rec(f)
  <2> HIDE DEF Rec
  <2> QED BY <1>5
<1>7. ProductOf(s) = f[N]
  BY Zenon DEF ProductOf, N, f, Rec
<1>8. \A n \in 0 .. N : f[n] = IF n = 0 THEN 1 ELSE f[n - 1] * s[n]
  <2> HIDE DEF f
  <2> QED BY <1>6
<1> HIDE DEF f, Rec
<1>9. StepsAgree(f, g, N)
  <2>1. f[0] = g[0]
    BY <1>1, <1>4, <1>8
  <2>2. ASSUME NEW i \in 1 .. N, f[i - 1] = g[i - 1] PROVE f[i] = g[i]
    <3>1. i \in 0 .. N /\ i # 0
      BY <1>1
    <3> QED BY <1>4, <1>8, <2>2, <3>1
  <2> QED BY <2>1, <2>2 DEF StepsAgree
<1>10. f[N] = g[N]
  <2>1. N \in 0 .. N
    BY <1>1
  <2> HIDE DEF N
  <2> QED BY <1>1, <1>9, <2>1, SameValues
<1> QED BY <1>4, <1>7, <1>10

LEMMA SumOfFew ==
    ASSUME NEW s \in Seq(Int)
    PROVE  /\ SumOf(s) \in Int
           /\ Len(s) = 0 => SumOf(s) = 0
           /\ Len(s) = 1 => SumOf(s) = s[1]
           /\ Len(s) = 2 => SumOf(s) = s[1] + s[2]
           /\ Len(s) = 3 => SumOf(s) = s[1] + s[2] + s[3]
<1>1. PICK g : /\ g \in [0 .. Len(s) -> Int]
               /\ g[0] = 0
               /\ \A i \in 1 .. Len(s) : g[i] = g[i - 1] + s[i]
               /\ SumOf(s) = g[Len(s)]
  BY SumOfFollows, Zenon
<1>2. SumOf(s) \in Int
  BY <1>1
<1>3. Len(s) >= 1 => g[1] = s[1]
  BY <1>1
<1>4. Len(s) >= 2 => g[2] = s[1] + s[2]
  BY <1>1, <1>3
<1>5. Len(s) >= 3 => g[3] = s[1] + s[2] + s[3]
  BY <1>1, <1>4
<1>6. Len(s) = 0 => SumOf(s) = 0
  BY <1>1
<1>7. Len(s) = 1 => SumOf(s) = s[1]
  BY <1>1, <1>3
<1>8. Len(s) = 2 => SumOf(s) = s[1] + s[2]
  BY <1>1, <1>4
<1>9. Len(s) = 3 => SumOf(s) = s[1] + s[2] + s[3]
  BY <1>1, <1>5
<1> QED BY <1>2, <1>6, <1>7, <1>8, <1>9

LEMMA ProductOfFew ==
    ASSUME NEW s \in Seq(Int)
    PROVE  /\ Len(s) = 1 => ProductOf(s) = s[1]
           /\ Len(s) = 2 => ProductOf(s) = s[1] * s[2]
           /\ Len(s) = 3 => ProductOf(s) = s[1] * s[2] * s[3]
<1>1. PICK g : /\ g \in [0 .. Len(s) -> Int]
               /\ g[0] = 1
               /\ \A i \in 1 .. Len(s) : g[i] = g[i - 1] * s[i]
               /\ ProductOf(s) = g[Len(s)]
  BY ProductOfFollows, Zenon
<1>2. Len(s) >= 1 => g[1] = s[1]
  <2>1. Len(s) >= 1 => s[1] \in Int /\ g[1] = g[0] * s[1]
    BY <1>1
  <2> QED BY <1>1, <2>1
<1>3. Len(s) >= 2 => g[2] = s[1] * s[2]
  <2>1. Len(s) >= 2 => g[2] = g[1] * s[2]
    BY <1>1
  <2> QED BY <1>2, <2>1
<1>4. Len(s) >= 3 => g[3] = s[1] * s[2] * s[3]
  <2>1. Len(s) >= 3 => g[3] = g[2] * s[3]
    BY <1>1
  <2> QED BY <1>3, <2>1
<1>5. Len(s) = 1 => ProductOf(s) = s[1]
  BY <1>1, <1>2
<1>6. Len(s) = 2 => ProductOf(s) = s[1] * s[2]
  BY <1>1, <1>3
<1>7. Len(s) = 3 => ProductOf(s) = s[1] * s[2] * s[3]
  BY <1>1, <1>4
<1> QED BY <1>5, <1>6, <1>7

LEMMA SumOfAppend ==
    ASSUME NEW s \in Seq(Int), NEW x \in Int
    PROVE  SumOf(Append(s, x)) = SumOf(s) + x
<1> DEFINE t == Append(s, x)
           N == Len(s)
<1>1. t \in Seq(Int) /\ Len(t) = N + 1 /\ N \in Nat /\ t[N + 1] = x
      /\ \A i \in 1 .. N : t[i] = s[i]
  BY AppendProperties
<1> HIDE DEF t
<1>2. PICK g : /\ g \in [0 .. Len(s) -> Int]
               /\ g[0] = 0
               /\ \A i \in 1 .. Len(s) : g[i] = g[i - 1] + s[i]
               /\ SumOf(s) = g[Len(s)]
  BY SumOfFollows, Zenon
<1>3. PICK h : /\ h \in [0 .. Len(t) -> Int]
               /\ h[0] = 0
               /\ \A i \in 1 .. Len(t) : h[i] = h[i - 1] + t[i]
               /\ SumOf(t) = h[Len(t)]
  BY <1>1, SumOfFollows, Zenon
<1>4. StepsAgree(h, g, N)
  BY <1>1, <1>2, <1>3 DEF StepsAgree
<1>5. h[N] = g[N]
  <2>1. N \in 0 .. N
    BY <1>1
  <2> HIDE DEF N
  <2> QED BY <1>1, <1>4, <2>1, SameValues
<1>6. h[N + 1] = h[N] + x
  <2>1. N + 1 \in 1 .. Len(t) /\ (N + 1) - 1 = N
    BY <1>1
  <2>2. h[N + 1] = h[(N + 1) - 1] + t[N + 1]
    BY <1>3, <2>1
  <2> QED BY <1>1, <2>1, <2>2
<1> QED BY <1>1, <1>2, <1>3, <1>5, <1>6 DEF t

\* What the two products of IsDerivative range over.
LEMMA FactorsAreSequences ==
    ASSUME NEW ages \in Seq(Int), NEW i \in 1 .. Len(ages)
    PROVE  /\ Others(i, ages) \in Seq(Int) /\ Len(Others(i, ages)) = Len(ages)
           /\ Distances(i, ages) \in Seq(Int) /\ Len(Distances(i, ages)) = Len(ages)
           /\ \A j \in 1 .. Len(ages) :
                 /\ Others(i, ages)[j] = IF j = i THEN 1 ELSE ages[j]
                 /\ Distances(i, ages)[j] = IF j = i THEN 1 ELSE ages[j] - ages[i]
<1> DEFINE n == Len(ages)
           o == Others(i, ages)
           d == Distances(i, ages)
<1>1. n \in Nat /\ \A j \in 1 .. n : ages[j] \in Int
  OBVIOUS
<1>2. o \in [1 .. n -> Int] /\ d \in [1 .. n -> Int]
      /\ \A j \in 1 .. n : /\ o[j] = IF j = i THEN 1 ELSE ages[j]
                           /\ d[j] = IF j = i THEN 1 ELSE ages[j] - ages[i]
  BY <1>1 DEF Others, Distances
<1> HIDE DEF n, o, d
<1>3. o \in Seq(Int) /\ Len(o) = n /\ d \in Seq(Int) /\ Len(d) = n
  BY <1>1, <1>2, FunctionIsSequence
<1> QED BY <1>2, <1>3 DEF n, o, d

\* The two products for two and for three values.
LEMMA ProductsOfFew ==
    ASSUME NEW ages \in Seq(Int), NEW i \in 1 .. Len(ages)
    PROVE  LET o(j) == IF j = i THEN 1 ELSE ages[j]
               d(j) == IF j = i THEN 1 ELSE ages[j] - ages[i]
           IN  /\ Len(ages) = 2 => /\ ProductOf(Others(i, ages)) = o(1) * o(2)
                                   /\ ProductOf(Distances(i, ages)) = d(1) * d(2)
               /\ Len(ages) = 3 => /\ ProductOf(Others(i, ages)) = o(1) * o(2) * o(3)
                                   /\ ProductOf(Distances(i, ages)) = d(1) * d(2) * d(3)
<1> DEFINE o == Others(i, ages)
           d == Distances(i, ages)
<1>1. /\ o \in Seq(Int) /\ Len(o) = Len(ages) /\ d \in Seq(Int) /\ Len(d) = Len(ages)
      /\ \A j \in 1 .. Len(ages) : /\ o[j] = IF j = i THEN 1 ELSE ages[j]
                                   /\ d[j] = IF j = i THEN 1 ELSE ages[j] - ages[i]
  BY FactorsAreSequences
<1> HIDE DEF o, d
<1>2. /\ Len(ages) = 2 => ProductOf(o) = o[1] * o[2] /\ ProductOf(d) = d[1] * d[2]
      /\ Len(ages) = 3 => /\ ProductOf(o) = o[1] * o[2] * o[3]
                          /\ ProductOf(d) = d[1] * d[2] * d[3]
  BY <1>1, ProductOfFew
<1>3. Len(ages) = 2 => 1 \in 1 .. Len(ages) /\ 2 \in 1 .. Len(ages)
  OBVIOUS
<1>4. Len(ages) = 3 => 1 \in 1 .. Len(ages) /\ 2 \in 1 .. Len(ages) /\ 3 \in 1 .. Len(ages)
  OBVIOUS
<1>5. ASSUME Len(ages) = 2
      PROVE  /\ ProductOf(o) = (IF 1 = i THEN 1 ELSE ages[1]) * (IF 2 = i THEN 1 ELSE ages[2])
             /\ ProductOf(d) = (IF 1 = i THEN 1 ELSE ages[1] - ages[i])
                                 * (IF 2 = i THEN 1 ELSE ages[2] - ages[i])
  BY <1>1, <1>2, <1>3, <1>5, Zenon
<1>6. ASSUME Len(ages) = 3
      PROVE  /\ ProductOf(o) = (IF 1 = i THEN 1 ELSE ages[1]) * (IF 2 = i THEN 1 ELSE ages[2])
                                 * (IF 3 = i THEN 1 ELSE ages[3])
             /\ ProductOf(d) = (IF 1 = i THEN 1 ELSE ages[1] - ages[i])
                                 * (IF 2 = i THEN 1 ELSE ages[2] - ages[i])
                                 * (IF 3 = i THEN 1 ELSE ages[3] - ages[i])
  BY <1>1, <1>2, <1>4, <1>6, Zenon
<1> QED BY <1>5, <1>6 DEF o, d

\* The first formula differentiates the line through the last two values.
THEOREM FirstFormulaIsExact ==
    ASSUME NEW ages \in Seq(Int), Len(ages) = 1, ages[1] \in Positive
    PROVE  IsDerivative(FirstOrder, ages)
<1> DEFINE x == ages[1]
           s == [i \in 1 .. Len(ages) |-> ProductOf(Others(i, ages))]
<1>1. ProductOf(Distances(1, ages)) = 1 /\ ProductOf(Others(1, ages)) = 1
  BY FactorsAreSequences, ProductOfFew
<1>2. ProductOf(ages) = x
  BY ProductOfFew
<1>3. s \in Seq(Int) /\ Len(s) = 1 /\ s[1] = 1
  BY <1>1, FunctionIsSequence
<1> HIDE DEF s
<1>4. SumOf(s) = 1
  BY <1>3, SumOfFew
<1>5. /\ FirstOrder[2].num * x * 1 = - FirstOrder[2].den * x * 1
      /\ FirstOrder[1].num * x = FirstOrder[1].den * x * 1
  BY DEF FirstOrder, Fraction, Positive
<1> QED BY <1>1, <1>2, <1>4, <1>5 DEF IsDerivative, s

\* The second formula differentiates the parabola through the last three.
THEOREM SecondFormulaIsExact ==
    ASSUME NEW a \in Positive, NEW b \in Positive, NEW ages \in Seq(Int),
           Len(ages) = 2, ages[1] = a, ages[2] = a + b
    PROVE  IsDerivative(SecondOrder(a, b), ages)
<1> DEFINE x == ages[1]
           y == ages[2]
           s == [i \in 1 .. Len(ages) |-> ProductOf(Others(i, ages))]
           t == SecondOrder(a, b)
<1>0. a \in Int /\ b \in Int /\ x \in Int /\ y \in Int
  BY DEF Positive
<1>1. ProductOf(Distances(1, ages)) = y - x /\ ProductOf(Others(1, ages)) = y
  <2>1. ProductOf(Distances(1, ages)) = 1 * (y - x) /\ ProductOf(Others(1, ages)) = 1 * y
    BY ProductsOfFew
  <2> QED BY <1>0, <2>1
<1>2. ProductOf(Distances(2, ages)) = x - y /\ ProductOf(Others(2, ages)) = x
  <2>1. ProductOf(Distances(2, ages)) = (x - y) * 1 /\ ProductOf(Others(2, ages)) = x * 1
    BY ProductsOfFew
  <2> QED BY <1>0, <2>1
<1>3. ProductOf(ages) = x * y
  BY ProductOfFew
<1>4. s \in Seq(Int) /\ Len(s) = 2 /\ s[1] = y /\ s[2] = x
  <2>1. s \in [1 .. 2 -> Int] /\ s[1] = y /\ s[2] = x
    BY <1>0, <1>1, <1>2
  <2> HIDE DEF s
  <2> QED BY <2>1, FunctionIsSequence
<1> HIDE DEF s
<1>5. SumOf(s) = x + y
  <2>1. SumOf(s) = y + x
    BY <1>4, SumOfFew
  <2> QED BY <1>0, <2>1
<1> HIDE DEF x, y, t
<1>6. /\ t[2].num * x * (y - x) = - t[2].den * a * y
      /\ t[3].num * y * (x - y) = - t[3].den * a * x
      /\ t[1].num * (x * y) = t[1].den * a * (x + y)
  BY SecondOrderIsDerivative DEF x, y, t
<1>7. \A i \in 1 .. Len(ages) :
          t[i + 1].num * ages[i] * ProductOf(Distances(i, ages))
            = - t[i + 1].den * ages[1] * ProductOf(Others(i, ages))
  <2> TAKE i \in 1 .. Len(ages)
  <2>1. CASE i = 1
    BY <1>1, <1>6, <2>1 DEF x
  <2>2. CASE i = 2
    BY <1>2, <1>6, <2>2 DEF y
  <2> QED BY <2>1, <2>2
<1>8. t[1].num * ProductOf(ages) = t[1].den * ages[1] * SumOf(s)
  BY <1>3, <1>5, <1>6
<1> QED BY <1>7, <1>8 DEF IsDerivative, s, t

\* The third formula differentiates the cubic through the last four.
THEOREM ThirdFormulaIsExact ==
    ASSUME NEW a \in Positive, NEW b \in Positive, NEW c \in Positive,
           NEW ages \in Seq(Int),
           Len(ages) = 3, ages[1] = a, ages[2] = a + b, ages[3] = a + b + c
    PROVE  IsDerivative(ThirdOrder(a, b, c), ages)
<1> DEFINE x == ages[1]
           y == ages[2]
           z == ages[3]
           s == [i \in 1 .. Len(ages) |-> ProductOf(Others(i, ages))]
           t == ThirdOrder(a, b, c)
<1>0. a \in Int /\ b \in Int /\ c \in Int /\ x \in Int /\ y \in Int /\ z \in Int
  BY DEF Positive
<1>1. /\ ProductOf(Distances(1, ages)) = (y - x) * (z - x)
      /\ ProductOf(Others(1, ages)) = y * z
  <2>1. ProductOf(Distances(1, ages)) = 1 * (y - x) * (z - x) /\ ProductOf(Others(1, ages)) = 1 * y * z
    BY ProductsOfFew
  <2> QED BY <1>0, <2>1
<1>2. /\ ProductOf(Distances(2, ages)) = (x - y) * (z - y)
      /\ ProductOf(Others(2, ages)) = x * z
  <2>1. ProductOf(Distances(2, ages)) = (x - y) * 1 * (z - y) /\ ProductOf(Others(2, ages)) = x * 1 * z
    BY ProductsOfFew
  <2> QED BY <1>0, <2>1
<1>3. /\ ProductOf(Distances(3, ages)) = (x - z) * (y - z)
      /\ ProductOf(Others(3, ages)) = x * y
  <2>1. /\ ProductOf(Distances(3, ages)) = (x - z) * (y - z) * 1
        /\ ProductOf(Others(3, ages)) = x * y * 1
    BY ProductsOfFew
  <2>2. (x - z) * (y - z) \in Int /\ x * y \in Int
    BY <1>0
  <2> QED BY <2>1, <2>2
<1>4. ProductOf(ages) = x * y * z
  BY ProductOfFew
<1>5. s \in Seq(Int) /\ Len(s) = 3 /\ s[1] = y * z /\ s[2] = x * z /\ s[3] = x * y
  <2>1. s \in [1 .. 3 -> Int] /\ s[1] = y * z /\ s[2] = x * z /\ s[3] = x * y
    BY <1>0, <1>1, <1>2, <1>3
  <2> HIDE DEF s
  <2> QED BY <2>1, FunctionIsSequence
<1> HIDE DEF s
<1>6. SumOf(s) = y * z + x * z + x * y
  BY <1>5, SumOfFew
<1> HIDE DEF x, y, z, t
<1>7. /\ t[2].num * x * ((y - x) * (z - x)) = - t[2].den * a * (y * z)
      /\ t[3].num * y * ((x - y) * (z - y)) = - t[3].den * a * (x * z)
      /\ t[4].num * z * ((x - z) * (y - z)) = - t[4].den * a * (x * y)
      /\ t[1].num * (x * y * z) = t[1].den * a * (y * z + x * z + x * y)
  BY ThirdOrderIsDerivative DEF x, y, z, t
<1>8. \A i \in 1 .. Len(ages) :
          t[i + 1].num * ages[i] * ProductOf(Distances(i, ages))
            = - t[i + 1].den * ages[1] * ProductOf(Others(i, ages))
  <2> TAKE i \in 1 .. Len(ages)
  <2>1. CASE i = 1
    BY <1>1, <1>7, <2>1 DEF x
  <2>2. CASE i = 2
    BY <1>2, <1>7, <2>2 DEF y
  <2>3. CASE i = 3
    BY <1>3, <1>7, <2>3 DEF z
  <2> QED BY <2>1, <2>2, <2>3
<1>9. t[1].num * ProductOf(ages) = t[1].den * ages[1] * SumOf(s)
  BY <1>4, <1>6, <1>7
<1> QED BY <1>8, <1>9 DEF IsDerivative, s, t

-----------------------------------------------------------------------------
(* The solving of coupled fields.                                          *)

\* A transient field that repeats its first step for the mesh has fixed steps.
RepeatedStepsAreFixed ==
    \A p \in Problems : \A f \in Range(p.fields) :
        p.analysis[f] = "transient" /\ p.adaptivitySteps[f] > 1 => p.timeMethod # "BDF"

\* No transient field repeats its first step.
NoStepIsRepeated ==
    \A p \in Problems : \A f \in Range(p.fields) :
        p.analysis[f] = "transient" => p.adaptivitySteps[f] <= 1

\* The thread is inside the solving of one field.
Busy == pc \in {"sources", "solve", "timeLoop", "step", "reread"}

\* The maps of the store and of the deal cache have their types; what the index lists
\* has its files, and what is in the cache is in the index.
StoreTyped ==
    /\ multiSolutions \in [SolutionIDs -> {0, 1}]
    /\ runTimeDetails \in [SolutionIDs -> RunTimes \cup {None}]
    /\ dealCache \in [SolutionIDs -> Solutions \cup {None}]
    /\ meshFiles \in [SolutionIDs -> Meshes \cup {None}]
    /\ dataFiles \in [SolutionIDs -> Solutions \cup {None}]
    /\ \A id \in Indexed : meshFiles[id] \in Meshes /\ dataFiles[id] \in Solutions
    /\ Cached \subseteq Indexed

\* What the place of the thread says of its counters.
Places ==
    /\ pc = "sort" => turn = 0 /\ looked = 0
    /\ Busy => turn \in 1 .. Len(order) /\ target = order[turn]
    /\ pc \in {"timeLoop", "step", "reread"} => ~Steady
    /\ pc \in {"timeLoop", "step"} =>
          Len(solutions) = Len(stepLengths) /\ TimeLastStep >= timeStep - 1
    /\ pc = "step" => stepLengths # <<>> /\ ActualLength <= solverTime
    /\ pc = "step" => adaptiveStep < MaxAdaptiveSteps
    /\ ~(pc \in {"solve", "step", "crashed"}) => adaptiveStep = 0
    /\ pc = "solve" /\ (~Steady \/ ~HasAdaptivity) => adaptiveStep = 0

\* What the store holds of the fields, the target among them.
Listed ==
    \A id \in Indexed :
        /\ \E i \in 1 .. turn : id.field = order[i]
        /\ id.field = target =>
              /\ pc # "sources"
              /\ pc = "solve" => Steady
              /\ pc = "solve" => id.timeStep = TimeLastStep
              /\ pc = "solve" => id.adaptivityStep < adaptiveStep
              /\ pc = "timeLoop" => id.timeStep < timeStep
              /\ pc = "step" => id.timeStep <= timeStep
              /\ pc = "step" /\ id.timeStep = timeStep =>
                    id.adaptivityStep < adaptiveStep

\* Where no step is repeated, the steps of a transient field have one solution each.
OneForEachStep ==
    pc \in {"timeLoop", "step"} /\ MaxAdaptivitySteps <= 1 =>
        /\ ID(target, timeStep - 1, 0) \in SolutionIDs
        /\ timeStep > 1 => solutionID = ID(target, timeStep - 1, 0)
        /\ \A id \in Indexed : id.field = target => id.adaptivityStep = 0

\* The inductive invariant of the time loop and of the store.
IInv == TypeOK /\ StoreTyped /\ Places /\ Listed /\ OneForEachStep

\* The sources that the solver of the field in place i of the order holds.
Known(i) ==
    IF i < turn \/ (i = turn /\ pc # "sources") THEN PluginCouplings[order[i]] \cap Fields
    ELSE IF i = turn THEN {order[j] : j \in {k \in 1 .. looked : order[k] \in PluginCouplings[order[i]]}}
    ELSE {}

\* No solution of the same field is later or finer.
IsNewest(id) ==
    \A other \in Indexed : other.field = id.field =>
        /\ other.timeStep <= id.timeStep
        /\ other.timeStep = id.timeStep => other.adaptivityStep <= id.adaptivityStep

\* What the field in place i was given of field g, a field before it.
SourceIsFinal(i, g) ==
    LET id == held[order[i]][g]
    IN  /\ id.field = g
        /\ Contains(id)
        /\ IsNewest(id)
        /\ \E k \in 1 .. i - 1 : g = order[k]

\* Every source a solver was given is still the newest solution of its field, and while
\* the field is being solved it is in the cache.
SourcesInv ==
    pc # "crashed" =>
        \A i \in DOMAIN order :
            /\ DOMAIN held[order[i]] = Known(i)
            /\ \A g \in Known(i) :
                  /\ SourceIsFinal(i, g)
                  /\ Busy /\ i = turn => held[order[i]][g] \in Cached

\* The store has the solutions of field f at the steps of the time axis, with their
\* lengths and at their times, and no other.
StepsOf(f) ==
    \A id \in {i \in SolutionIDs : i.field = f} :
        IF id.timeStep <= TimeLastStep /\ id.adaptivityStep = 0
        THEN /\ Contains(id)
             /\ runTimeDetails[id] = timeStepLengths[id.timeStep + 1]
             /\ dataFiles[id].vector = SumOf(SubSeq(timeStepLengths, 1, id.timeStep + 1))
        ELSE ~Contains(id)

\* The time is the sum of the lengths of the axis, and the field being solved has its steps.
AxisInv ==
    /\ timeStepLengths # <<>> /\ timeStepLengths[1] = 0
    /\ pc \in {"timeLoop", "step"} =>
        /\ timeStep = Len(timeStepLengths)
        /\ solverTime = SumOf(timeStepLengths) + IF pc = "step" THEN ActualLength ELSE 0
    /\ pc \in {"timeLoop", "step", "reread"} => StepsOf(target)

\* The lengths kept for the formula are the last ones of the axis.
HistoryInv ==
    pc \in {"timeLoop", "step"} =>
        LET kept == IF pc = "step" THEN Len(stepLengths) - 1 ELSE Len(stepLengths)
        IN  /\ kept < Len(timeStepLengths)
            /\ Len(stepLengths) <= problem.timeOrder
            /\ \A i \in 1 .. kept :
                  stepLengths[i] = timeStepLengths[Len(timeStepLengths) - kept + i]

\* The time loop over the field in place i of the order is over.
Passed(i) == i < turn \/ (i = turn /\ pc \in {"reread", "nextField", "done"})

\* A transient field whose loop is over has its steps up to the total time, and no field
\* after it moves the axis.
EndsInv ==
    ~abort /\ pc # "crashed" =>
        \A i \in 1 .. turn :
            /\ Passed(i) /\ problem.analysis[order[i]] = "transient" =>
                  /\ SumOf(timeStepLengths) = TimeTotal
                  /\ ID(order[i], TimeLastStep, 0) \in SolutionIDs
                  /\ StepsOf(order[i])
            /\ i < turn /\ pc \in {"timeLoop", "step", "reread"} =>
                  problem.analysis[order[i]] # "transient"

-----------------------------------------------------------------------------
\* The store

\* What the assumption on the problems says of the one being solved.
LEMMA Facts ==
    ASSUME problem \in Problems
    PROVE  /\ problem.fields \in Seq(Fields) /\ IsInjective(problem.fields)
           /\ None \notin Fields
           /\ problem.weakCouplings \in Seq([source : Fields, target : Fields])
           /\ \A f \in Fields : /\ problem.analysis[f] \in {"steady", "transient"}
                                /\ problem.adaptivitySteps[f] \in Nat
                                /\ ID(f, 0, 0) \in SolutionIDs
           /\ problem.timeOrder \in 1 .. 3
           /\ problem.constantTimeStep \in Lengths
BY ProblemsAssumption DEF Fields

\* What is added
LEMMA AddStored ==
    ASSUME StoreTyped, NEW id \in SolutionIDs, ~Contains(id),
           NEW s \in Solutions, NEW r \in RunTimes, AddSolution(id, s, r)
    PROVE  /\ StoreTyped'
           /\ multiSolutions' = [multiSolutions EXCEPT ![id] = 1]
           /\ runTimeDetails' = [runTimeDetails EXCEPT ![id] = r]
           /\ dataFiles' = [dataFiles EXCEPT ![id] = s]
           /\ \A i \in SolutionIDs : i.field # id.field => dealCache'[i] = dealCache[i]
<1>0. multiSolutions[id] = 0
  BY DEF Contains, StoreTyped
<1>1. multiSolutions' = [multiSolutions EXCEPT ![id] = 1]
  BY <1>0 DEF AddSolution
<1>2. runTimeDetails' = [runTimeDetails EXCEPT ![id] = r]
      /\ dataFiles' = [dataFiles EXCEPT ![id] = s]
      /\ meshFiles' = [meshFiles EXCEPT ![id] = MeshFileAfterAdd(id, s)]
  BY DEF AddSolution
<1>3. MeshFileAfterAdd(id, s) \in Meshes
  <2>1. s.mesh \in Meshes
    BY DEF Solutions
  <2>2. ASSUME SameMesh(id, s) PROVE meshFiles[Previous(id)] \in Meshes
    BY <2>2 DEF SameMesh, HasPrevious, Contains, StoreTyped, Indexed
  <2>3. meshFiles[id] \in Meshes \cup {None}
    BY DEF StoreTyped
  <2> QED BY <2>1, <2>2, <2>3 DEF MeshFileAfterAdd
<1>4. dealCache' = [i \in SolutionIDs |->
          IF i = id THEN s ELSE IF i \in Flushed(id, dealCache) THEN None ELSE dealCache[i]]
  BY DEF AddSolution, InsertToCache
<1>5. \A i \in Flushed(id, dealCache) : i.field = id.field
  BY DEF Flushed
<1>6. \A i \in SolutionIDs : i.field # id.field => dealCache'[i] = dealCache[i]
  BY <1>4, <1>5
<1> DEFINE m == MeshFileAfterAdd(id, s)
<1>7. /\ multiSolutions' \in [SolutionIDs -> {0, 1}]
      /\ runTimeDetails' \in [SolutionIDs -> RunTimes \cup {None}]
      /\ dataFiles' \in [SolutionIDs -> Solutions \cup {None}]
  BY <1>1, <1>2 DEF StoreTyped
<1>8. meshFiles' \in [SolutionIDs -> Meshes \cup {None}]
  BY <1>2, <1>3 DEF StoreTyped
<1>9. dealCache' \in [SolutionIDs -> Solutions \cup {None}]
  BY <1>4 DEF StoreTyped
<1>10. ASSUME NEW i \in Indexed'
       PROVE  meshFiles'[i] \in Meshes /\ dataFiles'[i] \in Solutions
  <2>1. i \in SolutionIDs /\ (i # id => i \in Indexed)
    BY <1>1, <1>10 DEF Indexed, StoreTyped
  <2>2. CASE i = id
    BY <1>2, <1>3, <2>2 DEF StoreTyped
  <2>3. CASE i # id
    BY <1>2, <2>1, <2>3 DEF StoreTyped
  <2> QED BY <2>2, <2>3
<1>11. Cached' \subseteq Indexed'
  <2> SUFFICES ASSUME NEW i \in Cached' PROVE i \in Indexed'
    OBVIOUS
  <2>1. i \in SolutionIDs /\ dealCache'[i] # None
    BY DEF Cached, CachedIn
  <2>2. CASE i = id
    BY <1>1, <2>2 DEF Indexed, StoreTyped
  <2>3. CASE i # id
    <3>1. dealCache[i] # None
      BY <1>4, <2>1, <2>3
    <3>2. i \in Indexed
      BY <2>1, <3>1 DEF StoreTyped, Cached, CachedIn
    <3> QED BY <1>1, <2>1, <2>3, <3>2 DEF Indexed, StoreTyped
  <2> QED BY <2>2, <2>3
<1>12. StoreTyped'
  BY <1>7, <1>8, <1>9, <1>10, <1>11 DEF StoreTyped
<1> QED BY <1>1, <1>2, <1>6, <1>12

\* What is removed leaves the index, the files and the cache.
LEMMA RemoveStored ==
    ASSUME StoreTyped, NEW id \in SolutionIDs, RemoveSolution(id)
    PROVE  /\ StoreTyped'
           /\ multiSolutions[id] = 1
           /\ multiSolutions' = [multiSolutions EXCEPT ![id] = 0]
           /\ runTimeDetails' = [runTimeDetails EXCEPT ![id] = None]
           /\ dataFiles' = [dataFiles EXCEPT ![id] = None]
           /\ dealCache' = [dealCache EXCEPT ![id] = None]
<1>0. multiSolutions[id] = 1
  BY DEF RemoveSolution, Contains, StoreTyped
<1>1. multiSolutions' = [multiSolutions EXCEPT ![id] = 0]
  BY <1>0 DEF RemoveSolution
<1>2. /\ runTimeDetails' = [runTimeDetails EXCEPT ![id] = None]
      /\ meshFiles' = [meshFiles EXCEPT ![id] = None]
      /\ dataFiles' = [dataFiles EXCEPT ![id] = None]
      /\ dealCache' = [dealCache EXCEPT ![id] = None]
  BY DEF RemoveSolution, RemoveFiles, RemoveFromCache
<1>3. /\ multiSolutions' \in [SolutionIDs -> {0, 1}]
      /\ runTimeDetails' \in [SolutionIDs -> RunTimes \cup {None}]
      /\ dataFiles' \in [SolutionIDs -> Solutions \cup {None}]
      /\ meshFiles' \in [SolutionIDs -> Meshes \cup {None}]
      /\ dealCache' \in [SolutionIDs -> Solutions \cup {None}]
  BY <1>1, <1>2 DEF StoreTyped
<1>4. ASSUME NEW i \in Indexed'
      PROVE  meshFiles'[i] \in Meshes /\ dataFiles'[i] \in Solutions
  <2>1. i \in SolutionIDs /\ i # id /\ i \in Indexed
    BY <1>1, <1>4 DEF Indexed, StoreTyped
  <2> QED BY <1>2, <2>1 DEF StoreTyped
<1>5. Cached' \subseteq Indexed'
  <2> SUFFICES ASSUME NEW i \in Cached' PROVE i \in Indexed'
    OBVIOUS
  <2>1. i \in SolutionIDs /\ i # id /\ i \in Cached
    BY <1>2 DEF Cached, CachedIn, StoreTyped
  <2> QED BY <1>1, <2>1 DEF Indexed, StoreTyped
<1>6. StoreTyped'
  BY <1>3, <1>4, <1>5 DEF StoreTyped
<1> QED BY <1>0, <1>1, <1>2, <1>6

\* What is read is in the cache; the other fields keep theirs.
LEMMA ReadStored ==
    ASSUME StoreTyped, NEW id \in SolutionIDs, MultiArray(id)
    PROVE  /\ StoreTyped'
           /\ UNCHANGED <<multiSolutions, runTimeDetails, dataFiles>>
           /\ id \in Cached'
           /\ \A i \in SolutionIDs : i.field # id.field => dealCache'[i] = dealCache[i]
<1>0. id \in Indexed /\ UNCHANGED <<multiSolutions, runTimeDetails, meshFiles, dataFiles>>
  BY DEF MultiArray, Contains, Indexed
<1>1. CASE id \in Cached
  <2>1. UNCHANGED dealCache
    BY <1>1 DEF MultiArray
  <2>2. StoreTyped' /\ id \in Cached'
    BY <1>0, <1>1, <2>1 DEF StoreTyped, Indexed, Cached, CachedIn
  <2> QED BY <1>0, <2>1, <2>2
<1>2. CASE id \notin Cached
  <2>0. dealCache' = [i \in SolutionIDs |->
          IF i = id THEN Loaded(id)
          ELSE IF i \in Flushed(id, dealCache) THEN None ELSE dealCache[i]]
    BY <1>2 DEF MultiArray, InsertToCache
  <2>1. Loaded(id) \in Solutions
    BY <1>0 DEF StoreTyped, Loaded, Solutions
  <2> HIDE DEF Loaded
  <2>2. Loaded(id) # None
    BY <2>1, NoneAssumption
  <2>3. \A i \in Flushed(id, dealCache) : i.field = id.field
    BY DEF Flushed
  <2>4. dealCache' \in [SolutionIDs -> Solutions \cup {None}]
    BY <2>0, <2>1 DEF StoreTyped
  <2>5. Cached' \subseteq Indexed'
    BY <1>0, <2>0 DEF StoreTyped, Cached, CachedIn, Indexed
  <2>6. id \in Cached'
    BY <2>0, <2>2 DEF Cached, CachedIn
  <2>7. StoreTyped'
    BY <1>0, <2>4, <2>5 DEF StoreTyped, Indexed
  <2>8. \A i \in SolutionIDs : i.field # id.field => dealCache'[i] = dealCache[i]
    BY <2>0, <2>3
  <2> QED BY <1>0, <2>6, <2>7, <2>8
<1> QED BY <1>1, <1>2

-----------------------------------------------------------------------------
\* The sort

\* the orders the fields may be sorted to
Arrangements(F) == {s \in Seq(F) : Range(s) = F /\ IsInjective(s)}
\* The couplings between fields of F.
Couplings(F) == [source : F, target : F]
\* The fields being sorted, and whether two were swapped.
Sorted(F) == [fields : Arrangements(F), swapped : BOOLEAN]

\* Moving a field to the front keeps an arrangement of the fields an arrangement.
LEMMA MoveKeeps ==
    ASSUME NEW F, NEW s \in Arrangements(F), NEW f \in F
    PROVE  MoveToFront(f, s) \in Arrangements(F)
<1> DEFINE n == Len(s)
           k == IndexOf(f, s)
           t == MoveToFront(f, s)
<1>1. s \in Seq(F) /\ n \in Nat /\ DOMAIN s = 1 .. n /\ Range(s) = F
      /\ \A i \in 1 .. n : s[i] \in F
  BY DEF Arrangements
<1>2. \A i, j \in 1 .. n : s[i] = s[j] => i = j
  BY <1>1 DEF Arrangements, IsInjective
<1>3. k \in 1 .. n /\ s[k] = f
  BY <1>1 DEF IndexOf, Range
<1>4. t = [j \in 1 .. n |-> IF j = 1 THEN f ELSE IF j <= k THEN s[j - 1] ELSE s[j]]
  BY <1>1 DEF MoveToFront
<1> HIDE DEF k, t, n
<1>5. t \in [1 .. n -> F]
  <2> SUFFICES ASSUME NEW j \in 1 .. n
               PROVE  (IF j = 1 THEN f ELSE IF j <= k THEN s[j - 1] ELSE s[j]) \in F
    BY <1>4
  <2>1. j # 1 => j - 1 \in 1 .. n
    BY <1>1
  <2> QED BY <1>1, <2>1
<1>6. t \in Seq(F) /\ Len(t) = n
  BY <1>1, <1>5, FunctionIsSequence
<1>7. Range(t) = F
  <2>1. Range(t) = {t[j] : j \in 1 .. n}
    BY <1>5 DEF Range
  <2>2. \A j \in 1 .. n : t[j] \in F
    BY <1>5
  <2>3. ASSUME NEW g \in F PROVE \E j \in 1 .. n : t[j] = g
    <3>1. PICK i \in 1 .. n : s[i] = g
      BY <1>1 DEF Range
    <3>2. CASE i = k
      <4>1. 1 \in 1 .. n
        BY <1>1, <1>3
      <4>2. t[1] = f
        BY <1>4, <4>1
      <4> QED BY <1>3, <3>1, <3>2, <4>1, <4>2
    <3>3. CASE i < k
      <4>1. i + 1 \in 1 .. n /\ i + 1 # 1 /\ i + 1 <= k /\ (i + 1) - 1 = i
        BY <1>1, <1>3, <3>3
      <4>2. t[i + 1] = s[i]
        BY <1>4, <4>1
      <4> QED BY <3>1, <4>1, <4>2
    <3>4. CASE i > k
      <4>1. i # 1 /\ ~ (i <= k)
        BY <1>1, <1>3, <3>4
      <4>2. t[i] = s[i]
        BY <1>4, <4>1
      <4> QED BY <3>1, <4>2
    <3> QED BY <1>1, <1>3, <3>2, <3>3, <3>4
  <2> QED BY <2>1, <2>2, <2>3
<1>8. ASSUME NEW i \in 1 .. n, NEW j \in 1 .. n, t[i] = t[j] PROVE i = j
  <2> DEFINE old(x) == IF x = 1 THEN k ELSE IF x <= k THEN x - 1 ELSE x
  <2>1. ASSUME NEW x \in 1 .. n PROVE old(x) \in 1 .. n /\ t[x] = s[old(x)]
    BY <1>1, <1>3, <1>4
  <2>2. old(i) \in 1 .. n /\ old(j) \in 1 .. n /\ s[old(i)] = s[old(j)]
    BY <1>8, <2>1
  <2>3. old(i) = old(j)
    <3> HIDE DEF old
    <3> QED BY <1>2, <2>2
  <2> QED BY <1>1, <1>3, <2>3
<1>9. IsInjective(t)
  BY <1>5, <1>8 DEF IsInjective
<1> QED BY <1>6, <1>7, <1>9 DEF Arrangements, t

\* Visiting one coupling keeps the fields an arrangement.
LEMMA VisitKeeps ==
    ASSUME NEW F, NEW sorted \in Sorted(F), NEW c \in Couplings(F)
    PROVE  Visit(sorted, c) \in Sorted(F)
<1>1. sorted.fields \in Arrangements(F) /\ c.source \in F
  BY DEF Sorted, Couplings
<1>2. MoveToFront(c.source, sorted.fields) \in Arrangements(F)
  BY <1>1, MoveKeeps
<1> HIDE DEF MoveToFront, Arrangements
<1> QED BY <1>1, <1>2 DEF Visit, Sorted

\* The sort of SortFields is the function that visits one coupling after the other.
LEMMA VisitedFollows ==
    ASSUME NEW F, NEW s \in Arrangements(F), NEW cs \in Seq(Couplings(F))
    PROVE  \E g : /\ g \in [0 .. Len(cs) -> Sorted(F)]
                  /\ g[0] = [fields |-> s, swapped |-> FALSE]
                  /\ \A i \in 1 .. Len(cs) : g[i] = Visit(g[i - 1], cs[i])
                  /\ Visited(s, cs) = g[Len(cs)]
<1> DEFINE N == Len(cs)
           S == Sorted(F)
           base == [fields |-> s, swapped |-> FALSE]
           step == [i \in 1 .. N |-> [x \in S |-> Visit(x, cs[i])]]
           Rec(g) == g = [n \in 0 .. N |-> IF n = 0 THEN base ELSE Visit(g[n - 1], cs[n])]
           f == CHOOSE g : Rec(g)
<1>1. N \in Nat /\ \A i \in 1 .. N : cs[i] \in Couplings(F)
  OBVIOUS
<1>2. base \in S
  BY DEF Sorted
<1>3. StaysIn(S, N, step)
  <2> SUFFICES ASSUME NEW i \in 1 .. N, NEW x \in S PROVE Visit(x, cs[i]) \in S
    BY DEF StaysIn
  <2> QED BY <1>1, VisitKeeps
<1> HIDE DEF step
<1>4. PICK g : Follows(g, S, N, base, step)
  <2> HIDE DEF S, base
  <2> QED BY <1>1, <1>2, <1>3, RecursionExists
<1>5. /\ g \in [0 .. N -> S] /\ g[0] = base
      /\ \A i \in 1 .. N : g[i] = Visit(g[i - 1], cs[i])
  <2>1. g \in [0 .. N -> S] /\ g[0] = base /\ \A i \in 1 .. N : g[i] = step[i][g[i - 1]]
    BY <1>4 DEF Follows
  <2>2. ASSUME NEW i \in 1 .. N PROVE g[i] = Visit(g[i - 1], cs[i])
    <3>1. i - 1 \in 0 .. N
      BY <1>1
    <3>2. g[i - 1] \in S
      BY <2>1, <3>1
    <3> QED BY <2>1, <3>2 DEF step
  <2> QED BY <2>1, <2>2
<1>6. Rec(g)
  <2> DEFINE h == [n \in 0 .. N |-> IF n = 0 THEN base ELSE Visit(g[n - 1], cs[n])]
  <2>1. ASSUME NEW n \in 0 .. N PROVE g[n] = h[n]
    <3>1. CASE n = 0
      BY <1>5, <3>1
    <3>2. CASE n # 0
      <4>1. n \in 1 .. N
        BY <3>2
      <4> QED BY <1>5, <3>2, <4>1
    <3> QED BY <3>1, <3>2
  <2>2. DOMAIN g = 0 .. N /\ g = [n \in 0 .. N |-> g[n]]
    BY <1>5
  <2> QED BY <2>1, <2>2
<1>7. Rec(f)
  <2> HIDE DEF Rec
  <2> QED BY <1>6
<1>8. Visited(s, cs) = f[N]
  BY Zenon DEF Visited, N, f, base, Rec
<1>9. \A n \in 0 .. N : f[n] = IF n = 0 THEN base ELSE Visit(f[n - 1], cs[n])
  <2> HIDE DEF f, base
  <2> QED BY <1>7
<1> HIDE DEF f, Rec, base, S
<1>10. StepsAgree(f, g, N)
  <2>1. f[0] = g[0]
    <3>1. 0 \in 0 .. N
      BY <1>1
    <3> QED BY <1>5, <1>9, <3>1
  <2>2. ASSUME NEW i \in 1 .. N, f[i - 1] = g[i - 1] PROVE f[i] = g[i]
    <3>1. i \in 0 .. N /\ i # 0
      BY <1>1
    <3> QED BY <1>5, <1>9, <2>2, <3>1
  <2> QED BY <2>1, <2>2 DEF StepsAgree
<1>11. f[N] = g[N]
  <2>1. N \in 0 .. N
    BY <1>1
  <2> HIDE DEF N
  <2> QED BY <1>1, <1>10, <2>1, SameValues
<1> QED BY <1>5, <1>8, <1>11 DEF S, base

\* Visiting all couplings keeps the fields an arrangement.
LEMMA VisitedKeeps ==
    ASSUME NEW F, NEW s \in Arrangements(F), NEW cs \in Seq(Couplings(F))
    PROVE  Visited(s, cs) \in Sorted(F)
<1>1. PICK g : /\ g \in [0 .. Len(cs) -> Sorted(F)]
               /\ g[0] = [fields |-> s, swapped |-> FALSE]
               /\ \A i \in 1 .. Len(cs) : g[i] = Visit(g[i - 1], cs[i])
               /\ Visited(s, cs) = g[Len(cs)]
  BY VisitedFollows, Zenon
<1>2. Len(cs) \in 0 .. Len(cs)
  OBVIOUS
<1> QED BY <1>1, <1>2

-----------------------------------------------------------------------------
\* The moves of the thread

\* Nothing changes for the fields other than f.
OthersStay(f) ==
    \A i \in SolutionIDs : i.field # f =>
        /\ multiSolutions'[i] = multiSolutions[i]
        /\ runTimeDetails'[i] = runTimeDetails[i]
        /\ dataFiles'[i] = dataFiles[i]
        /\ dealCache'[i] = dealCache[i]

\* A change of the store by the target alone keeps what is said of the other fields.
LEMMA StoreStep ==
    ASSUME StoreTyped, NEW id, NEW s \in Solutions, NEW r \in RunTimes, NEW next,
           ~Contains(id), Store(id, s, r, next)
    PROVE  /\ id \in SolutionIDs
           /\ StoreTyped'
           /\ OthersStay(id.field)
           /\ Indexed' \subseteq Indexed \cup {id}
           /\ pc' \in {next, "crashed"}
           /\ pc' # "crashed" =>
                /\ Indexed' = Indexed \cup {id}
                /\ runTimeDetails' = [runTimeDetails EXCEPT ![id] = r]
                /\ dataFiles' = [dataFiles EXCEPT ![id] = s]
<1>0. id \in SolutionIDs
  BY DEF Store
<1>1. CASE MayAdd(id)
  <2>1. AddSolution(id, s, r) /\ pc' = next
    BY <1>1 DEF Store
  <2>2. /\ StoreTyped'
        /\ multiSolutions' = [multiSolutions EXCEPT ![id] = 1]
        /\ runTimeDetails' = [runTimeDetails EXCEPT ![id] = r]
        /\ dataFiles' = [dataFiles EXCEPT ![id] = s]
        /\ \A i \in SolutionIDs : i.field # id.field => dealCache'[i] = dealCache[i]
    BY <1>0, <2>1, AddStored
  <2>3. Indexed' = Indexed \cup {id}
    BY <1>0, <2>2 DEF Indexed, StoreTyped
  <2>4. OthersStay(id.field)
    BY <1>0, <2>2 DEF OthersStay, StoreTyped
  <2> QED BY <1>0, <2>1, <2>2, <2>3, <2>4
<1>2. CASE ~MayAdd(id)
  <2>1. pc' = "crashed" /\ UNCHANGED storeVars
    BY <1>2 DEF Store, Crash
  <2>2. StoreTyped' /\ OthersStay(id.field) /\ Indexed' = Indexed
    BY <2>1 DEF storeVars, StoreTyped, OthersStay, Indexed, Cached, CachedIn
  <2> QED BY <1>0, <2>1, <2>2
<1> QED BY <1>1, <1>2

\* Steps that leave the store alone keep its type.
LEMMA StoreStays ==
    ASSUME StoreTyped, UNCHANGED storeVars
    PROVE  StoreTyped' /\ Indexed' = Indexed /\ (\A f : OthersStay(f))
BY DEF storeVars, StoreTyped, OthersStay, Indexed, Cached, CachedIn

\* Sorting the fields keeps the invariant.
LEMMA SortKeeps == IInv /\ SortFields => IInv'
<1> SUFFICES ASSUME IInv, SortFields PROVE IInv'
  OBVIOUS
<1>1. StoreTyped' /\ Indexed' = Indexed
  BY StoreStays DEF IInv, SortFields
<1>2. order \in Arrangements(Fields) /\ problem.weakCouplings \in Seq(Couplings(Fields))
  BY Facts DEF IInv, TypeOK, Arrangements, Couplings
<1>3. Visited(order, problem.weakCouplings) \in Sorted(Fields)
  BY <1>2, VisitedKeeps
<1>4. order' \in Arrangements(Fields) /\ pc' \in {"sort", "nextField"}
  BY <1>3 DEF SortFields, Sorted
<1>5. Fields' = Fields
  BY DEF SortFields, computationVars, Fields
<1>6. turn = 0 /\ turn' = 0 /\ looked' = 0 /\ Len(order') \in Nat
  BY <1>4 DEF SortFields, IInv, Places, Arrangements
<1>7. TypeOK'
  BY <1>4, <1>5, <1>6 DEF IInv, TypeOK, SortFields, computationVars, stepVars, loopVars, Arrangements
<1>8. Places'
  BY <1>4, <1>6 DEF IInv, Places, Busy, SortFields, loopVars
<1>9. Listed'
  BY <1>1, <1>4, <1>6 DEF IInv, Listed, SortFields
<1>10. OneForEachStep'
  BY <1>4 DEF OneForEachStep
<1> QED BY <1>1, <1>7, <1>8, <1>9, <1>10 DEF IInv

\* Going on to the next field keeps the invariant.
LEMMA NextFieldKeeps == IInv /\ NextField => IInv'
<1> SUFFICES ASSUME IInv, NextField PROVE IInv'
  OBVIOUS
<1>1. StoreTyped' /\ Indexed' = Indexed
  BY StoreStays DEF IInv, NextField
<1>2. /\ order \in Seq(Fields) /\ Len(order) \in Nat /\ \A i \in 1 .. Len(order) : order[i] \in Fields
      /\ IsInjective(order) /\ DOMAIN order = 1 .. Len(order)
  BY DEF IInv, TypeOK
<1>3. turn \in Nat /\ turn' = turn + 1 /\ turn' \in 1 .. Len(order)
      /\ target' = order[turn'] /\ pc = "nextField"
      /\ pc' = "sources" /\ order' = order /\ looked' = 0
  BY <1>2 DEF IInv, TypeOK, NextField
<1>4. Fields' = Fields /\ problem' = problem /\ adaptiveStep' = adaptiveStep
  BY DEF NextField, computationVars, Fields, loopVars
<1>5. TypeOK'
  BY <1>2, <1>3, <1>4 DEF IInv, TypeOK, NextField, computationVars, stepVars, loopVars
<1>6. Places'
  BY <1>3, <1>4 DEF IInv, Places, Busy
<1>7. Listed'
  <2> SUFFICES ASSUME NEW id \in Indexed
               PROVE  (\E i \in 1 .. turn' : id.field = order[i]) /\ id.field # target'
    BY <1>1, <1>3 DEF Listed
  <2>1. PICK i \in 1 .. turn : id.field = order[i]
    BY DEF IInv, Listed
  <2>2. i \in 1 .. turn' /\ i # turn' /\ i \in DOMAIN order /\ turn' \in DOMAIN order
    BY <1>2, <1>3
  <2> QED BY <1>2, <1>3, <2>1, <2>2 DEF IsInjective
<1>8. OneForEachStep'
  BY <1>3 DEF OneForEachStep
<1> QED BY <1>1, <1>5, <1>6, <1>7, <1>8 DEF IInv

\* Steps that only move the thread, past the loops of the fields.
LEMMA MovesKeep ==
    ASSUME IInv, UNCHANGED <<storeVars, computationVars, target, stepVars, order, held>>,
           turn' = turn, looked' = looked, rereadStep' \in Nat,
           adaptiveStep' = 0,
           \/ pc = "sources" /\ pc' = "solve" /\ adaptiveStep = 0
           \/ pc \in {"solve", "reread"} /\ pc' = "nextField"
           \/ pc = "nextField" /\ pc' = "done"
           \/ pc = "timeLoop" /\ pc' = "reread"
           \/ pc = "reread" /\ pc' = "reread"
    PROVE  IInv'
<1>1. StoreTyped' /\ Indexed' = Indexed
  BY StoreStays DEF IInv
<1>2. problem' = problem /\ Fields' = Fields /\ timeStepLengths' = timeStepLengths
      /\ pc' \in {"solve", "nextField", "done", "reread"} /\ order' = order /\ turn' = turn
      /\ target' = target /\ adaptiveStep' = 0
  BY DEF computationVars, Fields
<1>3. TypeOK'
  BY <1>2 DEF IInv, TypeOK, computationVars, stepVars
<1>4. Places'
  BY <1>2 DEF IInv, Places, Busy, Steady, HasAdaptivity, MaxAdaptivitySteps
<1>5. Listed'
  BY <1>1, <1>2 DEF IInv, Listed
<1>6. OneForEachStep'
  BY <1>2 DEF OneForEachStep
<1> QED BY <1>1, <1>3, <1>4, <1>5, <1>6 DEF IInv

\* The ends of the loops keep the invariant.
LEMMA MoveActionsKeep ==
    IInv /\ (\/ SourcesAreSet \/ EndProblem
             \/ (SteadyAborted \/ EndTimeLoop \/ EndTransient) /\ UNCHANGED problemVars) => IInv'
<1> SUFFICES ASSUME IInv,
                    \/ SourcesAreSet \/ EndProblem
                    \/ (SteadyAborted \/ EndTimeLoop \/ EndTransient) /\ UNCHANGED problemVars
             PROVE  IInv'
  OBVIOUS
<1>1. rereadStep \in Nat
  BY DEF IInv, TypeOK
<1>2. CASE SourcesAreSet
  <2>1. adaptiveStep = 0
    BY <1>2 DEF SourcesAreSet, IInv, Places
  <2> QED BY <1>1, <1>2, <2>1, MovesKeep DEF SourcesAreSet, problemVars, loopVars
<1>3. CASE EndProblem
  <2>1. adaptiveStep = 0
    BY <1>3 DEF EndProblem, IInv, Places
  <2> QED BY <1>1, <1>3, <2>1, MovesKeep DEF EndProblem, problemVars, loopVars
<1>4. CASE SteadyAborted /\ UNCHANGED problemVars
  BY <1>1, <1>4, MovesKeep DEF SteadyAborted, problemVars
<1>5. CASE EndTimeLoop /\ UNCHANGED problemVars
  <2>1. adaptiveStep = 0
    BY <1>5 DEF EndTimeLoop, IInv, Places
  <2> QED BY <1>1, <1>5, <2>1, MovesKeep DEF EndTimeLoop, problemVars
<1>6. CASE EndTransient /\ UNCHANGED problemVars
  <2>1. adaptiveStep = 0
    BY <1>6 DEF EndTransient, IInv, Places
  <2> QED BY <1>1, <1>6, <2>1, MovesKeep DEF EndTransient, problemVars
<1> QED BY <1>2, <1>3, <1>4, <1>5, <1>6

\* Aborting, and doing nothing, keep the invariant.
LEMMA AbortKeeps == IInv /\ (AbortSolving \/ UNCHANGED vars) => IInv'
<1> SUFFICES ASSUME IInv, AbortSolving \/ UNCHANGED vars PROVE IInv'
  OBVIOUS
<1>1. /\ UNCHANGED <<storeVars, problem, timeStepLengths, calculationMesh, pc,
                   target, stepVars, loopVars, problemVars>>
      /\ abort' \in BOOLEAN
  BY DEF AbortSolving, vars, computationVars, problemVars, IInv, TypeOK
<1>2. StoreTyped' /\ Indexed' = Indexed
  BY <1>1, StoreStays DEF IInv
<1>3. TypeOK'
  BY <1>1 DEF IInv, TypeOK, stepVars, loopVars, problemVars, Fields
<1>4. Places'
  BY <1>1 DEF IInv, Places, Busy, Steady, stepVars, loopVars, problemVars, TimeLastStep, ActualLength,
     MaxAdaptiveSteps, HasAdaptivity, MaxAdaptivitySteps
<1>5. Listed'
  BY <1>1, <1>2 DEF IInv, Listed, Steady, stepVars, loopVars, problemVars, TimeLastStep
<1>6. OneForEachStep'
  BY <1>1, <1>2 DEF IInv, OneForEachStep, stepVars, MaxAdaptivitySteps
<1> QED BY <1>2, <1>3, <1>4, <1>5, <1>6 DEF IInv

-----------------------------------------------------------------------------
\* The couplings and the steady fields

\* What is known of the target while it is being solved.
LEMMA BusyFacts ==
    ASSUME IInv, Busy
    PROVE  /\ target \in Fields /\ turn \in 1 .. Len(order) /\ target = order[turn]
           /\ problem.adaptivitySteps[target] \in Nat
           /\ problem.analysis[target] \in {"steady", "transient"}
           /\ TimeLastStep \in Int
<1>1. turn \in 1 .. Len(order) /\ target = order[turn]
  BY DEF IInv, Places
<1>2. target \in Fields /\ timeStepLengths \in Seq(Lengths \cup {0})
  BY <1>1 DEF IInv, TypeOK
<1>3. TimeLastStep \in Int
  BY <1>2 DEF TimeLastStep
<1>4. problem \in Problems
  BY DEF IInv, TypeOK
<1> QED BY <1>1, <1>2, <1>3, <1>4, Facts

\* Taking a source, which reads it into the cache, keeps the invariant.
LEMMA SetCouplingSourceKeeps == IInv /\ SetCouplingSource => IInv'
<1> SUFFICES ASSUME IInv, SetCouplingSource PROVE IInv'
  OBVIOUS
<1>0. pc = "sources" /\ Busy
  BY DEF SetCouplingSource, Busy
<1>1. /\ target \in Fields /\ turn \in 1 .. Len(order) /\ target = order[turn]
  BY <1>0, BusyFacts
<1>2. PICK i \in SourcesLeft :
          LET id == NewestSolution(order[i])
          IN  /\ \A j \in SourcesLeft : i <= j
              /\ looked' = i
              /\ IF Contains(id)
                 THEN /\ MultiArray(id)
                      /\ held' = [held EXCEPT ![target] =
                             [f \in DOMAIN @ \cup {id.field} |->
                                 IF f = id.field THEN id ELSE @[f]]]
                      /\ UNCHANGED pc
                 ELSE Crash /\ UNCHANGED <<storeVars, held>>
  BY DEF SetCouplingSource
<1> DEFINE id == NewestSolution(order[i])
<1>3. i \in 1 .. Len(order) /\ looked' \in 0 .. Len(order)
  BY <1>2 DEF SourcesLeft, IInv, TypeOK
<1>4. pc' \in {"sources", "crashed"} /\ adaptiveStep' = 0 /\ adaptiveStep = 0 /\ problem' = problem
      /\ order' = order /\ turn' = turn /\ target' = target
  BY <1>0, <1>2 DEF SetCouplingSource, Crash, IInv, Places, loopVars, computationVars
<1>5. StoreTyped' /\ Indexed' = Indexed
  <2>1. CASE Contains(id)
    <3>1. id \in SolutionIDs /\ MultiArray(id)
      BY <1>2, <2>1 DEF Contains
    <3> HIDE DEF id
    <3> QED BY <3>1, ReadStored DEF IInv, Indexed
  <2>2. CASE ~Contains(id)
    BY <1>2, <2>2, StoreStays DEF IInv
  <2> QED BY <2>1, <2>2
<1>6. DOMAIN held' = Fields /\ \A f \in Fields : \A g \in DOMAIN held'[f] : held'[f][g] \in SolutionIDs
  <2>0. DOMAIN held = Fields /\ \A f \in Fields : \A g \in DOMAIN held[f] : held[f][g] \in SolutionIDs
    BY DEF IInv, TypeOK
  <2>1. CASE Contains(id)
    <3>1. id \in SolutionIDs
      BY <2>1 DEF Contains
    <3> HIDE DEF id
    <3> DEFINE h == [f \in DOMAIN held[target] \cup {id.field} |->
                       IF f = id.field THEN id ELSE held[target][f]]
    <3>2. held' = [held EXCEPT ![target] = h]
      BY <1>2, <2>1 DEF id
    <3>3. \A g \in DOMAIN h : h[g] \in SolutionIDs
      BY <1>1, <2>0, <3>1
    <3> HIDE DEF h
    <3> QED BY <1>1, <2>0, <3>2, <3>3
  <2>2. CASE ~Contains(id)
    BY <1>2, <2>0, <2>2
  <2> QED BY <2>1, <2>2
<1>7. Fields' = Fields
  BY <1>4 DEF Fields
<1>8. TypeOK'
  BY <1>3, <1>4, <1>6, <1>7 DEF IInv, TypeOK, SetCouplingSource, computationVars, stepVars, loopVars
<1>9. Places'
  BY <1>0, <1>4 DEF IInv, Places, Busy
<1>10. Listed'
  BY <1>0, <1>4, <1>5 DEF IInv, Listed
<1>11. OneForEachStep'
  BY <1>4 DEF OneForEachStep
<1> QED BY <1>5, <1>8, <1>9, <1>10, <1>11 DEF IInv

\* A field that is solved in one go, or crashes, leaves to the next field.
LEMMA StoredMoves ==
    ASSUME IInv, StoreTyped', NEW id, id.field = order[turn], turn \in 1 .. Len(order),
           Indexed' \subseteq Indexed \cup {id}, pc' \in {"nextField", "crashed"},
           UNCHANGED <<problem, order, turn, target>>, TypeOK', adaptiveStep' = 0 \/ pc' = "crashed"
    PROVE  IInv'
<1>1. Places'
  BY DEF IInv, Places, Busy
<1>2. Listed'
  <2> SUFFICES ASSUME NEW i \in Indexed' PROVE \E j \in 1 .. turn : i.field = order[j]
    BY DEF Listed
  <2>1. CASE i = id
    <3>1. turn \in 1 .. turn
      BY DEF IInv, TypeOK
    <3> QED BY <2>1, <3>1
  <2>2. CASE i # id
    BY <2>2 DEF IInv, Listed
  <2> QED BY <2>1, <2>2
<1>3. OneForEachStep'
  BY DEF OneForEachStep
<1> QED BY <1>1, <1>2, <1>3 DEF IInv

\* Solving a steady field in one go keeps the invariant.
LEMMA SolveSteadyKeeps == IInv /\ SolveSteady /\ UNCHANGED problemVars => IInv'
<1> SUFFICES ASSUME IInv, SolveSteady, UNCHANGED problemVars PROVE IInv'
  OBVIOUS
<1>0. pc = "solve" /\ Busy /\ Steady /\ ~HasAdaptivity
  BY DEF SolveSteady, Busy
<1>1. /\ target \in Fields /\ turn \in 1 .. Len(order) /\ target = order[turn]
      /\ problem.adaptivitySteps[target] \in Nat
  BY <1>0, BusyFacts
<1> DEFINE id == ID(target, TimeLastStep, 0)
           s == [mesh |-> calculationMesh, vector |-> 0]
<1>2. s \in Solutions /\ 0 \in RunTimes
  BY TimeAssumption DEF Solutions, IInv, TypeOK
<1>3. ~Contains(id)
  <2> SUFFICES ASSUME id \in Indexed PROVE FALSE
    BY DEF Contains, Indexed
  <2>1. adaptiveStep = 0
    BY <1>0 DEF IInv, Places
  <2>2. id.field = target /\ id.adaptivityStep = 0
    BY DEF ID
  <2> QED BY <1>0, <2>1, <2>2 DEF IInv, Listed
<1>4. Store(id, s, 0, "nextField")
  BY DEF SolveSteady
<1>5. id.field = target
  BY DEF ID
<1> HIDE DEF id, s
<1>6. /\ StoreTyped' /\ Indexed' \subseteq Indexed \cup {id} /\ pc' \in {"nextField", "crashed"}
  BY <1>2, <1>3, <1>4, StoreStep DEF IInv
<1>7. /\ UNCHANGED <<computationVars, target, stepVars, loopVars, problemVars>>
      /\ adaptiveStep' = 0
  BY <1>0 DEF SolveSteady, loopVars, IInv, Places
<1>8. TypeOK'
  BY <1>6, <1>7 DEF IInv, TypeOK, computationVars, stepVars, loopVars, problemVars, Fields
<1>9. UNCHANGED <<problem, order, turn, target>>
  BY <1>7 DEF computationVars, problemVars
<1> QED BY <1>1, <1>5, <1>6, <1>7, <1>8, <1>9, StoredMoves

\* A step of the adaptivity of a steady field keeps the invariant.
LEMMA SteadyAdaptiveStepKeeps == IInv /\ SteadyAdaptiveStep /\ UNCHANGED problemVars => IInv'
<1> SUFFICES ASSUME IInv, SteadyAdaptiveStep, UNCHANGED problemVars PROVE IInv'
  OBVIOUS
<1>0. pc = "solve" /\ Busy /\ Steady /\ HasAdaptivity
  BY DEF SteadyAdaptiveStep, Busy
<1>1. /\ target \in Fields /\ turn \in 1 .. Len(order) /\ target = order[turn]
      /\ problem.adaptivitySteps[target] \in Nat
  BY <1>0, BusyFacts
<1>2. calculationMesh' \in Meshes
  BY DEF SteadyAdaptiveStep, IInv, TypeOK
<1> DEFINE id == ID(target, TimeLastStep, adaptiveStep)
           s == [mesh |-> calculationMesh', vector |-> 0]
<1>3. s \in Solutions /\ 0 \in RunTimes
  BY <1>2, TimeAssumption DEF Solutions
<1>4. ~Contains(id)
  <2> SUFFICES ASSUME id \in Indexed PROVE FALSE
    BY DEF Contains, Indexed
  <2>1. id.field = target /\ id.adaptivityStep = adaptiveStep
    BY DEF ID
  <2> QED BY <1>0, <2>1 DEF IInv, Listed, TypeOK
<1>5. PICK last \in BOOLEAN :
         /\ Store(id, s, 0, IF last THEN "nextField" ELSE "solve")
         /\ adaptiveStep' = IF last THEN 0 ELSE adaptiveStep + 1
  <2>1. PICK converged \in BOOLEAN :
          LET last == converged \/ adaptiveStep + 1 = MaxAdaptivitySteps
          IN  /\ Store(id, s, 0, IF last THEN "nextField" ELSE "solve")
              /\ adaptiveStep' = IF last THEN 0 ELSE adaptiveStep + 1
    BY DEF SteadyAdaptiveStep
  <2> QED BY <2>1
<1> DEFINE next == IF last THEN "nextField" ELSE "solve"
<1>6. id.field = target /\ id.timeStep = TimeLastStep /\ id.adaptivityStep = adaptiveStep
  BY DEF ID
<1> HIDE DEF id, s
<1>7. /\ StoreTyped' /\ Indexed' \subseteq Indexed \cup {id} /\ pc' \in {next, "crashed"}
  <2>1. Store(id, s, 0, next)
    BY <1>5
  <2> HIDE DEF next
  <2> QED BY <1>3, <1>4, <2>1, StoreStep DEF IInv
<1>8. /\ UNCHANGED <<problem, timeStepLengths, abort, target, stepVars, rereadStep, problemVars>>
  BY DEF SteadyAdaptiveStep
<1>9. adaptiveStep \in Nat /\ adaptiveStep' \in Nat
  BY <1>5 DEF IInv, TypeOK
<1>10. TypeOK'
  BY <1>2, <1>7, <1>8, <1>9 DEF IInv, TypeOK, stepVars, problemVars, Fields
<1>11. UNCHANGED <<problem, order, turn, target>>
  BY <1>8 DEF problemVars
<1>12. CASE last
  BY <1>1, <1>5, <1>6, <1>7, <1>10, <1>11, <1>12, StoredMoves
<1>13. CASE ~last
  <2>1. pc' \in {"solve", "crashed"} /\ adaptiveStep' = adaptiveStep + 1
    BY <1>5, <1>7, <1>13
  <2>2. Steady' /\ HasAdaptivity' /\ TimeLastStep' = TimeLastStep
    BY <1>0, <1>8 DEF Steady, HasAdaptivity, MaxAdaptivitySteps, TimeLastStep
  <2>3. Places'
    BY <1>1, <1>11, <2>1, <2>2 DEF IInv, Places, Busy
  <2>4. Listed'
    <3> SUFFICES ASSUME NEW i \in Indexed'
                 PROVE  /\ \E j \in 1 .. turn : i.field = order[j]
                        /\ i.field = target /\ pc' = "solve" =>
                              i.timeStep = TimeLastStep /\ i.adaptivityStep < adaptiveStep + 1
      BY <1>11, <2>1, <2>2 DEF Listed
    <3>1. CASE i = id
      <4>1. turn \in 1 .. turn
        BY <1>1 DEF IInv, TypeOK
      <4> QED BY <1>1, <1>6, <1>9, <3>1, <4>1
    <3>2. CASE i # id
      <4>1. i \in Indexed /\ i \in SolutionIDs
        BY <1>7, <3>2 DEF Indexed
      <4>2. i.adaptivityStep \in Nat
        BY <4>1, SolutionIDsAssumption
      <4> QED BY <1>0, <1>9, <4>1, <4>2 DEF IInv, Listed
    <3> QED BY <3>1, <3>2
  <2>5. OneForEachStep'
    BY <2>1 DEF OneForEachStep
  <2> QED BY <1>7, <1>10, <2>3, <2>4, <2>5 DEF IInv
<1> QED BY <1>12, <1>13

\* Storing the initial condition keeps the invariant.
LEMMA StoreInitialConditionKeeps == IInv /\ StoreInitialCondition /\ UNCHANGED problemVars => IInv'
<1> SUFFICES ASSUME IInv, StoreInitialCondition, UNCHANGED problemVars PROVE IInv'
  OBVIOUS
<1>0. pc = "solve" /\ Busy /\ ~Steady /\ adaptiveStep = 0
  BY DEF StoreInitialCondition, Busy, IInv, Places
<1>1. /\ target \in Fields /\ turn \in 1 .. Len(order) /\ target = order[turn]
      /\ problem.adaptivitySteps[target] \in Nat
      /\ ID(target, 0, 0) \in SolutionIDs /\ problem.constantTimeStep \in Lengths
  BY <1>0, BusyFacts, Facts DEF IInv, TypeOK
<1> DEFINE id == ID(target, 0, 0)
           s == [mesh |-> calculationMesh, vector |-> 0]
<1>2. s \in Solutions /\ 0 \in RunTimes /\ 0 \in Vectors
  BY TimeAssumption DEF Solutions, IInv, TypeOK
<1>3. ASSUME NEW i \in Indexed PROVE i.field # target
  BY <1>0 DEF IInv, Listed
<1>4. id.field = target /\ id.timeStep = 0 /\ id.adaptivityStep = 0
  BY DEF ID
<1>5. ~Contains(id)
  BY <1>3, <1>4 DEF Contains, Indexed
<1>6. \/ TimeLastStep = 0 /\ Store(id, s, 0, "timeLoop")
      \/ Crash /\ UNCHANGED storeVars
  BY DEF StoreInitialCondition
<1> HIDE DEF id, s
<1>7. /\ StoreTyped' /\ Indexed' \subseteq Indexed \cup {id} /\ pc' \in {"timeLoop", "crashed"}
      /\ pc' # "crashed" => TimeLastStep = 0
  <2>1. CASE Crash /\ UNCHANGED storeVars
    BY <2>1, StoreStays DEF IInv, Crash
  <2>2. CASE TimeLastStep = 0 /\ Store(id, s, 0, "timeLoop")
    BY <1>2, <1>5, <2>2, StoreStep DEF IInv
  <2> QED BY <1>6, <2>1, <2>2
<1>8. /\ primal' = 0 /\ solutions' = <<>> /\ stepLengths' = <<>> /\ solverTime' = 0 /\ timeStep' = 1
      /\ nextLength' = problem.constantTimeStep /\ solutionID' = id
      /\ UNCHANGED <<computationVars, target, loopVars, problemVars>>
  BY DEF StoreInitialCondition, id
<1>9. TypeOK'
  BY <1>1, <1>2, <1>7, <1>8, TimeAssumption DEF IInv, TypeOK, computationVars,
     loopVars , problemVars, Fields, id
<1>10. Places'
  <2>1. /\ TimeLastStep' = TimeLastStep /\ Steady' = Steady /\ adaptiveStep' = 0
        /\ order' = order /\ turn' = turn /\ target' = target
    BY <1>0, <1>8 DEF Steady, TimeLastStep, computationVars, loopVars, problemVars
  <2>2. Len(solutions') = Len(stepLengths')
    BY <1>8
  <2> QED BY <1>0, <1>1, <1>7, <1>8, <2>1, <2>2 DEF Places, Busy
<1>11. Listed'
  <2> SUFFICES ASSUME NEW i \in Indexed'
               PROVE  /\ \E j \in 1 .. turn : i.field = order[j]
                      /\ i.field = target => i.timeStep < 1
    BY <1>7, <1>8 DEF Listed, problemVars
  <2>1. CASE i = id
    <3>1. turn \in 1 .. turn
      BY <1>1 DEF IInv, TypeOK
    <3> QED BY <1>1, <1>4, <2>1, <3>1
  <2>2. CASE i # id
    BY <1>3, <1>7, <2>2 DEF IInv, Listed
  <2> QED BY <2>1, <2>2
<1>12. OneForEachStep'
  <2> SUFFICES ASSUME NEW i \in Indexed', i.field = target PROVE i.adaptivityStep = 0
    BY <1>1, <1>7, <1>8 DEF OneForEachStep, id, loopVars
  <2> QED BY <1>3, <1>4, <1>7
<1> QED BY <1>7, <1>9, <1>10, <1>11, <1>12 DEF IInv

\* The last lengths of a list of lengths are lengths.
LEMMA RecentKeeps ==
    ASSUME NEW S, NEW h \in Seq(S), problem.timeOrder \in 1 .. 3
    PROVE  /\ Recent(h) \in Seq(S)
           /\ Len(Recent(h)) = IF Len(h) > problem.timeOrder - 1 THEN Len(h) - 1 ELSE Len(h)
BY DEF Recent

\* Beginning a time step keeps the invariant.
LEMMA BeginTimeStepKeeps == IInv /\ BeginTimeStep /\ UNCHANGED problemVars => IInv'
<1> SUFFICES ASSUME IInv, BeginTimeStep, UNCHANGED problemVars PROVE IInv'
  OBVIOUS
<1>0. pc = "timeLoop" /\ Busy /\ ~Steady /\ solverTime < TimeTotal
  BY DEF BeginTimeStep, Busy, IInv, Places
<1>1. /\ target \in Fields /\ turn \in 1 .. Len(order) /\ target = order[turn]
      /\ problem.adaptivitySteps[target] \in Nat /\ problem.timeOrder \in 1 .. 3
  BY <1>0, BusyFacts, Facts DEF IInv, TypeOK
<1>2. StoreTyped' /\ Indexed' = Indexed
  BY StoreStays DEF IInv, BeginTimeStep
<1> DEFINE length == Clamped(solverTime, nextLength)
<1>3. /\ solverTime' = solverTime + length /\ solutions' = Append(Recent(solutions), primal)
      /\ stepLengths' = Append(Recent(stepLengths), length) /\ adaptiveStep' = 0 /\ pc' = "step"
      /\ UNCHANGED <<computationVars, target, primal, timeStep,
                     nextLength , solutionID, rereadStep, problemVars>>
  BY DEF BeginTimeStep
<1>4. length \in Lengths /\ solverTime \in Nat /\ solverTime + length \in 0 .. TimeTotal
  BY <1>0, TimeAssumption DEF IInv, TypeOK, Clamped, Lengths
<1> HIDE DEF length
<1>5. solutions \in Seq(Vectors) /\ stepLengths \in Seq(Lengths) /\ primal \in Vectors
      /\ Len(solutions) = Len(stepLengths)
  BY <1>0 DEF IInv, TypeOK, Places
<1>6. /\ Recent(solutions) \in Seq(Vectors) /\ Recent(stepLengths) \in Seq(Lengths)
      /\ Len(Recent(solutions)) = Len(Recent(stepLengths))
  <2>1. /\ Recent(solutions) \in Seq(Vectors)
        /\ Len(Recent(solutions)) =
              IF Len(solutions) > problem.timeOrder - 1 THEN Len(solutions) - 1 ELSE Len(solutions)
    BY <1>1, <1>5, RecentKeeps
  <2>2. /\ Recent(stepLengths) \in Seq(Lengths)
        /\ Len(Recent(stepLengths)) =
              IF Len(stepLengths) > problem.timeOrder - 1 THEN Len(stepLengths) - 1 ELSE Len(stepLengths)
    BY <1>1, <1>5, RecentKeeps
  <2> QED BY <1>5, <2>1, <2>2
<1>7. /\ solutions' \in Seq(Vectors) /\ stepLengths' \in Seq(Lengths)
      /\ Len(solutions') = Len(stepLengths') /\ stepLengths' # <<>>
      /\ stepLengths'[Len(stepLengths')] = length
  BY <1>3, <1>4, <1>5, <1>6
<1>8. TypeOK'
  BY <1>3, <1>4, <1>7 DEF IInv, TypeOK, computationVars, problemVars, Fields
<1>9. Places'
  <2>1. MaxAdaptiveSteps' >= 1
    BY <1>1, <1>3 DEF MaxAdaptiveSteps, HasAdaptivity, MaxAdaptivitySteps, computationVars
  <2>2. ActualLength' <= solverTime'
    BY <1>3, <1>4, <1>7 DEF ActualLength, Lengths
  <2>3. ~Steady' /\ TimeLastStep' = TimeLastStep /\ timeStep' = timeStep
    BY <1>0, <1>3 DEF Steady, TimeLastStep, computationVars
  <2>4. TimeLastStep' >= timeStep' - 1
    BY <1>0, <2>3 DEF IInv, Places
  <2>5. target' = order'[turn'] /\ turn' \in 1 .. Len(order') /\ pc' = "step" /\ adaptiveStep' = 0
    BY <1>1, <1>3 DEF problemVars
  <2>6. adaptiveStep' < MaxAdaptiveSteps'
    BY <2>1, <2>5, <1>1, <1>3 DEF MaxAdaptiveSteps, HasAdaptivity, MaxAdaptivitySteps, computationVars
  <2> QED BY <1>7, <2>2, <2>3, <2>4, <2>5, <2>6 DEF Places, Busy
<1>10. Listed'
  <2> SUFFICES ASSUME NEW i \in Indexed
               PROVE  /\ \E j \in 1 .. turn : i.field = order[j]
                      /\ i.field = target => /\ i.timeStep <= timeStep
                                             /\ i.timeStep # timeStep
    BY <1>2, <1>3 DEF Listed, problemVars
  <2>1. i.timeStep \in Nat /\ timeStep \in Nat
    BY SolutionIDsAssumption DEF IInv, TypeOK, Indexed
  <2> QED BY <1>0, <2>1 DEF IInv, Listed
<1>11. OneForEachStep'
  BY <1>0, <1>2, <1>3 DEF IInv, OneForEachStep, MaxAdaptivitySteps, computationVars
<1> QED BY <1>2, <1>8, <1>9, <1>10, <1>11 DEF IInv

-----------------------------------------------------------------------------
\* The steps

\* What is known of the store and of the axis while a step is being tried.
LEMMA StepFacts ==
    ASSUME IInv, pc = "step"
    PROVE  /\ Busy /\ ~Steady
           /\ target \in Fields /\ turn \in 1 .. Len(order) /\ target = order[turn]
           /\ MaxAdaptivitySteps \in Nat /\ problem.timeOrder \in 1 .. 3
           /\ ID(target, 0, 0) \in SolutionIDs
           /\ stepLengths \in Seq(Lengths) /\ solutions \in Seq(Vectors)
           /\ Len(stepLengths) = Len(solutions) /\ Len(stepLengths) \in Nat \ {0}
           /\ ActualLength \in Lengths /\ ActualLength \in Nat \ {0} /\ ActualLength <= solverTime
           /\ solverTime \in 0 .. TimeTotal
           /\ timeStep \in Nat \ {0} /\ adaptiveStep \in Nat
           /\ adaptiveStep < MaxAdaptiveSteps /\ MaxAdaptiveSteps \in Nat \ {0}
           /\ timeStepLengths \in Seq(Lengths \cup {0}) /\ TimeLastStep >= timeStep - 1
           /\ Len(timeStepLengths) \in Nat \ {0}
<1>1. Busy /\ ~Steady
  BY DEF Busy, IInv, Places
<1>2. /\ target \in Fields /\ turn \in 1 .. Len(order) /\ target = order[turn]
      /\ MaxAdaptivitySteps \in Nat
  BY <1>1, BusyFacts DEF MaxAdaptivitySteps
<1>3. problem.timeOrder \in 1 .. 3 /\ ID(target, 0, 0) \in SolutionIDs
  BY <1>2, Facts DEF IInv, TypeOK
<1>4. /\ stepLengths \in Seq(Lengths) /\ solutions \in Seq(Vectors)
      /\ Len(stepLengths) = Len(solutions) /\ stepLengths # <<>>
  BY DEF IInv, TypeOK, Places
<1>5. Len(stepLengths) \in Nat \ {0}
  BY <1>4
<1>6. ActualLength \in Lengths
  BY <1>4, <1>5 DEF ActualLength
<1>7. ActualLength \in Nat \ {0}
  BY <1>6, TimeAssumption DEF Lengths
<1>8. ActualLength <= solverTime /\ TimeLastStep >= timeStep - 1 /\ adaptiveStep < MaxAdaptiveSteps
  BY DEF IInv, Places
<1>9. /\ solverTime \in 0 .. TimeTotal /\ timeStep \in Nat \ {0} /\ adaptiveStep \in Nat
      /\ timeStepLengths \in Seq(Lengths \cup {0})
  BY DEF IInv, TypeOK
<1>10. Len(timeStepLengths) \in Nat \ {0}
  BY <1>8, <1>9 DEF TimeLastStep
<1>11. MaxAdaptiveSteps \in Nat \ {0}
  BY <1>2 DEF MaxAdaptiveSteps, HasAdaptivity
<1> QED BY <1>1, <1>2, <1>3, <1>4, <1>5, <1>6, <1>7, <1>8, <1>9, <1>10, <1>11

\* Accepting a step keeps the invariant.
LEMMA AcceptTimeStepKeeps == IInv /\ AcceptTimeStep /\ UNCHANGED problemVars => IInv'
<1> SUFFICES ASSUME IInv, AcceptTimeStep, UNCHANGED problemVars PROVE IInv'
  OBVIOUS
<1>0. pc = "step"
  BY DEF AcceptTimeStep
<1>1. /\ Busy /\ ~Steady
      /\ target \in Fields /\ turn \in 1 .. Len(order) /\ target = order[turn]
      /\ MaxAdaptivitySteps \in Nat
      /\ ActualLength \in Lengths /\ ActualLength \in Nat \ {0} /\ ActualLength <= solverTime
      /\ solverTime \in 0 .. TimeTotal
      /\ timeStep \in Nat \ {0} /\ adaptiveStep \in Nat
      /\ adaptiveStep < MaxAdaptiveSteps /\ MaxAdaptiveSteps \in Nat \ {0}
      /\ timeStepLengths \in Seq(Lengths \cup {0}) /\ TimeLastStep >= timeStep - 1
      /\ Len(timeStepLengths) \in Nat \ {0}
  BY <1>0, StepFacts
<1>2. calculationMesh \in Meshes
  BY DEF IInv, TypeOK
<1> DEFINE id == ID(target, timeStep, adaptiveStep)
           s == [mesh |-> calculationMesh, vector |-> solverTime]
<1>3. s \in Solutions /\ ActualLength \in RunTimes /\ solverTime \in Vectors
  BY <1>1, <1>2, TimeAssumption DEF Solutions, Lengths
<1>4. id.field = target /\ id.timeStep = timeStep /\ id.adaptivityStep = adaptiveStep
  BY DEF ID
<1>5. PICK settled \in BOOLEAN, last \in BOOLEAN :
         /\ last <=> (settled \/ adaptiveStep + 1 = MaxAdaptiveSteps)
         /\ calculationMesh' \in IF HasAdaptivity /\ ~settled THEN Meshes ELSE {calculationMesh}
         /\ Store(id, s, ActualLength, IF last THEN "timeLoop" ELSE "step")
         /\ adaptiveStep' = IF last THEN 0 ELSE adaptiveStep + 1
         /\ timeStep' = IF last THEN timeStep + 1 ELSE timeStep
  <2>1. PICK settled \in IF adaptiveStep > 0 THEN BOOLEAN ELSE {FALSE} :
          LET last == settled \/ adaptiveStep + 1 = MaxAdaptiveSteps
          IN  /\ calculationMesh' \in
                    IF HasAdaptivity /\ ~settled THEN Meshes ELSE {calculationMesh}
              /\ Store(id, s, ActualLength, IF last THEN "timeLoop" ELSE "step")
              /\ adaptiveStep' = IF last THEN 0 ELSE adaptiveStep + 1
              /\ timeStep' = IF last THEN timeStep + 1 ELSE timeStep
    BY DEF AcceptTimeStep
  <2>2. settled \in BOOLEAN
    BY <1>1, <2>1
  <2> QED BY <2>1, <2>2
<1>6. /\ timeStepLengths' = Append(timeStepLengths, ActualLength)
      /\ solutionID' = id /\ primal' = solverTime
      /\ UNCHANGED <<problem, abort, target, solutions, stepLengths,
                     solverTime , rereadStep, problemVars>>
  BY DEF AcceptTimeStep
<1>7. nextLength' \in Lengths
  BY DEF AcceptTimeStep, NextLengths, IInv, TypeOK
<1>8. ~Contains(id)
  <2> SUFFICES ASSUME id \in Indexed PROVE FALSE
    BY DEF Contains, Indexed
  <2> HIDE DEF id
  <2> QED BY <1>0, <1>1, <1>4 DEF IInv, Listed
<1> DEFINE next == IF last THEN "timeLoop" ELSE "step"
<1> HIDE DEF id, s
<1>9. /\ StoreTyped' /\ Indexed' \subseteq Indexed \cup {id} /\ pc' \in {next, "crashed"}
      /\ id \in SolutionIDs
  <2>1. Store(id, s, ActualLength, next)
    BY <1>5
  <2> HIDE DEF next
  <2> QED BY <1>3, <1>8, <2>1, StoreStep DEF IInv
<1>10. calculationMesh' \in Meshes /\ adaptiveStep' \in Nat /\ timeStep' \in Nat \ {0}
  BY <1>1, <1>2, <1>5
<1>11. timeStepLengths' \in Seq(Lengths \cup {0}) /\ TimeLastStep' = TimeLastStep + 1
  BY <1>1, <1>6 DEF TimeLastStep
<1>12. TypeOK'
  BY <1>3, <1>6, <1>7, <1>9, <1>10, <1>11 DEF IInv, TypeOK, problemVars, Fields
<1>13. Places'
  <2>1. /\ ~Steady' /\ target' = order'[turn'] /\ turn' \in 1 .. Len(order')
        /\ Len(solutions') = Len(stepLengths') /\ stepLengths' # <<>>
        /\ ActualLength' <= solverTime'
    BY <1>0, <1>1, <1>6 DEF Steady, problemVars, IInv, Places, ActualLength
  <2>2. TimeLastStep' >= timeStep' - 1
    BY <1>1, <1>5, <1>11 DEF TimeLastStep
  <2>3. last => adaptiveStep' = 0
    BY <1>5
  <2>4. ~last => adaptiveStep' < MaxAdaptiveSteps'
    BY <1>1, <1>5, <1>6 DEF MaxAdaptiveSteps, HasAdaptivity, MaxAdaptivitySteps
  <2> QED BY <1>9, <2>1, <2>2, <2>3, <2>4 DEF Places, Busy
<1>14. Listed'
  <2> SUFFICES ASSUME NEW i \in Indexed'
               PROVE  /\ \E j \in 1 .. turn : i.field = order[j]
                      /\ i.field = target /\ pc' = "timeLoop" => i.timeStep < timeStep'
                      /\ i.field = target /\ pc' = "step" =>
                            /\ i.timeStep <= timeStep'
                            /\ i.timeStep = timeStep' => i.adaptivityStep < adaptiveStep'
    BY <1>6, <1>9 DEF Listed, problemVars
  <2>1. CASE i = id
    <3>1. turn \in 1 .. turn
      BY <1>1 DEF IInv, TypeOK
    <3> QED BY <1>1, <1>4, <1>5, <1>9, <2>1, <3>1
  <2>2. CASE i # id
    <3>1. i \in Indexed /\ i \in SolutionIDs
      BY <1>9, <2>2 DEF Indexed
    <3>2. i.adaptivityStep \in Nat /\ i.timeStep \in Nat
      BY <3>1, SolutionIDsAssumption
    <3>3. /\ \E j \in 1 .. turn : i.field = order[j]
          /\ i.field = target => i.timeStep <= timeStep
          /\ i.field = target /\ i.timeStep = timeStep => i.adaptivityStep < adaptiveStep
      BY <1>0, <3>1 DEF IInv, Listed
    <3> QED BY <1>1, <1>5, <1>9, <3>2, <3>3
  <2> QED BY <2>1, <2>2
<1>15. OneForEachStep'
  <2> SUFFICES ASSUME MaxAdaptivitySteps <= 1, pc' # "crashed"
               PROVE  /\ ID(target, timeStep' - 1, 0) \in SolutionIDs
                      /\ solutionID' = ID(target, timeStep' - 1, 0)
                      /\ \A i \in Indexed' : i.field = target => i.adaptivityStep = 0
    BY <1>6 DEF OneForEachStep, MaxAdaptivitySteps
  <2>1. MaxAdaptiveSteps = 1
    BY <1>1 DEF MaxAdaptiveSteps, HasAdaptivity
  <2>2. adaptiveStep = 0 /\ timeStep' = timeStep + 1 /\ timeStep' - 1 = timeStep
    BY <1>1, <1>5, <2>1
  <2>3. id = ID(target, timeStep' - 1, 0)
    BY <2>2 DEF id
  <2>4. \A i \in Indexed : i.field = target => i.adaptivityStep = 0
    BY <1>0 DEF IInv, OneForEachStep
  <2> QED BY <1>4, <1>6, <1>9, <2>2, <2>3, <2>4
<1> QED BY <1>9, <1>12, <1>13, <1>14, <1>15 DEF IInv

\* A step is refused from the second one on.
LEMMA RefusedFacts ==
    ASSUME IInv, MayRefuse
    PROVE  /\ pc = "step" /\ timeStep >= 2 /\ adaptiveStep = 0
           /\ problem.timeMethod = "BDF" /\ Len(stepLengths) >= 2
           /\ nextLength' \in Lengths
<1>0. pc = "step" /\ EstimatesError /\ nextLength' \in Lengths
  BY DEF MayRefuse, RefusedLengths, NextLengths
<1>1. Order > 1 /\ problem.timeMethod = "BDF"
  BY <1>0 DEF EstimatesError
<1>2. Len(stepLengths) = Len(solutions) /\ Len(solutions) \in Nat /\ timeStep \in Nat \ {0}
      /\ adaptiveStep \in Nat /\ adaptiveStep < MaxAdaptiveSteps
  BY <1>0, StepFacts
<1>3. timeStep >= 2 /\ Len(stepLengths) >= 2
  BY <1>1, <1>2 DEF Order
<1>4. MaxAdaptiveSteps = 1
  BY <1>3 DEF MaxAdaptiveSteps
<1> QED BY <1>0, <1>1, <1>2, <1>3, <1>4

\* Refusing a step, which removes its solution, keeps the invariant.
LEMMA RefuseTimeStepKeeps == IInv /\ RefuseTimeStep /\ UNCHANGED problemVars => IInv'
<1> SUFFICES ASSUME IInv, RefuseTimeStep, UNCHANGED problemVars PROVE IInv'
  OBVIOUS
<1>0. /\ pc = "step" /\ timeStep >= 2 /\ adaptiveStep = 0
      /\ nextLength' \in Lengths /\ Len(stepLengths) >= 2
  BY RefusedFacts DEF RefuseTimeStep
<1>1. /\ Busy /\ ~Steady
      /\ target \in Fields /\ turn \in 1 .. Len(order) /\ target = order[turn]
      /\ stepLengths \in Seq(Lengths) /\ solutions \in Seq(Vectors)
      /\ Len(stepLengths) = Len(solutions) /\ Len(stepLengths) \in Nat \ {0}
      /\ ActualLength \in Nat \ {0} /\ ActualLength <= solverTime
      /\ solverTime \in 0 .. TimeTotal /\ timeStep \in Nat \ {0}
      /\ TimeLastStep >= timeStep - 1
  BY <1>0, StepFacts
<1>2. /\ solverTime' = solverTime - ActualLength
      /\ stepLengths' = SubSeq(stepLengths, 1, Len(stepLengths) - 1)
      /\ solutions' = SubSeq(solutions, 1, Len(solutions) - 1)
      /\ primal' = IF solutions' = <<>> THEN 0 ELSE solutions'[Len(solutions')]
      /\ pc' = "timeLoop"
      /\ UNCHANGED <<storeVars, computationVars, target, timeStep, solutionID, loopVars, problemVars>>
  BY DEF RefuseTimeStep
<1>3. StoreTyped' /\ Indexed' = Indexed
  BY <1>2, StoreStays DEF IInv
<1>4. /\ stepLengths' \in Seq(Lengths) /\ solutions' \in Seq(Vectors)
      /\ Len(stepLengths') = Len(stepLengths) - 1 /\ Len(solutions') = Len(stepLengths) - 1
  BY <1>1, <1>2
<1>5. primal' \in Vectors
  <2>1. Len(solutions') \in 1 .. Len(solutions')
    BY <1>0, <1>1, <1>4
  <2>2. solutions'[Len(solutions')] \in Vectors
    BY <1>4, <2>1
  <2>3. 0 \in Vectors
    BY TimeAssumption
  <2> QED BY <1>2, <2>2, <2>3
<1>6. solverTime' \in 0 .. TimeTotal
  BY <1>1, <1>2, TimeAssumption
<1>7. TypeOK'
  BY <1>0, <1>2, <1>4, <1>5, <1>6 DEF IInv, TypeOK, computationVars, loopVars, problemVars, Fields
<1>8. Places'
  <2>1. ~Steady' /\ TimeLastStep' = TimeLastStep /\ adaptiveStep' = 0 /\ timeStep' = timeStep
    BY <1>0, <1>1, <1>2 DEF Steady, TimeLastStep, computationVars, loopVars
  <2> QED BY <1>1, <1>2, <1>4, <2>1 DEF Places, Busy, problemVars
<1>9. Listed'
  <2> SUFFICES ASSUME NEW i \in Indexed
               PROVE  /\ \E j \in 1 .. turn : i.field = order[j]
                      /\ i.field = target => i.timeStep < timeStep
    BY <1>2, <1>3 DEF Listed, problemVars
  <2>1. i.timeStep \in Nat /\ i.adaptivityStep \in Nat
    BY SolutionIDsAssumption DEF Indexed
  <2>2. /\ \E j \in 1 .. turn : i.field = order[j]
        /\ i.field = target => i.timeStep <= timeStep
        /\ i.field = target /\ i.timeStep = timeStep => i.adaptivityStep < 0
    BY <1>0 DEF IInv, Listed
  <2> QED BY <1>1, <2>1, <2>2
<1>10. OneForEachStep'
  BY <1>0, <1>2, <1>3 DEF IInv, OneForEachStep, MaxAdaptivitySteps, computationVars
<1> QED BY <1>3, <1>7, <1>8, <1>9, <1>10 DEF IInv

\* Repeating the first step on a new mesh keeps the invariant.
LEMMA RestartTransientKeeps ==
    ASSUME RepeatedStepsAreFixed, IInv, RestartTransient, UNCHANGED problemVars
    PROVE  IInv'
<1>0. /\ pc = "step" /\ timeStep = 2 /\ adaptiveStep = 0 /\ nextLength' \in Lengths
      /\ problem.timeMethod = "BDF"
  BY RefusedFacts DEF RestartTransient
<1>1. /\ Busy /\ ~Steady
      /\ target \in Fields /\ turn \in 1 .. Len(order) /\ target = order[turn]
      /\ MaxAdaptivitySteps \in Nat /\ ID(target, 0, 0) \in SolutionIDs
      /\ timeStepLengths \in Seq(Lengths \cup {0}) /\ TimeLastStep >= 1
      /\ Len(timeStepLengths) \in Nat \ {0}
  BY <1>0, StepFacts
<1>2. MaxAdaptivitySteps <= 1
  <2>1. problem \in Problems /\ target \in Range(problem.fields)
        /\ problem.analysis [target] = "transient"
    BY <1>1, BusyFacts DEF IInv, TypeOK, Fields, Steady
  <2> QED BY <1>0, <1>1, <2>1 DEF RepeatedStepsAreFixed, MaxAdaptivitySteps
<1>3. /\ solutionID = ID(target, 1, 0) /\ solutionID \in SolutionIDs
      /\ \A i \in Indexed : i.field = target => i.adaptivityStep = 0
  BY <1>0, <1>2 DEF IInv, OneForEachStep
<1>4. /\ timeStepLengths' = SubSeq(timeStepLengths, 1, TimeLastStep)
      /\ solverTime' = 0 /\ timeStep' = 1 /\ solutions' = <<>> /\ stepLengths' = <<>> /\ primal' = 0
      /\ UNCHANGED <<problem, calculationMesh, abort, target, solutionID, loopVars, problemVars>>
  BY DEF RestartTransient
<1>5. /\ StoreTyped' /\ Indexed' \subseteq Indexed /\ pc' \in {"timeLoop", "crashed"}
      /\ pc' # "crashed" => solutionID \notin Indexed'
  <2>1. CASE Contains(solutionID)
    <3>1. RemoveSolution(solutionID) /\ pc' = "timeLoop"
      BY <2>1 DEF RestartTransient
    <3>2. StoreTyped' /\ multiSolutions' = [multiSolutions EXCEPT ![solutionID] = 0]
      BY <1>3, <3>1, RemoveStored DEF IInv
    <3> QED BY <1>3, <3>1, <3>2 DEF Indexed, IInv, StoreTyped
  <2>2. CASE ~Contains(solutionID)
    BY <2>2, StoreStays DEF RestartTransient, Crash, IInv
  <2> QED BY <2>1, <2>2
<1>6. timeStepLengths' \in Seq(Lengths \cup {0}) /\ TimeLastStep' = TimeLastStep - 1
  BY <1>1, <1>4 DEF TimeLastStep
<1>7. 0 \in Vectors /\ 0 \in 0 .. TimeTotal
  BY TimeAssumption
<1>8. TypeOK'
  BY <1>0, <1>4, <1>5, <1>6, <1>7 DEF IInv, TypeOK, loopVars, problemVars, Fields
<1>9. Places'
  <2>1. ~Steady' /\ adaptiveStep' = 0 /\ TimeLastStep' >= timeStep' - 1
        /\ Len(solutions') = Len(stepLengths')
    BY <1>0, <1>1, <1>4, <1>6 DEF Steady, loopVars, TimeLastStep
  <2> QED BY <1>1, <1>4, <1>5, <2>1 DEF Places, Busy, problemVars
<1>10. Listed'
  <2> SUFFICES ASSUME NEW i \in Indexed'
               PROVE  /\ \E j \in 1 .. turn : i.field = order[j]
                      /\ i.field = target /\ pc' # "crashed" => i.timeStep < 1
    BY <1>4, <1>5 DEF Listed, problemVars
  <2>1. i \in Indexed /\ i \in SolutionIDs
    BY <1>5 DEF Indexed
  <2>2. /\ i.timeStep \in Nat /\ i.adaptivityStep \in Nat
        /\ i = [field |-> i.field, timeStep |-> i.timeStep, adaptivityStep |-> i.adaptivityStep]
    BY <2>1, SolutionIDsAssumption
  <2>3. /\ \E j \in 1 .. turn : i.field = order[j]
        /\ i.field = target => i.timeStep <= 2
        /\ i.field = target /\ i.timeStep = 2 => i.adaptivityStep < 0
        /\ i.field = target => i.adaptivityStep = 0
    BY <1>0, <1>3, <2>1 DEF IInv, Listed
  <2>4. i.field = target /\ i.timeStep = 1 => i = solutionID
    BY <1>3, <2>2, <2>3 DEF ID
  <2> QED BY <1>5, <2>2, <2>3, <2>4
<1>11. OneForEachStep'
  BY <1>1, <1>3, <1>4, <1>5 DEF OneForEachStep
<1> QED BY <1>5, <1>8, <1>9, <1>10, <1>11 DEF IInv

\* Reading the last step again keeps the invariant.
LEMMA RereadStepKeeps == IInv /\ RereadStep /\ UNCHANGED problemVars => IInv'
<1> SUFFICES ASSUME IInv, RereadStep, UNCHANGED problemVars PROVE IInv'
  OBVIOUS
<1>0. pc = "reread" /\ adaptiveStep = 0
  BY DEF RereadStep, IInv, Places
<1>1. StoreTyped' /\ Indexed' = Indexed
  <2> DEFINE id == ID(target, rereadStep, LastAdaptiveStep(target, rereadStep))
  <2>1. CASE Contains(id)
    <3>1. id \in SolutionIDs /\ MultiArray(id)
      BY <2>1 DEF Contains, RereadStep
    <3> HIDE DEF id
    <3> QED BY <3>1, ReadStored DEF IInv, Indexed
  <2>2. CASE ~Contains(id)
    BY <2>2, StoreStays DEF IInv, RereadStep
  <2> QED BY <2>1, <2>2
<1>2. /\ UNCHANGED <<computationVars, pc, target, stepVars, adaptiveStep, problemVars>>
      /\ rereadStep' \in Nat
  BY DEF RereadStep, IInv, TypeOK
<1>3. TypeOK'
  BY <1>2 DEF IInv, TypeOK, computationVars, stepVars, problemVars, Fields
<1>4. Places'
  BY <1>0, <1>2 DEF IInv, Places, Busy, Steady, computationVars, problemVars
<1>5. Listed'
  BY <1>0, <1>1, <1>2 DEF IInv, Listed, problemVars
<1>6. OneForEachStep'
  BY <1>0, <1>2 DEF OneForEachStep
<1> QED BY <1>1, <1>3, <1>4, <1>5, <1>6 DEF IInv

-----------------------------------------------------------------------------
\* The inductive invariant

\* The invariant holds at first.
LEMMA InitIInv == Init => IInv
<1> SUFFICES ASSUME Init PROVE IInv
  OBVIOUS
<1>1. problem \in Problems /\ order = problem.fields
  BY DEF Init, SolverInit
<1>2. problem.fields \in Seq(Fields) /\ IsInjective(problem.fields) /\ Range(order) = Fields
  BY <1>1, Facts DEF Fields
<1>3. StoreTyped /\ Indexed = {}
  BY NoneAssumption DEF Init, StoreInit, Never, Nowhere, StoreTyped, Indexed, Cached, CachedIn
<1>4. TypeOK
  <2>1. timeStepLengths \in Seq(Lengths \cup {0})
    BY DEF Init, SolverInit
  <2>2. 0 \in Vectors /\ 0 \in 0 .. TimeTotal /\ 1 \in Lengths /\ FirstMesh \in Meshes
    BY TimeAssumption DEF Lengths
  <2>3. solutions \in Seq(Vectors) /\ stepLengths \in Seq(Lengths)
    BY DEF Init, SolverInit
  <2>4. DOMAIN held = Fields /\ \A f \in Fields : DOMAIN held[f] = {}
    BY DEF Init, Fields, NoFields
  <2>5. Len(order) \in Nat
    BY <1>1, <1>2
  <2>6. /\ adaptiveStep \in Nat /\ timeStep \in Nat \ {0} /\ nextLength \in Lengths
        /\ rereadStep \in Nat /\ turn \in 0 .. Len(order) /\ looked \in 0 .. Len(order)
        /\ primal \in Vectors /\ solverTime \in 0 .. TimeTotal /\ calculationMesh \in Meshes
    BY <2>2, <2>5 DEF Init, SolverInit
  <2>7. /\ order \in Seq(Fields) /\ Range(order) = Fields /\ IsInjective(order)
    BY <1>1, <1>2
  <2>8. /\ pc \in {"sort", "nextField", "sources", "solve", "timeLoop", "step",
              "reread", "done", "crashed"}
        /\ abort \in BOOLEAN /\ target \in Fields \cup {None} /\ solutionID \in SolutionIDs \cup {None}
    BY DEF Init, SolverInit
  <2> QED BY <1>1, <2>1, <2>3, <2>4, <2>6, <2>7, <2>8 DEF TypeOK
<1>5. Places
  BY DEF Places, Busy, Init, SolverInit
<1>6. Listed
  BY <1>3 DEF Listed
<1>7. OneForEachStep
  BY DEF OneForEachStep, Init
<1> QED BY <1>3, <1>4, <1>5, <1>6, <1>7 DEF IInv

\* Every step keeps the invariant.
LEMMA NextKeepsIInv ==
    ASSUME RepeatedStepsAreFixed, IInv, [Next]_vars
    PROVE  IInv'
<1>1. CASE SortFields
  BY <1>1, SortKeeps
<1>2. CASE NextField
  BY <1>2, NextFieldKeeps
<1>3. CASE SetCouplingSource
  BY <1>3, SetCouplingSourceKeeps
<1>4. CASE SourcesAreSet \/ EndProblem
  BY <1>4, MoveActionsKeep
<1>5. CASE SolveField /\ UNCHANGED problemVars
  <2>1. CASE SolveSteady
    BY <1>5, <2>1, SolveSteadyKeeps
  <2>2. CASE SteadyAdaptiveStep
    BY <1>5, <2>2, SteadyAdaptiveStepKeeps
  <2>3. CASE SteadyAborted \/ EndTimeLoop \/ EndTransient
    BY <1>5, <2>3, MoveActionsKeep
  <2>4. CASE StoreInitialCondition
    BY <1>5, <2>4, StoreInitialConditionKeeps
  <2>5. CASE BeginTimeStep
    BY <1>5, <2>5, BeginTimeStepKeeps
  <2>6. CASE AcceptTimeStep
    BY <1>5, <2>6, AcceptTimeStepKeeps
  <2>7. CASE RestartTransient
    BY <1>5, <2>7, RestartTransientKeeps
  <2>8. CASE RefuseTimeStep
    BY <1>5, <2>8, RefuseTimeStepKeeps
  <2>9. CASE RereadStep
    BY <1>5, <2>9, RereadStepKeeps
  <2> QED BY <1>5, <2>1, <2>2, <2>3, <2>4, <2>5, <2>6, <2>7, <2>8, <2>9 DEF SolveField
<1>6. CASE AbortSolving \/ Ended \/ UNCHANGED vars
  BY <1>6, AbortKeeps DEF Ended
<1> QED BY <1>1, <1>2, <1>3, <1>4, <1>5, <1>6 DEF Next, SolverThread

\* The inductive invariant holds of every problem whose repeated first steps are fixed.
LEMMA SpecIInv ==
    ASSUME RepeatedStepsAreFixed PROVE Spec => []IInv
<1>1. IInv /\ [Next]_vars => IInv'
  BY NextKeepsIInv
<1> QED BY <1>1, InitIInv, PTL DEF Spec

\* The solver's state keeps its type whatever the problems, the lengths and the caches:
\* the counters of ProblemSolver.cpp's loops name solutions that the store can hold.
THEOREM SpecTypeOK ==
    ASSUME RepeatedStepsAreFixed PROVE Spec => []TypeOK
<1>1. IInv => TypeOK
  BY DEF IInv
<1> QED BY <1>1, SpecIInv, PTL

\* A finite set of numbers that is not empty has a largest one.
LEMMA LargestValue ==
    ASSUME NEW S, IsFiniteSet(S), S # {}, NEW f \in [S -> Nat]
    PROVE  \E x \in S : \A y \in S : f[y] <= f[x]
<1>0. PICK n \in Nat : \E g \in [1 .. n -> S] : \A y \in S : \E j \in 1 .. n : g[j] = y
  BY FS_NatSurjection DEF ExistsSurjection, Surjection
<1>1. PICK g \in [1 .. n -> S] : \A y \in S : \E j \in 1 .. n : g[j] = y
  BY <1>0
<1> DEFINE T == {k \in 0 .. n : k = 0 \/ \E x \in S : \A j \in 1 .. k : f[g[j]] <= f[x]}
<1>2. 0 \in T
  OBVIOUS
<1>3. ASSUME NEW k \in 0 .. n - 1, k \in T PROVE k + 1 \in T
  <2>1. k + 1 \in 1 .. n /\ g[k + 1] \in S
    BY <1>1
  <2>2. \A j \in 1 .. k : g[j] \in S
    BY <1>1
  <2> DEFINE new == g[k + 1]
  <2>3. \E x \in S : \A j \in 1 .. k + 1 : f[g[j]] <= f[x]
    <3>1. CASE k = 0
      <4>1. \A j \in 1 .. k + 1 : f[g[j]] <= f[new]
        BY <2>1, <3>1
      <4> QED BY <2>1, <4>1
    <3>2. CASE k # 0
      <4>1. PICK x \in S : \A j \in 1 .. k : f[g[j]] <= f[x]
        BY <1>3, <3>2
      <4>2. CASE f[new] <= f[x]
        <5>1. \A j \in 1 .. k + 1 : f[g[j]] <= f[x]
          <6> TAKE j \in 1 .. k + 1
          <6>1. CASE j = k + 1
            BY <4>2, <6>1
          <6>2. CASE j # k + 1
            <7>1. j \in 1 .. k
              BY <6>2
            <7> QED BY <4>1, <7>1
          <6> QED BY <6>1, <6>2
        <5> QED BY <2>1, <5>1
      <4>3. CASE ~(f[new] <= f[x])
        <5>1. \A j \in 1 .. k + 1 : f[g[j]] <= f[new]
          BY <2>1, <2>2, <4>1, <4>3
        <5> QED BY <2>1, <5>1
      <4> QED BY <4>2, <4>3
    <3> QED BY <3>1, <3>2
  <2> QED BY <2>1, <2>3
<1> HIDE DEF T
<1>4. \A k \in 0 .. n : k \in T
  BY <1>1, <1>2, <1>3, SetInduction
<1>5. n \in T /\ n # 0
  BY <1>1, <1>4
<1> QED BY <1>1, <1>5 DEF T

\* The solution that the store calls the last of a field is the newest one of it.
LEMMA NewestIsNewest ==
    ASSUME NEW f, Contains(NewestSolution(f))
    PROVE  NewestSolution(f).field = f /\ IsNewest(NewestSolution(f))
<1> DEFINE S == {i \in Indexed : i.field = f}
           t == LastTimeStep(f)
           R == {i \in Indexed : i.field = f /\ i.timeStep = t}
           k == LastAdaptiveStep(f, t)
           id == NewestSolution(f)
<1>1. id \in Indexed /\ id.field = f /\ id.timeStep = t /\ id.adaptivityStep = k
  BY DEF NewestSolution, ID, Contains, Indexed
<1>2. IsFiniteSet(S) /\ IsFiniteSet(R) /\ id \in S /\ id \in R
      /\ \A i \in Indexed : i.timeStep \in Nat /\ i.adaptivityStep \in Nat
  <2>1. S \subseteq SolutionIDs /\ R \subseteq SolutionIDs
    BY DEF Indexed
  <2> QED BY <1>1, <2>1, FS_Subset, SolutionIDsAssumption DEF Indexed
<1>3. \A i \in S : i.timeStep <= t
  <2> DEFINE h == [i \in S |-> i.timeStep]
             T == {i.timeStep : i \in S}
  <2>1. PICK x \in S : \A y \in S : h[y] <= h[x]
    <3>1. h \in [S -> Nat] /\ S # {}
      BY <1>2
    <3> HIDE DEF S, h
    <3> QED BY <1>2, <3>1, LargestValue
  <2>2. T # {} /\ x.timeStep \in T /\ \A m \in T : m <= x.timeStep
    BY <2>1
  <2>3. t = Largest(T)
    BY DEF LastTimeStep
  <2> HIDE DEF T, t
  <2>4. \A m \in T : m <= t
    BY <2>2, <2>3 DEF Largest
  <2> QED BY <2>4 DEF T
<1>4. \A i \in R : i.adaptivityStep <= k
  <2> DEFINE h == [i \in R |-> i.adaptivityStep]
             T == {i.adaptivityStep : i \in R}
  <2>1. PICK x \in R : \A y \in R : h[y] <= h[x]
    <3>1. h \in [R -> Nat] /\ R # {}
      BY <1>2
    <3> HIDE DEF R, h
    <3> QED BY <1>2, <3>1, LargestValue
  <2>2. T # {} /\ x.adaptivityStep \in T /\ \A m \in T : m <= x.adaptivityStep
    BY <2>1
  <2>3. k = Largest(T)
    BY DEF LastAdaptiveStep
  <2> HIDE DEF T, k
  <2>4. \A m \in T : m <= k
    BY <2>2, <2>3 DEF Largest
  <2> QED BY <2>4 DEF T
<1> HIDE DEF t, k, id
<1> QED BY <1>1, <1>3, <1>4 DEF IsNewest, id

-----------------------------------------------------------------------------
\* Which fields a step leaves alone

\* Nothing the store holds of field f changes.
FieldStays(f) ==
    \A i \in SolutionIDs : i.field = f =>
        /\ multiSolutions'[i] = multiSolutions[i]
        /\ runTimeDetails'[i] = runTimeDetails[i]
        /\ dataFiles'[i] = dataFiles[i]
        /\ dealCache'[i] = dealCache[i]

\* Adding a solution leaves the other fields alone.
LEMMA AddLeavesOthers ==
    ASSUME NEW id, NEW s, NEW r, AddSolution(id, s, r)
    PROVE  OthersStay(id.field)
<1>1. /\ multiSolutions' = [multiSolutions EXCEPT ![id] = @ + 1]
      /\ runTimeDetails' = [runTimeDetails EXCEPT ![id] = r]
      /\ dataFiles' = [dataFiles EXCEPT ![id] = s]
      /\ dealCache' = [i \in SolutionIDs |->
              IF i = id THEN s ELSE IF i \in Flushed(id, dealCache) THEN None ELSE dealCache[i]]
  BY DEF AddSolution, InsertToCache
<1>2. \A i \in Flushed(id, dealCache) : i.field = id.field
  BY DEF Flushed
<1> SUFFICES ASSUME NEW i \in SolutionIDs, i.field # id.field
             PROVE  /\ multiSolutions'[i] = multiSolutions[i]
                    /\ runTimeDetails'[i] = runTimeDetails[i]
                    /\ dataFiles'[i] = dataFiles[i]
                    /\ dealCache'[i] = dealCache[i]
  BY DEF OthersStay
<1>3. i # id
  OBVIOUS
<1>4. i \notin Flushed(id, dealCache)
  BY <1>2
<1>5. dealCache'[i] = dealCache[i]
  BY <1>1, <1>3, <1>4
<1> QED BY <1>1, <1>3, <1>5

\* So does storing what a step has solved.
LEMMA StoreLeavesOthers ==
    ASSUME NEW id, NEW s, NEW r, NEW next, Store(id, s, r, next)
    PROVE  OthersStay(id.field)
<1>1. CASE MayAdd(id)
  BY <1>1, AddLeavesOthers DEF Store
<1>2. CASE ~MayAdd(id)
  BY <1>2 DEF Store, storeVars, OthersStay
<1> QED BY <1>1, <1>2

\* So does reading a solution into the cache.
LEMMA ReadLeavesOthers ==
    ASSUME NEW id, MultiArray(id)
    PROVE  OthersStay(id.field)
<1>1. UNCHANGED <<multiSolutions, runTimeDetails, dataFiles>>
  BY DEF MultiArray
<1>2. CASE id \in Cached
  BY <1>1, <1>2 DEF MultiArray, OthersStay
<1>3. CASE id \notin Cached
  <2> DEFINE s == Loaded(id)
  <2>1. dealCache' = [i \in SolutionIDs |->
              IF i = id THEN s ELSE IF i \in Flushed(id, dealCache) THEN None ELSE dealCache[i]]
    BY <1>3 DEF MultiArray, InsertToCache
  <2> HIDE DEF s
  <2>2. \A i \in Flushed(id, dealCache) : i.field = id.field
    BY DEF Flushed
  <2>3. \A i \in SolutionIDs : i.field # id.field => dealCache'[i] = dealCache[i]
    BY <2>1, <2>2
  <2> QED BY <1>1, <2>3 DEF OthersStay
<1> QED BY <1>2, <1>3

\* So does removing one.
LEMMA RemoveLeavesOthers ==
    ASSUME NEW id, RemoveSolution(id)
    PROVE  OthersStay(id.field)
<1>1. /\ multiSolutions' = [multiSolutions EXCEPT ![id] = @ - 1]
      /\ runTimeDetails' = [runTimeDetails EXCEPT ![id] = None]
      /\ dataFiles' = [dataFiles EXCEPT ![id] = None]
      /\ dealCache' = [dealCache EXCEPT ![id] = None]
  BY DEF RemoveSolution, RemoveFiles, RemoveFromCache
<1> QED BY <1>1 DEF OthersStay

\* A step of the solving of a field changes the store for this field only.
LEMMA SolveFieldFrame ==
    ASSUME RepeatedStepsAreFixed, IInv, SolveField, UNCHANGED problemVars
    PROVE  /\ OthersStay(target)
           /\ Busy /\ pc # "sources" /\ pc' \notin {"sources", "done"}
           /\ UNCHANGED <<problem, order, turn, looked, held, target>>
<1>0. \A k, n : ID(target, k, n).field = target
  BY DEF ID
<1>1. CASE SolveSteady
  BY <1>0, <1>1, StoreLeavesOthers DEF SolveSteady, Busy, computationVars, problemVars, Store, Crash
<1>2. CASE SteadyAdaptiveStep
  BY <1>0, <1>2, StoreLeavesOthers DEF SteadyAdaptiveStep, Busy, problemVars, Store, Crash
<1>3. CASE SteadyAborted \/ EndTimeLoop \/ EndTransient
  BY <1>3, StoreStays DEF SteadyAborted, EndTimeLoop, EndTransient, Busy,
     computationVars , problemVars, IInv
<1>4. CASE StoreInitialCondition
  <2>1. OthersStay(target) /\ pc' \notin {"sources", "done"}
    <3>1. CASE TimeLastStep = 0
      BY <1>0, <1>4, <3>1, StoreLeavesOthers DEF StoreInitialCondition, Store, Crash
    <3>2. CASE TimeLastStep # 0
      BY <1>4, <3>2, StoreStays DEF StoreInitialCondition, Crash, IInv
    <3> QED BY <3>1, <3>2
  <2> QED BY <1>4, <2>1 DEF StoreInitialCondition, Busy, computationVars, problemVars
<1>5. CASE BeginTimeStep
  BY <1>5, StoreStays DEF BeginTimeStep, Busy, computationVars, problemVars, IInv
<1>6. CASE AcceptTimeStep
  <2> DEFINE id == ID(target, timeStep, adaptiveStep)
             s == [mesh |-> calculationMesh, vector |-> solverTime]
  <2>1. PICK settled \in BOOLEAN :
           Store(id, s, ActualLength,
                 IF settled \/ adaptiveStep + 1 = MaxAdaptiveSteps THEN "timeLoop" ELSE "step")
    BY <1>6 DEF AcceptTimeStep
  <2> DEFINE next == IF settled \/ adaptiveStep + 1 = MaxAdaptiveSteps THEN "timeLoop" ELSE "step"
  <2>2. next \notin {"sources", "done"} /\ Store(id, s, ActualLength, next)
    BY <2>1
  <2> HIDE DEF id, s, next
  <2>3. OthersStay(id.field)
    BY <2>2, StoreLeavesOthers
  <2>4. pc' \notin {"sources", "done"}
    BY <2>2 DEF Store, Crash
  <2>5. OthersStay(target)
    BY <1>0, <2>3 DEF id
  <2> QED BY <1>6, <2>4, <2>5 DEF AcceptTimeStep, Busy, problemVars
<1>7. CASE RestartTransient
  <2>1. pc = "step" /\ timeStep = 2 /\ problem.timeMethod = "BDF"
    BY <1>7, RefusedFacts DEF RestartTransient
  <2>2. OthersStay(target) /\ pc' \notin {"sources", "done"}
    <3>1. CASE Contains(solutionID)
      <4>1. target \in Fields /\ ~Steady /\ MaxAdaptivitySteps \in Nat /\ problem \in Problems
        BY <2>1, StepFacts DEF IInv, TypeOK
      <4>2. MaxAdaptivitySteps <= 1
        <5>1. problem.analysis[target] = "transient"
          BY <4>1, Facts DEF Steady
        <5> QED BY <2>1, <4>1, <5>1 DEF RepeatedStepsAreFixed, MaxAdaptivitySteps, Fields
      <4>3. solutionID = ID(target, 1, 0)
        BY <2>1, <4>2 DEF IInv, OneForEachStep
      <4> QED BY <1>0, <1>7, <3>1, <4>3, RemoveLeavesOthers DEF RestartTransient
    <3>2. CASE ~Contains(solutionID)
      BY <1>7, <3>2, StoreStays DEF RestartTransient, Crash, IInv
    <3> QED BY <3>1, <3>2
  <2> QED BY <1>7, <2>1, <2>2 DEF RestartTransient, Busy, problemVars
<1>8. CASE RefuseTimeStep
  <2>1. pc = "step"
    BY <1>8, RefusedFacts DEF RefuseTimeStep
  <2> QED BY <1>8, <2>1, StoreStays DEF RefuseTimeStep, Busy, computationVars, problemVars, IInv
<1>9. CASE RereadStep
  <2> DEFINE id == ID(target, rereadStep, LastAdaptiveStep(target, rereadStep))
  <2>1. IF Contains(id) THEN MultiArray(id) ELSE UNCHANGED storeVars
    BY <1>9 DEF RereadStep
  <2>2. id.field = target
    BY <1>0
  <2> HIDE DEF id
  <2>3. OthersStay(target)
    BY <2>1, <2>2, ReadLeavesOthers, StoreStays DEF IInv
  <2> QED BY <1>9, <2>3 DEF RereadStep, Busy, computationVars, problemVars
<1> QED BY <1>1, <1>2, <1>3, <1>4, <1>5, <1>6, <1>7, <1>8, <1>9 DEF SolveField

-----------------------------------------------------------------------------
\* The sources

\* What is newest in the store stays so while nothing of its field changes.
LEMMA NewestStays ==
    ASSUME NEW id, FieldStays(id.field), Contains(id), IsNewest(id)
    PROVE  /\ Contains(id)' /\ IsNewest(id)'
           /\ id \in Cached => id \in Cached'
<1>1. id \in SolutionIDs /\ multiSolutions'[id] = multiSolutions[id] /\ dealCache'[id] = dealCache[id]
  BY DEF Contains, FieldStays
<1>2. \A other \in SolutionIDs : other.field = id.field => (other \in Indexed' <=> other \in Indexed)
  BY DEF FieldStays, Indexed
<1>3. \A other \in Indexed' : other \in SolutionIDs
  BY DEF Indexed
<1>4. IsNewest(id)'
  BY <1>2, <1>3 DEF IsNewest
<1> QED BY <1>1, <1>4 DEF Contains, Cached, CachedIn

\* What stays for the others than f stays for each other field.
LEMMA OthersStayFields ==
    ASSUME NEW f, OthersStay(f), NEW g, g # f PROVE FieldStays(g)
BY DEF OthersStay, FieldStays

\* The fields of the order are each in one place.
LEMMA EarlierFieldsDiffer ==
    ASSUME IInv, NEW i \in 1 .. Len(order), NEW k \in 1 .. i - 1
    PROVE  order[k] # order[i] /\ order[k] \in Fields
<1>1. order \in Seq(Fields) /\ IsInjective(order) /\ k \in DOMAIN order /\ i \in DOMAIN order
  BY DEF IInv, TypeOK
<1> QED BY <1>1 DEF IsInjective

\* A step that takes no source keeps what the solvers were given.
LEMMA SourcesStay ==
    ASSUME IInv, SourcesInv, pc # "crashed",
           UNCHANGED <<problem, order, turn, looked, held>>,
           \A k \in 1 .. turn - 1 : FieldStays(order[k]),
           pc = "sources" <=> pc' = "sources",
           Busy' => Busy
    PROVE  SourcesInv'
<1>1. \A i : Known(i)' = Known(i)
  BY DEF Known, Fields
<1>2. turn \in Nat /\ DOMAIN order = 1 .. Len(order) /\ turn <= Len(order)
  BY DEF IInv, TypeOK
<1> SUFFICES ASSUME NEW i \in DOMAIN order
             PROVE  /\ DOMAIN held[order[i]] = Known(i)
                    /\ \A g \in Known(i) :
                          /\ SourceIsFinal(i, g)'
                          /\ Busy' /\ i = turn => held[order[i]][g] \in Cached'
  BY <1>1 DEF SourcesInv
<1>3. DOMAIN held[order[i]] = Known(i)
  BY DEF SourcesInv
<1>4. ASSUME NEW g \in Known(i)
      PROVE  /\ SourceIsFinal(i, g)'
             /\ Busy' /\ i = turn => held[order[i]][g] \in Cached'
  <2>0. i <= turn
    BY <1>2, <1>4 DEF Known
  <2>1. SourceIsFinal(i, g) /\ (Busy /\ i = turn => held[order[i]][g] \in Cached)
    BY DEF SourcesInv
  <2>2. PICK id : id = held[order[i]][g]
    OBVIOUS
  <2>3. PICK k \in 1 .. i - 1 : g = order[k]
    BY <2>1 DEF SourceIsFinal
  <2>4. id.field = g /\ Contains(id) /\ IsNewest(id)
    BY <2>1, <2>2 DEF SourceIsFinal
  <2>5. FieldStays(id.field)
    <3>1. k \in 1 .. turn - 1
      BY <1>2, <2>0
    <3> QED BY <2>3, <2>4, <3>1
  <2>6. Contains(id)' /\ IsNewest(id)' /\ (id \in Cached => id \in Cached')
    BY <2>4, <2>5, NewestStays
  <2>7. id = held'[order'[i]][g] /\ \E j \in 1 .. i - 1 : g = order'[j]
    BY <2>2, <2>3
  <2>8. SourceIsFinal(i, g)'
    BY <2>4, <2>6, <2>7 DEF SourceIsFinal
  <2> QED BY <2>1, <2>2, <2>6, <2>8
<1> QED BY <1>3, <1>4

\* At first no solver holds a source.
LEMMA InitSourcesInv == Init => SourcesInv
<1> SUFFICES ASSUME Init PROVE SourcesInv
  OBVIOUS
<1>1. order \in Seq(Fields) /\ DOMAIN order = 1 .. Len(order)
  BY Facts DEF Init, SolverInit
<1> SUFFICES ASSUME NEW i \in DOMAIN order
             PROVE  DOMAIN held[order[i]] = {} /\ Known(i) = {}
  BY DEF SourcesInv
<1>2. order[i] \in Fields /\ i > turn
  BY <1>1 DEF Init
<1>3. Known(i) = {}
  BY <1>1, <1>2 DEF Known, Init
<1> QED BY <1>2, <1>3 DEF Init, NoFields, Fields

\* Sorting the fields keeps the sources.
LEMMA SortKeepsSources ==
    ASSUME IInv, IInv', SourcesInv, SortFields PROVE SourcesInv'
<1>1. pc = "sort" /\ pc' \in {"sort", "nextField"} /\ turn = 0 /\ turn' = 0
      /\ held' = held /\ problem' = problem
  BY DEF SortFields, IInv, Places, computationVars
<1>2. /\ order \in Seq(Fields) /\ Range(order) = Fields /\ DOMAIN order = 1 .. Len(order)
      /\ order' \in Seq(Fields) /\ DOMAIN order' = 1 .. Len(order')
  BY <1>1 DEF IInv, TypeOK, Fields
<1> SUFFICES ASSUME NEW i \in DOMAIN order'
             PROVE  DOMAIN held'[order'[i]] = {} /\ Known(i)' = {}
  BY DEF SourcesInv
<1>3. i \in Nat /\ i > 0 /\ order'[i] \in Fields
  BY <1>2
<1>4. PICK j \in DOMAIN order : order[j] = order'[i]
  BY <1>2, <1>3 DEF Range
<1>5. j \in Nat /\ j > 0 /\ Known(j) = {}
  BY <1>1, <1>2 DEF Known
<1>6. DOMAIN held[order[j]] = {}
  BY <1>1, <1>5 DEF SourcesInv
<1>7. Known(i)' = {}
  BY <1>1, <1>3 DEF Known
<1> QED BY <1>1, <1>4, <1>6, <1>7

\* Going on to the next field keeps the sources.
LEMMA NextFieldKeepsSources ==
    ASSUME IInv, SourcesInv, NextField PROVE SourcesInv'
<1>1. /\ pc = "nextField" /\ pc' = "sources" /\ turn' = turn + 1 /\ looked' = 0
      /\ UNCHANGED <<problem, order, held, storeVars>>
  BY DEF NextField, computationVars
<1>2. turn \in Nat /\ DOMAIN order = 1 .. Len(order) /\ Len(order) \in Nat
  BY DEF IInv, TypeOK
<1>3. Indexed' = Indexed /\ (\A f : OthersStay(f))
  BY <1>1, StoreStays DEF IInv
<1> SUFFICES ASSUME NEW i \in DOMAIN order
             PROVE  /\ DOMAIN held[order[i]] = Known(i)'
                    /\ \A g \in Known(i)' :
                          /\ SourceIsFinal(i, g)'
                          /\ i # turn'
  BY <1>1 DEF SourcesInv
<1>4. Known(i)' = Known(i) /\ (i = turn' => Known(i)' = {})
  <2>0. i \in Nat /\ Fields' = Fields
    BY <1>1, <1>2 DEF Fields
  <2>1. CASE i <= turn
    <3>1. Known(i) = PluginCouplings[order[i]] \cap Fields
      BY <1>1, <1>2, <2>0, <2>1 DEF Known
    <3>2. Known(i)' = PluginCouplings[order[i]] \cap Fields
      BY <1>1, <1>2, <2>0, <2>1 DEF Known
    <3> QED BY <1>1, <1>2, <2>0, <2>1, <3>1, <3>2
  <2>2. CASE i = turn + 1
    <3>1. Known(i) = {}
      BY <1>2, <2>0, <2>2 DEF Known
    <3>2. Known(i)' = {order[j] : j \in {k \in 1 .. 0 : order[k] \in PluginCouplings[order[i]]}}
      BY <1>1, <1>2, <2>0, <2>2 DEF Known
    <3>3. Known(i)' = {}
      BY <3>2
    <3> QED BY <3>1, <3>3
  <2>3. CASE i > turn + 1
    BY <1>1, <1>2, <2>0, <2>3 DEF Known
  <2> QED BY <1>2, <2>0, <2>1, <2>2, <2>3
<1>5. DOMAIN held[order[i]] = Known(i) /\ \A g \in Known(i) : SourceIsFinal(i, g)
  BY <1>1 DEF SourcesInv
<1>6. ASSUME NEW g, SourceIsFinal(i, g) PROVE SourceIsFinal(i, g)'
  BY <1>1, <1>3, <1>6 DEF SourceIsFinal, Contains, IsNewest, storeVars
<1> QED BY <1>4, <1>5, <1>6

\* The source taken is the newest one of its field, and read into the cache without
\* throwing one out that was taken before.
LEMMA SetCouplingSourceKeepsSources ==
    ASSUME IInv, SourcesInv, SetCouplingSource PROVE SourcesInv'
<1>0. pc = "sources" /\ Busy
  BY DEF SetCouplingSource, Busy
<1>1. /\ target \in Fields /\ turn \in 1 .. Len(order) /\ target = order[turn]
  BY <1>0, BusyFacts
<1>2. PICK i \in SourcesLeft :
          LET id == NewestSolution(order[i])
          IN  /\ \A j \in SourcesLeft : i <= j
              /\ looked' = i
              /\ IF Contains(id)
                 THEN /\ MultiArray(id)
                      /\ held' = [held EXCEPT ![target] =
                             [f \in DOMAIN @ \cup {id.field} |->
                                 IF f = id.field THEN id ELSE @[f]]]
                      /\ UNCHANGED pc
                 ELSE Crash /\ UNCHANGED <<storeVars, held>>
  BY DEF SetCouplingSource
<1>20. PICK id : id = NewestSolution(order[i])
  OBVIOUS
<1> DEFINE source == order[i]
<1>3. CASE ~Contains(id)
  BY <1>2, <1>20, <1>3 DEF Crash, SourcesInv
<1>4. CASE Contains(id)
  <2>1. id.field = source /\ IsNewest(id) /\ id \in SolutionIDs /\ MultiArray(id)
    <3>1. NewestSolution(order[i]).field = order[i] /\ IsNewest(NewestSolution(order[i]))
      BY <1>20, <1>4, NewestIsNewest
    <3> QED BY <1>2, <1>20, <1>4, <3>1 DEF Contains
  <2> DEFINE h == [f \in DOMAIN held[target] \cup {id.field} |->
                       IF f = id.field THEN id ELSE held[target][f]]
  <2>2. /\ held' = [held EXCEPT ![target] = h] /\ pc' = pc /\ looked' = i
        /\ \A j \in SourcesLeft : i <= j
    BY <1>2, <1>20, <1>4
  <2>3. /\ UNCHANGED <<multiSolutions, problem, order, turn, target>> /\ id \in Cached'
        /\ \A j \in SolutionIDs : j.field # id.field => dealCache'[j] = dealCache[j]
    BY <2>1, ReadStored DEF IInv, SetCouplingSource, computationVars
  <2>4. /\ order \in Seq(Fields) /\ IsInjective(order) /\ DOMAIN order = 1 .. Len(order)
        /\ looked \in 0 .. Len(order) /\ DOMAIN held = Fields
    BY DEF IInv, TypeOK
  <2>5. i \in 1 .. Len(order) /\ i > looked /\ source \in PluginCouplings[target]
    BY <1>2, <2>4 DEF SourcesLeft
  <2>6. \A j \in 1 .. Len(order) : j > looked /\ order[j] \in PluginCouplings[target] => i <= j
    BY <2>2, <2>4 DEF SourcesLeft
  <2>7. PICK k \in 1 .. turn - 1 : source = order[k]
    <3>1. id \in Indexed
      BY <1>4, <2>1 DEF Contains, Indexed
    <3>2. (\E k \in 1 .. turn : id.field = order[k]) /\ id.field # target
      BY <1>0, <3>1 DEF IInv, Listed
    <3> QED BY <1>1, <2>1, <3>2
  <2>8. DOMAIN h = DOMAIN held[target] \cup {source} /\ h[source] = id
        /\ \A g \in DOMAIN held[target] : g # source => h[g] = held[target][g]
    BY <2>1
  <2> HIDE DEF h
  <2>9. \A n \in 1 .. Len(order) : n # turn => order[n] # target
    BY <1>1, <2>4 DEF IsInjective
  <2>10. /\ held'[target] = h
         /\ \A n \in 1 .. Len(order) : n # turn => held'[order[n]] = held[order[n]]
    BY <1>1, <2>2, <2>4, <2>9
  <2>11. Known(turn) = {order[j] : j \in {m \in 1 .. looked : order[m] \in PluginCouplings[target]}}
         /\ Known(turn)' = {order[j] : j \in {m \in 1 .. i : order[m] \in PluginCouplings[target]}}
    BY <1>0, <1>1, <2>2, <2>3 DEF Known
  <2>12. Known(turn)' = Known(turn) \cup {source}
    <3>1. \A m \in 1 .. i : order[m] \in PluginCouplings[target] => m \in 1 .. looked \/ m = i
      BY <2>4, <2>5, <2>6
    <3>2. \A m \in 1 .. looked : m \in 1 .. i
      BY <2>4, <2>5
    <3> HIDE DEF source
    <3>3. source = order[i] /\ i \in 1 .. i
      BY <2>5 DEF source
    <3>4. {order[j] : j \in {m \in 1 .. i : order[m] \in PluginCouplings[target]}}
          = {order[j] : j \in {m \in 1 .. looked : order[m] \in PluginCouplings[target]}} \cup {source}
      BY <2>5, <3>1, <3>2, <3>3
    <3> QED BY <2>11, <3>4
  <2>13. \A n \in 1 .. Len(order) : n # turn => Known(n)' = Known(n)
    BY <1>0, <1>1, <2>2, <2>3 DEF Known, Fields
  <2>14. ASSUME NEW g, IsNewest(g), Contains(g)
         PROVE  IsNewest(g)' /\ Contains(g)'
    BY <2>3, <2>14 DEF IsNewest, Contains, Indexed
  <2> HIDE DEF source
  <2>15. ASSUME NEW n \in 1 .. Len(order), n # turn
         PROVE  /\ DOMAIN held'[order'[n]] = Known(n)'
                /\ \A g \in Known(n)' : SourceIsFinal(n, g)'
    <3>1. DOMAIN held[order[n]] = Known(n) /\ \A g \in Known(n) : SourceIsFinal(n, g)
      BY <1>0, <2>4 DEF SourcesInv
    <3>2. ASSUME NEW g \in Known(n) PROVE SourceIsFinal(n, g)'
      BY <2>3, <2>10, <2>14, <2>15, <3>1 DEF SourceIsFinal
    <3> QED BY <2>3, <2>10, <2>13, <2>15, <3>1, <3>2
  <2>16. DOMAIN held'[order'[turn]] = Known(turn)'
    BY <1>0, <1>1, <2>3, <2>4, <2>8, <2>10, <2>12 DEF SourcesInv
  <2>17. ASSUME NEW g \in Known(turn)'
         PROVE  SourceIsFinal(turn, g)' /\ held'[order'[turn]][g] \in Cached'
    <3>1. held'[order'[turn]][g] = h[g]
      BY <1>1, <2>3, <2>10
    <3>2. CASE g = source
      <4>1. id.field = g /\ Contains(id)' /\ IsNewest(id)' /\ \E m \in 1 .. turn - 1 : g = order'[m]
        BY <1>4, <2>1, <2>3, <2>7, <2>14, <3>2
      <4>2. h[g] = id
        BY <2>8, <3>2
      <4> QED BY <2>3, <3>1, <4>1, <4>2 DEF SourceIsFinal
    <3>3. CASE g # source
      <4>1. g \in Known(turn)
        BY <2>12, <3>3
      <4>2. /\ DOMAIN held[target] = Known(turn) /\ SourceIsFinal(turn, g)
            /\ held[target][g] \in Cached
        BY <1>0, <1>1, <2>4, <4>1 DEF SourcesInv
      <4>3. h[g] = held[target][g]
        BY <2>8, <3>3, <4>1, <4>2
      <4>30. PICK old : old = held[target][g]
        OBVIOUS
      <4>4. old = held[order[turn]][g]
        BY <1>1, <4>30
      <4>5. old.field = g /\ Contains(old) /\ IsNewest(old) /\ \E m \in 1 .. turn - 1 : g = order[m]
        BY <4>2, <4>4 DEF SourceIsFinal
      <4>6. h[g] = old
        BY <4>3, <4>30
      <4>7. old \in Cached
        BY <4>2, <4>30
      <4>8. Contains(old)' /\ IsNewest(old)' /\ old \in Cached'
        <5>1. old.field # id.field /\ old \in SolutionIDs
          BY <2>1, <3>3, <4>5 DEF Contains
        <5>2. dealCache'[old] = dealCache[old]
          BY <2>3, <5>1
        <5>3. old \in Cached'
          BY <4>7, <5>1, <5>2 DEF Cached, CachedIn
        <5> QED BY <2>14, <4>5, <5>3
      <4> QED BY <2>3, <3>1, <4>5, <4>6, <4>8 DEF SourceIsFinal
    <3> QED BY <3>2, <3>3
  <2> QED BY <1>1, <2>3, <2>4, <2>15, <2>16, <2>17 DEF SourcesInv
<1> QED BY <1>3, <1>4

\* Once every field was looked at, the solver has all the sources of its couplings.
LEMMA SourcesAreSetKeepsSources ==
    ASSUME IInv, SourcesInv, SourcesAreSet PROVE SourcesInv'
<1>0. /\ pc = "sources" /\ Busy /\ pc' = "solve" /\ SourcesLeft = {}
      /\ UNCHANGED <<problem, order, turn, looked, held, target, storeVars>>
  BY DEF SourcesAreSet, Busy, computationVars, problemVars
<1>1. /\ target \in Fields /\ turn \in 1 .. Len(order) /\ target = order[turn]
  BY <1>0, BusyFacts
<1>2. /\ order \in Seq(Fields) /\ DOMAIN order = 1 .. Len(order) /\ Range(order) = Fields
      /\ looked \in 0 .. Len(order)
  BY DEF IInv, TypeOK
<1>3. Known(turn) = PluginCouplings[target] \cap Fields
  <2>1. Known(turn) = {order[j] : j \in {m \in 1 .. looked : order[m] \in PluginCouplings[target]}}
    BY <1>0, <1>1 DEF Known
  <2>2. \A m \in 1 .. Len(order) : order[m] \in PluginCouplings[target] => m \in 1 .. looked
    BY <1>0, <1>2 DEF SourcesLeft
  <2>3. \A g \in Fields : \E m \in 1 .. Len(order) : g = order[m]
    BY <1>2 DEF Range
  <2>4. \A m \in 1 .. looked : order[m] \in Fields
    BY <1>2
  <2> QED BY <2>1, <2>2, <2>3, <2>4
<1>4. \A n \in DOMAIN order : Known(n)' = Known(n)
  <2> TAKE n \in DOMAIN order
  <2>1. CASE n = turn
    <3>1. Known(n)' = PluginCouplings[target] \cap Fields
      BY <1>0, <1>1, <2>1 DEF Known, Fields
    <3> QED BY <1>3, <2>1, <3>1
  <2>2. CASE n # turn
    BY <1>0, <2>2 DEF Known, Fields
  <2> QED BY <2>1, <2>2
<1>5. ASSUME NEW n, NEW g, SourceIsFinal(n, g) PROVE SourceIsFinal(n, g)'
  BY <1>0, <1>5 DEF SourceIsFinal, Contains, IsNewest, Indexed, storeVars
<1>6. Cached' = Cached
  BY <1>0 DEF Cached, CachedIn, storeVars
<1>7. \A n \in DOMAIN order :
         /\ DOMAIN held[order[n]] = Known(n)
         /\ \A g \in Known(n) : SourceIsFinal(n, g) /\ (n = turn => held[order[n]][g] \in Cached)
  BY <1>0 DEF SourcesInv
<1> QED BY <1>0, <1>4, <1>5, <1>6, <1>7 DEF SourcesInv

\* Every step keeps the sources.
LEMMA NextKeepsSources ==
    ASSUME RepeatedStepsAreFixed, IInv, IInv', SourcesInv, [Next]_vars
    PROVE  SourcesInv'
<1>1. CASE SortFields
  BY <1>1, SortKeepsSources
<1>2. CASE NextField
  BY <1>2, NextFieldKeepsSources
<1>3. CASE SetCouplingSource
  BY <1>3, SetCouplingSourceKeepsSources
<1>4. CASE SourcesAreSet
  BY <1>4, SourcesAreSetKeepsSources
<1>5. CASE SolveField /\ UNCHANGED problemVars
  <2>1. /\ OthersStay(target) /\ Busy /\ pc # "sources" /\ pc' # "sources"
        /\ UNCHANGED <<problem, order, turn, looked, held, target>>
    BY <1>5, SolveFieldFrame
  <2>2. \A k \in 1 .. turn - 1 : FieldStays(order[k])
    <3> TAKE k \in 1 .. turn - 1
    <3>1. turn \in 1 .. Len(order) /\ target = order[turn]
      BY <2>1, BusyFacts
    <3>2. order[k] # target
      BY <3>1, EarlierFieldsDiffer
    <3> QED BY <2>1, <3>2, OthersStayFields
  <2> QED BY <2>1, <2>2, SourcesStay DEF Busy
<1>6. CASE EndProblem
  <2>1. /\ pc = "nextField" /\ pc' = "done"
        /\ UNCHANGED <<problem, order, turn, looked, held, storeVars>>
    BY <1>6 DEF EndProblem, computationVars, problemVars
  <2>2. \A k \in 1 .. turn - 1 : FieldStays(order[k])
    BY <2>1 DEF FieldStays, storeVars
  <2> QED BY <2>1, <2>2, SourcesStay DEF Busy
<1>7. CASE AbortSolving \/ Ended \/ UNCHANGED vars
  <2>1. pc' = pc /\ UNCHANGED <<problem, order, turn, looked, held, storeVars>>
    BY <1>7 DEF AbortSolving, Ended, vars, computationVars, problemVars
  <2>2. \A k \in 1 .. turn - 1 : FieldStays(order[k])
    BY <2>1 DEF FieldStays, storeVars
  <2>3. CASE pc = "crashed"
    BY <2>1, <2>3 DEF SourcesInv
  <2> QED BY <2>1, <2>2, <2>3, SourcesStay DEF Busy
<1> QED BY <1>1, <1>2, <1>3, <1>4, <1>5, <1>6, <1>7 DEF Next, SolverThread

\* The thread is done when it has been through all the fields.
AllTaken == pc = "done" => turn = Len(order)

\* Every step keeps this.
LEMMA NextKeepsAllTaken ==
    ASSUME RepeatedStepsAreFixed, IInv, AllTaken, [Next]_vars PROVE AllTaken'
<1>1. CASE SolveField /\ UNCHANGED problemVars
  BY <1>1, SolveFieldFrame DEF AllTaken
<1>2. CASE SortFields
  BY <1>2 DEF SortFields, AllTaken
<1>3. CASE NextField \/ SetCouplingSource \/ SourcesAreSet
  BY <1>3 DEF NextField, SetCouplingSource, SourcesAreSet, Crash, AllTaken
<1>4. CASE EndProblem
  BY <1>4 DEF EndProblem, AllTaken, problemVars
<1>5. CASE AbortSolving \/ Ended \/ UNCHANGED vars
  BY <1>5 DEF AbortSolving, Ended, vars, problemVars, AllTaken
<1> QED BY <1>1, <1>2, <1>3, <1>4, <1>5 DEF Next, SolverThread

\* The sources are as the invariant says in every reachable state.
LEMMA SpecSourcesInv ==
    ASSUME RepeatedStepsAreFixed PROVE Spec => [](IInv /\ SourcesInv /\ AllTaken)
<1>1. (IInv /\ SourcesInv /\ AllTaken) /\ [Next]_vars => (IInv /\ SourcesInv /\ AllTaken)'
  <2>1. IInv /\ [Next]_vars => IInv'
    BY NextKeepsIInv
  <2> QED BY <2>1, NextKeepsSources, NextKeepsAllTaken
<1>2. Init => IInv /\ SourcesInv /\ AllTaken
  BY InitIInv, InitSourcesInv DEF AllTaken, Init
<1> QED BY <1>1, <1>2, PTL DEF Spec

\* While Field::solve runs, none of the solutions that its weak forms were given as
\* coupling sources was thrown out of the deal cache since it was read.
THEOREM SpecHeldSourcesStayCached ==
    ASSUME RepeatedStepsAreFixed PROVE Spec => []HeldSourcesStayCached
<1>1. IInv /\ SourcesInv => HeldSourcesStayCached
  <2> SUFFICES ASSUME IInv, SourcesInv, Busy
               PROVE  \A f \in DOMAIN held[target] : held[target][f] \in Cached
    BY DEF HeldSourcesStayCached, Busy
  <2>1. turn \in DOMAIN order /\ target = order[turn] /\ pc # "crashed"
    <3>1. turn \in 1 .. Len(order) /\ target = order[turn] /\ DOMAIN order = 1 .. Len(order)
      BY BusyFacts DEF IInv, TypeOK
    <3> QED BY <3>1 DEF Busy
  <2> QED BY <2>1 DEF SourcesInv
<1> QED BY <1>1, SpecSourcesInv, PTL

\* A problem that was solved has given every field the last solution of each of its
\* sources: the sort puts sources first, and nothing is added to a field later.
THEOREM SpecCouplingsUseFinalSolutions ==
    ASSUME RepeatedStepsAreFixed PROVE Spec => []CouplingsUseFinalSolutions
<1>1. IInv /\ SourcesInv /\ AllTaken => CouplingsUseFinalSolutions
  <2> SUFFICES ASSUME IInv, SourcesInv, AllTaken, pc = "done", NEW f \in Fields
               PROVE  /\ DOMAIN held[f] = PluginCouplings[f] \cap Fields
                      /\ \A g \in DOMAIN held[f] : \A id \in Indexed :
                            id.field = g => /\ id.timeStep <= held[f][g].timeStep
                                            /\ id.timeStep = held[f][g].timeStep =>
                                                  id.adaptivityStep <= held[f][g].adaptivityStep
    BY DEF CouplingsUseFinalSolutions
  <2>1. DOMAIN order = 1 .. Len(order) /\ Range(order) = Fields
    BY DEF IInv, TypeOK
  <2>2. PICK i \in DOMAIN order : order[i] = f
    BY <2>1 DEF Range
  <2>3. Known(i) = PluginCouplings[f] \cap Fields
    <3>1. i \in 1 .. turn
      BY <2>1 DEF AllTaken
    <3>2. turn \in Nat /\ i \in Nat /\ (i < turn \/ (i = turn /\ pc # "sources"))
      BY <3>1 DEF IInv, TypeOK
    <3>3. Known(i) = PluginCouplings[order[i]] \cap Fields
      BY <3>2 DEF Known
    <3> QED BY <2>2, <3>3
  <2>4. DOMAIN held[f] = Known(i) /\ \A g \in Known(i) : SourceIsFinal(i, g)
    BY <2>2 DEF SourcesInv
  <2> QED BY <2>2, <2>3, <2>4 DEF SourceIsFinal, IsNewest
<1> QED BY <1>1, SpecSourcesInv, PTL

-----------------------------------------------------------------------------
\* The time axis

\* Without repeated steps, a transient field solves each step once.
LEMMA NoStepIsRepeatedHere ==
    ASSUME NoStepIsRepeated, IInv, target \in Fields, ~Steady
    PROVE  MaxAdaptivitySteps \in Nat /\ MaxAdaptivitySteps <= 1 /\ MaxAdaptiveSteps = 1
<1>1. problem \in Problems
  BY DEF IInv, TypeOK
<1>2. problem.analysis[target] = "transient" /\ MaxAdaptivitySteps \in Nat
  BY <1>1, Facts DEF Steady, MaxAdaptivitySteps
<1>3. MaxAdaptivitySteps <= 1
  BY <1>1, <1>2 DEF NoStepIsRepeated, MaxAdaptivitySteps, Fields
<1> QED BY <1>2, <1>3 DEF MaxAdaptiveSteps, HasAdaptivity

\* A transient field with a repeated first step has fixed steps.
LEMMA FixedWhenRepeated ==
    NoStepIsRepeated => RepeatedStepsAreFixed
<1> SUFFICES ASSUME NoStepIsRepeated, NEW p \in Problems, NEW f \in Range(p.fields),
                    p.analysis[f] = "transient", p.adaptivitySteps[f] > 1
             PROVE  FALSE
  BY DEF RepeatedStepsAreFixed
<1>1. p.adaptivitySteps[f] <= 1 /\ p.adaptivitySteps[f] \in Nat
  BY ProblemsAssumption DEF NoStepIsRepeated
<1> QED BY <1>1

\* Lengths, times and places of the solutions of field f stay.
RecordsStay(f) ==
    \A i \in SolutionIDs : i.field = f =>
        /\ multiSolutions'[i] = multiSolutions[i]
        /\ runTimeDetails'[i] = runTimeDetails[i]
        /\ dataFiles'[i] = dataFiles[i]

\* What changes for the others only leaves the records of f.
LEMMA RecordsStayWith ==
    ASSUME NEW f PROVE /\ FieldStays(f) => RecordsStay(f)
                       /\ UNCHANGED <<multiSolutions, runTimeDetails, dataFiles>> => RecordsStay(f)
BY DEF FieldStays, RecordsStay

\* A field whose records stay keeps its steps while the axis does.
LEMMA StepsStay ==
    ASSUME NEW f, StepsOf(f), RecordsStay(f), timeStepLengths' = timeStepLengths
    PROVE  StepsOf(f)'
<1>1. TimeLastStep' = TimeLastStep
  BY DEF TimeLastStep
<1> SUFFICES ASSUME NEW id \in SolutionIDs, id.field = f
             PROVE  IF id.timeStep <= TimeLastStep /\ id.adaptivityStep = 0
                    THEN /\ Contains(id)'
                         /\ runTimeDetails'[id] = timeStepLengths[id.timeStep + 1]
                         /\ dataFiles'[id].vector = SumOf(SubSeq(timeStepLengths, 1, id.timeStep + 1))
                    ELSE ~Contains(id)'
  BY <1>1 DEF StepsOf
<1>2. /\ multiSolutions'[id] = multiSolutions[id] /\ runTimeDetails'[id] = runTimeDetails[id]
      /\ dataFiles'[id] = dataFiles[id]
  BY DEF RecordsStay
<1>3. Contains(id)' <=> Contains(id)
  BY <1>2 DEF Contains
<1> QED BY <1>2, <1>3 DEF StepsOf

\* The lengths of the axis are a list of integers.
LEMMA LengthsAreIntegers ==
    ASSUME IInv PROVE /\ timeStepLengths \in Seq(Int) /\ timeStepLengths \in Seq(Nat)
                      /\ stepLengths \in Seq(Int) /\ stepLengths \in Seq(Positive)
<1>1. /\ timeStepLengths \in Seq(Lengths \cup {0}) /\ stepLengths \in Seq(Lengths)
  BY DEF IInv, TypeOK
<1>2. Lengths \cup {0} \subseteq Nat /\ Lengths \subseteq Positive
  BY TimeAssumption DEF Lengths, Positive
<1> HIDE DEF Lengths
<1>3. \A i \in 1 .. Len(timeStepLengths) : timeStepLengths[i] \in Nat
  BY <1>1, <1>2
<1>4. \A i \in 1 .. Len(stepLengths) : stepLengths[i] \in Positive
  BY <1>1, <1>2
<1>5. timeStepLengths \in Seq(Nat) /\ timeStepLengths \in Seq(Int)
  BY <1>1, <1>3
<1>6. stepLengths \in Seq(Positive)
  BY <1>1, <1>4
<1>7. stepLengths \in Seq(Int)
  BY <1>6 DEF Positive
<1> QED BY <1>5, <1>6, <1>7

\* The beginning of a list that something was appended to.
LEMMA BeginningOfAppend ==
    ASSUME NEW s \in Seq(Int), NEW x \in Int, NEW k \in 0 .. Len(s)
    PROVE  SubSeq(Append(s, x), 1, k) = SubSeq(s, 1, k)
<1> DEFINE t == Append(s, x)
<1>1. t \in Seq(Int) /\ Len(t) = Len(s) + 1 /\ Len(s) \in Nat /\ \A i \in 1 .. Len(s) : t[i] = s[i]
  BY AppendProperties
<1> HIDE DEF t
<1>2. /\ SubSeq(t, 1, k) = [i \in 1 .. k |-> t[i]]
      /\ SubSeq(s, 1, k) = [i \in 1 .. k |-> s[i]]
  BY <1>1
<1>3. \A i \in 1 .. k : t[i] = s[i]
  BY <1>1
<1> QED BY <1>2, <1>3 DEF t

\* A list is its beginning of its own length.
LEMMA WholeSubSeq ==
    ASSUME NEW s \in Seq(Int) PROVE SubSeq(s, 1, Len(s)) = s
<1>1. s = [i \in 1 .. Len(s) |-> s[i]]
  OBVIOUS
<1>2. SubSeq(s, 1, Len(s)) = [i \in 1 .. Len(s) |-> s[i]]
  OBVIOUS
<1> QED BY <1>1, <1>2

\* An identifier is known by its three parts.
LEMMA IdentifierOf ==
    ASSUME NEW id \in SolutionIDs
    PROVE  /\ id = ID(id.field, id.timeStep, id.adaptivityStep)
           /\ id.timeStep \in Nat /\ id.adaptivityStep \in Nat
BY SolutionIDsAssumption DEF ID

\* The axis at first.
LEMMA InitAxisInv == Init => AxisInv
BY DEF Init, SolverInit, AxisInv

\* Steps outside the time loop keep the axis.
LEMMA OutsideTheLoop ==
    ASSUME AxisInv, timeStepLengths' = timeStepLengths, pc' \notin {"timeLoop", "step", "reread"}
    PROVE  AxisInv'
BY DEF AxisInv

\* The initial condition is the solution at time 0.
LEMMA StoreInitialConditionKeepsAxis ==
    ASSUME IInv, AxisInv, StoreInitialCondition PROVE AxisInv'
<1>0. pc = "solve" /\ Busy /\ ~Steady
  BY DEF StoreInitialCondition, Busy
<1>1. target \in Fields /\ ID(target, 0, 0) \in SolutionIDs
  BY <1>0, BusyFacts, Facts DEF IInv, TypeOK
<1>2. timeStepLengths' = timeStepLengths /\ problem' = problem /\ target' = target
  BY DEF StoreInitialCondition, computationVars
<1>3. CASE pc' = "crashed"
  BY <1>2, <1>3, OutsideTheLoop
<1>4. CASE pc' # "crashed"
  <2> DEFINE s == [mesh |-> calculationMesh, vector |-> 0]
             zero == 0
  <2>0. PICK id : id = ID(target, 0, 0)
    OBVIOUS
  <2>1. TimeLastStep = 0 /\ Store(id, s, zero, "timeLoop")
    BY <1>4, <2>0 DEF StoreInitialCondition, Crash
  <2>2. id.field = target /\ id.timeStep = 0 /\ id.adaptivityStep = 0
    BY <2>0 DEF ID
  <2>3. s \in Solutions /\ zero \in RunTimes /\ s.vector = 0
    BY TimeAssumption DEF Solutions, IInv, TypeOK
  <2>4. \A i \in Indexed : i.field # target
    BY <1>0 DEF IInv, Listed
  <2>5. ~Contains(id)
    BY <2>2, <2>4 DEF Contains, Indexed
  <2> HIDE DEF s, zero
  <2>6. /\ id \in SolutionIDs /\ StoreTyped' /\ pc' = "timeLoop"
        /\ Indexed' = Indexed \cup {id}
        /\ runTimeDetails' = [runTimeDetails EXCEPT ![id] = zero]
        /\ dataFiles' = [dataFiles EXCEPT ![id] = s]
    BY <1>4, <2>1, <2>3, <2>5, StoreStep DEF IInv
  <2>7. timeStepLengths \in Seq(Int) /\ Len(timeStepLengths) = 1 /\ timeStepLengths[1] = 0
    <3>1. timeStepLengths \in Seq(Int)
      BY LengthsAreIntegers
    <3> QED BY <2>1, <3>1 DEF TimeLastStep, AxisInv
  <2>8. SumOf(timeStepLengths) = 0 /\ SubSeq(timeStepLengths, 1, 1) = timeStepLengths
    BY <2>7, SumOfFew, WholeSubSeq
  <2>10. \A i \in SolutionIDs : i.field = target =>
          IF i.timeStep <= 0 /\ i.adaptivityStep = 0
          THEN /\ i \in Indexed' /\ runTimeDetails'[i] = timeStepLengths[i.timeStep + 1]
               /\ dataFiles'[i].vector = SumOf(SubSeq(timeStepLengths, 1, i.timeStep + 1))
          ELSE i \notin Indexed'
    <3> SUFFICES ASSUME NEW i \in SolutionIDs, i.field = target
                 PROVE  IF i.timeStep <= 0 /\ i.adaptivityStep = 0
                        THEN /\ i \in Indexed' /\ runTimeDetails'[i] = timeStepLengths[i.timeStep + 1]
                             /\ dataFiles'[i].vector = SumOf(SubSeq(timeStepLengths, 1, i.timeStep + 1))
                        ELSE i \notin Indexed'
      OBVIOUS
    <3>1. CASE i = id
      <4>1. i \in Indexed' /\ runTimeDetails'[i] = 0 /\ dataFiles'[i].vector = 0
        BY <2>3, <2>6, <3>1 DEF IInv, StoreTyped, zero
      <4>2. i.timeStep = 0 /\ i.adaptivityStep = 0 /\ i.timeStep + 1 = 1
        BY <2>2, <3>1
      <4>3. timeStepLengths[i.timeStep + 1] = 0 /\ SumOf(SubSeq(timeStepLengths, 1, i.timeStep + 1)) = 0
        BY <2>7, <2>8, <4>2
      <4>4. i.timeStep <= 0
        BY <4>2
      <4> QED BY <4>1, <4>2, <4>3, <4>4, Zenon
    <3>2. CASE i # id
      <4>1. ~(i.timeStep <= 0 /\ i.adaptivityStep = 0)
        BY <2>0, <3>2, IdentifierOf
      <4>2. i \notin Indexed'
        BY <2>4, <2>6, <3>2
      <4> QED BY <4>1, <4>2
    <3> QED BY <3>1, <3>2
  <2>11. StepsOf(target)'
    BY <1>2, <2>1, <2>10 DEF StepsOf, Contains, Indexed, TimeLastStep
  <2>12. timeStep' = 1 /\ solverTime' = 0
    BY DEF StoreInitialCondition
  <2> QED BY <1>2, <2>6, <2>7, <2>8, <2>11, <2>12 DEF AxisInv
<1> QED BY <1>3, <1>4

\* An accepted step is stored at the time the axis then has.
LEMMA AcceptTimeStepKeepsAxis ==
    ASSUME NoStepIsRepeated, IInv, AxisInv, AcceptTimeStep PROVE AxisInv'
<1>0. pc = "step" /\ problem' = problem /\ target' = target
  BY DEF AcceptTimeStep
<1>1. /\ target \in Fields /\ ~Steady /\ ActualLength \in Int /\ ActualLength \in Lengths
      /\ solverTime \in 0 .. TimeTotal
      /\ timeStep \in Nat \ {0} /\ adaptiveStep \in Nat /\ adaptiveStep < MaxAdaptiveSteps
      /\ timeStepLengths \in Seq(Int) /\ Len(timeStepLengths) \in Nat \ {0}
  BY <1>0, StepFacts, LengthsAreIntegers
<1>2. MaxAdaptiveSteps = 1 /\ adaptiveStep = 0
  <2>1. MaxAdaptiveSteps = 1
    BY <1>1, NoStepIsRepeatedHere
  <2> QED BY <1>1, <2>1
<1>3. timeStep = Len(timeStepLengths) /\ solverTime = SumOf(timeStepLengths) + ActualLength
      /\ StepsOf(target)
  BY <1>0 DEF AxisInv
<1> DEFINE s == [mesh |-> calculationMesh, vector |-> solverTime]
<1>4. PICK id : id = ID(target, timeStep, 0)
  OBVIOUS
<1>5. id.field = target /\ id.timeStep = timeStep /\ id.adaptivityStep = 0
  BY <1>4 DEF ID
<1>6. /\ timeStepLengths' = Append(timeStepLengths, ActualLength)
      /\ Store(id, s, ActualLength, "timeLoop")
      /\ timeStep' = timeStep + 1 /\ solverTime' = solverTime
  BY <1>2, <1>4 DEF AcceptTimeStep
<1>7. s \in Solutions /\ ActualLength \in RunTimes /\ s.vector = solverTime
  BY <1>1, TimeAssumption DEF Solutions, IInv, TypeOK, Lengths
<1>8. ~Contains(id)
  <2> SUFFICES ASSUME id \in Indexed PROVE FALSE
    BY DEF Contains, Indexed
  <2>1. id.adaptivityStep < adaptiveStep
    BY <1>0, <1>5 DEF IInv, Listed
  <2> QED BY <1>2, <1>5, <2>1
<1>9. /\ timeStepLengths' # <<>> /\ timeStepLengths'[1] = 0
      /\ Len(timeStepLengths') = Len(timeStepLengths) + 1
      /\ timeStepLengths' \in Seq(Int)
      /\ timeStepLengths'[Len(timeStepLengths) + 1] = ActualLength
      /\ \A k \in 1 .. Len(timeStepLengths) : timeStepLengths'[k] = timeStepLengths[k]
  BY <1>1, <1>6 DEF AxisInv
<1> HIDE DEF s
<1>10. CASE pc' = "crashed"
  BY <1>9, <1>10 DEF AxisInv
<1>11. CASE pc' # "crashed"
  <2>1. /\ id \in SolutionIDs /\ StoreTyped' /\ pc' = "timeLoop"
        /\ Indexed' = Indexed \cup {id}
        /\ runTimeDetails' = [runTimeDetails EXCEPT ![id] = ActualLength]
        /\ dataFiles' = [dataFiles EXCEPT ![id] = s]
    <3> DEFINE r == ActualLength
    <3>1. Store(id, s, r, "timeLoop") /\ r \in RunTimes
      BY <1>6, <1>7
    <3> HIDE DEF r
    <3>2. /\ id \in SolutionIDs /\ StoreTyped' /\ pc' = "timeLoop"
          /\ Indexed' = Indexed \cup {id}
          /\ runTimeDetails' = [runTimeDetails EXCEPT ![id] = r]
          /\ dataFiles' = [dataFiles EXCEPT ![id] = s]
      BY <1>7, <1>8, <1>11, <3>1, StoreStep DEF IInv
    <3> QED BY <3>2 DEF r
  <2>2. SumOf(timeStepLengths') = solverTime
    <3>1. SumOf(timeStepLengths') = SumOf(timeStepLengths) + ActualLength
      BY <1>1, <1>6, SumOfAppend
    <3> QED BY <1>3, <3>1
  <2>3. \A i \in SolutionIDs : i.field = target =>
          IF i.timeStep <= Len(timeStepLengths) /\ i.adaptivityStep = 0
          THEN /\ i \in Indexed' /\ runTimeDetails'[i] = timeStepLengths'[i.timeStep + 1]
               /\ dataFiles'[i].vector = SumOf(SubSeq(timeStepLengths', 1, i.timeStep + 1))
          ELSE i \notin Indexed'
    <3> SUFFICES ASSUME NEW i \in SolutionIDs, i.field = target
                 PROVE  IF i.timeStep <= Len(timeStepLengths) /\ i.adaptivityStep = 0
                        THEN /\ i \in Indexed' /\ runTimeDetails'[i] = timeStepLengths'[i.timeStep + 1]
                             /\ dataFiles'[i].vector = SumOf(SubSeq(timeStepLengths', 1, i.timeStep + 1))
                        ELSE i \notin Indexed'
      OBVIOUS
    <3>0. i.timeStep \in Nat /\ i.adaptivityStep \in Nat
      BY IdentifierOf
    <3>1. CASE i = id
      <4>1. i \in Indexed' /\ runTimeDetails'[i] = ActualLength /\ dataFiles'[i].vector = solverTime
        BY <1>7, <2>1, <3>1 DEF IInv, StoreTyped
      <4>2. i.timeStep = Len(timeStepLengths) /\ i.adaptivityStep = 0
        BY <1>3, <1>5, <3>1
      <4>3. timeStepLengths'[i.timeStep + 1] = ActualLength
        BY <1>9, <4>2
      <4>4. SubSeq(timeStepLengths', 1, i.timeStep + 1) = timeStepLengths'
        BY <1>9, <4>2, WholeSubSeq
      <4>5. i.timeStep <= Len(timeStepLengths)
        BY <1>1, <4>2
      <4> QED BY <2>2, <4>1, <4>2, <4>3, <4>4, <4>5, Zenon
    <3>2. CASE i # id /\ i.timeStep <= Len(timeStepLengths) - 1 /\ i.adaptivityStep = 0
      <4>1. /\ Contains(i) /\ runTimeDetails[i] = timeStepLengths[i.timeStep + 1]
            /\ dataFiles[i].vector = SumOf(SubSeq(timeStepLengths, 1, i.timeStep + 1))
        BY <1>3, <3>2 DEF StepsOf, TimeLastStep
      <4>2. i \in Indexed' /\ runTimeDetails'[i] = runTimeDetails[i] /\ dataFiles'[i] = dataFiles[i]
        BY <2>1, <3>2, <4>1 DEF Contains, Indexed, IInv, StoreTyped
      <4>3. i.timeStep + 1 \in 1 .. Len(timeStepLengths) /\ i.timeStep + 1 \in 0 .. Len(timeStepLengths)
        BY <1>1, <3>0, <3>2
      <4> DEFINE k == i.timeStep + 1
      <4>4. SubSeq(timeStepLengths', 1, k) = SubSeq(timeStepLengths, 1, k)
        <5> HIDE DEF k
        <5>1. k \in 0 .. Len(timeStepLengths)
          BY <4>3 DEF k
        <5> QED BY <1>1, <1>6, <5>1, BeginningOfAppend
      <4>5. timeStepLengths'[k] = timeStepLengths[k]
        BY <1>9, <4>3
      <4>6. i.timeStep <= Len(timeStepLengths)
        BY <1>1, <3>0, <3>2
      <4> QED BY <3>2, <4>1, <4>2, <4>4, <4>5, <4>6, Zenon
    <3>3. CASE i # id /\ ~(i.timeStep <= Len(timeStepLengths) - 1 /\ i.adaptivityStep = 0)
      <4>1. ~Contains(i)
        BY <1>3, <3>3 DEF StepsOf, TimeLastStep
      <4>2. i \notin Indexed'
        BY <2>1, <3>3, <4>1 DEF Contains, Indexed
      <4>3. ~(i.timeStep <= Len(timeStepLengths) /\ i.adaptivityStep = 0)
        <5> SUFFICES ASSUME i.timeStep <= Len(timeStepLengths), i.adaptivityStep = 0 PROVE FALSE
          OBVIOUS
        <5>1. i.timeStep = timeStep
          BY <1>1, <1>3, <3>0, <3>3
        <5> QED BY <1>4, <3>3, <5>1, IdentifierOf
      <4> QED BY <4>2, <4>3
    <3> QED BY <3>1, <3>2, <3>3
  <2>4. TimeLastStep' = Len(timeStepLengths)
    BY <1>1, <1>9 DEF TimeLastStep
  <2>5. StepsOf(target)'
    BY <1>0, <2>3, <2>4 DEF StepsOf, Contains, Indexed
  <2>6. solverTime' = SumOf(timeStepLengths') + 0
    BY <1>1, <1>6, <2>2
  <2> QED BY <1>0, <1>1, <1>3, <1>6, <1>9, <2>1, <2>5, <2>6 DEF AxisInv
<1> QED BY <1>10, <1>11

\* Where no step is repeated, there is no restart either.
LEMMA RestartTransientKeepsAxis ==
    ASSUME NoStepIsRepeated, IInv, AxisInv, RestartTransient PROVE AxisInv'
<1>0. pc = "step" /\ timeStep = 2 /\ problem' = problem /\ target' = target
  BY RefusedFacts DEF RestartTransient
<1>1. target \in Fields /\ ~Steady /\ timeStepLengths \in Seq(Int)
  BY <1>0, StepFacts, LengthsAreIntegers
<1>2. /\ Len(timeStepLengths) = 2 /\ timeStepLengths[1] = 0 /\ StepsOf(target) /\ TimeLastStep = 1
  BY <1>0 DEF AxisInv, TimeLastStep
<1>3. PICK id : id = solutionID
  OBVIOUS
<1>4. id = ID(target, 1, 0)
  <2>1. MaxAdaptivitySteps <= 1
    BY <1>1, NoStepIsRepeatedHere
  <2> QED BY <1>0, <1>3, <2>1 DEF IInv, OneForEachStep
<1>5. timeStepLengths' = SubSeq(timeStepLengths, 1, 1) /\ timeStep' = 1 /\ solverTime' = 0
  BY <1>2 DEF RestartTransient
<1>6. timeStepLengths' \in Seq(Int) /\ Len(timeStepLengths') = 1 /\ timeStepLengths'[1] = 0
      /\ timeStepLengths' # <<>>
  <2> DEFINE t == timeStepLengths
             u == SubSeq(t, 1, 1)
  <2>1. t \in Seq(Int) /\ Len(t) = 2 /\ t[1] = 0
    BY <1>1, <1>2
  <2> HIDE DEF t
  <2>2. u \in Seq(Int) /\ Len(u) = 1 /\ u[1] = t[1]
    BY <2>1
  <2>3. timeStepLengths' = u
    BY <1>5 DEF t
  <2> HIDE DEF u
  <2>4. u # <<>>
    <3>1. Len(<<>>) = 0
      OBVIOUS
    <3>2. Len(u) # 0
      BY <2>2
    <3> QED BY <3>1, <3>2, Zenon
  <2> QED BY <2>1, <2>2, <2>3, <2>4
<1>7. SumOf(timeStepLengths') = 0 /\ SubSeq(timeStepLengths', 1, 1) = timeStepLengths'
  BY <1>6, SumOfFew, WholeSubSeq
<1>8. CASE ~Contains(id)
  <2>1. pc' = "crashed"
    BY <1>3, <1>8 DEF RestartTransient, Crash
  <2> QED BY <1>6, <2>1 DEF AxisInv
<1>9. CASE Contains(id)
  <2>1. RemoveSolution(id) /\ pc' = "timeLoop" /\ id \in SolutionIDs
    BY <1>3, <1>9 DEF RestartTransient, Contains
  <2>2. /\ multiSolutions' = [multiSolutions EXCEPT ![id] = 0]
        /\ runTimeDetails' = [runTimeDetails EXCEPT ![id] = None]
        /\ dataFiles' = [dataFiles EXCEPT ![id] = None]
    BY <2>1, RemoveStored DEF IInv
  <2>3. \A i \in SolutionIDs : i.field = target =>
          IF i.timeStep <= 0 /\ i.adaptivityStep = 0
          THEN /\ Contains(i)' /\ runTimeDetails'[i] = timeStepLengths'[i.timeStep + 1]
               /\ dataFiles'[i].vector = SumOf(SubSeq(timeStepLengths', 1, i.timeStep + 1))
          ELSE ~Contains(i)'
    <3> SUFFICES ASSUME NEW i \in SolutionIDs, i.field = target
                 PROVE  IF i.timeStep <= 0 /\ i.adaptivityStep = 0
                        THEN /\ Contains(i)' /\ runTimeDetails'[i] = timeStepLengths'[i.timeStep + 1]
                             /\ dataFiles'[i].vector = SumOf(SubSeq(timeStepLengths', 1, i.timeStep + 1))
                        ELSE ~Contains(i)'
      OBVIOUS
    <3>0. i.timeStep \in Nat /\ i.adaptivityStep \in Nat
      BY IdentifierOf
    <3>1. CASE i = id
      <4>1. i.timeStep = 1
        BY <1>4, <3>1 DEF ID
      <4>2. ~Contains(i)'
        BY <2>1, <2>2, <3>1 DEF Contains, IInv, StoreTyped
      <4> QED BY <4>1, <4>2
    <3>2. CASE i # id
      <4>1. /\ multiSolutions'[i] = multiSolutions[i] /\ runTimeDetails'[i] = runTimeDetails[i]
            /\ dataFiles'[i] = dataFiles[i]
        BY <2>1, <2>2, <3>2 DEF IInv, StoreTyped
      <4>2. CASE i.timeStep = 0 /\ i.adaptivityStep = 0
        <5>1. /\ Contains(i) /\ runTimeDetails[i] = timeStepLengths[i.timeStep + 1]
              /\ dataFiles[i].vector = SumOf(SubSeq(timeStepLengths, 1, i.timeStep + 1))
          BY <1>2, <4>2 DEF StepsOf
        <5>2. /\ runTimeDetails[i] = 0 /\ dataFiles[i].vector = SumOf(timeStepLengths')
          BY <1>2, <1>5, <4>2, <5>1
        <5>3. /\ timeStepLengths'[i.timeStep + 1] = 0
              /\ SumOf(SubSeq(timeStepLengths', 1, i.timeStep + 1)) = SumOf(timeStepLengths')
          <6>1. i.timeStep + 1 = 1
            BY <4>2
          <6> QED BY <1>6, <1>7, <6>1
        <5>4. Contains(i)' /\ i.timeStep <= 0
          BY <4>1, <4>2, <5>1 DEF Contains
        <5> QED BY <4>1, <4>2, <5>2, <5>3, <5>4, Zenon
      <4>3. CASE ~(i.timeStep = 0 /\ i.adaptivityStep = 0)
        <5>1. ~(i.timeStep <= 1 /\ i.adaptivityStep = 0)
          <6> SUFFICES ASSUME i.timeStep <= 1, i.adaptivityStep = 0 PROVE FALSE
            OBVIOUS
          <6>1. i.timeStep = 1
            BY <3>0, <4>3
          <6> QED BY <1>4, <3>2, <6>1, IdentifierOf
        <5>2. ~Contains(i)
          BY <1>2, <5>1 DEF StepsOf
        <5>3. ~Contains(i)'
          BY <4>1, <5>2 DEF Contains
        <5> QED BY <3>0, <4>3, <5>3
      <4> QED BY <4>2, <4>3
    <3> QED BY <3>1, <3>2
  <2>4. TimeLastStep' = 0
    BY <1>6 DEF TimeLastStep
  <2>5. StepsOf(target)'
    BY <1>0, <2>3, <2>4 DEF StepsOf
  <2> QED BY <1>0, <1>5, <1>6, <1>7, <2>1, <2>5 DEF AxisInv
<1> QED BY <1>8, <1>9

\* A step that begins adds its length to the time.
LEMMA BeginTimeStepKeepsAxis ==
    ASSUME IInv, AxisInv, BeginTimeStep PROVE AxisInv'
<1> DEFINE length == Clamped(solverTime, nextLength)
<1>1. /\ pc = "timeLoop" /\ pc' = "step" /\ solverTime' = solverTime + length
      /\ stepLengths' = Append(Recent(stepLengths), length)
      /\ UNCHANGED <<timeStepLengths, timeStep, target, multiSolutions, runTimeDetails, dataFiles>>
  BY DEF BeginTimeStep, storeVars, computationVars
<1> HIDE DEF length
<1>2. problem.timeOrder \in 1 .. 3 /\ stepLengths \in Seq(Lengths)
  BY Facts DEF IInv, TypeOK
<1>3. Recent(stepLengths) \in Seq(Lengths)
  BY <1>2, RecentKeeps
<1>4. ActualLength' = length
  <2> DEFINE r == Recent(stepLengths)
  <2> HIDE DEF r
  <2>1. r \in Seq(Lengths)
    BY <1>3 DEF r
  <2>2. Append(r, length)[Len(Append(r, length))] = length
    BY <2>1
  <2> QED BY <1>1, <2>2 DEF ActualLength, r
<1>5. /\ timeStep = Len(timeStepLengths) /\ solverTime = SumOf(timeStepLengths) + 0
      /\ StepsOf(target) /\ timeStepLengths # <<>> /\ timeStepLengths[1] = 0
  BY <1>1 DEF AxisInv
<1>6. solverTime = SumOf(timeStepLengths)
  BY <1>5, LengthsAreIntegers, SumOfFew
<1>7. StepsOf(target)'
  <2>1. PICK f : f = target
    OBVIOUS
  <2>2. StepsOf(f)'
    BY <1>1, <1>5, <2>1, RecordsStayWith, StepsStay
  <2> QED BY <1>1, <2>1, <2>2 DEF StepsOf
<1> QED BY <1>1, <1>4, <1>5, <1>6, <1>7 DEF AxisInv

\* A step that is refused gives its length back.
LEMMA RefuseTimeStepKeepsAxis ==
    ASSUME IInv, AxisInv, RefuseTimeStep PROVE AxisInv'
<1>0. pc = "step"
  BY RefusedFacts DEF RefuseTimeStep
<1>1. /\ pc' = "timeLoop" /\ solverTime' = solverTime - ActualLength
      /\ UNCHANGED <<timeStepLengths, timeStep, target, multiSolutions, runTimeDetails, dataFiles>>
  BY DEF RefuseTimeStep, storeVars, computationVars
<1>2. /\ timeStep = Len(timeStepLengths) /\ solverTime = SumOf(timeStepLengths) + ActualLength
      /\ StepsOf(target) /\ timeStepLengths # <<>> /\ timeStepLengths[1] = 0
  BY <1>0 DEF AxisInv
<1>3. ActualLength \in Int /\ SumOf(timeStepLengths) \in Int
  BY <1>0, StepFacts, LengthsAreIntegers, SumOfFew
<1>4. solverTime' = SumOf(timeStepLengths') + 0
  BY <1>1, <1>2, <1>3
<1>5. StepsOf(target)'
  <2>1. PICK f : f = target
    OBVIOUS
  <2>2. StepsOf(f)'
    BY <1>1, <1>2, <2>1, RecordsStayWith, StepsStay
  <2> QED BY <1>1, <2>1, <2>2 DEF StepsOf
<1> QED BY <1>1, <1>2, <1>4, <1>5 DEF AxisInv

\* Reading a step again keeps the axis.
LEMMA RereadingKeepsAxis ==
    ASSUME IInv, AxisInv, EndTimeLoop \/ RereadStep PROVE AxisInv'
<1>1. /\ pc \in {"timeLoop", "reread"} /\ pc' = "reread"
      /\ UNCHANGED <<timeStepLengths, target, multiSolutions, runTimeDetails, dataFiles>>
  <2>1. CASE EndTimeLoop
    BY <2>1 DEF EndTimeLoop, storeVars, computationVars
  <2>2. CASE RereadStep
    <3> DEFINE id == ID(target, rereadStep, LastAdaptiveStep(target, rereadStep))
    <3>1. IF Contains(id) THEN MultiArray(id) ELSE UNCHANGED storeVars
      BY <2>2 DEF RereadStep
    <3> HIDE DEF id
    <3>2. UNCHANGED <<multiSolutions, runTimeDetails, dataFiles>>
      BY <3>1 DEF MultiArray, storeVars
    <3> QED BY <2>2, <3>2 DEF RereadStep, computationVars
  <2> QED BY <2>1, <2>2
<1>2. StepsOf(target) /\ timeStepLengths # <<>> /\ timeStepLengths[1] = 0
  BY <1>1 DEF AxisInv
<1>3. StepsOf(target)'
  <2>1. PICK f : f = target
    OBVIOUS
  <2>2. StepsOf(f)'
    BY <1>1, <1>2, <2>1, RecordsStayWith, StepsStay
  <2> QED BY <1>1, <2>1, <2>2 DEF StepsOf
<1> QED BY <1>1, <1>2, <1>3 DEF AxisInv

\* Every step keeps the axis.
LEMMA NextKeepsAxis ==
    ASSUME NoStepIsRepeated, IInv, AxisInv, [Next]_vars PROVE AxisInv'
<1>1. CASE SortFields \/ NextField \/ SourcesAreSet \/ EndProblem
  BY <1>1, OutsideTheLoop DEF SortFields, NextField, SourcesAreSet, EndProblem, computationVars
<1>2. CASE SetCouplingSource
  <2>1. pc' \in {"sources", "crashed"} /\ timeStepLengths' = timeStepLengths
    BY <1>2 DEF SetCouplingSource, Crash, computationVars
  <2> QED BY <2>1, OutsideTheLoop
<1>3. CASE SolveField /\ UNCHANGED problemVars
  <2>1. CASE SolveSteady \/ SteadyAborted \/ EndTransient
    BY <2>1, OutsideTheLoop
       DEF SolveSteady, SteadyAborted, EndTransient, Store, Crash, computationVars
  <2>2. CASE SteadyAdaptiveStep
    <3>1. pc' \in {"nextField", "solve", "crashed"} /\ timeStepLengths' = timeStepLengths
      BY <2>2 DEF SteadyAdaptiveStep, Store, Crash
    <3> QED BY <3>1, OutsideTheLoop
  <2>3. CASE StoreInitialCondition
    BY <2>3, StoreInitialConditionKeepsAxis
  <2>4. CASE BeginTimeStep
    BY <2>4, BeginTimeStepKeepsAxis
  <2>5. CASE AcceptTimeStep
    BY <2>5, AcceptTimeStepKeepsAxis
  <2>6. CASE RestartTransient
    BY <2>6, RestartTransientKeepsAxis
  <2>7. CASE RefuseTimeStep
    BY <2>7, RefuseTimeStepKeepsAxis
  <2>8. CASE EndTimeLoop \/ RereadStep
    BY <2>8, RereadingKeepsAxis
  <2> QED BY <1>3, <2>1, <2>2, <2>3, <2>4, <2>5, <2>6, <2>7, <2>8 DEF SolveField
<1>4. CASE AbortSolving \/ Ended \/ UNCHANGED vars
  <2>1. UNCHANGED <<pc, timeStepLengths, timeStep, solverTime, stepLengths, target,
                    multiSolutions, runTimeDetails, dataFiles>>
    BY <1>4 DEF AbortSolving, Ended, vars, storeVars, computationVars, stepVars
  <2>2. ASSUME pc \in {"timeLoop", "step", "reread"} PROVE StepsOf(target)'
    <3>0. StepsOf(target)
      BY <2>2 DEF AxisInv
    <3>1. PICK f : f = target
      OBVIOUS
    <3>2. StepsOf(f)'
      BY <2>1, <3>0, <3>1, RecordsStayWith, StepsStay
    <3> QED BY <2>1, <3>1, <3>2 DEF StepsOf
  <2> QED BY <2>1, <2>2 DEF AxisInv, ActualLength
<1> QED BY <1>1, <1>2, <1>3, <1>4 DEF Next, SolverThread

\* The axis is as the invariant says in every reachable state.
LEMMA SpecAxisInv ==
    ASSUME NoStepIsRepeated PROVE Spec => [](IInv /\ AxisInv)
<1>1. RepeatedStepsAreFixed
  BY FixedWhenRepeated
<1>2. (IInv /\ AxisInv) /\ [Next]_vars => (IInv /\ AxisInv)'
  BY <1>1, NextKeepsIInv, NextKeepsAxis
<1>3. Init => IInv /\ AxisInv
  BY InitIInv, InitAxisInv
<1> QED BY <1>2, <1>3, PTL DEF Spec

\* Every solution of a transient field was stored with the length of its step and at
\* the time that the axis has for it, whatever lengths were refused on the way.
THEOREM SpecStoredStepsMatchLengths ==
    ASSUME NoStepIsRepeated PROVE Spec => []StoredStepsMatchLengths
<1>1. IInv /\ AxisInv => StoredStepsMatchLengths
  BY DEF AxisInv, StepsOf, StoredStepsMatchLengths, InTransient
<1> QED BY <1>1, SpecAxisInv, PTL

-----------------------------------------------------------------------------
\* The history of the lengths

\* The history stays when the lengths do.
LEMMA HistoryStays ==
    ASSUME HistoryInv, UNCHANGED <<pc, timeStepLengths, stepLengths, problem>>
    PROVE  HistoryInv'
BY DEF HistoryInv

\* A history without lengths is one.
LEMMA HistoryIsEmpty ==
    ASSUME stepLengths' = <<>>, pc' # "step", timeStepLengths' # <<>>, timeStepLengths' \in Seq(Int),
           problem' \in Problems
    PROVE  HistoryInv'
<1>1. problem'.timeOrder \in 1 .. 3
  BY ProblemsAssumption
<1>2. Len(stepLengths') = 0 /\ Len(timeStepLengths') > 0
  <2>1. Len(<<>>) = 0
    OBVIOUS
  <2> QED BY <2>1
<1> QED BY <1>1, <1>2 DEF HistoryInv

\* A step that begins keeps at most as many lengths as the order of the formula.
LEMMA BeginTimeStepKeepsHistory ==
    ASSUME IInv, HistoryInv, BeginTimeStep PROVE HistoryInv'
<1> DEFINE length == Clamped(solverTime, nextLength)
           recent == Recent(stepLengths)
           N == Len(timeStepLengths)
           n == Len(stepLengths)
<1>1. /\ pc = "timeLoop" /\ pc' = "step" /\ stepLengths' = Append(recent, length)
      /\ UNCHANGED <<timeStepLengths, problem>>
  BY DEF BeginTimeStep, computationVars
<1>2. problem.timeOrder \in 1 .. 3 /\ stepLengths \in Seq(Lengths) /\ n \in Nat /\ N \in Nat
  BY Facts DEF IInv, TypeOK
<1>3. /\ n < N /\ n <= problem.timeOrder
      /\ \A i \in 1 .. n : stepLengths[i] = timeStepLengths[N - n + i]
  BY <1>1 DEF HistoryInv
<1>4. recent \in Seq(Lengths)
      /\ Len(recent) = IF n > problem.timeOrder - 1 THEN n - 1 ELSE n
  BY <1>2, RecentKeeps
<1> DEFINE m == Len(recent)
<1>5. m \in Nat /\ m < N /\ m + 1 <= problem.timeOrder
  BY <1>2, <1>3, <1>4
<1>6. \A i \in 1 .. m : recent[i] = timeStepLengths[N - m + i]
  <2> TAKE i \in 1 .. m
  <2>1. CASE n > problem.timeOrder - 1
    <3>1. m = n - 1 /\ n > 0 /\ i + 1 \in 1 .. n /\ i \in Nat
      BY <1>2, <1>4, <2>1
    <3>2. recent = Tail(stepLengths)
      BY <2>1 DEF Recent
    <3>3. recent[i] = stepLengths[i + 1]
      BY <1>2, <3>1, <3>2
    <3>4. N - n + (i + 1) = N - m + i
      BY <1>2, <3>1
    <3> QED BY <1>3, <3>1, <3>3, <3>4
  <2>2. CASE ~(n > problem.timeOrder - 1)
    <3>1. m = n /\ recent = stepLengths
      BY <1>4, <2>2 DEF Recent
    <3> QED BY <1>3, <3>1
  <2> QED BY <2>1, <2>2
<1> HIDE DEF length, recent
<1>7. /\ Len(stepLengths') = m + 1
      /\ \A i \in 1 .. m : stepLengths'[i] = recent[i]
  BY <1>1, <1>4
<1> HIDE DEF m, N
<1>8. Len(stepLengths') - 1 = m
  BY <1>5, <1>7
<1> QED BY <1>1, <1>5, <1>6, <1>7, <1>8 DEF HistoryInv, N

\* An accepted step adds the length tried to the axis and to the history.
LEMMA AcceptTimeStepKeepsHistory ==
    ASSUME NoStepIsRepeated, IInv, HistoryInv, AcceptTimeStep PROVE HistoryInv'
<1> DEFINE N == Len(timeStepLengths)
           n == Len(stepLengths)
           old == timeStepLengths
           length == ActualLength
<1>1. /\ pc = "step" /\ timeStepLengths' = Append(old, length)
      /\ UNCHANGED <<stepLengths, problem>>
  BY DEF AcceptTimeStep
<1>2. /\ old \in Seq(Int) /\ N \in Nat \ {0} /\ n \in Nat \ {0} /\ ~Steady /\ target \in Fields
      /\ adaptiveStep \in Nat /\ adaptiveStep < MaxAdaptiveSteps /\ length \in Int
  BY <1>1, StepFacts, LengthsAreIntegers
<1>3. pc' \in {"timeLoop", "crashed"}
  <2>1. adaptiveStep + 1 = MaxAdaptiveSteps
    BY <1>2, NoStepIsRepeatedHere
  <2> QED BY <2>1 DEF AcceptTimeStep, Store, Crash
<1>4. /\ n - 1 < N /\ n <= problem.timeOrder
      /\ \A i \in 1 .. n - 1 : stepLengths[i] = old[N - (n - 1) + i]
  BY <1>1 DEF HistoryInv
<1>5. stepLengths[n] = length
  BY DEF ActualLength
<1> HIDE DEF length, old
<1>6. /\ Len(timeStepLengths') = N + 1 /\ timeStepLengths'[N + 1] = length
      /\ \A i \in 1 .. N : timeStepLengths'[i] = old[i]
  BY <1>1, <1>2 DEF old
<1>7. \A i \in 1 .. n : stepLengths[i] = timeStepLengths'[(N + 1) - n + i]
  <2> TAKE i \in 1 .. n
  <2>1. CASE i = n
    <3>1. (N + 1) - n + i = N + 1
      BY <1>2, <2>1
    <3> QED BY <1>5, <1>6, <2>1, <3>1
  <2>2. CASE i # n
    <3>1. i \in 1 .. n - 1 /\ N - (n - 1) + i \in 1 .. N /\ (N + 1) - n + i = N - (n - 1) + i
      BY <1>2, <1>4, <2>2
    <3> QED BY <1>4, <1>6, <3>1
  <2> QED BY <2>1, <2>2
<1>8. n < N + 1
  BY <1>2, <1>4
<1> QED BY <1>1, <1>3, <1>4, <1>6, <1>7, <1>8 DEF HistoryInv

\* A refused step takes its length off the history.
LEMMA RefuseTimeStepKeepsHistory ==
    ASSUME IInv, HistoryInv, RefuseTimeStep PROVE HistoryInv'
<1> DEFINE N == Len(timeStepLengths)
           n == Len(stepLengths)
<1>1. /\ pc = "step" /\ pc' = "timeLoop" /\ stepLengths' = SubSeq(stepLengths, 1, n - 1)
      /\ UNCHANGED <<timeStepLengths, problem>>
  BY RefusedFacts DEF RefuseTimeStep, computationVars
<1>2. stepLengths \in Seq(Lengths) /\ n \in Nat \ {0} /\ problem.timeOrder \in 1 .. 3
  BY <1>1, StepFacts
<1>3. /\ n - 1 < N /\ n <= problem.timeOrder
      /\ \A i \in 1 .. n - 1 : stepLengths[i] = timeStepLengths[N - (n - 1) + i]
  BY <1>1 DEF HistoryInv
<1>4. Len(stepLengths') = n - 1 /\ \A i \in 1 .. n - 1 : stepLengths'[i] = stepLengths[i]
  <2> DEFINE s == stepLengths
             u == SubSeq(s, 1, n - 1)
  <2>1. s \in Seq(Lengths) /\ Len(s) = n /\ n \in Nat \ {0}
    BY <1>2
  <2> HIDE DEF s, n
  <2>2. Len(u) = n - 1 /\ \A i \in 1 .. n - 1 : u[i] = s[i]
    BY <2>1
  <2> QED BY <1>1, <2>2 DEF s
<1>5. n - 1 <= problem.timeOrder
  BY <1>2, <1>3
<1> QED BY <1>1, <1>3, <1>4, <1>5 DEF HistoryInv

\* Every step keeps the history.
LEMMA NextKeepsHistory ==
    ASSUME NoStepIsRepeated, IInv, IInv', AxisInv', HistoryInv, [Next]_vars PROVE HistoryInv'
<1>0. pc' \notin {"timeLoop", "step"} => HistoryInv'
  BY DEF HistoryInv
<1>1. CASE SortFields \/ NextField \/ SourcesAreSet \/ EndProblem
  BY <1>0, <1>1 DEF SortFields, NextField, SourcesAreSet, EndProblem
<1>2. CASE SetCouplingSource
  BY <1>0, <1>2 DEF SetCouplingSource, Crash
<1>3. CASE SolveField /\ UNCHANGED problemVars
  <2>0. timeStepLengths' # <<>> /\ timeStepLengths' \in Seq(Int) /\ problem' \in Problems
    <3>1. timeStepLengths' \in Seq(Lengths \cup {0}) /\ problem' \in Problems
      BY DEF IInv, TypeOK
    <3>2. Lengths \cup {0} \subseteq Int
      BY TimeAssumption DEF Lengths
    <3> HIDE DEF Lengths
    <3>3. \A i \in 1 .. Len(timeStepLengths') : timeStepLengths'[i] \in Int
      BY <3>1, <3>2
    <3>4. timeStepLengths' \in Seq(Int)
      BY <3>1, <3>3
    <3> QED BY <3>1, <3>4 DEF AxisInv
  <2>1. CASE SolveSteady \/ SteadyAborted \/ EndTransient \/ EndTimeLoop
    BY <1>0, <2>1 DEF SolveSteady, SteadyAborted, EndTransient, EndTimeLoop, Store, Crash
  <2>2. CASE SteadyAdaptiveStep \/ RereadStep
    BY <1>0, <2>2 DEF SteadyAdaptiveStep, RereadStep, Store, Crash
  <2>3. CASE StoreInitialCondition
    <3>1. stepLengths' = <<>> /\ pc' # "step"
      BY <2>3 DEF StoreInitialCondition, Store, Crash
    <3> QED BY <2>0, <3>1, HistoryIsEmpty
  <2>4. CASE BeginTimeStep
    BY <2>4, BeginTimeStepKeepsHistory
  <2>5. CASE AcceptTimeStep
    BY <2>5, AcceptTimeStepKeepsHistory
  <2>6. CASE RestartTransient
    <3>1. stepLengths' = <<>> /\ pc' # "step"
      BY <2>6 DEF RestartTransient, Crash
    <3> QED BY <2>0, <3>1, HistoryIsEmpty
  <2>7. CASE RefuseTimeStep
    BY <2>7, RefuseTimeStepKeepsHistory
  <2> QED BY <1>3, <2>1, <2>2, <2>3, <2>4, <2>5, <2>6, <2>7 DEF SolveField
<1>4. CASE AbortSolving \/ Ended \/ UNCHANGED vars
  BY <1>4, HistoryStays DEF AbortSolving, Ended, vars, computationVars, stepVars
<1> QED BY <1>1, <1>2, <1>3, <1>4 DEF Next, SolverThread

\* The history is as the invariant says in every reachable state.
LEMMA SpecHistoryInv ==
    ASSUME NoStepIsRepeated PROVE Spec => [](IInv /\ AxisInv /\ HistoryInv)
<1>1. RepeatedStepsAreFixed
  BY FixedWhenRepeated
<1>2. (IInv /\ AxisInv /\ HistoryInv) /\ [Next]_vars => (IInv /\ AxisInv /\ HistoryInv)'
  BY <1>1, NextKeepsIInv, NextKeepsAxis, NextKeepsHistory
<1>3. Init => IInv /\ AxisInv /\ HistoryInv
  BY InitIInv, InitAxisInv DEF HistoryInv, Init
<1> QED BY <1>2, <1>3, PTL DEF Spec

\* The last lengths of the axis and the one being tried are those the formula is given.
LEMMA TakenEndsWithHistory ==
    ASSUME IInv, HistoryInv, pc = "step"
    PROVE  LET taken == Append(timeStepLengths, ActualLength)
               n == Len(stepLengths)
           IN  /\ taken \in Seq(Int) /\ Len(taken) \in Nat /\ n \in 1 .. 3 /\ n < Len(taken)
               /\ \A i \in 1 .. n : stepLengths[i] = taken[Len(taken) - n + i]
<1> DEFINE N == Len(timeStepLengths)
           n == Len(stepLengths)
           old == timeStepLengths
           length == ActualLength
           taken == Append(old, length)
<1>1. /\ old \in Seq(Int) /\ N \in Nat \ {0} /\ n \in Nat \ {0} /\ length \in Int
      /\ problem.timeOrder \in 1 .. 3
  BY StepFacts, LengthsAreIntegers
<1>2. /\ n - 1 < N /\ n <= problem.timeOrder
      /\ \A i \in 1 .. n - 1 : stepLengths[i] = old[N - (n - 1) + i]
  BY DEF HistoryInv
<1>3. stepLengths[n] = length
  BY DEF ActualLength
<1> HIDE DEF length, old
<1>4. /\ taken \in Seq(Int) /\ Len(taken) = N + 1 /\ taken[N + 1] = length
      /\ \A i \in 1 .. N : taken[i] = old[i]
  BY <1>1 DEF old
<1> HIDE DEF taken
<1>5. \A i \in 1 .. n : stepLengths[i] = taken[Len(taken) - n + i]
  <2> TAKE i \in 1 .. n
  <2>1. CASE i = n
    <3>1. Len(taken) - n + i = N + 1
      BY <1>1, <1>4, <2>1
    <3> QED BY <1>3, <1>4, <2>1, <3>1
  <2>2. CASE i # n
    <3>1. i \in 1 .. n - 1 /\ N - (n - 1) + i \in 1 .. N /\ Len(taken) - n + i = N - (n - 1) + i
      <4>1. /\ n \in Nat \ {0} /\ N \in Nat \ {0} /\ n - 1 < N /\ i \in 1 .. n /\ i # n
            /\ Len(taken) = N + 1
        BY <1>1, <1>2, <1>4, <2>2
      <4> HIDE DEF n, N
      <4> QED BY <4>1
    <3> QED BY <1>2, <1>4, <3>1
  <2> QED BY <2>1, <2>2
<1>6. n \in 1 .. 3 /\ n < Len(taken) /\ Len(taken) \in Nat
  <2> HIDE DEF n, N
  <2>1. n \in 1 .. 3 /\ n < N + 1 /\ N + 1 \in Nat
    BY <1>1, <1>2
  <2> QED BY <1>4, <2>1
<1> QED BY <1>4, <1>5, <1>6 DEF taken, old, length

\* The ages of the solutions used by the formula are sums of the last lengths.
LEMMA AgesAreSums ==
    ASSUME NEW t \in Seq(Int), NEW s \in Seq(Int), Len(s) \in 1 .. 3, Len(s) < Len(t),
           \A i \in 1 .. Len(s) : s[i] = t[Len(t) - Len(s) + i],
           NEW i \in 1 .. Len(s)
    PROVE  LET age == SumOf(SubSeq(t, Len(t) - i + 1, Len(t)))
               n == Len(s)
           IN  /\ age \in Int
               /\ i = 1 => age = s[n]
               /\ i = 2 => age = s[n] + s[n - 1]
               /\ i = 3 => age = s[n] + s[n - 1] + s[n - 2]
<1> DEFINE n == Len(s)
           N == Len(t)
           u == SubSeq(t, N - i + 1, N)
<1>1. n \in 1 .. 3 /\ N \in Nat /\ n < N /\ i \in 1 .. n /\ \A k \in 1 .. n : s[k] \in Int
  <2>1. N \in Nat
    BY LenProperties
  <2>2. \A k \in 1 .. n : s[k] \in Int
    BY ElementOfSeq
  <2> QED BY <2>1, <2>2
<1>2. u \in Seq(Int) /\ Len(u) = i /\ \A k \in 1 .. i : u[k] = t[N - i + k]
  <2> DEFINE m == N - i + 1
  <2>1. m \in 1 .. N /\ N - m + 1 = i /\ \A k \in 1 .. i : m + k - 1 = N - i + k
    BY <1>1
  <2> HIDE DEF m
  <2>2. /\ SubSeq(t, m, N) \in Seq(Int) /\ Len(SubSeq(t, m, N)) = N - m + 1
        /\ \A k \in 1 .. N - m + 1 : SubSeq(t, m, N)[k] = t[m + k - 1]
    <3>1. m \in Int /\ N \in Int /\ m <= N
      BY <1>1, <2>1
    <3>2. \A k \in m .. N : t[k] \in Int
      <4>1. \A k \in m .. N : k \in 1 .. N
        BY <2>1, <3>1
      <4> QED BY <4>1
    <3> HIDE DEF N
    <3> QED BY <3>1, <3>2, SubSeqProperties
  <2> QED BY <2>1, <2>2 DEF m
<1> HIDE DEF u
<1>3. \A k \in 1 .. i : u[k] = s[n - i + k]
  <2> TAKE k \in 1 .. i
  <2>1. n - i + k \in 1 .. n /\ N - n + (n - i + k) = N - i + k
    BY <1>1
  <2>2. s[n - i + k] = t[N - n + (n - i + k)]
    BY <2>1
  <2> QED BY <1>2, <2>1, <2>2
<1>4. SumOf(u) \in Int
  BY <1>2, SumOfFew
<1>5. i = 1 => SumOf(u) = s[n]
  BY <1>1, <1>2, <1>3, SumOfFew
<1>6. ASSUME i = 2 PROVE SumOf(u) = s[n] + s[n - 1]
  <2>1. u[1] = s[n - 1] /\ u[2] = s[n]
    BY <1>1, <1>3, <1>6
  <2>2. SumOf(u) = u[1] + u[2]
    BY <1>2, <1>6, SumOfFew
  <2>3. s[n] \in Int /\ s[n - 1] \in Int
    <3>1. n \in 1 .. n /\ n - 1 \in 1 .. n
      BY <1>1, <1>6
    <3>2. \A k \in 1 .. n : s[k] \in Int
      OBVIOUS
    <3> HIDE DEF n
    <3> QED BY <3>1, <3>2
  <2>4. \A a, b \in Int : a + b = b + a
    OBVIOUS
  <2>5. SumOf(u) = s[n - 1] + s[n]
    BY <2>1, <2>2, Zenon
  <2> QED BY <2>3, <2>4, <2>5, Zenon
<1>7. ASSUME i = 3 PROVE SumOf(u) = s[n] + s[n - 1] + s[n - 2]
  <2>1. u[1] = s[n - 2] /\ u[2] = s[n - 1] /\ u[3] = s[n]
    BY <1>1, <1>3, <1>7
  <2>2. SumOf(u) = u[1] + u[2] + u[3]
    BY <1>2, <1>7, SumOfFew
  <2>3. s[n] \in Int /\ s[n - 1] \in Int /\ s[n - 2] \in Int
    <3>1. n \in 1 .. n /\ n - 1 \in 1 .. n /\ n - 2 \in 1 .. n
      BY <1>1, <1>7
    <3>2. \A k \in 1 .. n : s[k] \in Int
      OBVIOUS
    <3> HIDE DEF n
    <3> QED BY <3>1, <3>2
  <2>4. \A a, b, c \in Int : a + b + c = c + b + a
    OBVIOUS
  <2>5. SumOf(u) = s[n - 2] + s[n - 1] + s[n]
    BY <2>1, <2>2, Zenon
  <2>6. s[n - 2] + s[n - 1] + s[n] = s[n] + s[n - 1] + s[n - 2]
    BY <2>3, <2>4, Zenon
  <2> QED BY <2>5, <2>6, Zenon
<1> QED BY <1>4, <1>5, <1>6, <1>7 DEF u

\* Every formula that a time step uses is exact for its lengths: those kept from the
\* steps before belong to the solutions that the formula combines.
THEOREM SpecFormulaIsExact ==
    ASSUME NoStepIsRepeated PROVE Spec => []FormulaIsExact
<1>1. ASSUME IInv, AxisInv, HistoryInv, pc = "step"
      PROVE  LET taken == Append(timeStepLengths, ActualLength)
                 age(i) == SumOf(SubSeq(taken, Len(taken) - i + 1, Len(taken)))
                 exact(n) == /\ HasFormula(n, stepLengths)
                             /\ IsDerivative(Coefficients(n, stepLengths),
                                        [i \in 1..n |-> age(i)])
             IN  /\ Len(stepLengths) = Len(solutions)
                 /\ Order < Len(taken)
                 /\ exact(Order)
                 /\ EstimatesError => exact(Order - 1)
  <2> DEFINE t == Append(timeStepLengths, ActualLength)
             s == stepLengths
             age(i) == SumOf(SubSeq(t, Len(t) - i + 1, Len(t)))
             n == Len(s)
  <2>1. /\ t \in Seq(Int) /\ Len(t) \in Nat /\ n \in 1 .. 3 /\ n < Len(t)
        /\ \A i \in 1 .. n : s[i] = t[Len(t) - n + i]
    BY <1>1, TakenEndsWithHistory
  <2>2. s \in Seq(Int) /\ s \in Seq(Positive) /\ Len(s) = Len(solutions)
    BY <1>1, LengthsAreIntegers, StepFacts
  <2>3. Order = n
    <3>1. timeStep = Len(timeStepLengths) /\ Len(t) = Len(timeStepLengths) + 1
      BY <1>1, LengthsAreIntegers, StepFacts DEF AxisInv
    <3> QED BY <2>1, <2>2, <3>1 DEF Order
  <2> HIDE DEF t, s, n
  <2>4. \A i \in 1 .. n : /\ age(i) \in Int
                          /\ i = 1 => age(i) = s[n]
                          /\ i = 2 => age(i) = s[n] + s[n - 1]
                          /\ i = 3 => age(i) = s[n] + s[n - 1] + s[n - 2]
    BY <2>1, <2>2, AgesAreSums DEF n
  <2> HIDE DEF age
  <2>5. ASSUME NEW m \in 1 .. n
        PROVE  HasFormula(m, s) /\ IsDerivative(Coefficients(m, s), [i \in 1 .. m |-> age(i)])
    <3> DEFINE ages == [i \in 1 .. m |-> age(i)]
    <3>1. HasFormula(m, s)
      <4>1. m \in 1 .. 3 /\ n >= m
        BY <2>1
      <4> QED BY <4>1 DEF HasFormula, n
    <3>2. m \in 1 .. 3 /\ m \in Nat /\ n \in 1 .. 3
      BY <2>1
    <3>3. ages \in [1 .. m -> Int] /\ \A i \in 1 .. m : ages[i] = age(i)
      BY <2>4, <3>2
    <3> HIDE DEF ages
    <3>4. ages \in Seq(Int) /\ Len(ages) = m
      BY <3>2, <3>3, FunctionIsSequence
    <3>5. \A i \in 1 .. n : s[i] \in Positive
      BY <2>2 DEF n
    <3>6. CASE m = 1
      <4>1. Coefficients(m, s) = FirstOrder
        BY <3>6 DEF Coefficients
      <4>2. ages[1] \in Positive
        BY <2>4, <3>2, <3>3, <3>5, <3>6
      <4>3. IsDerivative(FirstOrder, ages)
        BY <3>4, <3>6, <4>2, FirstFormulaIsExact
      <4> QED BY <3>1, <4>1, <4>3 DEF ages
    <3>7. CASE m = 2
      <4> DEFINE a == s[n]
                 b == s[n - 1]
      <4>1. Coefficients(m, s) = SecondOrder(a, b)
        <5>1. n - 0 = n
          BY <3>2
        <5> QED BY <3>7, <5>1 DEF Coefficients, n
      <4>2. a \in Positive /\ b \in Positive /\ ages[1] = a /\ ages[2] = a + b
        BY <2>4, <3>2, <3>3, <3>5, <3>7
      <4> HIDE DEF a, b
      <4>3. IsDerivative(SecondOrder(a, b), ages)
        BY <3>4, <3>7, <4>2, SecondFormulaIsExact
      <4> QED BY <3>1, <4>1, <4>3 DEF ages
    <3>8. CASE m = 3
      <4> DEFINE a == s[n]
                 b == s[n - 1]
                 c == s[n - 2]
      <4>1. Coefficients(m, s) = ThirdOrder(a, b, c)
        <5>1. n - 0 = n
          BY <3>2
        <5> QED BY <3>8, <5>1 DEF Coefficients, n
      <4>2. /\ a \in Positive /\ b \in Positive /\ c \in Positive
            /\ ages[1] = a /\ ages[2] = a + b /\ ages[3] = a + b + c
        BY <2>4, <3>2, <3>3, <3>5, <3>8
      <4> HIDE DEF a, b, c
      <4>3. IsDerivative(ThirdOrder(a, b, c), ages)
        BY <3>4, <3>8, <4>2, ThirdFormulaIsExact
      <4> QED BY <3>1, <4>1, <4>3 DEF ages
    <3> QED BY <3>2, <3>6, <3>7, <3>8
  <2>6. Order \in 1 .. n /\ (EstimatesError => Order - 1 \in 1 .. n)
    BY <2>1, <2>3 DEF EstimatesError
  <2>7. HasFormula(Order, s) /\ IsDerivative(Coefficients(Order, s), [i \in 1 .. Order |-> age(i)])
    BY <2>5, <2>6
  <2>8. EstimatesError => /\ HasFormula(Order - 1, s)
                          /\ IsDerivative(Coefficients(Order - 1, s), [i \in 1 .. Order - 1 |-> age(i)])
    BY <2>5, <2>6
  <2>9. Order < Len(t)
    BY <2>1, <2>3
  <2> QED BY <2>2, <2>7, <2>8, <2>9 DEF age, t, s
<1>2. IInv /\ AxisInv /\ HistoryInv => FormulaIsExact
  BY <1>1 DEF FormulaIsExact, InTransient
<1> QED BY <1>2, SpecHistoryInv, PTL

-----------------------------------------------------------------------------
\* The end of the loop

\* The places of the time loop.
LoopPlaces == {"timeLoop", "step", "reread"}

\* Fields that are passed keep their end while the axis and their records stay.
LEMMA EndsStay ==
    ASSUME EndsInv, pc # "crashed", UNCHANGED <<problem, order, turn, timeStepLengths>>,
           ~abort' => ~abort,
           \A i \in 1 .. turn : Passed(i)' /\ problem.analysis[order[i]] = "transient" =>
                                    Passed(i) /\ RecordsStay(order[i]),
           pc' \in LoopPlaces => pc \in LoopPlaces
    PROVE  EndsInv'
<1> SUFFICES ASSUME ~abort, NEW i \in 1 .. turn
             PROVE  /\ Passed(i)' /\ problem.analysis[order[i]] = "transient" =>
                          /\ SumOf(timeStepLengths) = TimeTotal
                          /\ ID(order[i], TimeLastStep, 0) \in SolutionIDs
                          /\ StepsOf(order[i])'
                    /\ i < turn /\ pc' \in LoopPlaces => problem.analysis[order[i]] # "transient"
  BY DEF EndsInv, LoopPlaces, TimeLastStep
<1>1. ASSUME Passed(i)', problem.analysis[order[i]] = "transient"
      PROVE  /\ SumOf(timeStepLengths) = TimeTotal
             /\ ID(order[i], TimeLastStep, 0) \in SolutionIDs
             /\ StepsOf(order[i])'
  <2>1. Passed(i) /\ RecordsStay(order[i])
    BY <1>1
  <2>2. /\ SumOf(timeStepLengths) = TimeTotal
        /\ ID(order[i], TimeLastStep, 0) \in SolutionIDs
        /\ StepsOf(order[i])
    BY <1>1, <2>1 DEF EndsInv
  <2>3. PICK f : f = order[i]
    OBVIOUS
  <2>4. StepsOf(f)'
    BY <2>1, <2>2, <2>3, StepsStay
  <2>5. StepsOf(order[i])'
    BY <2>3, <2>4 DEF StepsOf
  <2> QED BY <2>2, <2>5
<1>2. i < turn /\ pc' \in LoopPlaces => problem.analysis[order[i]] # "transient"
  BY DEF EndsInv, LoopPlaces
<1> QED BY <1>1, <1>2

\* While a field goes through its steps no field before it is a transient one.
LEMMA EndsInTheLoop ==
    ASSUME EndsInv, UNCHANGED <<problem, order, turn>>, turn \in Nat,
           pc \in {"timeLoop", "step"}, pc' \in {"timeLoop", "step", "crashed"}, ~abort' => ~abort
    PROVE  EndsInv'
<1> SUFFICES ASSUME ~abort, pc' # "crashed", NEW i \in 1 .. turn
             PROVE  /\ ~(Passed(i)' /\ problem.analysis[order[i]] = "transient")
                    /\ i < turn => problem.analysis[order[i]] # "transient"
  BY DEF EndsInv
<1>1. i < turn => problem.analysis[order[i]] # "transient"
  BY DEF EndsInv
<1> QED BY <1>1 DEF Passed

\* The first transient field moves the axis; the loop of another one finds it at its end.
LEMMA TransientFieldsOnce ==
    ASSUME IInv, AxisInv, EndsInv, StoreInitialCondition, UNCHANGED problemVars PROVE EndsInv'
<1>1. /\ pc = "solve" /\ UNCHANGED <<problem, order, turn, abort>>
      /\ pc' \in {"timeLoop", "crashed"} /\ turn \in Nat
  BY DEF StoreInitialCondition, Store, Crash, computationVars, problemVars, IInv, TypeOK
<1> SUFFICES ASSUME ~abort, pc' # "crashed", NEW i \in 1 .. turn
             PROVE  /\ ~(Passed(i)' /\ problem.analysis[order[i]] = "transient")
                    /\ i < turn => problem.analysis[order[i]] # "transient"
  BY <1>1 DEF EndsInv
<1>2. ASSUME i < turn, problem.analysis[order[i]] = "transient" PROVE FALSE
  <2>1. SumOf(timeStepLengths) = TimeTotal
    BY <1>1, <1>2 DEF EndsInv, Passed
  <2>2. TimeLastStep = 0
    BY <1>1 DEF StoreInitialCondition, Crash
  <2>3. timeStepLengths \in Seq(Int) /\ timeStepLengths[1] = 0
    BY LengthsAreIntegers DEF AxisInv
  <2>4. Len(timeStepLengths) = 1
    BY <2>2, <2>3 DEF TimeLastStep
  <2>5. SumOf(timeStepLengths) = 0
    BY <2>3, <2>4, SumOfFew
  <2> QED BY <2>1, <2>5, TimeAssumption
<1> QED BY <1>1, <1>2 DEF Passed

\* The loop over a transient field ends at the total time.
LEMMA EndTimeLoopEnds ==
    ASSUME NoStepIsRepeated, IInv, AxisInv, EndsInv, EndTimeLoop, UNCHANGED problemVars PROVE EndsInv'
<1>1. /\ pc = "timeLoop" /\ pc' = "reread" /\ (abort \/ solverTime >= TimeTotal)
      /\ UNCHANGED <<problem, order, turn, abort, timeStepLengths, storeVars, target>>
  BY DEF EndTimeLoop, computationVars, problemVars
<1>2. Busy /\ ~Steady
  BY <1>1 DEF Busy, IInv, Places
<1>3. target \in Fields /\ turn \in 1 .. Len(order) /\ target = order[turn] /\ turn \in Nat
  BY <1>2, BusyFacts DEF IInv, TypeOK
<1> SUFFICES ASSUME ~abort, NEW i \in 1 .. turn
             PROVE  /\ Passed(i)' /\ problem.analysis[order[i]] = "transient" =>
                          /\ SumOf(timeStepLengths) = TimeTotal
                          /\ ID(order[i], TimeLastStep, 0) \in SolutionIDs
                          /\ StepsOf(order[i])'
                    /\ i < turn => problem.analysis[order[i]] # "transient"
  BY <1>1 DEF EndsInv, TimeLastStep
<1>4. i < turn => problem.analysis[order[i]] # "transient"
  BY <1>1 DEF EndsInv
<1>5. ASSUME i = turn
      PROVE  /\ SumOf(timeStepLengths) = TimeTotal
             /\ ID(order[i], TimeLastStep, 0) \in SolutionIDs
             /\ StepsOf(order[i])'
  <2>1. timeStep = Len(timeStepLengths) /\ solverTime = SumOf(timeStepLengths) + 0 /\ StepsOf(target)
    BY <1>1 DEF AxisInv
  <2>2. SumOf(timeStepLengths) \in Int /\ solverTime \in 0 .. TimeTotal
    BY LengthsAreIntegers, SumOfFew DEF IInv, TypeOK
  <2>3. SumOf(timeStepLengths) = TimeTotal
    BY <1>1, <2>1, <2>2, TimeAssumption
  <2>4. MaxAdaptivitySteps <= 1
    BY <1>2, <1>3, NoStepIsRepeatedHere
  <2>5. ID(target, timeStep - 1, 0) \in SolutionIDs
    BY <1>1, <2>4 DEF IInv, OneForEachStep
  <2>6. PICK f : f = target
    OBVIOUS
  <2>7. StepsOf(f)'
    BY <1>1, <2>1, <2>6, RecordsStayWith, StepsStay DEF storeVars
  <2>8. StepsOf(order[i])'
    BY <1>1, <1>3, <1>5, <2>6, <2>7 DEF StepsOf
  <2> QED BY <1>3, <1>5, <2>1, <2>3, <2>5, <2>8 DEF TimeLastStep
<1> QED BY <1>3, <1>4, <1>5

\* Going on to the next field keeps the ends.
LEMMA NextFieldKeepsEnds ==
    ASSUME IInv, EndsInv, NextField PROVE EndsInv'
<1>1. /\ pc = "nextField" /\ pc' = "sources" /\ turn' = turn + 1 /\ turn \in Nat
      /\ UNCHANGED <<problem, order, abort, timeStepLengths, multiSolutions, runTimeDetails, dataFiles>>
  BY DEF NextField, computationVars, storeVars, IInv, TypeOK
<1> SUFFICES ASSUME ~abort, NEW i \in 1 .. turn + 1,
                    Passed(i)', problem.analysis[order[i]] = "transient"
             PROVE  /\ SumOf(timeStepLengths) = TimeTotal
                    /\ ID(order[i], TimeLastStep, 0) \in SolutionIDs
                    /\ StepsOf(order[i])'
  BY <1>1 DEF EndsInv, TimeLastStep
<1>2. i \in 1 .. turn /\ Passed(i)
  BY <1>1 DEF Passed
<1>3. /\ SumOf(timeStepLengths) = TimeTotal
      /\ ID(order[i], TimeLastStep, 0) \in SolutionIDs
      /\ StepsOf(order[i])
  BY <1>1, <1>2 DEF EndsInv
<1>4. PICK f : f = order[i]
  OBVIOUS
<1>5. StepsOf(f)'
  BY <1>1, <1>3, <1>4, RecordsStayWith, StepsStay
<1>6. StepsOf(order[i])'
  BY <1>1, <1>4, <1>5 DEF StepsOf
<1> QED BY <1>3, <1>6

\* Every step keeps the ends.
LEMMA NextKeepsEnds ==
    ASSUME NoStepIsRepeated, IInv, AxisInv, EndsInv, [Next]_vars PROVE EndsInv'
<1>0. (abort' \/ pc' = "crashed") => EndsInv'
  BY DEF EndsInv
<1>20. turn \in Nat /\ RepeatedStepsAreFixed
  BY FixedWhenRepeated DEF IInv, TypeOK
<1>21. UNCHANGED <<multiSolutions, runTimeDetails, dataFiles>>
       => \A i \in 1 .. turn : RecordsStay(order[i])
  BY RecordsStayWith
<1>1. CASE SortFields
  <2>1. turn' = 0
    BY <1>1 DEF SortFields, IInv, Places
  <2> QED BY <2>1 DEF EndsInv
<1>2. CASE NextField
  BY <1>2, NextFieldKeepsEnds
<1>3. CASE SetCouplingSource
  <2>1. CASE pc' = "crashed"
    BY <1>0, <2>1
  <2>2. CASE pc' # "crashed"
    <3>1. /\ pc = "sources" /\ pc' = "sources"
          /\ UNCHANGED <<problem, order, turn, abort, timeStepLengths>>
          /\ UNCHANGED <<multiSolutions, runTimeDetails, dataFiles>>
      BY <1>3, <2>2 DEF SetCouplingSource, Crash, computationVars, MultiArray
    <3>2. \A i \in 1 .. turn : Passed(i)' => Passed(i)
      BY <3>1 DEF Passed
    <3> QED BY <1>21, <3>1, <3>2, EndsStay DEF LoopPlaces
  <2> QED BY <2>1, <2>2
<1>4. CASE SourcesAreSet \/ EndProblem
  <2>1. /\ \/ pc = "sources" /\ pc' = "solve"
           \/ pc = "nextField" /\ pc' = "done"
        /\ UNCHANGED <<problem, order, turn, abort, timeStepLengths>>
        /\ UNCHANGED <<multiSolutions, runTimeDetails, dataFiles>>
    BY <1>4 DEF SourcesAreSet, EndProblem, computationVars, storeVars, problemVars
  <2>2. \A i \in 1 .. turn : Passed(i)' => Passed(i)
    BY <2>1 DEF Passed
  <2> QED BY <1>21, <2>1, <2>2, EndsStay DEF LoopPlaces
<1>5. CASE SolveField /\ UNCHANGED problemVars
  <2>0. /\ OthersStay(target) /\ Busy /\ UNCHANGED <<problem, order, turn, target>>
        /\ target = order[turn] /\ turn \in 1 .. Len(order)
    BY <1>5, <1>20, SolveFieldFrame, BusyFacts
  <2>1. CASE SolveSteady \/ SteadyAdaptiveStep
    <3>1. CASE pc' = "crashed"
      BY <1>0, <3>1
    <3>2. CASE pc' # "crashed"
      <4>1. /\ pc = "solve" /\ pc' \in {"solve", "nextField"} /\ Steady
            /\ UNCHANGED <<abort, timeStepLengths>>
        BY <2>1, <3>2 DEF SolveSteady, SteadyAdaptiveStep, Store, Crash, computationVars
      <4>2. \A i \in 1 .. turn : Passed(i)' /\ problem.analysis[order[i]] = "transient" =>
                Passed(i) /\ RecordsStay(order[i])
        <5> TAKE i \in 1 .. turn
        <5>1. CASE i = turn
          BY <2>0, <4>1, <5>1 DEF Steady
        <5>2. CASE i # turn
          <6>1. Passed(i) /\ i \in 1 .. turn - 1
            BY <1>20, <5>2 DEF Passed
          <6>2. order[i] # target
            BY <2>0, <6>1, EarlierFieldsDiffer
          <6>3. RecordsStay(order[i])
            BY <2>0, <6>2, OthersStayFields, RecordsStayWith
          <6> QED BY <6>1, <6>3
        <5> QED BY <5>1, <5>2
      <4> QED BY <2>0, <4>1, <4>2, EndsStay DEF LoopPlaces
    <3> QED BY <3>1, <3>2
  <2>2. CASE SteadyAborted
    BY <1>0, <2>2 DEF SteadyAborted, computationVars
  <2>3. CASE StoreInitialCondition
    BY <1>5, <2>3, TransientFieldsOnce
  <2>4. CASE BeginTimeStep \/ RefuseTimeStep
    <3>1. /\ pc \in {"timeLoop", "step"} /\ pc' \in {"timeLoop", "step"} /\ abort' = abort
      BY <2>4, RefusedFacts DEF BeginTimeStep, RefuseTimeStep, computationVars
    <3> QED BY <1>20, <2>0, <3>1, EndsInTheLoop
  <2>5. CASE AcceptTimeStep \/ RestartTransient
    <3>1. /\ pc = "step" /\ pc' \in {"timeLoop", "step", "crashed"} /\ abort' = abort
      BY <2>5, RefusedFacts DEF AcceptTimeStep, RestartTransient, Store, Crash
    <3> QED BY <1>20, <2>0, <3>1, EndsInTheLoop
  <2>6. CASE EndTimeLoop
    BY <1>5, <2>6, EndTimeLoopEnds
  <2>7. CASE RereadStep \/ EndTransient
    <3>1. /\ pc = "reread" /\ pc' \in {"reread", "nextField"}
          /\ UNCHANGED <<abort, timeStepLengths>>
          /\ UNCHANGED <<multiSolutions, runTimeDetails, dataFiles>>
      BY <2>7 DEF RereadStep, EndTransient, computationVars, storeVars, MultiArray
    <3>2. \A i \in 1 .. turn : Passed(i)' => Passed(i)
      BY <2>0, <3>1 DEF Passed
    <3> QED BY <1>21, <2>0, <3>1, <3>2, EndsStay DEF LoopPlaces
  <2> QED BY <1>5, <2>1, <2>2, <2>3, <2>4, <2>5, <2>6, <2>7 DEF SolveField
<1>6. CASE AbortSolving
  BY <1>0, <1>6 DEF AbortSolving
<1>7. CASE Ended \/ UNCHANGED vars
  <2>1. UNCHANGED <<problem, order, turn, pc, abort, timeStepLengths,
                    multiSolutions, runTimeDetails, dataFiles>>
    BY <1>7 DEF Ended, vars, computationVars, storeVars
  <2>2. \A i \in 1 .. turn : Passed(i)' => Passed(i)
    BY <2>1 DEF Passed
  <2>3. CASE pc = "crashed"
    BY <1>0, <2>1, <2>3
  <2> QED BY <1>21, <2>1, <2>2, <2>3, EndsStay DEF LoopPlaces
<1> QED BY <1>1, <1>2, <1>3, <1>4, <1>5, <1>6, <1>7 DEF Next, SolverThread

\* The largest of a set of numbers, known to be in it.
LEMMA LargestOf ==
    ASSUME NEW T, T \subseteq Int, NEW n \in T, \A m \in T : m <= n
    PROVE  Largest(T) = n
<1>1. \A k \in T : (\A m \in T : m <= k) => k = n
  OBVIOUS
<1>2. T # {}
  OBVIOUS
<1> DEFINE c == CHOOSE k \in T : \A m \in T : m <= k
<1>3. c \in T /\ \A m \in T : m <= c
  OBVIOUS
<1>4. Largest(T) = c
  BY <1>2 DEF Largest
<1> HIDE DEF c
<1>5. c = n
  BY <1>1, <1>3
<1> QED BY <1>4, <1>5

\* The newest solution of a field that has one for each step is that of the last step.
LEMMA NewestIsLast ==
    ASSUME NEW f, StepsOf(f), TimeLastStep \in Nat, ID(f, TimeLastStep, 0) \in SolutionIDs
    PROVE  NewestSolution(f) = ID(f, TimeLastStep, 0) /\ Contains(ID(f, TimeLastStep, 0))
<1> DEFINE L == TimeLastStep
           id == ID(f, L, 0)
           T == {i.timeStep : i \in {j \in Indexed : j.field = f}}
           K == {i.adaptivityStep : i \in {j \in Indexed : j.field = f /\ j.timeStep = L}}
<1>1. id.field = f /\ id.timeStep = L /\ id.adaptivityStep = 0
  BY DEF ID
<1>2. Contains(id) /\ id \in Indexed
  <2>1. id \in {i \in SolutionIDs : i.field = f}
    BY <1>1
  <2> HIDE DEF id
  <2>2. Contains(id)
    BY <1>1, <2>1 DEF StepsOf
  <2> QED BY <2>2 DEF Contains, Indexed
<1>3. \A i \in Indexed : i.field = f => i.timeStep \in Nat /\ i.timeStep <= L /\ i.adaptivityStep = 0
  BY IdentifierOf DEF StepsOf, Indexed, Contains
<1>4. T \subseteq Int /\ L \in T /\ \A m \in T : m <= L
  <2> HIDE DEF L, id
  <2> QED BY <1>1, <1>2, <1>3
<1>5. K \subseteq Int /\ 0 \in K /\ \A m \in K : m <= 0
  <2> HIDE DEF L, id
  <2> QED BY <1>1, <1>2, <1>3
<1>6. LastTimeStep(f) = L
  <2> HIDE DEF T, L
  <2>1. Largest(T) = L
    BY <1>4, LargestOf
  <2> QED BY <2>1 DEF T, LastTimeStep
<1>7. LastAdaptiveStep(f, L) = 0
  <2> DEFINE none == 0
  <2>0. none \in K /\ \A m \in K : m <= none
    BY <1>5
  <2> HIDE DEF K, none
  <2>1. Largest(K) = none
    BY <1>5, <2>0, LargestOf
  <2> QED BY <2>1 DEF K, none, LastAdaptiveStep
<1> QED BY <1>2, <1>6, <1>7 DEF NewestSolution

\* A problem that was solved and not aborted has stepped each transient field to the
\* total time exactly: the last length is clamped, and none is lost or counted twice.
THEOREM SpecEndsAtTotalTime ==
    ASSUME NoStepIsRepeated PROVE Spec => []EndsAtTotalTime
<1>0. RepeatedStepsAreFixed
  BY FixedWhenRepeated
<1> DEFINE J == IInv /\ AllTaken /\ AxisInv /\ EndsInv
<1>1. J /\ [Next]_vars => J'
  BY <1>0, NextKeepsIInv, NextKeepsAllTaken, NextKeepsAxis, NextKeepsEnds
<1>2. Init => J
  BY InitIInv, InitAxisInv DEF AllTaken, EndsInv, Init
<1>3. J => EndsAtTotalTime
  <2> SUFFICES ASSUME IInv, AllTaken, EndsInv, AxisInv, pc = "done", ~abort, NEW f \in Fields,
                      problem.analysis[f] = "transient"
               PROVE  /\ SumOf(timeStepLengths) = TimeTotal
                      /\ dataFiles[NewestSolution(f)].vector = TimeTotal
    BY DEF EndsAtTotalTime
  <2>1. DOMAIN order = 1 .. Len(order) /\ Range(order) = Fields /\ Len(order) \in Nat
    BY DEF IInv, TypeOK
  <2>2. PICK i \in DOMAIN order : order[i] = f
    BY <2>1 DEF Range
  <2>3. i \in 1 .. turn /\ Passed(i)
    BY <2>1 DEF AllTaken, Passed
  <2>4. /\ SumOf(timeStepLengths) = TimeTotal
        /\ ID(f, TimeLastStep, 0) \in SolutionIDs
        /\ StepsOf(f)
    BY <2>2, <2>3 DEF EndsInv
  <2>5. timeStepLengths \in Seq(Int) /\ TimeLastStep \in Nat /\ TimeLastStep + 1 = Len(timeStepLengths)
    <3>1. timeStepLengths \in Seq(Int) /\ timeStepLengths # <<>>
      BY LengthsAreIntegers DEF AxisInv
    <3> QED BY <3>1 DEF TimeLastStep
  <2>6. PICK id : id = ID(f, TimeLastStep, 0)
    OBVIOUS
  <2>7. NewestSolution(f) = id /\ id \in SolutionIDs
    BY <2>4, <2>5, <2>6, NewestIsLast
  <2>8. id.field = f /\ id.timeStep = TimeLastStep /\ id.adaptivityStep = 0
    BY <2>6 DEF ID
  <2>9. dataFiles[id].vector = SumOf(SubSeq(timeStepLengths, 1, Len(timeStepLengths)))
    BY <2>4, <2>5, <2>7, <2>8 DEF StepsOf
  <2>10. SubSeq(timeStepLengths, 1, Len(timeStepLengths)) = timeStepLengths
    BY <2>5, WholeSubSeq
  <2> QED BY <2>4, <2>7, <2>9, <2>10, Zenon
<1> HIDE DEF J
<1> QED BY <1>1, <1>2, <1>3, PTL DEF Spec
-----------------------------------------------------------------------------
\* No assert fails

\* Every source a plugin asks for is a weak coupling of the problem; for one that is set
\* to none solver_utils.cpp:119 looks up a solution that may not be there yet.
CouplingsAreWeak ==
    \A p \in Problems : \A f, g \in Range(p.fields) :
        g \in PluginCouplings[f] =>
            g # f /\ [source |-> g, target |-> f] \in Range(p.weakCouplings)

\* Only fields that are no sources can be aborted before their first solution: those with
\* steps of space adaptivity, before the first of which the flag is read.
SourcesAreFinished ==
    \A p \in Problems : \A f, g \in Range(p.fields) :
        p.mayAbort /\ g \in PluginCouplings[f] =>
            p.analysis[g] = "transient" \/ p.adaptivitySteps[g] = 0

\* There is one transient field at most (solver.cpp:863: only one is supported).
OneTransientField ==
    \A p \in Problems : \A f, g \in Range(p.fields) :
        p.analysis[f] = "transient" /\ p.analysis[g] = "transient" => f = g

\* The fields that may be solved before field f.
Before(p, f) ==
    {g \in Range(p.fields) : g # f /\ [source |-> f, target |-> g] \notin Range(p.weakCouplings)}

\* The solutions a transient field may have when it begins its second step.
FirstSolutions(p, f) == IF p.adaptivitySteps[f] > 1 THEN p.adaptivitySteps[f] ELSE 1

\* A transient field may come back to the beginning of its first step.
ComesBack(p, f) == p.timeMethod = "BDF" \/ p.adaptivitySteps[f] > 1

\* The cache has room for the beginning of a transient field that may come back to it: for
\* the solutions of the fields before it and its own first ones, none is flushed.
FirstStepsFit ==
    \A p \in Problems : \A f \in Range(p.fields) :
        p.analysis[f] = "transient" /\ ComesBack(p, f) =>
            /\ \A g \in Before(p, f) : p.adaptivitySteps[g] <= 1
            /\ Cardinality(Before(p, f)) + FirstSolutions(p, f) <= CacheSize

\* What the solver supports without asking for it.
Supported == CouplingsAreWeak /\ SourcesAreFinished /\ OneTransientField

\* The problems in which nothing is looked up that is not there.
SafeProblems == RepeatedStepsAreFixed /\ Supported /\ FirstStepsFit

\* The field in place i comes after its sources.
Ordered ==
    ~(pc \in {"sort", "crashed"}) =>
        \A i, j \in DOMAIN order :
            [source |-> order[i], target |-> order[j]] \in Range(problem.weakCouplings) => i <= j

\* No transient field has begun.
Untimed ==
    \A k \in 1 .. turn : problem.analysis[order[k]] = "transient" =>
        k = turn /\ pc \in {"sources", "solve"}

\* Before the loop over the steps, all solutions are at time step 0.
Early ==
    /\ Untimed => TimeLastStep = 0
    /\ \A id \in Indexed : problem.analysis[id.field] = "steady" =>
          (Untimed \/ pc \in {"timeLoop", "step"} => id.timeStep = 0)

\* Adaptivity steps are those of the loops.
Once ==
    /\ pc = "solve" /\ MaxAdaptivitySteps <= 1 => adaptiveStep = 0
    /\ \A id \in Indexed :
          /\ problem.analysis[id.field] = "steady" /\ problem.adaptivitySteps[id.field] <= 1 =>
                id.adaptivityStep = 0
          /\ problem.analysis[id.field] = "transient" /\ id.timeStep = 0 => id.adaptivityStep = 0

\* The field in place i has been solved.
Solved(i) == i < turn \/ (i = turn /\ pc \in {"nextField", "done"})

\* A field that has been solved has a solution, unless an abort may have ended it before its
\* first step of space adaptivity; a transient field has its initial condition.
Stored ==
    /\ abort => problem.mayAbort
    /\ pc \in {"timeLoop", "step", "reread"} => ID(target, 0, 0) \in Indexed
    /\ \A i \in 1 .. turn : Solved(i) =>
          \/ \E id \in Indexed : id.field = order[i]
          \/ /\ problem.mayAbort
             /\ problem.analysis[order[i]] = "steady"
             /\ problem.adaptivitySteps[order[i]] > 0

\* The step before the one that is solved is cached, and so is what a first step that may
\* be solved again was added to.
StartCached ==
    pc \in {"timeLoop", "step"} =>
        /\ ID(target, timeStep - 1, 0) \in Cached
        /\ pc = "step" /\ adaptiveStep > 0 => ID(target, 1, 0) \in Cached
        /\ problem.timeMethod = "BDF" /\ timeStep = 2 => ID(target, 0, 0) \in Cached

\* What is known of the loops over fields, steps and adaptivity.
Loops == Early /\ Once /\ Stored /\ StartCached

\* The invariant that carries AssertsHold, beside IInv.
Running == pc # "crashed" /\ Ordered /\ Loops


\* A sort that swaps nothing leaves the fields as they are, each source before its target.
LEMMA UnswappedIsOrdered ==
    ASSUME NEW F, NEW s \in Arrangements(F), NEW cs \in Seq(Couplings(F)),
           ~Visited(s, cs).swapped
    PROVE  /\ Visited(s, cs).fields = s
           /\ \A i \in 1 .. Len(cs) : IndexOf(cs[i].source, s) <= IndexOf(cs[i].target, s)
<1> DEFINE N == Len(cs)
           ordered(i) == IndexOf(cs[i].source, s) <= IndexOf(cs[i].target, s)
<1>0. N \in Nat /\ \A i \in 1 .. N : cs[i] \in Couplings(F)
  OBVIOUS
<1>1. PICK g : /\ g \in [0 .. N -> Sorted(F)]
               /\ g[0] = [fields |-> s, swapped |-> FALSE]
               /\ \A i \in 1 .. N : g[i] = Visit(g[i - 1], cs[i])
               /\ Visited(s, cs) = g[N]
  BY VisitedFollows, Zenon
<1> HIDE DEF N, ordered
<1>2. \A f \in F : IndexOf(f, s) \in Nat
  <2>1. TAKE f \in F
  <2>2. s \in Seq(F) /\ f \in Range(s)
    BY DEF Arrangements
  <2>3. \E i \in DOMAIN s : s[i] = f
    BY <2>2 DEF Range
  <2> QED BY <2>2, <2>3 DEF IndexOf
<1>3. ASSUME NEW i \in 1 .. N, ~g[i].swapped
      PROVE  ~g[i - 1].swapped /\ (g[i - 1].fields = s => g[i].fields = s /\ ordered(i))
  <2> DEFINE before == g[i - 1]
  <2>1. i - 1 \in 0 .. N
    BY <1>0
  <2>2. before \in Sorted(F)
    BY <1>1, <2>1
  <2> HIDE DEF before
  <2>3. g[i] = Visit(before, cs[i]) /\ cs[i].source \in F /\ cs[i].target \in F
    BY <1>0, <1>1 DEF before, Couplings
  <2>4. ~(IndexOf(cs[i].target, before.fields) < IndexOf(cs[i].source, before.fields))
    BY <1>3, <2>3 DEF Visit
  <2>5. g[i] = before
    BY <2>3, <2>4 DEF Visit
  <2>6. ASSUME before.fields = s PROVE ordered(i)
    BY <1>2, <2>3, <2>4, <2>6 DEF ordered
  <2> QED BY <1>3, <2>5, <2>6 DEF before
<1> DEFINE T == {k \in 0 .. N : ~g[N - k].swapped}
           U == {k \in 0 .. N : g[k].fields = s /\ \A i \in 1 .. k : ordered(i)}
<1>4. \A k \in 0 .. N : k \in T
  <2>1. 0 \in T
    <3>1. N - 0 = N /\ 0 \in 0 .. N
      BY <1>0
    <3> QED BY <1>1, <3>1 DEF N
  <2>2. \A k \in 0 .. N - 1 : k \in T => k + 1 \in T
    <3> SUFFICES ASSUME NEW k \in 0 .. N - 1, k \in T PROVE k + 1 \in T
      OBVIOUS
    <3>1. N - k \in 1 .. N /\ (N - k) - 1 = N - (k + 1) /\ k + 1 \in 0 .. N
      BY <1>0
    <3> QED BY <1>3, <3>1
  <2> HIDE DEF T
  <2> QED BY <1>0, <2>1, <2>2, SetInduction
<1>5. \A k \in 0 .. N : ~g[k].swapped
  <2> TAKE k \in 0 .. N
  <2>1. N - k \in 0 .. N /\ N - (N - k) = k
    BY <1>0
  <2>2. N - k \in T
    BY <1>4, <2>1
  <2> QED BY <2>1, <2>2
<1> HIDE DEF T
<1>6. \A k \in 0 .. N : k \in U
  <2>1. 0 \in U
    BY <1>0, <1>1
  <2>2. \A k \in 0 .. N - 1 : k \in U => k + 1 \in U
    <3> SUFFICES ASSUME NEW k \in 0 .. N - 1, k \in U PROVE k + 1 \in U
      OBVIOUS
    <3>1. k + 1 \in 1 .. N /\ (k + 1) - 1 = k /\ k + 1 \in 0 .. N
      BY <1>0
    <3>2. g[k + 1].fields = s /\ ordered(k + 1)
      BY <1>3, <1>5, <3>1
    <3>3. \A i \in 1 .. k + 1 : i \in 1 .. k \/ i = k + 1
      BY <1>0
    <3> QED BY <3>1, <3>2, <3>3
  <2> HIDE DEF U
  <2> QED BY <1>0, <2>1, <2>2, SetInduction
<1>7. N \in U
  BY <1>0, <1>6
<1> QED BY <1>1, <1>7 DEF N, ordered

\* The fields are sorted when nothing is swapped, and stay so.
LEMMA NextKeepsOrdered ==
    ASSUME RepeatedStepsAreFixed, IInv, Ordered, [Next]_vars PROVE Ordered'
<1>1. CASE SortFields
  <2> SUFFICES ASSUME pc' # "sort",
                      NEW i \in DOMAIN order', NEW j \in DOMAIN order',
                      [source |-> order'[i], target |-> order'[j]] \in Range(problem'.weakCouplings)
               PROVE  i <= j
    BY DEF Ordered
  <2> DEFINE cs == problem.weakCouplings
             c == [source |-> order'[i], target |-> order'[j]]
  <2>1. ~Visited(order, cs).swapped /\ order' = Visited(order, cs).fields /\ problem' = problem
    BY <1>1 DEF SortFields, computationVars
  <2>2. order \in Arrangements(Fields) /\ cs \in Seq(Couplings(Fields))
    BY Facts DEF IInv, TypeOK, Arrangements, Couplings
  <2>3. /\ order' = order
        /\ \A k \in 1 .. Len(cs) : IndexOf(cs[k].source, order) <= IndexOf(cs[k].target, order)
    BY <2>1, <2>2, UnswappedIsOrdered
  <2>4. PICK k \in 1 .. Len(cs) : cs[k] = c
    <3>1. c \in Range(cs)
      BY <2>1
    <3> HIDE DEF c
    <3> QED BY <2>2, <3>1 DEF Range
  <2>5. cs[k].source = order[i] /\ cs[k].target = order[j] /\ i \in DOMAIN order /\ j \in DOMAIN order
    BY <2>3, <2>4
  <2>6. \A m \in DOMAIN order : IndexOf(order[m], order) = m
    BY <2>2 DEF IndexOf, Arrangements, IsInjective
  <2> HIDE DEF cs, c
  <2> QED BY <2>3, <2>5, <2>6
<1>2. ASSUME UNCHANGED <<problem, order>>, pc # "sort", pc = "crashed" => pc' = "crashed"
      PROVE  Ordered'
  BY <1>2 DEF Ordered
<1>3. CASE NextField \/ SetCouplingSource \/ SourcesAreSet \/ EndProblem
  <2>1. UNCHANGED <<problem, order>> /\ pc \notin {"sort", "crashed"}
    BY <1>3 DEF NextField, SetCouplingSource, SourcesAreSet, EndProblem, computationVars, problemVars
  <2> QED BY <1>2, <2>1
<1>4. CASE SolveField /\ UNCHANGED problemVars
  BY <1>2, <1>4, SolveFieldFrame DEF Busy
<1>5. CASE AbortSolving \/ Ended \/ UNCHANGED vars
  <2>1. pc' = pc /\ UNCHANGED <<problem, order>>
    BY <1>5 DEF AbortSolving, Ended, vars, computationVars, problemVars
  <2> QED BY <2>1 DEF Ordered
<1> QED BY <1>1, <1>3, <1>4, <1>5 DEF Next, SolverThread

\* What is added is cached; without a flush everything stays so.
LEMMA AddCached ==
    ASSUME StoreTyped, NEW id \in SolutionIDs, NEW s \in Solutions, NEW r, AddSolution(id, s, r)
    PROVE  /\ id \in Cached'
           /\ Cardinality(Cached) <= CacheSize => Cached \subseteq Cached'
<1>1. dealCache' = [i \in SolutionIDs |->
          IF i = id THEN s ELSE IF i \in Flushed(id, dealCache) THEN None ELSE dealCache[i]]
  BY DEF AddSolution, InsertToCache
<1>2. s # None
  BY NoneAssumption
<1>3. id \in Cached'
  BY <1>1, <1>2 DEF Cached, CachedIn
<1>4. ASSUME Cardinality(Cached) <= CacheSize, NEW i \in Cached PROVE i \in Cached'
  <2>1. Flushed(id, dealCache) = {}
    <3>1. Cached \subseteq SolutionIDs /\ IsFiniteSet(SolutionIDs)
      BY SolutionIDsAssumption DEF Cached, CachedIn
    <3>2. Cardinality(Cached) \in Nat
      BY <3>1, FS_Subset, FS_CardinalityType
    <3>3. ~(Cardinality(Cached) > CacheSize)
      BY <1>4, <3>2, CacheSizeAssumption
    <3> QED BY <3>3 DEF Flushed, Cached
  <2>2. dealCache'[i] # None
    BY <1>1, <1>2, <1>4, <2>1 DEF Cached, CachedIn
  <2> QED BY <2>2 DEF Cached, CachedIn
<1> QED BY <1>3, <1>4

\* A field that has a solution has a newest one.
LEMMA NewestIsStored ==
    ASSUME NEW f, NEW id \in Indexed, id.field = f
    PROVE  Contains(NewestSolution(f))
<1> DEFINE S == {i \in Indexed : i.field = f}
           T == {i.timeStep : i \in S}
           t == LastTimeStep(f)
           R == {i \in Indexed : i.field = f /\ i.timeStep = t}
           K == {i.adaptivityStep : i \in R}
           k == LastAdaptiveStep(f, t)
<1>1. /\ IsFiniteSet(S) /\ IsFiniteSet(R)
      /\ \A i \in Indexed : i.timeStep \in Nat /\ i.adaptivityStep \in Nat
  <2>1. S \subseteq SolutionIDs /\ R \subseteq SolutionIDs
    BY DEF Indexed
  <2> QED BY <2>1, FS_Subset, SolutionIDsAssumption DEF Indexed
<1>2. t \in T
  <2> DEFINE h == [i \in S |-> i.timeStep]
  <2>1. PICK x \in S : \A y \in S : h[y] <= h[x]
    <3>1. h \in [S -> Nat] /\ S # {}
      BY <1>1
    <3> HIDE DEF S, h
    <3> QED BY <1>1, <3>1, LargestValue
  <2>2. T # {} /\ x.timeStep \in T /\ \A m \in T : m <= x.timeStep
    BY <2>1
  <2>3. t = Largest(T)
    BY DEF LastTimeStep
  <2> HIDE DEF T, t
  <2> QED BY <2>2, <2>3 DEF Largest
<1>3. R # {}
  <2> HIDE DEF t
  <2> QED BY <1>2
<1>4. k \in K
  <2> DEFINE h == [i \in R |-> i.adaptivityStep]
  <2>1. PICK x \in R : \A y \in R : h[y] <= h[x]
    <3>1. h \in [R -> Nat]
      BY <1>1
    <3> HIDE DEF R, h
    <3> QED BY <1>1, <1>3, <3>1, LargestValue
  <2>2. K # {} /\ x.adaptivityStep \in K /\ \A m \in K : m <= x.adaptivityStep
    BY <2>1
  <2>3. k = Largest(K)
    BY DEF LastAdaptiveStep
  <2> HIDE DEF K, k
  <2> QED BY <2>2, <2>3 DEF Largest
<1> HIDE DEF k, t
<1>5. PICK i \in Indexed : i.field = f /\ i.timeStep = t /\ i.adaptivityStep = k
  BY <1>4
<1>6. i = ID(f, t, k) /\ i \in SolutionIDs
  BY <1>5, IdentifierOf DEF Indexed
<1>7. i = NewestSolution(f)
  BY <1>6 DEF NewestSolution, t, k
<1> QED BY <1>5, <1>6, <1>7 DEF Contains, Indexed

\* What the hypotheses say of the problem being solved.
LEMMA ProblemFacts ==
    ASSUME IInv, CouplingsAreWeak, SourcesAreFinished, OneTransientField
    PROVE  /\ problem \in Problems
           /\ \A f, g \in Fields : g \in PluginCouplings[f] =>
                 /\ g # f /\ [source |-> g, target |-> f] \in Range(problem.weakCouplings)
                 /\ problem.mayAbort =>
                       problem.analysis[g] = "transient" \/ problem.adaptivitySteps[g] = 0
           /\ \A f, g \in Fields :
                 problem.analysis[f] = "transient" /\ problem.analysis[g] = "transient" => f = g
           /\ \A f \in Fields : /\ problem.analysis[f] \in {"steady", "transient"}
                                /\ problem.adaptivitySteps[f] \in Nat
           /\ Range(order) = Fields /\ DOMAIN order = 1 .. Len(order)
           /\ Len(order) \in Nat /\ turn \in 0 .. Len(order)
           /\ \A i \in 1 .. Len(order) : order[i] \in Fields
           /\ \A i, j \in 1 .. Len(order) : order[i] = order[j] => i = j
<1>1. problem \in Problems /\ order \in Seq(Fields) /\ Range(order) = Fields /\ IsInjective(order)
      /\ turn \in 0 .. Len(order)
  BY DEF IInv, TypeOK
<1>2. \A f, g \in Fields : g \in PluginCouplings[f] =>
          /\ g # f /\ [source |-> g, target |-> f] \in Range(problem.weakCouplings)
          /\ problem.mayAbort => problem.analysis[g] = "transient" \/ problem.adaptivitySteps[g] = 0
  BY <1>1 DEF CouplingsAreWeak, SourcesAreFinished, Fields
<1>3. \A f, g \in Fields :
          problem.analysis[f] = "transient" /\ problem.analysis[g] = "transient" => f = g
  BY <1>1 DEF OneTransientField, Fields
<1>4. \A f \in Fields : /\ problem.analysis[f] \in {"steady", "transient"}
                        /\ problem.adaptivitySteps[f] \in Nat
  BY <1>1, Facts
<1>5. /\ DOMAIN order = 1 .. Len(order) /\ Len(order) \in Nat
      /\ \A i \in 1 .. Len(order) : order[i] \in Fields
  BY <1>1
<1>6. \A i, j \in 1 .. Len(order) : order[i] = order[j] => i = j
  BY <1>1, <1>5 DEF IsInjective
<1> QED BY <1>1, <1>2, <1>3, <1>4, <1>5, <1>6

\* Steps that neither store nor remove a solution.
Moves ==
    /\ Indexed' = Indexed
    /\ UNCHANGED <<problem, order, turn, target, timeStepLengths>>
    /\ abort' => problem.mayAbort
    /\ \/ pc' = pc /\ adaptiveStep' = adaptiveStep /\ ~(pc \in {"timeLoop", "step"})
       \/ pc' = pc /\ UNCHANGED <<adaptiveStep, timeStep>> /\ Cached' = Cached
       \/ pc = "sources" /\ pc' = "solve" /\ adaptiveStep' = 0
       \/ pc = "nextField" /\ pc' = "done"
       \/ pc = "solve" /\ pc' = "nextField" /\ problem.mayAbort /\ Steady /\ HasAdaptivity
       \/ /\ pc \in {"timeLoop", "step"} /\ pc' \in {"timeLoop", "step"}
          /\ timeStep' = timeStep /\ adaptiveStep' = 0 /\ Cached' = Cached
       \/ pc = "timeLoop" /\ pc' = "reread"
       \/ pc = "reread" /\ pc' = "nextField"

\* They keep what is known of the loops.
LEMMA MovesKeepLoops ==
    ASSUME IInv, Loops, Moves PROVE Loops'
<1>1. Early'
  <2>1. Untimed' => Untimed
    BY DEF Moves, Untimed
  <2>2. Untimed' \/ pc' \in {"timeLoop", "step"} => Untimed \/ pc \in {"timeLoop", "step"}
    BY <2>1 DEF Moves
  <2>3. TimeLastStep' = TimeLastStep
    BY DEF Moves, TimeLastStep
  <2> QED BY <2>1, <2>2, <2>3 DEF Early, Loops, Moves
<1>2. Once'
  <2>1. MaxAdaptivitySteps' = MaxAdaptivitySteps
    BY DEF Moves, MaxAdaptivitySteps
  <2>2. pc' = "solve" => adaptiveStep' = 0 \/ (pc = "solve" /\ adaptiveStep' = adaptiveStep)
    BY DEF Moves
  <2> QED BY <2>1, <2>2 DEF Once, Loops, Moves
<1>3. Stored'
  <2>1. pc' \in {"timeLoop", "step", "reread"} => ID(target, 0, 0) \in Indexed
    BY DEF Moves, Stored, Loops
  <2>2. ASSUME NEW i \in 1 .. turn, Solved(i)'
        PROVE  \/ \E id \in Indexed : id.field = order[i]
               \/ /\ problem.mayAbort
                  /\ problem.analysis[order[i]] = "steady"
                  /\ problem.adaptivitySteps[order[i]] > 0
    <3>1. CASE Solved(i)
      BY <3>1 DEF Stored, Loops
    <3>2. CASE ~Solved(i)
      <4>1. i = turn /\ pc' \in {"nextField", "done"} /\ ~(pc \in {"nextField", "done"})
        BY <2>2, <3>2 DEF Solved, Moves
      <4>2. \/ pc = "solve" /\ problem.mayAbort /\ Steady /\ HasAdaptivity
            \/ pc = "reread"
        BY <4>1 DEF Moves
      <4>3. target = order[turn]
        BY <4>2, BusyFacts DEF Busy
      <4>4. CASE pc = "reread"
        <5>1. ID(target, 0, 0) \in Indexed
          BY <4>4 DEF Stored, Loops
        <5>2. ID(target, 0, 0).field = target
          BY DEF ID
        <5> QED BY <4>1, <4>3, <5>1, <5>2
      <4> QED BY <4>1, <4>2, <4>3, <4>4 DEF Steady, HasAdaptivity, MaxAdaptivitySteps
    <3> QED BY <3>1, <3>2
  <2> QED BY <2>1, <2>2 DEF Stored, Moves
<1>4. StartCached'
  <2>1. CASE ~(pc' \in {"timeLoop", "step"})
    BY <2>1 DEF StartCached
  <2>2. CASE pc' \in {"timeLoop", "step"}
    <3>1. /\ pc \in {"timeLoop", "step"} /\ UNCHANGED <<problem, target, timeStep>>
          /\ Cached' = Cached
          /\ adaptiveStep' = 0 \/ (pc' = pc /\ adaptiveStep' = adaptiveStep)
      BY <2>2 DEF Moves
    <3> QED BY <3>1 DEF StartCached, Loops
  <2> QED BY <2>1, <2>2
<1> QED BY <1>1, <1>2, <1>3, <1>4 DEF Loops

\* Going on to the next field, too.
LEMMA NextFieldKeepsLoops ==
    ASSUME IInv, Loops, NextField PROVE Loops'
<1>1. /\ pc = "nextField" /\ pc' = "sources" /\ turn' = turn + 1 /\ turn \in Nat
      /\ UNCHANGED <<problem, order, timeStepLengths, abort>> /\ Indexed' = Indexed
  BY DEF NextField, computationVars, storeVars, Indexed, IInv, TypeOK
<1>2. Untimed' => Untimed
  <2> SUFFICES ASSUME Untimed', NEW k \in 1 .. turn, problem.analysis[order[k]] = "transient"
               PROVE  FALSE
    BY DEF Untimed
  <2> QED BY <1>1 DEF Untimed
<1>3. Early'
  <2>1. TimeLastStep' = TimeLastStep
    BY <1>1 DEF TimeLastStep
  <2> QED BY <1>1, <1>2, <2>1 DEF Early, Loops
<1>4. Once' /\ StartCached'
  BY <1>1 DEF Once, StartCached, Loops
<1>5. Stored'
  <2>1. \A i \in 1 .. turn' : Solved(i)' => i \in 1 .. turn /\ Solved(i)
    BY <1>1 DEF Solved
  <2> QED BY <1>1, <2>1 DEF Stored, Loops
<1> QED BY <1>3, <1>4, <1>5 DEF Loops

\* What is stored under a free identifier, with the previous step in the cache, is stored.
LEMMA StoreAdds ==
    ASSUME StoreTyped, NEW id, NEW s \in Solutions, NEW r \in RunTimes, NEW next,
           Store(id, s, r, next), ~Contains(id), HasPrevious(id) => Previous(id) \in Cached
    PROVE  /\ pc' = next /\ id \in SolutionIDs
           /\ Indexed' = Indexed \cup {id}
           /\ id \in Cached'
           /\ Cardinality(Cached) <= CacheSize => Cached \subseteq Cached'
<1>1. id \in SolutionIDs
  BY DEF Store
<1>2. dealCache[id] = None
  BY <1>1 DEF StoreTyped, Cached, CachedIn, Indexed, Contains
<1>3. MayAdd(id)
  BY <1>2 DEF MayAdd, PreviousIsCached
<1>4. AddSolution(id, s, r) /\ pc' = next
  BY <1>3 DEF Store
<1>5. id \in Cached' /\ (Cardinality(Cached) <= CacheSize => Cached \subseteq Cached')
  BY <1>1, <1>4, AddCached
<1>6. multiSolutions' = [multiSolutions EXCEPT ![id] = 1]
  BY <1>1, <1>4, AddStored
<1>7. Indexed' = Indexed \cup {id}
  BY <1>1, <1>6 DEF Indexed, StoreTyped
<1> QED BY <1>1, <1>4, <1>5, <1>7

\* A source that is asked for has been solved, and not been aborted.
LEMMA SetCouplingSourceFinds ==
    ASSUME Supported, IInv, Ordered, Loops, SetCouplingSource
    PROVE  pc' # "crashed" /\ Loops'
<1>0. pc = "sources" /\ turn \in 1 .. Len(order) /\ target = order[turn] /\ target \in Fields
  BY BusyFacts DEF SetCouplingSource, Busy
<1>1. PICK i \in SourcesLeft :
         IF Contains(NewestSolution(order[i]))
         THEN MultiArray(NewestSolution(order[i])) /\ UNCHANGED pc
         ELSE Crash /\ UNCHANGED <<storeVars, held>>
  BY DEF SetCouplingSource
<1>2. /\ i \in 1 .. Len(order) /\ order[i] \in PluginCouplings[target] /\ order[i] \in Fields
      /\ Len(order) \in Nat
  BY ProblemFacts DEF SourcesLeft, Supported
<1>3. /\ order[i] # target
      /\ [source |-> order[i], target |-> target] \in Range(problem.weakCouplings)
      /\ problem.mayAbort =>
            problem.analysis[order[i]] = "transient" \/ problem.adaptivitySteps[order[i]] = 0
  BY <1>0, <1>2, ProblemFacts DEF Supported
<1>4. i < turn
  <2>1. i \in DOMAIN order /\ turn \in DOMAIN order
    BY <1>0, <1>2, ProblemFacts DEF Supported
  <2>2. i <= turn
    BY <1>0, <1>3, <2>1 DEF Ordered
  <2> QED BY <1>0, <1>2, <1>3, <2>2
<1>5. i \in 1 .. turn /\ Solved(i)
  BY <1>0, <1>2, <1>4 DEF Solved
<1>6. PICK id \in Indexed : id.field = order[i]
  BY <1>3, <1>5 DEF Stored, Loops
<1>7. Contains(NewestSolution(order[i]))
  BY <1>6, NewestIsStored
<1> DEFINE new == NewestSolution(order[i])
<1> HIDE DEF new
<1>8. MultiArray(new) /\ pc' = pc
  BY <1>1, <1>7 DEF new
<1>9. Indexed' = Indexed
  BY <1>8 DEF MultiArray, Indexed
<1>10. UNCHANGED <<problem, order, turn, target, timeStepLengths, abort, adaptiveStep>>
  BY DEF SetCouplingSource, computationVars, loopVars
<1>11. Moves
  BY <1>0, <1>8, <1>9, <1>10 DEF Moves, Stored, Loops
<1> QED BY <1>0, <1>8, <1>11, MovesKeepLoops

\* Reading a step again changes the cache only.
LEMMA RereadStepKeepsLoops ==
    ASSUME IInv, Loops, RereadStep, UNCHANGED problemVars
    PROVE  pc' # "crashed" /\ Loops'
<1>1. pc = "reread" /\ UNCHANGED <<pc, problem, order, turn, target, timeStepLengths, abort, adaptiveStep>>
  BY DEF RereadStep, computationVars, problemVars
<1>2. Indexed' = Indexed
  BY DEF RereadStep, MultiArray, Indexed, storeVars
<1>3. Moves
  BY <1>1, <1>2 DEF Moves, Stored, Loops
<1> QED BY <1>1, <1>3, MovesKeepLoops

\* A steady field has no solution yet under the identifier it stores, nor a previous one.
LEMMA SteadyIsFree ==
    ASSUME IInv, pc = "solve", Steady, NEW k, k = adaptiveStep
    PROVE  /\ ~Contains(ID(target, TimeLastStep, k))
           /\ ~HasPrevious(ID(target, TimeLastStep, k))
<1> DEFINE id == ID(target, TimeLastStep, k)
<1>1. id.field = target /\ id.timeStep = TimeLastStep /\ id.adaptivityStep = k
  BY DEF ID
<1>2. TimeLastStep \in Int /\ adaptiveStep \in Nat
  BY BusyFacts DEF Busy, IInv, TypeOK
<1>3. Previous(id).field = target /\ Previous(id).timeStep = TimeLastStep - 1
  BY DEF Previous, ID
<1>4. \A i \in Indexed : i.field = target => i.timeStep = TimeLastStep /\ i.adaptivityStep < adaptiveStep
  BY DEF IInv, Listed
<1> HIDE DEF id
<1>5. id \notin Indexed
  BY <1>1, <1>2, <1>4
<1>6. Previous(id) \notin Indexed
  BY <1>2, <1>3, <1>4
<1>7. ~Contains(id) /\ ~Contains(Previous(id))
  BY <1>5, <1>6 DEF Contains, Indexed
<1> QED BY <1>7 DEF HasPrevious, id

\* What a steady field stores keeps what is known of the loops.
LEMMA SteadyStored ==
    ASSUME Supported, IInv, Loops, pc = "solve", Steady,
           NEW k, problem.adaptivitySteps[target] <= 1 => k = 0,
           Indexed' = Indexed \cup {ID(target, TimeLastStep, k)},
           UNCHANGED <<problem, order, turn, target, timeStepLengths, abort>>,
           \/ pc' = "nextField"
           \/ pc' = "solve" /\ ~(problem.adaptivitySteps[target] <= 1)
    PROVE  Loops'
<1> DEFINE id == ID(target, TimeLastStep, k)
<1>0. /\ turn \in 1 .. Len(order) /\ target = order[turn] /\ target \in Fields
      /\ problem.analysis[target] = "steady"
  BY BusyFacts DEF Busy, Steady
<1>1. id.field = target /\ id.timeStep = TimeLastStep /\ id.adaptivityStep = k
  BY DEF ID
<1> HIDE DEF id
<1>2. Early'
  <2>1. Untimed' => Untimed
    BY DEF Untimed
  <2>2. TimeLastStep' = TimeLastStep
    BY DEF TimeLastStep
  <2>3. Indexed' = Indexed \cup {id}
    BY DEF id
  <2>4. Untimed' => id.timeStep = 0
    BY <1>1, <2>1 DEF Early, Loops
  <2>5. \A i \in Indexed' : problem'.analysis[i.field] = "steady" =>
            (Untimed' \/ pc' \in {"timeLoop", "step"} => i.timeStep = 0)
    BY <2>1, <2>3, <2>4 DEF Early, Loops
  <2> QED BY <2>1, <2>2, <2>5 DEF Early, Loops
<1>3. Once'
  <2>1. Indexed' = Indexed \cup {id}
    BY DEF id
  <2>2. pc' = "solve" => ~(MaxAdaptivitySteps' <= 1)
    BY DEF MaxAdaptivitySteps
  <2> QED BY <1>0, <1>1, <2>1, <2>2 DEF Once, Loops
<1>4. Stored'
  <2>1. Indexed' = Indexed \cup {id}
    BY DEF id
  <2>2. \A i \in 1 .. turn : Solved(i)' => Solved(i) \/ i = turn
    BY DEF Solved
  <2> QED BY <1>0, <1>1, <2>1, <2>2 DEF Stored, Loops
<1>5. StartCached'
  BY DEF StartCached
<1> QED BY <1>2, <1>3, <1>4, <1>5 DEF Loops

\* A steady field that is solved in one go finds its place free.
LEMMA SolveSteadyStores ==
    ASSUME Supported, IInv, Loops, SolveSteady, UNCHANGED problemVars
    PROVE  pc' # "crashed" /\ Loops'
<1> DEFINE s == [mesh |-> calculationMesh, vector |-> 0]
           none == 0
           next == "nextField"
<1>1. /\ pc = "solve" /\ Steady /\ ~HasAdaptivity /\ Store(ID(target, TimeLastStep, none), s, 0, next)
      /\ UNCHANGED <<problem, order, turn, target, timeStepLengths, abort>>
  BY DEF SolveSteady, computationVars, problemVars
<1>2. adaptiveStep = none /\ StoreTyped
  BY <1>1 DEF IInv, Places
<1>3. s \in Solutions /\ 0 \in RunTimes
  BY TimeAssumption DEF IInv, TypeOK, Solutions
<1>4. problem.adaptivitySteps[target] <= 1
  BY <1>1, BusyFacts DEF HasAdaptivity, MaxAdaptivitySteps, Busy
<1>5. none = 0 /\ next # "crashed" /\ next = "nextField"
  OBVIOUS
<1> HIDE DEF s, none, next
<1>6. ~Contains(ID(target, TimeLastStep, none)) /\ ~HasPrevious(ID(target, TimeLastStep, none))
  BY <1>1, <1>2, SteadyIsFree
<1>7. pc' = next /\ Indexed' = Indexed \cup {ID(target, TimeLastStep, none)}
  BY <1>1, <1>2, <1>3, <1>6, StoreAdds
<1> QED BY <1>1, <1>4, <1>5, <1>7, SteadyStored

\* So does each step of its space adaptivity.
LEMMA SteadyAdaptiveStepStores ==
    ASSUME Supported, IInv, Loops, SteadyAdaptiveStep, UNCHANGED problemVars
    PROVE  pc' # "crashed" /\ Loops'
<1> DEFINE s == [mesh |-> calculationMesh', vector |-> 0]
           k == adaptiveStep
<1>1. /\ pc = "solve" /\ Steady /\ HasAdaptivity /\ calculationMesh' \in Meshes
      /\ UNCHANGED <<problem, order, turn, target, timeStepLengths, abort>>
  BY DEF SteadyAdaptiveStep, problemVars, IInv, TypeOK
<1>2. PICK converged \in BOOLEAN :
         Store(ID(target, TimeLastStep, k), s, 0,
               IF converged \/ adaptiveStep + 1 = MaxAdaptivitySteps THEN "nextField" ELSE "solve")
  BY DEF SteadyAdaptiveStep
<1> DEFINE next == IF converged \/ adaptiveStep + 1 = MaxAdaptivitySteps THEN "nextField" ELSE "solve"
<1>3. s \in Solutions /\ 0 \in RunTimes /\ StoreTyped
  BY <1>1, TimeAssumption DEF IInv, TypeOK, Solutions
<1>4. k = adaptiveStep /\ (problem.adaptivitySteps[target] <= 1 => k = 0)
  BY <1>1 DEF Once, Loops, MaxAdaptivitySteps
<1>5. \/ next = "nextField"
      \/ next = "solve" /\ ~(problem.adaptivitySteps[target] <= 1)
  <2> SUFFICES ASSUME next = "solve", problem.adaptivitySteps[target] <= 1 PROVE FALSE
    OBVIOUS
  <2>1. adaptiveStep = 0 /\ MaxAdaptivitySteps <= 1 /\ MaxAdaptivitySteps > 0
    BY <1>1, <1>4 DEF HasAdaptivity, MaxAdaptivitySteps
  <2>2. MaxAdaptivitySteps \in Nat
    BY <1>1, BusyFacts DEF Busy, MaxAdaptivitySteps
  <2>3. adaptiveStep + 1 = MaxAdaptivitySteps
    BY <2>1, <2>2
  <2> QED BY <2>3
<1>6. Store(ID(target, TimeLastStep, k), s, 0, next)
  BY <1>2
<1> HIDE DEF s, k, next
<1>7. ~Contains(ID(target, TimeLastStep, k)) /\ ~HasPrevious(ID(target, TimeLastStep, k))
  BY <1>1, <1>4, SteadyIsFree
<1>8. pc' = next /\ Indexed' = Indexed \cup {ID(target, TimeLastStep, k)}
  BY <1>3, <1>6, <1>7, StoreAdds
<1>9. Loops'
  BY <1>1, <1>4, <1>5, <1>8, SteadyStored
<1> QED BY <1>5, <1>8, <1>9

\* A set has no more images than members.
LEMMA ImageIsSmall ==
    ASSUME NEW S, IsFiniteSet(S), NEW h, DOMAIN h = S, h = [x \in S |-> h[x]]
    PROVE  /\ IsFiniteSet({h[x] : x \in S})
           /\ Cardinality({h[x] : x \in S}) <= Cardinality(S)
<1> DEFINE T == {h[x] : x \in S}
<1>1. h \in Surjection(S, T)
  BY DEF Surjection
<1> HIDE DEF T
<1>2. IsFiniteSet(T) /\ Cardinality(T) <= Cardinality(S)
  BY <1>1, FS_Surjection
<1> QED BY <1>2 DEF T

\* The transient field is the only one that may have solutions after time step 0.
LEMMA OthersInTheLoop ==
    ASSUME Supported, IInv, Ordered, Loops, pc \in {"timeLoop", "step"}, ~Steady,
           NEW id \in Indexed, id.field # target
    PROVE  /\ id.field \in Before(problem, target) /\ id.timeStep = 0
           /\ problem.adaptivitySteps[id.field] <= 1 => id.adaptivityStep = 0
<1>1. turn \in 1 .. Len(order) /\ target = order[turn] /\ target \in Fields
      /\ problem.analysis[target] = "transient"
  BY BusyFacts DEF Busy, Steady
<1>2. PICK i \in 1 .. turn : id.field = order[i]
  BY DEF IInv, Listed
<1>3. i < turn /\ i \in 1 .. Len(order) /\ order[i] \in Fields /\ Len(order) \in Nat
  BY <1>1, <1>2, ProblemFacts DEF Supported
<1>4. problem.analysis[id.field] = "steady"
  BY <1>1, <1>2, <1>3, ProblemFacts DEF Supported
<1>5. [source |-> target, target |-> id.field] \notin Range(problem.weakCouplings)
  <2> SUFFICES ASSUME [source |-> order[turn], target |-> order[i]] \in Range(problem.weakCouplings)
               PROVE  FALSE
    BY <1>1, <1>2
  <2>1. i \in DOMAIN order /\ turn \in DOMAIN order
    BY <1>1, <1>3, ProblemFacts DEF Supported
  <2>2. turn <= i
    BY <2>1 DEF Ordered
  <2> QED BY <1>1, <1>3, <2>2
<1>6. id.field \in Before(problem, target)
  BY <1>2, <1>3, <1>5 DEF Before, Fields
<1>7. id.timeStep = 0 /\ (problem.adaptivitySteps[id.field] <= 1 => id.adaptivityStep = 0)
  BY <1>4 DEF Early, Once, Loops
<1> QED BY <1>6, <1>7

\* Nothing is flushed before the second step of a field that may come back to the first.
LEMMA FirstStepsAreKept ==
    ASSUME Supported, FirstStepsFit, IInv, Ordered, Loops, pc = "step", timeStep = 1,
           ComesBack(problem, target)
    PROVE  Cardinality(Cached) <= CacheSize
<1> DEFINE n == FirstSolutions(problem, target)
           earlier == Before(problem, target)
           first == [g \in earlier |-> ID(g, 0, 0)]
           own == [k \in 0 .. n - 1 |-> IF k = 0 THEN ID(target, 0, 0) ELSE ID(target, 1, k - 1)]
           A == {first[g] : g \in earlier}
           B == {own[k] : k \in 0 .. n - 1}
<1>1. /\ problem \in Problems /\ target \in Fields /\ ~Steady /\ problem.analysis[target] = "transient"
      /\ MaxAdaptivitySteps \in Nat /\ adaptiveStep \in Nat /\ adaptiveStep < MaxAdaptiveSteps
  BY StepFacts, ProblemFacts DEF Supported, Steady
<1>2. n = MaxAdaptiveSteps /\ n \in Nat \ {0}
  BY <1>1 DEF FirstSolutions, MaxAdaptiveSteps, HasAdaptivity, MaxAdaptivitySteps
<1>3. /\ \A g \in earlier : problem.adaptivitySteps[g] <= 1
      /\ Cardinality(earlier) + n <= CacheSize
  BY <1>1 DEF FirstStepsFit, Fields
<1>4. IsFiniteSet(earlier)
  <2>1. PICK fs : fs = problem.fields
    OBVIOUS
  <2>2. fs \in Seq(Fields)
    BY <1>1, <2>1, Facts
  <2>3. PICK places : places = 1 .. Len(fs)
    OBVIOUS
  <2>4. IsFiniteSet(places) /\ fs = [x \in places |-> fs[x]] /\ DOMAIN fs = places
    <3>1. Len(fs) \in Nat /\ DOMAIN fs = places /\ fs = [x \in places |-> fs[x]]
      BY <2>2, <2>3
    <3>2. 1 \in Int /\ Len(fs) \in Int
      BY <3>1
    <3>3. IsFiniteSet(1 .. Len(fs))
      BY <3>2, FS_Interval
    <3> QED BY <2>3, <3>1, <3>3
  <2>5. IsFiniteSet({fs[x] : x \in places})
    BY <2>4, ImageIsSmall
  <2>6. earlier \subseteq {fs[x] : x \in places}
    BY <2>1, <2>4 DEF Before, Range
  <2> QED BY <2>5, <2>6, FS_Subset
<1>5. IsFiniteSet(A) /\ Cardinality(A) <= Cardinality(earlier)
  <2>1. DOMAIN first = earlier /\ first = [g \in earlier |-> first[g]]
    OBVIOUS
  <2> HIDE DEF earlier, first
  <2> QED BY <1>4, <2>1, ImageIsSmall
<1>6. IsFiniteSet(B) /\ Cardinality(B) <= n
  <2>1. DOMAIN own = 0 .. n - 1 /\ own = [k \in 0 .. n - 1 |-> own[k]]
    OBVIOUS
  <2>2. IsFiniteSet(0 .. n - 1) /\ Cardinality(0 .. n - 1) = n
    <3> HIDE DEF n
    <3>1. 0 \in Int /\ n - 1 \in Int /\ ~(0 > n - 1) /\ n - 1 - 0 + 1 = n
      BY <1>2
    <3> QED BY <3>1, FS_Interval
  <2> DEFINE S == 0 .. n - 1
  <2> HIDE DEF own, S
  <2>3. IsFiniteSet({own[k] : k \in S}) /\ Cardinality({own[k] : k \in S}) <= Cardinality(S)
    BY <2>1, <2>2, ImageIsSmall DEF S
  <2> QED BY <2>2, <2>3 DEF S
<1>7. Cached \subseteq A \cup B
  <2> SUFFICES ASSUME NEW id \in Indexed PROVE id \in A \cup B
    BY DEF IInv, StoreTyped
  <2>1. id = ID(id.field, id.timeStep, id.adaptivityStep) /\ id.timeStep \in Nat /\ id.adaptivityStep \in Nat
    BY IdentifierOf DEF Indexed
  <2>2. CASE id.field = target
    <3>1. /\ id.timeStep = 0 \/ id.timeStep = 1
          /\ id.timeStep = 1 => id.adaptivityStep < adaptiveStep
      BY <2>1, <2>2 DEF IInv, Listed
    <3>2. id.timeStep = 0 => id.adaptivityStep = 0
      BY <1>1, <2>2 DEF Once, Loops
    <3>3. CASE id.timeStep = 0
      <4>1. 0 \in 0 .. n - 1
        BY <1>2
      <4>2. own[0] = ID(target, 0, 0)
        BY <4>1
      <4> QED BY <2>1, <2>2, <3>2, <3>3, <4>1, <4>2
    <3>4. CASE id.timeStep = 1
      <4> DEFINE k == id.adaptivityStep + 1
      <4>1. k \in 0 .. n - 1 /\ k # 0 /\ k - 1 = id.adaptivityStep
        BY <1>1, <1>2, <2>1, <3>1, <3>4
      <4> HIDE DEF k
      <4>2. own[k] = ID(target, 1, id.adaptivityStep)
        BY <4>1
      <4> QED BY <2>1, <2>2, <3>4, <4>1, <4>2
    <3> QED BY <3>1, <3>3, <3>4
  <2>3. CASE id.field # target
    <3>1. id.field \in earlier /\ id.timeStep = 0 /\ id.adaptivityStep = 0
      BY <1>1, <1>3, <2>3, OthersInTheLoop
    <3>2. id = first[id.field]
      BY <2>1, <3>1
    <3> QED BY <3>1, <3>2
  <2> QED BY <2>2, <2>3
<1> HIDE DEF n, A, B
<1>8. IsFiniteSet(A \cup B) /\ Cardinality(A \cup B) <= Cardinality(A) + Cardinality(B)
  <2>1. /\ IsFiniteSet(A \cup B)
        /\ Cardinality(A \cup B) = Cardinality(A) + Cardinality(B) - Cardinality(A \cap B)
    BY <1>5, <1>6, FS_Union
  <2>2. IsFiniteSet(A \cap B)
    BY <1>5, FS_Subset
  <2>3. Cardinality(A) \in Nat /\ Cardinality(B) \in Nat /\ Cardinality(A \cap B) \in Nat
    BY <1>5, <1>6, <2>2, FS_CardinalityType
  <2> QED BY <2>1, <2>3
<1>9. Cardinality(Cached) <= Cardinality(A \cup B) /\ IsFiniteSet(Cached)
  BY <1>7, <1>8, FS_Subset
<1>10. /\ Cardinality(Cached) \in Nat /\ Cardinality(A) \in Nat /\ Cardinality(B) \in Nat
       /\ Cardinality(A \cup B) \in Nat /\ Cardinality(earlier) \in Nat
  BY <1>4, <1>5, <1>6, <1>8, <1>9, FS_CardinalityType
<1> HIDE DEF earlier
<1> QED BY <1>2, <1>3, <1>5, <1>6, <1>8, <1>9, <1>10, CacheSizeAssumption

\* The identifier of the step before, as addSolution looks it up.
LEMMA PreviousOf ==
    ASSUME NEW f, NEW t, NEW k
    PROVE  /\ Previous(ID(f, t, k)) = ID(f, t - 1, k)
           /\ ID(f, t, k).field = f /\ ID(f, t, k).timeStep = t /\ ID(f, t, k).adaptivityStep = k
BY DEF Previous, ID

\* The one transient field starts at time step 0, with an empty place for its solution.
LEMMA StoreInitialConditionStores ==
    ASSUME Supported, IInv, Loops, StoreInitialCondition, UNCHANGED problemVars
    PROVE  pc' # "crashed" /\ Loops'
<1>0. /\ pc = "solve" /\ ~Steady /\ timeStep' = 1 /\ adaptiveStep' = adaptiveStep
      /\ UNCHANGED <<problem, order, turn, target, timeStepLengths, abort>>
  BY DEF StoreInitialCondition, computationVars, problemVars, loopVars
<1>1. /\ turn \in 1 .. Len(order) /\ target = order[turn] /\ target \in Fields
      /\ problem.analysis[target] = "transient"
  BY <1>0, BusyFacts DEF Busy, Steady
<1>2. Untimed
  <2> SUFFICES ASSUME NEW k \in 1 .. turn, problem.analysis[order[k]] = "transient" PROVE k = turn
    BY <1>0 DEF Untimed
  <2>1. k \in 1 .. Len(order) /\ order[k] \in Fields
    BY <1>1, ProblemFacts DEF Supported
  <2>2. order[k] = order[turn]
    BY <1>1, <2>1, ProblemFacts DEF Supported
  <2> QED BY <1>1, <2>1, <2>2, ProblemFacts DEF Supported
<1>3. TimeLastStep = 0
  BY <1>2 DEF Early, Loops
<1> DEFINE id == ID(target, 0, 0)
           s == [mesh |-> calculationMesh, vector |-> 0]
           next == "timeLoop"
<1>4. Store(id, s, 0, next) /\ next = "timeLoop"
  BY <1>3 DEF StoreInitialCondition
<1>5. s \in Solutions /\ 0 \in RunTimes /\ StoreTyped
  BY TimeAssumption DEF IInv, TypeOK, Solutions
<1>6. id.field = target /\ id.timeStep = 0 /\ id.adaptivityStep = 0
  BY DEF ID
<1> HIDE DEF id, s, next
<1>7. ~Contains(id)
  BY <1>0, <1>6 DEF IInv, Listed, Contains, Indexed
<1>8. ~HasPrevious(id)
  BY <1>6 DEF HasPrevious
<1>9. pc' = "timeLoop" /\ Indexed' = Indexed \cup {id} /\ id \in Cached'
  BY <1>4, <1>5, <1>7, <1>8, StoreAdds
<1>10. Early'
  <2>1. ~Untimed'
    BY <1>0, <1>1, <1>9 DEF Untimed
  <2> QED BY <1>0, <1>1, <1>2, <1>6, <1>9, <2>1 DEF Early, Loops
<1>11. Once'
  BY <1>0, <1>1, <1>6, <1>9 DEF Once, Loops
<1>12. Stored'
  <2>1. \A i \in 1 .. turn : Solved(i)' => Solved(i)
    BY <1>0, <1>9 DEF Solved
  <2> QED BY <1>0, <1>9, <2>1 DEF Stored, Loops, id
<1>13. StartCached'
  <2>1. timeStep' - 1 = 0 /\ timeStep' # 2
    BY <1>0
  <2>2. ID(target', timeStep' - 1, 0) = id
    BY <1>0, <2>1 DEF id
  <2> QED BY <1>9, <2>1, <2>2 DEF StartCached
<1> QED BY <1>9, <1>10, <1>11, <1>12, <1>13 DEF Loops

\* A step that is tried has a free identifier, and the step before it in the cache.
LEMMA StepIsFree ==
    ASSUME IInv, Loops, pc = "step"
    PROVE  /\ ~Contains(ID(target, timeStep, adaptiveStep))
           /\ HasPrevious(ID(target, timeStep, adaptiveStep)) =>
                 Previous(ID(target, timeStep, adaptiveStep)) \in Cached
           /\ adaptiveStep > 0 => timeStep = 1
<1> DEFINE id == ID(target, timeStep, adaptiveStep)
<1>0. /\ timeStep \in Nat \ {0} /\ adaptiveStep \in Nat /\ adaptiveStep < MaxAdaptiveSteps
      /\ target \in Fields /\ ~Steady /\ problem \in Problems
  BY StepFacts DEF IInv, TypeOK
<1>1. id.field = target /\ id.timeStep = timeStep /\ id.adaptivityStep = adaptiveStep
  BY PreviousOf
<1>2. Previous(id) = ID(target, timeStep - 1, adaptiveStep)
  BY PreviousOf
<1> HIDE DEF id
<1>3. ~Contains(id)
  BY <1>0, <1>1 DEF IInv, Listed, Contains, Indexed
<1>4. adaptiveStep > 0 => timeStep = 1
  BY <1>0 DEF MaxAdaptiveSteps
<1>5. ASSUME HasPrevious(id) PROVE Previous(id) \in Cached
  <2>1. CASE adaptiveStep = 0
    BY <1>2, <2>1 DEF StartCached, Loops
  <2>2. CASE adaptiveStep > 0
    <3>1. timeStep - 1 = 0
      BY <1>4, <2>2
    <3>2. Previous(id) = ID(target, 0, adaptiveStep)
      BY <1>2, <3>1
    <3>3. Previous(id) \in Indexed
      BY <1>5 DEF HasPrevious, Contains, Indexed
    <3>4. Previous(id).field = target /\ Previous(id).timeStep = 0
          /\ Previous(id).adaptivityStep = adaptiveStep
      BY <3>2, PreviousOf
    <3>5. problem.analysis[target] = "transient"
      BY <1>0, Facts DEF Steady
    <3>6. adaptiveStep = 0
      BY <3>3, <3>4, <3>5 DEF Once, Loops
    <3> QED BY <1>0, <2>2, <3>6
  <2> QED BY <1>0, <2>1, <2>2
<1> QED BY <1>3, <1>4, <1>5 DEF id

\* A step that is accepted finds its place free and the step before it in the cache, and
\* leaves there what the next one, or its repetition, needs.
LEMMA AcceptTimeStepStores ==
    ASSUME Supported, FirstStepsFit, IInv, Ordered, Loops, AcceptTimeStep, UNCHANGED problemVars
    PROVE  pc' # "crashed" /\ Loops'
<1> DEFINE id == ID(target, timeStep, adaptiveStep)
           s == [mesh |-> calculationMesh, vector |-> solverTime]
           zero == ID(target, 0, 0)
           one == ID(target, 1, 0)
<1>0. /\ pc = "step" /\ UNCHANGED <<problem, order, turn, target, abort>>
      /\ timeStep \in Nat \ {0} /\ adaptiveStep \in Nat /\ adaptiveStep < MaxAdaptiveSteps
      /\ MaxAdaptiveSteps \in Nat
      /\ turn \in 1 .. Len(order) /\ target = order[turn] /\ target \in Fields
      /\ ~Steady /\ problem.analysis[target] = "transient"
  <2>1. pc = "step" /\ UNCHANGED <<problem, order, turn, target, abort>>
    BY DEF AcceptTimeStep, problemVars
  <2>2. target \in Fields /\ ~Steady
    BY <2>1, StepFacts
  <2>3. problem.analysis[target] = "transient"
    BY <2>2, Facts DEF Steady, IInv, TypeOK
  <2> QED BY <2>1, <2>2, <2>3, StepFacts
<1>1. PICK settled \in BOOLEAN :
         LET last == settled \/ adaptiveStep + 1 = MaxAdaptiveSteps
         IN  /\ Store(id, s, ActualLength, IF last THEN "timeLoop" ELSE "step")
             /\ adaptiveStep' = IF last THEN 0 ELSE adaptiveStep + 1
             /\ timeStep' = IF last THEN timeStep + 1 ELSE timeStep
  BY DEF AcceptTimeStep
<1> DEFINE last == settled \/ adaptiveStep + 1 = MaxAdaptiveSteps
           next == IF last THEN "timeLoop" ELSE "step"
<1>2. s \in Solutions /\ ActualLength \in RunTimes /\ StoreTyped
  <2>1. solverTime \in 0 .. TimeTotal /\ ActualLength \in Lengths /\ calculationMesh \in Meshes
    BY <1>0, StepFacts DEF IInv, TypeOK
  <2>2. solverTime \in Vectors /\ ActualLength \in RunTimes
    BY <2>1, TimeAssumption DEF Lengths
  <2> QED BY <2>1, <2>2 DEF Solutions, IInv
<1>3. /\ Store(id, s, ActualLength, next)
      /\ adaptiveStep' = IF last THEN 0 ELSE adaptiveStep + 1
      /\ timeStep' = IF last THEN timeStep + 1 ELSE timeStep
  BY <1>1
<1>4. next = (IF last THEN "timeLoop" ELSE "step") /\ last \in BOOLEAN
  OBVIOUS
<1>5. id.field = target /\ id.timeStep = timeStep /\ id.adaptivityStep = adaptiveStep
  BY PreviousOf
<1>6. ~Contains(id) /\ (HasPrevious(id) => Previous(id) \in Cached) /\ (adaptiveStep > 0 => timeStep = 1)
  BY <1>0, StepIsFree
<1>7. ~last => timeStep = 1 /\ ComesBack(problem, target)
  <2> SUFFICES ASSUME ~last PROVE timeStep = 1 /\ ComesBack(problem, target)
    OBVIOUS
  <2>1. adaptiveStep + 1 < MaxAdaptiveSteps
    BY <1>0
  <2> QED BY <1>0, <2>1 DEF MaxAdaptiveSteps, MaxAdaptivitySteps, ComesBack
<1>8. adaptiveStep > 0 => timeStep = 1 /\ ComesBack(problem, target)
  BY <1>0 DEF MaxAdaptiveSteps, MaxAdaptivitySteps, ComesBack
<1> HIDE DEF id, s, last, next, zero, one
<1>9. /\ pc' = next /\ Indexed' = Indexed \cup {id} /\ id \in Cached'
      /\ Cardinality(Cached) <= CacheSize => Cached \subseteq Cached'
  BY <1>2, <1>3, <1>6, StoreAdds
<1>10. timeStep = 1 /\ ComesBack(problem, target) => Cached \subseteq Cached'
  BY <1>0, <1>9, FirstStepsAreKept
<1>11. pc' \in {"timeLoop", "step"}
  BY <1>4, <1>9
<1>12. Early'
  <2>1. ~Untimed'
    BY <1>0, <1>11 DEF Untimed
  <2> QED BY <1>0, <1>5, <1>9, <1>11, <2>1 DEF Early, Loops
<1>13. Once'
  BY <1>0, <1>5, <1>9, <1>11 DEF Once, Loops
<1>14. Stored'
  <2>1. \A i \in 1 .. turn : Solved(i)' => Solved(i)
    BY <1>0, <1>11 DEF Solved
  <2> QED BY <1>0, <1>9, <2>1 DEF Stored, Loops
<1>15. timeStep = 1 => zero \in Cached
  <2>1. timeStep = 1 => timeStep - 1 = 0
    OBVIOUS
  <2> QED BY <1>0, <2>1 DEF StartCached, Loops, zero
<1>16. adaptiveStep > 0 => one \in Cached
  BY <1>0 DEF StartCached, Loops, one
<1>17. timeStep = 1 /\ adaptiveStep = 0 => id = one
  BY DEF id, one
<1>18. (adaptiveStep > 0 \/ ~last) => zero \in Cached' /\ one \in Cached'
  BY <1>0, <1>7, <1>8, <1>9, <1>10, <1>15, <1>16, <1>17
<1>19. CASE last
  <2>1. pc' = "timeLoop" /\ timeStep' = timeStep + 1 /\ timeStep' - 1 = timeStep
    BY <1>0, <1>3, <1>4, <1>9, <1>19
  <2>2. ID(target, timeStep, 0) \in Cached'
    <3>1. CASE adaptiveStep = 0
      BY <1>9, <3>1 DEF id
    <3>2. CASE adaptiveStep > 0
      BY <1>6, <1>18, <3>2 DEF one
    <3> QED BY <1>0, <3>1, <3>2
  <2>3. ASSUME problem.timeMethod = "BDF", timeStep' = 2 PROVE zero \in Cached'
    <3>1. timeStep = 1
      BY <1>0, <2>1, <2>3
    <3> QED BY <1>10, <1>15, <2>3, <3>1 DEF ComesBack
  <2>4. StartCached'
    BY <1>0, <2>1, <2>2, <2>3 DEF StartCached, zero
  <2> QED BY <1>11, <1>12, <1>13, <1>14, <2>4 DEF Loops
<1>20. CASE ~last
  <2>1. pc' = "step" /\ timeStep' = 1 /\ timeStep' - 1 = 0 /\ timeStep' # 2
    BY <1>3, <1>4, <1>7, <1>9, <1>20
  <2>2. zero \in Cached' /\ one \in Cached'
    BY <1>18, <1>20
  <2>3. StartCached'
    BY <1>0, <2>1, <2>2 DEF StartCached, zero, one
  <2> QED BY <1>11, <1>12, <1>13, <1>14, <2>3 DEF Loops
<1> QED BY <1>4, <1>19, <1>20

\* A restart finds the solution of the first step, and keeps that of the beginning.
LEMMA RestartFinds ==
    ASSUME RepeatedStepsAreFixed, Supported, IInv, Loops, RestartTransient, UNCHANGED problemVars
    PROVE  pc' # "crashed" /\ Loops'
<1> DEFINE zero == ID(target, 0, 0)
<1>0. /\ pc = "step" /\ timeStep = 2 /\ problem.timeMethod = "BDF" /\ adaptiveStep = 0
      /\ timeStep' = 1 /\ adaptiveStep' = adaptiveStep
      /\ UNCHANGED <<problem, order, turn, target, abort>>
  BY RefusedFacts DEF RestartTransient, problemVars, loopVars
<1>1. /\ turn \in 1 .. Len(order) /\ target = order[turn] /\ target \in Fields /\ ~Steady
      /\ MaxAdaptivitySteps \in Nat /\ problem \in Problems
  BY <1>0, StepFacts DEF IInv, TypeOK
<1>2. problem.analysis[target] = "transient"
  BY <1>1, Facts DEF Steady
<1>3. MaxAdaptivitySteps <= 1
  BY <1>0, <1>1, <1>2 DEF RepeatedStepsAreFixed, MaxAdaptivitySteps, Fields
<1>4. PICK id : id = ID(target, 1, 0)
  OBVIOUS
<1>5. timeStep - 1 = 1 /\ timeStep > 1
  BY <1>0
<1>6. solutionID = id /\ id \in SolutionIDs
  BY <1>0, <1>3, <1>4, <1>5 DEF IInv, OneForEachStep
<1>7. id \in Cached /\ zero \in Cached
  BY <1>0, <1>4, <1>5 DEF StartCached, Loops
<1>8. id.field = target /\ id.timeStep = 1 /\ zero # id
  BY <1>4 DEF ID
<1> HIDE DEF zero
<1>9. Contains(id)
  BY <1>7 DEF IInv, StoreTyped, Contains, Indexed
<1>10. RemoveSolution(id) /\ pc' = "timeLoop"
  BY <1>6, <1>9 DEF RestartTransient
<1>11. /\ multiSolutions' = [multiSolutions EXCEPT ![id] = 0]
       /\ dealCache' = [dealCache EXCEPT ![id] = None]
  BY <1>6, <1>10, RemoveStored DEF IInv
<1>12. Indexed' = Indexed \ {id}
  BY <1>6, <1>11 DEF Indexed, IInv, StoreTyped
<1>13. zero \in Cached'
  BY <1>7, <1>8, <1>11 DEF Cached, CachedIn
<1>14. Early'
  <2>1. ~Untimed'
    BY <1>0, <1>1, <1>2, <1>10 DEF Untimed
  <2> QED BY <1>0, <1>10, <1>12, <2>1 DEF Early, Loops
<1>15. Once'
  BY <1>0, <1>10, <1>12 DEF Once, Loops
<1>16. Stored'
  <2>1. zero \in Indexed'
    BY <1>7, <1>8, <1>12 DEF IInv, StoreTyped
  <2>2. ASSUME NEW i \in 1 .. turn, Solved(i)'
        PROVE  \/ \E j \in Indexed' : j.field = order[i]
               \/ /\ problem.mayAbort
                  /\ problem.analysis[order[i]] = "steady"
                  /\ problem.adaptivitySteps[order[i]] > 0
    <3>1. i < turn /\ Solved(i)
      BY <1>0, <1>10, <2>2 DEF Solved
    <3>2. order[i] # target
      <4>1. i \in 1 .. Len(order) /\ turn \in Nat /\ i \in Nat
        BY <1>1, <3>1, ProblemFacts DEF Supported
      <4> QED BY <1>1, <3>1, <4>1, ProblemFacts DEF Supported
    <3>3. \A j \in Indexed : j.field = order[i] => j \in Indexed'
      BY <1>8, <1>12, <3>2
    <3> QED BY <3>1, <3>3 DEF Stored, Loops
  <2> QED BY <1>0, <1>10, <2>1, <2>2 DEF Stored, Loops, zero
<1>17. StartCached'
  <2>1. timeStep' - 1 = 0 /\ timeStep' # 2
    BY <1>0
  <2> QED BY <1>0, <1>10, <1>13, <2>1 DEF StartCached, zero
<1> QED BY <1>10, <1>14, <1>15, <1>16, <1>17 DEF Loops

\* No step of the solving of a field crashes.
LEMMA SolveFieldKeepsRunning ==
    ASSUME SafeProblems, IInv, Running, SolveField, UNCHANGED problemVars
    PROVE  pc' # "crashed" /\ Loops'
<1>0. IInv /\ Ordered /\ Loops /\ RepeatedStepsAreFixed /\ Supported /\ FirstStepsFit
  BY DEF Running, SafeProblems
<1>1. UNCHANGED storeVars => Indexed' = Indexed /\ Cached' = Cached
  BY DEF storeVars, Indexed, Cached, CachedIn
<1>2. abort => problem.mayAbort
  BY <1>0 DEF Stored, Loops
<1>3. CASE SolveSteady
  BY <1>0, <1>3, SolveSteadyStores
<1>4. CASE SteadyAdaptiveStep
  BY <1>0, <1>4, SteadyAdaptiveStepStores
<1>5. CASE SteadyAborted
  <2>1. Moves /\ pc' = "nextField"
    BY <1>1, <1>2, <1>5 DEF SteadyAborted, Moves, computationVars, problemVars
  <2> QED BY <1>0, <2>1, MovesKeepLoops
<1>6. CASE StoreInitialCondition
  BY <1>0, <1>6, StoreInitialConditionStores
<1>7. CASE BeginTimeStep
  <2>1. Moves /\ pc' = "step"
    BY <1>1, <1>2, <1>7 DEF BeginTimeStep, Moves, computationVars, problemVars
  <2> QED BY <1>0, <2>1, MovesKeepLoops
<1>8. CASE EndTimeLoop
  <2>1. Moves /\ pc' = "reread"
    BY <1>1, <1>2, <1>8 DEF EndTimeLoop, Moves, computationVars, problemVars
  <2> QED BY <1>0, <2>1, MovesKeepLoops
<1>9. CASE AcceptTimeStep
  BY <1>0, <1>9, AcceptTimeStepStores
<1>10. CASE RestartTransient
  BY <1>0, <1>10, RestartFinds
<1>11. CASE RefuseTimeStep
  <2>1. adaptiveStep = 0
    BY <1>0, <1>11, RefusedFacts DEF RefuseTimeStep
  <2>2. Moves /\ pc' = "timeLoop"
    BY <1>1, <1>2, <1>11, <2>1 DEF RefuseTimeStep, MayRefuse, Moves, computationVars, problemVars, loopVars
  <2> QED BY <1>0, <2>2, MovesKeepLoops
<1>12. CASE RereadStep
  BY <1>0, <1>12, RereadStepKeepsLoops
<1>13. CASE EndTransient
  <2>1. Moves /\ pc' = "nextField"
    BY <1>1, <1>2, <1>13 DEF EndTransient, Moves, computationVars, problemVars
  <2> QED BY <1>0, <2>1, MovesKeepLoops
<1> QED BY <1>3, <1>4, <1>5, <1>6, <1>7, <1>8, <1>9, <1>10, <1>11, <1>12, <1>13 DEF SolveField

\* No step crashes.
LEMMA NextKeepsRunning ==
    ASSUME SafeProblems, IInv, Running, [Next]_vars PROVE Running'
<1>0. IInv /\ Ordered /\ Loops /\ RepeatedStepsAreFixed /\ Supported /\ pc # "crashed"
  BY DEF Running, SafeProblems
<1>1. Ordered'
  BY <1>0, NextKeepsOrdered
<1>2. UNCHANGED storeVars => Indexed' = Indexed /\ Cached' = Cached
  BY DEF storeVars, Indexed, Cached, CachedIn
<1>3. abort => problem.mayAbort
  BY <1>0 DEF Stored, Loops
<1>4. CASE SortFields
  <2>1. /\ pc = "sort" /\ pc' \in {"sort", "nextField"} /\ turn = 0 /\ turn' = 0
        /\ UNCHANGED <<problem, timeStepLengths, abort>> /\ Indexed' = Indexed
    BY <1>0, <1>2, <1>4 DEF SortFields, computationVars, IInv, Places
  <2>2. Untimed /\ TimeLastStep' = TimeLastStep
    BY <2>1 DEF Untimed, TimeLastStep
  <2>3. Loops'
    BY <1>0, <1>3, <2>1, <2>2 DEF Loops, Early, Once, Stored, StartCached
  <2> QED BY <1>1, <2>1, <2>3 DEF Running
<1>5. CASE NextField
  <2>1. pc' # "crashed"
    BY <1>5 DEF NextField
  <2> QED BY <1>0, <1>1, <1>5, <2>1, NextFieldKeepsLoops DEF Running
<1>6. CASE SetCouplingSource
  BY <1>0, <1>1, <1>6, SetCouplingSourceFinds DEF Running
<1>7. CASE SourcesAreSet
  <2>1. adaptiveStep = 0
    BY <1>0, <1>7 DEF SourcesAreSet, IInv, Places
  <2>2. Moves /\ pc' # "crashed"
    BY <1>2, <1>3, <1>7, <2>1 DEF SourcesAreSet, Moves, computationVars, problemVars, loopVars
  <2> QED BY <1>0, <1>1, <2>2, MovesKeepLoops DEF Running
<1>8. CASE SolveField /\ UNCHANGED problemVars
  BY <1>1, <1>8, SolveFieldKeepsRunning DEF Running
<1>9. CASE EndProblem
  <2>1. Moves /\ pc' # "crashed"
    BY <1>2, <1>3, <1>9 DEF EndProblem, Moves, computationVars, problemVars
  <2> QED BY <1>0, <1>1, <2>1, MovesKeepLoops DEF Running
<1>10. CASE AbortSolving \/ Ended \/ UNCHANGED vars
  <2>1. /\ pc' = pc /\ UNCHANGED <<problem, order, turn, target, timeStepLengths, adaptiveStep, timeStep>>
        /\ abort' => problem.mayAbort
        /\ UNCHANGED storeVars
    BY <1>3, <1>10 DEF AbortSolving, Ended, vars, computationVars, problemVars, stepVars, loopVars
  <2>2. Moves
    BY <1>2, <2>1 DEF Moves
  <2> QED BY <1>0, <1>1, <2>1, <2>2, MovesKeepLoops DEF Running
<1> QED BY <1>4, <1>5, <1>6, <1>7, <1>8, <1>9, <1>10 DEF Next, SolverThread

\* The invariant holds at first.
LEMMA InitRunning == Init => Running
<1> SUFFICES ASSUME Init PROVE Running
  OBVIOUS
<1>1. /\ pc = "sort" /\ turn = 0 /\ ~abort /\ timeStepLengths = <<0>>
      /\ multiSolutions = Never
  BY DEF Init, SolverInit, StoreInit
<1>2. Indexed = {}
  BY <1>1 DEF Indexed, Never
<1>3. TimeLastStep = 0
  BY <1>1 DEF TimeLastStep
<1> QED BY <1>1, <1>2, <1>3 DEF Running, Ordered, Loops, Early, Once, Stored, StartCached, Solved

\* No assert of the solver and of the store fails, no identifier is stored twice, and no
\* solution is looked up that was never stored or that the cache has thrown out, however
\* the fields are coupled, the steps accepted, refused and repeated, and the solving aborted.
THEOREM SpecAssertsHold ==
    ASSUME SafeProblems PROVE Spec => []AssertsHold
<1>1. (IInv /\ Running) /\ [Next]_vars => (IInv /\ Running)'
  <2>1. IInv /\ [Next]_vars => IInv'
    BY NextKeepsIInv DEF SafeProblems
  <2> QED BY <2>1, NextKeepsRunning
<1>2. Init => IInv /\ Running
  BY InitIInv, InitRunning
<1>3. Running => AssertsHold
  BY DEF Running, AssertsHold
<1> QED BY <1>1, <1>2, <1>3, PTL DEF Spec
=============================================================================
