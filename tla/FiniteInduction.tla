--------------------------- MODULE FiniteInduction ---------------------------
(***************************************************************************)
(* Induction over 0..n and functions that are defined by recursion over    *)
(* 0..n, for the proofs about the lists of the program. The order on the   *)
(* naturals is well-founded, so a set of naturals has a least element; a   *)
(* property that is written as a set is then proved for all of 0..n, and   *)
(* a function that makes one step from each index to the next exists.      *)
(***************************************************************************)
EXTENDS Integers, Sequences, TLAPS, WellFoundedInduction, SequenceTheorems,
        FiniteSetTheorems

\* A set of naturals that is not empty has a least element.
LEMMA LeastNatural ==
    ASSUME NEW T, T \subseteq Nat, T # {}
    PROVE  \E n \in T : \A m \in T : n <= m
<1> DEFINE Less == {ss \in Nat \X Nat : ss[1] < ss[2]}
<1>1. IsWellFoundedOn(Less, Nat)
  BY NatLessThanWellFounded, Zenon DEF OpToRel
<1> HIDE DEF Less
<1>2. PICK n \in T : \A m \in T : <<m, n>> \notin Less
  BY <1>1, WFMin
<1>3. \A m \in T : n <= m
  <2> TAKE m \in T
  <2>1. <<m, n>> \notin Less
    BY <1>2
  <2>2. m \in Nat /\ n \in Nat
    OBVIOUS
  <2>3. ~ (m < n)
    <3>1. SUFFICES ASSUME m < n PROVE FALSE
      OBVIOUS
    <3>2. <<m, n>> \in Nat \X Nat /\ <<m, n>>[1] < <<m, n>>[2]
      BY <2>2, <3>1
    <3>3. <<m, n>> \in Less
      BY <3>2, Zenon DEF Less
    <3> QED BY <3>3, <2>1
  <2> QED BY <2>2, <2>3
<1> QED BY <1>3

\* Induction over 0..n, the property being written as a set.
LEMMA SetInduction ==
    ASSUME NEW n \in Nat, NEW T, 0 \in T,
           \A k \in 0 .. n - 1 : k \in T => k + 1 \in T
    PROVE  \A k \in 0 .. n : k \in T
<1> DEFINE Out == {k \in 0 .. n : k \notin T}
<1>1. SUFFICES ASSUME Out # {} PROVE FALSE
  OBVIOUS
<1>2. Out \subseteq Nat
  OBVIOUS
<1>3. PICK k \in Out : \A m \in Out : k <= m
  BY <1>1, <1>2, LeastNatural
<1>4. k # 0 /\ k - 1 \in 0 .. n - 1 /\ k - 1 \notin Out
  BY <1>3
<1>5. k - 1 \in T
  BY <1>4
<1>6. (k - 1) + 1 \in T
  BY <1>4, <1>5
<1> QED BY <1>6, <1>3

\* step[i][t] is what the i-th step makes of t.
StaysIn(S, n, step) == \A i \in 1 .. n : \A t \in S : step[i][t] \in S

\* The function that starts at base and makes the steps.
Follows(g, S, n, base, step) ==
    /\ g \in [0 .. n -> S]
    /\ g[0] = base
    /\ \A i \in 1 .. n : g[i] = step[i][g[i - 1]]

\* It exists when no step leaves S.
LEMMA RecursionExists ==
    ASSUME NEW n \in Nat, NEW S, NEW base \in S, NEW step, StaysIn(S, n, step)
    PROVE  \E g : Follows(g, S, n, base, step)
<1> DEFINE Good(k, g) == /\ g \in [0 .. k -> S]
                         /\ g[0] = base
                         /\ \A i \in 1 .. k : g[i] = step[i][g[i - 1]]
           T == {k \in 0 .. n : \E g \in [0 .. k -> S] : Good(k, g)}
<1>1. 0 \in T
  <2>1. Good(0, [i \in 0 .. 0 |-> base]) /\ [i \in 0 .. 0 |-> base] \in [0 .. 0 -> S]
    OBVIOUS
  <2> HIDE DEF Good
  <2> QED BY <2>1
<1>2. ASSUME NEW k \in 0 .. n - 1, k \in T PROVE k + 1 \in T
  <2>1. PICK g \in [0 .. k -> S] : Good(k, g)
    BY <1>2
  <2> DEFINE next == step[k + 1][g[k]]
             h == [i \in 0 .. k + 1 |-> IF i = k + 1 THEN next ELSE g[i]]
  <2>2. next \in S
    BY <2>1 DEF StaysIn
  <2>3. h \in [0 .. k + 1 -> S]
    BY <2>1, <2>2
  <2>4. h[0] = base
    BY <2>1
  <2>5. ASSUME NEW i \in 1 .. k + 1 PROVE h[i] = step[i][h[i - 1]]
    <3>1. CASE i = k + 1
      BY <3>1, <2>1
    <3>2. CASE i # k + 1
      BY <3>2, <2>1
    <3> QED BY <3>1, <3>2
  <2> HIDE DEF h
  <2>6. Good(k + 1, h)
    BY <2>3, <2>4, <2>5
  <2> HIDE DEF Good
  <2> QED BY <2>6, <2>3
<1> HIDE DEF T
<1>3. \A k \in 0 .. n : k \in T
  <2>1. \A k \in 0 .. n - 1 : k \in T => k + 1 \in T
    BY <1>2
  <2> QED BY <1>1, <2>1, SetInduction
<1> QED BY <1>3 DEF T, Follows

\* From each index to the next, f and g do the same.
StepsAgree(f, g, n) ==
    f[0] = g[0] /\ \A i \in 1 .. n : f[i - 1] = g[i - 1] => f[i] = g[i]

\* Two functions with the same start and the same steps are the same.
LEMMA SameValues ==
    ASSUME NEW n \in Nat, NEW f, NEW g, StepsAgree(f, g, n)
    PROVE  \A i \in 0 .. n : f[i] = g[i]
<1> DEFINE T == {i \in 0 .. n : f[i] = g[i]}
<1>0. f[0] = g[0] /\ \A i \in 1 .. n : f[i - 1] = g[i - 1] => f[i] = g[i]
  BY DEF StepsAgree
<1>1. 0 \in T
  BY <1>0
<1>2. \A k \in 0 .. n - 1 : k \in T => k + 1 \in T
  <2> SUFFICES ASSUME NEW k \in 0 .. n - 1, k \in T PROVE k + 1 \in T
    OBVIOUS
  <2>1. k + 1 \in 1 .. n /\ k + 1 \in 0 .. n /\ (k + 1) - 1 = k
    OBVIOUS
  <2> QED BY <1>0, <2>1
<1> HIDE DEF T
<1>3. \A k \in 0 .. n : k \in T
  BY <1>1, <1>2, SetInduction
<1> QED BY <1>3 DEF T

\* A function on 1..n is a sequence of length n.
LEMMA FunctionIsSequence ==
    ASSUME NEW n \in Nat, NEW S, NEW f \in [1 .. n -> S]
    PROVE  f \in Seq(S) /\ Len(f) = n
<1>1. f \in Seq(S)
  BY SeqDef
<1>2. DOMAIN f = 1 .. n /\ DOMAIN f = 1 .. Len(f) /\ Len(f) \in Nat
  BY <1>1, LenProperties
<1> QED BY <1>1, <1>2

\* What a list holds after an element was appended.
LEMMA RangeOfAppend ==
    ASSUME NEW S, NEW s \in Seq(S), NEW c \in S
    PROVE  Append(s, c) \in Seq(S) /\ Range(Append(s, c)) = Range(s) \union {c}
<1> DEFINE t == Append(s, c)
<1>1. t \in Seq(S) /\ Len(t) = Len(s) + 1 /\ Len(s) \in Nat /\ t[Len(s) + 1] = c
      /\ \A i \in 1 .. Len(s) : t[i] = s[i]
  BY AppendProperties
<1> HIDE DEF t
<1>2. Range(t) = {t[i] : i \in 1 .. Len(t)} /\ Range(s) = {s[i] : i \in 1 .. Len(s)}
  BY <1>1, RangeEquality
<1>3. \A x \in Range(t) : x \in Range(s) \union {c}
  <2> TAKE x \in Range(t)
  <2>1. PICK i \in 1 .. Len(t) : x = t[i]
    BY <1>2
  <2>2. CASE i = Len(s) + 1
    BY <1>1, <2>1, <2>2
  <2>3. CASE i # Len(s) + 1
    <3>1. i \in 1 .. Len(s)
      BY <1>1, <2>3
    <3> QED BY <1>1, <1>2, <2>1, <3>1
  <2> QED BY <2>2, <2>3
<1>4. \A x \in Range(s) : x \in Range(t)
  <2> TAKE x \in Range(s)
  <2>1. PICK i \in 1 .. Len(s) : x = s[i]
    BY <1>2
  <2>2. i \in 1 .. Len(t) /\ x = t[i]
    BY <1>1, <2>1
  <2> QED BY <1>2, <2>2
<1>5. c \in Range(t)
  <2>1. Len(s) + 1 \in 1 .. Len(t)
    BY <1>1
  <2> QED BY <1>1, <1>2, <2>1
<1> QED BY <1>1, <1>3, <1>4, <1>5 DEF t

\* A sequence without its element i.
WithoutElement(s, i) == SubSeq(s, 1, i - 1) \o SubSeq(s, i + 1, Len(s))

\* The elements after the one that is removed move up by one.
LEMMA ElementRemoved ==
    ASSUME NEW S, NEW s \in Seq(S), NEW i \in 1 .. Len(s)
    PROVE  /\ WithoutElement(s, i) \in Seq(S)
           /\ Len(WithoutElement(s, i)) = Len(s) - 1
           /\ \A j \in 1 .. Len(s) - 1 :
                 WithoutElement(s, i)[j] = IF j < i THEN s[j] ELSE s[j + 1]
<1> DEFINE a == SubSeq(s, 1, i - 1)
           b == SubSeq(s, i + 1, Len(s))
           n == Len(s)
<1>0. n \in Nat /\ i \in 1 .. n /\ \A j \in 1 .. n : s[j] \in S
  OBVIOUS
<1>1. a \in Seq(S) /\ Len(a) = i - 1 /\ \A j \in 1 .. i - 1 : a[j] = s[j]
  BY <1>0
<1>2. b \in Seq(S) /\ Len(b) = n - i /\ \A j \in 1 .. n - i : b[j] = s[i + j]
  BY <1>0
<1>3. WithoutElement(s, i) = a \o b
  BY DEF WithoutElement
<1> HIDE DEF a, b, n
<1>4. /\ a \o b \in Seq(S)
      /\ Len(a \o b) = Len(a) + Len(b)
      /\ \A j \in 1 .. Len(a) + Len(b) : (a \o b)[j] =
             IF j <= Len(a) THEN a[j] ELSE b[j - Len(a)]
  BY <1>1, <1>2, ConcatProperties
<1>5. Len(a) + Len(b) = n - 1
  BY <1>0, <1>1, <1>2
<1>6. ASSUME NEW j \in 1 .. n - 1
      PROVE  (a \o b)[j] = IF j < i THEN s[j] ELSE s[j + 1]
  <2>1. CASE j < i
    BY <2>1, <1>0, <1>1, <1>4, <1>5
  <2>2. CASE ~ (j < i)
    <3>1. (a \o b)[j] = b[j - (i - 1)]
      BY <2>2, <1>0, <1>1, <1>4, <1>5
    <3>2. j - (i - 1) \in 1 .. n - i /\ i + (j - (i - 1)) = j + 1
      BY <2>2, <1>0
    <3> QED BY <2>2, <3>1, <3>2, <1>2
  <2> QED BY <2>1, <2>2
<1> QED BY <1>3, <1>4, <1>5, <1>6 DEF n
=============================================================================
