------------------------------ MODULE BDFTable ------------------------------
(***************************************************************************)
(* The coefficients of the backward differentiation formulas with variable *)
(* steps (agros-library/solver/bdf2.cpp).  A coefficient is a fraction of  *)
(* integers; the ratios th[0] = a / b and th[1] = b / c of the lengths are *)
(* multiplied out, a being the length of the step that is computed and b,  *)
(* c those before it.                                                      *)
(***************************************************************************)
EXTENDS Integers, Sequences

Fraction(n, d) == [num |-> n, den |-> d]

\* BDF2ATable::recalculate; m_alpha[i] is the entry i + 1 of a table.
FirstOrder == <<Fraction(1, 1), Fraction(-1, 1)>>

SecondOrder(a, b) ==
    <<Fraction(2*a + b, a + b),
      Fraction(-a - b, b),
      Fraction(a*a, b*(a + b))>>

ThirdOrder(a, b, c) ==
    <<Fraction(4*a*b + 3*a*a + b*b + b*c + 2*a*c,
               a*c + 2*a*b + b*c + b*b + a*a),
      Fraction(-(a*c + 2*a*b + b*c + b*b + a*a), b*(b + c)),
      Fraction((b + a + c)*a*a, b*c*(a + b)),
      Fraction(-((a + b)*a*a), c*(a*b + a*c + 2*b*c + c*c + b*b))>>

\* BDF2Table::setOrderAndPreviousSteps: the lengths of the last steps, the
\* one that is computed last.  Beyond the third order is an assert(0), and a
\* ratio needs one length more than there are ratios.
HasFormula(order, lengths) == order \in 1..3 /\ Len(lengths) >= order

Coefficients(order, lengths) ==
    LET h(i) == lengths[Len(lengths) - i]
    IN  CASE order = 1 -> FirstOrder
          [] order = 2 -> SecondOrder(h(0), h(1))
          [] order = 3 -> ThirdOrder(h(0), h(1), h(2))

-----------------------------------------------------------------------------
(* The reference: the formula differentiates the polynomial through the    *)
(* values, so its coefficients are the derivatives of the Lagrange         *)
(* polynomials at the newest time, times the length of the newest step.    *)
(* ages[i] is how long ago the i-th value was.                             *)

SumOf(terms) ==
    LET sum[n \in 0..Len(terms)] == IF n = 0 THEN 0 ELSE sum[n - 1] + terms[n]
    IN  sum[Len(terms)]

ProductOf(factors) ==
    LET product[n \in 0..Len(factors)] ==
            IF n = 0 THEN 1 ELSE product[n - 1] * factors[n]
    IN  product[Len(factors)]

\* all ages but the i-th, and what the i-th is away from them
Others(i, ages) == [j \in 1..Len(ages) |-> IF j = i THEN 1 ELSE ages[j]]
Distances(i, ages) == [j \in 1..Len(ages) |-> IF j = i THEN 1 ELSE ages[j] - ages[i]]

IsDerivative(table, ages) ==
    /\ \A i \in 1..Len(ages) :
          table[i + 1].num * ages[i] * ProductOf(Distances(i, ages))
            = - table[i + 1].den * ages[1] * ProductOf(Others(i, ages))
    /\ table[1].num * ProductOf(ages)
         = table[1].den * ages[1]
             * SumOf([i \in 1..Len(ages) |-> ProductOf(Others(i, ages))])

=============================================================================
