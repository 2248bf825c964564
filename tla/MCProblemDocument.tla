------------------------- MODULE MCProblemDocument -------------------------
(***************************************************************************)
(* The fields magnetic and heat: a magnetic field drives heat when it is   *)
(* harmonic and not when it is transient (couplings/magnetic-heat).  Two   *)
(* points, one name of a material, and addresses enough for a label to be  *)
(* removed and made again.                                                 *)
(***************************************************************************)
EXTENDS ProblemDocument

CONSTANTS p, q

MCFieldIds == {"heat", "magnetic"}
MCAnalysesOf == [f \in MCFieldIds |->
                    IF f = "heat" THEN {"steadystate"} ELSE {"harmonic", "transient"}]
MCDefaultAnalysis == [f \in MCFieldIds |-> IF f = "heat" THEN "steadystate" ELSE "harmonic"]
MCCouples == {<<"magnetic", "heat">>}
MCWeakForms == {<<"magnetic", "harmonic", "heat", "steadystate">>}
MCCouplingTypes == {"weak", "none"}
MCNames == {"iron"}
MCLocalOrders == {3}

\* A file of a coupled problem: a label, iron in both fields, the losses
\* integrated over the label.
CoupledProblem ==
    [analysis  |-> MCDefaultAnalysis,
     points    |-> <<p>>,
     materials |-> [f \in MCFieldIds |-> {[name |-> "iron", labels |-> {1}]}],
     order     |-> [f \in MCFieldIds |-> {}],
     couplings |-> <<>>,
     recipes   |-> {[field |-> "heat", labels |-> {1}]}]

MCFiles == {CoupledProblem}

\* Bounds: a file is opened in a program that has no computation; nothing is
\* done after two labels have come to one point (an undo stack that outlives
\* its document brings them there).
Bounds ==
    /\ computation = NoDocument \/ file = NoFile
    /\ LabelsAreAtDistinctPoints
============================================================================
