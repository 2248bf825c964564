----------------------- MODULE ProblemDocumentProofs -----------------------
(***************************************************************************)
(* Proofs about the problem the user edits, for any modules, analyses,     *)
(* couplings, points, names, files and number of edits.  Valid says when   *)
(* no part of a document refers to one that was deleted; every operation   *)
(* on documents is shown to preserve it, reading a file to establish it;   *)
(* the inductive invariant IInv follows action by action.  Then the copy   *)
(* of a document, and what is read from the file of a document, are        *)
(* compared with the document, position by position.                       *)
(***************************************************************************)
EXTENDS ProblemDocument, FiniteInduction

-----------------------------------------------------------------------------
(* Documents, and what their parts are.                                    *)

\* The functions from parts of A to B.
Maps(A, B) == UNION {[D -> B] : D \in SUBSET A}

\* f is a function and no other thing.
IsMap(f) == f = [x \in DOMAIN f |-> f[x]]

\* Where a label of a document is: what the program allocated, or the position in a file.
Places == Addresses \cup Nat

\* The marker of a label in each field.
Markings == Maps(FieldIds, Names \cup {"none"})

\* Labels, with where they are, their point and their markers.
Labels == [at : Places, point : Points, marker : Markings]

\* The analyses of all modules.
Analyses == UNION {AnalysesOf[f] : f \in FieldIds}

\* Records of the parts of a document, whatever the parts refer to.
Documents ==
    [fields : Maps(FieldIds, Analyses), labels : Seq(Labels),
     materials : SUBSET (FieldIds \X Names), none : SUBSET FieldIds,
     couplings : Maps(Couples, CouplingTypes),
     order : Maps(FieldIds, Maps(Places, LocalOrders)),
     recipes : SUBSET [field : FieldIds, labels : SUBSET Nat],
     leaked : SUBSET Places]

\* A document the program can be in, but for the markers a change of fields leaves.
Sound(d) ==
    /\ d \in Documents
    /\ \A f \in FieldsOf(d) : d.fields[f] \in AnalysesOf[f]
    /\ DOMAIN d.order = FieldsOf(d)
    /\ \A i, j \in DOMAIN d.labels : d.labels[i].at = d.labels[j].at => i = j
    /\ \A m \in d.materials : m[1] \in FieldsOf(d)
    /\ \A r \in d.recipes : r.field \in FieldsOf(d)
    /\ \A i \in DOMAIN d.labels :
          /\ DOMAIN d.labels[i].marker \subseteq FieldsOf(d)
          /\ \A f \in DOMAIN d.labels[i].marker :
                IF d.labels[i].marker[f] = "none" THEN f \in d.none
                ELSE <<f, d.labels[i].marker[f]>> \in d.materials

\* A document the program can be in between two operations.
Valid(d) == Sound(d) /\ ReferencesAreAlive(d)

\* Membership in Maps, value by value.
LEMMA MapsDef ==
    ASSUME NEW A, NEW B, NEW f
    PROVE  f \in Maps(A, B) <=>
             IsMap(f) /\ DOMAIN f \subseteq A /\ \A x \in DOMAIN f : f[x] \in B
BY DEF Maps, IsMap

\* A map with one more value is a map.
LEMMA WithIsMap ==
    ASSUME NEW A, NEW B, NEW f \in Maps(A, B), NEW x \in A, NEW v \in B
    PROVE  With(f, x, v) \in Maps(A, B)
<1>1. IsMap(f) /\ DOMAIN f \subseteq A /\ \A y \in DOMAIN f : f[y] \in B
  BY MapsDef
<1>2. DOMAIN With(f, x, v) = DOMAIN f \cup {x} /\ IsMap(With(f, x, v))
  BY DEF With, IsMap
<1>3. \A y \in DOMAIN f \cup {x} : With(f, x, v)[y] = IF y = x THEN v ELSE f[y]
  BY DEF With
<1> QED BY <1>1, <1>2, <1>3, MapsDef

\* A map without one of its arguments is a map.
LEMMA WithoutIsMap ==
    ASSUME NEW A, NEW B, NEW f \in Maps(A, B), NEW x
    PROVE  Without(f, x) \in Maps(A, B)
<1>1. IsMap(f) /\ DOMAIN f \subseteq A /\ \A y \in DOMAIN f : f[y] \in B
  BY MapsDef
<1>2. DOMAIN Without(f, x) = DOMAIN f \ {x} /\ IsMap(Without(f, x))
  BY DEF Without, IsMap
<1>3. \A y \in DOMAIN f \ {x} : Without(f, x)[y] = f[y]
  BY DEF Without
<1> QED BY <1>1, <1>2, <1>3, MapsDef

\* The parts of a document.
LEMMA PartsOf ==
    ASSUME NEW d \in Documents
    PROVE  /\ d.fields \in Maps(FieldIds, Analyses) /\ d.labels \in Seq(Labels)
           /\ d.materials \subseteq FieldIds \X Names /\ d.none \subseteq FieldIds
           /\ d.couplings \in Maps(Couples, CouplingTypes)
           /\ d.order \in Maps(FieldIds, Maps(Places, LocalOrders))
           /\ d.recipes \subseteq [field : FieldIds, labels : SUBSET Nat]
           /\ d.leaked \subseteq Places
           /\ FieldsOf(d) \subseteq FieldIds
           /\ DOMAIN d.labels = 1 .. Len(d.labels) /\ Len(d.labels) \in Nat
           /\ \A i \in DOMAIN d.labels : d.labels[i] \in Labels
<1>1. /\ d.fields \in Maps(FieldIds, Analyses) /\ d.labels \in Seq(Labels)
      /\ d.materials \subseteq FieldIds \X Names /\ d.none \subseteq FieldIds
      /\ d.couplings \in Maps(Couples, CouplingTypes)
      /\ d.order \in Maps(FieldIds, Maps(Places, LocalOrders))
      /\ d.recipes \subseteq [field : FieldIds, labels : SUBSET Nat]
      /\ d.leaked \subseteq Places
  BY DEF Documents
<1>2. FieldsOf(d) \subseteq FieldIds
  BY <1>1, MapsDef DEF FieldsOf
<1> HIDE DEF Labels
<1>3. /\ DOMAIN d.labels = 1 .. Len(d.labels) /\ Len(d.labels) \in Nat
      /\ \A i \in DOMAIN d.labels : d.labels[i] \in Labels
  BY <1>1
<1> QED BY <1>1, <1>2, <1>3

\* A document whose parts are replaced.
LEMMA MadeOf ==
    ASSUME NEW fields \in Maps(FieldIds, Analyses), NEW labels \in Seq(Labels),
           NEW materials \in SUBSET (FieldIds \X Names), NEW none \in SUBSET FieldIds,
           NEW couplings \in Maps(Couples, CouplingTypes),
           NEW order \in Maps(FieldIds, Maps(Places, LocalOrders)),
           NEW recipes \in SUBSET [field : FieldIds, labels : SUBSET Nat],
           NEW leaked \in SUBSET Places
    PROVE  [fields |-> fields, labels |-> labels, materials |-> materials, none |-> none,
            couplings |-> couplings, order |-> order, recipes |-> recipes,
            leaked |-> leaked] \in Documents
BY DEF Documents

\* Synchronizing changes the couplings only.
LEMMA SynchronizedIs ==
    ASSUME NEW d \in Documents, NEW e, e = Synchronized(d)
    PROVE  /\ e \in Documents
           /\ e = [d EXCEPT !.couplings = e.couplings]
           /\ DOMAIN e.couplings =
                {p \in DOMAIN d.couplings \cup
                       {p \in Couples : p[1] # p[2] /\ {p[1], p[2]} \subseteq FieldsOf(d)} :
                     CouplingIsAvailable(d, p)}
           /\ \A p \in DOMAIN e.couplings : p \in DOMAIN d.couplings => e.couplings[p] = d.couplings[p]
<1> DEFINE named == {p \in Couples : p[1] # p[2] /\ {p[1], p[2]} \subseteq FieldsOf(d)}
           all == [p \in DOMAIN d.couplings \cup named |->
                     IF p \in DOMAIN d.couplings THEN d.couplings[p] ELSE "weak"]
           kept == {p \in DOMAIN all : CouplingIsAvailable(d, p)}
           c == [p \in kept |-> all[p]]
<1>1. e = [d EXCEPT !.couplings = c]
  BY DEF Synchronized
<1>2. /\ IsMap(d.couplings) /\ DOMAIN d.couplings \subseteq Couples
      /\ \A p \in DOMAIN d.couplings : d.couplings[p] \in CouplingTypes
  BY PartsOf, MapsDef
<1>3. DOMAIN all = DOMAIN d.couplings \cup named /\ kept \subseteq DOMAIN all
  OBVIOUS
<1>4. \A p \in kept : all[p] = IF p \in DOMAIN d.couplings THEN d.couplings[p] ELSE "weak"
  BY <1>3
<1>5. c \in Maps(Couples, CouplingTypes)
  <2>1. IsMap(c) /\ DOMAIN c = kept /\ \A p \in kept : c[p] = all[p]
    BY DEF IsMap
  <2>2. kept \subseteq Couples
    BY <1>2, <1>3
  <2>3. \A p \in kept : all[p] \in CouplingTypes
    <3> HIDE DEF kept, all, named
    <3> QED BY <1>2, <1>4, CouplingsAssumption
  <2> HIDE DEF c, kept, all, named
  <2> QED BY <2>1, <2>2, <2>3, MapsDef
<1>6. DOMAIN c = kept /\ \A p \in kept : c[p] = all[p]
  OBVIOUS
<1>7. kept = {p \in DOMAIN d.couplings \cup named : CouplingIsAvailable(d, p)}
  BY <1>3
<1> HIDE DEF c, kept, all, named
<1>8. e \in Documents /\ e.couplings = c
  BY <1>1, <1>5 DEF Documents
<1> QED BY <1>1, <1>4, <1>6, <1>7, <1>8 DEF named

-----------------------------------------------------------------------------
(* A change of the fields settles the couplings and the markers.           *)

\* What a label refers to.
LEMMA LabelParts ==
    ASSUME NEW l \in Labels
    PROVE  /\ l.at \in Places /\ l.point \in Points /\ IsMap(l.marker)
           /\ DOMAIN l.marker \subseteq FieldIds
           /\ \A f \in DOMAIN l.marker : l.marker[f] \in Names \cup {"none"}
           /\ l = [at |-> l.at, point |-> l.point, marker |-> l.marker]
<1>1. l.at \in Places /\ l.point \in Points /\ l.marker \in Markings
  BY DEF Labels
<1>2. l = [at |-> l.at, point |-> l.point, marker |-> l.marker]
  BY DEF Labels
<1> QED BY <1>1, <1>2, MapsDef DEF Markings

\* After a change of the fields each label has a marker for each of them.
LEMMA FieldsChangedIs ==
    ASSUME NEW d, Sound(d), NEW e, e = FieldsChanged(d)
    PROVE  /\ e \in Documents
           /\ e.fields = d.fields /\ e.materials = d.materials /\ e.couplings = d.couplings
           /\ e.order = d.order /\ e.recipes = d.recipes /\ e.leaked = d.leaked
           /\ DOMAIN e.labels = DOMAIN d.labels /\ Len(e.labels) = Len(d.labels)
           /\ \A i \in DOMAIN d.labels :
                /\ e.labels[i].at = d.labels[i].at /\ e.labels[i].point = d.labels[i].point
                /\ DOMAIN e.labels[i].marker = FieldsOf(d)
                /\ \A f \in FieldsOf(d) : e.labels[i].marker[f] =
                     IF f \in DOMAIN d.labels[i].marker THEN d.labels[i].marker[f] ELSE "none"
           /\ e.none \subseteq FieldsOf(d) /\ d.none \cap FieldsOf(d) \subseteq e.none
           /\ \A i \in DOMAIN d.labels : FieldsOf(d) \ DOMAIN d.labels[i].marker \subseteq e.none
<1> DEFINE F == FieldsOf(d)
           c == NonesDeleted(d)
<1>0. d \in Documents /\ F \subseteq FieldIds
  BY PartsOf DEF Sound
<1>1. c = [d EXCEPT !.none = d.none \ (d.none \ F),
                    !.materials = {m \in d.materials : m[1] \notin d.none \ F}]
  BY DEF NonesDeleted
<1>2. {m \in d.materials : m[1] \notin d.none \ F} = d.materials
  BY DEF Sound
<1>3. /\ c \in Documents /\ FieldsOf(c) = F /\ c.labels = d.labels /\ c.none = d.none \cap F
      /\ c.fields = d.fields /\ c.materials = d.materials /\ c.couplings = d.couplings
      /\ c.order = d.order /\ c.recipes = d.recipes /\ c.leaked = d.leaked
  <2> DEFINE n == d.none \cap F
  <2>1. d.none \ (d.none \ F) = n
    OBVIOUS
  <2>2. c = [d EXCEPT !.none = n, !.materials = d.materials]
    BY <1>1, <1>2, <2>1
  <2>3. n \subseteq FieldIds
    BY <1>0
  <2> HIDE DEF c, F, n
  <2>4. /\ c \in Documents /\ c.labels = d.labels /\ c.none = n
        /\ c.fields = d.fields /\ c.materials = d.materials /\ c.couplings = d.couplings
        /\ c.order = d.order /\ c.recipes = d.recipes /\ c.leaked = d.leaked
    BY <1>0, <2>2, <2>3 DEF Documents
  <2> QED BY <2>4 DEF FieldsOf, F, n
<1> DEFINE replaced(l) == (DOMAIN l.marker \ FieldsOf(c)) \cup (FieldsOf(c) \ DOMAIN l.marker)
           renewed(l) == [f \in DOMAIN l.marker \cup FieldsOf(c) |->
                             IF f \in replaced(l) THEN "none" ELSE l.marker[f]]
           ls == [i \in DOMAIN c.labels |-> [c.labels[i] EXCEPT !.marker = renewed(c.labels[i])]]
           U == UNION {replaced(c.labels[i]) : i \in DOMAIN c.labels}
<1>4. e = [c EXCEPT !.none = c.none \cup U, !.labels = ls]
  BY DEF FieldsChanged, NonesPut
<1> HIDE DEF c
<1>5. ASSUME NEW i \in DOMAIN d.labels
      PROVE  /\ replaced(d.labels[i]) = F \ DOMAIN d.labels[i].marker
             /\ renewed(d.labels[i]) = [f \in F |-> IF f \in DOMAIN d.labels[i].marker
                                                   THEN d.labels[i].marker[f] ELSE "none"]
             /\ renewed(d.labels[i]) \in Markings
             /\ d.labels[i] \in Labels
  <2>1. DOMAIN d.labels[i].marker \subseteq F
    BY <1>3 DEF Sound
  <2>2. replaced(d.labels[i]) = F \ DOMAIN d.labels[i].marker
    BY <2>1, <1>3
  <2>3. DOMAIN d.labels[i].marker \cup FieldsOf(c) = F
    BY <2>1, <1>3
  <2>4. renewed(d.labels[i]) = [f \in F |-> IF f \in replaced(d.labels[i])
                                            THEN "none" ELSE d.labels[i].marker[f]]
    BY <2>3
  <2>5. renewed(d.labels[i]) = [f \in F |-> IF f \in DOMAIN d.labels[i].marker
                                            THEN d.labels[i].marker[f] ELSE "none"]
    <3> HIDE DEF renewed, replaced, F
    <3> QED BY <2>2, <2>4
  <2>6. d.labels[i] \in Labels
    BY <1>0, PartsOf
  <2>7. \A f \in DOMAIN d.labels[i].marker : d.labels[i].marker[f] \in Names \cup {"none"}
    BY <2>6, LabelParts
  <2>8. renewed(d.labels[i]) \in Markings
    <3> DEFINE r == renewed(d.labels[i])
    <3>1. IsMap(r) /\ DOMAIN r = F
      BY <2>5 DEF IsMap
    <3>2. \A f \in F : r[f] = IF f \in DOMAIN d.labels[i].marker
                              THEN d.labels[i].marker[f] ELSE "none"
      BY <2>5
    <3> HIDE DEF r
    <3>3. r \in Markings
      BY <3>1, <3>2, <2>7, <1>0, MapsDef DEF Markings
    <3> QED BY <3>3 DEF r
  <2> QED BY <2>2, <2>5, <2>6, <2>8
<1> HIDE DEF renewed, replaced
<1>6. /\ DOMAIN ls = DOMAIN d.labels
      /\ \A i \in DOMAIN d.labels : ls[i] = [d.labels[i] EXCEPT !.marker = renewed(d.labels[i])]
  BY <1>3
<1>7. ASSUME NEW i \in DOMAIN d.labels
      PROVE  /\ ls[i] \in Labels /\ ls[i].at = d.labels[i].at /\ ls[i].point = d.labels[i].point
             /\ ls[i].marker = renewed(d.labels[i])
  BY <1>5, <1>6 DEF Labels
<1> HIDE DEF ls
<1>8. ls \in Seq(Labels) /\ Len(ls) = Len(d.labels)
  <2>1. DOMAIN d.labels = 1 .. Len(d.labels) /\ Len(d.labels) \in Nat
    BY <1>0, PartsOf
  <2>2. IsMap(ls)
    BY <1>3 DEF ls, IsMap
  <2>3. ls \in [1 .. Len(d.labels) -> Labels]
    BY <1>6, <1>7, <2>1, <2>2 DEF IsMap
  <2> QED BY <2>1, <2>3, FunctionIsSequence
<1>9. U \subseteq F /\ \A i \in DOMAIN d.labels : F \ DOMAIN d.labels[i].marker \subseteq U
  <2> DEFINE W == {replaced(c.labels[i]) : i \in DOMAIN c.labels}
  <2>1. \A i \in DOMAIN d.labels : replaced(d.labels[i]) \in W
    BY <1>3
  <2>2. \A w \in W : \E i \in DOMAIN d.labels : w = replaced(d.labels[i])
    BY <1>3
  <2>3. U = UNION W
    OBVIOUS
  <2>4. \A i \in DOMAIN d.labels : replaced(d.labels[i]) = F \ DOMAIN d.labels[i].marker
    BY <1>5
  <2> HIDE DEF W, U, F
  <2>5. \A w \in W : w \subseteq F
    BY <2>2, <2>4
  <2>6. \A i \in DOMAIN d.labels : F \ DOMAIN d.labels[i].marker \in W
    BY <2>1, <2>4
  <2> QED BY <2>3, <2>5, <2>6
<1> HIDE DEF U
<1>10. /\ e \in Documents /\ e.labels = ls /\ e.none = c.none \cup U
       /\ e.fields = c.fields /\ e.materials = c.materials /\ e.couplings = c.couplings
       /\ e.order = c.order /\ e.recipes = c.recipes /\ e.leaked = c.leaked
  <2>1. c.none \cup U \subseteq FieldIds
    BY <1>0, <1>3, <1>9
  <2> QED BY <1>3, <1>4, <1>8, <2>1 DEF Documents
<1>11. \A i \in DOMAIN d.labels :
                /\ e.labels[i].at = d.labels[i].at /\ e.labels[i].point = d.labels[i].point
                /\ DOMAIN e.labels[i].marker = F
                /\ \A f \in F : e.labels[i].marker[f] =
                     IF f \in DOMAIN d.labels[i].marker THEN d.labels[i].marker[f] ELSE "none"
  <2> SUFFICES ASSUME NEW i \in DOMAIN d.labels
               PROVE  /\ ls[i].at = d.labels[i].at /\ ls[i].point = d.labels[i].point
                      /\ DOMAIN ls[i].marker = F
                      /\ \A f \in F : ls[i].marker[f] =
                           IF f \in DOMAIN d.labels[i].marker THEN d.labels[i].marker[f] ELSE "none"
    BY <1>10
  <2> DEFINE m == [f \in F |-> IF f \in DOMAIN d.labels[i].marker
                              THEN d.labels[i].marker[f] ELSE "none"]
  <2>1. ls[i].marker = m
    BY <1>5, <1>7
  <2>2. DOMAIN m = F /\ \A f \in F : m[f] =
           IF f \in DOMAIN d.labels[i].marker THEN d.labels[i].marker[f] ELSE "none"
    OBVIOUS
  <2> HIDE DEF m, F
  <2> QED BY <2>1, <2>2, <1>7
<1> QED BY <1>3, <1>6, <1>8, <1>9, <1>10, <1>11

\* A change of the fields, followed by what addField and removeField end with, leaves a
\* document all of whose references are alive.
LEMMA SettledIsValid ==
    ASSUME NEW d, Sound(d), NEW e, e = FieldsChanged(Synchronized(d))
    PROVE  /\ Valid(e) /\ e.fields = d.fields /\ e.materials = d.materials
           /\ e.order = d.order /\ e.recipes = d.recipes /\ e.leaked = d.leaked
           /\ DOMAIN e.labels = DOMAIN d.labels /\ Len(e.labels) = Len(d.labels)
           /\ \A i \in DOMAIN d.labels :
                /\ e.labels[i].at = d.labels[i].at /\ e.labels[i].point = d.labels[i].point
                /\ DOMAIN e.labels[i].marker = FieldsOf(d)
                /\ \A f \in FieldsOf(d) : e.labels[i].marker[f] =
                     IF f \in DOMAIN d.labels[i].marker THEN d.labels[i].marker[f] ELSE "none"
           /\ DOMAIN e.couplings =
                {p \in DOMAIN d.couplings \cup
                       {p \in Couples : p[1] # p[2] /\ {p[1], p[2]} \subseteq FieldsOf(d)} :
                     CouplingIsAvailable(d, p)}
           /\ \A p \in DOMAIN e.couplings : p \in DOMAIN d.couplings => e.couplings[p] = d.couplings[p]
<1>0. d \in Documents
  BY DEF Sound
<1>1. PICK c : c = Synchronized(d)
  OBVIOUS
<1>2. /\ c \in Documents
      /\ c = [d EXCEPT !.couplings = c.couplings]
      /\ DOMAIN c.couplings =
           {p \in DOMAIN d.couplings \cup
                  {p \in Couples : p[1] # p[2] /\ {p[1], p[2]} \subseteq FieldsOf(d)} :
                CouplingIsAvailable(d, p)}
      /\ \A p \in DOMAIN c.couplings : p \in DOMAIN d.couplings => c.couplings[p] = d.couplings[p]
  BY <1>0, <1>1, SynchronizedIs
<1>3. /\ c.fields = d.fields /\ c.labels = d.labels /\ c.materials = d.materials
      /\ c.none = d.none /\ c.order = d.order /\ c.recipes = d.recipes /\ c.leaked = d.leaked
  BY <1>0, <1>2 DEF Documents
<1>4. Sound(c)
  BY <1>2, <1>3 DEF Sound, FieldsOf
<1>5. e = FieldsChanged(c) /\ FieldsOf(c) = FieldsOf(d)
  BY <1>1, <1>3 DEF FieldsOf
<1>6. /\ e \in Documents
      /\ e.fields = c.fields /\ e.materials = c.materials /\ e.couplings = c.couplings
      /\ e.order = c.order /\ e.recipes = c.recipes /\ e.leaked = c.leaked
      /\ DOMAIN e.labels = DOMAIN c.labels /\ Len(e.labels) = Len(c.labels)
      /\ \A i \in DOMAIN c.labels :
           /\ e.labels[i].at = c.labels[i].at /\ e.labels[i].point = c.labels[i].point
           /\ DOMAIN e.labels[i].marker = FieldsOf(c)
           /\ \A f \in FieldsOf(c) : e.labels[i].marker[f] =
                IF f \in DOMAIN c.labels[i].marker THEN c.labels[i].marker[f] ELSE "none"
      /\ e.none \subseteq FieldsOf(c) /\ c.none \cap FieldsOf(c) \subseteq e.none
      /\ \A i \in DOMAIN c.labels : FieldsOf(c) \ DOMAIN c.labels[i].marker \subseteq e.none
  BY <1>4, <1>5, FieldsChangedIs
<1>7. FieldsOf(e) = FieldsOf(d)
  BY <1>3, <1>6 DEF FieldsOf
<1>8. ASSUME NEW i \in DOMAIN e.labels
      PROVE  /\ DOMAIN e.labels[i].marker = FieldsOf(e)
             /\ \A f \in FieldsOf(e) :
                  IF e.labels[i].marker[f] = "none" THEN f \in e.none
                  ELSE <<f, e.labels[i].marker[f]>> \in e.materials
  <2>1. i \in DOMAIN d.labels
    BY <1>3, <1>6
  <2>2. /\ DOMAIN e.labels[i].marker = FieldsOf(e)
        /\ \A f \in FieldsOf(e) : e.labels[i].marker[f] =
                  IF f \in DOMAIN d.labels[i].marker THEN d.labels[i].marker[f] ELSE "none"
    BY <2>1, <1>3, <1>5, <1>6, <1>7
  <2>3. ASSUME NEW f \in FieldsOf(e)
        PROVE  IF e.labels[i].marker[f] = "none" THEN f \in e.none
               ELSE <<f, e.labels[i].marker[f]>> \in e.materials
    <3>1. CASE f \in DOMAIN d.labels[i].marker
      <4>1. IF d.labels[i].marker[f] = "none" THEN f \in d.none
            ELSE <<f, d.labels[i].marker[f]>> \in d.materials
        BY <2>1, <3>1 DEF Sound
      <4> QED BY <4>1, <2>2, <3>1, <1>3, <1>5, <1>6, <1>7
    <3>2. CASE f \notin DOMAIN d.labels[i].marker
      BY <2>1, <2>2, <3>2, <1>3, <1>5, <1>6, <1>7
    <3> QED BY <3>1, <3>2
  <2> QED BY <2>2, <2>3
<1>9. ReferencesAreAlive(e)
  <2>1. \A m \in e.materials : m[1] \in FieldsOf(e)
    BY <1>3, <1>6, <1>7 DEF Sound
  <2>2. \A r \in e.recipes : r.field \in FieldsOf(e)
    BY <1>3, <1>6, <1>7 DEF Sound
  <2> QED BY <1>5, <1>6, <1>7, <1>8, <2>1, <2>2 DEF ReferencesAreAlive
<1>10. Sound(e)
  <2>1. \A f \in FieldsOf(e) : e.fields[f] \in AnalysesOf[f]
    BY <1>3, <1>6, <1>7 DEF Sound
  <2>2. DOMAIN e.order = FieldsOf(e)
    BY <1>3, <1>6, <1>7 DEF Sound
  <2>3. \A i, j \in DOMAIN e.labels : e.labels[i].at = e.labels[j].at => i = j
    <3>1. /\ DOMAIN e.labels = DOMAIN d.labels
          /\ \A i \in DOMAIN d.labels : e.labels[i].at = d.labels[i].at
      BY <1>3, <1>6
    <3>2. \A i, j \in DOMAIN d.labels : d.labels[i].at = d.labels[j].at => i = j
      BY DEF Sound
    <3> QED BY <3>1, <3>2
  <2> QED BY <1>6, <1>8, <1>9, <2>1, <2>2, <2>3 DEF Sound, ReferencesAreAlive
<1> QED BY <1>2, <1>3, <1>5, <1>6, <1>9, <1>10 DEF Valid

\* The empty sequence is the map without arguments.
LEMMA EmptyMap ==
    ASSUME NEW A, NEW B
    PROVE  /\ <<>> \in Maps(A, B) /\ DOMAIN <<>> = {} /\ <<>> = [x \in {} |-> x]
           /\ IsMap(<<>>)
<1>1. <<>> \in Seq(Nat) /\ Len(<<>>) = 0
  OBVIOUS
<1>2. DOMAIN <<>> = 1 .. 0
  BY <1>1
<1>3. <<>> \in UNION {[1 .. n -> Nat] : n \in Nat}
  BY <1>1, SeqDef
<1>4. <<>> = [x \in DOMAIN <<>> |-> <<>>[x]]
  BY <1>3
<1>5. 1 .. 0 = {}
  OBVIOUS
<1>6. DOMAIN <<>> = {}
  BY <1>2, <1>5
<1>7. <<>> = [x \in {} |-> x]
  BY <1>4, <1>6
<1>8. IsMap(<<>>)
  BY <1>4 DEF IsMap
<1> QED BY <1>6, <1>7, <1>8, MapsDef

\* A new problem is valid.
LEMMA NewIsValid == Valid(NewDocument)
<1> DEFINE d == NewDocument
<1>1. d \in Documents
  <2>1. <<>> \in Seq(Labels)
    OBVIOUS
  <2>2. /\ <<>> \in Maps(FieldIds, Analyses) /\ <<>> \in Maps(Couples, CouplingTypes)
        /\ <<>> \in Maps(FieldIds, Maps(Places, LocalOrders))
    BY EmptyMap
  <2> QED BY <2>1, <2>2 DEF Documents, NewDocument
<1>2. /\ d.fields = <<>> /\ d.labels = <<>> /\ d.order = <<>> /\ d.materials = {} /\ d.recipes = {}
      /\ d.none = {}
  BY DEF NewDocument
<1>3. DOMAIN <<>> = {}
  BY EmptyMap
<1> HIDE DEF d
<1>4. Sound(d)
  BY <1>1, <1>2, <1>3 DEF Sound, FieldsOf
<1>5. ReferencesAreAlive(d)
  BY <1>2, <1>3 DEF ReferencesAreAlive, FieldsOf
<1>6. Valid(d)
  BY <1>4, <1>5 DEF Valid
<1> QED BY <1>6 DEF d

-----------------------------------------------------------------------------
(* Operations on fields, markers and materials.                            *)

\* What a valid document is.
LEMMA ValidIs ==
    ASSUME NEW d
    PROVE  Valid(d) <=>
             /\ d \in Documents
             /\ \A f \in FieldsOf(d) : d.fields[f] \in AnalysesOf[f]
             /\ DOMAIN d.order = FieldsOf(d)
             /\ \A i, j \in DOMAIN d.labels : d.labels[i].at = d.labels[j].at => i = j
             /\ ReferencesAreAlive(d)
BY DEF Valid, Sound, ReferencesAreAlive

\* With, value by value.
LEMMA WithIs ==
    ASSUME NEW fn, NEW x, NEW v
    PROVE  /\ DOMAIN With(fn, x, v) = DOMAIN fn \cup {x} /\ IsMap(With(fn, x, v))
           /\ \A y \in DOMAIN fn \cup {x} : With(fn, x, v)[y] = IF y = x THEN v ELSE fn[y]
BY DEF With, IsMap

\* Without, value by value.
LEMMA WithoutIs ==
    ASSUME NEW fn, NEW x
    PROVE  /\ DOMAIN Without(fn, x) = DOMAIN fn \ {x} /\ IsMap(Without(fn, x))
           /\ \A y \in DOMAIN fn \ {x} : Without(fn, x)[y] = fn[y]
BY DEF Without, IsMap

\* A document that gains materials, none markers, recipes, and has other orders and
\* couplings, of the fields it has, keeps its references.
LEMMA GrownIsValid ==
    ASSUME NEW d, Valid(d), NEW e \in Documents,
           e.fields = d.fields, e.labels = d.labels, d.materials \subseteq e.materials,
           d.none \subseteq e.none, e.none \subseteq FieldsOf(d),
           \A m \in e.materials : m[1] \in FieldsOf(d),
           \A r \in e.recipes : r.field \in FieldsOf(d),
           DOMAIN e.order = FieldsOf(d)
    PROVE  Valid(e)
<1>1. FieldsOf(e) = FieldsOf(d)
  BY DEF FieldsOf
<1>2. ReferencesAreAlive(d)
  BY DEF Valid
<1>3. ASSUME NEW i \in DOMAIN e.labels
      PROVE  /\ DOMAIN e.labels[i].marker = FieldsOf(e)
             /\ \A f \in FieldsOf(e) :
                  IF e.labels[i].marker[f] = "none" THEN f \in e.none
                  ELSE <<f, e.labels[i].marker[f]>> \in e.materials
  BY <1>1, <1>2 DEF ReferencesAreAlive
<1>4. ReferencesAreAlive(e)
  BY <1>1, <1>3 DEF ReferencesAreAlive
<1>5. \A i, j \in DOMAIN e.labels : e.labels[i].at = e.labels[j].at => i = j
  BY ValidIs
<1>6. \A f \in FieldsOf(e) : e.fields[f] \in AnalysesOf[f]
  BY <1>1, ValidIs
<1> QED BY <1>1, <1>4, <1>5, <1>6, ValidIs

\* addField leaves a valid document: the couplings are synchronized and every label
\* gets a none marker.
LEMMA AddedIsValid ==
    ASSUME NEW d, Valid(d), NEW f \in FieldIds, f \notin FieldsOf(d), NEW a \in AnalysesOf[f]
    PROVE  Valid(FieldAdded(d, f, a, <<>>))
<1>1. PICK F : F = With(d.fields, f, a)
  OBVIOUS
<1>2. PICK O : O = With(d.order, f, <<>>)
  OBVIOUS
<1>3. PICK c : c = [d EXCEPT !.fields = F, !.order = O]
  OBVIOUS
<1>4. d \in Documents
  BY ValidIs
<1>5. F \in Maps(FieldIds, Analyses) /\ O \in Maps(FieldIds, Maps(Places, LocalOrders))
  BY <1>1, <1>2, <1>4, PartsOf, WithIsMap, EmptyMap DEF Analyses
<1>6. /\ c \in Documents /\ c.fields = F /\ c.order = O /\ c.labels = d.labels
      /\ c.materials = d.materials /\ c.none = d.none /\ c.recipes = d.recipes
  BY <1>3, <1>4, <1>5 DEF Documents
<1>6a. /\ DOMAIN F = FieldsOf(d) \cup {f} /\ DOMAIN O = DOMAIN d.order \cup {f}
       /\ \A h \in FieldsOf(d) \cup {f} : F[h] = IF h = f THEN a ELSE d.fields[h]
  BY <1>1, <1>2 DEF FieldsOf, With
<1>6b. /\ DOMAIN d.order = FieldsOf(d)
       /\ \A h \in FieldsOf(d) : d.fields[h] \in AnalysesOf[h]
  BY ValidIs
<1>7. FieldsOf(c) = FieldsOf(d) \cup {f} /\ DOMAIN c.order = FieldsOf(c)
  BY <1>6, <1>6a, <1>6b DEF FieldsOf
<1>8. \A h \in FieldsOf(c) : c.fields[h] \in AnalysesOf[h]
  BY <1>6, <1>6a, <1>6b, <1>7
<1>9. Sound(c)
  BY <1>6, <1>7, <1>8 DEF Valid, Sound
<1>10. FieldAdded(d, f, a, <<>>) = FieldsChanged(Synchronized(c))
  BY <1>1, <1>2, <1>3 DEF FieldAdded
<1> QED BY <1>9, <1>10, SettledIsValid

\* A sequence of labels of which each is replaced.
LEMMA Relabelled ==
    ASSUME NEW n \in Nat, NEW g, IsMap(g), DOMAIN g = 1 .. n, \A i \in 1 .. n : g[i] \in Labels
    PROVE  g \in Seq(Labels) /\ Len(g) = n
<1>1. g \in [1 .. n -> Labels]
  BY DEF IsMap
<1> QED BY <1>1, FunctionIsSequence

\* removeField leaves a valid document: no marker, material or recipe of the field is left.
LEMMA RemovedIsValid ==
    ASSUME NEW d, Valid(d), NEW f
    PROVE  Valid(FieldRemoved(d, f))
<1> DEFINE ls == [i \in DOMAIN d.labels |->
                    [d.labels[i] EXCEPT !.marker = Without(d.labels[i].marker, f)]]
           rs == {r \in d.recipes : r.field # f}
           ms == {m \in d.materials : m[1] # f}
           F == Without(d.fields, f)
           O == Without(d.order, f)
           c == [d EXCEPT !.recipes = rs, !.labels = ls, !.materials = ms, !.fields = F, !.order = O]
<1>1. FieldRemoved(d, f) = FieldsChanged(Synchronized(c))
  BY DEF FieldRemoved
<1>2. /\ d \in Documents /\ DOMAIN d.labels = 1 .. Len(d.labels) /\ Len(d.labels) \in Nat
      /\ \A i \in DOMAIN d.labels : d.labels[i] \in Labels
  BY ValidIs, PartsOf
<1>3. ASSUME NEW i \in DOMAIN d.labels
      PROVE  /\ ls[i] \in Labels /\ ls[i].at = d.labels[i].at
             /\ ls[i].marker = Without(d.labels[i].marker, f)
  <2>1. d.labels[i].marker \in Markings /\ Without(d.labels[i].marker, f) \in Markings
    BY <1>2, WithoutIsMap DEF Labels, Markings
  <2>2. PICK m : m = Without(d.labels[i].marker, f)
    OBVIOUS
  <2>3. ls[i] = [d.labels[i] EXCEPT !.marker = m]
    BY <2>2
  <2> HIDE DEF ls
  <2> QED BY <1>2, <2>1, <2>2, <2>3 DEF Labels
<1>4. ls \in Seq(Labels) /\ DOMAIN ls = DOMAIN d.labels
  <2>1. DOMAIN ls = DOMAIN d.labels /\ IsMap(ls)
    BY DEF IsMap
  <2> HIDE DEF ls
  <2> QED BY <1>2, <1>3, <2>1, Relabelled
<1>5. F \in Maps(FieldIds, Analyses) /\ O \in Maps(FieldIds, Maps(Places, LocalOrders))
  BY <1>2, PartsOf, WithoutIsMap
<1>6. DOMAIN F = FieldsOf(d) \ {f} /\ DOMAIN O = FieldsOf(d) \ {f}
      /\ \A g \in DOMAIN F : F[g] = d.fields[g]
  <2>1. /\ DOMAIN F = DOMAIN d.fields \ {f} /\ DOMAIN O = DOMAIN d.order \ {f}
        /\ \A g \in DOMAIN d.fields \ {f} : F[g] = d.fields[g]
    BY WithoutIs
  <2>2. DOMAIN d.order = FieldsOf(d)
    BY ValidIs
  <2> HIDE DEF F, O
  <2> QED BY <2>1, <2>2 DEF FieldsOf
<1>7. rs \subseteq d.recipes /\ ms \subseteq d.materials
  OBVIOUS
<1>7a. /\ \A r \in rs : r.field # f
       /\ \A m \in ms : m[1] # f
       /\ \A m \in d.materials : m[1] # f => m \in ms
  OBVIOUS
<1> HIDE DEF rs, ms, F, O, ls
<1>8. /\ c \in Documents /\ c.fields = F /\ c.order = O /\ c.labels = ls /\ c.recipes = rs
      /\ c.materials = ms /\ c.none = d.none
  BY <1>2, <1>4, <1>5, <1>7 DEF Documents
<1> HIDE DEF c
<1>9. FieldsOf(c) = FieldsOf(d) \ {f} /\ DOMAIN c.order = FieldsOf(c)
  BY <1>6, <1>8 DEF FieldsOf
<1>10. /\ \A g \in FieldsOf(c) : c.fields[g] \in AnalysesOf[g]
       /\ \A m \in c.materials : m[1] \in FieldsOf(c)
       /\ \A r \in c.recipes : r.field \in FieldsOf(c)
  BY <1>6, <1>7, <1>7a, <1>8, <1>9 DEF Valid, Sound, FieldsOf
<1>11. \A i, j \in DOMAIN c.labels : c.labels[i].at = c.labels[j].at => i = j
  BY <1>3, <1>4, <1>8, ValidIs
<1>12. ASSUME NEW i \in DOMAIN c.labels
       PROVE  /\ DOMAIN c.labels[i].marker = FieldsOf(c)
              /\ \A g \in FieldsOf(c) : IF c.labels[i].marker[g] = "none" THEN g \in c.none
                                        ELSE <<g, c.labels[i].marker[g]>> \in c.materials
  <2>1. i \in DOMAIN d.labels /\ c.labels[i].marker = Without(d.labels[i].marker, f)
    BY <1>3, <1>4, <1>8
  <2>2. /\ DOMAIN d.labels[i].marker = FieldsOf(d)
        /\ \A g \in FieldsOf(d) : IF d.labels[i].marker[g] = "none" THEN g \in d.none
                                  ELSE <<g, d.labels[i].marker[g]>> \in d.materials
    BY <2>1 DEF Valid, ReferencesAreAlive
  <2>3. /\ DOMAIN c.labels[i].marker = FieldsOf(c)
        /\ \A g \in FieldsOf(c) : g \in FieldsOf(d) /\ g # f /\
              c.labels[i].marker[g] = d.labels[i].marker[g]
    <3>1. PICK m, k : m = d.labels[i].marker /\ k = Without(m, f)
      OBVIOUS
    <3>2. DOMAIN k = DOMAIN m \ {f} /\ \A g \in DOMAIN m \ {f} : k[g] = m[g]
      BY <3>1, WithoutIs
    <3> QED BY <2>1, <2>2, <1>9, <3>1, <3>2
  <2>4. \A g \in FieldsOf(c) : <<g, d.labels[i].marker[g]>> \in d.materials =>
                                 <<g, d.labels[i].marker[g]>> \in ms
    BY <2>3, <1>7a
  <2> QED BY <2>2, <2>3, <2>4, <1>8
<1>13. Sound(c)
  BY <1>8, <1>9, <1>10, <1>11, <1>12 DEF Sound
<1> QED BY <1>1, <1>13, SettledIsValid

\* The label l has one marker for every field of d, a material or a none marker of d.
MarkersOK(l, d) ==
    /\ DOMAIN l.marker = FieldsOf(d)
    /\ \A f \in FieldsOf(d) :
          IF l.marker[f] = "none" THEN f \in d.none ELSE <<f, l.marker[f]>> \in d.materials

\* Validity, label by label.
LEMMA ValidHas ==
    ASSUME NEW d
    PROVE  Valid(d) <=>
             /\ d \in Documents
             /\ \A f \in FieldsOf(d) : d.fields[f] \in AnalysesOf[f]
             /\ DOMAIN d.order = FieldsOf(d)
             /\ \A i, j \in DOMAIN d.labels : d.labels[i].at = d.labels[j].at => i = j
             /\ d.none \subseteq FieldsOf(d)
             /\ \A m \in d.materials : m[1] \in FieldsOf(d)
             /\ \A r \in d.recipes : r.field \in FieldsOf(d)
             /\ \A i \in DOMAIN d.labels : MarkersOK(d.labels[i], d)
BY ValidIs DEF ReferencesAreAlive, MarkersOK

\* Other labels with markers that are alive.
LEMMA LabelledIsValid ==
    ASSUME NEW d, Valid(d), NEW e \in Documents,
           e.fields = d.fields, e.order = d.order, e.materials = d.materials,
           e.recipes = d.recipes, e.none \subseteq FieldsOf(d),
           \A i, j \in DOMAIN e.labels : e.labels[i].at = e.labels[j].at => i = j,
           \A i \in DOMAIN e.labels : MarkersOK(e.labels[i], e)
    PROVE  Valid(e) /\ FieldsOf(e) = FieldsOf(d)
<1>1. FieldsOf(e) = FieldsOf(d)
  BY DEF FieldsOf
<1>2. /\ \A f \in FieldsOf(d) : d.fields[f] \in AnalysesOf[f]
      /\ DOMAIN d.order = FieldsOf(d)
      /\ \A m \in d.materials : m[1] \in FieldsOf(d)
      /\ \A r \in d.recipes : r.field \in FieldsOf(d)
  BY ValidHas
<1>3. Valid(e)
  BY <1>1, <1>2, ValidHas
<1> QED BY <1>1, <1>3

\* A label of d whose marker is replaced.
LEMMA MarkedIsValid ==
    ASSUME NEW d, Valid(d), NEW i \in DOMAIN d.labels, NEW f \in FieldsOf(d), NEW name,
           name # "none" => <<f, name>> \in d.materials
    PROVE  Valid(Marked(d, i, f, name)) /\ FieldsOf(Marked(d, i, f, name)) = FieldsOf(d)
<1>0. /\ d \in Documents /\ d.labels \in Seq(Labels) /\ d.labels[i] \in Labels
      /\ FieldsOf(d) \subseteq FieldIds /\ d.leaked \subseteq Places
      /\ d.materials \subseteq FieldIds \X Names
  BY ValidHas, PartsOf
<1>1. PICK m : m = With(d.labels[i].marker, f, name)
  OBVIOUS
<1>2. PICK l : l = [d.labels[i] EXCEPT !.marker = m]
  OBVIOUS
<1>3. PICK ls : ls = [d.labels EXCEPT ![i] = l]
  OBVIOUS
<1>4. PICK ns : ns = IF name = "none" THEN d.none \cup {f} ELSE d.none
  OBVIOUS
<1>5. PICK e : e = Marked(d, i, f, name)
  OBVIOUS
<1>6. e = [d EXCEPT !.labels = ls, !.none = ns, !.leaked = d.leaked]
  <2>1. e = [d EXCEPT !.labels = ls, !.none = ns]
    BY <1>1, <1>2, <1>3, <1>4, <1>5 DEF Marked
  <2> QED BY <2>1, <1>0 DEF Documents
<1>7. l \in Labels /\ l.at = d.labels[i].at /\ l.marker = m
  <2>1. name \in Names \cup {"none"}
    BY <1>0
  <2>2. d.labels[i].marker \in Maps(FieldIds, Names \cup {"none"})
    BY <1>0 DEF Labels, Markings
  <2>3. f \in FieldIds
    BY <1>0
  <2>4. m \in Markings
    BY <1>1, <2>1, <2>2, <2>3, WithIsMap DEF Markings
  <2> QED BY <1>0, <1>2, <2>4 DEF Labels
<1>8. /\ ls \in Seq(Labels) /\ DOMAIN ls = DOMAIN d.labels /\ ls[i] = l
      /\ \A j \in DOMAIN d.labels : j # i => ls[j] = d.labels[j]
  <2> HIDE DEF Labels
  <2> QED BY <1>0, <1>3, <1>7
<1>9. \A j, k \in DOMAIN ls : ls[j].at = ls[k].at => j = k
  <2>1. \A j \in DOMAIN d.labels : ls[j].at = d.labels[j].at
    BY <1>7, <1>8
  <2>2. \A j, k \in DOMAIN d.labels : d.labels[j].at = d.labels[k].at => j = k
    BY ValidHas
  <2> QED BY <2>1, <2>2, <1>8
<1>10. d.none \subseteq ns /\ ns \subseteq FieldsOf(d)
  BY <1>4, ValidHas
<1>11. /\ FieldsOf(e) = FieldsOf(d) /\ e.none = ns /\ e.materials = d.materials
       /\ e.fields = d.fields /\ e.order = d.order /\ e.recipes = d.recipes
       /\ e.labels = ls /\ e \in Documents
  BY <1>0, <1>6, <1>8, <1>10 DEF Documents, FieldsOf
<1>12. ASSUME NEW j \in DOMAIN ls PROVE MarkersOK(ls[j], e)
  <2>1. MarkersOK(d.labels[j], d)
    BY <1>8, ValidHas
  <2>2. CASE j # i
    BY <2>1, <2>2, <1>8, <1>10, <1>11 DEF MarkersOK
  <2>3. CASE j = i
    <3>1. /\ DOMAIN m = FieldsOf(d)
          /\ \A g \in FieldsOf(d) : m[g] = IF g = f THEN name ELSE d.labels[i].marker[g]
      BY <2>1, <2>3, <1>1 DEF With, MarkersOK
    <3>2. name = "none" => f \in ns
      BY <1>4
    <3> QED BY <2>1, <2>3, <3>1, <3>2, <1>7, <1>8, <1>10, <1>11 DEF MarkersOK
  <2> QED BY <2>2, <2>3
<1>13. Valid(e) /\ FieldsOf(e) = FieldsOf(d)
  <2> \A j \in DOMAIN e.labels : MarkersOK(e.labels[j], e)
    BY <1>11, <1>12
  <2> \A j, k \in DOMAIN e.labels : e.labels[j].at = e.labels[k].at => j = k
    BY <1>9, <1>11
  <2> QED BY <1>10, <1>11, LabelledIsValid
<1> QED BY <1>5, <1>13

\* removeMaterial leaves a valid document: the none marker stands for the material.
LEMMA MaterialRemovedIsValid ==
    ASSUME NEW d, Valid(d), NEW f, NEW name \in Names, <<f, name>> \in d.materials
    PROVE  Valid(MaterialRemoved(d, f, name))
<1> DEFINE bare(l) == IF f \in DOMAIN l.marker /\ l.marker[f] = name
                      THEN [l EXCEPT !.marker[f] = "none"] ELSE l
           ls == [i \in DOMAIN d.labels |-> bare(d.labels[i])]
           ns == IF \E i \in DOMAIN d.labels : bare(d.labels[i]) # d.labels[i]
                 THEN d.none \cup {f} ELSE d.none
           ms == d.materials \ {<<f, name>>}
           e == [d EXCEPT !.labels = ls, !.none = ns, !.materials = ms]
<1>0. /\ d \in Documents /\ DOMAIN d.labels = 1 .. Len(d.labels) /\ Len(d.labels) \in Nat
      /\ FieldsOf(d) \subseteq FieldIds /\ d.materials \subseteq FieldIds \X Names
      /\ \A i \in DOMAIN d.labels : d.labels[i] \in Labels
  BY ValidHas, PartsOf
<1>1. MaterialRemoved(d, f, name) = e
  BY DEF MaterialRemoved
<1>2. name # "none" /\ f \in FieldsOf(d) /\ f \in FieldIds
  BY <1>0, ValidHas, MarkerNameAssumption
<1>3. ASSUME NEW i \in DOMAIN d.labels
      PROVE  /\ bare(d.labels[i]) \in Labels
             /\ bare(d.labels[i]).at = d.labels[i].at
             /\ DOMAIN bare(d.labels[i]).marker = FieldsOf(d)
             /\ \A g \in FieldsOf(d) :
                  bare(d.labels[i]).marker[g] = IF g = f /\ d.labels[i].marker[f] = name THEN "none"
                                                ELSE d.labels[i].marker[g]
             /\ d.labels[i].marker[f] = name => bare(d.labels[i]) # d.labels[i]
  <2>1. PICK l \in Labels : l = d.labels[i]
    BY <1>0
  <2>2. DOMAIN l.marker = FieldsOf(d)
    BY <2>1, ValidHas DEF MarkersOK
  <2>3. CASE l.marker[f] = name
    <3>1. PICK m : m = [l.marker EXCEPT ![f] = "none"]
      OBVIOUS
    <3>2. PICK k : k = [l EXCEPT !.marker = m]
      OBVIOUS
    <3>3. bare(d.labels[i]) = k
      BY <2>1, <2>2, <2>3, <3>1, <3>2, <1>2
    <3>4. /\ DOMAIN m = FieldsOf(d) /\ IsMap(m)
          /\ \A g \in FieldsOf(d) : m[g] = IF g = f THEN "none" ELSE l.marker[g]
      BY <3>1, <2>2, <1>2, LabelParts DEF IsMap
    <3>5. \A g \in FieldsOf(d) : m[g] \in Names \cup {"none"}
      BY <3>4, <2>2, LabelParts
    <3>6. m \in Markings
      BY <1>0, <3>4, <3>5, MapsDef DEF Markings
    <3>7. k \in Labels /\ k.at = l.at /\ k.marker = m
      BY <3>2, <3>6 DEF Labels
    <3>8. k.marker[f] # l.marker[f]
      BY <3>4, <3>7, <2>3, <1>2
    <3>9. k # l
      BY <3>8
    <3> HIDE DEF bare
    <3> QED BY <2>1, <2>3, <3>3, <3>4, <3>7, <3>9
  <2>4. CASE l.marker[f] # name
    <3>1. bare(d.labels[i]) = l
      BY <2>1, <2>4
    <3> HIDE DEF bare
    <3> QED BY <2>1, <2>2, <2>4, <3>1
  <2> QED BY <2>3, <2>4
<1>4. /\ ls \in Seq(Labels) /\ DOMAIN ls = DOMAIN d.labels
      /\ \A i \in DOMAIN d.labels : ls[i] = bare(d.labels[i])
  <2>1. DOMAIN ls = DOMAIN d.labels /\ IsMap(ls) /\ \A i \in DOMAIN d.labels : ls[i] = bare(d.labels[i])
    BY DEF IsMap
  <2> HIDE DEF ls, bare
  <2> QED BY <1>0, <1>3, <2>1, Relabelled
<1>5. /\ d.none \subseteq ns /\ ns \subseteq d.none \cup {f}
      /\ (\E i \in DOMAIN d.labels : d.labels[i].marker[f] = name) => f \in ns
  BY <1>3
<1>5a. d.none \subseteq FieldsOf(d)
  BY ValidHas
<1> HIDE DEF ls, ns, bare
<1>6. /\ e \in Documents /\ e.fields = d.fields /\ e.labels = ls /\ e.none = ns /\ e.materials = ms
      /\ e.order = d.order /\ e.recipes = d.recipes
  <2>1. ms \in SUBSET (FieldIds \X Names) /\ ns \in SUBSET FieldIds
    BY <1>0, <1>2, <1>5, <1>5a
  <2> HIDE DEF ms
  <2> QED BY <1>0, <1>4, <2>1 DEF Documents
<1>7. FieldsOf(e) = FieldsOf(d)
  BY <1>6 DEF FieldsOf
<1>8. \A i, j \in DOMAIN ls : ls[i].at = ls[j].at => i = j
  BY <1>3, <1>4, ValidHas
<1>9. ASSUME NEW i \in DOMAIN ls PROVE MarkersOK(ls[i], e)
  <2>1. MarkersOK(d.labels[i], d) /\ i \in DOMAIN d.labels
    BY <1>4, ValidHas
  <2>2. /\ DOMAIN ls[i].marker = FieldsOf(d)
        /\ \A g \in FieldsOf(d) :
              ls[i].marker[g] = IF g = f /\ d.labels[i].marker[f] = name THEN "none"
                                ELSE d.labels[i].marker[g]
    BY <2>1, <1>3, <1>4
  <2>3. ASSUME NEW g \in FieldsOf(d)
        PROVE  IF ls[i].marker[g] = "none" THEN g \in ns ELSE <<g, ls[i].marker[g]>> \in ms
    <3>1. IF d.labels[i].marker[g] = "none" THEN g \in d.none
          ELSE <<g, d.labels[i].marker[g]>> \in d.materials
      BY <2>1 DEF MarkersOK
    <3>2. CASE g = f /\ d.labels[i].marker[f] = name
      BY <2>1, <2>2, <3>2, <1>5
    <3>3. CASE ~(g = f /\ d.labels[i].marker[f] = name)
      BY <2>2, <3>1, <3>3, <1>5
    <3> QED BY <3>2, <3>3
  <2> QED BY <2>2, <2>3, <1>6, <1>7 DEF MarkersOK
<1>10. \A m \in e.materials : m[1] \in FieldsOf(e)
  BY <1>6, <1>7, ValidHas
<1>11. Valid(e)
  <2>1. e.none \subseteq FieldsOf(e) /\ DOMAIN e.order = FieldsOf(e)
    BY <1>2, <1>5, <1>5a, <1>6, <1>7, ValidHas
  <2>2. \A g \in FieldsOf(e) : e.fields[g] \in AnalysesOf[g]
    BY <1>6, <1>7, ValidHas
  <2>3. \A r \in e.recipes : r.field \in FieldsOf(e)
    BY <1>6, <1>7, ValidHas
  <2> HIDE DEF e
  <2> QED BY <1>6, <1>8, <1>9, <1>10, <2>1, <2>2, <2>3, ValidHas
<1> QED BY <1>1, <1>11

-----------------------------------------------------------------------------
(* Operations on labels.                                                   *)

\* A new label is put at the end.
LEMMA AppendedIsValid ==
    ASSUME NEW d, Valid(d), NEW l \in Labels, l.at \notin AddressesOf(d),
           NEW e \in Documents, e.fields = d.fields, e.order = d.order, e.materials = d.materials,
           e.recipes = d.recipes, e.labels = Append(d.labels, l), d.none \subseteq e.none,
           e.none \subseteq FieldsOf(d), MarkersOK(l, e)
    PROVE  /\ Valid(e) /\ FieldsOf(e) = FieldsOf(d)
           /\ Len(e.labels) = Len(d.labels) + 1 /\ Len(d.labels) \in Nat
           /\ DOMAIN e.labels = 1 .. Len(d.labels) + 1
           /\ e.labels[Len(d.labels) + 1] = l
           /\ \A i \in 1 .. Len(d.labels) : e.labels[i] = d.labels[i]
<1>0. /\ d \in Documents /\ d.labels \in Seq(Labels) /\ Len(d.labels) \in Nat
      /\ DOMAIN d.labels = 1 .. Len(d.labels)
  BY ValidHas, PartsOf
<1>1. /\ Len(e.labels) = Len(d.labels) + 1 /\ DOMAIN e.labels = 1 .. Len(d.labels) + 1
      /\ e.labels[Len(d.labels) + 1] = l
      /\ \A i \in 1 .. Len(d.labels) : e.labels[i] = d.labels[i]
  <2> HIDE DEF Labels
  <2> QED BY <1>0, AppendProperties
<1>2. \A i \in DOMAIN d.labels : d.labels[i].at # l.at
  BY DEF AddressesOf
<1>3. ASSUME NEW i \in DOMAIN e.labels, NEW j \in DOMAIN e.labels, e.labels[i].at = e.labels[j].at
      PROVE  i = j
  <2>1. \A k, m \in DOMAIN d.labels : d.labels[k].at = d.labels[m].at => k = m
    BY ValidHas
  <2>2. i \in DOMAIN d.labels \/ i = Len(d.labels) + 1
    BY <1>0, <1>1
  <2>3. j \in DOMAIN d.labels \/ j = Len(d.labels) + 1
    BY <1>0, <1>1
  <2> QED BY <2>1, <2>2, <2>3, <1>0, <1>1, <1>2, <1>3
<1>4. FieldsOf(e) = FieldsOf(d)
  BY DEF FieldsOf
<1>5. ASSUME NEW i \in DOMAIN e.labels PROVE MarkersOK(e.labels[i], e)
  <2>1. CASE i = Len(d.labels) + 1
    BY <1>1, <2>1
  <2>2. CASE i # Len(d.labels) + 1
    <3>1. i \in DOMAIN d.labels /\ e.labels[i] = d.labels[i]
      BY <1>0, <1>1, <2>2
    <3>2. MarkersOK(d.labels[i], d)
      BY <3>1, ValidHas
    <3> QED BY <3>1, <3>2, <1>4 DEF MarkersOK
  <2> QED BY <2>1, <2>2
<1>6. Valid(e)
  BY <1>3, <1>5, LabelledIsValid
<1> QED BY <1>0, <1>1, <1>4, <1>6

\* new SceneLabel.
LEMMA CreatedIsValid ==
    ASSUME NEW d, Valid(d), NEW a \in Places, a \notin AddressesOf(d), NEW p \in Points,
           NEW e, e = LabelCreated(d, a, p)
    PROVE  /\ Valid(e) /\ FieldsOf(e) = FieldsOf(d) /\ e.materials = d.materials
           /\ e.order = d.order /\ e.none = FieldsOf(d)
           /\ Len(e.labels) = Len(d.labels) + 1 /\ Len(d.labels) \in Nat
           /\ DOMAIN e.labels = 1 .. Len(d.labels) + 1
           /\ e.labels[Len(d.labels) + 1].at = a /\ e.labels[Len(d.labels) + 1].point = p
           /\ \A i \in 1 .. Len(d.labels) : e.labels[i] = d.labels[i]
<1>0. d \in Documents /\ d.labels \in Seq(Labels) /\ FieldsOf(d) \subseteq FieldIds
  BY ValidHas, PartsOf
<1>1. PICK m : m = [f \in FieldsOf(d) |-> "none"]
  OBVIOUS
<1>2. PICK l : l = [at |-> a, point |-> p, marker |-> m]
  OBVIOUS
<1>3. IsMap(m) /\ DOMAIN m = FieldsOf(d) /\ \A f \in FieldsOf(d) : m[f] = "none"
  BY <1>1 DEF IsMap
<1>4. m \in Markings
  BY <1>0, <1>3, MapsDef DEF Markings
<1>5. l \in Labels /\ l.at = a /\ l.marker = m /\ l.point = p
  BY <1>2, <1>4 DEF Labels
<1>6. PICK ls : ls = Append(d.labels, l)
  OBVIOUS
<1>7. PICK ns : ns = d.none \cup FieldsOf(d)
  OBVIOUS
<1>8. e = [d EXCEPT !.labels = ls, !.none = ns]
  BY <1>1, <1>2, <1>6, <1>7 DEF LabelCreated
<1>9. ns = FieldsOf(d) /\ d.none \subseteq ns
  BY <1>7, ValidHas
<1>10. ls \in Seq(Labels)
  <2> HIDE DEF Labels
  <2> QED BY <1>0, <1>5, <1>6
<1>11. /\ e \in Documents /\ e.fields = d.fields /\ e.order = d.order /\ e.materials = d.materials
       /\ e.recipes = d.recipes /\ e.labels = ls /\ e.none = ns
  BY <1>0, <1>8, <1>9, <1>10 DEF Documents
<1>12. MarkersOK(l, e)
  BY <1>3, <1>5, <1>9, <1>11 DEF MarkersOK, FieldsOf
<1>13. e.labels = Append(d.labels, l) /\ l.at \notin AddressesOf(d)
  BY <1>5, <1>6, <1>11
<1>14. /\ Valid(e) /\ FieldsOf(e) = FieldsOf(d)
       /\ Len(e.labels) = Len(d.labels) + 1 /\ Len(d.labels) \in Nat
       /\ DOMAIN e.labels = 1 .. Len(d.labels) + 1
       /\ e.labels[Len(d.labels) + 1] = l
       /\ \A i \in 1 .. Len(d.labels) : e.labels[i] = d.labels[i]
  BY <1>5, <1>9, <1>11, <1>12, <1>13, AppendedIsValid
<1> QED BY <1>5, <1>9, <1>11, <1>14

\* A label of d is replaced by one at the same address, whose markers are alive.
LEMMA ReplacedIsValid ==
    ASSUME NEW d, Valid(d), NEW i \in DOMAIN d.labels, NEW l \in Labels,
           l.at = d.labels[i].at, MarkersOK(l, d),
           NEW e, e = [d EXCEPT !.labels[i] = l]
    PROVE  /\ Valid(e) /\ FieldsOf(e) = FieldsOf(d)
<1>0. /\ d \in Documents /\ d.labels \in Seq(Labels)
  BY ValidHas, PartsOf
<1>1. PICK ls : ls = [d.labels EXCEPT ![i] = l]
  OBVIOUS
<1>2. e = [d EXCEPT !.labels = ls]
  BY <1>1
<1>3. /\ ls \in Seq(Labels) /\ DOMAIN ls = DOMAIN d.labels /\ ls[i] = l
      /\ \A j \in DOMAIN d.labels : j # i => ls[j] = d.labels[j]
  <2> HIDE DEF Labels
  <2> QED BY <1>0, <1>1
<1>4. /\ e \in Documents /\ e.fields = d.fields /\ e.order = d.order /\ e.materials = d.materials
      /\ e.recipes = d.recipes /\ e.labels = ls /\ e.none = d.none
  BY <1>0, <1>2, <1>3 DEF Documents
<1>5. \A j \in DOMAIN ls : ls[j].at = d.labels[j].at
  BY <1>3
<1>6. \A j, k \in DOMAIN e.labels : e.labels[j].at = e.labels[k].at => j = k
  <2> \A j, k \in DOMAIN d.labels : d.labels[j].at = d.labels[k].at => j = k
    BY ValidHas
  <2> QED BY <1>3, <1>4, <1>5
<1>7. ASSUME NEW j \in DOMAIN e.labels PROVE MarkersOK(e.labels[j], e)
  <2>1. MarkersOK(e.labels[j], d)
    BY <1>3, <1>4, ValidHas
  <2> QED BY <2>1, <1>4 DEF MarkersOK, FieldsOf
<1>8. e.none \subseteq FieldsOf(d)
  BY <1>4, ValidHas
<1> QED BY <1>4, <1>6, <1>7, <1>8, LabelledIsValid

\* A label is at another point.
LEMMA PointedIsValid ==
    ASSUME NEW d, Valid(d), NEW i \in DOMAIN d.labels, NEW p \in Points
    PROVE  Valid([d EXCEPT !.labels[i].point = p])
<1>1. PICK l : l = [d.labels[i] EXCEPT !.point = p]
  OBVIOUS
<1>2. d.labels[i] \in Labels /\ MarkersOK(d.labels[i], d)
  BY ValidHas, PartsOf
<1>3. l \in Labels /\ l.at = d.labels[i].at /\ l.marker = d.labels[i].marker
  BY <1>1, <1>2 DEF Labels
<1>4. MarkersOK(l, d)
  BY <1>2, <1>3 DEF MarkersOK
<1>5. PICK e : e = [d EXCEPT !.labels[i] = l]
  OBVIOUS
<1>6. [d EXCEPT !.labels[i].point = p] = e
  BY <1>1, <1>5
<1> QED BY <1>3, <1>4, <1>5, <1>6, ReplacedIsValid

\* RemoveAt moves the following elements up by one.
LEMMA RemoveAtProperties ==
    ASSUME NEW S, NEW s \in Seq(S), NEW i \in 1 .. Len(s)
    PROVE  /\ RemoveAt(s, i) \in Seq(S)
           /\ Len(RemoveAt(s, i)) = Len(s) - 1
           /\ \A j \in 1 .. Len(s) - 1 :
                 RemoveAt(s, i)[j] = IF j < i THEN s[j] ELSE s[j + 1]
<1>1. RemoveAt(s, i) = WithoutElement(s, i)
  BY DEF RemoveAt, WithoutElement
<1> QED BY <1>1, ElementRemoved

\* A label without the one that is removed.
LEMMA LabelRemovedIsValid ==
    ASSUME NEW d, Valid(d), NEW i \in DOMAIN d.labels
    PROVE  Valid(LabelRemoved(d, i))
<1>0. /\ d \in Documents /\ d.labels \in Seq(Labels) /\ Len(d.labels) \in Nat
      /\ DOMAIN d.labels = 1 .. Len(d.labels) /\ d.leaked \subseteq Places
      /\ d.labels[i] \in Labels /\ d.labels[i].at \in Places
  BY ValidHas, PartsOf, LabelParts
<1>1. PICK ls : ls = RemoveAt(d.labels, i)
  OBVIOUS
<1>2. PICK lk : lk = d.leaked \cup {d.labels[i].at}
  OBVIOUS
<1>3. PICK e : e = LabelRemoved(d, i)
  OBVIOUS
<1>4. e = [d EXCEPT !.labels = ls, !.leaked = lk]
  BY <1>1, <1>2, <1>3 DEF LabelRemoved
<1>5. /\ ls \in Seq(Labels) /\ Len(ls) = Len(d.labels) - 1
      /\ \A j \in 1 .. Len(d.labels) - 1 :
            ls[j] = IF j < i THEN d.labels[j] ELSE d.labels[j + 1]
  <2> HIDE DEF Labels
  <2> QED BY <1>0, <1>1, RemoveAtProperties
<1>6. DOMAIN ls = 1 .. Len(d.labels) - 1
  <2> HIDE DEF Labels
  <2> QED BY <1>5
<1>7. /\ e \in Documents /\ e.fields = d.fields /\ e.order = d.order /\ e.materials = d.materials
      /\ e.recipes = d.recipes /\ e.labels = ls /\ e.none = d.none
  BY <1>0, <1>2, <1>4, <1>5 DEF Documents
<1>8. ASSUME NEW j \in DOMAIN e.labels, NEW k \in DOMAIN e.labels, e.labels[j].at = e.labels[k].at
      PROVE  j = k
  <2> DEFINE o(x) == IF x < i THEN x ELSE x + 1
  <2>1. \A x \in DOMAIN ls : o(x) \in DOMAIN d.labels /\ ls[x] = d.labels[o(x)]
    BY <1>0, <1>5, <1>6
  <2>2. j \in DOMAIN ls /\ k \in DOMAIN ls /\ j \in Int /\ k \in Int /\ i \in Int
    BY <1>0, <1>6, <1>7
  <2>3. o(j) = o(k)
    <3> \A x, y \in DOMAIN d.labels : d.labels[x].at = d.labels[y].at => x = y
      BY ValidHas
    <3> HIDE DEF o
    <3> QED BY <1>7, <1>8, <2>1, <2>2
  <2> QED BY <2>2, <2>3
<1>9. ASSUME NEW j \in DOMAIN e.labels PROVE MarkersOK(e.labels[j], e)
  <2>1. MarkersOK(e.labels[j], d)
    <3>1. \E x \in DOMAIN d.labels : e.labels[j] = d.labels[x]
      <4>1. j \in 1 .. Len(d.labels) - 1 /\ e.labels[j] = ls[j]
        BY <1>6, <1>7
      <4>2. CASE j < i
        BY <4>1, <4>2, <1>0, <1>5
      <4>3. CASE ~ (j < i)
        <5>1. j + 1 \in DOMAIN d.labels /\ e.labels[j] = d.labels[j + 1]
          BY <4>1, <4>3, <1>0, <1>5
        <5> QED BY <5>1
      <4> QED BY <4>2, <4>3
    <3> QED BY <3>1, ValidHas
  <2> QED BY <2>1, <1>7 DEF MarkersOK, FieldsOf
<1>10. e.none \subseteq FieldsOf(d)
  BY <1>7, ValidHas
<1> QED BY <1>3, <1>7, <1>8, <1>9, <1>10, LabelledIsValid

\* The label that a command finds at a point.
LEMMA FirstAtIs ==
    ASSUME NEW d, Valid(d), NEW p \in PointsOf(d)
    PROVE  FirstAt(d, p) \in DOMAIN d.labels /\ d.labels[FirstAt(d, p)].point = p
<1> DEFINE I == {i \in 1 .. Len(d.labels) : d.labels[i].point = p}
<1>0. DOMAIN d.labels = 1 .. Len(d.labels) /\ Len(d.labels) \in Nat
  BY ValidHas, PartsOf
<1>1. I # {} /\ I \subseteq Nat
  BY <1>0 DEF PointsOf
<1>2. FirstAt(d, p) = Min(I)
  BY <1>1 DEF FirstAt, SelectInSeq
<1>3. Min(I) \in I
  <2> \E n \in I : \A m \in I : n <= m
    <3> HIDE DEF I
    <3> QED BY <1>1, LeastNatural
  <2> QED BY DEF Min
<1> QED BY <1>0, <1>2, <1>3

\* The label at a point is taken out.
LEMMA TakenIsValid ==
    ASSUME NEW d, Valid(d), NEW p PROVE Valid(Taken(d, p))
BY FirstAtIs, LabelRemovedIsValid DEF Taken

\* The label at a point gets another point.
LEMMA MovedIsValid ==
    ASSUME NEW d, Valid(d), NEW p, NEW q \in Points PROVE Valid(Moved(d, p, q))
<1>1. CASE p \in PointsOf(d)
  <2>1. Moved(d, p, q) = [d EXCEPT !.labels[FirstAt(d, p)].point = q]
    BY <1>1 DEF Moved
  <2>2. FirstAt(d, p) \in DOMAIN d.labels
    BY <1>1, FirstAtIs
  <2> QED BY <2>1, <2>2, PointedIsValid
<1> QED BY <1>1 DEF Moved

\* Orders for labels, which may be there or not.
OrdersAre(d, o) == o \in Maps(FieldIds, Maps(Places, LocalOrders)) /\ DOMAIN o = FieldsOf(d)

\* A valid document with other polynomial orders is valid.
LEMMA OrderedIsValid ==
    ASSUME NEW d, Valid(d), NEW o, OrdersAre(d, o)
    PROVE  Valid([d EXCEPT !.order = o])
<1>1. PICK e : e = [d EXCEPT !.order = o]
  OBVIOUS
<1>2. d \in Documents
  BY ValidHas
<1>3. /\ e \in Documents /\ e.fields = d.fields /\ e.labels = d.labels /\ e.order = o
      /\ e.materials = d.materials /\ e.recipes = d.recipes /\ e.none = d.none
  BY <1>1, <1>2 DEF Documents, OrdersAre
<1>4. /\ d.none \subseteq FieldsOf(d)
      /\ \A m \in d.materials : m[1] \in FieldsOf(d)
      /\ \A r \in d.recipes : r.field \in FieldsOf(d)
  BY ValidHas
<1>5. Valid(e)
  BY <1>3, <1>4, GrownIsValid DEF OrdersAre
<1> QED BY <1>1, <1>5

\* A field's orders are replaced.
LEMMA OneOrdered ==
    ASSUME NEW d, Valid(d), NEW f \in FieldsOf(d), NEW o \in Maps(Places, LocalOrders)
    PROVE  Valid([d EXCEPT !.order[f] = o])
<1>1. PICK os : os = [d.order EXCEPT ![f] = o]
  OBVIOUS
<1>2. /\ d.order \in Maps(FieldIds, Maps(Places, LocalOrders)) /\ DOMAIN d.order = FieldsOf(d)
  BY ValidHas, PartsOf
<1>3. /\ IsMap(d.order) /\ FieldsOf(d) \subseteq FieldIds
      /\ \A g \in FieldsOf(d) : d.order[g] \in Maps(Places, LocalOrders)
  BY <1>2, MapsDef
<1>4. /\ IsMap(os) /\ DOMAIN os = FieldsOf(d)
      /\ \A g \in FieldsOf(d) : os[g] = IF g = f THEN o ELSE d.order[g]
  BY <1>1, <1>2, <1>3 DEF IsMap
<1>5. OrdersAre(d, os)
  <2>1. \A g \in FieldsOf(d) : os[g] \in Maps(Places, LocalOrders)
    BY <1>3, <1>4
  <2> QED BY <1>3, <1>4, <2>1, MapsDef DEF OrdersAre
<1>6. [d EXCEPT !.order[f] = o] = [d EXCEPT !.order = os]
  BY <1>1
<1> QED BY <1>5, <1>6, OrderedIsValid

\* Some fields have an order for the label at a.
LEMMA SomeOrdered ==
    ASSUME NEW d, Valid(d), NEW ordered, NEW a \in Places, NEW o \in LocalOrders,
           NEW os, os = [f \in FieldsOf(d) |->
                           IF f \in ordered THEN With(d.order[f], a, o) ELSE d.order[f]]
    PROVE  OrdersAre(d, os)
<1>2. /\ d.order \in Maps(FieldIds, Maps(Places, LocalOrders)) /\ DOMAIN d.order = FieldsOf(d)
  BY ValidHas, PartsOf
<1>3. /\ IsMap(d.order) /\ FieldsOf(d) \subseteq FieldIds
      /\ \A g \in FieldsOf(d) : d.order[g] \in Maps(Places, LocalOrders)
  BY <1>2, MapsDef
<1>4. /\ IsMap(os) /\ DOMAIN os = FieldsOf(d)
      /\ \A g \in FieldsOf(d) : os[g] = IF g \in ordered THEN With(d.order[g], a, o) ELSE d.order[g]
  BY DEF IsMap
<1>5. \A g \in FieldsOf(d) : os[g] \in Maps(Places, LocalOrders)
  <2> SUFFICES ASSUME NEW g \in FieldsOf(d) PROVE os[g] \in Maps(Places, LocalOrders)
    OBVIOUS
  <2>1. d.order[g] \in Maps(Places, LocalOrders)
    BY <1>3
  <2>2. With(d.order[g], a, o) \in Maps(Places, LocalOrders)
    BY <2>1, WithIsMap
  <2> QED BY <1>4, <2>1, <2>2
<1> QED BY <1>3, <1>4, <1>5, MapsDef DEF OrdersAre

\* addLabel and doNewLabel: a label with the marker of a material of one field, and an
\* order in some.
LEMMA LabelWithIsValid ==
    ASSUME NEW d, Valid(d), NEW a \in Places, a \notin AddressesOf(d), NEW p \in Points,
           NEW m, NEW ordered, NEW o \in LocalOrders
    PROVE  /\ Valid(LabelWith(d, a, p, m, ordered, o))
           /\ DOMAIN LabelWith(d, a, p, m, ordered, o).labels = 1 .. Len(d.labels) + 1
<1>1. PICK c : c = LabelCreated(d, a, p)
  OBVIOUS
<1>2. /\ Valid(c) /\ FieldsOf(c) = FieldsOf(d) /\ c.materials = d.materials /\ c.order = d.order
      /\ Len(c.labels) = Len(d.labels) + 1 /\ Len(d.labels) \in Nat
      /\ DOMAIN c.labels = 1 .. Len(d.labels) + 1
  BY <1>1, CreatedIsValid
<1>3. Len(c.labels) \in DOMAIN c.labels
  BY <1>2
<1>4. PICK k : k = IF m \in d.materials THEN Marked(c, Len(c.labels), m[1], m[2]) ELSE c
  OBVIOUS
<1>5. Valid(k) /\ FieldsOf(k) = FieldsOf(d) /\ k.order = d.order
      /\ DOMAIN k.labels = DOMAIN c.labels
  <2>1. CASE m \in d.materials
    <3>1. m[1] \in FieldsOf(c) /\ <<m[1], m[2]>> \in c.materials /\ c \in Documents
      <4>1. d.materials \subseteq FieldIds \X Names
        BY ValidHas, PartsOf
      <4>2. m = <<m[1], m[2]>>
        BY <2>1, <4>1
      <4>3. m[1] \in FieldsOf(d)
        BY <2>1, ValidHas
      <4> QED BY <2>1, <4>2, <4>3, <1>2, ValidHas
    <3>2. k = Marked(c, Len(c.labels), m[1], m[2])
      BY <1>4, <2>1
    <3>3. Valid(k) /\ FieldsOf(k) = FieldsOf(c)
      BY <1>2, <1>3, <3>1, <3>2, MarkedIsValid
    <3>4. k.order = c.order /\ DOMAIN k.labels = DOMAIN c.labels
      <4>1. PICK f : f = m[1]
        OBVIOUS
      <4>2. PICK n : n = m[2]
        OBVIOUS
      <4>3. PICK ls : ls = [c.labels EXCEPT ![Len(c.labels)].marker = With(@, f, n)]
        OBVIOUS
      <4>4. PICK ns : ns = IF n = "none" THEN c.none \cup {f} ELSE c.none
        OBVIOUS
      <4>5. k = [c EXCEPT !.labels = ls, !.none = ns]
        BY <3>2, <4>1, <4>2, <4>3, <4>4 DEF Marked
      <4>6. DOMAIN ls = DOMAIN c.labels
        BY <4>3
      <4> QED BY <3>1, <4>5, <4>6 DEF Documents
    <3> QED BY <1>2, <3>3, <3>4
  <2>2. CASE m \notin d.materials
    BY <1>2, <1>4, <2>2
  <2> QED BY <2>1, <2>2
<1>6. PICK os : os = [f \in FieldsOf(d) |->
                           IF f \in ordered THEN With(k.order[f], a, o) ELSE k.order[f]]
  OBVIOUS
<1>7. OrdersAre(k, os)
  <2>1. os = [f \in FieldsOf(k) |->
                           IF f \in ordered THEN With(k.order[f], a, o) ELSE k.order[f]]
    BY <1>5, <1>6
  <2> QED BY <1>5, <2>1, SomeOrdered
<1>8. LabelWith(d, a, p, m, ordered, o) = [k EXCEPT !.order = os]
  BY <1>1, <1>4, <1>6 DEF LabelWith
<1>9. [k EXCEPT !.order = os].labels = k.labels
  <2>1. k \in Documents
    BY <1>5, ValidHas
  <2> QED BY <2>1 DEF Documents
<1> QED BY <1>2, <1>5, <1>7, <1>8, <1>9, OrderedIsValid

\* A label is put back, with the markers that are still there.
LEMMA PutIsValid ==
    ASSUME NEW d, Valid(d), NEW a \in Places, a \notin AddressesOf(d), NEW c, c.point \in Points
    PROVE  Valid(Put(d, a, c))
<1>1. PICK k : k = LabelCreated(d, a, c.point)
  OBVIOUS
<1>2. /\ Valid(k) /\ FieldsOf(k) = FieldsOf(d) /\ k.materials = d.materials
      /\ k.none = FieldsOf(d)
      /\ Len(k.labels) = Len(d.labels) + 1 /\ Len(d.labels) \in Nat
      /\ DOMAIN k.labels = 1 .. Len(d.labels) + 1
  BY <1>1, CreatedIsValid
<1> DEFINE i == Len(d.labels) + 1
           named(f) == IF f \in DOMAIN c.marker /\ <<f, c.marker[f]>> \in d.materials
                       THEN c.marker[f] ELSE "none"
<1>3. PICK m : m = [f \in FieldsOf(d) |-> named(f)]
  OBVIOUS
<1>4. PICK l : l = [k.labels[i] EXCEPT !.marker = m]
  OBVIOUS
<1>5. Put(d, a, c) = [k EXCEPT !.labels[i] = l]
  <2> HIDE DEF i
  <2>1. Put(d, a, c) = [k EXCEPT !.labels[i].marker = m]
    BY <1>1, <1>3 DEF Put, i
  <2> QED BY <2>1, <1>4
<1>6. IsMap(m) /\ DOMAIN m = FieldsOf(d) /\ \A f \in FieldsOf(d) : m[f] = named(f)
  BY <1>3 DEF IsMap
<1>7. \A f \in FieldsOf(d) : named(f) = "none" \/ <<f, named(f)>> \in d.materials
  OBVIOUS
<1>8. FieldsOf(d) \subseteq FieldIds /\ d.materials \subseteq FieldIds \X Names
  BY ValidHas, PartsOf
<1> HIDE DEF named
<1>9. \A f \in FieldsOf(d) : m[f] \in Names \cup {"none"}
  BY <1>6, <1>7, <1>8
<1>10. m \in Markings
  BY <1>6, <1>8, <1>9, MapsDef DEF Markings
<1>11. i \in DOMAIN k.labels /\ k.labels[i] \in Labels
  BY <1>2, ValidHas, PartsOf
<1> HIDE DEF i
<1>12. l \in Labels /\ l.at = k.labels[i].at /\ l.marker = m
  BY <1>4, <1>10, <1>11 DEF Labels
<1>13. MarkersOK(l, k)
  BY <1>2, <1>6, <1>7, <1>12 DEF MarkersOK
<1>14. PICK e : e = [k EXCEPT !.labels[i] = l]
  OBVIOUS
<1>15. Valid(e)
  BY <1>2, <1>11, <1>12, <1>13, <1>14, ReplacedIsValid
<1> QED BY <1>5, <1>14, <1>15

\* A label is put back wherever memory is allocated.
LEMMA PutSomewhereIsValid ==
    ASSUME NEW d, Valid(d), AddressesOf(d) = AddressesOf(problem), NEW c, c.point \in Points,
           NEW e \in PutSomewhere(d, c)
    PROVE  Valid(e)
<1>1. CASE c.point \in PointsOf(d)
  BY <1>1 DEF PutSomewhere
<1>2. CASE c.point \notin PointsOf(d)
  <2>1. PICK a \in Free : e = Put(d, a, c)
    BY <1>2 DEF PutSomewhere
  <2>2. a \in Places /\ a \notin AddressesOf(d)
    BY <2>1 DEF Free, Places
  <2> QED BY <2>1, <2>2, PutIsValid
<1> QED BY <1>1, <1>2

-----------------------------------------------------------------------------
(* removeLabels, couplings, materials, recipes and analyses.               *)

\* removeLabels of all labels.
LEMMA RemoveLabelsIsValid ==
    ASSUME Valid(problem), RemoveLabels
    PROVE  Valid(problem')
<1> DEFINE removed(d, i) == IF i \in DOMAIN d.labels THEN LabelRemoved(d, i) ELSE d
           N == Len(problem.labels)
           S == {d \in Documents : Valid(d)}
           step == [i \in 1 .. N |-> [x \in S |-> removed(x, i)]]
           Rec(g) == g = [k \in 0 .. N |-> IF k = 0 THEN problem ELSE removed(g[k - 1], k)]
           f == CHOOSE g : Rec(g)
<1>1. N \in Nat /\ problem \in S
  BY ValidHas, PartsOf
<1>2. \A x \in S : \A i : removed(x, i) \in S
  BY LabelRemovedIsValid, ValidHas
<1>3. StaysIn(S, N, step)
  BY <1>2 DEF StaysIn
<1>4. PICK g : Follows(g, S, N, problem, step)
  <2> HIDE DEF S, step
  <2> QED BY <1>1, <1>3, RecursionExists
<1>5. Rec(g)
  <2> DEFINE h == [k \in 0 .. N |-> IF k = 0 THEN problem ELSE removed(g[k - 1], k)]
  <2>1. ASSUME NEW k \in 0 .. N PROVE g[k] = h[k]
    <3>1. CASE k = 0
      BY <1>4, <3>1 DEF Follows
    <3>2. CASE k # 0
      <4>1. k \in 1 .. N /\ k - 1 \in 0 .. N
        BY <1>1, <3>2
      <4>2. g[k - 1] \in S /\ g[k] = step[k][g[k - 1]]
        BY <1>4, <4>1 DEF Follows
      <4>3. step[k][g[k - 1]] = removed(g[k - 1], k)
        <5> HIDE DEF S, removed
        <5> QED BY <4>1, <4>2
      <4> HIDE DEF removed, step
      <4> QED BY <3>2, <4>2, <4>3
    <3> QED BY <3>1, <3>2
  <2>2. DOMAIN g = 0 .. N /\ g = [k \in 0 .. N |-> g[k]]
    BY <1>4 DEF Follows
  <2>3. DOMAIN h = 0 .. N /\ h = [k \in 0 .. N |-> h[k]]
    OBVIOUS
  <2>4. g = h
    <3> HIDE DEF h
    <3> QED BY <2>1, <2>2, <2>3
  <2> QED BY <2>4
<1>6. Rec(f)
  <2> HIDE DEF Rec
  <2> QED BY <1>5
<1>7. \A k \in 0 .. N : f[k] = IF k = 0 THEN problem ELSE removed(f[k - 1], k)
  <2> HIDE DEF f
  <2> QED BY <1>6
<1>8. problem' = f[N]
  BY Zenon DEF RemoveLabels, Edited, f, Rec, N, removed
<1> HIDE DEF f, removed, S
<1>9. \A k \in 0 .. N : f[k] \in S
  <2> DEFINE T == {k \in 0 .. N : f[k] \in S}
  <2>1. 0 \in T
    BY <1>1, <1>7
  <2>2. ASSUME NEW k \in 0 .. N - 1, k \in T PROVE k + 1 \in T
    <3>1. k + 1 \in 0 .. N /\ k + 1 # 0 /\ (k + 1) - 1 = k
      BY <1>1
    <3> HIDE DEF N
    <3> QED BY <1>2, <1>7, <2>2, <3>1
  <2>3. \A k \in 0 .. N : k \in T
    <3> HIDE DEF T, N
    <3> QED BY <1>1, <2>1, <2>2, SetInduction
  <2> QED BY <2>3
<1>10. problem' \in S
  <2> HIDE DEF N
  <2> QED BY <1>1, <1>8, <1>9
<1> QED BY <1>10 DEF S

\* removeLabels leaves all but the document and the count of edits alone.
LEMMA RemoveLabelsIsEdited ==
    ASSUME RemoveLabels
    PROVE  /\ UNCHANGED <<computation, file, failed, scripted, stack>>
           /\ edits < MaxEdits /\ edits' = edits + 1
BY DEF RemoveLabels, Edited

\* A valid document with other couplings is valid.
LEMMA CoupledIsValid ==
    ASSUME NEW d, Valid(d), NEW m \in Maps(Couples, CouplingTypes)
    PROVE  /\ Valid([d EXCEPT !.couplings = m])
           /\ [d EXCEPT !.couplings = m].couplings = m
           /\ FieldsOf([d EXCEPT !.couplings = m]) = FieldsOf(d)
<1>1. PICK e : e = [d EXCEPT !.couplings = m]
  OBVIOUS
<1>2. d \in Documents
  BY ValidHas
<1>3. /\ e \in Documents /\ e.fields = d.fields /\ e.labels = d.labels /\ e.order = d.order
      /\ e.materials = d.materials /\ e.recipes = d.recipes /\ e.none = d.none /\ e.couplings = m
  BY <1>1, <1>2 DEF Documents
<1>4. /\ d.none \subseteq FieldsOf(d) /\ DOMAIN d.order = FieldsOf(d)
      /\ \A n \in d.materials : n[1] \in FieldsOf(d)
      /\ \A r \in d.recipes : r.field \in FieldsOf(d)
  BY ValidHas
<1>5. Valid(e)
  BY <1>3, <1>4, GrownIsValid
<1> QED BY <1>1, <1>3, <1>5 DEF FieldsOf

\* What the dialog of the problem does.
LEMMA SynchronizedIsValid ==
    ASSUME NEW d, Valid(d)
    PROVE  Valid(Synchronized(d)) /\ FieldsOf(Synchronized(d)) = FieldsOf(d)
<1>1. PICK e : e = Synchronized(d)
  OBVIOUS
<1>2. d \in Documents
  BY ValidHas
<1>3. e \in Documents /\ e = [d EXCEPT !.couplings = e.couplings]
  BY <1>1, <1>2, SynchronizedIs
<1>4. e.couplings \in Maps(Couples, CouplingTypes)
  BY <1>3, PartsOf
<1> QED BY <1>1, <1>3, <1>4, CoupledIsValid

\* A valid document with one more material of one of its fields is valid.
LEMMA MaterialAddedIsValid ==
    ASSUME NEW d, Valid(d), NEW f \in FieldsOf(d), NEW n \in Names
    PROVE  Valid([d EXCEPT !.materials = d.materials \cup {<<f, n>>}])
<1>0. PICK ms : ms = d.materials \cup {<<f, n>>}
  OBVIOUS
<1>1. PICK e : e = [d EXCEPT !.materials = ms]
  OBVIOUS
<1>2. d \in Documents /\ FieldsOf(d) \subseteq FieldIds /\ d.materials \subseteq FieldIds \X Names
  BY ValidHas, PartsOf
<1>3. ms \subseteq FieldIds \X Names
  BY <1>0, <1>2
<1>4. /\ e \in Documents /\ e.fields = d.fields /\ e.labels = d.labels /\ e.order = d.order
      /\ e.materials = ms /\ e.recipes = d.recipes /\ e.none = d.none
  BY <1>1, <1>2, <1>3 DEF Documents
<1>5. /\ d.none \subseteq FieldsOf(d) /\ DOMAIN d.order = FieldsOf(d)
      /\ \A m \in ms : m[1] \in FieldsOf(d)
      /\ \A r \in d.recipes : r.field \in FieldsOf(d)
  BY <1>0, ValidHas
<1>6. Valid(e)
  BY <1>0, <1>4, <1>5, GrownIsValid
<1> QED BY <1>0, <1>1, <1>6

\* A valid document with other recipes of its fields is valid.
LEMMA RecipeAddedIsValid ==
    ASSUME NEW d, Valid(d), NEW rs \in SUBSET [field : FieldsOf(d), labels : SUBSET Nat]
    PROVE  Valid([d EXCEPT !.recipes = rs]) /\ [d EXCEPT !.recipes = rs].couplings = d.couplings
           /\ FieldsOf([d EXCEPT !.recipes = rs]) = FieldsOf(d)
<1>1. PICK e : e = [d EXCEPT !.recipes = rs]
  OBVIOUS
<1>2. d \in Documents /\ FieldsOf(d) \subseteq FieldIds
  BY ValidHas, PartsOf
<1>3. rs \subseteq [field : FieldIds, labels : SUBSET Nat] /\ \A r \in rs : r.field \in FieldsOf(d)
  BY <1>2
<1>4. /\ e \in Documents /\ e.fields = d.fields /\ e.labels = d.labels /\ e.order = d.order
      /\ e.materials = d.materials /\ e.recipes = rs /\ e.none = d.none
      /\ e.couplings = d.couplings
  BY <1>1, <1>2, <1>3 DEF Documents
<1>5. /\ d.none \subseteq FieldsOf(d) /\ DOMAIN d.order = FieldsOf(d)
      /\ \A m \in d.materials : m[1] \in FieldsOf(d)
  BY ValidHas
<1>6. Valid(e)
  BY <1>3, <1>4, <1>5, GrownIsValid
<1> QED BY <1>1, <1>4, <1>6 DEF FieldsOf

\* Another analysis of a field.
LEMMA AnalysedIsValid ==
    ASSUME NEW d, Valid(d), NEW f \in FieldsOf(d), NEW a \in AnalysesOf[f]
    PROVE  Valid([d EXCEPT !.fields[f] = a])
<1>0. d \in Documents /\ FieldsOf(d) \subseteq FieldIds /\ d.fields \in Maps(FieldIds, Analyses)
  BY ValidHas, PartsOf
<1>1. PICK fs : fs = [d.fields EXCEPT ![f] = a]
  OBVIOUS
<1>2. IsMap(d.fields) /\ \A g \in DOMAIN d.fields : d.fields[g] \in Analyses
  BY <1>0, MapsDef
<1>3. /\ IsMap(fs) /\ DOMAIN fs = FieldsOf(d)
      /\ \A g \in FieldsOf(d) : fs[g] = IF g = f THEN a ELSE d.fields[g]
  BY <1>1, <1>2 DEF IsMap, FieldsOf
<1>4. fs \in Maps(FieldIds, Analyses)
  <2>1. a \in Analyses
    BY <1>0 DEF Analyses
  <2>2. \A g \in FieldsOf(d) : fs[g] \in Analyses
    BY <1>2, <1>3, <2>1 DEF FieldsOf
  <2> QED BY <1>0, <1>3, <2>2, MapsDef
<1>5. PICK e : e = [d EXCEPT !.fields = fs]
  OBVIOUS
<1>6. /\ e \in Documents /\ e.fields = fs /\ e.labels = d.labels /\ e.order = d.order
      /\ e.materials = d.materials /\ e.recipes = d.recipes /\ e.none = d.none
  BY <1>0, <1>4, <1>5 DEF Documents
<1>7. FieldsOf(e) = FieldsOf(d)
  BY <1>3, <1>6 DEF FieldsOf
<1>8. /\ \A g \in FieldsOf(d) : d.fields[g] \in AnalysesOf[g]
      /\ DOMAIN d.order = FieldsOf(d)
      /\ \A i, j \in DOMAIN d.labels : d.labels[i].at = d.labels[j].at => i = j
      /\ d.none \subseteq FieldsOf(d)
      /\ \A m \in d.materials : m[1] \in FieldsOf(d)
      /\ \A r \in d.recipes : r.field \in FieldsOf(d)
      /\ \A i \in DOMAIN d.labels : MarkersOK(d.labels[i], d)
  BY ValidHas
<1>9. \A i \in DOMAIN e.labels : MarkersOK(e.labels[i], e)
  BY <1>6, <1>7, <1>8 DEF MarkersOK
<1>10. \A g \in FieldsOf(e) : e.fields[g] \in AnalysesOf[g]
  BY <1>3, <1>6, <1>7, <1>8
<1>11. Valid(e)
  BY <1>6, <1>7, <1>8, <1>9, <1>10, ValidHas
<1> QED BY <1>1, <1>5, <1>11

-----------------------------------------------------------------------------
(* Reading a file: the labels, then one field after the other.             *)

\* The labels that addLabel makes, each at the place of its position, without markers.
Rows == {ls \in Seq(Labels) : \A i \in DOMAIN ls : ls[i].at = i /\ ls[i].marker = <<>>}

\* No two positions have one point.
Distinct(points) == \A i, j \in DOMAIN points : points[i] = points[j] => i = j

\* Scene::addLabel: a label at p, unless there is one.
RowWith(ls, p) ==
    IF \E i \in DOMAIN ls : ls[i].point = p THEN ls
    ELSE Append(ls, [at |-> Len(ls) + 1, point |-> p, marker |-> <<>>])

\* The reader puts one label after the others, or drops it.
LEMMA RowAdded ==
    ASSUME NEW ls \in Rows, NEW p \in Points, NEW new, new = RowWith(ls, p)
    PROVE  /\ new \in Rows /\ Len(ls) \in Nat /\ DOMAIN ls = 1 .. Len(ls)
           /\ (\A i \in DOMAIN ls : ls[i].point # p) =>
                 /\ Len(new) = Len(ls) + 1 /\ new[Len(ls) + 1].point = p
                 /\ \A i \in DOMAIN ls : new[i] = ls[i]
<1>0. ls \in Seq(Labels) /\ \A i \in DOMAIN ls : ls[i].at = i /\ ls[i].marker = <<>>
  BY DEF Rows
<1>1. Len(ls) \in Nat /\ DOMAIN ls = 1 .. Len(ls)
  <2> HIDE DEF Labels
  <2> QED BY <1>0
<1>2. CASE \E i \in DOMAIN ls : ls[i].point = p
  BY <1>1, <1>2 DEF RowWith
<1>3. CASE ~ \E i \in DOMAIN ls : ls[i].point = p
  <2>1. PICK l : l = [at |-> Len(ls) + 1, point |-> p, marker |-> <<>>]
    OBVIOUS
  <2>2. l \in Labels /\ l.at = Len(ls) + 1 /\ l.marker = <<>> /\ l.point = p
    <3>1. <<>> \in Markings
      BY EmptyMap DEF Markings
    <3>2. Len(ls) + 1 \in Places
      BY <1>1 DEF Places
    <3> QED BY <2>1, <3>1, <3>2 DEF Labels
  <2>3. new = Append(ls, l)
    BY <1>3, <2>1 DEF RowWith
  <2>4. /\ new \in Seq(Labels) /\ Len(new) = Len(ls) + 1 /\ new[Len(ls) + 1] = l
        /\ \A i \in 1 .. Len(ls) : new[i] = ls[i]
    <3> HIDE DEF Labels
    <3> QED BY <1>0, <2>2, <2>3, AppendProperties
  <2>5. DOMAIN new = 1 .. Len(ls) + 1
    <3> HIDE DEF Labels
    <3> QED BY <2>4
  <2>6. ASSUME NEW i \in DOMAIN new PROVE new[i].at = i /\ new[i].marker = <<>>
    <3>1. CASE i = Len(ls) + 1
      BY <2>2, <2>4, <3>1
    <3>2. CASE i # Len(ls) + 1
      BY <1>0, <1>1, <2>4, <2>5, <3>2
    <3> QED BY <3>1, <3>2
  <2>7. new \in Rows
    BY <2>4, <2>6 DEF Rows
  <2> QED BY <1>1, <2>2, <2>4, <2>7
<1> QED BY <1>2, <1>3

\* The reader puts a label at a point that has none.
LEMMA RowGrows ==
    ASSUME NEW ls \in Rows, NEW p \in Points, \A i \in DOMAIN ls : ls[i].point # p,
           NEW new, new = RowWith(ls, p)
    PROVE  /\ Len(new) = Len(ls) + 1 /\ new[Len(ls) + 1].point = p
           /\ \A i \in DOMAIN ls : new[i] = ls[i]
BY RowAdded

\* An interval from 1 tells its end.
LEMMA SameInterval ==
    ASSUME NEW a \in Nat, NEW b \in Nat, 1 .. a = 1 .. b
    PROVE  a = b
<1>1. CASE a < b
  <2>1. b \in 1 .. b /\ b \notin 1 .. a
    BY <1>1
  <2> QED BY <2>1
<1>2. CASE b < a
  <2>1. a \in 1 .. a /\ a \notin 1 .. b
    BY <1>2
  <2> QED BY <2>1
<1> QED BY <1>1, <1>2

\* LabelsAt puts one label after the other.
LEMMA LabelsAtFollow ==
    ASSUME NEW points \in Seq(Points)
    PROVE  \E f : /\ \A k \in 0 .. Len(points) :
                        f[k] = IF k = 0 THEN <<>> ELSE RowWith(f[k - 1], points[k])
                  /\ LabelsAt(points) = f[Len(points)]
<1> DEFINE N == Len(points)
           step == [i \in 1 .. N |-> [x \in Rows |-> RowWith(x, points[i])]]
           Rec(g) == g = [k \in 0 .. N |-> IF k = 0 THEN <<>> ELSE RowWith(g[k - 1], points[k])]
           f == CHOOSE g : Rec(g)
<1>1. N \in Nat /\ DOMAIN points = 1 .. N /\ \A i \in 1 .. N : points[i] \in Points
  OBVIOUS
<1>2. <<>> \in Rows
  <2>1. <<>> \in Seq(Labels)
    OBVIOUS
  <2> QED BY <2>1, EmptyMap DEF Rows
<1>3. \A x \in Rows : \A p \in Points : RowWith(x, p) \in Rows
  BY RowAdded
<1>4. StaysIn(Rows, N, step)
  BY <1>1, <1>3 DEF StaysIn
<1>5. PICK g : Follows(g, Rows, N, <<>>, step)
  <2> HIDE DEF Rows, step
  <2> QED BY <1>1, <1>2, <1>4, RecursionExists
<1>6. Rec(g)
  <2> DEFINE h == [k \in 0 .. N |-> IF k = 0 THEN <<>> ELSE RowWith(g[k - 1], points[k])]
  <2>1. ASSUME NEW k \in 0 .. N PROVE g[k] = h[k]
    <3>1. CASE k = 0
      BY <1>5, <3>1 DEF Follows
    <3>2. CASE k # 0
      <4>1. k \in 1 .. N /\ k - 1 \in 0 .. N
        BY <1>1, <3>2
      <4>2. g[k - 1] \in Rows /\ g[k] = step[k][g[k - 1]]
        BY <1>5, <4>1 DEF Follows
      <4>3. step[k][g[k - 1]] = RowWith(g[k - 1], points[k])
        <5> HIDE DEF Rows
        <5> QED BY <4>1, <4>2
      <4> HIDE DEF step
      <4> QED BY <3>2, <4>2, <4>3
    <3> QED BY <3>1, <3>2
  <2>2. DOMAIN g = 0 .. N /\ g = [k \in 0 .. N |-> g[k]]
    BY <1>5 DEF Follows
  <2>3. DOMAIN h = 0 .. N /\ h = [k \in 0 .. N |-> h[k]]
    OBVIOUS
  <2>4. g = h
    <3> HIDE DEF h
    <3> QED BY <2>1, <2>2, <2>3
  <2> QED BY <2>4
<1>7. Rec(f)
  <2> HIDE DEF Rec
  <2> QED BY <1>6
<1>8. \A k \in 0 .. N : f[k] = IF k = 0 THEN <<>> ELSE RowWith(f[k - 1], points[k])
  <2> HIDE DEF f
  <2> QED BY <1>7
<1>9. LabelsAt(points) = f[N]
  BY Zenon DEF LabelsAt, f, Rec, N, RowWith
<1> QED BY <1>8, <1>9

\* The labels after k positions.
RowsOf(points, k) ==
    {ls \in Rows : Distinct(points) => /\ DOMAIN ls = 1 .. k
                                       /\ \A i \in 1 .. k : ls[i].point = points[i]}

\* As long as no point was read twice, every point that is read becomes the next label.
LEMMA RowsGrow ==
    ASSUME NEW points \in Seq(Points), NEW k \in 0 .. Len(points) - 1, NEW ls \in RowsOf(points, k)
    PROVE  RowWith(ls, points[k + 1]) \in RowsOf(points, k + 1)
<1>1. PICK p : p = points[k + 1]
  OBVIOUS
<1>2. PICK new : new = RowWith(ls, p)
  OBVIOUS
<1>3. ls \in Rows /\ p \in Points /\ k + 1 \in DOMAIN points /\ k \in Nat
  BY <1>1 DEF RowsOf
<1>4. new \in Rows /\ Len(ls) \in Nat /\ DOMAIN ls = 1 .. Len(ls)
  BY <1>2, <1>3, RowAdded
<1>5. ASSUME Distinct(points)
      PROVE  DOMAIN new = 1 .. k + 1 /\ \A i \in 1 .. k + 1 : new[i].point = points[i]
  <2>1. DOMAIN ls = 1 .. k /\ \A i \in 1 .. k : ls[i].point = points[i]
    BY <1>5 DEF RowsOf
  <2>2. \A i \in 1 .. k : i \in DOMAIN points /\ i # k + 1
    OBVIOUS
  <2>3. \A i \in DOMAIN ls : ls[i].point # p
    BY <1>1, <1>3, <1>5, <2>1, <2>2 DEF Distinct
  <2>4. /\ Len(new) = Len(ls) + 1 /\ new[Len(ls) + 1].point = p
        /\ \A i \in DOMAIN ls : new[i] = ls[i]
    BY <1>2, <1>3, <2>3, RowGrows
  <2>5. Len(ls) = k
    BY <1>3, <1>4, <2>1, SameInterval
  <2>6. DOMAIN new = 1 .. Len(new)
    <3> HIDE DEF Labels
    <3> QED BY <1>4 DEF Rows
  <2>7. \A i \in 1 .. k + 1 : i \in 1 .. k \/ i = k + 1
    BY <1>3
  <2> QED BY <1>1, <2>1, <2>4, <2>5, <2>6, <2>7
<1> QED BY <1>1, <1>2, <1>4, <1>5 DEF RowsOf

\* What the reader makes of the points of a file; all of them become labels when they differ.
LEMMA LabelsAtAre ==
    ASSUME NEW points \in Seq(Points)
    PROVE  /\ LabelsAt(points) \in Rows
           /\ Distinct(points) =>
                /\ DOMAIN LabelsAt(points) = DOMAIN points
                /\ \A i \in DOMAIN points : LabelsAt(points)[i].point = points[i]
<1> DEFINE N == Len(points)
<1>1. N \in Nat /\ DOMAIN points = 1 .. N
  OBVIOUS
<1>2. <<>> \in RowsOf(points, 0)
  <2>1. <<>> \in Seq(Labels)
    OBVIOUS
  <2>2. 1 .. 0 = {}
    OBVIOUS
  <2> QED BY <2>1, <2>2, EmptyMap DEF RowsOf, Rows
<1>3. PICK f : /\ \A k \in 0 .. N : f[k] = IF k = 0 THEN <<>> ELSE RowWith(f[k - 1], points[k])
               /\ LabelsAt(points) = f[N]
  BY LabelsAtFollow
<1> DEFINE T == {k \in 0 .. N : f[k] \in RowsOf(points, k)}
<1>4. 0 \in T
  <2>1. 0 \in 0 .. N
    BY <1>1
  <2> HIDE DEF N
  <2> QED BY <1>2, <1>3, <2>1
<1>5. ASSUME NEW k \in 0 .. N - 1, k \in T PROVE k + 1 \in T
  <2>1. k + 1 \in 0 .. N /\ k + 1 # 0 /\ (k + 1) - 1 = k
    BY <1>1
  <2>2. f[k] \in RowsOf(points, k)
    BY <1>5
  <2>3. RowWith(f[k], points[k + 1]) \in RowsOf(points, k + 1)
    BY <2>2, RowsGrow
  <2>4. f[k + 1] = RowWith(f[k], points[k + 1])
    BY <1>3, <2>1
  <2> HIDE DEF N
  <2> QED BY <2>1, <2>3, <2>4
<1>6. N \in T
  <2>1. N \in 0 .. N
    BY <1>1
  <2> HIDE DEF T, N
  <2>2. \A k \in 0 .. N : k \in T
    BY <1>1, <1>4, <1>5, SetInduction
  <2> QED BY <2>1, <2>2
<1> QED BY <1>1, <1>3, <1>6 DEF RowsOf

\* The fields of a file follow each other, each once.
LEMMA FieldListIs ==
    ASSUME NEW l, DOMAIN l.analysis \subseteq FieldIds
    PROVE  LET n == Cardinality(DOMAIN l.analysis)
           IN  /\ n \in Nat
               /\ \A k \in 1 .. n : FieldList(l)[k] \in DOMAIN l.analysis
               /\ \A j, k \in 1 .. n : FieldList(l)[j] = FieldList(l)[k] => j = k
               /\ \A f \in DOMAIN l.analysis : \E k \in 1 .. n : f = FieldList(l)[k]
<1> DEFINE S == DOMAIN l.analysis
           n == Cardinality(S)
           list == FieldList(l)
<1>1. IsFiniteSet(S)
  BY FieldsAssumption, FS_Subset
<1>2. n \in Nat /\ ExistsBijection(1 .. n, S)
  BY <1>1, FS_CardinalityType
<1>3. \E b \in [1 .. n -> S] : IsInjective(b)
  BY <1>2 DEF ExistsBijection, Bijection, Injection
<1>4. list \in [1 .. n -> S] /\ IsInjective(list)
  BY <1>3 DEF FieldList
<1>5. list \in Injection(1 .. n, S)
  BY <1>4 DEF Injection
<1>6. Cardinality(1 .. n) = n
  <2>1. 1 \in Int /\ n \in Int
    BY <1>2
  <2>2. Cardinality(1 .. n) = IF 1 > n THEN 0 ELSE n - 1 + 1
    BY <2>1, FS_Interval
  <2> HIDE DEF n
  <2> QED BY <1>2, <2>2
<1>7. list \in Surjection(1 .. n, S)
  <2> HIDE DEF list
  <2> QED BY <1>1, <1>5, <1>6, FS_Injection
<1>8. \A f \in S : \E k \in 1 .. n : f = list[k]
  BY <1>7 DEF Surjection
<1> QED BY <1>2, <1>4, <1>8 DEF IsInjective

\* A file of the modules whose orders are for labels that its points become.
Readable(l) == FileOK(l) /\ OrderPositions(l) \subseteq DOMAIN LabelsAt(l.points)

\* The material that the file l marks position i with in field f.
NameAt(l, f, i) ==
    IF \E m \in l.materials[f] : i \in m.labels
    THEN (CHOOSE m \in l.materials[f] : i \in m.labels).name ELSE "none"

\* The orders of the file l in field f.
PairsOf(l, f) == {<<o[1], o[2]>> : o \in l.order[f]}

\* The map that a set of pairs is.
MapOf(pairs) == [a \in {o[1] : o \in pairs} |-> (CHOOSE o \in pairs : o[1] = a)[2]]

\* The orders of the file l in field f, by position.
OrdersOf(l, f) == MapOf(PairsOf(l, f))

\* The couplings that have a weak form.
Exact(d) == DOMAIN d.couplings = {p \in Couples : p[1] # p[2] /\ CouplingIsAvailable(d, p)}

\* The labels that the points of l become, marked in the fields K.
LabelsRead(d, l, K) ==
    /\ DOMAIN d.labels = DOMAIN LabelsAt(l.points)
    /\ \A i \in DOMAIN d.labels :
         /\ d.labels[i].at = i /\ d.labels[i].point = LabelsAt(l.points)[i].point
         /\ DOMAIN d.labels[i].marker = K
         /\ \A f \in K : d.labels[i].marker[f] = NameAt(l, f, i)

\* The fields K of l as they have been read.
Fielded(d, l, K) ==
    /\ FieldsOf(d) = K
    /\ \A f \in K : d.fields[f] = l.analysis[f] /\ d.order[f] = OrdersOf(l, f)
    /\ d.recipes = {}
    /\ \A f \in FieldIds, n \in Names :
         <<f, n>> \in d.materials <=> f \in K /\ \E m \in l.materials[f] : m.name = n

\* What the reader has made of the file l when it has read the fields K.
ReadUpTo(l, K) == {d \in Documents : Valid(d) /\ Exact(d) /\ LabelsRead(d, l, K) /\ Fielded(d, l, K)}

\* The orders of a file are orders of labels that its points become.
LEMMA OrdersOfIs ==
    ASSUME NEW l, Readable(l), NEW f \in DOMAIN l.analysis
    PROVE  /\ OrdersOf(l, f) \in Maps(Places, LocalOrders)
           /\ DOMAIN OrdersOf(l, f) = {o[1] : o \in PairsOf(l, f)}
           /\ \A o \in l.order[f] : o[1] \in DOMAIN LabelsAt(l.points) /\ o[2] \in LocalOrders
<1>1. f \in DOMAIN l.order /\ l.points \in Seq(Points) /\ \A o \in l.order[f] : o[2] \in LocalOrders
  BY DEF Readable, FileOK
<1>2. \A o \in l.order[f] : o[1] \in OrderPositions(l)
  <2> DEFINE W == {l.order[g] : g \in DOMAIN l.order}
  <2>1. l.order[f] \in W
    BY <1>1
  <2>2. \A o \in l.order[f] : o \in UNION W
    BY <2>1
  <2> QED BY <2>2 DEF OrderPositions
<1>3. \A o \in l.order[f] : o[1] \in DOMAIN LabelsAt(l.points)
  BY <1>2 DEF Readable
<1>4. DOMAIN LabelsAt(l.points) \subseteq Nat
  <2> HIDE DEF Labels
  <2>1. LabelsAt(l.points) \in Seq(Labels)
    BY <1>1, LabelsAtAre DEF Rows
  <2> QED BY <2>1
<1>5. \A o \in PairsOf(l, f) : o[1] \in Nat /\ o[2] \in LocalOrders
  BY <1>1, <1>3, <1>4 DEF PairsOf
<1> DEFINE A == {o[1] : o \in PairsOf(l, f)}
           v(a) == (CHOOSE o \in PairsOf(l, f) : o[1] = a)[2]
<1>6. A \subseteq Nat
  BY <1>5
<1>7. \A a \in A : v(a) \in LocalOrders
  BY <1>5
<1>8. PICK m : m = OrdersOf(l, f)
  OBVIOUS
<1>9. IsMap(m) /\ DOMAIN m = A /\ \A a \in A : m[a] = v(a)
  BY <1>8 DEF OrdersOf, MapOf, IsMap
<1> HIDE DEF A, v
<1>10. m \in Maps(Places, LocalOrders)
  BY <1>6, <1>7, <1>9, MapsDef DEF Places
<1> QED BY <1>1, <1>3, <1>8, <1>9, <1>10 DEF A

\* The material at a position is one of the field, or none.
LEMMA NameAtIs ==
    ASSUME NEW l, Readable(l), NEW f \in DOMAIN l.analysis, NEW i
    PROVE  NameAt(l, f, i) = "none" \/ (NameAt(l, f, i) \in Names
             /\ \E m \in l.materials[f] : m.name = NameAt(l, f, i))
<1>1. \A m \in l.materials[f] : m.name \in Names
  BY DEF Readable, FileOK
<1> QED BY <1>1 DEF NameAt

\* Reading starts with the labels.
LEMMA ReadStarts ==
    ASSUME NEW l, Readable(l)
    PROVE  [NewDocument EXCEPT !.labels = LabelsAt(l.points)] \in ReadUpTo(l, {})
<1>1. PICK ls : ls = LabelsAt(l.points)
  OBVIOUS
<1>2. ls \in Rows
  BY <1>1, LabelsAtAre DEF Readable, FileOK
<1>3. ls \in Seq(Labels) /\ \A i \in DOMAIN ls : ls[i].at = i /\ ls[i].marker = <<>>
  BY <1>2 DEF Rows
<1>4. PICK n : n = NewDocument
  OBVIOUS
<1>5. PICK d : d = [n EXCEPT !.labels = ls]
  OBVIOUS
<1>6. /\ n \in Documents /\ n.fields = <<>> /\ n.order = <<>> /\ n.materials = {} /\ n.recipes = {}
      /\ n.none = {} /\ n.couplings = <<>>
  BY <1>4, NewIsValid, ValidHas DEF NewDocument
<1>7. /\ d \in Documents /\ d.fields = <<>> /\ d.order = <<>> /\ d.materials = {} /\ d.recipes = {}
      /\ d.none = {} /\ d.labels = ls /\ d.couplings = <<>>
  BY <1>3, <1>5, <1>6 DEF Documents
<1>8. DOMAIN <<>> = {} /\ FieldsOf(d) = {}
  BY <1>7, EmptyMap DEF FieldsOf
<1>9. \A i \in DOMAIN d.labels : MarkersOK(d.labels[i], d)
  BY <1>3, <1>7, <1>8 DEF MarkersOK
<1>10. \A i, j \in DOMAIN d.labels : d.labels[i].at = d.labels[j].at => i = j
  BY <1>3, <1>7
<1>11. Valid(d)
  BY <1>7, <1>8, <1>9, <1>10, ValidHas
<1>12. Exact(d)
  <2> \A p : ~ CouplingIsAvailable(d, p)
    BY <1>8 DEF CouplingIsAvailable
  <2> QED BY <1>7, <1>8 DEF Exact
<1>13. LabelsRead(d, l, {})
  BY <1>1, <1>3, <1>7, <1>8 DEF LabelsRead
<1>14. Fielded(d, l, {})
  BY <1>7, <1>8 DEF Fielded
<1> QED BY <1>1, <1>4, <1>5, <1>7, <1>11, <1>12, <1>13, <1>14 DEF ReadUpTo

\* One more field is read.
LEMMA ReadGoesOn ==
    ASSUME NEW l, Readable(l), NEW K \in SUBSET FieldIds, NEW d \in ReadUpTo(l, K),
           NEW f \in DOMAIN l.analysis, f \notin K
    PROVE  FieldRead(d, l, f) \in ReadUpTo(l, K \cup {f})
<1> DEFINE ms == l.materials[f]
           name(i) == IF \E m \in ms : i \in m.labels
                      THEN (CHOOSE m \in ms : i \in m.labels).name ELSE "none"
           orders == OrdersRead(d, l, f)
           added == {<<f, m.name>> : m \in ms}
           ls == [i \in DOMAIN d.labels |->
                    [d.labels[i] EXCEPT !.marker = With(d.labels[i].marker, f, name(i))]]
           mats == d.materials \cup added
           ns == IF \E i \in DOMAIN d.labels : name(i) = "none" THEN d.none \cup {f} ELSE d.none
           om == MapOf(orders)
           F == With(d.fields, f, l.analysis[f])
           O == With(d.order, f, om)
           c == [d EXCEPT !.labels = ls, !.materials = mats, !.none = ns, !.fields = F, !.order = O]
<1>0. /\ d \in Documents /\ Valid(d) /\ Exact(d) /\ LabelsRead(d, l, K) /\ Fielded(d, l, K)
      /\ FieldsOf(d) = K /\ f \in FieldIds /\ l.analysis[f] \in AnalysesOf[f]
      /\ \A m \in ms : m.name \in Names
  BY DEF ReadUpTo, Fielded, Readable, FileOK
<1>1. FieldRead(d, l, f) = FieldsChanged(Synchronized(c))
  <2>1. FieldRead(d, l, f) =
          FieldAdded([d EXCEPT !.labels = ls, !.materials = mats, !.none = ns], f, l.analysis[f], om)
    BY Zenon DEF FieldRead, MapOf, ls, mats, ns, om, added, orders, name, ms
  <2>2. PICK b : b = [d EXCEPT !.labels = ls, !.materials = mats, !.none = ns]
    OBVIOUS
  <2> HIDE DEF ls, mats, ns, om
  <2>3. b.fields = d.fields /\ b.order = d.order
    BY <2>2, <1>0 DEF Documents
  <2>4. FieldAdded(b, f, l.analysis[f], om) =
          FieldsChanged(Synchronized([b EXCEPT !.fields = F, !.order = O]))
    BY <2>3 DEF FieldAdded
  <2>5. [b EXCEPT !.fields = F, !.order = O] = c
    BY <2>2
  <2> QED BY <2>1, <2>2, <2>4, <2>5
<1>2. om = OrdersOf(l, f)
  <2>1. orders = {<<d.labels[o[1]].at, o[2]>> : o \in l.order[f]}
    BY DEF OrdersRead
  <2>2. \A o \in l.order[f] : d.labels[o[1]].at = o[1]
    BY <1>0, OrdersOfIs DEF LabelsRead
  <2>3. orders = PairsOf(l, f)
    BY <2>1, <2>2 DEF PairsOf
  <2> HIDE DEF orders
  <2> QED BY <2>3 DEF OrdersOf
<1>3. \A i : name(i) = NameAt(l, f, i)
  BY DEF NameAt
<1>4. \A i : name(i) = "none" \/ (name(i) \in Names /\ <<f, name(i)>> \in added)
  <2>1. \A m \in ms : <<f, m.name>> \in added
    OBVIOUS
  <2> HIDE DEF added, name
  <2> QED BY <1>3, <2>1, NameAtIs DEF ms
<1>5. \A m \in added : m \in FieldIds \X Names /\ m[1] = f
  BY <1>0
<1>5a. \A n : <<f, n>> \in added <=> \E m \in ms : m.name = n
  OBVIOUS
<1>5b. \A g, n : <<g, n>> \in added => g = f
  OBVIOUS
<1> HIDE DEF name, added, ms
<1>6. /\ DOMAIN d.labels = 1 .. Len(d.labels) /\ Len(d.labels) \in Nat
      /\ \A i \in DOMAIN d.labels : d.labels[i] \in Labels
      /\ d.materials \subseteq FieldIds \X Names /\ d.none \subseteq FieldIds
      /\ d.fields \in Maps(FieldIds, Analyses)
      /\ d.order \in Maps(FieldIds, Maps(Places, LocalOrders))
  BY <1>0, PartsOf
<1>7. ASSUME NEW i \in DOMAIN d.labels
      PROVE  /\ ls[i] \in Labels /\ ls[i].at = d.labels[i].at /\ ls[i].point = d.labels[i].point
             /\ ls[i].marker = With(d.labels[i].marker, f, name(i))
  <2>1. d.labels[i].marker \in Maps(FieldIds, Names \cup {"none"})
    BY <1>6 DEF Labels, Markings
  <2>2. name(i) \in Names \cup {"none"}
    BY <1>4
  <2>3. PICK m : m = With(d.labels[i].marker, f, name(i))
    OBVIOUS
  <2>4. m \in Markings
    BY <1>0, <2>1, <2>2, <2>3, WithIsMap DEF Markings
  <2>5. ls[i] = [d.labels[i] EXCEPT !.marker = m]
    BY <2>3
  <2> HIDE DEF ls
  <2> QED BY <1>6, <2>3, <2>4, <2>5 DEF Labels
<1>8. ls \in Seq(Labels) /\ DOMAIN ls = DOMAIN d.labels
  <2>1. DOMAIN ls = DOMAIN d.labels /\ IsMap(ls)
    BY DEF IsMap
  <2> HIDE DEF ls
  <2> QED BY <1>6, <1>7, <2>1, Relabelled
<1>9. F \in Maps(FieldIds, Analyses) /\ O \in Maps(FieldIds, Maps(Places, LocalOrders))
  <2>1. l.analysis[f] \in Analyses
    BY <1>0 DEF Analyses
  <2>2. om \in Maps(Places, LocalOrders)
    <3> HIDE DEF om
    <3> QED BY <1>2, OrdersOfIs
  <2> HIDE DEF om
  <2> QED BY <1>0, <1>6, <2>1, <2>2, WithIsMap
<1>10. /\ DOMAIN F = K \cup {f} /\ DOMAIN O = K \cup {f}
       /\ \A g \in K \cup {f} : F[g] = l.analysis[g] /\ O[g] = OrdersOf(l, g)
  <2>1. DOMAIN d.fields = K /\ DOMAIN d.order = K
    BY <1>0, ValidHas DEF FieldsOf
  <2>2. /\ DOMAIN F = K \cup {f} /\ DOMAIN O = K \cup {f}
        /\ \A g \in K \cup {f} : F[g] = IF g = f THEN l.analysis[f] ELSE d.fields[g]
        /\ \A g \in K \cup {f} : O[g] = IF g = f THEN om ELSE d.order[g]
    <3> HIDE DEF om
    <3> QED BY <2>1 DEF With
  <2> HIDE DEF F, O, om
  <2> QED BY <1>0, <1>2, <2>2 DEF Fielded
<1>11. /\ mats \in SUBSET (FieldIds \X Names) /\ \A m \in mats : m[1] \in K \cup {f}
       /\ d.materials \subseteq mats /\ added \subseteq mats
  <2>1. \A m \in d.materials : m[1] \in K
    BY <1>0, ValidHas
  <2> QED BY <1>5, <1>6, <2>1
<1>12. /\ d.none \subseteq ns /\ ns \in SUBSET FieldIds
       /\ \A i \in DOMAIN d.labels : name(i) = "none" => f \in ns
  BY <1>0, <1>6
<1> HIDE DEF ls, mats, ns, om, F, O
<1>13. /\ c \in Documents /\ c.fields = F /\ c.order = O /\ c.labels = ls /\ c.none = ns
       /\ c.materials = mats /\ c.recipes = d.recipes /\ c.couplings = d.couplings
  BY <1>0, <1>8, <1>9, <1>11, <1>12 DEF Documents
<1>14. FieldsOf(c) = K \cup {f}
  BY <1>10, <1>13 DEF FieldsOf
<1>15. ASSUME NEW i \in DOMAIN ls
       PROVE  /\ DOMAIN ls[i].marker = K \cup {f}
              /\ \A g \in K \cup {f} : ls[i].marker[g] = NameAt(l, g, i)
              /\ \A g \in K \cup {f} : IF ls[i].marker[g] = "none" THEN g \in ns
                                       ELSE <<g, ls[i].marker[g]>> \in mats
  <2>1. /\ i \in DOMAIN d.labels /\ DOMAIN d.labels[i].marker = K
        /\ \A g \in K : d.labels[i].marker[g] = NameAt(l, g, i)
    BY <1>0, <1>8 DEF LabelsRead
  <2>2. \A g \in K : IF d.labels[i].marker[g] = "none" THEN g \in d.none
                     ELSE <<g, d.labels[i].marker[g]>> \in d.materials
    <3>1. MarkersOK(d.labels[i], d)
      BY <1>0, <2>1, ValidHas
    <3> QED BY <1>0, <3>1 DEF MarkersOK
  <2>3. ls[i].marker = With(d.labels[i].marker, f, name(i))
    BY <1>7, <2>1
  <2>4. /\ DOMAIN ls[i].marker = K \cup {f}
        /\ \A g \in K \cup {f} : ls[i].marker[g] = IF g = f THEN name(i) ELSE d.labels[i].marker[g]
    BY <2>1, <2>3 DEF With
  <2>5. \A g \in K \cup {f} : ls[i].marker[g] = NameAt(l, g, i)
    BY <1>3, <2>1, <2>4
  <2>6. ASSUME NEW g \in K \cup {f}
        PROVE  IF ls[i].marker[g] = "none" THEN g \in ns ELSE <<g, ls[i].marker[g]>> \in mats
    <3>1. CASE g = f
      BY <2>1, <2>4, <3>1, <1>4, <1>11, <1>12
    <3>2. CASE g # f
      BY <2>2, <2>4, <3>2, <1>11, <1>12
    <3> QED BY <3>1, <3>2
  <2> QED BY <2>4, <2>5, <2>6
<1>16. Sound(c)
  <2>1. \A g \in FieldsOf(c) : c.fields[g] \in AnalysesOf[g]
    <3>1. \A g \in K : l.analysis[g] \in AnalysesOf[g]
      BY <1>0, ValidHas DEF Fielded
    <3> QED BY <1>0, <1>10, <1>13, <1>14, <3>1
  <2>2. \A i, j \in DOMAIN c.labels : c.labels[i].at = c.labels[j].at => i = j
    BY <1>0, <1>7, <1>8, <1>13 DEF LabelsRead
  <2>3. \A r \in c.recipes : r.field \in FieldsOf(c)
    BY <1>0, <1>13 DEF Fielded
  <2>4. DOMAIN c.order = FieldsOf(c)
    BY <1>10, <1>13, <1>14
  <2>5. \A m \in c.materials : m[1] \in FieldsOf(c)
    BY <1>11, <1>13, <1>14
  <2>6. \A i \in DOMAIN c.labels :
          /\ DOMAIN c.labels[i].marker \subseteq FieldsOf(c)
          /\ \A g \in DOMAIN c.labels[i].marker :
                IF c.labels[i].marker[g] = "none" THEN g \in c.none
                ELSE <<g, c.labels[i].marker[g]>> \in c.materials
    BY <1>13, <1>14, <1>15
  <2> QED BY <1>13, <2>1, <2>2, <2>3, <2>4, <2>5, <2>6 DEF Sound
<1>17. PICK e : e = FieldsChanged(Synchronized(c))
  OBVIOUS
<1> HIDE DEF c
<1>18. /\ Valid(e) /\ e.fields = c.fields /\ e.materials = c.materials
       /\ e.order = c.order /\ e.recipes = c.recipes
       /\ DOMAIN e.labels = DOMAIN c.labels
       /\ \A i \in DOMAIN c.labels :
                /\ e.labels[i].at = c.labels[i].at /\ e.labels[i].point = c.labels[i].point
                /\ DOMAIN e.labels[i].marker = FieldsOf(c)
                /\ \A g \in FieldsOf(c) : e.labels[i].marker[g] =
                     IF g \in DOMAIN c.labels[i].marker THEN c.labels[i].marker[g] ELSE "none"
       /\ DOMAIN e.couplings =
                {p \in DOMAIN c.couplings \cup
                       {p \in Couples : p[1] # p[2] /\ {p[1], p[2]} \subseteq FieldsOf(c)} :
                     CouplingIsAvailable(c, p)}
  BY <1>16, <1>17, SettledIsValid
<1>19. FieldsOf(e) = K \cup {f} /\ e \in Documents
  BY <1>14, <1>18, ValidHas DEF FieldsOf
<1>20. Exact(e)
  <2>1. \A p : CouplingIsAvailable(e, p) <=> CouplingIsAvailable(c, p)
    BY <1>18 DEF CouplingIsAvailable, FieldsOf
  <2>2. \A p \in DOMAIN c.couplings : p \in Couples /\ p[1] # p[2]
    BY <1>0, <1>13 DEF Exact
  <2>3. \A p : CouplingIsAvailable(c, p) => p[1] \in FieldsOf(c) /\ p[2] \in FieldsOf(c)
    BY DEF CouplingIsAvailable
  <2> QED BY <1>18, <2>1, <2>2, <2>3 DEF Exact
<1>21. LabelsRead(e, l, K \cup {f})
  <2> SUFFICES ASSUME NEW i \in DOMAIN e.labels
               PROVE  /\ e.labels[i].at = i /\ e.labels[i].point = LabelsAt(l.points)[i].point
                      /\ DOMAIN e.labels[i].marker = K \cup {f}
                      /\ \A g \in K \cup {f} : e.labels[i].marker[g] = NameAt(l, g, i)
    BY <1>0, <1>8, <1>13, <1>18 DEF LabelsRead
  <2>1. i \in DOMAIN ls /\ i \in DOMAIN d.labels /\ i \in DOMAIN c.labels
    BY <1>8, <1>13, <1>18
  <2>2. e.labels[i].at = i /\ e.labels[i].point = LabelsAt(l.points)[i].point
    BY <1>0, <1>7, <1>13, <1>18, <2>1 DEF LabelsRead
  <2>3. \A g \in K \cup {f} : e.labels[i].marker[g] = ls[i].marker[g]
    BY <1>13, <1>14, <1>15, <1>18, <2>1
  <2> QED BY <1>14, <1>15, <1>18, <2>1, <2>2, <2>3
<1>22. Fielded(e, l, K \cup {f})
  <2>1. \A g \in K \cup {f} : e.fields[g] = l.analysis[g] /\ e.order[g] = OrdersOf(l, g)
    BY <1>10, <1>13, <1>18
  <2>2. e.recipes = {}
    BY <1>0, <1>13, <1>18 DEF Fielded
  <2>3. ASSUME NEW g \in FieldIds, NEW n \in Names
        PROVE  <<g, n>> \in e.materials <=> g \in K \cup {f} /\ \E m \in l.materials[g] : m.name = n
    <3>1. <<g, n>> \in e.materials <=> <<g, n>> \in d.materials \/ <<g, n>> \in added
      BY <1>13, <1>18 DEF mats
    <3>2. <<g, n>> \in d.materials <=> g \in K /\ \E m \in l.materials[g] : m.name = n
      BY <1>0 DEF Fielded
    <3> QED BY <1>5a, <1>5b, <3>1, <3>2 DEF ms
  <2> QED BY <1>19, <2>1, <2>2, <2>3 DEF Fielded
<1> QED BY <1>1, <1>17, <1>18, <1>19, <1>20, <1>21, <1>22 DEF ReadUpTo

\* The first k fields of a file.
FirstFields(l, k) == {FieldList(l)[j] : j \in 1 .. k}

\* The next field of the file is one that has not been read.
LEMMA NextField ==
    ASSUME NEW l, Readable(l), NEW k \in 0 .. Cardinality(DOMAIN l.analysis) - 1
    PROVE  /\ FieldList(l)[k + 1] \in DOMAIN l.analysis
           /\ FirstFields(l, k) \subseteq FieldIds /\ FieldList(l)[k + 1] \notin FirstFields(l, k)
           /\ FirstFields(l, k + 1) = FirstFields(l, k) \cup {FieldList(l)[k + 1]}
<1> DEFINE n == Cardinality(DOMAIN l.analysis)
<1>1. DOMAIN l.analysis \subseteq FieldIds
  BY DEF Readable, FileOK
<1>2. /\ n \in Nat /\ \A j \in 1 .. n : FieldList(l)[j] \in DOMAIN l.analysis
      /\ \A i, j \in 1 .. n : FieldList(l)[i] = FieldList(l)[j] => i = j
  BY <1>1, FieldListIs
<1> HIDE DEF n
<1>3. k + 1 \in 1 .. n /\ \A j \in 1 .. k : j \in 1 .. n /\ j # k + 1
  BY <1>2 DEF n
<1>4. \A j : j \in 1 .. k + 1 <=> j \in 1 .. k \/ j = k + 1
  BY <1>2 DEF n
<1>5. FirstFields(l, k + 1) = FirstFields(l, k) \cup {FieldList(l)[k + 1]}
  BY <1>4 DEF FirstFields
<1> QED BY <1>1, <1>2, <1>3, <1>5 DEF FirstFields

\* The reader reads the next field.
LEMMA ReadFieldsFollow ==
    ASSUME NEW l, Readable(l), NEW k \in 0 .. Cardinality(DOMAIN l.analysis) - 1,
           NEW d \in ReadUpTo(l, FirstFields(l, k))
    PROVE  FieldRead(d, l, FieldList(l)[k + 1]) \in ReadUpTo(l, FirstFields(l, k + 1))
<1>1. PICK f, K, J : f = FieldList(l)[k + 1] /\ K = FirstFields(l, k) /\ J = FirstFields(l, k + 1)
  OBVIOUS
<1>2. f \in DOMAIN l.analysis /\ K \in SUBSET FieldIds /\ f \notin K /\ J = K \cup {f}
  BY <1>1, NextField
<1>3. FieldRead(d, l, f) \in ReadUpTo(l, K \cup {f})
  BY <1>1, <1>2, ReadGoesOn
<1> QED BY <1>1, <1>2, <1>3

\* FieldsRead reads one field after the other.
LEMMA FieldsReadFollow ==
    ASSUME NEW l, Readable(l)
    PROVE  \E f : /\ \A k \in 0 .. Cardinality(DOMAIN l.analysis) :
                        f[k] = IF k = 0 THEN [NewDocument EXCEPT !.labels = LabelsAt(l.points)]
                               ELSE FieldRead(f[k - 1], l, FieldList(l)[k])
                  /\ FieldsRead(l) = f[Cardinality(DOMAIN l.analysis)]
<1> DEFINE N == Cardinality(DOMAIN l.analysis)
           base == [NewDocument EXCEPT !.labels = LabelsAt(l.points)]
           next(x, i) == FieldRead(x, l, FieldList(l)[i])
           step == [i \in 1 .. N |-> [x \in Documents |->
                      IF next(x, i) \in Documents THEN next(x, i) ELSE base]]
           Rec(g) == g = [k \in 0 .. N |-> IF k = 0 THEN base ELSE next(g[k - 1], k)]
           f == CHOOSE g : Rec(g)
<1>1. N \in Nat
  <2>1. DOMAIN l.analysis \subseteq FieldIds
    BY DEF Readable, FileOK
  <2> QED BY <2>1, FieldListIs
<1>2. base \in ReadUpTo(l, FirstFields(l, 0)) /\ base \in Documents
  <2>1. FirstFields(l, 0) = {}
    <3>1. \A j : j \notin 1 .. 0
      OBVIOUS
    <3> QED BY <3>1 DEF FirstFields
  <2> HIDE DEF base
  <2>2. base \in ReadUpTo(l, {})
    BY ReadStarts DEF base
  <2> QED BY <2>1, <2>2 DEF ReadUpTo
<1>3. StaysIn(Documents, N, step)
  <2> HIDE DEF base, next
  <2>1. \A i \in 1 .. N : \A x \in Documents : step[i][x] \in Documents
    BY <1>2
  <2> QED BY <2>1 DEF StaysIn
<1>4. PICK g : Follows(g, Documents, N, base, step)
  <2> HIDE DEF step, base, N
  <2> QED BY <1>1, <1>2, <1>3, RecursionExists
<1> HIDE DEF base
<1>5. ASSUME NEW k \in 0 .. N - 1, g[k] \in ReadUpTo(l, FirstFields(l, k))
      PROVE  /\ g[k + 1] \in ReadUpTo(l, FirstFields(l, k + 1))
             /\ g[k + 1] = next(g[k], k + 1)
  <2>1. k + 1 \in 1 .. N /\ (k + 1) - 1 = k
    BY <1>1
  <2>2. g[k] \in Documents
    BY <1>5 DEF ReadUpTo
  <2>3. g[k + 1] = step[k + 1][g[k]]
    BY <1>4, <2>1 DEF Follows
  <2>4. next(g[k], k + 1) \in ReadUpTo(l, FirstFields(l, k + 1))
    BY <1>5, ReadFieldsFollow
  <2>5. next(g[k], k + 1) \in Documents
    BY <2>4 DEF ReadUpTo
  <2> HIDE DEF next
  <2>6. step[k + 1][g[k]] = next(g[k], k + 1)
    BY <2>1, <2>2, <2>5
  <2> QED BY <2>3, <2>4, <2>6
<1>6. \A k \in 0 .. N : g[k] \in ReadUpTo(l, FirstFields(l, k))
  <2> DEFINE T == {k \in 0 .. N : g[k] \in ReadUpTo(l, FirstFields(l, k))}
  <2>1. 0 \in T
    BY <1>1, <1>2, <1>4 DEF Follows
  <2>2. ASSUME NEW k \in 0 .. N - 1, k \in T PROVE k + 1 \in T
    <3>1. k + 1 \in 0 .. N
      BY <1>1
    <3>2. g[k] \in ReadUpTo(l, FirstFields(l, k))
      BY <2>2
    <3>3. g[k + 1] \in ReadUpTo(l, FirstFields(l, k + 1))
      BY <1>5, <3>2
    <3> HIDE DEF N
    <3> QED BY <3>1, <3>3
  <2>3. \A k \in 0 .. N : k \in T
    <3> HIDE DEF T, N
    <3> QED BY <1>1, <2>1, <2>2, SetInduction
  <2> QED BY <2>3
<1>7. Rec(g)
  <2> DEFINE h == [k \in 0 .. N |-> IF k = 0 THEN base ELSE next(g[k - 1], k)]
  <2>1. ASSUME NEW k \in 0 .. N PROVE g[k] = h[k]
    <3>1. CASE k = 0
      BY <1>4, <3>1 DEF Follows
    <3>2. CASE k # 0
      <4>1. k - 1 \in 0 .. N - 1 /\ (k - 1) + 1 = k /\ k - 1 \in 0 .. N
        BY <1>1, <3>2
      <4>2. g[k - 1] \in ReadUpTo(l, FirstFields(l, k - 1))
        BY <1>6, <4>1
      <4>3. \A j \in 0 .. N - 1 : g[j] \in ReadUpTo(l, FirstFields(l, j)) =>
                                    g[j + 1] = next(g[j], j + 1)
        BY <1>5
      <4>4. g[k] = next(g[k - 1], k)
        <5> HIDE DEF next
        <5> QED BY <4>1, <4>2, <4>3
      <4> HIDE DEF next
      <4> QED BY <3>2, <4>4
    <3> QED BY <3>1, <3>2
  <2>2. DOMAIN g = 0 .. N /\ g = [k \in 0 .. N |-> g[k]]
    BY <1>4 DEF Follows
  <2>3. DOMAIN h = 0 .. N /\ h = [k \in 0 .. N |-> h[k]]
    OBVIOUS
  <2>4. g = h
    <3> HIDE DEF h
    <3> QED BY <2>1, <2>2, <2>3
  <2> QED BY <2>4
<1>8. Rec(f)
  <2> HIDE DEF Rec
  <2> QED BY <1>7
<1>9. \A k \in 0 .. N : f[k] = IF k = 0 THEN base ELSE next(f[k - 1], k)
  <2> HIDE DEF f
  <2> QED BY <1>8
<1>10. FieldsRead(l) = f[N]
  BY Zenon DEF FieldsRead, f, Rec, N, base, next
<1> HIDE DEF f
<1> QED BY <1>9, <1>10 DEF base

\* What has been read when all fields have.
LEMMA FieldsReadAre ==
    ASSUME NEW l, Readable(l)
    PROVE  FieldsRead(l) \in ReadUpTo(l, DOMAIN l.analysis)
<1> DEFINE N == Cardinality(DOMAIN l.analysis)
<1>1. DOMAIN l.analysis \subseteq FieldIds
  BY DEF Readable, FileOK
<1>2. N \in Nat /\ FirstFields(l, N) = DOMAIN l.analysis
  <2>1. /\ N \in Nat /\ \A k \in 1 .. N : FieldList(l)[k] \in DOMAIN l.analysis
        /\ \A f \in DOMAIN l.analysis : \E k \in 1 .. N : f = FieldList(l)[k]
    BY <1>1, FieldListIs
  <2> HIDE DEF N
  <2> QED BY <2>1 DEF FirstFields
<1>3. PICK f : /\ \A k \in 0 .. N : f[k] =
                        IF k = 0 THEN [NewDocument EXCEPT !.labels = LabelsAt(l.points)]
                        ELSE FieldRead(f[k - 1], l, FieldList(l)[k])
               /\ FieldsRead(l) = f[N]
  BY FieldsReadFollow
<1> DEFINE T == {k \in 0 .. N : f[k] \in ReadUpTo(l, FirstFields(l, k))}
<1>4. 0 \in T
  <2>1. FirstFields(l, 0) = {} /\ 0 \in 0 .. N
    <3>1. \A j : j \notin 1 .. 0
      OBVIOUS
    <3> QED BY <1>2, <3>1 DEF FirstFields
  <2>2. f[0] = [NewDocument EXCEPT !.labels = LabelsAt(l.points)]
    BY <1>3, <2>1
  <2>3. f[0] \in ReadUpTo(l, {})
    BY <2>2, ReadStarts
  <2> QED BY <2>1, <2>3
<1>5. ASSUME NEW k \in 0 .. N - 1, k \in T PROVE k + 1 \in T
  <2>1. k + 1 \in 0 .. N /\ k + 1 # 0 /\ (k + 1) - 1 = k
    BY <1>2
  <2>2. f[k] \in ReadUpTo(l, FirstFields(l, k))
    BY <1>5
  <2>3. FieldRead(f[k], l, FieldList(l)[k + 1]) \in ReadUpTo(l, FirstFields(l, k + 1))
    BY <2>2, ReadFieldsFollow
  <2>4. f[k + 1] = FieldRead(f[k], l, FieldList(l)[k + 1])
    BY <1>3, <2>1
  <2> HIDE DEF N
  <2> QED BY <2>1, <2>3, <2>4
<1>6. N \in T
  <2>1. N \in 0 .. N
    BY <1>2
  <2> HIDE DEF T, N
  <2>2. \A k \in 0 .. N : k \in T
    BY <1>2, <1>4, <1>5, SetInduction
  <2> QED BY <2>1, <2>2
<1> QED BY <1>2, <1>3, <1>6

\* The couplings with the types of the file.
IsTyped(e, d, l) == e = TypesRead(d, l)

\* The types of the couplings are read: the couplings stay those with weak forms.
LEMMA TypesReadIs ==
    ASSUME NEW l, Readable(l), NEW d, Valid(d), Exact(d), NEW e, IsTyped(e, d, l)
    PROVE  /\ Valid(e) /\ Exact(e) /\ e = [d EXCEPT !.couplings = e.couplings]
           /\ DOMAIN e.couplings = DOMAIN d.couplings
           /\ \A p \in DOMAIN d.couplings : p \in DOMAIN l.couplings =>
                 e.couplings[p] = l.couplings[p]
<1> DEFINE c == [p \in DOMAIN d.couplings |->
                   IF p \in DOMAIN l.couplings THEN l.couplings[p] ELSE d.couplings[p]]
<1>1. e = [d EXCEPT !.couplings = c]
  BY DEF IsTyped, TypesRead
<1>2. IsMap(c) /\ DOMAIN c = DOMAIN d.couplings
      /\ \A p \in DOMAIN d.couplings :
           c[p] = IF p \in DOMAIN l.couplings THEN l.couplings[p] ELSE d.couplings[p]
  BY DEF IsMap
<1>3. /\ d \in Documents /\ DOMAIN d.couplings \subseteq Couples
      /\ \A p \in DOMAIN d.couplings : d.couplings[p] \in CouplingTypes
  BY ValidHas, PartsOf, MapsDef
<1>4. \A p \in DOMAIN l.couplings : l.couplings[p] \in CouplingTypes
  BY DEF Readable, FileOK
<1> HIDE DEF c
<1>5. c \in Maps(Couples, CouplingTypes)
  BY <1>2, <1>3, <1>4, MapsDef
<1>6. Valid(e) /\ e.couplings = c /\ FieldsOf(e) = FieldsOf(d)
  BY <1>1, <1>5, CoupledIsValid
<1>7. e.fields = d.fields
  BY <1>1, <1>3, <1>5 DEF Documents
<1>8. Exact(e)
  BY <1>2, <1>6, <1>7 DEF Exact, CouplingIsAvailable
<1> QED BY <1>1, <1>2, <1>6, <1>8

\* What is read from a file is a valid document whose couplings have weak forms.
LEMMA ReadIsValid ==
    ASSUME NEW l, Readable(l)
    PROVE  Valid(Read(l)) /\ Exact(Read(l)) /\ Valid(TypesRead(FieldsRead(l), l))
           /\ Exact(TypesRead(FieldsRead(l), l))
<1>1. PICK d : d = FieldsRead(l)
  OBVIOUS
<1>2. Valid(d) /\ Exact(d) /\ FieldsOf(d) = DOMAIN l.analysis
  BY <1>1, FieldsReadAre DEF ReadUpTo, Fielded
<1>3. PICK e : e = TypesRead(d, l)
  OBVIOUS
<1>4. Valid(e) /\ Exact(e) /\ e = [d EXCEPT !.couplings = e.couplings]
  BY <1>2, <1>3, TypesReadIs DEF IsTyped
<1>5. FieldsOf(e) = DOMAIN l.analysis /\ e.fields = d.fields
  <2>1. d \in Documents /\ e \in Documents
    BY <1>2, <1>4, ValidHas
  <2> QED BY <1>2, <1>4, <2>1 DEF Documents, FieldsOf
<1>6. PICK r : r = [e EXCEPT !.recipes = l.recipes]
  OBVIOUS
<1>7. l.recipes \in SUBSET [field : FieldsOf(e), labels : SUBSET Nat]
  BY <1>5 DEF Readable, FileOK
<1>8. Valid(r) /\ r.couplings = e.couplings /\ FieldsOf(r) = FieldsOf(e)
  BY <1>4, <1>6, <1>7, RecipeAddedIsValid
<1>9. r.fields = e.fields
  <2>1. e \in Documents
    BY <1>4, ValidHas
  <2>2. PICK rs : rs = l.recipes
    OBVIOUS
  <2>3. r = [e EXCEPT !.recipes = rs]
    BY <1>6, <2>2
  <2> QED BY <2>1, <2>3 DEF Documents
<1>10. Exact(r)
  BY <1>4, <1>8, <1>9 DEF Exact, CouplingIsAvailable
<1>11. r = Read(l)
  BY <1>1, <1>3, <1>6 DEF Read
<1> QED BY <1>1, <1>3, <1>4, <1>8, <1>10, <1>11

-----------------------------------------------------------------------------
(* The file of a document, and what is read from it.                       *)

\* The positions of the labels of d that are marked with the material n of f.
PositionsOf(d, f, n) == {i \in DOMAIN d.labels : d.labels[i].marker[f] = n}

\* The materials of the field f as the file has them.
MaterialRecords(d, f) ==
    {[name |-> m[2], labels |-> PositionsOf(d, f, m[2])] : m \in {n \in d.materials : n[1] = f}}

\* The polynomial orders of the field f as the file has them.
OrderPairs(d, f) == {<<Index(d, a), d.order[f][a]>> : a \in DOMAIN d.order[f]}

\* The file l is that of the document d.
IsListed(l, d) == l = Listed(d)

\* The parts of a file.
LEMMA ListedHas ==
    ASSUME NEW d, NEW l, IsListed(l, d)
    PROVE  /\ DOMAIN l = {"analysis", "points", "materials", "order", "couplings", "recipes"}
           /\ l.analysis = d.fields /\ l.couplings = d.couplings /\ l.recipes = d.recipes
           /\ IsMap(l.points) /\ DOMAIN l.points = DOMAIN d.labels
           /\ \A i \in DOMAIN d.labels : l.points[i] = d.labels[i].point
           /\ IsMap(l.materials) /\ DOMAIN l.materials = FieldsOf(d)
           /\ \A f \in FieldsOf(d) : l.materials[f] = MaterialRecords(d, f)
           /\ IsMap(l.order) /\ DOMAIN l.order = FieldsOf(d)
           /\ \A f \in FieldsOf(d) : l.order[f] = OrderPairs(d, f)
<1>1. PICK ps : ps = [i \in DOMAIN d.labels |-> d.labels[i].point]
  OBVIOUS
<1>2. PICK ms : ms = [f \in FieldsOf(d) |-> MaterialRecords(d, f)]
  OBVIOUS
<1>3. PICK os : os = [f \in FieldsOf(d) |-> OrderPairs(d, f)]
  OBVIOUS
<1>4. l = [analysis |-> d.fields, points |-> ps, materials |-> ms, order |-> os,
           couplings |-> d.couplings, recipes |-> d.recipes]
  BY <1>1, <1>2, <1>3, Zenon DEF IsListed, Listed, MaterialRecords, OrderPairs, PositionsOf
<1>5. /\ l.analysis = d.fields /\ l.couplings = d.couplings /\ l.recipes = d.recipes
      /\ l.points = ps /\ l.materials = ms /\ l.order = os
      /\ DOMAIN l = {"analysis", "points", "materials", "order", "couplings", "recipes"}
  BY <1>4
<1> QED BY <1>1, <1>2, <1>3, <1>5 DEF IsMap

\* The position of a label is where the label is, and 0 is no position.
LEMMA IndexIs ==
    ASSUME NEW d, Valid(d), NEW a
    PROVE  /\ a \notin AddressesOf(d) => Index(d, a) = 0 /\ 0 \notin DOMAIN d.labels
           /\ a \in AddressesOf(d) => Index(d, a) \in DOMAIN d.labels /\ d.labels[Index(d, a)].at = a
           /\ \A i \in DOMAIN d.labels : d.labels[i].at = a => Index(d, a) = i
           /\ \A i \in DOMAIN d.labels : Index(d, a) = i => d.labels[i].at = a
<1>1. DOMAIN d.labels = 1 .. Len(d.labels) /\ Len(d.labels) \in Nat
      /\ \A i, j \in DOMAIN d.labels : d.labels[i].at = d.labels[j].at => i = j
  BY ValidHas, PartsOf
<1>2. 0 \notin DOMAIN d.labels
  BY <1>1
<1>3. a \in AddressesOf(d) <=> \E i \in DOMAIN d.labels : d.labels[i].at = a
  BY DEF AddressesOf
<1>4. a \notin AddressesOf(d) => Index(d, a) = 0
  BY DEF Index, NotFound
<1>5. a \in AddressesOf(d) => Index(d, a) \in DOMAIN d.labels /\ d.labels[Index(d, a)].at = a
  BY <1>3 DEF Index
<1> QED BY <1>1, <1>2, <1>3, <1>4, <1>5

\* The file of a valid document can be read, but for the labels it looks up.
LEMMA ListedIsFile ==
    ASSUME NEW d, Valid(d), NEW l, IsListed(l, d)
    PROVE  FileOK(l)
<1>1. /\ l.analysis = d.fields /\ l.couplings = d.couplings /\ l.recipes = d.recipes
      /\ IsMap(l.points) /\ DOMAIN l.points = DOMAIN d.labels
      /\ \A i \in DOMAIN d.labels : l.points[i] = d.labels[i].point
      /\ DOMAIN l.materials = FieldsOf(d) /\ DOMAIN l.order = FieldsOf(d)
      /\ \A f \in FieldsOf(d) : l.materials[f] = MaterialRecords(d, f)
      /\ \A f \in FieldsOf(d) : l.order[f] = OrderPairs(d, f)
  BY ListedHas
<1>2. /\ d \in Documents /\ DOMAIN d.labels = 1 .. Len(d.labels) /\ Len(d.labels) \in Nat
      /\ FieldsOf(d) \subseteq FieldIds /\ d.materials \subseteq FieldIds \X Names
      /\ \A i \in DOMAIN d.labels : d.labels[i] \in Labels
      /\ d.couplings \in Maps(Couples, CouplingTypes)
      /\ d.order \in Maps(FieldIds, Maps(Places, LocalOrders))
      /\ d.recipes \subseteq [field : FieldIds, labels : SUBSET Nat]
  BY ValidHas, PartsOf
<1>3. l.points \in Seq(Points)
  <2>1. \A i \in DOMAIN d.labels : d.labels[i].point \in Points
    BY <1>2, LabelParts
  <2>2. l.points \in [1 .. Len(d.labels) -> Points]
    BY <1>1, <1>2, <2>1 DEF IsMap
  <2> QED BY <1>2, <2>2, FunctionIsSequence
<1>4. ASSUME NEW f \in FieldsOf(d)
      PROVE  /\ d.fields[f] \in AnalysesOf[f]
             /\ \A m \in MaterialRecords(d, f) : m.name \in Names
             /\ \A o \in OrderPairs(d, f) : o[2] \in LocalOrders
  <2>1. d.order[f] \in Maps(Places, LocalOrders) /\ DOMAIN d.order = FieldsOf(d)
    BY <1>2, MapsDef, ValidHas
  <2>2. \A a \in DOMAIN d.order[f] : d.order[f][a] \in LocalOrders
    BY <2>1, MapsDef
  <2>3. \A m \in d.materials : m[2] \in Names
    BY <1>2
  <2> QED BY <2>2, <2>3, ValidHas DEF MaterialRecords, OrderPairs
<1>5. \A p \in DOMAIN l.couplings : l.couplings[p] \in CouplingTypes
  BY <1>1, <1>2, MapsDef
<1>6. l.recipes \subseteq [field : DOMAIN l.analysis, labels : SUBSET Nat]
  <2>1. \A r \in d.recipes : r.field \in FieldsOf(d)
    BY ValidHas
  <2>2. DOMAIN l.analysis = FieldsOf(d)
    BY <1>1 DEF FieldsOf
  <2> QED BY <1>1, <1>2, <2>1, <2>2
<1> QED BY <1>1, <1>2, <1>3, <1>4, <1>5, <1>6 DEF FileOK, FieldsOf

\* The names and materials in the file of a document are those of the document.
LEMMA ListedNames ==
    ASSUME NEW d, Valid(d), NEW l, IsListed(l, d), NEW f \in FieldsOf(d)
    PROVE  /\ \A n : (\E m \in l.materials[f] : m.name = n) <=> <<f, n>> \in d.materials
           /\ \A i \in DOMAIN d.labels : NameAt(l, f, i) = d.labels[i].marker[f]
<1>0. d.materials \subseteq FieldIds \X Names
  BY ValidHas, PartsOf
<1>1. l.materials[f] = MaterialRecords(d, f)
  BY ListedHas
<1>2. \A m \in l.materials[f] : <<f, m.name>> \in d.materials /\ m.labels = PositionsOf(d, f, m.name)
  BY <1>0, <1>1 DEF MaterialRecords
<1>3. ASSUME NEW n, <<f, n>> \in d.materials
      PROVE  [name |-> n, labels |-> PositionsOf(d, f, n)] \in l.materials[f]
  <2>1. PICK m : m = <<f, n>>
    OBVIOUS
  <2>2. m \in {k \in d.materials : k[1] = f} /\ m[2] = n
    BY <1>3, <2>1
  <2> QED BY <1>1, <2>2 DEF MaterialRecords
<1>4. \A n : (\E m \in l.materials[f] : m.name = n) <=> <<f, n>> \in d.materials
  <2> SUFFICES ASSUME NEW n PROVE (\E m \in l.materials[f] : m.name = n) <=> <<f, n>> \in d.materials
    OBVIOUS
  <2>1. <<f, n>> \in d.materials => \E m \in l.materials[f] : m.name = n
    <3> SUFFICES ASSUME <<f, n>> \in d.materials PROVE \E m \in l.materials[f] : m.name = n
      OBVIOUS
    <3>1. PICK m : m = [name |-> n, labels |-> PositionsOf(d, f, n)]
      OBVIOUS
    <3>2. m \in l.materials[f] /\ m.name = n
      BY <1>3, <3>1
    <3> QED BY <3>2
  <2> QED BY <1>2, <2>1
<1>5. ASSUME NEW i \in DOMAIN d.labels
      PROVE  NameAt(l, f, i) = d.labels[i].marker[f]
  <2>1. IF d.labels[i].marker[f] = "none" THEN f \in d.none
        ELSE <<f, d.labels[i].marker[f]>> \in d.materials
    BY ValidHas DEF MarkersOK
  <2>2. \A m \in l.materials[f] : i \in m.labels <=> m.name = d.labels[i].marker[f]
    BY <1>2 DEF PositionsOf
  <2>3. CASE d.labels[i].marker[f] = "none"
    <3>1. \A m \in l.materials[f] : m.name # "none"
      BY <1>0, <1>2, MarkerNameAssumption
    <3> QED BY <2>2, <2>3, <3>1 DEF NameAt
  <2>4. CASE d.labels[i].marker[f] # "none"
    <3>1. \E m \in l.materials[f] : m.name = d.labels[i].marker[f]
      BY <1>4, <2>1, <2>4
    <3>2. \E m \in l.materials[f] : i \in m.labels
      BY <2>2, <3>1
    <3> QED BY <2>2, <3>2 DEF NameAt
  <2> QED BY <2>3, <2>4
<1> QED BY <1>4, <1>5

\* The orders in the file of a document are those of the document, by position.
LEMMA ListedOrders ==
    ASSUME NEW d, Valid(d), NEW l, IsListed(l, d), NEW f \in FieldsOf(d)
    PROVE  /\ PairsOf(l, f) = OrderPairs(d, f)
           /\ \A i \in DOMAIN d.labels :
                /\ i \in DOMAIN OrdersOf(l, f) <=> d.labels[i].at \in DOMAIN d.order[f]
                /\ i \in DOMAIN OrdersOf(l, f) => OrdersOf(l, f)[i] = d.order[f][d.labels[i].at]
<1>1. l.order[f] = OrderPairs(d, f)
  BY ListedHas
<1>2. PairsOf(l, f) = OrderPairs(d, f)
  BY <1>1 DEF PairsOf, OrderPairs
<1>3. PICK P : P = OrderPairs(d, f)
  OBVIOUS
<1>4. PICK m : m = MapOf(P)
  OBVIOUS
<1>5. OrdersOf(l, f) = m
  BY <1>2, <1>3, <1>4 DEF OrdersOf
<1>6. /\ DOMAIN m = {o[1] : o \in P}
      /\ \A a \in DOMAIN m : m[a] = (CHOOSE o \in P : o[1] = a)[2]
  BY <1>4 DEF MapOf
<1>7. ASSUME NEW i \in DOMAIN d.labels
      PROVE  /\ i \in DOMAIN m <=> d.labels[i].at \in DOMAIN d.order[f]
             /\ i \in DOMAIN m => m[i] = d.order[f][d.labels[i].at]
  <2>1. \A o \in P : o[1] = i => o[2] = d.order[f][d.labels[i].at]
                                  /\ d.labels[i].at \in DOMAIN d.order[f]
    <3> SUFFICES ASSUME NEW a \in DOMAIN d.order[f], Index(d, a) = i
                 PROVE  d.labels[i].at = a
      BY <1>3 DEF OrderPairs
    <3> QED BY IndexIs
  <2>2. d.labels[i].at \in DOMAIN d.order[f] => \E o \in P : o[1] = i
    <3> SUFFICES ASSUME d.labels[i].at \in DOMAIN d.order[f] PROVE \E o \in P : o[1] = i
      OBVIOUS
    <3>1. PICK a \in DOMAIN d.order[f] : a = d.labels[i].at
      OBVIOUS
    <3>2. Index(d, a) = i
      BY <3>1, IndexIs
    <3>3. PICK o : o = <<Index(d, a), d.order[f][a]>>
      OBVIOUS
    <3>4. o \in P /\ o[1] = i
      BY <1>3, <3>2, <3>3 DEF OrderPairs
    <3> QED BY <3>4
  <2> QED BY <1>6, <2>1, <2>2
<1> QED BY <1>2, <1>5, <1>7

\* e has the fields, materials and labels of d, the labels at their positions, and the
\* orders that the file l of d has.
IsReadFrom(e, l, d) ==
    /\ e.fields = d.fields /\ e.materials = d.materials
    /\ DOMAIN e.labels = DOMAIN d.labels
    /\ \A i \in DOMAIN d.labels :
         /\ e.labels[i].at = i /\ e.labels[i].point = d.labels[i].point
         /\ e.labels[i].marker = d.labels[i].marker
    /\ \A f \in FieldsOf(d) : e.order[f] = OrdersOf(l, f)

\* What is read of the file of a document, when no two labels are at one point.
LEMMA ReadOfListed ==
    ASSUME NEW d, Valid(d), NEW l, IsListed(l, d), Readable(l), Distinct(l.points)
    PROVE  FieldsRead(l) \in Documents /\ IsReadFrom(FieldsRead(l), l, d)
<1>1. PICK e : e = FieldsRead(l)
  OBVIOUS
<1>2. PICK K : K = FieldsOf(d)
  OBVIOUS
<1>3. l.analysis = d.fields /\ DOMAIN l.points = DOMAIN d.labels
      /\ \A i \in DOMAIN d.labels : l.points[i] = d.labels[i].point
  BY ListedHas
<1>4. e \in ReadUpTo(l, K)
  <2>1. DOMAIN l.analysis = K
    BY <1>2, <1>3 DEF FieldsOf
  <2> QED BY <1>1, <2>1, FieldsReadAre
<1>5. e \in Documents /\ Valid(e) /\ LabelsRead(e, l, K) /\ Fielded(e, l, K)
  BY <1>4 DEF ReadUpTo
<1>6. e.fields = d.fields
  <2>1. IsMap(e.fields) /\ IsMap(d.fields)
    BY <1>5, PartsOf, MapsDef, ValidHas
  <2>2. DOMAIN e.fields = K /\ DOMAIN d.fields = K /\ \A f \in K : e.fields[f] = d.fields[f]
    BY <1>2, <1>3, <1>5 DEF Fielded, FieldsOf
  <2> QED BY <2>1, <2>2 DEF IsMap
<1>7. e.materials = d.materials
  <2>1. e.materials \subseteq FieldIds \X Names /\ d.materials \subseteq FieldIds \X Names
        /\ \A m \in d.materials : m[1] \in K
    BY <1>2, <1>5, PartsOf, ValidHas
  <2>2. \A f \in FieldIds, n \in Names : <<f, n>> \in e.materials <=> <<f, n>> \in d.materials
    <3> SUFFICES ASSUME NEW f \in FieldIds, NEW n \in Names
                 PROVE  <<f, n>> \in e.materials <=> <<f, n>> \in d.materials
      OBVIOUS
    <3>1. <<f, n>> \in e.materials <=> f \in K /\ \E m \in l.materials[f] : m.name = n
      BY <1>5 DEF Fielded
    <3>2. CASE f \in K
      <4>1. (\E m \in l.materials[f] : m.name = n) <=> <<f, n>> \in d.materials
        BY <1>2, <3>2, ListedNames
      <4> QED BY <3>1, <3>2, <4>1
    <3>3. CASE f \notin K
      <4>1. <<f, n>> \notin d.materials
        <5>1. PICK m : m = <<f, n>>
          OBVIOUS
        <5>2. m[1] = f
          BY <5>1
        <5> QED BY <2>1, <3>3, <5>1, <5>2
      <4> QED BY <3>1, <3>3, <4>1
    <3> QED BY <3>2, <3>3
  <2> QED BY <2>1, <2>2
<1>8. DOMAIN LabelsAt(l.points) = DOMAIN d.labels
      /\ \A i \in DOMAIN d.labels : LabelsAt(l.points)[i].point = d.labels[i].point
  <2>1. l.points \in Seq(Points)
    BY DEF Readable, FileOK
  <2> QED BY <1>3, <2>1, LabelsAtAre
<1>9. ASSUME NEW i \in DOMAIN d.labels
      PROVE  e.labels[i].at = i /\ e.labels[i].point = d.labels[i].point
             /\ e.labels[i].marker = d.labels[i].marker
  <2>1. /\ i \in DOMAIN e.labels /\ e.labels[i].at = i /\ e.labels[i].point = d.labels[i].point
        /\ DOMAIN e.labels[i].marker = K
        /\ \A f \in K : e.labels[i].marker[f] = NameAt(l, f, i)
    BY <1>5, <1>8 DEF LabelsRead
  <2>2. \A f \in K : NameAt(l, f, i) = d.labels[i].marker[f]
    BY <1>2, ListedNames
  <2>3. DOMAIN d.labels[i].marker = K
    BY <1>2, ValidHas DEF MarkersOK
  <2>4. d.labels[i] \in Labels /\ e.labels[i] \in Labels
    BY <1>5, <2>1, PartsOf, ValidHas
  <2>5. IsMap(d.labels[i].marker) /\ IsMap(e.labels[i].marker)
    BY <2>4, LabelParts
  <2>6. e.labels[i].marker = d.labels[i].marker
    BY <2>1, <2>2, <2>3, <2>5 DEF IsMap
  <2> QED BY <2>1, <2>6
<1>10. DOMAIN e.labels = DOMAIN d.labels
  BY <1>5, <1>8 DEF LabelsRead
<1>11. \A f \in FieldsOf(d) : e.order[f] = OrdersOf(l, f)
  BY <1>2, <1>5 DEF Fielded
<1> QED BY <1>1, <1>5, <1>6, <1>7, <1>9, <1>10, <1>11 DEF IsReadFrom

\* Labels at distinct points are read at as many positions.
LEMMA DistinctPoints ==
    ASSUME NEW d, Valid(d), Cardinality(PointsOf(d)) = Len(d.labels), NEW l, IsListed(l, d)
    PROVE  Distinct(l.points)
<1> DEFINE n == Len(d.labels)
<1>1. n \in Nat /\ DOMAIN d.labels = 1 .. n
  BY ValidHas, PartsOf
<1>2. IsMap(l.points) /\ DOMAIN l.points = 1 .. n
      /\ \A i \in 1 .. n : l.points[i] = d.labels[i].point
  BY <1>1, ListedHas
<1>3. l.points \in [1 .. n -> PointsOf(d)]
  BY <1>1, <1>2 DEF IsMap, PointsOf
<1>4. \A p \in PointsOf(d) : \E i \in 1 .. n : l.points[i] = p
  BY <1>1, <1>2 DEF PointsOf
<1>5. l.points \in Surjection(1 .. n, PointsOf(d))
  BY <1>3, <1>4 DEF Surjection
<1>6. IsFiniteSet(1 .. n) /\ Cardinality(1 .. n) = n
  <2>1. 1 \in Int /\ n \in Int
    BY <1>1
  <2>2. IsFiniteSet(1 .. n) /\ Cardinality(1 .. n) = IF 1 > n THEN 0 ELSE n - 1 + 1
    BY <2>1, FS_Interval
  <2> HIDE DEF n
  <2> QED BY <1>1, <2>2
<1>7. l.points \in Injection(1 .. n, PointsOf(d))
  <2> HIDE DEF n
  <2>1. Cardinality(1 .. n) = Cardinality(PointsOf(d))
    BY <1>6 DEF n
  <2> QED BY <1>5, <1>6, <2>1, FS_SurjSameCardinalityImpliesInj
<1> QED BY <1>2, <1>7 DEF Injection, IsInjective, Distinct

\* Every lookup of the copy succeeds.
LEMMA LookupsSucceed ==
    ASSUME NEW l, FileOK(l), NEW positions, OrderPositions(l) \subseteq positions,
           LookupFailure(l, positions) = ""
    PROVE  Readable(l) /\ DOMAIN l.couplings \subseteq DOMAIN FieldsRead(l).couplings
<1>1. positions \subseteq DOMAIN LabelsAt(l.points)
  BY DEF LookupFailure
<1>2. DOMAIN l.couplings \subseteq DOMAIN FieldsRead(l).couplings
  BY <1>1 DEF LookupFailure
<1> QED BY <1>1, <1>2 DEF Readable

\* A document read back from its file is that document.
LEMMA ReadBackIsSame ==
    ASSUME NEW d, Valid(d), NEW l, IsListed(l, d), Readable(l), NEW e, e \in Documents,
           IsReadFrom(e, l, d), Valid(e), Exact(e), NEW c, IsTyped(c, e, l),
           DOMAIN l.couplings \subseteq DOMAIN e.couplings
    PROVE  SameModel(d, c)
<1>10. /\ Valid(c) /\ c = [e EXCEPT !.couplings = c.couplings]
       /\ DOMAIN c.couplings = DOMAIN e.couplings
       /\ \A p \in DOMAIN e.couplings : p \in DOMAIN l.couplings =>
                 c.couplings[p] = l.couplings[p]
  <2>1. Valid(c)
    BY TypesReadIs
  <2>2. c = [e EXCEPT !.couplings = c.couplings]
    BY TypesReadIs
  <2>3. DOMAIN c.couplings = DOMAIN e.couplings
    BY TypesReadIs
  <2>4. \A p \in DOMAIN e.couplings : p \in DOMAIN l.couplings =>
                 c.couplings[p] = l.couplings[p]
    BY TypesReadIs
  <2> QED BY <2>1, <2>2, <2>3, <2>4
<1>11. /\ c.fields = e.fields /\ c.materials = e.materials /\ c.labels = e.labels
       /\ c.order = e.order
  BY <1>10 DEF Documents
<1>13. Len(c.labels) = Len(d.labels)
  <2>1. /\ Len(c.labels) \in Nat /\ Len(d.labels) \in Nat
        /\ 1 .. Len(c.labels) = 1 .. Len(d.labels)
    BY <1>10, <1>11, ValidHas, PartsOf DEF IsReadFrom
  <2> QED BY <2>1, SameInterval
<1>14. ASSUME NEW i \in DOMAIN d.labels, NEW f \in FieldsOf(d)
       PROVE  OrderOf(c, f, i) = OrderOf(d, f, i)
  <2>1. c.labels[i].at = i /\ c.order[f] = OrdersOf(l, f)
    BY <1>11 DEF IsReadFrom
  <2>2. /\ i \in DOMAIN OrdersOf(l, f) <=> d.labels[i].at \in DOMAIN d.order[f]
        /\ i \in DOMAIN OrdersOf(l, f) => OrdersOf(l, f)[i] = d.order[f][d.labels[i].at]
    BY ListedOrders
  <2> QED BY <2>1, <2>2 DEF OrderOf
<1>15. \A p \in DOMAIN d.couplings : p \in DOMAIN c.couplings /\ c.couplings[p] = d.couplings[p]
  <2>1. l.couplings = d.couplings
    BY ListedHas
  <2> QED BY <1>10, <2>1
<1>16. \A i \in DOMAIN d.labels : c.labels[i].point = d.labels[i].point
                                 /\ c.labels[i].marker = d.labels[i].marker
  BY <1>11 DEF IsReadFrom
<1> QED BY <1>11, <1>13, <1>14, <1>15, <1>16 DEF SameModel, IsReadFrom

\* The copy of a document with labels at distinct points is that document.
LEMMA CopyIsSame ==
    ASSUME NEW d, Valid(d), Cardinality(PointsOf(d)) = Len(d.labels), CopyFailure(d) = ""
    PROVE  SameModel(d, Copied(d))
<1>1. PICK l : l = Listed(d)
  OBVIOUS
<1>2. IsListed(l, d)
  BY <1>1 DEF IsListed
<1>3. Distinct(l.points) /\ FileOK(l)
  BY <1>2, DistinctPoints, ListedIsFile
<1>4. LookupFailure(l, OrderPositions(l) \cup CopiedPositions(l)) = ""
  BY <1>1 DEF CopyFailure
<1>5. Readable(l) /\ DOMAIN l.couplings \subseteq DOMAIN FieldsRead(l).couplings
  <2>1. PICK P : P = OrderPositions(l) \cup CopiedPositions(l)
    OBVIOUS
  <2> QED BY <1>3, <1>4, <2>1, LookupsSucceed
<1>6. PICK e : e = FieldsRead(l)
  OBVIOUS
<1>7. e \in Documents /\ IsReadFrom(e, l, d)
  BY <1>2, <1>3, <1>5, <1>6, ReadOfListed
<1>8. Valid(e) /\ Exact(e)
  BY <1>5, <1>6, FieldsReadAre DEF ReadUpTo
<1>9. PICK c : c = TypesRead(e, l)
  OBVIOUS
<1>10. IsTyped(c, e, l)
  BY <1>9 DEF IsTyped
<1>11. DOMAIN l.couplings \subseteq DOMAIN e.couplings
  BY <1>5, <1>6
<1>12. c = Copied(d)
  BY <1>1, <1>6, <1>9 DEF Copied
<1>13. SameModel(d, c)
  BY <1>2, <1>5, <1>7, <1>8, <1>10, <1>11, ReadBackIsSame
<1> QED BY <1>12, <1>13

\* What OpenedIsWhatWasSaved says of a file and of that written of what was read from it.
SameFile(k, l) ==
    /\ \A part \in DOMAIN k \ {"couplings"} : k[part] = l[part]
    /\ \A p \in DOMAIN l.couplings : k.couplings[p] = l.couplings[p]

\* The orders of the file of a valid document, a function from positions.
LEMMA PairsAreFunctional ==
    ASSUME NEW d, Valid(d), NEW l, IsListed(l, d), Readable(l), Distinct(l.points),
           NEW f \in FieldsOf(d), NEW P, P = OrderPairs(d, f)
    PROVE  /\ \A o \in P : o[1] \in DOMAIN d.labels /\ o = <<o[1], o[2]>>
           /\ \A o, q \in P : o[1] = q[1] => o = q
<1>1. f \in DOMAIN l.analysis /\ l.order[f] = P /\ PairsOf(l, f) = P
      /\ DOMAIN l.points = DOMAIN d.labels
  BY ListedHas, ListedOrders DEF FieldsOf
<1>2. DOMAIN LabelsAt(l.points) = DOMAIN d.labels
  BY <1>1, LabelsAtAre DEF Readable, FileOK
<1>3. \A o \in P : o[1] \in DOMAIN d.labels
  BY <1>1, <1>2, OrdersOfIs
<1>4. \A o \in P : \E a \in DOMAIN d.order[f] : o = <<Index(d, a), d.order[f][a]>>
  BY DEF OrderPairs
<1>5. \A o \in P : o = <<o[1], o[2]>>
  BY <1>4
<1>6. ASSUME NEW o \in P PROVE o[2] = d.order[f][d.labels[o[1]].at]
  <2>1. PICK a \in DOMAIN d.order[f] : o = <<Index(d, a), d.order[f][a]>>
    BY <1>4
  <2>2. PICK i \in DOMAIN d.labels : i = o[1]
    BY <1>3
  <2>3. Index(d, a) = i /\ o[2] = d.order[f][a]
    BY <2>1, <2>2
  <2>4. d.labels[i].at = a
    BY <2>3, IndexIs
  <2> QED BY <2>2, <2>3, <2>4
<1>7. ASSUME NEW o \in P, NEW q \in P, o[1] = q[1] PROVE o = q
  <2>1. o[2] = q[2]
    BY <1>6, <1>7
  <2> QED BY <1>5, <1>7, <2>1
<1> QED BY <1>3, <1>5, <1>7

\* The pairs of the function that functional pairs are.
LEMMA PairsOfMap ==
    ASSUME NEW P, \A o \in P : o = <<o[1], o[2]>>, \A o, q \in P : o[1] = q[1] => o = q,
           NEW m, m = MapOf(P)
    PROVE  {<<a, m[a]>> : a \in DOMAIN m} = P
<1>1. DOMAIN m = {o[1] : o \in P} /\ \A a \in DOMAIN m : m[a] = (CHOOSE o \in P : o[1] = a)[2]
  BY DEF MapOf
<1>2. \A o \in P : o[1] \in DOMAIN m /\ m[o[1]] = o[2]
  <2> SUFFICES ASSUME NEW o \in P PROVE o[1] \in DOMAIN m /\ m[o[1]] = o[2]
    OBVIOUS
  <2>1. (CHOOSE q \in P : q[1] = o[1]) = o
    OBVIOUS
  <2> QED BY <1>1, <2>1
<1>3. \A o \in P : o \in {<<a, m[a]>> : a \in DOMAIN m}
  <2> SUFFICES ASSUME NEW o \in P PROVE \E a \in DOMAIN m : o = <<a, m[a]>>
    OBVIOUS
  <2> QED BY <1>2
<1>4. ASSUME NEW a \in DOMAIN m PROVE <<a, m[a]>> \in P
  <2>1. PICK o \in P : o[1] = a
    BY <1>1
  <2> QED BY <1>2, <2>1
<1> QED BY <1>3, <1>4

\* A document with the labels and orders that were read from the file of d is written to
\* the same orders.
LEMMA OrdersWrittenAgain ==
    ASSUME NEW d, Valid(d), NEW l, IsListed(l, d), Readable(l), Distinct(l.points),
           NEW e, Valid(e), IsReadFrom(e, l, d), NEW f \in FieldsOf(d)
    PROVE  OrderPairs(e, f) = OrderPairs(d, f)
<1>1. PICK P : P = OrderPairs(d, f)
  OBVIOUS
<1>2. PICK m : m = MapOf(P)
  OBVIOUS
<1>3. e.order[f] = m
  <2>1. PairsOf(l, f) = P
    BY <1>1, ListedOrders
  <2> QED BY <1>2, <2>1 DEF IsReadFrom, OrdersOf
<1>4. /\ \A o \in P : o[1] \in DOMAIN d.labels /\ o = <<o[1], o[2]>>
      /\ \A o, q \in P : o[1] = q[1] => o = q
  BY <1>1, PairsAreFunctional
<1>5. DOMAIN m \subseteq DOMAIN d.labels
  BY <1>2, <1>4 DEF MapOf
<1>6. \A a \in DOMAIN m : Index(e, a) = a
  <2> SUFFICES ASSUME NEW a \in DOMAIN m PROVE Index(e, a) = a
    OBVIOUS
  <2>1. a \in DOMAIN e.labels /\ e.labels[a].at = a
    BY <1>5 DEF IsReadFrom
  <2> QED BY <2>1, IndexIs
<1>7. OrderPairs(e, f) = {<<a, m[a]>> : a \in DOMAIN m}
  BY <1>3, <1>6 DEF OrderPairs
<1> QED BY <1>1, <1>2, <1>4, <1>7, PairsOfMap

\* A document with the labels and materials of d is written to the same materials.
LEMMA MaterialsWrittenAgain ==
    ASSUME NEW d, NEW e, e.materials = d.materials, DOMAIN e.labels = DOMAIN d.labels,
           \A i \in DOMAIN d.labels : e.labels[i].marker = d.labels[i].marker, NEW f
    PROVE  MaterialRecords(e, f) = MaterialRecords(d, f)
<1>1. \A n : PositionsOf(e, f, n) = PositionsOf(d, f, n)
  <2> SUFFICES ASSUME NEW n PROVE PositionsOf(e, f, n) = PositionsOf(d, f, n)
    OBVIOUS
  <2>1. \A i : i \in PositionsOf(e, f, n) <=> i \in PositionsOf(d, f, n)
    BY DEF PositionsOf
  <2>2. PositionsOf(e, f, n) \subseteq DOMAIN e.labels
        /\ PositionsOf(d, f, n) \subseteq DOMAIN d.labels
    BY DEF PositionsOf
  <2> QED BY <2>1, <2>2
<1> QED BY <1>1 DEF MaterialRecords

\* What is read last, the recipes.
IsOpened(r, c, l) == r = [c EXCEPT !.recipes = l.recipes]

\* The parts of what was read from the file of d.
LEMMA OpenedHas ==
    ASSUME NEW d, Valid(d), NEW l, IsListed(l, d), Readable(l), NEW e, e \in Documents,
           IsReadFrom(e, l, d), Valid(e), Exact(e), NEW c, IsTyped(c, e, l), NEW r, IsOpened(r, c, l)
    PROVE  /\ Valid(r) /\ IsReadFrom(r, l, d) /\ r.recipes = d.recipes
           /\ DOMAIN r.couplings = DOMAIN e.couplings
           /\ \A p \in DOMAIN e.couplings : p \in DOMAIN l.couplings =>
                 r.couplings[p] = l.couplings[p]
<1>1. Valid(c)
  BY TypesReadIs
<1>2. c = [e EXCEPT !.couplings = c.couplings]
  BY TypesReadIs
<1>3. DOMAIN c.couplings = DOMAIN e.couplings
  BY TypesReadIs
<1>4. \A p \in DOMAIN e.couplings : p \in DOMAIN l.couplings => c.couplings[p] = l.couplings[p]
  BY TypesReadIs
<1>5. /\ c.fields = e.fields /\ c.materials = e.materials /\ c.labels = e.labels
      /\ c.order = e.order
  BY <1>2 DEF Documents
<1>6. PICK rs : rs = l.recipes
  OBVIOUS
<1>7. rs = d.recipes /\ c.fields = d.fields
  BY <1>5, <1>6, ListedHas DEF IsReadFrom
<1>8. rs \in SUBSET [field : FieldsOf(c), labels : SUBSET Nat]
  <2>1. /\ d.recipes \subseteq [field : FieldIds, labels : SUBSET Nat]
        /\ \A q \in d.recipes : q.field \in FieldsOf(d)
    BY ValidHas, PartsOf
  <2>2. FieldsOf(c) = FieldsOf(d)
    BY <1>7 DEF FieldsOf
  <2> QED BY <1>7, <2>1, <2>2
<1>9. r = [c EXCEPT !.recipes = rs]
  BY <1>6 DEF IsOpened
<1>10. Valid(r) /\ r.couplings = c.couplings
  BY <1>1, <1>8, <1>9, RecipeAddedIsValid
<1>11. c \in Documents
  BY <1>1, ValidHas
<1>12. /\ r.fields = c.fields /\ r.materials = c.materials /\ r.labels = c.labels
       /\ r.order = c.order /\ r.recipes = rs
  BY <1>9, <1>11 DEF Documents
<1>13. IsReadFrom(r, l, d)
  BY <1>5, <1>12 DEF IsReadFrom
<1> QED BY <1>3, <1>4, <1>7, <1>10, <1>12, <1>13

\* A document that was read from the file of d is written to that file.
LEMMA WrittenAgain ==
    ASSUME NEW d, Valid(d), NEW l, IsListed(l, d), Readable(l), Distinct(l.points),
           NEW r, Valid(r), IsReadFrom(r, l, d), r.recipes = d.recipes,
           \A p \in DOMAIN l.couplings : r.couplings[p] = l.couplings[p],
           NEW k, IsListed(k, r)
    PROVE  SameFile(k, l)
<1>1. FieldsOf(r) = FieldsOf(d)
  BY DEF IsReadFrom, FieldsOf
<1>2. k.analysis = l.analysis /\ k.recipes = l.recipes
  <2>1. k.analysis = r.fields /\ k.recipes = r.recipes
    BY ListedHas
  <2>2. l.analysis = d.fields /\ l.recipes = d.recipes
    BY ListedHas
  <2> QED BY <2>1, <2>2 DEF IsReadFrom
<1>3. k.points = l.points
  <2>1. IsMap(k.points) /\ DOMAIN k.points = DOMAIN r.labels
        /\ \A i \in DOMAIN r.labels : k.points[i] = r.labels[i].point
    BY ListedHas
  <2>2. IsMap(l.points) /\ DOMAIN l.points = DOMAIN d.labels
        /\ \A i \in DOMAIN d.labels : l.points[i] = d.labels[i].point
    BY ListedHas
  <2>3. DOMAIN r.labels = DOMAIN d.labels
        /\ \A i \in DOMAIN d.labels : r.labels[i].point = d.labels[i].point
    BY DEF IsReadFrom
  <2>4. DOMAIN k.points = DOMAIN l.points /\ \A i \in DOMAIN k.points : k.points[i] = l.points[i]
    BY <2>1, <2>2, <2>3
  <2> QED BY <2>1, <2>2, <2>4 DEF IsMap
<1>4. k.materials = l.materials
  <2>1. IsMap(k.materials) /\ DOMAIN k.materials = FieldsOf(r)
        /\ \A f \in FieldsOf(r) : k.materials[f] = MaterialRecords(r, f)
    BY ListedHas
  <2>2. IsMap(l.materials) /\ DOMAIN l.materials = FieldsOf(d)
        /\ \A f \in FieldsOf(d) : l.materials[f] = MaterialRecords(d, f)
    BY ListedHas
  <2>3. \A f : MaterialRecords(r, f) = MaterialRecords(d, f)
    BY MaterialsWrittenAgain DEF IsReadFrom
  <2>4. DOMAIN k.materials = DOMAIN l.materials
        /\ \A f \in DOMAIN k.materials : k.materials[f] = l.materials[f]
    BY <1>1, <2>1, <2>2, <2>3
  <2> QED BY <2>1, <2>2, <2>4 DEF IsMap
<1>5. k.order = l.order
  <2>1. IsMap(k.order) /\ DOMAIN k.order = FieldsOf(r)
        /\ \A f \in FieldsOf(r) : k.order[f] = OrderPairs(r, f)
    BY ListedHas
  <2>2. IsMap(l.order) /\ DOMAIN l.order = FieldsOf(d)
        /\ \A f \in FieldsOf(d) : l.order[f] = OrderPairs(d, f)
    BY ListedHas
  <2>3. \A f \in FieldsOf(d) : OrderPairs(r, f) = OrderPairs(d, f)
    BY OrdersWrittenAgain
  <2>4. DOMAIN k.order = DOMAIN l.order /\ \A f \in DOMAIN k.order : k.order[f] = l.order[f]
    BY <1>1, <2>1, <2>2, <2>3
  <2> QED BY <2>1, <2>2, <2>4 DEF IsMap
<1>6. k.couplings = r.couplings
  BY ListedHas
<1>7. DOMAIN k = {"analysis", "points", "materials", "order", "couplings", "recipes"}
  BY ListedHas
<1>8. \A part \in DOMAIN k \ {"couplings"} : k[part] = l[part]
  BY <1>2, <1>3, <1>4, <1>5, <1>7
<1> QED BY <1>6, <1>8 DEF SameFile

\* The same, step by step of the reader.
LEMMA OpenedIsWritten ==
    ASSUME NEW d, Valid(d), NEW l, IsListed(l, d), Readable(l), Distinct(l.points),
           NEW e, e \in Documents, IsReadFrom(e, l, d), Valid(e), Exact(e),
           DOMAIN l.couplings \subseteq DOMAIN e.couplings, NEW c, IsTyped(c, e, l),
           NEW r, IsOpened(r, c, l), NEW k, IsListed(k, r)
    PROVE  SameFile(k, l)
<1>1. Valid(r)
  BY OpenedHas
<1>2. IsReadFrom(r, l, d)
  BY OpenedHas
<1>3. r.recipes = d.recipes
  BY OpenedHas
<1>4. \A p \in DOMAIN l.couplings : r.couplings[p] = l.couplings[p]
  BY OpenedHas
<1> QED BY <1>1, <1>2, <1>3, <1>4, WrittenAgain

\* The file of a document with labels at distinct points, read and written, is that file.
LEMMA OpenedIsSame ==
    ASSUME NEW d, Valid(d), NEW l, IsListed(l, d), Distinct(l.points), ReadFailure(l) = ""
    PROVE  SameFile(Listed(Read(l)), l)
<1>1. FileOK(l)
  BY ListedIsFile
<1>2. Readable(l) /\ DOMAIN l.couplings \subseteq DOMAIN FieldsRead(l).couplings
  <2>1. PICK P : P = OrderPositions(l) \cup MarkedPositions(l)
    OBVIOUS
  <2>2. LookupFailure(l, P) = ""
    BY <2>1 DEF ReadFailure
  <2> QED BY <1>1, <2>1, <2>2, LookupsSucceed
<1>3. PICK e : e = FieldsRead(l)
  OBVIOUS
<1>4. e \in Documents /\ IsReadFrom(e, l, d)
  BY <1>2, <1>3, ReadOfListed
<1>5. Valid(e) /\ Exact(e)
  BY <1>2, <1>3, FieldsReadAre DEF ReadUpTo
<1>6. PICK c : c = TypesRead(e, l)
  OBVIOUS
<1>7. IsTyped(c, e, l)
  BY <1>6 DEF IsTyped
<1>8. PICK r : r = [c EXCEPT !.recipes = l.recipes]
  OBVIOUS
<1>9. IsOpened(r, c, l)
  BY <1>8 DEF IsOpened
<1>10. Readable(l)
  BY <1>2
<1>11. DOMAIN l.couplings \subseteq DOMAIN e.couplings
  BY <1>2, <1>3
<1>13. PICK k : k = Listed(r)
  OBVIOUS
<1>14. IsListed(k, r)
  BY <1>13 DEF IsListed
<1>15. SameFile(k, l)
  BY <1>4, <1>5, <1>7, <1>9, <1>10, <1>11, <1>14, OpenedIsWritten
<1> QED BY <1>3, <1>6, <1>8, <1>13, <1>15 DEF Read

-----------------------------------------------------------------------------
(* The inductive invariant, action by action.                              *)

\* The commands of the undo stack.
Commands ==
    [kind : {"add", "remove", "edit"}, point : Points, to : Points, marker : Markings]

\* No more commands are done than the stack has.
StackOK ==
    /\ stack \in [commands : Seq(Commands), done : Nat]
    /\ stack.done <= Len(stack.commands)

\* The computation is a valid document whose couplings are those with weak forms.
ComputationOK ==
    computation # NoDocument => Valid(computation) /\ Exact(computation)

\* The file can be read, but for the labels and couplings it names.
FileIsOK == file # NoFile => FileOK(file)

\* The program stops only at a lookup.
RunOK ==
    /\ failed \in {"", "label", "coupling", "field", "recipe"}
    /\ edits \in 0 .. MaxEdits

\* The problem is a valid document.
ProblemOK == Valid(problem)

\* The inductive invariant.
IInv == ProblemOK /\ ComputationOK /\ FileIsOK /\ StackOK /\ RunOK


\* The start of the program.
LEMMA InitIsOK == ASSUME Init PROVE IInv
<1>1. ProblemOK
  <2>1. CASE problem = NewDocument
    BY <2>1, NewIsValid DEF ProblemOK
  <2>2. CASE problem # NewDocument
    <3>1. PICK l \in Files : problem = Read(l)
      BY <2>2 DEF Init
    <3>2. FileOK(l) /\ LookupFailure(l, OrderPositions(l) \cup MarkedPositions(l)) = ""
      BY FilesAssumption DEF ReadFailure
    <3>3. Readable(l)
      <4>1. PICK P : P = OrderPositions(l) \cup MarkedPositions(l)
        OBVIOUS
      <4> QED BY <3>2, <4>1, LookupsSucceed
    <3>4. Valid(Read(l))
      BY <3>3, ReadIsValid
    <3> QED BY <3>1, <3>4 DEF ProblemOK
  <2> QED BY <2>1, <2>2
<1>2. ComputationOK /\ FileIsOK
  BY DEF Init, ComputationOK, FileIsOK
<1>3. StackOK
  <2>1. stack = [commands |-> <<>>, done |-> 0]
    BY DEF Init
  <2> HIDE DEF Commands
  <2>2. <<>> \in Seq(Commands) /\ Len(<<>>) = 0
    OBVIOUS
  <2> QED BY <2>1, <2>2 DEF StackOK
<1>4. RunOK
  <2>1. MaxEdits \in Nat
    BY BoundsAssumption
  <2>2. edits = 0 /\ failed = ""
    BY DEF Init
  <2>3. edits \in 0 .. MaxEdits
    <3>1. 0 \in 0 .. MaxEdits
      BY <2>1
    <3> QED BY <2>2, <3>1
  <2> QED BY <2>2, <2>3 DEF RunOK
<1> QED BY <1>1, <1>2, <1>3, <1>4 DEF IInv

\* An edit leaves a valid document.
LEMMA EditKeeps ==
    ASSUME IInv, NEW d, Edited(d), Valid(d), StackOK'
    PROVE  IInv'
<1>1. ProblemOK'
  BY DEF Edited, ProblemOK
<1>2. ComputationOK' /\ FileIsOK'
  BY DEF IInv, Edited, ComputationOK, FileIsOK
<1>3. RunOK'
  <2>1. MaxEdits \in Nat
    BY BoundsAssumption
  <2>2. edits' \in 0 .. MaxEdits
    <3>1. edits \in 0 .. MaxEdits /\ edits < MaxEdits /\ edits' = edits + 1
      BY DEF IInv, Edited, RunOK
    <3> QED BY <2>1, <3>1
  <2>3. failed' = failed
    BY DEF Edited
  <2> QED BY <2>2, <2>3 DEF IInv, RunOK
<1> QED BY <1>1, <1>2, <1>3 DEF IInv

\* An edit that is no command.
LEMMA PlainEditKeeps ==
    ASSUME IInv, NEW d, Edited(d), Valid(d), UNCHANGED stack
    PROVE  IInv'
<1>1. StackOK'
  BY DEF IInv, StackOK
<1> QED BY <1>1, EditKeeps

\* A command is pushed over what was undone.
LEMMA PushedIsOK ==
    ASSUME StackOK, NEW c \in Commands, Pushed(c)
    PROVE  StackOK'
<1> HIDE DEF Commands
<1>1. PICK s : s = SubSeq(stack.commands, 1, stack.done)
  OBVIOUS
<1>2. stack.commands \in Seq(Commands) /\ stack.done \in Nat /\ stack.done <= Len(stack.commands)
  BY DEF StackOK
<1>3. s \in Seq(Commands) /\ Len(s) = stack.done
  BY <1>1, <1>2
<1>4. Append(s, c) \in Seq(Commands) /\ Len(Append(s, c)) = stack.done + 1
  BY <1>2, <1>3, AppendProperties
<1>5. stack' = [commands |-> Append(s, c), done |-> stack.done + 1]
  BY <1>1 DEF Pushed
<1> QED BY <1>2, <1>4, <1>5 DEF StackOK

\* An edit that is a command.
LEMMA CommandKeeps ==
    ASSUME IInv, NEW d, Edited(d), Valid(d), NEW c \in Commands, Pushed(c)
    PROVE  IInv'
<1>1. StackOK'
  BY PushedIsOK DEF IInv
<1> QED BY <1>1, EditKeeps

\* addField keeps the invariant.
LEMMA AddFieldKeeps ==
    ASSUME IInv, NEW f \in FieldIds, NEW a \in AnalysesOf[f], AddField(f, a)
    PROVE  IInv'
<1>1. PICK d : d = FieldAdded(problem, f, a, <<>>)
  OBVIOUS
<1>2. Edited(d) /\ UNCHANGED stack /\ f \notin FieldsOf(problem)
  BY <1>1 DEF AddField
<1>3. Valid(d)
  BY <1>1, <1>2, AddedIsValid DEF IInv, ProblemOK
<1> QED BY <1>2, <1>3, PlainEditKeeps

\* removeField keeps the invariant.
LEMMA RemoveFieldKeeps ==
    ASSUME IInv, NEW f \in FieldIds, RemoveField(f)
    PROVE  IInv'
<1>1. PICK d : d = FieldRemoved(problem, f)
  OBVIOUS
<1>2. Edited(d) /\ UNCHANGED stack
  BY <1>1 DEF RemoveField
<1>3. Valid(d)
  BY <1>1, RemovedIsValid DEF IInv, ProblemOK
<1> QED BY <1>2, <1>3, PlainEditKeeps

\* Another analysis keeps the invariant: no part but the couplings depends on it.
LEMMA SetAnalysisTypeKeeps ==
    ASSUME IInv, NEW f \in FieldIds, NEW a \in AnalysesOf[f], SetAnalysisType(f, a)
    PROVE  IInv'
<1>1. PICK d : d = [problem EXCEPT !.fields[f] = a]
  OBVIOUS
<1>2. Edited(d) /\ UNCHANGED stack /\ f \in FieldsOf(problem)
  BY <1>1 DEF SetAnalysisType
<1>3. Valid(d)
  BY <1>1, <1>2, AnalysedIsValid DEF IInv, ProblemOK
<1> QED BY <1>2, <1>3, PlainEditKeeps

\* The dialog of the problem keeps the invariant.
LEMMA SaveProblemDialogKeeps ==
    ASSUME IInv, SaveProblemDialog
    PROVE  IInv'
<1>1. PICK s : s = Synchronized(problem)
  OBVIOUS
<1>2. Valid(s)
  BY <1>1, SynchronizedIsValid DEF IInv, ProblemOK
<1>3. PICK types \in [DOMAIN s.couplings -> CouplingTypes] : Edited([s EXCEPT !.couplings = types])
  BY <1>1 DEF SaveProblemDialog
<1>4. types \in Maps(Couples, CouplingTypes)
  <2>1. s.couplings \in Maps(Couples, CouplingTypes)
    BY <1>2, ValidHas, PartsOf
  <2>2. DOMAIN s.couplings \subseteq Couples
    BY <2>1, MapsDef
  <2>3. IsMap(types) /\ DOMAIN types = DOMAIN s.couplings
    BY <1>3 DEF IsMap
  <2> QED BY <1>3, <2>2, <2>3, MapsDef
<1>5. PICK d : d = [s EXCEPT !.couplings = types]
  OBVIOUS
<1>6. Valid(d)
  BY <1>2, <1>4, <1>5, CoupledIsValid
<1>7. Edited(d) /\ UNCHANGED stack
  BY <1>3, <1>5 DEF SaveProblemDialog
<1> QED BY <1>6, <1>7, PlainEditKeeps

\* A coupling that the problem does not have stops the program.
LEMMA SetCouplingTypeKeeps ==
    ASSUME IInv, NEW p \in Couples, NEW type \in CouplingTypes, SetCouplingType(p, type)
    PROVE  IInv'
<1>1. CASE p \in DOMAIN problem.couplings
  <2>1. PICK m : m = [problem.couplings EXCEPT ![p] = type]
    OBVIOUS
  <2>2. PICK d : d = [problem EXCEPT !.couplings = m]
    OBVIOUS
  <2>3. Edited(d) /\ UNCHANGED stack
    BY <1>1, <2>1, <2>2 DEF SetCouplingType
  <2>4. m \in Maps(Couples, CouplingTypes)
    <3>1. problem.couplings \in Maps(Couples, CouplingTypes)
      BY ValidHas, PartsOf DEF IInv, ProblemOK
    <3>2. IsMap(problem.couplings) /\ DOMAIN problem.couplings \subseteq Couples
          /\ \A x \in DOMAIN problem.couplings : problem.couplings[x] \in CouplingTypes
      BY <3>1, MapsDef
    <3>3. IsMap(m) /\ DOMAIN m = DOMAIN problem.couplings
          /\ \A x \in DOMAIN m : m[x] \in CouplingTypes
      BY <2>1, <3>2 DEF IsMap
    <3> QED BY <3>2, <3>3, MapsDef
  <2>5. Valid(d)
    BY <2>2, <2>4, CoupledIsValid DEF IInv, ProblemOK
  <2> QED BY <2>3, <2>5, PlainEditKeeps
<1>2. CASE p \notin DOMAIN problem.couplings
  <2>1. failed' = "coupling" /\ UNCHANGED <<problem, computation, file, scripted, edits, stack>>
    BY <1>2 DEF SetCouplingType
  <2> QED BY <2>1 DEF IInv, ProblemOK, ComputationOK, FileIsOK, StackOK, RunOK
<1> QED BY <1>1, <1>2

\* addMaterial keeps the invariant.
LEMMA AddMaterialKeeps ==
    ASSUME IInv, NEW f \in FieldIds, NEW n \in Names, AddMaterial(f, n)
    PROVE  IInv'
<1>1. PICK d : d = [problem EXCEPT !.materials = problem.materials \cup {<<f, n>>}]
  OBVIOUS
<1>2. Edited(d) /\ UNCHANGED stack /\ f \in FieldsOf(problem)
  BY <1>1 DEF AddMaterial
<1>3. Valid(d)
  BY <1>1, <1>2, MaterialAddedIsValid DEF IInv, ProblemOK
<1> QED BY <1>2, <1>3, PlainEditKeeps

\* removeMaterial keeps the invariant.
LEMMA RemoveMaterialKeeps ==
    ASSUME IInv, NEW f \in FieldIds, NEW n \in Names, RemoveMaterial(f, n)
    PROVE  IInv'
<1>1. PICK d : d = MaterialRemoved(problem, f, n)
  OBVIOUS
<1>2. Edited(d) /\ UNCHANGED stack /\ <<f, n>> \in problem.materials
  BY <1>1 DEF RemoveMaterial
<1>3. Valid(d)
  BY <1>1, <1>2, MaterialRemovedIsValid DEF IInv, ProblemOK
<1> QED BY <1>2, <1>3, PlainEditKeeps

\* A recipe of a field of the problem keeps the invariant.
LEMMA AddRecipeKeeps ==
    ASSUME IInv, NEW f \in FieldIds, NEW s \in SUBSET DOMAIN problem.labels, AddRecipe(f, s)
    PROVE  IInv'
<1>1. PICK rs : rs = problem.recipes \cup {[field |-> f, labels |-> s]}
  OBVIOUS
<1>2. PICK d : d = [problem EXCEPT !.recipes = rs]
  OBVIOUS
<1>3. Edited(d) /\ UNCHANGED stack /\ f \in FieldsOf(problem)
  BY <1>1, <1>2 DEF AddRecipe
<1>4. rs \in SUBSET [field : FieldsOf(problem), labels : SUBSET Nat]
  <2>1. /\ problem.recipes \subseteq [field : FieldIds, labels : SUBSET Nat]
        /\ \A r \in problem.recipes : r.field \in FieldsOf(problem)
        /\ DOMAIN problem.labels = 1 .. Len(problem.labels) /\ Len(problem.labels) \in Nat
    BY ValidHas, PartsOf DEF IInv, ProblemOK
  <2>2. s \in SUBSET Nat
    BY <2>1
  <2> QED BY <1>1, <1>3, <2>1, <2>2
<1>5. Valid(d)
  BY <1>2, <1>4, RecipeAddedIsValid DEF IInv, ProblemOK
<1> QED BY <1>3, <1>5, PlainEditKeeps

\* removeLabels keeps the invariant.
LEMMA RemoveLabelsKeeps ==
    ASSUME IInv, RemoveLabels
    PROVE  IInv'
<1>1. ProblemOK'
  BY RemoveLabelsIsValid DEF IInv, ProblemOK
<1>2. /\ UNCHANGED <<computation, file, failed, scripted, stack>>
      /\ edits < MaxEdits /\ edits' = edits + 1
  BY RemoveLabelsIsEdited
<1>3. RunOK'
  <2>1. MaxEdits \in Nat
    BY BoundsAssumption
  <2>2. edits \in 0 .. MaxEdits
    BY DEF IInv, RunOK
  <2>3. edits' \in 0 .. MaxEdits
    BY <1>2, <2>1, <2>2
  <2> QED BY <1>2, <2>3 DEF IInv, RunOK
<1>4. ComputationOK' /\ FileIsOK' /\ StackOK'
  BY <1>2 DEF IInv, ComputationOK, FileIsOK, StackOK
<1> QED BY <1>1, <1>3, <1>4 DEF IInv

\* The parts of a label of the problem.
LEMMA LabelHas ==
    ASSUME NEW d, Valid(d), NEW i \in DOMAIN d.labels
    PROVE  /\ d.labels[i].point \in Points /\ d.labels[i].marker \in Markings
           /\ d.labels[i].at \in Places
<1>1. PICK l : l = d.labels[i]
  OBVIOUS
<1>2. l \in Labels
  BY <1>1, ValidHas, PartsOf
<1>3. l.point \in Points /\ l.marker \in Markings /\ l.at \in Places
  BY <1>2 DEF Labels
<1> QED BY <1>1, <1>3

\* A command with a marker.
LEMMA CommandIs ==
    ASSUME NEW kind \in {"add", "remove", "edit"}, NEW from \in Points, NEW to \in Points,
           NEW marker \in Markings
    PROVE  Command(kind, from, to, marker) \in Commands
BY DEF Command, Commands

\* Memory that is allocated holds no label of the problem.
LEMMA FreeIs ==
    ASSUME NEW a \in Free
    PROVE  a \in Places /\ a \notin AddressesOf(problem)
BY DEF Free, Places

\* A label of a script keeps the invariant.
LEMMA AddLabelKeeps ==
    ASSUME IInv, NEW a \in Addresses, NEW p \in Points, NEW m, NEW ordered,
           NEW o \in LocalOrders, AddLabel(a, p, m, ordered, o)
    PROVE  IInv'
<1>1. PICK d : d = LabelWith(problem, a, p, m, ordered, o)
  OBVIOUS
<1>2. Edited(d) /\ UNCHANGED stack /\ a \in Free
  BY <1>1 DEF AddLabel
<1>3. Valid(d)
  BY <1>1, <1>2, FreeIs, LabelWithIsValid DEF IInv, ProblemOK
<1> QED BY <1>2, <1>3, PlainEditKeeps

\* A label of the dialog keeps the invariant.
LEMMA NewLabelKeeps ==
    ASSUME IInv, NEW a \in Addresses, NEW p \in Points, NEW m, NEW ordered,
           NEW o \in LocalOrders, NewLabel(a, p, m, ordered, o)
    PROVE  IInv'
<1>1. PICK d : d = LabelWith(problem, a, p, m, ordered, o)
  OBVIOUS
<1>2. PICK c : c = Command("add", p, p, d.labels[Len(d.labels)].marker)
  OBVIOUS
<1>3. Edited(d) /\ Pushed(c) /\ a \in Free
  BY <1>1, <1>2 DEF NewLabel
<1>4. Valid(d) /\ DOMAIN d.labels = 1 .. Len(problem.labels) + 1
  BY <1>1, <1>3, FreeIs, LabelWithIsValid DEF IInv, ProblemOK
<1>5. Len(d.labels) \in DOMAIN d.labels
  <2>1. Len(problem.labels) \in Nat
    BY ValidHas, PartsOf DEF IInv, ProblemOK
  <2>2. Len(d.labels) \in Nat /\ DOMAIN d.labels = 1 .. Len(d.labels)
    BY <1>4, ValidHas, PartsOf
  <2>3. Len(d.labels) = Len(problem.labels) + 1
    BY <1>4, <2>1, <2>2, SameInterval
  <2> QED BY <2>1, <2>2, <2>3
<1>6. c \in Commands
  BY <1>2, <1>4, <1>5, LabelHas, CommandIs
<1> QED BY <1>3, <1>4, <1>6, CommandKeeps

\* A label that is deleted again leaves orders and none markers; the invariant is kept.
LEMMA AddLabelRefusedKeeps ==
    ASSUME IInv, NEW a \in Addresses, NEW p \in Points, NEW ordered,
           NEW o \in LocalOrders, AddLabelRefused(a, p, ordered, o)
    PROVE  IInv'
<1>1. PICK os : os = [f \in FieldsOf(problem) |->
                         IF f \in ordered THEN With(problem.order[f], a, o) ELSE problem.order[f]]
  OBVIOUS
<1>2. PICK e : e = [problem EXCEPT !.order = os]
  OBVIOUS
<1>3. PICK ns : ns = problem.none \cup FieldsOf(problem)
  OBVIOUS
<1>4. PICK d : d = [problem EXCEPT !.order = os, !.none = ns]
  OBVIOUS
<1>5. Edited(d) /\ UNCHANGED stack /\ a \in Free
  BY <1>1, <1>3, <1>4 DEF AddLabelRefused
<1>6. Valid(problem)
  BY DEF IInv, ProblemOK
<1>7. Valid(e)
  BY <1>1, <1>2, <1>5, <1>6, FreeIs, SomeOrdered, OrderedIsValid
<1>8. /\ e \in Documents /\ problem \in Documents /\ ns = FieldsOf(problem)
      /\ FieldsOf(problem) \subseteq FieldIds
  BY <1>3, <1>6, <1>7, ValidHas, PartsOf
<1>9. /\ d \in Documents /\ d.fields = e.fields /\ d.labels = e.labels /\ d.materials = e.materials
      /\ d.none = ns /\ d.recipes = e.recipes /\ d.order = e.order /\ d.fields = problem.fields
      /\ e.none = problem.none
  <2>1. os \in Maps(FieldIds, Maps(Places, LocalOrders))
    <3>1. e.order = os
      BY <1>2, <1>8 DEF Documents
    <3> QED BY <1>8, <3>1, PartsOf
  <2> QED BY <1>2, <1>4, <1>8, <2>1 DEF Documents
<1>10. FieldsOf(e) = FieldsOf(problem)
  BY <1>9 DEF FieldsOf
<1>11. /\ \A m \in d.materials : m[1] \in FieldsOf(e)
       /\ \A r \in d.recipes : r.field \in FieldsOf(e)
       /\ DOMAIN d.order = FieldsOf(e) /\ e.none \subseteq d.none /\ d.none \subseteq FieldsOf(e)
  BY <1>3, <1>7, <1>8, <1>9, <1>10, ValidHas
<1>12. Valid(d)
  BY <1>7, <1>9, <1>11, GrownIsValid
<1> QED BY <1>5, <1>12, PlainEditKeeps

\* removeLabels of one label keeps the invariant.
LEMMA RemoveLabelKeeps ==
    ASSUME IInv, NEW i \in DOMAIN problem.labels, RemoveLabel(i)
    PROVE  IInv'
<1>1. PICK d : d = LabelRemoved(problem, i)
  OBVIOUS
<1>2. Edited(d) /\ UNCHANGED stack
  BY <1>1 DEF RemoveLabel
<1>3. Valid(d)
  BY <1>1, LabelRemovedIsValid DEF IInv, ProblemOK
<1> QED BY <1>2, <1>3, PlainEditKeeps

\* A label deleted in the preprocessor keeps the invariant.
LEMMA DeleteLabelKeeps ==
    ASSUME IInv, NEW i \in DOMAIN problem.labels, DeleteLabel(i)
    PROVE  IInv'
<1>1. PICK d : d = LabelRemoved(problem, i)
  OBVIOUS
<1>2. PICK c : c = Command("remove", problem.labels[i].point, problem.labels[i].point,
                           problem.labels[i].marker)
  OBVIOUS
<1>3. Edited(d) /\ Pushed(c)
  BY <1>1, <1>2 DEF DeleteLabel
<1>4. Valid(problem)
  BY DEF IInv, ProblemOK
<1>5. Valid(d)
  BY <1>1, <1>4, LabelRemovedIsValid
<1>6. c \in Commands
  BY <1>2, <1>4, LabelHas, CommandIs
<1> QED BY <1>3, <1>5, <1>6, CommandKeeps

\* A label that is moved keeps the invariant.
LEMMA EditLabelKeeps ==
    ASSUME IInv, NEW i \in DOMAIN problem.labels, NEW p \in Points, EditLabel(i, p)
    PROVE  IInv'
<1>1. PICK d : d = [problem EXCEPT !.labels[i].point = p]
  OBVIOUS
<1>2. PICK c : c = Command("edit", problem.labels[i].point, p, <<>>)
  OBVIOUS
<1>3. Edited(d) /\ Pushed(c)
  BY <1>1, <1>2 DEF EditLabel
<1>4. Valid(problem)
  BY DEF IInv, ProblemOK
<1>5. Valid(d)
  BY <1>1, <1>4, PointedIsValid
<1>6. c \in Commands
  <2>1. <<>> \in Markings
    BY EmptyMap DEF Markings
  <2> QED BY <1>2, <1>4, <2>1, LabelHas, CommandIs
<1> QED BY <1>3, <1>5, <1>6, CommandKeeps

\* Another marker keeps the invariant: it is a material of the problem, or none.
LEMMA SetMaterialKeeps ==
    ASSUME IInv, NEW i \in DOMAIN problem.labels,
           NEW m \in problem.materials \cup (FieldsOf(problem) \X {"none"}), SetMaterial(i, m)
    PROVE  IInv'
<1>1. PICK f : f = m[1]
  OBVIOUS
<1>2. PICK n : n = m[2]
  OBVIOUS
<1>3. PICK d : d = Marked(problem, i, f, n)
  OBVIOUS
<1>4. Edited(d) /\ UNCHANGED stack
  BY <1>1, <1>2, <1>3 DEF SetMaterial
<1>5. Valid(problem)
  BY DEF IInv, ProblemOK
<1>6. f \in FieldsOf(problem) /\ (n # "none" => <<f, n>> \in problem.materials)
  <2>1. problem.materials \subseteq FieldIds \X Names
        /\ \A q \in problem.materials : q[1] \in FieldsOf(problem)
    BY <1>5, ValidHas, PartsOf
  <2>2. m = <<f, n>>
    BY <1>1, <1>2, <2>1
  <2> QED BY <1>1, <1>2, <2>1, <2>2
<1>7. Valid(d)
  BY <1>3, <1>5, <1>6, MarkedIsValid
<1> QED BY <1>4, <1>7, PlainEditKeeps

\* The orders of one field in a valid document.
LEMMA OrderHas ==
    ASSUME NEW d, Valid(d), NEW f \in FieldsOf(d)
    PROVE  d.order[f] \in Maps(Places, LocalOrders)
<1>1. d.order \in Maps(FieldIds, Maps(Places, LocalOrders)) /\ DOMAIN d.order = FieldsOf(d)
  BY ValidHas, PartsOf
<1> QED BY <1>1, MapsDef

\* An order of a label keeps the invariant.
LEMMA SetLabelPolynomialOrderKeeps ==
    ASSUME IInv, NEW i \in DOMAIN problem.labels, NEW f \in FieldsOf(problem),
           NEW o \in LocalOrders, SetLabelPolynomialOrder(i, f, o)
    PROVE  IInv'
<1>1. PICK a : a = problem.labels[i].at
  OBVIOUS
<1>2. PICK w : w = With(problem.order[f], a, o)
  OBVIOUS
<1>3. PICK d : d = [problem EXCEPT !.order[f] = w]
  OBVIOUS
<1>4. Edited(d) /\ UNCHANGED stack
  BY <1>1, <1>2, <1>3 DEF SetLabelPolynomialOrder
<1>5. Valid(problem)
  BY DEF IInv, ProblemOK
<1>6. w \in Maps(Places, LocalOrders)
  BY <1>1, <1>2, <1>5, OrderHas, LabelHas, WithIsMap
<1>7. Valid(d)
  BY <1>3, <1>5, <1>6, OneOrdered
<1> QED BY <1>4, <1>7, PlainEditKeeps

\* An order of a label that is taken away keeps the invariant.
LEMMA RemoveLabelPolynomialOrderKeeps ==
    ASSUME IInv, NEW i \in DOMAIN problem.labels, NEW f \in FieldsOf(problem),
           RemoveLabelPolynomialOrder(i, f)
    PROVE  IInv'
<1>1. PICK a : a = problem.labels[i].at
  OBVIOUS
<1>2. PICK w : w = Without(problem.order[f], a)
  OBVIOUS
<1>3. PICK d : d = [problem EXCEPT !.order[f] = w]
  OBVIOUS
<1>4. Edited(d) /\ UNCHANGED stack
  BY <1>1, <1>2, <1>3 DEF RemoveLabelPolynomialOrder
<1>5. Valid(problem)
  BY DEF IInv, ProblemOK
<1>6. w \in Maps(Places, LocalOrders)
  BY <1>2, <1>5, OrderHas, WithoutIsMap
<1>7. Valid(d)
  BY <1>3, <1>5, <1>6, OneOrdered
<1> QED BY <1>4, <1>7, PlainEditKeeps

\* What a command does to the document when it is undone or done again.
LEMMA CommandIsValid ==
    ASSUME Valid(problem), NEW c \in Commands,
           NEW e, e \in {Taken(problem, c.point)} \cup PutSomewhere(problem, c)
                       \cup {Moved(problem, c.to, c.point), Moved(problem, c.point, c.to)}
    PROVE  Valid(e)
<1>1. c.point \in Points /\ c.to \in Points
  BY DEF Commands
<1>2. CASE e = Taken(problem, c.point)
  BY <1>2, TakenIsValid
<1>3. CASE e \in PutSomewhere(problem, c)
  BY <1>1, <1>3, PutSomewhereIsValid
<1>4. CASE e = Moved(problem, c.to, c.point)
  BY <1>1, <1>4, MovedIsValid
<1>5. CASE e = Moved(problem, c.point, c.to)
  BY <1>1, <1>5, MovedIsValid
<1> QED BY <1>2, <1>3, <1>4, <1>5

\* An undo keeps the invariant.
LEMMA UndoKeeps ==
    ASSUME IInv, Undo
    PROVE  IInv'
<1> HIDE DEF Commands
<1>1. PICK c : c = stack.commands[stack.done]
  OBVIOUS
<1>2. /\ stack \in [commands : Seq(Commands), done : Nat] /\ stack.done <= Len(stack.commands)
      /\ stack.done > 0
  BY DEF IInv, StackOK, Undo
<1>3. c \in Commands
  BY <1>1, <1>2
<1>4. StackOK'
  <2>1. stack' = [stack EXCEPT !.done = stack.done - 1]
    BY DEF Undo
  <2>2. stack' \in [commands : Seq(Commands), done : Nat] /\ stack'.done <= Len(stack'.commands)
    BY <1>2, <2>1
  <2> QED BY <2>2 DEF StackOK
<1>5. PICK d \in CASE c.kind = "add"    -> {Taken(problem, c.point)}
                   [] c.kind = "remove" -> PutSomewhere(problem, c)
                   [] c.kind = "edit"   -> {Moved(problem, c.to, c.point)} : Edited(d)
  BY <1>1 DEF Undo
<1>6. c.kind \in {"add", "remove", "edit"}
  BY <1>3 DEF Commands
<1>7. d \in {Taken(problem, c.point)} \cup PutSomewhere(problem, c)
            \cup {Moved(problem, c.to, c.point), Moved(problem, c.point, c.to)}
  BY <1>5, <1>6
<1>8. Valid(d)
  BY <1>3, <1>7, CommandIsValid DEF IInv, ProblemOK
<1> QED BY <1>4, <1>5, <1>8, EditKeeps

\* A redo keeps the invariant.
LEMMA RedoKeeps ==
    ASSUME IInv, Redo
    PROVE  IInv'
<1> HIDE DEF Commands
<1>1. PICK c : c = stack.commands[stack.done + 1]
  OBVIOUS
<1>2. /\ stack \in [commands : Seq(Commands), done : Nat]
      /\ stack.done < Len(stack.commands)
  BY DEF IInv, StackOK, Redo
<1>3. c \in Commands
  BY <1>1, <1>2
<1>4. StackOK'
  <2>1. stack' = [stack EXCEPT !.done = stack.done + 1]
    BY DEF Redo
  <2>2. stack' \in [commands : Seq(Commands), done : Nat] /\ stack'.done <= Len(stack'.commands)
    BY <1>2, <2>1
  <2> QED BY <2>2 DEF StackOK
<1>5. PICK d \in CASE c.kind = "add"    -> PutSomewhere(problem, c)
                   [] c.kind = "remove" -> {Taken(problem, c.point)}
                   [] c.kind = "edit"   -> {Moved(problem, c.point, c.to)} : Edited(d)
  BY <1>1 DEF Redo
<1>6. c.kind \in {"add", "remove", "edit"}
  BY <1>3 DEF Commands
<1>7. d \in {Taken(problem, c.point)} \cup PutSomewhere(problem, c)
            \cup {Moved(problem, c.to, c.point), Moved(problem, c.point, c.to)}
  BY <1>5, <1>6
<1>8. Valid(d)
  BY <1>3, <1>7, CommandIsValid DEF IInv, ProblemOK
<1> QED BY <1>4, <1>5, <1>8, EditKeeps

\* A copy that succeeds is a valid document, and its couplings are those with weak forms.
LEMMA CopiedIsValid ==
    ASSUME NEW d, Valid(d), CopyFailure(d) = ""
    PROVE  Valid(Copied(d)) /\ Exact(Copied(d))
<1>1. PICK l : l = Listed(d)
  OBVIOUS
<1>2. IsListed(l, d)
  BY <1>1 DEF IsListed
<1>3. FileOK(l)
  BY <1>2, ListedIsFile
<1>4. PICK P : P = OrderPositions(l) \cup CopiedPositions(l)
  OBVIOUS
<1>5. LookupFailure(l, P) = ""
  BY <1>1, <1>4 DEF CopyFailure
<1>6. Readable(l)
  BY <1>3, <1>4, <1>5, LookupsSucceed
<1>7. Valid(TypesRead(FieldsRead(l), l)) /\ Exact(TypesRead(FieldsRead(l), l))
  BY <1>6, ReadIsValid
<1> QED BY <1>1, <1>7 DEF Copied

\* The computation that was made is valid, or there is the old one.
LEMMA CreatedComputationKeeps ==
    ASSUME IInv,
           computation' = IF CopyFailure(problem) = "" THEN Copied(problem) ELSE computation
    PROVE  ComputationOK'
<1>1. CASE CopyFailure(problem) = ""
  <2>1. Valid(Copied(problem)) /\ Exact(Copied(problem))
    BY <1>1, CopiedIsValid DEF IInv, ProblemOK
  <2>2. computation' = Copied(problem)
    BY <1>1
  <2> QED BY <2>1, <2>2 DEF ComputationOK
<1>2. CASE CopyFailure(problem) # ""
  BY <1>2 DEF IInv, ComputationOK
<1> QED BY <1>1, <1>2

\* What the lookups and the recipes can fail with.
LEMMA FailuresAre ==
    ASSUME NEW l, NEW positions, NEW d
    PROVE  /\ LookupFailure(l, positions) \in {"", "label", "coupling"}
           /\ RecipeFailure(d) \in {"", "field", "recipe"}
BY DEF LookupFailure, RecipeFailure

\* What a copy can fail with.
LEMMA CopyFailureIs ==
    ASSUME NEW d
    PROVE  CopyFailure(d) \in {"", "label", "coupling"}
BY FailuresAre DEF CopyFailure

\* createComputation keeps the invariant.
LEMMA CreateComputationKeeps ==
    ASSUME IInv, CreateComputation
    PROVE  IInv'
<1>1. /\ computation' = IF CopyFailure(problem) = "" THEN Copied(problem) ELSE computation
      /\ failed' = CopyFailure(problem) /\ UNCHANGED <<problem, file, stack, edits>>
  BY DEF CreateComputation
<1>2. ComputationOK'
  BY <1>1, CreatedComputationKeeps
<1>3. RunOK'
  BY <1>1, CopyFailureIs DEF IInv, RunOK
<1> QED BY <1>1, <1>2, <1>3 DEF IInv, ProblemOK, FileIsOK, StackOK

\* createComputation and solve of the menus keep the invariant.
LEMMA CreateAndSolveKeeps ==
    ASSUME IInv, CreateAndSolve
    PROVE  IInv'
<1>1. /\ computation' = IF CopyFailure(problem) = "" THEN Copied(problem) ELSE computation
      /\ failed' = IF CopyFailure(problem) # "" THEN CopyFailure(problem)
                   ELSE IF GeometryIsAssigned(Copied(problem)) THEN RecipeFailure(Copied(problem))
                   ELSE ""
      /\ UNCHANGED <<problem, file, stack, edits>>
  BY DEF CreateAndSolve
<1>2. ComputationOK'
  BY <1>1, CreatedComputationKeeps
<1>3. failed' \in {"", "label", "coupling", "field", "recipe"}
  <2>1. CopyFailure(problem) \in {"", "label", "coupling"}
    BY CopyFailureIs
  <2>2. RecipeFailure(Copied(problem)) \in {"", "field", "recipe"}
    BY FailuresAre
  <2> QED BY <1>1, <2>1, <2>2
<1>4. RunOK'
  BY <1>1, <1>3 DEF IInv, RunOK
<1> QED BY <1>1, <1>2, <1>4 DEF IInv, ProblemOK, FileIsOK, StackOK

\* solve keeps the invariant: it changes no document.
LEMMA SolveComputationKeeps ==
    ASSUME IInv, SolveComputation
    PROVE  IInv'
<1>1. failed' = RecipeFailure(computation) /\ UNCHANGED <<problem, computation, file, stack, edits>>
  BY DEF SolveComputation
<1>2. RunOK'
  BY <1>1, FailuresAre DEF IInv, RunOK
<1> QED BY <1>1, <1>2 DEF IInv, ProblemOK, ComputationOK, FileIsOK, StackOK

\* Saving keeps the invariant: the file of a valid document can be read.
LEMMA SaveProblemKeeps ==
    ASSUME IInv, SaveProblem
    PROVE  IInv'
<1>1. file' = Listed(problem) /\ UNCHANGED <<problem, computation, stack, failed, edits>>
  BY DEF SaveProblem
<1>2. FileIsOK'
  <2>1. PICK l : l = Listed(problem)
    OBVIOUS
  <2>2. IsListed(l, problem)
    BY <2>1 DEF IsListed
  <2>3. FileOK(l)
    BY <2>2, ListedIsFile DEF IInv, ProblemOK
  <2> QED BY <1>1, <2>1, <2>3 DEF FileIsOK
<1> QED BY <1>1, <1>2 DEF IInv, ProblemOK, ComputationOK, RunOK, StackOK

\* Clearing keeps the invariant.
LEMMA ClearProblemKeeps ==
    ASSUME IInv, ClearProblem
    PROVE  IInv'
<1>1. /\ problem' = NewDocument /\ computation' = NoDocument
      /\ UNCHANGED <<file, stack, failed, edits>>
  BY DEF ClearProblem
<1>2. ProblemOK' /\ ComputationOK'
  BY <1>1, NewIsValid DEF ProblemOK, ComputationOK
<1> QED BY <1>1, <1>2 DEF IInv, FileIsOK, RunOK, StackOK

\* Opening keeps the invariant.
LEMMA OpenProblemKeeps ==
    ASSUME IInv, OpenProblem
    PROVE  IInv'
<1>1. /\ failed' = ReadFailure(file) /\ file # NoFile
      /\ problem' = IF ReadFailure(file) = "" THEN Read(file) ELSE NewDocument
      /\ computation' = NoDocument /\ UNCHANGED <<file, stack, edits>>
  BY DEF OpenProblem
<1>2. ProblemOK'
  <2>1. CASE ReadFailure(file) = ""
    <3>1. FileOK(file) /\ LookupFailure(file, OrderPositions(file) \cup MarkedPositions(file)) = ""
      BY <1>1, <2>1 DEF IInv, FileIsOK, ReadFailure
    <3>2. PICK P : P = OrderPositions(file) \cup MarkedPositions(file)
      OBVIOUS
    <3>3. Readable(file)
      BY <3>1, <3>2, LookupsSucceed
    <3>4. Valid(Read(file))
      BY <3>3, ReadIsValid
    <3> QED BY <1>1, <2>1, <3>4 DEF ProblemOK
  <2>2. CASE ReadFailure(file) # ""
    BY <1>1, <2>2, NewIsValid DEF ProblemOK
  <2> QED BY <2>1, <2>2
<1>3. ComputationOK' /\ FileIsOK' /\ StackOK'
  BY <1>1 DEF IInv, ComputationOK, FileIsOK, StackOK
<1>4. RunOK'
  BY <1>1, FailuresAre DEF IInv, RunOK, ReadFailure
<1> QED BY <1>2, <1>3, <1>4 DEF IInv

\* Every edit of fields, couplings, materials and recipes keeps the invariant.
LEMMA EditFieldsKeeps ==
    ASSUME IInv, EditFields
    PROVE  IInv'
<1>1. ASSUME NEW f \in FieldIds, RemoveField(f) PROVE IInv'
  BY <1>1, RemoveFieldKeeps
<1>2. ASSUME NEW f \in FieldIds, NEW a \in AnalysesOf[f], AddField(f, a) \/ SetAnalysisType(f, a)
      PROVE  IInv'
  BY <1>2, AddFieldKeeps, SetAnalysisTypeKeeps
<1>3. CASE SaveProblemDialog
  BY <1>3, SaveProblemDialogKeeps
<1>4. ASSUME NEW p \in Couples, NEW type \in CouplingTypes, SetCouplingType(p, type) PROVE IInv'
  BY <1>4, SetCouplingTypeKeeps
<1>5. ASSUME NEW f \in FieldIds, NEW n \in Names, AddMaterial(f, n) \/ RemoveMaterial(f, n)
      PROVE  IInv'
  BY <1>5, AddMaterialKeeps, RemoveMaterialKeeps
<1>6. ASSUME NEW f \in FieldsOf(problem), NEW s \in SUBSET DOMAIN problem.labels, AddRecipe(f, s)
      PROVE  IInv'
  <2>1. f \in FieldIds
    BY <1>6, ValidHas, PartsOf DEF IInv, ProblemOK
  <2> QED BY <1>6, <2>1, AddRecipeKeeps
<1> QED BY <1>1, <1>2, <1>3, <1>4, <1>5, <1>6 DEF EditFields

\* Every edit of labels keeps the invariant.
LEMMA EditLabelsKeeps ==
    ASSUME IInv, EditLabels
    PROVE  IInv'
<1>1. ASSUME NEW a \in Addresses, NEW p \in Points, NEW m \in problem.materials \cup {NoMaterial},
             NEW ordered \in SUBSET FieldsOf(problem), NEW o \in LocalOrders,
             AddLabel(a, p, m, ordered, o) \/ NewLabel(a, p, m, ordered, o)
               \/ AddLabelRefused(a, p, ordered, o)
      PROVE  IInv'
  BY <1>1, AddLabelKeeps, NewLabelKeeps, AddLabelRefusedKeeps
<1>2. CASE RemoveLabels
  BY <1>2, RemoveLabelsKeeps
<1>3. ASSUME NEW i \in DOMAIN problem.labels, RemoveLabel(i) \/ DeleteLabel(i) PROVE IInv'
  BY <1>3, RemoveLabelKeeps, DeleteLabelKeeps
<1>4. ASSUME NEW i \in DOMAIN problem.labels, NEW p \in Points, EditLabel(i, p) PROVE IInv'
  BY <1>4, EditLabelKeeps
<1>5. ASSUME NEW i \in DOMAIN problem.labels,
             NEW m \in problem.materials \cup (FieldsOf(problem) \X {"none"}), SetMaterial(i, m)
      PROVE  IInv'
  BY <1>5, SetMaterialKeeps
<1>6. ASSUME NEW i \in DOMAIN problem.labels, NEW f \in FieldsOf(problem), NEW o \in LocalOrders,
             SetLabelPolynomialOrder(i, f, o) \/ RemoveLabelPolynomialOrder(i, f)
      PROVE  IInv'
  BY <1>6, SetLabelPolynomialOrderKeeps, RemoveLabelPolynomialOrderKeeps
<1> QED BY <1>1, <1>2, <1>3, <1>4, <1>5, <1>6 DEF EditLabels

\* Every step keeps the invariant.
LEMMA NextKeeps ==
    ASSUME IInv, [Next]_vars
    PROVE  IInv'
<1>1. CASE EditFields \/ EditLabels
  BY <1>1, EditFieldsKeeps, EditLabelsKeeps
<1>2. CASE Undo \/ Redo
  BY <1>2, UndoKeeps, RedoKeeps
<1>3. CASE CreateComputation \/ SolveComputation \/ CreateAndSolve
  BY <1>3, CreateComputationKeeps, SolveComputationKeeps, CreateAndSolveKeeps
<1>4. CASE SaveProblem \/ OpenProblem \/ ClearProblem
  BY <1>4, SaveProblemKeeps, OpenProblemKeeps, ClearProblemKeeps
<1>5. CASE UNCHANGED vars
  BY <1>5 DEF vars, IInv, ProblemOK, ComputationOK, FileIsOK, StackOK, RunOK
<1> QED BY <1>1, <1>2, <1>3, <1>4, <1>5 DEF Next

\* In every state of every program the problem and its computation are documents whose
\* parts refer to what exists, and the couplings of the computation are those with weak forms.
THEOREM SpecIInv == Spec => []IInv
<1>1. Init => IInv
  BY InitIsOK
<1>2. IInv /\ [Next]_vars => IInv'
  BY NextKeeps
<1> QED BY <1>1, <1>2, PTL DEF Spec

\* A valid document is one of the right types whose references are alive.
LEMMA ValidIsDocument ==
    ASSUME NEW d, Valid(d)
    PROVE  DocumentOK(d) /\ ReferencesAreAlive(d)
<1>1. /\ d.materials \subseteq FieldIds \X Names /\ FieldsOf(d) \subseteq FieldIds
      /\ d.recipes \subseteq [field : FieldIds, labels : SUBSET Nat]
      /\ \A f \in FieldsOf(d) : d.fields[f] \in AnalysesOf[f]
      /\ DOMAIN d.order = FieldsOf(d)
  BY ValidHas, PartsOf
<1>2. DOMAIN d.couplings \subseteq Couples
      /\ \A p \in DOMAIN d.couplings : d.couplings[p] \in CouplingTypes
  BY ValidHas, PartsOf, MapsDef
<1>3. \A i \in DOMAIN d.labels : d.labels[i].point \in Points
  BY LabelHas
<1>4. \A f \in FieldsOf(d) : \A a \in DOMAIN d.order[f] : d.order[f][a] \in LocalOrders
  BY OrderHas, MapsDef
<1> QED BY <1>1, <1>2, <1>3, <1>4 DEF DocumentOK, Valid

\* The problem, the computation, the stack and the failures have their types.
THEOREM SpecTypeOK == Spec => []TypeOK
<1>1. IInv => TypeOK
  <2> SUFFICES ASSUME IInv PROVE TypeOK
    OBVIOUS
  <2>1. DocumentOK(problem) /\ (computation # NoDocument => DocumentOK(computation))
    BY ValidIsDocument DEF IInv, ProblemOK, ComputationOK
  <2>2. stack.done \in 0 .. Len(stack.commands)
    <3> HIDE DEF Commands
    <3> QED BY DEF IInv, StackOK
  <2> QED BY <2>1, <2>2 DEF IInv, RunOK, TypeOK
<1> QED BY <1>1, SpecIInv, PTL

\* Whatever is added, removed, undone, copied or read, no part of a document refers to one
\* that was deleted (removeField, fieldsChange, removeMaterial, addMarkersFromStrings,
\* addMissingFieldMarkers): for any modules, points, names and sequence of operations.
THEOREM SpecMarkersAreAlive == Spec => []MarkersAreAlive
<1>1. IInv => MarkersAreAlive
  BY ValidIsDocument DEF IInv, ProblemOK, ComputationOK, MarkersAreAlive
<1> QED BY <1>1, SpecIInv, PTL

\* A computation has the couplings its fields' analyses have weak forms for, and no others,
\* whatever stale ones the problem has (readFromProblem, synchronizeCouplings).
THEOREM SpecCouplingsOfComputationHaveWeakForms == Spec => []CouplingsOfComputationHaveWeakForms
<1>1. IInv => CouplingsOfComputationHaveWeakForms
  BY DEF IInv, ComputationOK, Exact, CouplingsOfComputationHaveWeakForms
<1> QED BY <1>1, SpecIInv, PTL

-----------------------------------------------------------------------------
(* A copy is the problem, a file that is opened is what was saved.         *)

\* The user's edits leave the computation and the file alone.
LEMMA EditsAreOfProblem ==
    ASSUME EditFields \/ EditLabels \/ Undo \/ Redo
    PROVE  UNCHANGED <<computation, file>>
<1>1. CASE EditFields
  BY <1>1 DEF EditFields, RemoveField, AddField, SetAnalysisType, SaveProblemDialog,
              SetCouplingType, AddMaterial, RemoveMaterial, AddRecipe, Edited
<1>2. CASE EditLabels
  <2>1. \A d : Edited(d) => UNCHANGED <<computation, file>>
    BY DEF Edited
  <2>2. ASSUME NEW a, NEW p, NEW m, NEW ordered, NEW o,
               AddLabel(a, p, m, ordered, o) \/ NewLabel(a, p, m, ordered, o)
                 \/ AddLabelRefused(a, p, ordered, o)
        PROVE  UNCHANGED <<computation, file>>
    BY <2>1, <2>2 DEF AddLabel, NewLabel, AddLabelRefused
  <2>3. CASE RemoveLabels
    BY <2>3, RemoveLabelsIsEdited
  <2>4. ASSUME NEW i, RemoveLabel(i) \/ DeleteLabel(i) PROVE UNCHANGED <<computation, file>>
    BY <2>1, <2>4 DEF RemoveLabel, DeleteLabel
  <2>5. ASSUME NEW i, NEW p, EditLabel(i, p) PROVE UNCHANGED <<computation, file>>
    BY <2>1, <2>5 DEF EditLabel
  <2>6. ASSUME NEW i, NEW m, SetMaterial(i, m) PROVE UNCHANGED <<computation, file>>
    BY <2>1, <2>6 DEF SetMaterial
  <2>7. ASSUME NEW i, NEW f, NEW o,
               SetLabelPolynomialOrder(i, f, o) \/ RemoveLabelPolynomialOrder(i, f)
        PROVE  UNCHANGED <<computation, file>>
    BY <2>1, <2>7 DEF SetLabelPolynomialOrder, RemoveLabelPolynomialOrder
  <2> QED BY <1>2, <2>2, <2>3, <2>4, <2>5, <2>6, <2>7 DEF EditLabels
<1>3. CASE Undo \/ Redo
  BY <1>3 DEF Undo, Redo, Edited
<1> QED BY <1>1, <1>2, <1>3

\* A computation is made by two actions only.
LEMMA ComputationIsCopied ==
    ASSUME [Next]_vars, computation' # computation, computation' # NoDocument
    PROVE  CopyFailure(problem) = "" /\ computation' = Copied(problem)
<1>1. CASE EditFields \/ EditLabels \/ Undo \/ Redo
  BY <1>1, EditsAreOfProblem
<1>2. CASE CreateComputation
  BY <1>2 DEF CreateComputation
<1>3. CASE CreateAndSolve
  BY <1>3 DEF CreateAndSolve
<1>4. CASE SolveComputation \/ SaveProblem \/ OpenProblem \/ ClearProblem
  BY <1>4 DEF SolveComputation, SaveProblem, OpenProblem, ClearProblem
<1>5. CASE UNCHANGED vars
  BY <1>5 DEF vars
<1> QED BY <1>1, <1>2, <1>3, <1>4, <1>5 DEF Next

\* The computation made of a problem without two labels at one point is that problem: the
\* positions the copy looks up are those the pointers point to (createComputation,
\* readFromProblem, Scene::copy).
THEOREM CopyOfDistinctPointsIsFaithful ==
    Spec => [][LabelsAreAtDistinctPoints /\ computation' # computation /\ computation' # NoDocument
                 => SameModel(problem, computation')]_vars
<1>1. IInv /\ [Next]_vars =>
        [LabelsAreAtDistinctPoints /\ computation' # computation /\ computation' # NoDocument
           => SameModel(problem, computation')]_vars
  <2> SUFFICES ASSUME IInv, [Next]_vars, LabelsAreAtDistinctPoints,
                      computation' # computation, computation' # NoDocument
               PROVE  SameModel(problem, computation')
    OBVIOUS
  <2>1. CopyFailure(problem) = "" /\ computation' = Copied(problem)
    BY ComputationIsCopied
  <2>2. SameModel(problem, Copied(problem))
    BY <2>1, CopyIsSame DEF IInv, ProblemOK, LabelsAreAtDistinctPoints
  <2> QED BY <2>1, <2>2
<1> QED BY <1>1, SpecIInv, PTL DEF Spec

\* As long as no two labels come to one point, every computation is the problem it was made
\* of (createComputation).
THEOREM SpecCopyIsFaithful == Spec /\ []LabelsAreAtDistinctPoints => CopyIsFaithful
<1>1. LabelsAreAtDistinctPoints
        /\ [LabelsAreAtDistinctPoints /\ computation' # computation /\ computation' # NoDocument
              => SameModel(problem, computation')]_vars
      => [computation' # computation /\ computation' # NoDocument
            => SameModel(problem, computation')]_vars
  OBVIOUS
<1> QED BY <1>1, CopyOfDistinctPointsIsFaithful, PTL DEF CopyIsFaithful

\* The file is that of a document.
FileIsListed == file # NoFile => \E d : Valid(d) /\ IsListed(file, d)

\* No two labels in the file are at one point.
FileIsDistinct == file # NoFile => Distinct(file.points)

\* Only SaveProblem writes the file.
LEMMA FileIsWritten ==
    ASSUME [Next]_vars, file' # file
    PROVE  file' = Listed(problem)
<1>1. CASE EditFields \/ EditLabels \/ Undo \/ Redo
  BY <1>1, EditsAreOfProblem
<1>2. CASE SaveProblem
  BY <1>2 DEF SaveProblem
<1>3. CASE CreateComputation \/ CreateAndSolve \/ SolveComputation \/ OpenProblem \/ ClearProblem
  BY <1>3 DEF CreateComputation, CreateAndSolve, SolveComputation, OpenProblem, ClearProblem
<1>4. CASE UNCHANGED vars
  BY <1>4 DEF vars
<1> QED BY <1>1, <1>2, <1>3, <1>4 DEF Next

\* The file stays that of a document.
LEMMA NextKeepsFile ==
    ASSUME IInv, FileIsListed, [Next]_vars
    PROVE  FileIsListed'
<1>1. CASE file' = file
  BY <1>1 DEF FileIsListed
<1>2. CASE file' # file
  <2>1. IsListed(file', problem)
    BY <1>2, FileIsWritten DEF IsListed
  <2> QED BY <2>1 DEF FileIsListed, IInv, ProblemOK
<1> QED BY <1>1, <1>2

\* A file saved of labels at distinct points has distinct points.
LEMMA NextKeepsDistinct ==
    ASSUME IInv, FileIsDistinct, LabelsAreAtDistinctPoints, [Next]_vars
    PROVE  FileIsDistinct'
<1>1. CASE file' = file
  BY <1>1 DEF FileIsDistinct
<1>2. CASE file' # file
  <2>1. PICK l : l = Listed(problem)
    OBVIOUS
  <2>2. IsListed(l, problem)
    BY <2>1 DEF IsListed
  <2>3. Distinct(l.points)
    BY <2>2, DistinctPoints DEF IInv, ProblemOK, LabelsAreAtDistinctPoints
  <2> QED BY <1>2, <2>1, <2>3, FileIsWritten DEF FileIsDistinct
<1> QED BY <1>1, <1>2

\* What OpenedIsWhatWasSaved says of one step.
OpenedAsSaved ==
    OpenProblem /\ failed' = "" =>
        LET l == Listed(problem')
        IN  /\ \A part \in DOMAIN l \ {"couplings"} : l[part] = file[part]
            /\ \A p \in DOMAIN file.couplings : l.couplings[p] = file.couplings[p]

\* The file of labels at distinct points is what is written of what was read from it.
LEMMA OpenedFileIsSame ==
    ASSUME IInv, FileIsListed, FileIsDistinct
    PROVE  OpenedAsSaved
<1> SUFFICES ASSUME OpenProblem, failed' = ""
             PROVE  SameFile(Listed(problem'), file)
  BY DEF OpenedAsSaved, SameFile
<1>1. file # NoFile /\ ReadFailure(file) = "" /\ problem' = Read(file)
  BY DEF OpenProblem
<1>2. PICK d : Valid(d) /\ IsListed(file, d)
  BY <1>1 DEF FileIsListed
<1>3. Distinct(file.points)
  BY <1>1 DEF FileIsDistinct
<1>4. SameFile(Listed(Read(file)), file)
  BY <1>1, <1>2, <1>3, OpenedIsSame
<1> QED BY <1>1, <1>4

\* As long as no two labels come to one point, what is read from a file, written again, is
\* that file (writeProblemToJsonInternal, readProblemFromJsonInternal).
THEOREM SpecOpenedIsWhatWasSaved == Spec /\ []LabelsAreAtDistinctPoints => OpenedIsWhatWasSaved
<1>1. Init => FileIsListed /\ FileIsDistinct
  BY DEF Init, FileIsListed, FileIsDistinct
<1>2. IInv /\ FileIsListed /\ [Next]_vars => FileIsListed'
  BY NextKeepsFile
<1>3. IInv /\ FileIsDistinct /\ LabelsAreAtDistinctPoints /\ [Next]_vars => FileIsDistinct'
  BY NextKeepsDistinct
<1>4. IInv /\ FileIsListed /\ FileIsDistinct => [OpenedAsSaved]_vars
  BY OpenedFileIsSame
<1>5. Spec => []IInv
  BY SpecIInv
<1>6. Spec /\ []LabelsAreAtDistinctPoints => [][OpenedAsSaved]_vars
  BY <1>1, <1>2, <1>3, <1>4, <1>5, PTL DEF Spec
<1> QED BY <1>6 DEF OpenedIsWhatWasSaved, OpenedAsSaved
=============================================================================
