-------------------------- MODULE ProblemDocument --------------------------
(***************************************************************************)
(* The problem the user edits (ProblemBase, Scene, FieldInfo,              *)
(* CouplingInfo): its fields and couplings, the labels of the scene with   *)
(* one marker per field, the materials the markers stand for, the          *)
(* polynomial orders a field keeps for labels of its own, and the recipes  *)
(* that integrate over labels.  The parts refer to each other by pointers  *)
(* (marker -> field, label -> marker, field -> label) in memory, and by    *)
(* identifiers and list positions in the file.                             *)
(*                                                                         *)
(* A document is a record; an operation of the code is an operator from    *)
(* documents to documents, since a problem, and the computation copied     *)
(* from it, are both built by the same methods.  Faces and boundaries are  *)
(* the second instance of the same class templates: labels and materials   *)
(* stand for both pairs.                                                   *)
(***************************************************************************)
EXTENDS Integers, FiniteSets, Sequences, SequencesExt

CONSTANTS
    FieldIds,          \* the modules of which fields can be made
    AnalysesOf,        \* the analyses of each module
    DefaultAnalysis,   \* the first of them
    Couples,           \* <<source, target>>: the target's plugin names the source
    WeakForms,         \* <<source, its analysis, target, its analysis>> with a weak form
    CouplingTypes,     \* weak, hard and none
    Names,             \* names of materials
    Points,            \* points at which labels are put
    Addresses,         \* where labels are allocated
    Files,             \* files of problems the program can start with
    LocalOrders,       \* polynomial orders set for one label
    MaxRecipes,        \* bound: recipes
    MaxCommands,       \* bound: commands on the undo stack
    MaxEdits           \* bound: edits in a behaviour

ASSUME FieldsAssumption == IsFiniteSet(FieldIds)
ASSUME CouplingsAssumption ==
    /\ Couples \subseteq FieldIds \X FieldIds
    /\ "weak" \in CouplingTypes
ASSUME AnalysesAssumption ==
    \A f \in FieldIds : DefaultAnalysis[f] \in AnalysesOf[f]
ASSUME MarkerNameAssumption == "none" \notin Names
ASSUME BoundsAssumption == {MaxRecipes, MaxCommands, MaxEdits} \subseteq Nat

VARIABLES
    problem,      \* Agros::problem()
    computation,  \* the computation made from it last, or NoDocument
    file,         \* the problem.json written last, or NoFile
    stack,        \* the undo commands: what is pushed, and how many are done
    failed,       \* the lookup that stopped the program, or ""
    scripted,     \* driven by a Python script, which has no undo, or by the menus
    edits         \* how many times the problem has been edited

vars == <<problem, computation, file, stack, failed, scripted, edits>>

NoMaterial == <<>>
NotFound == 0   \* QList::indexOf of something not in the list (-1 in the code)

NewDocument ==
    [fields |-> <<>>, labels |-> <<>>, materials |-> {}, none |-> {},
     couplings |-> <<>>, order |-> <<>>, recipes |-> {}, leaked |-> {}]
NoDocument == <<>>
NoFile == <<>>

FieldsOf(d) == DOMAIN d.fields
AddressesOf(d) == {d.labels[i].at : i \in DOMAIN d.labels}
PointsOf(d) == {d.labels[i].point : i \in DOMAIN d.labels}
Index(d, a) ==
    IF a \in AddressesOf(d)
    THEN CHOOSE i \in DOMAIN d.labels : d.labels[i].at = a
    ELSE NotFound
With(fn, x, v) == [y \in DOMAIN fn \cup {x} |-> IF y = x THEN v ELSE fn[y]]
Without(fn, x) == [y \in DOMAIN fn \ {x} |-> fn[y]]

----------------------------------------------------------------------------
(* Fields, couplings and markers.                                          *)

CouplingIsAvailable(d, p) ==
    /\ p[1] \in FieldsOf(d) /\ p[2] \in FieldsOf(d)
    /\ <<p[1], d.fields[p[1]], p[2], d.fields[p[2]]>> \in WeakForms

\* Mutant: the couplings without a weak form are not taken away.
SynchronizedByNames(d) ==
    LET named == {p \in Couples : p[1] # p[2] /\ {p[1], p[2]} \subseteq FieldsOf(d)}
    IN  [d EXCEPT !.couplings = [p \in DOMAIN @ \cup named |-> IF p \in DOMAIN @ THEN @[p] ELSE "weak"]]

\* Adds the couplings the plugins name, whatever the analyses, then takes
\* away those without a weak form.
Synchronized(d) ==
    LET named == {p \in Couples : p[1] # p[2] /\ {p[1], p[2]} \subseteq FieldsOf(d)}
        all   == [p \in DOMAIN d.couplings \cup named |->
                     IF p \in DOMAIN d.couplings THEN d.couplings[p] ELSE "weak"]
        kept  == {p \in DOMAIN all : CouplingIsAvailable(d, p)}
    IN  [d EXCEPT !.couplings = [p \in kept |-> all[p]]]

\* The none markers and materials of fields that are gone are deleted.
NonesDeleted(d) ==
    LET gone == d.none \ FieldsOf(d)
    IN  [d EXCEPT !.none = @ \ gone, !.materials = {m \in @ : m[1] \notin gone}]

\* A label puts a none marker where its marker belongs to no field of the
\* problem, and where a field has no marker.
NonesPut(d) ==
    LET replaced(l) == (DOMAIN l.marker \ FieldsOf(d)) \cup (FieldsOf(d) \ DOMAIN l.marker)
        renewed(l) == [f \in DOMAIN l.marker \cup FieldsOf(d) |->
                          IF f \in replaced(l) THEN "none" ELSE l.marker[f]]
    IN  [d EXCEPT
            !.none = @ \cup UNION {replaced(d.labels[i]) : i \in DOMAIN d.labels},
            !.labels = [i \in DOMAIN d.labels |-> [d.labels[i] EXCEPT !.marker = renewed(d.labels[i])]]]

\* Scene::fieldsChange
FieldsChanged(d) == NonesPut(NonesDeleted(d))

\* addField.  Every caller has seen that the problem has no such field.
FieldAdded(d, f, analysis, order) ==
    FieldsChanged(Synchronized([d EXCEPT !.fields = With(@, f, analysis),
                                         !.order = With(@, f, order)]))

\* Problem::removeField and ProblemBase::removeField.
FieldRemoved(d, f) ==
    FieldsChanged(Synchronized(
        [d EXCEPT !.recipes = {r \in @ : r.field # f},
                  !.labels = [i \in DOMAIN @ |-> [d.labels[i] EXCEPT !.marker = Without(@, f)]],
                  !.materials = {m \in @ : m[1] # f},
                  !.fields = Without(@, f),
                  !.order = Without(@, f)]))

\* new SceneLabel: a none marker for every field.
LabelCreated(d, a, p) ==
    [d EXCEPT !.labels = Append(@, [at |-> a, point |-> p,
                                    marker |-> [f \in FieldsOf(d) |-> "none"]]),
              !.none = @ \cup FieldsOf(d)]

\* The dialogs take the none marker from getNone, which makes it if need be.
Marked(d, i, f, name) ==
    [d EXCEPT !.labels[i].marker = With(@, f, name),
              !.none = IF name = "none" THEN @ \cup {f} ELSE @]

\* SceneBasicContainer::remove: out of the list, never deleted.
LabelRemoved(d, i) ==
    [d EXCEPT !.labels = RemoveAt(@, i), !.leaked = @ \cup {d.labels[i].at}]

\* Mutant: the labels are not visited.
MaterialForgotten(d, f, name) == [d EXCEPT !.materials = @ \ {<<f, name>>}]

\* removeMaterial: the none marker takes its place on every label.
MaterialRemoved(d, f, name) ==
    LET bare(l) == IF f \in DOMAIN l.marker /\ l.marker[f] = name
                   THEN [l EXCEPT !.marker[f] = "none"] ELSE l
    IN  [d EXCEPT !.labels = [i \in DOMAIN @ |-> bare(@[i])],
                  !.none = IF \E i \in DOMAIN d.labels : bare(d.labels[i]) # d.labels[i]
                           THEN @ \cup {f} ELSE @,
                  !.materials = @ \ {<<f, name>>}]

----------------------------------------------------------------------------
(* The file and the copy: everything by identifier and position.           *)

\* writeProblemToJsonInternal.
Listed(d) ==
    LET materialsOf(f) ==
            {[name |-> m[2],
              labels |-> {i \in DOMAIN d.labels : d.labels[i].marker[f] = m[2]}] :
             m \in {n \in d.materials : n[1] = f}}
        ordersOf(f) == {<<Index(d, a), d.order[f][a]>> : a \in DOMAIN d.order[f]}
    IN  [analysis  |-> d.fields,
         points    |-> [i \in DOMAIN d.labels |-> d.labels[i].point],
         materials |-> [f \in FieldsOf(d) |-> materialsOf(f)],
         order     |-> [f \in FieldsOf(d) |-> ordersOf(f)],
         couplings |-> d.couplings,
         recipes   |-> d.recipes]

\* addLabel: a label at a point that has one is dropped.
LabelsAt(points) ==
    LET put(ls, p) == IF \E i \in DOMAIN ls : ls[i].point = p THEN ls
                      ELSE Append(ls, [at |-> Len(ls) + 1, point |-> p, marker |-> <<>>])
        added[k \in 0..Len(points)] ==
            IF k = 0 THEN <<>> ELSE put(added[k - 1], points[k])
    IN  added[Len(points)]

\* Mutant: the position is read for the order.
OrdersSwapped(d, l, f) == {<<d.labels[o[1]].at, o[1]>> : o \in l.order[f]}

\* Mutant: the orders are written, and not read.
OrdersForgotten(d, l, f) == {}

OrdersRead(d, l, f) == {<<d.labels[o[1]].at, o[2]>> : o \in l.order[f]}

\* One field of the list: its polynomial orders, its materials and the labels
\* they mark, a none marker for the others; then addField.
FieldRead(d, l, f) ==
    LET ms == l.materials[f]
        name(i) == IF \E m \in ms : i \in m.labels
                   THEN (CHOOSE m \in ms : i \in m.labels).name ELSE "none"
        orders == OrdersRead(d, l, f)
    IN  FieldAdded(
            [d EXCEPT !.labels = [i \in DOMAIN @ |->
                                      [d.labels[i] EXCEPT !.marker = With(@, f, name(i))]],
                      !.materials = @ \cup {<<f, m.name>> : m \in ms},
                      !.none = IF \E i \in DOMAIN d.labels : name(i) = "none"
                               THEN @ \cup {f} ELSE @],
            f, l.analysis[f],
            [a \in {o[1] : o \in orders} |-> (CHOOSE o \in orders : o[1] = a)[2]])

\* The fields as they follow each other in the file.
FieldList(l) ==
    CHOOSE list \in [1..Cardinality(DOMAIN l.analysis) -> DOMAIN l.analysis] : IsInjective(list)

FieldsRead(l) ==
    LET read[k \in 0..Cardinality(DOMAIN l.analysis)] ==
            IF k = 0 THEN [NewDocument EXCEPT !.labels = LabelsAt(l.points)]
            ELSE FieldRead(read[k - 1], l, FieldList(l)[k])
    IN  read[Cardinality(DOMAIN l.analysis)]

\* Mutant: the couplings that addField made keep the type of new ones.
TypesForgotten(d, l) == d

TypesRead(d, l) ==
    [d EXCEPT !.couplings = [p \in DOMAIN @ |->
                                IF p \in DOMAIN l.couplings THEN l.couplings[p] ELSE @[p]]]

\* readProblemFromJsonInternal, when every lookup succeeds
Read(l) == [TypesRead(FieldsRead(l), l) EXCEPT !.recipes = l.recipes]

OrderPositions(l) == {o[1] : o \in UNION {l.order[f] : f \in DOMAIN l.order}}
MarkedPositions(l) == UNION {m.labels : m \in UNION {l.materials[f] : f \in DOMAIN l.materials}}
\* The copy looks every label up by its position, for every material.
CopiedPositions(l) ==
    IF \E f \in DOMAIN l.materials : l.materials[f] # {} THEN DOMAIN l.points ELSE {}

LookupFailure(l, positions) ==
    IF ~ positions \subseteq DOMAIN LabelsAt(l.points) THEN "label"
    ELSE IF ~ DOMAIN l.couplings \subseteq DOMAIN FieldsRead(l).couplings THEN "coupling"
    ELSE ""

ReadFailure(l) == LookupFailure(l, OrderPositions(l) \cup MarkedPositions(l))

\* A file of fields of the modules.
FileOK(l) ==
    /\ l.points \in Seq(Points)
    /\ DOMAIN l.analysis \subseteq FieldIds
    /\ DOMAIN l.materials = DOMAIN l.analysis /\ DOMAIN l.order = DOMAIN l.analysis
    /\ \A f \in DOMAIN l.analysis :
          /\ l.analysis[f] \in AnalysesOf[f]
          /\ \A m \in l.materials[f] : m.name \in Names
          /\ \A o \in l.order[f] : o[2] \in LocalOrders
    /\ \A p \in DOMAIN l.couplings : l.couplings[p] \in CouplingTypes
    /\ l.recipes \subseteq [field : DOMAIN l.analysis, labels : SUBSET Nat]

\* The program starts with files that it can read.
ASSUME FilesAssumption == \A l \in Files : FileOK(l) /\ ReadFailure(l) = ""

----------------------------------------------------------------------------
(* The user's operations: the menus and dialogs, and the Python interface. *)

Edited(d) ==
    /\ failed = ""
    /\ problem' = d
    /\ edits < MaxEdits /\ edits' = edits + 1
    /\ UNCHANGED <<computation, file, failed, scripted>>

\* PyField::PyField makes a field of the first analysis of its module; the
\* dialog of doNewField sets another one before the field is added.
AddField(f, a) ==
    /\ f \notin FieldsOf(problem)
    /\ scripted => a = DefaultAnalysis[f]
    /\ Edited(FieldAdded(problem, f, a, <<>>))
    /\ UNCHANGED stack

RemoveField(f) ==
    /\ ~ scripted /\ f \in FieldsOf(problem)
    /\ Edited(FieldRemoved(problem, f))
    /\ UNCHANGED stack

\* PyField::setAnalysisType, FieldWidget::save: the couplings stay as they are
SetAnalysisType(f, a) ==
    /\ f \in FieldsOf(problem)
    /\ Edited([problem EXCEPT !.fields[f] = a])
    /\ UNCHANGED stack

\* The dialog of the problem synchronises the couplings it shows, then saves.
SaveProblemDialog ==
    LET d == Synchronized(problem)
    IN  /\ ~ scripted
        /\ \E types \in [DOMAIN d.couplings -> CouplingTypes] :
              Edited([d EXCEPT !.couplings = types])
        /\ UNCHANGED stack

\* PyProblemBase::setCouplingType: the plugin names the source, the problem
\* need not have the coupling.
SetCouplingType(p, type) ==
    /\ scripted /\ p \in Couples /\ {p[1], p[2]} \subseteq FieldsOf(problem)
    /\ IF p \in DOMAIN problem.couplings
       THEN Edited([problem EXCEPT !.couplings[p] = type])
       ELSE /\ failed = "" /\ failed' = "coupling"
            /\ UNCHANGED <<problem, computation, file, scripted, edits>>
    /\ UNCHANGED stack

AddMaterial(f, n) ==
    /\ f \in FieldsOf(problem) /\ <<f, n>> \notin problem.materials
    /\ Edited([problem EXCEPT !.materials = @ \cup {<<f, n>>}])
    /\ UNCHANGED stack

RemoveMaterial(f, n) ==
    /\ <<f, n>> \in problem.materials
    /\ Edited(MaterialRemoved(problem, f, n))
    /\ UNCHANGED stack

\* setMaterial, modifyLabel, SceneLabelMarker::save
SetMaterial(i, m) ==
    /\ scripted => m[2] # "none"   \* which setMaterials skips
    /\ problem.labels[i].marker[m[1]] # m[2]
    /\ Edited(Marked(problem, i, m[1], m[2]))
    /\ UNCHANGED stack

SetLabelPolynomialOrder(i, f, o) ==
    /\ Edited([problem EXCEPT !.order[f] = With(@, problem.labels[i].at, o)])
    /\ UNCHANGED stack

RemoveLabelPolynomialOrder(i, f) ==
    /\ ~ scripted /\ problem.labels[i].at \in DOMAIN problem.order[f]
    /\ Edited([problem EXCEPT !.order[f] = Without(@, problem.labels[i].at)])
    /\ UNCHANGED stack

\* addRecipeVolumeIntegral: neither the labels nor the field's are checked
AddRecipe(f, positions) ==
    /\ f \in FieldsOf(problem) /\ Cardinality(problem.recipes) < MaxRecipes
    /\ Edited([problem EXCEPT !.recipes = @ \cup {[field |-> f, labels |-> positions]}])
    /\ UNCHANGED stack

----------------------------------------------------------------------------
(* Labels, and the undo stack of their commands, which find labels by      *)
(* their point and markers by name, and which nothing ever clears.         *)

Free == Addresses \ (AddressesOf(problem) \cup problem.leaked)

Command(kind, from, to, marker) == [kind |-> kind, point |-> from, to |-> to, marker |-> marker]

Pushed(c) ==
    LET done == SubSeq(stack.commands, 1, stack.done)
    IN  /\ stack.done < MaxCommands
        /\ stack' = [commands |-> Append(done, c), done |-> stack.done + 1]

LabelWith(d, a, p, m, ordered, o) ==
    LET created == LabelCreated(d, a, p)
        i == Len(created.labels)
        marked == IF m \in d.materials THEN Marked(created, i, m[1], m[2]) ELSE created
    IN  [marked EXCEPT !.order = [f \in FieldsOf(d) |-> IF f \in ordered THEN With(@[f], a, o) ELSE @[f]]]

\* PyGeometry::addLabel
AddLabel(a, p, m, ordered, o) ==
    /\ scripted /\ a \in Free /\ p \notin PointsOf(problem)
    /\ Edited(LabelWith(problem, a, p, m, ordered, o))
    /\ UNCHANGED stack

\* The same call with an order out of range: the label is deleted, the orders
\* set before that one stay in their fields under its address.
AddLabelRefused(a, p, ordered, o) ==
    /\ scripted /\ a \in Free /\ p \notin PointsOf(problem) /\ ordered # {}
    /\ Edited([problem EXCEPT
                  !.order = [f \in FieldsOf(problem) |->
                                IF f \in ordered THEN With(@[f], a, o) ELSE @[f]],
                  !.none = @ \cup FieldsOf(problem)])
    /\ UNCHANGED stack

\* PreprocessorWidget::doNewLabel
NewLabel(a, p, m, ordered, o) ==
    LET d == LabelWith(problem, a, p, m, ordered, o)
    IN  /\ ~ scripted /\ a \in Free /\ p \notin PointsOf(problem)
        /\ Edited(d)
        /\ Pushed(Command("add", p, p, d.labels[Len(d.labels)].marker))

\* PyGeometry::removeLabels of one index
RemoveLabel(i) ==
    /\ scripted
    /\ Edited(LabelRemoved(problem, i))
    /\ UNCHANGED stack

\* removeLabels of an empty list, which stands for all: the indices are those
\* of the full list, so every other label goes, then one is out of range.
RemoveLabels ==
    LET removed(d, i) == IF i \in DOMAIN d.labels THEN LabelRemoved(d, i) ELSE d
        left[k \in 0..Len(problem.labels)] ==
            IF k = 0 THEN problem ELSE removed(left[k - 1], k)
    IN  /\ scripted /\ problem.labels # <<>>
        /\ Edited(left[Len(problem.labels)])
        /\ UNCHANGED stack

\* PreprocessorWidget::doDelete of a label
DeleteLabel(i) ==
    LET l == problem.labels[i]
    IN  /\ ~ scripted
        /\ Edited(LabelRemoved(problem, i))
        /\ Pushed(Command("remove", l.point, l.point, l.marker))

\* SceneLabelDialog::save with another point: "Label already exists."
EditLabel(i, p) ==
    /\ ~ scripted /\ p \notin PointsOf(problem)
    /\ Edited([problem EXCEPT !.labels[i].point = p])
    /\ Pushed(Command("edit", problem.labels[i].point, p, <<>>))

FirstAt(d, p) == SelectInSeq(d.labels, LAMBDA l : l.point = p)

Taken(d, p) == IF p \in PointsOf(d) THEN LabelRemoved(d, FirstAt(d, p)) ELSE d

\* A label at the point, its markers found by name; none where the material
\* is gone; nothing for a field that is gone.
Put(d, a, c) ==
    LET created == LabelCreated(d, a, c.point)
        named(f) == IF f \in DOMAIN c.marker /\ <<f, c.marker[f]>> \in d.materials
                    THEN c.marker[f] ELSE "none"
    IN  [created EXCEPT !.labels[Len(d.labels) + 1].marker = [f \in FieldsOf(d) |-> named(f)]]

PutSomewhere(d, c) ==
    IF c.point \in PointsOf(d) THEN {d} ELSE {Put(d, a, c) : a \in Free}

Moved(d, from, to) ==
    IF from \in PointsOf(d) THEN [d EXCEPT !.labels[FirstAt(d, from)].point = to] ELSE d

Undo ==
    LET c == stack.commands[stack.done]
    IN  /\ stack.done > 0
        /\ \E d \in CASE c.kind = "add"    -> {Taken(problem, c.point)}
                       [] c.kind = "remove" -> PutSomewhere(problem, c)
                       [] c.kind = "edit"   -> {Moved(problem, c.to, c.point)} :
              Edited(d)
        /\ stack' = [stack EXCEPT !.done = @ - 1]

Redo ==
    LET c == stack.commands[stack.done + 1]
    IN  /\ stack.done < Len(stack.commands)
        /\ \E d \in CASE c.kind = "add"    -> PutSomewhere(problem, c)
                       [] c.kind = "remove" -> {Taken(problem, c.point)}
                       [] c.kind = "edit"   -> {Moved(problem, c.point, c.to)} :
              Edited(d)
        /\ stack' = [stack EXCEPT !.done = @ + 1]

----------------------------------------------------------------------------
(* Copying, solving, saving and opening.                                   *)

GeometryIsAssigned(d) ==
    /\ d.materials # {}
    /\ \E i \in DOMAIN d.labels : \E f \in FieldsOf(d) : d.labels[i].marker[f] # "none"

\* The asserts of VolumeIntegralRecipe::evaluate, run at the end of a solution:
\* the recipes are the problem's, the fields and labels the computation's.
RecipeFailure(d) ==
    IF \E r \in problem.recipes : r.field \notin FieldsOf(d) THEN "field"
    ELSE IF \E r \in problem.recipes : \E i \in r.labels :
                \/ i \notin DOMAIN d.labels
                \/ d.labels[i].marker[r.field] = "none" THEN "recipe"
    ELSE ""

\* createComputation: clearFields, readFromProblem.
Copied(d) == TypesRead(FieldsRead(Listed(d)), Listed(d))
CopyFailure(d) ==
    LET l == Listed(d) IN LookupFailure(l, OrderPositions(l) \cup CopiedPositions(l))

\* PyComputation::PyComputation, and solve of the same object at any time later.
CreateComputation ==
    LET failure == CopyFailure(problem)
    IN  /\ failed = "" /\ scripted
        /\ failed' = failure
        /\ computation' = IF failure = "" THEN Copied(problem) ELSE computation
        /\ UNCHANGED <<problem, file, stack, scripted, edits>>

SolveComputation ==
    /\ failed = "" /\ scripted /\ computation # NoDocument
    /\ GeometryIsAssigned(computation)
    /\ failed' = RecipeFailure(computation)
    /\ UNCHANGED <<problem, computation, file, stack, scripted, edits>>

\* doSolveCurrentComputation: the computation is made anew for every solution.
CreateAndSolve ==
    LET failure == CopyFailure(problem)
        copy == Copied(problem)
    IN  /\ failed = "" /\ ~ scripted
        /\ failed' = IF failure # "" THEN failure
                     ELSE IF GeometryIsAssigned(copy) THEN RecipeFailure(copy) ELSE ""
        /\ computation' = IF failure = "" THEN copy ELSE computation
        /\ UNCHANGED <<problem, file, stack, scripted, edits>>

SaveProblem ==
    /\ failed = ""
    /\ file' = Listed(problem)
    /\ UNCHANGED <<problem, computation, stack, failed, scripted, edits>>

\* Problem::clearFieldsAndConfig: the labels that leaked hold no order any more
ClearProblem ==
    /\ failed = "" /\ problem # NewDocument
    /\ problem' = NewDocument
    /\ computation' = NoDocument
    /\ UNCHANGED <<file, stack, failed, scripted, edits>>

\* readProblemFromArchive: clears, then reads
OpenProblem ==
    LET failure == ReadFailure(file)
    IN  /\ failed = "" /\ file # NoFile
        /\ failed' = failure
        /\ problem' = IF failure = ""
                      THEN Read(file) ELSE NewDocument
        /\ computation' = NoDocument
        /\ UNCHANGED <<file, stack, scripted, edits>>

----------------------------------------------------------------------------

Init ==
    /\ problem \in {NewDocument} \cup {Read(l) : l \in Files}
    /\ computation = NoDocument /\ file = NoFile
    /\ stack = [commands |-> <<>>, done |-> 0]
    /\ failed = "" /\ scripted \in BOOLEAN /\ edits = 0

EditFields ==
    \/ \E f \in FieldIds : RemoveField(f)
    \/ \E f \in FieldIds : \E a \in AnalysesOf[f] : AddField(f, a) \/ SetAnalysisType(f, a)
    \/ SaveProblemDialog
    \/ \E p \in Couples, type \in CouplingTypes : SetCouplingType(p, type)
    \/ \E f \in FieldIds, n \in Names : AddMaterial(f, n) \/ RemoveMaterial(f, n)
    \/ \E f \in FieldsOf(problem), s \in SUBSET DOMAIN problem.labels : AddRecipe(f, s)

EditLabels ==
    \/ \E a \in Addresses, p \in Points, m \in problem.materials \cup {NoMaterial},
          ordered \in SUBSET FieldsOf(problem), o \in LocalOrders :
            \/ AddLabel(a, p, m, ordered, o)
            \/ NewLabel(a, p, m, ordered, o)
            \/ AddLabelRefused(a, p, ordered, o)
    \/ RemoveLabels
    \/ \E i \in DOMAIN problem.labels :
          \/ RemoveLabel(i) \/ DeleteLabel(i)
          \/ \E p \in Points : EditLabel(i, p)
          \/ \E m \in problem.materials \cup (FieldsOf(problem) \X {"none"}) : SetMaterial(i, m)
          \/ \E f \in FieldsOf(problem), o \in LocalOrders :
                \/ SetLabelPolynomialOrder(i, f, o)
                \/ RemoveLabelPolynomialOrder(i, f)

Next ==
    \/ EditFields \/ EditLabels
    \/ Undo \/ Redo
    \/ CreateComputation \/ SolveComputation \/ CreateAndSolve
    \/ SaveProblem \/ OpenProblem \/ ClearProblem

Spec == Init /\ [][Next]_vars

----------------------------------------------------------------------------
(* Properties.                                                             *)

DocumentOK(d) ==
    /\ FieldsOf(d) \subseteq FieldIds
    /\ \A f \in FieldsOf(d) : d.fields[f] \in AnalysesOf[f]
    /\ \A i \in DOMAIN d.labels : d.labels[i].point \in Points
    /\ d.materials \subseteq FieldIds \X Names
    /\ DOMAIN d.couplings \subseteq Couples
    /\ \A p \in DOMAIN d.couplings : d.couplings[p] \in CouplingTypes
    /\ DOMAIN d.order = FieldsOf(d)
    /\ \A f \in FieldsOf(d) : \A a \in DOMAIN d.order[f] : d.order[f][a] \in LocalOrders
    /\ d.recipes \subseteq [field : FieldIds, labels : SUBSET Nat]

\* The problem and the computation are documents; the stack holds what is
\* done and can be undone; the program stops only at a lookup.
TypeOK ==
    /\ DocumentOK(problem)
    /\ computation # NoDocument => DocumentOK(computation)
    /\ stack.done \in 0..Len(stack.commands)
    /\ failed \in {"", "label", "coupling", "field", "recipe"}
    /\ edits \in 0..MaxEdits

ReferencesAreAlive(d) ==
    /\ d.none \subseteq FieldsOf(d)
    /\ \A m \in d.materials : m[1] \in FieldsOf(d)
    /\ \A r \in d.recipes : r.field \in FieldsOf(d)
    /\ \A i \in DOMAIN d.labels :
          /\ DOMAIN d.labels[i].marker = FieldsOf(d)
          /\ \A f \in FieldsOf(d) :
                IF d.labels[i].marker[f] = "none" THEN f \in d.none
                ELSE <<f, d.labels[i].marker[f]>> \in d.materials

\* Whatever is added, removed, undone, copied or read, and in whatever order,
\* no part of a document refers to one that was deleted: a label has exactly
\* one marker for every field, a material or the none marker of that field,
\* and materials, none markers and recipes are of fields the document has.
\* (removeField, fieldsChange, removeMaterial, addMarkersFromStrings,
\* addMissingFieldMarkers)
MarkersAreAlive ==
    /\ ReferencesAreAlive(problem)
    /\ computation # NoDocument => ReferencesAreAlive(computation)

\* The couplings a computation has are those its fields' analyses have a weak
\* form for, no more and no fewer, although the problem it was copied from may
\* have stale ones: none missing from the order of the solution, none without
\* an equation. (readFromProblem, synchronizeCouplings)
CouplingsOfComputationHaveWeakForms ==
    computation # NoDocument =>
        DOMAIN computation.couplings =
            {p \in Couples : p[1] # p[2] /\ CouplingIsAvailable(computation, p)}

OrderOf(d, f, i) ==
    IF d.labels[i].at \in DOMAIN d.order[f] THEN {d.order[f][d.labels[i].at]} ELSE {}

\* e is d: the same fields, the same labels in the same order with the same
\* markers and polynomial orders, and every coupling of d with its type.
SameModel(d, e) ==
    /\ e.fields = d.fields /\ e.materials = d.materials
    /\ Len(e.labels) = Len(d.labels)
    /\ \A i \in DOMAIN d.labels :
          /\ e.labels[i].point = d.labels[i].point
          /\ e.labels[i].marker = d.labels[i].marker
          /\ \A f \in FieldsOf(d) : OrderOf(e, f, i) = OrderOf(d, f, i)
    /\ \A p \in DOMAIN d.couplings :
          p \in DOMAIN e.couplings /\ e.couplings[p] = d.couplings[p]

\* A computation is made of the problem as it stands: what the positions of
\* the copy resolve to is what the pointers of the problem point to.
\* (createComputation, readFromProblem, Scene::copy)
CopyIsFaithful ==
    [][computation' # computation /\ computation' # NoDocument
         => SameModel(problem, computation')]_vars

\* What is read from a file, written again, is that file, but for couplings
\* the reader adds. (writeProblemToJsonInternal, readProblemFromJsonInternal)
OpenedIsWhatWasSaved ==
    [][OpenProblem /\ failed' = "" =>
         LET l == Listed(problem')
         IN  /\ \A part \in DOMAIN l \ {"couplings"} : l[part] = file[part]
             /\ \A p \in DOMAIN file.couplings : l.couplings[p] = file.couplings[p]]_vars

\* "check if label doesn't exists" (Scene::addLabel), "Label already exists."
\* (SceneLabelDialog::save): no two labels are at one point.
LabelsAreAtDistinctPoints == Cardinality(PointsOf(problem)) = Len(problem.labels)
============================================================================
