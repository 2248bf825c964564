---------------------------- MODULE SceneGeometry ----------------------------
(***************************************************************************)
(* The nodes and the faces of the scene and the undo stack of the          *)
(* preprocessor (agros-library/scene.cpp, scenenode.cpp, sceneedge.cpp;    *)
(* agros-gui/app/scenegeometrydialog.cpp, sceneview_geometry.cpp,          *)
(* preprocessorview.cpp; agros-gui/gui/other.cpp).                         *)
(*                                                                         *)
(* A face points to its two nodes; a command of the stack holds no         *)
(* pointer, it finds nodes and faces by their coordinates when it is       *)
(* undone or redone.  Whether a sequence of undos and redos walks through  *)
(* the scenes the user saw is therefore a question about every legal       *)
(* sequence of commands, and about the edits that leave no command behind. *)
(*                                                                         *)
(* Points lie on a line: the properties need to tell coordinates apart and *)
(* translate them, not to measure them.  Labels are in ProblemDocument.    *)
(***************************************************************************)
EXTENDS Integers, Sequences, FiniteSets, SequencesExt

CONSTANTS
    Points,             \* coordinates, integers on a line
    Angles,             \* angles of faces, 0 is a straight one
    SegmentCounts,      \* numbers of segments the dialog offers
    DefaultSegments,    \* the default argument of the constructor
    Shifts,             \* translations
    FirstScene,         \* the scene the history starts from
    Documents,          \* scenes of other documents that may be opened
    Null,
    MaxNodes, MaxFaces, MaxEdits        \* bounds

ASSUME PointsAssumption == Points \subseteq Int /\ Shifts \subseteq Int /\ Null \notin Int
ASSUME FacesAssumption ==
    /\ Angles \subseteq Nat /\ SegmentCounts \subseteq Nat
    /\ DefaultSegments \in Nat

VARIABLES
    scene,      \* Scene: nodes, faces; sound is FALSE once an assertion failed
    stack,      \* undoStack(): its items, each a sequence of commands
    index,      \* QUndoStack::index()
    opens,      \* documents opened so far
    edits,      \* edits, swaps and documents so far, bounded
    past,       \* ghost: what the user saw at each index of the stack
    ordinary    \* ghost: no edit yet that the commands cannot tell apart

vars == <<scene, stack, index, opens, edits, past, ordinary>>

-----------------------------------------------------------------------------
(* The containers of the scene.  A node is [id, point], a face is          *)
(* [from, to, angle, segments] with the ids of its nodes; a line is the    *)
(* same with the coordinates of the nodes, as the commands hold it.        *)

Ids(s) == {s.nodes[i].id : i \in DOMAIN s.nodes}
FaceSet(s) == {s.faces[i] : i \in DOMAIN s.faces}

PointOf(s, n) ==
    LET i == SelectInSeq(s.nodes, LAMBDA m : m.id = n)
    IN  IF i = 0 THEN Null ELSE s.nodes[i].point

\* SceneNodeContainer::get
GetNode(s, p) ==
    LET i == SelectInSeq(s.nodes, LAMBDA m : m.point = p)
    IN  IF i = 0 THEN Null ELSE s.nodes[i].id

\* What the steps make of s, one for each element of the list.
AfterAll(Step(_, _), s, list) ==
    LET done[k \in 0 .. Len(list)] ==
            IF k = 0 THEN s ELSE Step(done[k - 1], list[k])
    IN  done[Len(list)]

\* The positions S of the list, as the code comes by them.
InOrder(list, S) ==
    AfterAll(LAMBDA order, k : IF k \in S THEN Append(order, k) ELSE order,
             <<>>, [k \in DOMAIN list |-> k])

Those(list, S) ==
    LET order == InOrder(list, S) IN [k \in DOMAIN order |-> list[order[k]]]

LineOf(s, f) == [f EXCEPT !.from = PointOf(s, f.from), !.to = PointOf(s, f.to)]

\* What is drawn: neither the order of the lists nor the pointers.
Picture(s) == [nodes |-> {s.nodes[i].point : i \in DOMAIN s.nodes},
               lines |-> {LineOf(s, s.faces[i]) : i \in DOMAIN s.faces}]

\* SceneFaceContainer::get by points, angle and number of segments: the
\* difference of the angles is compared without its absolute value.
GetFace(s, l) ==
    SelectInSeq(s.faces, LAMBDA f : /\ PointOf(s, f.from) = l.from
                                    /\ PointOf(s, f.to) = l.to
                                    /\ f.angle <= l.angle
                                    /\ f.segments = l.segments)

\* Scene::getFace by points alone: either direction.
GetFaceBetween(s, p, q) ==
    SelectInSeq(s.faces, LAMBDA f : {PointOf(s, f.from), PointOf(s, f.to)} = {p, q})

\* SceneFaceContainer::get by a face: its own nodes, and the angle turned
\* round for the other direction.
SameFace(s, g) ==
    SelectInSeq(s.faces,
                LAMBDA f : \/ f.from = g.from /\ f.to = g.to /\ f.angle = g.angle
                           \/ f.from = g.to /\ f.to = g.from /\ f.angle = -g.angle)

OnNode(s, n) == {i \in DOMAIN s.faces : n \in {s.faces[i].from, s.faces[i].to}}

Touching(s, n) == Those(s.faces, OnNode(s, n))

FreshId(s) == CHOOSE n \in 1 .. Len(s.nodes) + 1 : n \notin Ids(s)

\* Scene::addNode
AddNode(s, p) ==
    IF GetNode(s, p) # Null THEN s
    ELSE [s EXCEPT !.nodes = Append(@, [id |-> FreshId(s), point |-> p])]

\* Scene::addFace
AddFace(s, f) ==
    IF SameFace(s, f) # 0 THEN s ELSE [s EXCEPT !.faces = Append(@, f)]

\* SceneFaceContainer::remove of what get found, which may be nothing.
RemoveFace(s, i) ==
    IF i = 0 THEN s ELSE [s EXCEPT !.faces = RemoveAt(@, i)]

\* SceneNodeContainer::remove: removeConnectedToNode asserts that no face is
\* left on the node.
RemoveNode(s, n) ==
    IF n = Null THEN s
    ELSE [s EXCEPT !.sound = @ /\ OnNode(s, n) = {},
                   !.nodes = Those(@, {i \in DOMAIN @ : @[i].id # n})]

\* SceneNode::setPointValue
MoveNode(s, n, p) ==
    LET moved(m) == IF m.id = n THEN [m EXCEPT !.point = p] ELSE m
    IN  [s EXCEPT !.nodes = [i \in DOMAIN @ |-> moved(@[i])]]

\* setNodeStart ... setSegments of the i-th face; the nodes are found by their
\* points, and the centre of the face is computed from them at once.
SetFace(s, i, l) ==
    LET from == GetNode(s, l.from)
        to   == GetNode(s, l.to)
    IN  IF i = 0 THEN s
        ELSE IF Null \in {from, to} THEN [s EXCEPT !.sound = FALSE]
        ELSE [s EXCEPT !.faces[i] = [l EXCEPT !.from = from, !.to = to]]

\* A scene as the program reads it from a file that it wrote: a second node at a
\* point is refused, addFace leaves out a face that is there already.
ReadScene(s) ==
    /\ s \in [nodes : Seq([id : Nat, point : Points]), sound : {TRUE},
              faces : Seq([from : Ids(s), to : Ids(s), angle : Nat, segments : Nat])]
    /\ \A i, j \in DOMAIN s.nodes :
          s.nodes[i].id = s.nodes[j].id \/ s.nodes[i].point = s.nodes[j].point => i = j
    /\ \A f \in FaceSet(s) : f.from # f.to
    /\ \A i, j \in DOMAIN s.faces : s.faces[i] = s.faces[j] => i = j

ASSUME ScenesAssumption == \A s \in {FirstScene} \cup Documents : ReadScene(s)

-----------------------------------------------------------------------------
(* The commands.                                                           *)

NodeAdd(p) == [op |-> "nodeAdd", points |-> <<p>>]
NodeAddMulti(ps) == [op |-> "nodeAddMulti", points |-> ps]
NodeEdit(p, q) == [op |-> "nodeEdit", points |-> <<p>>, new |-> <<q>>]
NodeMoveMulti(ps, qs) == [op |-> "nodeMoveMulti", points |-> ps, new |-> qs]
NodeRemoveMulti(ps) == [op |-> "nodeRemoveMulti", points |-> ps, lines |-> <<>>]
FaceAdd(l) == [op |-> "faceAdd", lines |-> <<l>>]
EdgeAddMulti(ls) == [op |-> "edgeAddMulti", lines |-> ls]
EdgeRemoveMulti(ls) == [op |-> "edgeRemoveMulti", lines |-> ls]
EdgeEdit(l, m) == [op |-> "edgeEdit", lines |-> <<l>>, new |-> m]

AddNodes(s, ps) == AfterAll(AddNode, s, ps)

RemoveNodes(s, ps) ==
    AfterAll(LAMBDA t, p : RemoveNode(t, GetNode(t, p)), s, ps)

\* SceneNodeCommandMoveMulti::moveAll: every node is found before one moves.
MoveAll(s, ps, qs) ==
    LET moved == [i \in DOMAIN ps |-> GetNode(s, ps[i])]
    IN  AfterAll(LAMBDA t, i : MoveNode(t, moved[i], qs[i]), s, [i \in DOMAIN ps |-> i])

\* A face on existing nodes, which the caller asserts.
AddLine(s, l) ==
    LET from == GetNode(s, l.from)
        to   == GetNode(s, l.to)
    IN  IF Null \in {from, to} THEN [s EXCEPT !.sound = FALSE]
        ELSE AddFace(s, [l EXCEPT !.from = from, !.to = to])

AddLines(s, ls) == AfterAll(AddLine, s, ls)

RemoveLines(s, ls) ==
    AfterAll(LAMBDA t, l : RemoveFace(t, GetFace(t, l)), s, ls)

\* SceneNodeCommandRemoveMulti::redo: the faces of the nodes are recorded and
\* removed, then the node.  The number of segments is not recorded.
Detach(a, p) ==
    LET n     == GetNode(a.scene, p)
        loose == Touching(a.scene, n)
        lines == [i \in DOMAIN loose |->
                    [LineOf(a.scene, loose[i]) EXCEPT !.segments = DefaultSegments]]
        cut   == [a.scene EXCEPT !.faces = Those(@, DOMAIN @ \ OnNode(a.scene, n))]
    IN  IF n = Null THEN a
        ELSE [scene |-> RemoveNode(cut, n), lines |-> a.lines \o lines]

DetachAll(s, ps) == AfterAll(Detach, [scene |-> s, lines |-> <<>>], ps)

\* redo() of a command
Redo(s, c) ==
    CASE c.op \in {"nodeAdd", "nodeAddMulti"} -> AddNodes(s, c.points)
      [] c.op \in {"nodeEdit", "nodeMoveMulti"} -> MoveAll(s, c.points, c.new)
      [] c.op = "nodeRemoveMulti" -> DetachAll(s, c.points).scene
      [] c.op = "faceAdd" ->
            AddLines(AddNodes(s, <<c.lines[1].from, c.lines[1].to>>), c.lines)
      [] c.op = "edgeAddMulti" -> AddLines(s, c.lines)
      [] c.op = "edgeRemoveMulti" -> RemoveLines(s, c.lines)
      [] c.op = "edgeEdit" -> SetFace(s, GetFace(s, c.lines[1]), c.new)

\* Mutant: the lists of the command are cleared and not filled.
RememberedNothing(s, c) == c

\* What the command remembers of its redo.
Remembered(s, c) ==
    IF c.op = "nodeRemoveMulti"
    THEN [c EXCEPT !.lines = DetachAll(s, c.points).lines] ELSE c

\* undo() of a command
Undo(s, c) ==
    CASE c.op \in {"nodeAdd", "nodeAddMulti"} -> RemoveNodes(s, c.points)
      [] c.op \in {"nodeEdit", "nodeMoveMulti"} -> MoveAll(s, c.new, c.points)
      [] c.op = "nodeRemoveMulti" -> AddLines(AddNodes(s, c.points), c.lines)
      [] c.op \in {"faceAdd", "edgeAddMulti"} -> RemoveLines(s, c.lines)
      [] c.op = "edgeRemoveMulti" -> AddLines(s, c.lines)
      [] c.op = "edgeEdit" -> SetFace(s, GetFace(s, c.new), c.lines[1])

\* An item of the stack is one command or a macro: redone from the first to
\* the last command, undone from the last to the first.
RedoItem(s, item) ==
    AfterAll(LAMBDA a, c : [scene |-> Redo(a.scene, c),
                            item  |-> Append(a.item, Remembered(a.scene, c))],
             [scene |-> s, item |-> <<>>], item)

UndoItem(s, item) == AfterAll(Undo, s, Reverse(item))

-----------------------------------------------------------------------------
(* The stack.                                                              *)

\* What the commands can tell apart: one face between two nodes, and the
\* number of segments that a removed node gives back to its faces.
Plain(picture) ==
    /\ \A l \in picture.lines : l.segments = DefaultSegments
    /\ \A l, m \in picture.lines : {l.from, l.to} = {m.from, m.to} => l = m

\* QUndoStack::push of the items one after the other: each discards what was
\* undone and is redone at once.  `done' is the scene and the history that the
\* items before this one left.
PushOn(done, item) ==
    LET r    == RedoItem(done.scene, item)
        kept == SubSeq(done.stack, 1, done.index)
    IN  [scene |-> r.scene,
         stack |-> Append(kept, r.item),
         index |-> done.index + 1,
         past  |-> IF ordinary /\ r.scene.sound
                   THEN Append(SubSeq(done.past, 1, done.index + 1), Picture(r.scene))
                   ELSE <<>>]

\* s is the scene the handler made before it pushes.
Pushed(s, items) ==
    AfterAll(PushOn, [scene |-> s, stack |-> stack, index |-> index, past |-> past], items)

\* The ghosts are given up with the first scene that is not plain.
Watch(plain, pictures) ==
    /\ ordinary' = (ordinary /\ plain)
    /\ past' = IF ordinary' THEN pictures ELSE <<>>

Counted == edits < MaxEdits /\ edits' = edits + 1

Finish(done) ==
    /\ Counted
    /\ Len(done.scene.nodes) <= MaxNodes
    /\ Len(done.scene.faces) <= MaxFaces
    /\ scene' = done.scene
    /\ stack' = done.stack
    /\ index' = done.index
    /\ Watch(done.scene.sound /\ Plain(Picture(done.scene)), done.past)
    /\ UNCHANGED opens

Init ==
    /\ scene = FirstScene
    /\ stack = <<>>
    /\ index = 0
    /\ opens = 0
    /\ edits = 0
    /\ past = <<Picture(FirstScene)>>
    /\ ordinary = Plain(Picture(FirstScene))

-----------------------------------------------------------------------------
(* The edits.                                                              *)

\* SceneViewProblem::mousePressEvent on an empty point, or the dialog of a new
\* node: the node is added, then the command that would add it is pushed.
NewNode(p) ==
    /\ GetNode(scene, p) = Null
    /\ Finish(Pushed(AddNode(scene, p), <<<<NodeAdd(p)>>>>))

\* A face from one node to another; pushed when addFace took it.
NewFace(l) ==
    /\ SameFace(scene, [l EXCEPT !.from = GetNode(scene, l.from),
                                 !.to = GetNode(scene, l.to)]) = 0
    /\ Finish(Pushed(AddLine(scene, l), <<<<FaceAdd(l)>>>>))

Line(p, q, angle, segments) ==
    [from |-> p, to |-> q, angle |-> angle, segments |-> segments]

NodePoints == {scene.nodes[i].point : i \in DOMAIN scene.nodes}

\* Two clicks: straight, whatever there is between the nodes.
ClickFace(p, q) == NewFace(Line(p, q, 0, DefaultSegments))

\* The dialog of a new face refuses a second face between two nodes.
DialogFace(p, q, angle, segments) ==
    /\ GetFaceBetween(scene, p, q) = 0
    /\ NewFace(Line(p, q, angle, segments))

\* SceneNodeDialog::save
EditNode(p, q) ==
    /\ GetNode(scene, q) = Null
    /\ Finish(Pushed(scene, <<<<NodeEdit(p, q)>>>>))

\* SceneFaceDialog::save: the command is redone by the push, and what the
\* dialog holds is set once more.
EditFace(i, m) ==
    /\ GetFaceBetween(scene, m.from, m.to) \in {0, i}
    /\ LET done == Pushed(scene, <<<<EdgeEdit(LineOf(scene, scene.faces[i]), m)>>>>)
       IN  Finish([done EXCEPT !.scene = SetFace(@, i, m)])

\* doSwapDirection: no command is pushed.
SwapFace(i) ==
    /\ Counted
    /\ scene' = [scene EXCEPT !.faces[i].from = scene.faces[i].to,
                              !.faces[i].to = scene.faces[i].from]
    /\ Watch(FALSE, past)
    /\ UNCHANGED <<stack, index, opens>>

\* What is selected: positions in the lists, taken in the order of the lists.
PointsOf(S) == [k \in DOMAIN Those(scene.nodes, S) |-> Those(scene.nodes, S)[k].point]

\* SceneViewProblem::doDeleteSelected: one macro; the faces are those that
\* are left when the nodes have taken theirs.
DeleteSelected(S, F) ==
    LET cut   == DetachAll(scene, PointsOf(S)).scene
        left  == Those(scene.faces, {k \in F : scene.faces[k] \in FaceSet(cut)})
        lines == [k \in DOMAIN left |-> LineOf(scene, left[k])]
    IN  Finish(Pushed(scene,
              <<(IF S = {} THEN <<>> ELSE <<NodeRemoveMulti(PointsOf(S))>>)
                \o (IF lines = <<>> THEN <<>> ELSE <<EdgeRemoveMulti(lines)>>)>>))

\* moveSelectedNodes selects the nodes of the selected faces too.
Ends(S, F) ==
    S \cup {i \in DOMAIN scene.nodes :
                \E k \in F : scene.nodes[i].id \in {scene.faces[k].from, scene.faces[k].to}}

\* Mutant: only a selected node stands in the way.
ObstructedBySelected(S, d) ==
    \E i, j \in S : scene.nodes[j].point = scene.nodes[i].point + d

\* The node that stands in the way of a selected one.
Obstructed(S, d) ==
    \E i \in S, j \in DOMAIN scene.nodes \ S :
        scene.nodes[j].point = scene.nodes[i].point + d

Shifted(ps, d) == [k \in DOMAIN ps |-> ps[k] + d]

\* moveSelectedNodes, from the dialog; an obstructed one pushes nothing.
MoveSelected(S, d) ==
    /\ ~Obstructed(S, d)
    /\ Finish(Pushed(scene,
                     <<<<NodeMoveMulti(PointsOf(S), Shifted(PointsOf(S), d))>>>>))

\* The same from the mouse: inside a macro, which is pushed empty when the
\* move is obstructed.
DragSelected(S, d) ==
    /\ Obstructed(S, d)
    /\ Finish(Pushed(scene, <<<<>>>>))

\* transformPosition with copy: the nodes that are not there yet, then the
\* faces that are not there yet; a face in the way leaves the nodes behind.
CopySelected(S, F, d) ==
    LET newPts == {i \in S : GetNode(scene, scene.nodes[i].point + d) = Null}
        line(f) == LET l == LineOf(scene, f) IN [l EXCEPT !.from = @ + d, !.to = @ + d]
        between(k) == LET l == line(scene.faces[k]) IN GetFaceBetween(scene, l.from, l.to)
        copied == Those(scene.faces, {k \in F : between(k) = 0})
        nodesItem == <<NodeAddMulti(Shifted(PointsOf(newPts), d))>>
        facesItem == <<EdgeAddMulti([k \in DOMAIN copied |-> line(copied[k])])>>
    IN  /\ ~Obstructed(S, d)
        /\ Finish(Pushed(scene, IF F # {} /\ \A k \in F : between(k) \in F \cup {0}
                                THEN <<nodesItem, facesItem>> ELSE <<nodesItem>>))

\* QUndoStack::undo
UndoLast ==
    /\ index > 0
    /\ scene' = UndoItem(scene, stack[index])
    /\ index' = index - 1
    /\ Watch(TRUE, past)
    /\ UNCHANGED <<stack, opens, edits>>

\* QUndoStack::redo
RedoNext ==
    /\ index < Len(stack)
    /\ LET r == RedoItem(scene, stack[index + 1])
       IN  /\ scene' = r.scene
           /\ stack' = [stack EXCEPT ![index + 1] = r.item]
    /\ index' = index + 1
    /\ Watch(TRUE, past)
    /\ UNCHANGED <<opens, edits>>

\* MainWindow opens another document: the scene is cleared and read, the
\* stack is the application's and stays as it is.
OpenDocument(document) ==
    /\ Counted
    /\ opens' = opens + 1
    /\ scene' = document
    /\ Watch(FALSE, past)
    /\ UNCHANGED <<stack, index>>

Edit ==
    \/ \E p \in Points : NewNode(p)
    \/ \E p, q \in NodePoints :
          /\ p # q
          /\ \/ ClickFace(p, q)
             \/ \E angle \in Angles, segments \in SegmentCounts :
                   \/ DialogFace(p, q, angle, segments)
                   \/ \E i \in DOMAIN scene.faces : EditFace(i, Line(p, q, angle, segments))
    \/ \E p \in NodePoints, q \in Points : EditNode(p, q)
    \/ \E i \in DOMAIN scene.faces : SwapFace(i)

Selection ==
    \E S \in SUBSET DOMAIN scene.nodes, F \in SUBSET DOMAIN scene.faces :
        /\ S \cup F # {}
        /\ \/ DeleteSelected(S, F)
           \/ \E d \in Shifts :
                 /\ \A i \in Ends(S, F) : scene.nodes[i].point + d \in Points
                 /\ \/ MoveSelected(Ends(S, F), d)
                    \/ DragSelected(Ends(S, F), d)
                    \/ CopySelected(Ends(S, F), F, d)

\* A failed assertion ends the program.
Next ==
    /\ scene.sound
    /\ \/ Edit
       \/ Selection
       \/ UndoLast
       \/ RedoNext
       \/ \E document \in Documents : OpenDocument(document)

Spec == Init /\ [][Next]_vars

-----------------------------------------------------------------------------
(* Properties.                                                             *)

\* No pointer of a face outlives its node (scenenode.cpp:156-162,
\* sceneedge.cpp:367-384), and as long as the document is the same the nodes are
\* at distinct points and no face begins where it ends, although moves, their
\* undos and copies place nodes without asking addNode
\* (scenegeometrydialog.cpp:188-272, sceneview_geometry.cpp:1399-1476).
FacesHangOnTwoNodes ==
    scene.sound =>
        /\ \A i \in DOMAIN scene.faces :
              {scene.faces[i].from, scene.faces[i].to} \subseteq Ids(scene)
        /\ opens = 0 =>
              /\ Cardinality(NodePoints) = Len(scene.nodes)
              /\ \A i \in DOMAIN scene.faces : scene.faces[i].from # scene.faces[i].to

\* The commands find nodes and faces by their coordinates, and still every
\* sequence of undos and redos walks through the scenes the user saw, and no
\* node is removed under a face, as long as the document is the same, no face
\* was swapped, no two faces joined the same nodes and no face had its own
\* number of segments (scenegeometrydialog.cpp:171-362, 656-804).
UndoRestores ==
    ordinary => scene.sound /\ Picture(scene) = past[index + 1]

\* "assert(0)" in SceneFaceContainer::removeConnectedToNode
\* (sceneedge.cpp:373): a node is never removed while a face hangs on it; and
\* "assert(nodeStart && nodeEnd)" when faces are put back
\* (scenegeometrydialog.cpp:323, 784).
NoFaceIsCutLoose == scene.sound

=============================================================================
