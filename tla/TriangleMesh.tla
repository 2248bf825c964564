---------------------------- MODULE TriangleMesh ----------------------------
(***************************************************************************)
(* The mesh generator: how the faces of a scene become the segments that   *)
(* Triangle meshes, how its triangles become quads, and which faces of the *)
(* quads carry a boundary condition or an interface                        *)
(* (agros-library/mesh/meshgenerator_triangle.cpp and meshgenerator.cpp).  *)
(* Points are numbers of the node list; coordinates are left out.          *)
(***************************************************************************)
EXTENDS Integers, Sequences, FiniteSets, SequencesExt

-----------------------------------------------------------------------------
(* writeToTriangle: a face [from, to, segments] that starts and ends at    *)
(* nodes of the scene.  segments = 0 stands for a straight face.           *)

Segment(from, to, face) == [from |-> from, to |-> to, marker |-> face]

\* nodesCount when the j-th segment of an arc is added, count being its
\* value before the arc: the pseudo node of a segment is appended last.
CountAt(count, j) == count + (IF j = 0 THEN 0 ELSE j - 1)

\* nodeEndIndex of the j-th segment, and the node that is appended with the
\* angle at which the j-th segment begins.
EndIndex(face, count, j) ==
    IF j = face.segments - 1 THEN face.to
    ELSE IF j = 0 THEN count
    ELSE CountAt(count, j) + 1

PseudoNode(count, j) == CountAt(count, j)

StartIndex(face, count, j) ==
    IF j = 0 THEN face.from ELSE EndIndex(face, count, j - 1)

\* The segments of the i-th face (indexed from 1, as its marker) and the
\* number of nodes after it.
Chain(face, i, count) ==
    IF face.segments = 0 THEN <<Segment(face.from, face.to, i)>>
    ELSE [s \in 1..face.segments |->
            Segment(StartIndex(face, count, s - 1), EndIndex(face, count, s - 1), i)]

NextCount(face, count) ==
    count + (IF face.segments = 0 THEN 0 ELSE face.segments - 1)

\* The input of Triangle for a sequence of faces over `nodes` scene nodes.
InputOf(nodes, faces) ==
    FoldLeftDomain(LAMBDA input, i :
                [nodesCount |-> NextCount(faces[i], input.nodesCount),
                 edges |-> input.edges \o Chain(faces[i], i, input.nodesCount)],
             [nodesCount |-> nodes, edges |-> <<>>],
             faces)

\* The labels of the scene (indexed from 0).  mesh.labels[l][f] is the
\* material a label has for the field f, mesh.fields the fields of the
\* problem.  A label with a material makes the area around it a region of
\* Triangle, any other label makes it a hole, which is not triangulated.
NoMaterial == "none"

markersCount(mesh, l) ==
    Cardinality({f \in DOMAIN mesh.labels[l] : mesh.labels[l][f] # NoMaterial})

Regions(mesh) == {l \in DOMAIN mesh.labels : markersCount(mesh, l) > 0}

\* The writer of the deal.II mesh asks the fields of the problem instead.
isHole(mesh, l) ==
    \A f \in mesh.fields \cap DOMAIN mesh.labels[l] : mesh.labels[l][f] = NoMaterial

-----------------------------------------------------------------------------
(* readTriangleMeshFormat: Triangle returns [points, triangles, edges].  A *)
(* triangle has the label of its region, corners 0..2 and, opposite each,  *)
(* the node in the middle of a side; an edge [from, to, marker] has the    *)
(* marker of the segment it lies on, and 0 beside all segments.            *)

Corners == 0..2
After(k) == (k + 1) % 3

Triangles(mesh) == DOMAIN mesh.triangles
Corner(mesh, t, k) == mesh.triangles[t].corner[k]
Middle(mesh, t, k) == mesh.triangles[t].middle[k]
EndsOf(mesh, t, k) == {Corner(mesh, t, After(k)), Corner(mesh, t, After(After(k)))}

\* What Triangle promises of its output (the switches e and o2): triangles
\* turn one way, two of them share at most one side, sides share their
\* middle, and an edge has the direction it has in one triangle.
NodesAreDistinct(mesh) ==
    \A s, t \in Triangles(mesh), i, k \in Corners :
        /\ Corner(mesh, t, k) \in 0..mesh.points - 1
        /\ Middle(mesh, t, k) \in 0..mesh.points - 1
        /\ Corner(mesh, s, i) # Middle(mesh, t, k)
        /\ i # k => Corner(mesh, t, i) # Corner(mesh, t, k)
        /\ Middle(mesh, s, i) = Middle(mesh, t, k)
             <=> EndsOf(mesh, s, i) = EndsOf(mesh, t, k)

TrianglesTurnOneWay(mesh) ==
    \A s, t \in Triangles(mesh), i, k \in Corners :
        /\ Corner(mesh, s, i) = Corner(mesh, t, k)
        /\ Corner(mesh, s, After(i)) = Corner(mesh, t, After(k))
        => s = t /\ i = k

TrianglesShareOneSide(mesh) ==
    \A s, t \in Triangles(mesh), i, j, k, l \in Corners :
        /\ s # t
        /\ Middle(mesh, s, i) = Middle(mesh, t, k)
        /\ Middle(mesh, s, j) = Middle(mesh, t, l)
        => i = j

EdgesAreSides(mesh) ==
    /\ \A e \in mesh.edges : \E t \in Triangles(mesh), k \in Corners :
           e.from = Corner(mesh, t, k) /\ e.to = Corner(mesh, t, After(k))
    /\ \A e, f \in mesh.edges : {e.from, e.to} = {f.from, f.to} => e = f

IsTriangulation(mesh) ==
    /\ mesh.points \in Nat /\ Triangles(mesh) \subseteq Nat
    /\ \A e \in mesh.edges : e.marker \in Nat
    /\ NodesAreDistinct(mesh)
    /\ TrianglesTurnOneWay(mesh)
    /\ TrianglesShareOneSide(mesh)
    /\ EdgesAreSides(mesh)

\* Triangle leaves holes out, and an area without a label is refused when
\* the triangles are read.
TrianglesAreOfRegions(mesh) ==
    \A t \in Triangles(mesh) : mesh.triangles[t].label \in Regions(mesh)

\* Materials of labels belong to fields of the problem (ProblemDocument).
MaterialsAreOfFields(mesh) ==
    \A l \in DOMAIN mesh.labels : \A f \in DOMAIN mesh.labels[l] :
        mesh.labels[l][f] # NoMaterial => f \in mesh.fields

\* The three quads of each triangle around the node that is appended for
\* its incenter; <<t, k>> is the element 3 * t + k.
Elements(mesh) == Triangles(mesh) \X Corners

Node(mesh, el) ==
    <<Middle(mesh, el[1], After(el[2])),
      Corner(mesh, el[1], el[2]),
      Middle(mesh, el[1], After(After(el[2]))),
      mesh.points + el[1]>>

\* A marked edge is cut in two at the first element whose triangle has it
\* as the side that begins at the element's corner.
BeginsAt(mesh, edge, el) ==
    /\ edge.from = Corner(mesh, el[1], el[2])
    /\ edge.to = Corner(mesh, el[1], After(el[2]))

Halves(mesh, edge) ==
    IF \E el \in Elements(mesh) : BeginsAt(mesh, edge, el)
    THEN LET el == CHOOSE x \in Elements(mesh) : BeginsAt(mesh, edge, x)
             middle == Node(mesh, <<el[1], After(el[2])>>)[1]
         IN  {{edge.from, middle}, {middle, edge.to}}
    ELSE {{edge.from, edge.to}}

MarkedHalves(mesh) ==
    UNION {{[face |-> h, marker |-> e.marker] : h \in Halves(mesh, e)} :
              e \in {x \in mesh.edges : x.marker # 0}}

\* fillNeighborStructures: the elements that have both nodes of a half.
NodesOf(mesh, el) == {Node(mesh, el)[n] : n \in 1..4}

Neighbours(mesh, half) == {el \in Elements(mesh) : half \subseteq NodesOf(mesh, el)}

-----------------------------------------------------------------------------
(* writeTodealii.                                                          *)

FacesOf(mesh, el) ==
    LET n == Node(mesh, el)
    IN  {{n[1], n[2]}, {n[2], n[3]}, {n[3], n[4]}, {n[4], n[1]}}

\* A half with one neighbour becomes a boundary line of deal.II; one with
\* two is kept with each of them under the number of the other.
BoundaryLines(mesh) ==
    {h \in MarkedHalves(mesh) : Cardinality(Neighbours(mesh, h.face)) = 1}

Between(mesh, el, other) ==
    {h \in MarkedHalves(mesh) : {el, other} \subseteq Neighbours(mesh, h.face)}

\* The elements that become cells: those of a hole are left out, and the
\* cells after them move up.
Written(mesh) ==
    {el \in Elements(mesh) : ~isHole(mesh, mesh.triangles[el[1]].label)}

NumberOf(el) == 3 * el[1] + el[2]
ElementAt(number) == <<number \div 3, number % 3>>

CellIndex(mesh, el) ==
    NumberOf(el)
      - Cardinality({x \in Elements(mesh) \ Written(mesh) : NumberOf(x) < NumberOf(el)})

\* The user index of a face of a cell, by which the markers are found when
\* the system is assembled.  What was kept under the numbers of elements is
\* looked up under the numbers of cells.
UserIndex(mesh, el, face) ==
    LET others == (Neighbours(mesh, face) \cap Written(mesh)) \ {el}
        Kept(other) == Between(mesh, ElementAt(CellIndex(mesh, el)),
                                     ElementAt(CellIndex(mesh, other)))
        found == IF others = {}
                 THEN {h \in BoundaryLines(mesh) : h.face = face}
                 ELSE UNION {Kept(other) : other \in others}
    IN  IF found = {} THEN 0 ELSE (CHOOSE h \in found : TRUE).marker

=============================================================================
