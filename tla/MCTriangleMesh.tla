--------------------------- MODULE MCTriangleMesh ---------------------------
(***************************************************************************)
(* Small triangulations and scenes, on which TLC evaluates TriangleMesh:   *)
(* a square cut in two, four triangles around a node, six around a hole.   *)
(***************************************************************************)
EXTENDS Integers, Sequences, FiniteSets

Mesh == INSTANCE TriangleMesh

Shapes ==
    {[nodes |-> 4, triangles |-> <<<<0, 1, 2>>, <<0, 2, 3>>>>],
     [nodes |-> 5, triangles |-> <<<<0, 1, 4>>, <<1, 2, 4>>, <<2, 3, 4>>, <<3, 0, 4>>>>],
     [nodes |-> 6, triangles |-> <<<<0, 1, 4>>, <<0, 4, 3>>, <<1, 2, 5>>,
                                   <<1, 5, 4>>, <<2, 0, 3>>, <<2, 3, 5>>>>]}

FromCorner(t, k) == t[k + 1]
ToCorner(t, k) == t[Mesh!After(k) + 1]
Side(t, k) == {FromCorner(t, k), ToCorner(t, k)}
Sides(shape) == {Side(shape.triangles[i], k) : i \in DOMAIN shape.triangles, k \in Mesh!Corners}

Least(S) == CHOOSE a \in S : \A b \in S : a <= b
Greatest(S) == CHOOSE a \in S : \A b \in S : a >= b
MiddleOf(shape, side) == shape.nodes * (Least(side) + 1) + Greatest(side)

\* The edge of a side, in its direction in the first or the last triangle
\* that has it; marked sides have different markers.
EdgeOf(shape, side, last, marked) ==
    LET having == {i \in DOMAIN shape.triangles :
                     \E k \in Mesh!Corners : Side(shape.triangles[i], k) = side}
        t == shape.triangles[IF last THEN Greatest(having) ELSE Least(having)]
        k == CHOOSE k \in Mesh!Corners : Side(t, k) = side
    IN  [from |-> FromCorner(t, k), to |-> ToCorner(t, k),
         marker |-> IF side \in marked THEN MiddleOf(shape, side) ELSE 0]

\* The triangles take turns between a label with materials of both fields
\* and one of a single field; the third label makes a hole.
Labels ==
    [l \in 0..2 |->
        CASE l = 0 -> [f \in {"f1", "f2"} |-> "iron"]
          [] l = 1 -> [f \in {"f2"} |-> "iron"]
          [] l = 2 -> [f \in {"f1"} |-> Mesh!NoMaterial]]

MeshOf(shape, marked, last) ==
    [points |-> shape.nodes * (shape.nodes + 1),
     fields |-> {"f1", "f2"},
     labels |-> Labels,
     triangles |->
        [i \in 0..Len(shape.triangles) - 1 |->
           LET t == shape.triangles[i + 1]
           IN  [label |-> i % 2,
                corner |-> [k \in Mesh!Corners |-> FromCorner(t, k)],
                middle |-> [k \in Mesh!Corners |-> MiddleOf(shape, Side(t, Mesh!After(k)))]]],
     edges |-> {EdgeOf(shape, side, last, marked) : side \in Sides(shape)}]

Meshes ==
    UNION {{MeshOf(shape, marked, last) :
              marked \in {Sides(shape)} \cup {{side} : side \in Sides(shape)},
              last \in BOOLEAN} : shape \in Shapes}

\* The theorems of SceneGeometryProofs about TriangleMesh on these triangulations.
Reference(mesh, face) ==
    IF \E h \in Mesh!MarkedHalves(mesh) : h.face = face
    THEN (CHOOSE h \in Mesh!MarkedHalves(mesh) : h.face = face).marker
    ELSE 0

ASSUME MeshesAreTriangulations ==
    \A mesh \in Meshes :
        /\ Mesh!IsTriangulation(mesh)
        /\ Mesh!TrianglesAreOfRegions(mesh)
        /\ Mesh!MaterialsAreOfFields(mesh)

ASSUME HalvesHaveOneOrTwoNeighbours ==
    \A mesh \in Meshes : \A h \in Mesh!MarkedHalves(mesh) :
        Cardinality(Mesh!Neighbours(mesh, h.face)) \in {1, 2}

UserIndicesAreRight(mesh) ==
    \A el \in Mesh!Written(mesh) : \A face \in Mesh!FacesOf(mesh, el) :
        Mesh!UserIndex(mesh, el, face) = Reference(mesh, face)

ASSUME UserIndicesAreOfFaces ==
    \A mesh \in Meshes : Mesh!Written(mesh) = Mesh!Elements(mesh) /\ UserIndicesAreRight(mesh)

\* A label that kept a material of a field the problem has lost would be a
\* region for Triangle and a hole for the writer: its elements would be
\* dropped from a mesh that has them, and interfaces would be misplaced.
ASSUME FieldsMatter ==
    \A shape \in Shapes :
        LET mesh == [MeshOf(shape, Sides(shape), FALSE) EXCEPT !.fields = {"f1"}]
        IN  /\ Mesh!TrianglesAreOfRegions(mesh)
            /\ ~Mesh!MaterialsAreOfFields(mesh)
            /\ ~UserIndicesAreRight(mesh)

\* So would a hole of the scene that Triangle did not leave out.
ASSUME RegionsMatter ==
    \A shape \in Shapes :
        LET mesh == [MeshOf(shape, Sides(shape), FALSE) EXCEPT !.triangles[0].label = 2]
        IN  /\ ~Mesh!TrianglesAreOfRegions(mesh)
            /\ ~UserIndicesAreRight(mesh)

\* An edge against the direction of its only triangle would not be cut, and
\* the assert of fillNeighborStructures would fail: the code relies on the
\* direction in which Triangle writes edges.
ASSUME DirectionMatters ==
    \A mesh \in Meshes : \A e \in mesh.edges :
        LET reversed == [e EXCEPT !.from = e.to, !.to = e.from]
            boundary == \A h \in Mesh!Halves(mesh, e) : Cardinality(Mesh!Neighbours(mesh, h)) = 1
        IN  boundary => \A h \in Mesh!Halves(mesh, reversed) : Mesh!Neighbours(mesh, h) = {}

-----------------------------------------------------------------------------
(* The chains of a closed scene of three faces with up to four segments.   *)

Face(from, to, segments) == [from |-> from, to |-> to, segments |-> segments]

Scenes == {<<Face(0, 1, a), Face(1, 2, b), Face(2, 0, c)>> : a, b, c \in 0..4}

\* The segments of the whole scene go once around through all nodes.
ASSUME ChainsCloseTheScene ==
    \A faces \in Scenes :
        LET input == Mesh!InputOf(3, faces)
            nodes == 0..input.nodesCount - 1
        IN  /\ Len(input.edges) = input.nodesCount
            /\ {input.edges[i].from : i \in DOMAIN input.edges} = nodes
            /\ {input.edges[i].to : i \in DOMAIN input.edges} = nodes
            /\ \A i \in 1..Len(input.edges) - 1 : input.edges[i].to = input.edges[i + 1].from

=============================================================================
