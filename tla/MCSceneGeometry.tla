--------------------------- MODULE MCSceneGeometry ---------------------------
(***************************************************************************)
(* Instances of SceneGeometry: a document with one edge, one with two.     *)
(* MCTriangleMesh evaluates the meshing of a scene beside it.              *)
(***************************************************************************)
EXTENDS SceneGeometry, MCTriangleMesh

Node(n, p) == [id |-> n, point |-> p]
Edge(n, m) == [from |-> n, to |-> m, angle |-> 0, segments |-> DefaultSegments]

NoDocuments == {}

MCFirstScene == [nodes |-> <<Node(1, 0), Node(2, 1)>>, faces |-> <<Edge(1, 2)>>,
                 sound |-> TRUE]

MCShifts == {-1, 1}

MCDocuments == {[nodes |-> <<Node(1, 1), Node(2, 2)>>, faces |-> <<Edge(1, 2)>>,
                 sound |-> TRUE]}

=============================================================================
