------------------------- MODULE SceneGeometryProofs -------------------------
(***************************************************************************)
(* SceneGeometry for every scene and every history of edits, undos and     *)
(* redos, and TriangleMesh, the mesh of such a scene, for every            *)
(* triangulation.                                                          *)
(*                                                                         *)
(* The scene.  A command holds coordinates and finds nodes and faces by    *)
(* them.  What can be told of it is therefore told of what is seen: the    *)
(* points, and with the lines what joins them.  `Does' says what a command *)
(* makes of what is seen, `Fits' also that the command has recorded what   *)
(* it took away; a command that does is redone to what it should make and  *)
(* then fits, and a command that fits is undone to what was seen before.   *)
(* `Walk' says it of the items of the undo stack one after the other, and  *)
(* the invariant is that the scene shows the place of the walk that the    *)
(* index says: of points as long as the document is the same, of points    *)
(* and lines as long as the drawing was plain.                             *)
(*                                                                         *)
(* The mesh.  The assert that the neighbours of a marked edge are found    *)
(* holds, a face of a quad is told from the other faces by the quad behind *)
(* it, and the chain of an arc is connected.                               *)
(***************************************************************************)
EXTENDS SceneGeometry, TriangleMesh, FiniteInduction

-----------------------------------------------------------------------------
(* Lists: the first element of a kind, and the elements at some positions. *)

\* The first position that a search finds.
LEMMA LeastIsMember ==
    ASSUME NEW I, I \subseteq Nat, I # {}
    PROVE  Min(I) \in I
<1>1. \E n \in I : \A m \in I : n <= m
  BY LeastNatural
<1> QED BY <1>1 DEF Min

\* A list that grows by one element.
Grown(order, k, S) == IF k \in S THEN Append(order, k) ELSE order

\* What InOrder has collected after k positions.
OrderUpTo(S, k) ==
    {order \in Seq(Nat) :
        /\ ToSet(order) = {j \in S : j <= k}
        /\ \A i, j \in DOMAIN order : order[i] = order[j] => i = j}

\* One more position.
LEMMA OrderGrows ==
    ASSUME NEW S, S \subseteq Nat, NEW k \in Nat, NEW order \in OrderUpTo(S, k)
    PROVE  Grown(order, k + 1, S) \in OrderUpTo(S, k + 1)
<1> DEFINE n == Len(order)
           new == Append(order, k + 1)
<1>1. /\ order \in Seq(Nat) /\ n \in Nat /\ DOMAIN order = 1 .. n
      /\ ToSet(order) = {j \in S : j <= k}
      /\ \A i, j \in DOMAIN order : order[i] = order[j] => i = j
  BY DEF OrderUpTo
<1>2. \A i \in DOMAIN order : order[i] \in S /\ order[i] <= k
  <2> TAKE i \in DOMAIN order
  <2>1. order[i] \in ToSet(order)
    BY DEF ToSet
  <2> QED BY <1>1, <2>1
<1>3. CASE k + 1 \notin S
  <2>1. {j \in S : j <= k} = {j \in S : j <= k + 1}
    <3>1. \A j \in S : j <= k <=> j <= k + 1
      <4> TAKE j \in S
      <4>1. j \in Nat /\ j # k + 1
        BY <1>3
      <4> QED BY <4>1
    <3> QED BY <3>1
  <2>2. Grown(order, k + 1, S) = order
    BY <1>3 DEF Grown
  <2> QED BY <1>1, <2>1, <2>2 DEF OrderUpTo
<1>4. CASE k + 1 \in S
  <2>1. Grown(order, k + 1, S) = new
    BY <1>4 DEF Grown
  <2>2. /\ new \in Seq(Nat) /\ Len(new) = n + 1 /\ new[n + 1] = k + 1
        /\ \A i \in 1 .. n : new[i] = order[i]
    BY <1>1, AppendProperties
  <2>3. DOMAIN new = 1 .. n + 1
    BY <2>2
  <2> HIDE DEF new
  <2>4. \A i \in DOMAIN new : i \in DOMAIN order \/ i = n + 1
    BY <1>1, <2>3
  <2>5. ToSet(new) = {j \in S : j <= k + 1}
    <3>1. \A j \in ToSet(new) : j \in S /\ j <= k + 1
      <4> TAKE j \in ToSet(new)
      <4>1. PICK i \in DOMAIN new : j = new[i]
        BY DEF ToSet
      <4>2. CASE i \in DOMAIN order
        <5>1. j \in S /\ j <= k
          BY <1>1, <1>2, <2>2, <4>1, <4>2
        <5>2. j \in Nat
          BY <5>1
        <5> QED BY <5>1, <5>2
      <4>3. CASE i = n + 1
        BY <1>4, <2>2, <4>1, <4>3
      <4> QED BY <2>4, <4>2, <4>3
    <3>2. \A j \in S : j <= k + 1 => j \in ToSet(new)
      <4> SUFFICES ASSUME NEW j \in S, j <= k + 1 PROVE j \in ToSet(new)
        OBVIOUS
      <4>1. CASE j = k + 1
        <5>1. n + 1 \in DOMAIN new
          BY <1>1, <2>3
        <5> QED BY <2>2, <4>1, <5>1 DEF ToSet
      <4>2. CASE j # k + 1
        <5>1. j \in Nat /\ j <= k
          BY <4>2
        <5>2. j \in ToSet(order)
          BY <1>1, <5>1
        <5>3. PICK i \in DOMAIN order : j = order[i]
          BY <5>2 DEF ToSet
        <5>4. i \in 1 .. n /\ i \in DOMAIN new
          BY <1>1, <2>3, <5>3
        <5>5. j = new[i]
          BY <2>2, <5>3, <5>4
        <5> QED BY <5>4, <5>5 DEF ToSet
      <4> QED BY <4>1, <4>2
    <3> QED BY <3>1, <3>2
  <2>6. ASSUME NEW i \in DOMAIN new, NEW j \in DOMAIN new, new[i] = new[j] PROVE i = j
    <3>1. \A m \in DOMAIN order : new[m] = order[m] /\ order[m] <= k /\ order[m] \in Nat
      BY <1>1, <1>2, <2>2
    <3>2. CASE i \in DOMAIN order /\ j \in DOMAIN order
      BY <1>1, <2>6, <3>1, <3>2
    <3>3. CASE i \in DOMAIN order /\ j = n + 1
      BY <2>2, <2>6, <3>1, <3>3
    <3>4. CASE j \in DOMAIN order /\ i = n + 1
      BY <2>2, <2>6, <3>1, <3>4
    <3> QED BY <2>4, <3>2, <3>3, <3>4
  <2> QED BY <2>1, <2>2, <2>5, <2>6 DEF OrderUpTo
<1> QED BY <1>3, <1>4

\* Positions are collected one after the other.
LEMMA InOrderFollows ==
    ASSUME NEW T, NEW list \in Seq(T), NEW S, S \subseteq DOMAIN list
    PROVE  \E f : /\ f[0] = <<>>
                  /\ \A k \in 0 .. Len(list) - 1 : f[k + 1] = Grown(f[k], k + 1, S)
                  /\ InOrder(list, S) = f[Len(list)]
<1> DEFINE N == Len(list)
           ids == [k \in DOMAIN list |-> k]
           step == [i \in 1 .. N |-> [x \in Seq(Nat) |-> Grown(x, i, S)]]
           Rec(g) == g = [k \in 0 .. N |->
               IF k = 0 THEN <<>> ELSE Grown(g[k - 1], ids[k], S)]
           f == CHOOSE g : Rec(g)
<1>1. N \in Nat /\ DOMAIN list = 1 .. N
  OBVIOUS
<1>2. Len(ids) = N
  <2>1. ids \in [1 .. N -> Nat]
    BY <1>1
  <2> HIDE DEF ids
  <2> QED BY <1>1, <2>1, FunctionIsSequence
<1>3. \A x \in Seq(Nat) : \A i \in 1 .. N : Grown(x, i, S) \in Seq(Nat)
  BY <1>1 DEF Grown
<1>4. StaysIn(Seq(Nat), N, step)
  BY <1>1, <1>3 DEF StaysIn
<1>5. PICK g : Follows(g, Seq(Nat), N, <<>>, step)
  <2> <<>> \in Seq(Nat)
    OBVIOUS
  <2> HIDE DEF step
  <2> QED BY <1>1, <1>4, RecursionExists
<1>6. Rec(g)
  <2> DEFINE h == [k \in 0 .. N |-> IF k = 0 THEN <<>> ELSE Grown(g[k - 1], ids[k], S)]
  <2>1. ASSUME NEW k \in 0 .. N PROVE g[k] = h[k]
    <3>1. CASE k = 0
      BY <1>5, <3>1 DEF Follows
    <3>2. CASE k # 0
      <4>1. k \in 1 .. N /\ k - 1 \in 0 .. N /\ ids[k] = k
        BY <1>1, <3>2
      <4>2. g[k - 1] \in Seq(Nat) /\ g[k] = step[k][g[k - 1]]
        BY <1>5, <4>1 DEF Follows
      <4>3. step[k][g[k - 1]] = Grown(g[k - 1], k, S)
        BY <4>1, <4>2
      <4> HIDE DEF step
      <4> QED BY <3>2, <4>1, <4>2, <4>3
    <3> QED BY <3>1, <3>2
  <2>2. DOMAIN g = 0 .. N /\ g = [k \in 0 .. N |-> g[k]]
    BY <1>5 DEF Follows
  <2>3. DOMAIN h = 0 .. N /\ h = [k \in 0 .. N |-> h[k]]
    OBVIOUS
  <2>4. g = h
    <3> HIDE DEF h
    <3> QED BY <2>1, <2>2, <2>3
  <2> QED BY <2>4
<1>7. Rec(f)
  <2> HIDE DEF Rec
  <2> QED BY <1>6
<1>8. \A k \in 0 .. N : f[k] = IF k = 0 THEN <<>> ELSE Grown(f[k - 1], ids[k], S)
  <2> HIDE DEF f
  <2> QED BY <1>7
<1>9. InOrder(list, S) = f[N]
  BY <1>2, Zenon DEF InOrder, AfterAll, f, Rec, N, Grown
<1>10. ASSUME NEW k \in 0 .. N - 1 PROVE f[k + 1] = Grown(f[k], k + 1, S)
  <2>1. k + 1 \in 0 .. N /\ k + 1 # 0 /\ (k + 1) - 1 = k /\ ids[k + 1] = k + 1
    BY <1>1
  <2> HIDE DEF f, ids
  <2> QED BY <1>8, <2>1
<1>11. f[0] = <<>>
  <2>1. 0 \in 0 .. N
    BY <1>1
  <2> HIDE DEF f
  <2> QED BY <1>8, <2>1
<1> HIDE DEF f
<1> QED BY <1>9, <1>10, <1>11

\* All positions of S, each of them once.
LEMMA InOrderIs ==
    ASSUME NEW T, NEW list \in Seq(T), NEW S, S \subseteq DOMAIN list
    PROVE  /\ InOrder(list, S) \in Seq(Nat)
           /\ ToSet(InOrder(list, S)) = S
           /\ \A i, j \in DOMAIN InOrder(list, S) :
                 InOrder(list, S)[i] = InOrder(list, S)[j] => i = j
<1> DEFINE N == Len(list)
<1>1. N \in Nat /\ DOMAIN list = 1 .. N /\ S \subseteq Nat /\ \A j \in S : j <= N
  OBVIOUS
<1>2. PICK f : /\ f[0] = <<>>
               /\ \A k \in 0 .. N - 1 : f[k + 1] = Grown(f[k], k + 1, S)
               /\ InOrder(list, S) = f[N]
  BY InOrderFollows
<1> DEFINE Done == {k \in 0 .. N : f[k] \in OrderUpTo(S, k)}
<1>3. 0 \in Done
  <2>1. <<>> \in Seq(Nat) /\ DOMAIN <<>> = {} /\ ToSet(<<>>) = {}
    BY DEF ToSet
  <2>2. {j \in S : j <= 0} = {}
    BY <1>1
  <2>3. 0 \in 0 .. N
    BY <1>1
  <2>4. <<>> \in OrderUpTo(S, 0)
    BY <2>1, <2>2 DEF OrderUpTo
  <2> QED BY <1>2, <2>3, <2>4
<1>4. ASSUME NEW k \in 0 .. N - 1, k \in Done PROVE k + 1 \in Done
  <2>1. k + 1 \in 0 .. N /\ k \in Nat
    BY <1>1
  <2> QED BY <1>1, <1>2, <1>4, <2>1, OrderGrows
<1> HIDE DEF Done
<1>5. \A k \in 0 .. N : k \in Done
  <2>1. \A k \in 0 .. N - 1 : k \in Done => k + 1 \in Done
    BY <1>4
  <2> QED BY <1>1, <1>3, <2>1, SetInduction
<1>6. N \in Done
  BY <1>1, <1>5
<1>7. InOrder(list, S) \in OrderUpTo(S, N)
  BY <1>2, <1>6 DEF Done
<1>8. {j \in S : j <= N} = S
  BY <1>1
<1> QED BY <1>7, <1>8 DEF OrderUpTo

\* The elements at the positions S: a list of them, in which two are the same only
\* when they are the same in the list.
PickedFrom(those, list, S) ==
    \A i, j \in DOMAIN those : i # j =>
        \E k, l \in S : k # l /\ those[i] = list[k] /\ those[j] = list[l]

LEMMA ThoseAre ==
    ASSUME NEW T, NEW list \in Seq(T), NEW S, S \subseteq DOMAIN list
    PROVE  /\ Those(list, S) \in Seq(T)
           /\ ToSet(Those(list, S)) = {list[i] : i \in S}
           /\ \A i \in DOMAIN Those(list, S) : \E k \in S : Those(list, S)[i] = list[k]
           /\ PickedFrom(Those(list, S), list, S)
<1> DEFINE order == InOrder(list, S)
           those == Those(list, S)
<1>1. /\ order \in Seq(Nat) /\ ToSet(order) = S
      /\ \A i, j \in DOMAIN order : order[i] = order[j] => i = j
  BY InOrderIs
<1>2. those = [k \in DOMAIN order |-> list[order[k]]]
  BY DEF Those
<1> HIDE DEF order, those
<1>3. DOMAIN order = 1 .. Len(order) /\ Len(order) \in Nat
  BY <1>1
<1>4. \A k \in DOMAIN order : order[k] \in S
  BY <1>1 DEF ToSet
<1>5. \A k \in DOMAIN order : list[order[k]] \in T
  BY <1>4
<1>6. those \in [1 .. Len(order) -> T]
  BY <1>2, <1>3, <1>5
<1>7. those \in Seq(T)
  BY <1>3, <1>6, FunctionIsSequence
<1>8. DOMAIN those = DOMAIN order /\ \A i \in DOMAIN those : those[i] = list[order[i]]
  BY <1>2
<1>9. ToSet(those) = {list[i] : i \in S}
  <2>1. \A i \in S : \E k \in DOMAIN order : i = order[k]
    BY <1>1 DEF ToSet
  <2>2. \A x \in {list[i] : i \in S} : x \in {those[k] : k \in DOMAIN those}
    BY <1>8, <2>1
  <2>3. \A x \in {those[k] : k \in DOMAIN those} : x \in {list[i] : i \in S}
    BY <1>4, <1>8
  <2> QED BY <2>2, <2>3 DEF ToSet
<1>10. \A i, j \in DOMAIN those : i # j =>
          \E k, l \in S : k # l /\ those[i] = list[k] /\ those[j] = list[l]
  BY <1>1, <1>4, <1>8
<1> QED BY <1>4, <1>7, <1>8, <1>9, <1>10 DEF those, PickedFrom

-----------------------------------------------------------------------------
(* Scenes, and what is looked up in them.                                  *)

\* Nodes, faces, and lines as the commands hold them, with the points of a face.
NodeRecs == [id : Nat, point : Points]
FaceRecs == [from : Nat, to : Nat, angle : Nat, segments : Nat]
LineRecs == [from : Points \cup {Null}, to : Points \cup {Null}, angle : Nat, segments : Nat]

\* Scenes of any nodes and faces.
Scenes == [nodes : Seq(NodeRecs), faces : Seq(FaceRecs), sound : BOOLEAN]

\* The points that have a node.
PointSet(s) == {s.nodes[i].point : i \in DOMAIN s.nodes}

\* The node n is at the point p.
Placed(s, n, p) == \E i \in DOMAIN s.nodes : s.nodes[i].id = n /\ s.nodes[i].point = p

\* One node at a point, one point of a node.
NodesApart(s) ==
    \A i, j \in DOMAIN s.nodes :
        s.nodes[i].id = s.nodes[j].id \/ s.nodes[i].point = s.nodes[j].point => i = j

\* The parts of a scene.
LEMMA SceneHas ==
    ASSUME NEW s \in Scenes
    PROVE  /\ s.nodes \in Seq(NodeRecs) /\ s.faces \in Seq(FaceRecs) /\ s.sound \in BOOLEAN
           /\ DOMAIN s.nodes = 1 .. Len(s.nodes) /\ Len(s.nodes) \in Nat
           /\ DOMAIN s.faces = 1 .. Len(s.faces) /\ Len(s.faces) \in Nat
           /\ \A i \in DOMAIN s.nodes :
                 s.nodes[i] \in NodeRecs /\ s.nodes[i].id \in Nat /\ s.nodes[i].point \in Points
           /\ \A i \in DOMAIN s.faces : s.faces[i] \in FaceRecs
<1>1. s.nodes \in Seq(NodeRecs) /\ s.faces \in Seq(FaceRecs) /\ s.sound \in BOOLEAN
  BY DEF Scenes
<1>2. /\ DOMAIN s.nodes = 1 .. Len(s.nodes) /\ Len(s.nodes) \in Nat
      /\ DOMAIN s.faces = 1 .. Len(s.faces) /\ Len(s.faces) \in Nat
      /\ \A i \in DOMAIN s.nodes : s.nodes[i] \in NodeRecs
      /\ \A i \in DOMAIN s.faces : s.faces[i] \in FaceRecs
  <2> HIDE DEF NodeRecs, FaceRecs
  <2> QED BY <1>1
<1>3. \A m \in NodeRecs : m.id \in Nat /\ m.point \in Points
  BY DEF NodeRecs
<1> QED BY <1>1, <1>2, <1>3

\* Scenes are told by their parts.
LEMMA SceneIs ==
    ASSUME NEW nodes \in Seq(NodeRecs), NEW faces \in Seq(FaceRecs), NEW sound \in BOOLEAN,
           NEW s \in Scenes
    PROVE  /\ [s EXCEPT !.nodes = nodes] \in Scenes
           /\ [s EXCEPT !.faces = faces] \in Scenes
           /\ [s EXCEPT !.sound = sound] \in Scenes
           /\ [s EXCEPT !.sound = sound, !.nodes = nodes] \in Scenes
BY DEF Scenes

LEMMA FacesPut ==
    ASSUME NEW s \in Scenes, NEW faces \in Seq(FaceRecs)
    PROVE  [s EXCEPT !.faces = faces] \in Scenes
BY DEF Scenes

\* No node is Null, and no point.
LEMMA NullIsNothing == Null \notin Nat /\ Null \notin Points
<1>1. Nat \subseteq Int
  OBVIOUS
<1> QED BY <1>1, PointsAssumption

\* The node that is found at a point.
LEMMA GetNodeIs ==
    ASSUME NEW s \in Scenes, NEW p
    PROVE  /\ p \in PointSet(s) =>
                \E i \in DOMAIN s.nodes : s.nodes[i].point = p /\ GetNode(s, p) = s.nodes[i].id
           /\ p \notin PointSet(s) => GetNode(s, p) = Null
<1> DEFINE I == {i \in 1 .. Len(s.nodes) : s.nodes[i].point = p}
<1>1. DOMAIN s.nodes = 1 .. Len(s.nodes) /\ Len(s.nodes) \in Nat
  BY SceneHas
<1>2. GetNode(s, p) = LET i == IF I # {} THEN Min(I) ELSE 0
                      IN  IF i = 0 THEN Null ELSE s.nodes[i].id
  BY DEF GetNode, SelectInSeq
<1>3. I \subseteq Nat
  OBVIOUS
<1>4. p \in PointSet(s) <=> I # {}
  BY <1>1 DEF PointSet
<1>5. ASSUME I # {} PROVE Min(I) \in I
  <2> HIDE DEF I
  <2> QED BY <1>3, <1>5, LeastIsMember
<1>6. \A i \in I : i \in DOMAIN s.nodes /\ s.nodes[i].point = p /\ i # 0
  BY <1>1
<1> HIDE DEF I
<1>7. CASE I # {}
  BY <1>2, <1>4, <1>5, <1>6, <1>7
<1>8. CASE I = {}
  BY <1>2, <1>4, <1>8
<1> QED BY <1>7, <1>8

\* The point of a node.
LEMMA PointOfIs ==
    ASSUME NEW s \in Scenes, NEW n
    PROVE  /\ n \in Ids(s) =>
                \E i \in DOMAIN s.nodes : s.nodes[i].id = n /\ PointOf(s, n) = s.nodes[i].point
           /\ n \notin Ids(s) => PointOf(s, n) = Null
<1> DEFINE I == {i \in 1 .. Len(s.nodes) : s.nodes[i].id = n}
<1>1. DOMAIN s.nodes = 1 .. Len(s.nodes) /\ Len(s.nodes) \in Nat
  BY SceneHas
<1>2. PointOf(s, n) = LET i == IF I # {} THEN Min(I) ELSE 0
                      IN  IF i = 0 THEN Null ELSE s.nodes[i].point
  BY DEF PointOf, SelectInSeq
<1>3. I \subseteq Nat
  OBVIOUS
<1>4. n \in Ids(s) <=> I # {}
  BY <1>1 DEF Ids
<1>5. ASSUME I # {} PROVE Min(I) \in I
  <2> HIDE DEF I
  <2> QED BY <1>3, <1>5, LeastIsMember
<1>6. \A i \in I : i \in DOMAIN s.nodes /\ s.nodes[i].id = n /\ i # 0
  BY <1>1
<1> HIDE DEF I
<1>7. CASE I # {}
  BY <1>2, <1>4, <1>5, <1>6, <1>7
<1>8. CASE I = {}
  BY <1>2, <1>4, <1>8
<1> QED BY <1>7, <1>8

\* Where nodes and points are told apart, either tells the other.
LEMMA PlacedIs ==
    ASSUME NEW s \in Scenes, NodesApart(s), NEW n, NEW p
    PROVE  /\ Placed(s, n, p) =>
                /\ PointOf(s, n) = p /\ GetNode(s, p) = n /\ n \in Nat /\ p \in Points
                /\ n \in Ids(s) /\ p \in PointSet(s)
           /\ n \in Ids(s) => Placed(s, n, PointOf(s, n)) /\ PointOf(s, n) \in Points
           /\ p \in PointSet(s) => Placed(s, GetNode(s, p), p) /\ GetNode(s, p) \in Nat
<1>1. \A i \in DOMAIN s.nodes : s.nodes[i].id \in Nat /\ s.nodes[i].point \in Points
  BY SceneHas
<1>2. ASSUME Placed(s, n, p)
      PROVE  /\ PointOf(s, n) = p /\ GetNode(s, p) = n /\ n \in Nat /\ p \in Points
             /\ n \in Ids(s) /\ p \in PointSet(s)
  <2>1. PICK i \in DOMAIN s.nodes : s.nodes[i].id = n /\ s.nodes[i].point = p
    BY <1>2 DEF Placed
  <2>2. n \in Ids(s) /\ p \in PointSet(s)
    BY <2>1 DEF Ids, PointSet
  <2>3. PICK j \in DOMAIN s.nodes : s.nodes[j].id = n /\ PointOf(s, n) = s.nodes[j].point
    BY <2>2, PointOfIs
  <2>4. PICK k \in DOMAIN s.nodes : s.nodes[k].point = p /\ GetNode(s, p) = s.nodes[k].id
    BY <2>2, GetNodeIs
  <2>5. i = j /\ i = k
    BY <2>1, <2>3, <2>4 DEF NodesApart
  <2> QED BY <1>1, <2>1, <2>2, <2>3, <2>4, <2>5
<1>3. n \in Ids(s) => Placed(s, n, PointOf(s, n)) /\ PointOf(s, n) \in Points
  BY <1>1, PointOfIs DEF Placed
<1>4. p \in PointSet(s) => Placed(s, GetNode(s, p), p) /\ GetNode(s, p) \in Nat
  BY <1>1, GetNodeIs DEF Placed
<1> QED BY <1>2, <1>3, <1>4

\* Ids and points are those placed.
LEMMA PlacedSets ==
    ASSUME NEW s
    PROVE  /\ \A n : n \in Ids(s) <=> \E p : Placed(s, n, p)
           /\ \A p : p \in PointSet(s) <=> \E n : Placed(s, n, p)
BY DEF Placed, Ids, PointSet

\* What a search for a face finds: points, angle and number of segments.
Matches(s, f, l) ==
    /\ PointOf(s, f.from) = l.from /\ PointOf(s, f.to) = l.to
    /\ f.angle <= l.angle /\ f.segments = l.segments

\* The face that a command finds.
LEMMA GetFaceIs ==
    ASSUME NEW s \in Scenes, NEW l
    PROVE  /\ GetFace(s, l) = 0 => \A i \in DOMAIN s.faces : ~ Matches(s, s.faces[i], l)
           /\ GetFace(s, l) # 0 =>
                /\ GetFace(s, l) \in DOMAIN s.faces
                /\ Matches(s, s.faces[GetFace(s, l)], l)
<1> DEFINE I == {i \in 1 .. Len(s.faces) : Matches(s, s.faces[i], l)}
<1>1. DOMAIN s.faces = 1 .. Len(s.faces) /\ Len(s.faces) \in Nat
  BY SceneHas
<1>2. GetFace(s, l) = IF I # {} THEN Min(I) ELSE 0
  BY DEF GetFace, SelectInSeq, Matches
<1>3. I \subseteq Nat
  OBVIOUS
<1>4. ASSUME I # {} PROVE Min(I) \in I
  <2> HIDE DEF I
  <2> QED BY <1>3, <1>4, LeastIsMember
<1>5. \A i \in I : i \in DOMAIN s.faces /\ Matches(s, s.faces[i], l) /\ i # 0
  BY <1>1
<1>6. I = {} => \A i \in DOMAIN s.faces : ~ Matches(s, s.faces[i], l)
  BY <1>1
<1> HIDE DEF I, Matches
<1>7. CASE I # {}
  BY <1>2, <1>4, <1>5, <1>7
<1>8. CASE I = {}
  BY <1>2, <1>6, <1>8
<1> QED BY <1>7, <1>8

\* Two faces that addFace takes for one.
Like(f, g) ==
    \/ f.from = g.from /\ f.to = g.to /\ f.angle = g.angle
    \/ f.from = g.to /\ f.to = g.from /\ f.angle = -g.angle

\* The face that addFace finds.
LEMMA SameFaceIs ==
    ASSUME NEW s \in Scenes, NEW g
    PROVE  /\ SameFace(s, g) = 0 => \A i \in DOMAIN s.faces : ~ Like(s.faces[i], g)
           /\ SameFace(s, g) # 0 => \E i \in DOMAIN s.faces : Like(s.faces[i], g)
<1> DEFINE I == {i \in 1 .. Len(s.faces) : Like(s.faces[i], g)}
<1>1. DOMAIN s.faces = 1 .. Len(s.faces) /\ Len(s.faces) \in Nat
  BY SceneHas
<1>2. SameFace(s, g) = IF I # {} THEN Min(I) ELSE 0
  BY DEF SameFace, SelectInSeq, Like
<1>3. I \subseteq Nat
  OBVIOUS
<1>4. ASSUME I # {} PROVE Min(I) \in I
  <2> HIDE DEF I
  <2> QED BY <1>3, <1>4, LeastIsMember
<1>5. \A i \in I : i \in DOMAIN s.faces /\ Like(s.faces[i], g) /\ i # 0
  BY <1>1
<1>6. I = {} => \A i \in DOMAIN s.faces : ~ Like(s.faces[i], g)
  BY <1>1
<1> HIDE DEF I, Like
<1>7. CASE I # {}
  BY <1>2, <1>4, <1>5, <1>7
<1>8. CASE I = {}
  BY <1>2, <1>6, <1>8
<1> QED BY <1>7, <1>8

\* The face that the dialog finds between two points.
LEMMA GetFaceBetweenIs ==
    ASSUME NEW s \in Scenes, NEW p, NEW q
    PROVE  /\ GetFaceBetween(s, p, q) = 0 =>
                \A i \in DOMAIN s.faces :
                    {PointOf(s, s.faces[i].from), PointOf(s, s.faces[i].to)} # {p, q}
           /\ GetFaceBetween(s, p, q) # 0 =>
                /\ GetFaceBetween(s, p, q) \in DOMAIN s.faces
                /\ LET f == s.faces[GetFaceBetween(s, p, q)]
                   IN  {PointOf(s, f.from), PointOf(s, f.to)} = {p, q}
<1> DEFINE On(f) == {PointOf(s, f.from), PointOf(s, f.to)} = {p, q}
           I == {i \in 1 .. Len(s.faces) : On(s.faces[i])}
<1>1. DOMAIN s.faces = 1 .. Len(s.faces) /\ Len(s.faces) \in Nat
  BY SceneHas
<1>2. GetFaceBetween(s, p, q) = IF I # {} THEN Min(I) ELSE 0
  BY DEF GetFaceBetween, SelectInSeq
<1>3. I \subseteq Nat
  OBVIOUS
<1>4. ASSUME I # {} PROVE Min(I) \in I
  <2> HIDE DEF I
  <2> QED BY <1>3, <1>4, LeastIsMember
<1>5. \A i \in I : i \in DOMAIN s.faces /\ On(s.faces[i]) /\ i # 0
  BY <1>1
<1>6. I = {} => \A i \in DOMAIN s.faces : ~ On(s.faces[i])
  BY <1>1
<1> HIDE DEF I
<1>7. CASE I # {}
  BY <1>2, <1>4, <1>5, <1>7
<1>8. CASE I = {}
  BY <1>2, <1>6, <1>8
<1> QED BY <1>7, <1>8

-----------------------------------------------------------------------------
(* One node or face is added, removed or changed.                          *)

\* A scene has more numbers than nodes, so that one is free.
LEMMA FreshIdIs ==
    ASSUME NEW s \in Scenes
    PROVE  FreshId(s) \in Nat /\ FreshId(s) \notin Ids(s)
<1> DEFINE N == Len(s.nodes)
           idOf == [i \in 1 .. N |-> s.nodes[i].id]
<1>1. N \in Nat /\ DOMAIN s.nodes = 1 .. N
  BY SceneHas
<1>2. Ids(s) = {idOf[i] : i \in 1 .. N}
  BY <1>1 DEF Ids
<1>3. idOf \in Surjection(1 .. N, Ids(s))
  BY <1>2 DEF Surjection
<1>4. IsFiniteSet(1 .. N) /\ Cardinality(1 .. N) = N
  <2>1. 1 \in Int /\ N \in Int /\ (IF 1 > N THEN 0 ELSE N - 1 + 1) = N
    BY <1>1
  <2> QED BY <2>1, FS_Interval
<1>5. IsFiniteSet(Ids(s)) /\ Cardinality(Ids(s)) <= N
  <2> HIDE DEF idOf
  <2> QED BY <1>3, <1>4, FS_Surjection
<1>6. IsFiniteSet(1 .. N + 1) /\ Cardinality(1 .. N + 1) = N + 1
  <2>1. 1 \in Int /\ N + 1 \in Int /\ (IF 1 > N + 1 THEN 0 ELSE N + 1 - 1 + 1) = N + 1
    BY <1>1
  <2> QED BY <2>1, FS_Interval
<1>7. ~ (1 .. N + 1 \subseteq Ids(s))
  <2> SUFFICES ASSUME 1 .. N + 1 \subseteq Ids(s) PROVE FALSE
    OBVIOUS
  <2>1. Cardinality(1 .. N + 1) <= Cardinality(Ids(s))
    BY <1>5, FS_Subset
  <2>2. Cardinality(Ids(s)) \in Nat
    BY <1>5, FS_CardinalityType
  <2> QED BY <1>1, <1>5, <1>6, <2>1, <2>2
<1>8. \E n \in 1 .. N + 1 : n \notin Ids(s)
  BY <1>7
<1>9. FreshId(s) \in 1 .. N + 1 /\ FreshId(s) \notin Ids(s)
  BY <1>8 DEF FreshId
<1> QED BY <1>1, <1>9

\* addNode puts one node at the point.
LEMMA AddNodeIs ==
    ASSUME NEW s \in Scenes, NEW p \in Points, NEW t, t = AddNode(s, p)
    PROVE  /\ t \in Scenes /\ t.faces = s.faces /\ t.sound = s.sound
           /\ NodesApart(s) => NodesApart(t)
           /\ PointSet(t) = PointSet(s) \cup {p} /\ Ids(s) \subseteq Ids(t)
           /\ \A n, q : Placed(s, n, q) => Placed(t, n, q)
           /\ p \in PointSet(s) => t = s
<1>1. CASE p \in PointSet(s)
  <2>1. GetNode(s, p) # Null
    <3>1. PICK i \in DOMAIN s.nodes : GetNode(s, p) = s.nodes[i].id
      BY <1>1, GetNodeIs
    <3>2. s.nodes[i].id \in Nat
      BY <3>1, SceneHas
    <3> QED BY <3>1, <3>2, NullIsNothing
  <2>2. t = s
    BY <2>1 DEF AddNode
  <2> QED BY <1>1, <2>2
<1>2. CASE p \notin PointSet(s)
  <2> DEFINE N == Len(s.nodes)
             new == [id |-> FreshId(s), point |-> p]
             nodes == Append(s.nodes, new)
  <2>1. t = [s EXCEPT !.nodes = nodes]
    BY <1>2, GetNodeIs DEF AddNode
  <2>2. s.nodes \in Seq(NodeRecs) /\ N \in Nat /\ DOMAIN s.nodes = 1 .. N
    BY SceneHas
  <2>3. new \in NodeRecs /\ new.id \notin Ids(s) /\ new.point = p
    BY FreshIdIs DEF NodeRecs
  <2> HIDE DEF new
  <2>4. /\ nodes \in Seq(NodeRecs) /\ Len(nodes) = N + 1 /\ nodes[N + 1] = new
        /\ \A i \in 1 .. N : nodes[i] = s.nodes[i]
    <3> HIDE DEF NodeRecs
    <3> QED BY <2>2, <2>3, AppendProperties
  <2> HIDE DEF nodes
  <2>5. DOMAIN nodes = 1 .. N + 1
    <3> HIDE DEF NodeRecs
    <3> QED BY <2>4
  <2>6. t \in Scenes /\ t.nodes = nodes /\ t.faces = s.faces /\ t.sound = s.sound
    <3>1. s.faces \in Seq(FaceRecs) /\ s.sound \in BOOLEAN
      BY SceneHas
    <3>2. t \in Scenes
      BY <2>1, <2>4, <3>1, SceneIs
    <3> QED BY <2>1, <3>2 DEF Scenes
  <2>7. \A i \in DOMAIN nodes : \/ i \in DOMAIN s.nodes /\ nodes[i] = s.nodes[i]
                                \/ i = N + 1 /\ nodes[i] = new
    <3>1. \A i \in 1 .. N + 1 : i \in 1 .. N \/ i = N + 1
      BY <2>2
    <3>2. \A i \in 1 .. N : nodes[i] = s.nodes[i]
      BY <2>4
    <3>3. \A i \in DOMAIN nodes : \/ i \in 1 .. N /\ i \in DOMAIN s.nodes
                                \/ i = N + 1
      BY <2>2, <2>5, <3>1
    <3>4. nodes[N + 1] = new
      BY <2>4
    <3> HIDE DEF N
    <3> QED BY <3>2, <3>3, <3>4
  <2>8. \A i \in DOMAIN s.nodes : i \in DOMAIN nodes /\ nodes[i] = s.nodes[i]
    BY <2>2, <2>4, <2>5
  <2>9. N + 1 \in DOMAIN nodes /\ nodes[N + 1].id = new.id /\ nodes[N + 1].point = p
    BY <2>2, <2>3, <2>4, <2>5
  <2>10. ASSUME NodesApart(s) PROVE NodesApart(t)
    <3> SUFFICES ASSUME NEW i \in DOMAIN nodes, NEW j \in DOMAIN nodes,
                        nodes[i].id = nodes[j].id \/ nodes[i].point = nodes[j].point
                 PROVE  i = j
      BY <2>6 DEF NodesApart
    <3>1. \A k \in DOMAIN s.nodes : s.nodes[k].id # new.id /\ s.nodes[k].point # new.point
      BY <1>2, <2>3 DEF Ids, PointSet
    <3> QED BY <2>7, <2>10, <3>1 DEF NodesApart
  <2>11. PointSet(t) = PointSet(s) \cup {p}
    <3>1. \A q \in PointSet(t) : q \in PointSet(s) \cup {p}
      BY <2>3, <2>6, <2>7 DEF PointSet
    <3>2. \A q \in PointSet(s) : q \in PointSet(t)
      BY <2>6, <2>8 DEF PointSet
    <3>3. p \in PointSet(t)
      BY <2>6, <2>9 DEF PointSet
    <3> QED BY <3>1, <3>2, <3>3
  <2>12. Ids(s) \subseteq Ids(t)
    BY <2>6, <2>8 DEF Ids
  <2>13. \A n, q : Placed(s, n, q) => Placed(t, n, q)
    BY <2>6, <2>8 DEF Placed
  <2> QED BY <1>2, <2>6, <2>10, <2>11, <2>12, <2>13
<1> QED BY <1>1, <1>2

\* A node is removed; the scene is sound only when no face was on it.
LEMMA RemoveNodeIs ==
    ASSUME NEW s \in Scenes, NEW n, NEW t, t = RemoveNode(s, n)
    PROVE  /\ t \in Scenes /\ t.faces = s.faces
           /\ NodesApart(s) => NodesApart(t)
           /\ n = Null => t = s
           /\ n # Null =>
                /\ t.sound <=> s.sound /\ OnNode(s, n) = {}
                /\ Ids(t) = Ids(s) \ {n}
                /\ \A m, q : Placed(t, m, q) <=> Placed(s, m, q) /\ m # n
<1>1. CASE n = Null
  BY <1>1 DEF RemoveNode
<1>2. CASE n # Null
  <2> DEFINE S == {i \in DOMAIN s.nodes : s.nodes[i].id # n}
             nodes == Those(s.nodes, S)
             sound == s.sound /\ OnNode(s, n) = {}
  <2>1. t = [s EXCEPT !.sound = sound, !.nodes = nodes]
    BY <1>2 DEF RemoveNode
  <2>2. s.nodes \in Seq(NodeRecs) /\ S \subseteq DOMAIN s.nodes
    BY SceneHas
  <2>3. /\ nodes \in Seq(NodeRecs) /\ ToSet(nodes) = {s.nodes[i] : i \in S}
        /\ \A i, j \in DOMAIN nodes : i # j =>
              \E k, l \in S : k # l /\ nodes[i] = s.nodes[k] /\ nodes[j] = s.nodes[l]
    <3> HIDE DEF NodeRecs
    <3>1. S \subseteq DOMAIN s.nodes
      BY <2>2
    <3> HIDE DEF S
    <3>2. nodes \in Seq(NodeRecs) /\ ToSet(nodes) = {s.nodes[i] : i \in S}
      BY <2>2, <3>1, ThoseAre
    <3>3. PickedFrom(nodes, s.nodes, S)
      BY <2>2, <3>1, ThoseAre
    <3> QED BY <3>2, <3>3 DEF PickedFrom
  <2>4. sound \in BOOLEAN /\ (sound <=> s.sound /\ OnNode(s, n) = {})
    OBVIOUS
  <2> HIDE DEF sound, nodes
  <2>5. /\ t \in Scenes /\ t.nodes = nodes /\ t.faces = s.faces /\ t.sound = sound
    <3>1. t \in Scenes
      <4>1. s.faces \in Seq(FaceRecs)
        BY SceneHas
      <4> QED BY <2>1, <2>3, <2>4, <4>1 DEF Scenes
    <3> QED BY <2>1, <3>1 DEF Scenes
  <2>6. \A m, q : Placed(t, m, q) <=> Placed(s, m, q) /\ m # n
    <3> TAKE m, q
    <3>1. ASSUME Placed(t, m, q) PROVE Placed(s, m, q) /\ m # n
      <4>1. PICK i \in DOMAIN nodes : nodes[i].id = m /\ nodes[i].point = q
        BY <2>5, <3>1 DEF Placed
      <4>2. nodes[i] \in ToSet(nodes)
        BY DEF ToSet
      <4>3. PICK k \in S : nodes[i] = s.nodes[k]
        BY <2>3, <4>2
      <4> QED BY <4>1, <4>3 DEF Placed
    <3>2. ASSUME Placed(s, m, q), m # n PROVE Placed(t, m, q)
      <4>1. PICK k \in DOMAIN s.nodes : s.nodes[k].id = m /\ s.nodes[k].point = q
        BY <3>2 DEF Placed
      <4>2. k \in S
        BY <3>2, <4>1
      <4>3. s.nodes[k] \in ToSet(nodes)
        BY <2>3, <4>2
      <4>4. PICK i \in DOMAIN nodes : nodes[i] = s.nodes[k]
        BY <4>3 DEF ToSet
      <4> QED BY <2>5, <4>1, <4>4 DEF Placed
    <3> QED BY <3>1, <3>2
  <2>7. ASSUME NodesApart(s) PROVE NodesApart(t)
    <3> SUFFICES ASSUME NEW i \in DOMAIN nodes, NEW j \in DOMAIN nodes, i # j,
                        nodes[i].id = nodes[j].id \/ nodes[i].point = nodes[j].point
                 PROVE  FALSE
      BY <2>5 DEF NodesApart
    <3>1. PICK k \in S, l \in S : k # l /\ nodes[i] = s.nodes[k] /\ nodes[j] = s.nodes[l]
      BY <2>3
    <3>2. k \in DOMAIN s.nodes /\ l \in DOMAIN s.nodes
      BY <3>1
    <3> QED BY <2>7, <3>1, <3>2 DEF NodesApart
  <2>8. Ids(t) = Ids(s) \ {n}
    <3>1. \A m : m \in Ids(t) <=> \E q : Placed(t, m, q)
      BY PlacedSets
    <3>2. \A m : m \in Ids(s) <=> \E q : Placed(s, m, q)
      BY PlacedSets
    <3>3. \A m : m \in Ids(t) <=> m \in Ids(s) /\ m # n
      BY <2>6, <3>1, <3>2
    <3> QED BY <3>3
  <2> QED BY <1>2, <2>4, <2>5, <2>6, <2>7, <2>8
<1> QED BY <1>1, <1>2

\* A node is put elsewhere.
LEMMA MoveNodeIs ==
    ASSUME NEW s \in Scenes, NEW n, NEW p \in Points, NEW t, t = MoveNode(s, n, p)
    PROVE  /\ t \in Scenes /\ t.faces = s.faces /\ t.sound = s.sound
           /\ DOMAIN t.nodes = DOMAIN s.nodes
           /\ \A i \in DOMAIN s.nodes :
                 /\ t.nodes[i].id = s.nodes[i].id
                 /\ t.nodes[i].point = IF s.nodes[i].id = n THEN p ELSE s.nodes[i].point
<1> DEFINE moved(m) == IF m.id = n THEN [m EXCEPT !.point = p] ELSE m
           N == Len(s.nodes)
           nodes == [i \in DOMAIN s.nodes |-> moved(s.nodes[i])]
<1>1. t = [s EXCEPT !.nodes = nodes]
  BY DEF MoveNode
<1>2. N \in Nat /\ DOMAIN s.nodes = 1 .. N /\ \A i \in DOMAIN s.nodes : s.nodes[i] \in NodeRecs
  BY SceneHas
<1>3. \A m \in NodeRecs : /\ moved(m) \in NodeRecs /\ moved(m).id = m.id
                          /\ moved(m).point = IF m.id = n THEN p ELSE m.point
  BY DEF NodeRecs
<1> HIDE DEF moved
<1>4. nodes \in [1 .. N -> NodeRecs]
  BY <1>2, <1>3
<1>5. /\ DOMAIN nodes = DOMAIN s.nodes
      /\ \A i \in DOMAIN s.nodes :
            /\ nodes[i].id = s.nodes[i].id
            /\ nodes[i].point = IF s.nodes[i].id = n THEN p ELSE s.nodes[i].point
  BY <1>2, <1>3
<1> HIDE DEF nodes
<1>6. nodes \in Seq(NodeRecs)
  BY <1>2, <1>4, FunctionIsSequence
<1>7. t \in Scenes
  BY <1>1, <1>6, SceneHas, SceneIs
<1>8. t.nodes = nodes /\ t.faces = s.faces /\ t.sound = s.sound
  BY <1>1, <1>7 DEF Scenes
<1> QED BY <1>5, <1>7, <1>8

\* No two faces join the same nodes.
FacesApart(s) ==
    \A i, j \in DOMAIN s.faces :
        {s.faces[i].from, s.faces[i].to} = {s.faces[j].from, s.faces[j].to} => i = j

\* addFace adds the face, or finds one like it.
LEMMA AddFaceIs ==
    ASSUME NEW s \in Scenes, NEW f \in FaceRecs, NEW t, t = AddFace(s, f)
    PROVE  /\ t \in Scenes /\ t.nodes = s.nodes /\ t.sound = s.sound
           /\ SameFace(s, f) # 0 => t = s
           /\ SameFace(s, f) = 0 => FaceSet(t) = FaceSet(s) \cup {f}
           /\ FacesApart(s) /\ (\A g \in FaceSet(s) : {g.from, g.to} # {f.from, f.to})
                => FacesApart(t)
<1>1. CASE SameFace(s, f) # 0
  BY <1>1 DEF AddFace
<1>2. CASE SameFace(s, f) = 0
  <2> DEFINE N == Len(s.faces)
             faces == Append(s.faces, f)
  <2>1. t = [s EXCEPT !.faces = faces]
    BY <1>2 DEF AddFace
  <2>2. s.faces \in Seq(FaceRecs) /\ N \in Nat /\ DOMAIN s.faces = 1 .. N
    BY SceneHas
  <2>3. /\ faces \in Seq(FaceRecs) /\ Len(faces) = N + 1 /\ faces[N + 1] = f
        /\ \A i \in 1 .. N : faces[i] = s.faces[i]
    <3> HIDE DEF FaceRecs
    <3> QED BY <2>2, AppendProperties
  <2> HIDE DEF faces
  <2>4. DOMAIN faces = 1 .. N + 1
    <3> HIDE DEF FaceRecs
    <3> QED BY <2>3
  <2>5. t \in Scenes /\ t.faces = faces /\ t.nodes = s.nodes /\ t.sound = s.sound
    <3>1. t \in Scenes
      BY <2>1, <2>3, FacesPut
    <3> QED BY <2>1, <3>1 DEF Scenes
  <2>6. \A i \in DOMAIN faces : \/ i \in DOMAIN s.faces /\ faces[i] = s.faces[i]
                                \/ i = N + 1 /\ faces[i] = f
    <3>1. \A i \in 1 .. N + 1 : i \in 1 .. N \/ i = N + 1
      BY <2>2
    <3>2. \A i \in 1 .. N : faces[i] = s.faces[i]
      BY <2>3
    <3>3. \A i \in DOMAIN faces : \/ i \in 1 .. N /\ i \in DOMAIN s.faces
                                \/ i = N + 1
      BY <2>2, <2>4, <3>1
    <3>4. faces[N + 1] = f
      BY <2>3
    <3> HIDE DEF N
    <3> QED BY <3>2, <3>3, <3>4
  <2>7. \A i \in DOMAIN s.faces : i \in DOMAIN faces /\ faces[i] = s.faces[i]
    BY <2>2, <2>3, <2>4
  <2>8. N + 1 \in DOMAIN faces /\ faces[N + 1] = f
    BY <2>2, <2>3, <2>4
  <2>9. FaceSet(t) = FaceSet(s) \cup {f}
    <3>1. \A g \in FaceSet(t) : g \in FaceSet(s) \cup {f}
      BY <2>5, <2>6 DEF FaceSet
    <3>2. \A g \in FaceSet(s) : g \in FaceSet(t)
      BY <2>5, <2>7 DEF FaceSet
    <3>3. f \in FaceSet(t)
      BY <2>5, <2>8 DEF FaceSet
    <3> QED BY <3>1, <3>2, <3>3
  <2>10. ASSUME FacesApart(s), \A g \in FaceSet(s) : {g.from, g.to} # {f.from, f.to}
         PROVE  FacesApart(t)
    <3> SUFFICES ASSUME NEW i \in DOMAIN faces, NEW j \in DOMAIN faces,
                        {faces[i].from, faces[i].to} = {faces[j].from, faces[j].to}
                 PROVE  i = j
      BY <2>5 DEF FacesApart
    <3>1. \A k \in DOMAIN s.faces :
              {s.faces[k].from, s.faces[k].to} # {f.from, f.to}
      BY <2>10 DEF FaceSet
    <3>2. CASE i \in DOMAIN s.faces /\ faces[i] = s.faces[i]
      <4>1. CASE j \in DOMAIN s.faces /\ faces[j] = s.faces[j]
        BY <2>10, <3>2, <4>1 DEF FacesApart
      <4>2. CASE faces[j] = f
        BY <3>1, <3>2, <4>2
      <4> QED BY <2>6, <4>1, <4>2
    <3>3. CASE i = N + 1 /\ faces[i] = f
      <4>1. CASE j \in DOMAIN s.faces /\ faces[j] = s.faces[j]
        BY <3>1, <3>3, <4>1
      <4>2. CASE j = N + 1
        BY <3>3, <4>2
      <4> QED BY <2>6, <4>1, <4>2
    <3> QED BY <2>6, <3>2, <3>3
  <2> QED BY <1>2, <2>5, <2>9, <2>10
<1> QED BY <1>1, <1>2

\* A face is taken out of the list.
LEMMA RemoveFaceIs ==
    ASSUME NEW s \in Scenes, NEW i \in {0} \cup DOMAIN s.faces, NEW t, t = RemoveFace(s, i)
    PROVE  /\ t \in Scenes /\ t.nodes = s.nodes /\ t.sound = s.sound
           /\ i = 0 => t = s
           /\ FaceSet(t) \subseteq FaceSet(s)
           /\ FacesApart(s) => FacesApart(t)
           /\ i # 0 /\ FacesApart(s) => FaceSet(t) = FaceSet(s) \ {s.faces[i]}
<1>1. CASE i = 0
  BY <1>1 DEF RemoveFace
<1>2. CASE i # 0
  <2> DEFINE N == Len(s.faces)
             faces == WithoutElement(s.faces, i)
             old(j) == IF j < i THEN j ELSE j + 1
  <2>1. t = [s EXCEPT !.faces = faces]
    BY <1>2 DEF RemoveFace, RemoveAt, WithoutElement
  <2>2. s.faces \in Seq(FaceRecs) /\ N \in Nat /\ DOMAIN s.faces = 1 .. N /\ i \in 1 .. N
    BY <1>2, SceneHas
  <2>3. /\ faces \in Seq(FaceRecs) /\ Len(faces) = N - 1
        /\ \A j \in 1 .. N - 1 : faces[j] = IF j < i THEN s.faces[j] ELSE s.faces[j + 1]
    <3> HIDE DEF FaceRecs, faces
    <3> QED BY <2>2, ElementRemoved DEF faces
  <2> HIDE DEF faces
  <2>4. DOMAIN faces = 1 .. N - 1
    <3> HIDE DEF FaceRecs
    <3> QED BY <2>3
  <2>5. t \in Scenes /\ t.faces = faces /\ t.nodes = s.nodes /\ t.sound = s.sound
    <3>1. t \in Scenes
      BY <2>1, <2>3, FacesPut
    <3> QED BY <2>1, <3>1 DEF Scenes
  <2>6. \A j \in DOMAIN faces : /\ faces[j] = s.faces[old(j)]
                                /\ old(j) \in DOMAIN s.faces /\ old(j) # i
    <3> TAKE j \in DOMAIN faces
    <3>1. j \in 1 .. N - 1
      BY <2>4
    <3>2. old(j) \in 1 .. N /\ old(j) # i
      BY <2>2, <3>1
    <3> QED BY <2>2, <2>3, <3>1, <3>2
  <2>7. \A j, k \in DOMAIN faces : old(j) = old(k) => j = k
    BY <2>2, <2>4
  <2>8. \A k \in DOMAIN s.faces : k # i => \E j \in DOMAIN faces : old(j) = k
    <3> TAKE k \in DOMAIN s.faces
    <3> SUFFICES ASSUME k # i PROVE \E j \in DOMAIN faces : old(j) = k
      OBVIOUS
    <3>1. CASE k < i
      <4>1. k \in 1 .. N - 1 /\ old(k) = k
        BY <2>2, <3>1
      <4> QED BY <2>4, <4>1
    <3>2. CASE k > i
      <4>1. k - 1 \in 1 .. N - 1 /\ old(k - 1) = k
        BY <2>2, <3>2
      <4> QED BY <2>4, <4>1
    <3> QED BY <2>2, <3>1, <3>2
  <2> HIDE DEF old
  <2>9. FaceSet(t) \subseteq FaceSet(s)
    BY <2>5, <2>6 DEF FaceSet
  <2>10. ASSUME FacesApart(s) PROVE FacesApart(t)
    BY <2>5, <2>6, <2>7, <2>10 DEF FacesApart
  <2>11. ASSUME FacesApart(s) PROVE FaceSet(t) = FaceSet(s) \ {s.faces[i]}
    <3>1. \A k \in DOMAIN s.faces : k # i => s.faces[k] # s.faces[i]
      BY <2>2, <2>11 DEF FacesApart
    <3>2. \A g \in FaceSet(t) : g \in FaceSet(s) /\ g # s.faces[i]
      BY <2>5, <2>6, <3>1 DEF FaceSet
    <3>3. \A g \in FaceSet(s) : g # s.faces[i] => g \in FaceSet(t)
      <4> TAKE g \in FaceSet(s)
      <4> SUFFICES ASSUME g # s.faces[i] PROVE g \in FaceSet(t)
        OBVIOUS
      <4>1. PICK k \in DOMAIN s.faces : g = s.faces[k]
        BY DEF FaceSet
      <4>2. PICK j \in DOMAIN faces : old(j) = k
        BY <2>8, <4>1
      <4>3. g = faces[j]
        BY <2>6, <4>1, <4>2
      <4> QED BY <2>5, <4>3 DEF FaceSet
    <3> QED BY <3>2, <3>3
  <2> QED BY <1>2, <2>5, <2>9, <2>10, <2>11
<1> QED BY <1>1, <1>2

-----------------------------------------------------------------------------
(* What a command does node by node, face by face.                         *)

\* A function that makes the steps is what its recursive definition says.
LEMMA FollowsIs ==
    ASSUME NEW n \in Nat, NEW S, NEW base, NEW step, NEW g, Follows(g, S, n, base, step)
    PROVE  g = [k \in 0 .. n |-> IF k = 0 THEN base ELSE step[k][g[k - 1]]]
<1> DEFINE h == [k \in 0 .. n |-> IF k = 0 THEN base ELSE step[k][g[k - 1]]]
<1>1. g = [k \in 0 .. n |-> g[k]] /\ g[0] = base
  BY DEF Follows
<1>2. \A k \in 0 .. n : g[k] = h[k]
  <2> TAKE k \in 0 .. n
  <2>1. CASE k = 0
    BY <1>1, <2>1
  <2>2. CASE k # 0
    <3>1. k \in 1 .. n
      BY <2>2
    <3>2. g[k] = step[k][g[k - 1]]
      BY <3>1 DEF Follows
    <3> QED BY <2>2, <3>2
  <2> QED BY <2>1, <2>2
<1>3. h = [k \in 0 .. n |-> h[k]]
  OBVIOUS
<1> HIDE DEF h
<1>4. g = h
  BY <1>1, <1>2, <1>3
<1> QED BY <1>4 DEF h

\* Nodes are added one after the other.
LEMMA AddNodesFollow ==
    ASSUME NEW s \in Scenes, NEW ps \in Seq(Points)
    PROVE  \E f : /\ f[0] = s
                  /\ \A k \in 0 .. Len(ps) - 1 : f[k + 1] = AddNode(f[k], ps[k + 1])
                  /\ AddNodes(s, ps) = f[Len(ps)]
<1> DEFINE N == Len(ps)
           step == [i \in 1 .. N |-> [x \in Scenes |-> AddNode(x, ps[i])]]
           Rec(g) == g = [k \in 0 .. N |->
               IF k = 0 THEN s ELSE AddNode(g[k - 1], ps[k])]
           f == CHOOSE g : Rec(g)
<1>1. N \in Nat /\ DOMAIN ps = 1 .. N /\ \A i \in 1 .. N : ps[i] \in Points
  OBVIOUS
<1>2. StaysIn(Scenes, N, step)
  BY <1>1, AddNodeIs DEF StaysIn
<1>3. PICK h : Follows(h, Scenes, N, s, step)
  <2> HIDE DEF step
  <2> QED BY <1>1, <1>2, RecursionExists
<1>4. h = [k \in 0 .. N |-> IF k = 0 THEN s ELSE step[k][h[k - 1]]]
  <2> HIDE DEF step
  <2> QED BY <1>1, <1>3, FollowsIs
<1>5. \A k \in 1 .. N : step[k][h[k - 1]] = AddNode(h[k - 1], ps[k])
  <2>1. \A k \in 1 .. N : h[k - 1] \in Scenes
    BY <1>1, <1>3 DEF Follows
  <2> QED BY <2>1
<1>6. Rec(h)
  <2> HIDE DEF step
  <2>1. \A k \in 0 .. N : k # 0 => k \in 1 .. N
    BY <1>1
  <2> QED BY <1>4, <1>5, <2>1
<1>7. Rec(f)
  <2> HIDE DEF Rec
  <2> QED BY <1>6
<1>8. \A k \in 0 .. N : f[k] = IF k = 0 THEN s ELSE AddNode(f[k - 1], ps[k])
  <2> HIDE DEF f
  <2> QED BY <1>7
<1>9. AddNodes(s, ps) = f[N]
  BY Zenon DEF AddNodes, AfterAll, f, Rec, N
<1> HIDE DEF f
<1>10. ASSUME NEW k \in 0 .. N - 1 PROVE f[k + 1] = AddNode(f[k], ps[k + 1])
  <2>1. k + 1 \in 0 .. N /\ k + 1 # 0 /\ (k + 1) - 1 = k
    BY <1>1
  <2> QED BY <1>8, <2>1
<1>11. f[0] = s
  BY <1>1, <1>8
<1> QED BY <1>9, <1>10, <1>11

\* Nodes are found and removed one after the other.
LEMMA RemoveNodesFollow ==
    ASSUME NEW s \in Scenes, NEW ps \in Seq(Points)
    PROVE  \E f : /\ f[0] = s
                  /\ \A k \in 0 .. Len(ps) - 1 : f[k + 1] = RemoveNode(f[k], GetNode(f[k], ps[k + 1]))
                  /\ RemoveNodes(s, ps) = f[Len(ps)]
<1> DEFINE N == Len(ps)
           step == [i \in 1 .. N |-> [x \in Scenes |-> RemoveNode(x, GetNode(x, ps[i]))]]
           Rec(g) == g = [k \in 0 .. N |->
               IF k = 0 THEN s ELSE RemoveNode(g[k - 1], GetNode(g[k - 1], ps[k]))]
           f == CHOOSE g : Rec(g)
<1>1. N \in Nat /\ DOMAIN ps = 1 .. N /\ \A i \in 1 .. N : ps[i] \in Points
  OBVIOUS
<1>2. StaysIn(Scenes, N, step)
  BY <1>1, RemoveNodeIs DEF StaysIn
<1>3. PICK h : Follows(h, Scenes, N, s, step)
  <2> HIDE DEF step
  <2> QED BY <1>1, <1>2, RecursionExists
<1>4. h = [k \in 0 .. N |-> IF k = 0 THEN s ELSE step[k][h[k - 1]]]
  <2> HIDE DEF step
  <2> QED BY <1>1, <1>3, FollowsIs
<1>5. \A k \in 1 .. N : step[k][h[k - 1]] = RemoveNode(h[k - 1], GetNode(h[k - 1], ps[k]))
  <2>1. \A k \in 1 .. N : h[k - 1] \in Scenes
    BY <1>1, <1>3 DEF Follows
  <2> QED BY <2>1
<1>6. Rec(h)
  <2> HIDE DEF step
  <2>1. \A k \in 0 .. N : k # 0 => k \in 1 .. N
    BY <1>1
  <2> QED BY <1>4, <1>5, <2>1
<1>7. Rec(f)
  <2> HIDE DEF Rec
  <2> QED BY <1>6
<1>8. \A k \in 0 .. N : f[k] = IF k = 0 THEN s ELSE RemoveNode(f[k - 1], GetNode(f[k - 1], ps[k]))
  <2> HIDE DEF f
  <2> QED BY <1>7
<1>9. RemoveNodes(s, ps) = f[N]
  BY Zenon DEF RemoveNodes, AfterAll, f, Rec, N
<1> HIDE DEF f
<1>10. ASSUME NEW k \in 0 .. N - 1 PROVE f[k + 1] = RemoveNode(f[k], GetNode(f[k], ps[k + 1]))
  <2>1. k + 1 \in 0 .. N /\ k + 1 # 0 /\ (k + 1) - 1 = k
    BY <1>1
  <2> QED BY <1>8, <2>1
<1>11. f[0] = s
  BY <1>1, <1>8
<1> QED BY <1>9, <1>10, <1>11

-----------------------------------------------------------------------------
(* Faces and lines.                                                        *)

\* No pointer of a face outlives its node, and none was met in an assertion.
Hang(s) == \A f \in FaceSet(s) : f.from \in Ids(s) /\ f.to \in Ids(s)
Hung == {s \in Scenes : s.sound => Hang(s)}

\* No face begins where it ends.
Loopless(s) == \A f \in FaceSet(s) : f.from # f.to

\* The scenes that a command can work on.
Good(s) ==
    /\ s \in Scenes /\ s.sound
    /\ NodesApart(s) /\ Hang(s) /\ Loopless(s) /\ FacesApart(s)

\* The lines that are drawn, and lines of which no two join the same points.
Lines(s) == {LineOf(s, f) : f \in FaceSet(s)}
Joined(l) == {l.from, l.to}
LinesApart(L) == \A l, m \in L : Joined(l) = Joined(m) => l = m

\* A face is a record of the list.
LEMMA FacesAre ==
    ASSUME NEW s \in Scenes
    PROVE  /\ FaceSet(s) \subseteq FaceRecs
           /\ \A i \in DOMAIN s.faces : s.faces[i] \in FaceSet(s)
           /\ \A f \in FaceSet(s) : /\ f.from \in Nat /\ f.to \in Nat
                                     /\ f.angle \in Nat /\ f.segments \in Nat
<1>1. \A i \in DOMAIN s.faces : s.faces[i] \in FaceRecs
  BY SceneHas
<1>2. \A f \in FaceRecs : f.from \in Nat /\ f.to \in Nat /\ f.angle \in Nat /\ f.segments \in Nat
  BY DEF FaceRecs
<1> QED BY <1>1, <1>2 DEF FaceSet

\* The line of a face.
LEMMA LineIs ==
    ASSUME NEW s \in Scenes, NEW f \in FaceRecs
    PROVE  /\ LineOf(s, f) \in LineRecs
           /\ LineOf(s, f).from = PointOf(s, f.from) /\ LineOf(s, f).to = PointOf(s, f.to)
           /\ LineOf(s, f).angle = f.angle /\ LineOf(s, f).segments = f.segments
<1>1. \A n : PointOf(s, n) \in Points \cup {Null}
  <2> TAKE n
  <2>1. \A i \in DOMAIN s.nodes : s.nodes[i].point \in Points
    BY SceneHas
  <2> QED BY <2>1, PointOfIs
<1>2. PointOf(s, f.from) \in Points \cup {Null} /\ PointOf(s, f.to) \in Points \cup {Null}
  BY <1>1
<1> QED BY <1>2 DEF LineOf, LineRecs, FaceRecs

\* Two lines with the same parts are one.
LEMMA LineIsItsParts ==
    ASSUME NEW l \in LineRecs, NEW m \in LineRecs,
           l.from = m.from, l.to = m.to, l.angle = m.angle, l.segments = m.segments
    PROVE  l = m
BY DEF LineRecs

\* Nodes are told by their points.
LEMMA PointTellsNode ==
    ASSUME NEW s \in Scenes, NodesApart(s), NEW n \in Ids(s), NEW m \in Ids(s),
           PointOf(s, n) = PointOf(s, m)
    PROVE  n = m
<1>1. Placed(s, n, PointOf(s, n)) /\ Placed(s, m, PointOf(s, m))
  BY PlacedIs
<1>2. GetNode(s, PointOf(s, n)) = n
  BY <1>1, PlacedIs
<1>3. GetNode(s, PointOf(s, m)) = m
  BY <1>1, PlacedIs
<1> QED BY <1>2, <1>3

\* In a good scene a line has its points at nodes, at different ones.
LEMMA LineOfGood ==
    ASSUME NEW s, Good(s), NEW f \in FaceSet(s)
    PROVE  /\ LineOf(s, f) \in Lines(s) /\ LineOf(s, f) \in LineRecs
           /\ LineOf(s, f).from = PointOf(s, f.from) /\ LineOf(s, f).to = PointOf(s, f.to)
           /\ LineOf(s, f).angle = f.angle /\ LineOf(s, f).segments = f.segments
           /\ LineOf(s, f).from \in PointSet(s) /\ LineOf(s, f).to \in PointSet(s)
           /\ LineOf(s, f).from \in Points /\ LineOf(s, f).to \in Points
           /\ LineOf(s, f).from # LineOf(s, f).to
           /\ Placed(s, f.from, LineOf(s, f).from) /\ Placed(s, f.to, LineOf(s, f).to)
<1>1. s \in Scenes /\ NodesApart(s) /\ f.from \in Ids(s) /\ f.to \in Ids(s) /\ f.from # f.to
  BY DEF Good, Hang, Loopless
<1>2. f \in FaceRecs
  BY <1>1, FacesAre
<1>3. /\ LineOf(s, f) \in LineRecs
      /\ LineOf(s, f).from = PointOf(s, f.from) /\ LineOf(s, f).to = PointOf(s, f.to)
      /\ LineOf(s, f).angle = f.angle /\ LineOf(s, f).segments = f.segments
  BY <1>1, <1>2, LineIs
<1>4. Placed(s, f.from, PointOf(s, f.from)) /\ Placed(s, f.to, PointOf(s, f.to))
  BY <1>1, PlacedIs
<1>5. /\ PointOf(s, f.from) \in PointSet(s) /\ PointOf(s, f.from) \in Points
      /\ PointOf(s, f.to) \in PointSet(s) /\ PointOf(s, f.to) \in Points
  BY <1>1, <1>4, PlacedIs
<1>6. PointOf(s, f.from) # PointOf(s, f.to)
  BY <1>1, PointTellsNode
<1>7. LineOf(s, f) \in Lines(s)
  BY DEF Lines
<1> QED BY <1>3, <1>4, <1>5, <1>6, <1>7

\* In a good scene a face is told by the points that it joins.
LEMMA JoinedTellsFace ==
    ASSUME NEW s, Good(s), NEW f \in FaceSet(s), NEW g \in FaceSet(s)
    PROVE  /\ Joined(LineOf(s, f)) = Joined(LineOf(s, g)) => f = g
           /\ {f.from, f.to} = {g.from, g.to} => f = g
           /\ {f.from, f.to} = {g.from, g.to} <=> Joined(LineOf(s, f)) = Joined(LineOf(s, g))
<1>1. /\ s \in Scenes /\ NodesApart(s) /\ FacesApart(s)
      /\ f.from \in Ids(s) /\ f.to \in Ids(s) /\ g.from \in Ids(s) /\ g.to \in Ids(s)
  BY DEF Good, Hang
<1>2. \A n, m \in Ids(s) : PointOf(s, n) = PointOf(s, m) => n = m
  BY <1>1, PointTellsNode
<1>3. /\ LineOf(s, f).from = PointOf(s, f.from) /\ LineOf(s, f).to = PointOf(s, f.to)
      /\ LineOf(s, g).from = PointOf(s, g.from) /\ LineOf(s, g).to = PointOf(s, g.to)
  BY LineOfGood
<1>4. {f.from, f.to} = {g.from, g.to} => f = g
  BY <1>1 DEF FacesApart, FaceSet
<1>5. ASSUME Joined(LineOf(s, f)) = Joined(LineOf(s, g)) PROVE {f.from, f.to} = {g.from, g.to}
  <2>1. {PointOf(s, f.from), PointOf(s, f.to)} = {PointOf(s, g.from), PointOf(s, g.to)}
    BY <1>3, <1>5 DEF Joined
  <2>2. \/ PointOf(s, f.from) = PointOf(s, g.from) /\ PointOf(s, f.to) = PointOf(s, g.to)
        \/ PointOf(s, f.from) = PointOf(s, g.to) /\ PointOf(s, f.to) = PointOf(s, g.from)
    BY <2>1
  <2>3. \/ f.from = g.from /\ f.to = g.to
        \/ f.from = g.to /\ f.to = g.from
    BY <1>1, <1>2, <2>2
  <2> QED BY <2>3
<1>6. ASSUME {f.from, f.to} = {g.from, g.to} PROVE Joined(LineOf(s, f)) = Joined(LineOf(s, g))
  <2>1. \/ f.from = g.from /\ f.to = g.to
        \/ f.from = g.to /\ f.to = g.from
    BY <1>6
  <2> QED BY <1>3, <2>1 DEF Joined
<1> QED BY <1>4, <1>5, <1>6

\* The lines of a good scene.
LEMMA LinesOfGood ==
    ASSUME NEW s, Good(s)
    PROVE  /\ LinesApart(Lines(s)) /\ Lines(s) \subseteq LineRecs
           /\ \A l \in Lines(s) : l.from \in PointSet(s) /\ l.to \in PointSet(s) /\ l.from # l.to
<1>1. ASSUME NEW l \in Lines(s), NEW m \in Lines(s), Joined(l) = Joined(m) PROVE l = m
  <2>1. PICK f \in FaceSet(s) : l = LineOf(s, f)
    BY DEF Lines
  <2>2. PICK g \in FaceSet(s) : m = LineOf(s, g)
    BY DEF Lines
  <2>3. f = g
    BY <1>1, <2>1, <2>2, JoinedTellsFace
  <2> QED BY <2>1, <2>2, <2>3
<1>2. ASSUME NEW l \in Lines(s)
      PROVE  l.from \in PointSet(s) /\ l.to \in PointSet(s) /\ l.from # l.to /\ l \in LineRecs
  <2>1. PICK f \in FaceSet(s) : l = LineOf(s, f)
    BY DEF Lines
  <2> QED BY <2>1, LineOfGood
<1> QED BY <1>1, <1>2 DEF LinesApart

\* Lines are looked up in the nodes alone.
LEMMA SameNodes ==
    ASSUME NEW s, NEW t, t.nodes = s.nodes
    PROVE  /\ Ids(t) = Ids(s) /\ PointSet(t) = PointSet(s) /\ (NodesApart(s) => NodesApart(t))
           /\ \A n : PointOf(t, n) = PointOf(s, n)
           /\ \A p : GetNode(t, p) = GetNode(s, p)
           /\ \A f : LineOf(t, f) = LineOf(s, f)
BY DEF Ids, PointSet, NodesApart, PointOf, GetNode, LineOf

\* A scene that lost nothing but faces.
LEMMA FewerFaces ==
    ASSUME NEW s, Good(s), NEW t \in Scenes, t.nodes = s.nodes, t.sound = s.sound,
           FaceSet(t) \subseteq FaceSet(s), FacesApart(t)
    PROVE  Good(t) /\ Lines(t) = {LineOf(s, f) : f \in FaceSet(t)}
BY SameNodes DEF Good, Hang, Loopless, Lines

\* The face that addFace makes of a line whose points have nodes.
FaceOn(s, l) == [l EXCEPT !.from = GetNode(s, l.from), !.to = GetNode(s, l.to)]

LEMMA FaceOfLine ==
    ASSUME NEW s \in Scenes, NEW l \in LineRecs, l.from \in PointSet(s), l.to \in PointSet(s)
    PROVE  LET f == FaceOn(s, l)
           IN  /\ f \in FaceRecs
               /\ f.from = GetNode(s, l.from) /\ f.to = GetNode(s, l.to)
               /\ f.angle = l.angle /\ f.segments = l.segments
               /\ f.from \in Ids(s) /\ f.to \in Ids(s)
<1> DEFINE f == FaceOn(s, l)
<1>1. GetNode(s, l.from) \in Ids(s) /\ GetNode(s, l.to) \in Ids(s)
  BY GetNodeIs DEF Ids
<1>2. \A n \in Ids(s) : n \in Nat
  BY SceneHas DEF Ids
<1>3. l.angle \in Nat /\ l.segments \in Nat
  BY DEF LineRecs
<1>4. GetNode(s, l.from) \in Nat /\ GetNode(s, l.to) \in Nat
  BY <1>1, <1>2
<1>5. f \in FaceRecs /\ f.from = GetNode(s, l.from) /\ f.to = GetNode(s, l.to)
      /\ f.angle = l.angle /\ f.segments = l.segments
  BY <1>4 DEF LineRecs, FaceRecs, FaceOn
<1> QED BY <1>1, <1>5

\* A face is made of a line, or the assertion that its points have nodes fails.
LEMMA AddLineIs ==
    ASSUME NEW s \in Scenes, NEW l \in LineRecs, NEW t, t = AddLine(s, l)
    PROVE  /\ t \in Scenes /\ t.nodes = s.nodes
           /\ t.sound => s.sound
           /\ t.sound => l.from \in PointSet(s) /\ l.to \in PointSet(s)
           /\ l.from \in PointSet(s) /\ l.to \in PointSet(s) => t.sound = s.sound
           /\ s \in Hung => t \in Hung
           /\ NodesApart(s) /\ Loopless(s) /\ l.from # l.to => Loopless(t)
<1> DEFINE from == GetNode(s, l.from)
           to == GetNode(s, l.to)
           f == FaceOn(s, l)
<1>1. CASE l.from \in PointSet(s) /\ l.to \in PointSet(s)
  <2>1. /\ f \in FaceRecs /\ f.from = from /\ f.to = to
        /\ f.from \in Ids(s) /\ f.to \in Ids(s)
    BY <1>1, FaceOfLine
  <2>2. from \in Nat /\ to \in Nat
    BY <2>1, FacesAre DEF FaceRecs
  <2>3. Null \notin {from, to}
    BY <2>2, NullIsNothing
  <2>4. t = AddFace(s, f)
    BY <2>3 DEF AddLine, FaceOn
  <2> HIDE DEF f, from, to
  <2>5. t \in Scenes /\ t.nodes = s.nodes /\ t.sound = s.sound
    BY <2>1, <2>4, AddFaceIs
  <2>6. FaceSet(t) \subseteq FaceSet(s) \cup {f}
    BY <2>1, <2>4, AddFaceIs
  <2>7. ASSUME s \in Hung PROVE t \in Hung
    BY <2>1, <2>5, <2>6, <2>7, SameNodes DEF Hung, Hang
  <2>8. ASSUME NodesApart(s), Loopless(s), l.from # l.to PROVE Loopless(t)
    <3>1. Placed(s, from, l.from) /\ Placed(s, to, l.to)
      BY <1>1, <2>8, PlacedIs DEF from, to
    <3>2. PointOf(s, from) = l.from /\ PointOf(s, to) = l.to
      BY <2>8, <3>1, PlacedIs
    <3>3. f.from # f.to
      BY <2>1, <2>8, <3>2
    <3> QED BY <2>6, <2>8, <3>3 DEF Loopless
  <2> QED BY <1>1, <2>5, <2>7, <2>8
<1>2. CASE l.from \notin PointSet(s) \/ l.to \notin PointSet(s)
  <2>1. Null \in {from, to}
    BY <1>2, GetNodeIs
  <2>2. t = [s EXCEPT !.sound = FALSE]
    BY <2>1 DEF AddLine
  <2>3. t \in Scenes /\ t.nodes = s.nodes /\ t.faces = s.faces /\ t.sound = FALSE
    BY <2>2 DEF Scenes
  <2> QED BY <1>2, <2>3 DEF Hung, Loopless, FaceSet
<1> QED BY <1>1, <1>2

\* A line that joins no two points of another, or is there already, is added to a
\* good scene.
LEMMA AddLineGood ==
    ASSUME NEW s, Good(s), NEW l \in LineRecs, l.from \in PointSet(s), l.to \in PointSet(s),
           l.from # l.to, LinesApart(Lines(s) \cup {l}), NEW t, t = AddLine(s, l)
    PROVE  Good(t) /\ t.nodes = s.nodes /\ Lines(t) = Lines(s) \cup {l}
<1> DEFINE from == GetNode(s, l.from)
           to == GetNode(s, l.to)
           f == FaceOn(s, l)
<1>1. s \in Scenes /\ NodesApart(s) /\ Loopless(s) /\ FacesApart(s) /\ s.sound /\ Hang(s)
  BY DEF Good
<1>2. s \in Hung
  BY <1>1 DEF Hung
<1>3. /\ t \in Scenes /\ t.nodes = s.nodes /\ t.sound = s.sound
      /\ t \in Hung /\ Loopless(t)
  BY <1>1, <1>2, AddLineIs
<1>4. /\ f \in FaceRecs /\ f.from = from /\ f.to = to
      /\ f.angle = l.angle /\ f.segments = l.segments
      /\ f.from \in Ids(s) /\ f.to \in Ids(s)
  BY <1>1, FaceOfLine
<1>5. Null \notin {from, to}
  <2>1. from \in Nat /\ to \in Nat
    BY <1>4 DEF FaceRecs
  <2> QED BY <2>1, NullIsNothing
<1>6. t = AddFace(s, f)
  BY <1>5 DEF AddLine, FaceOn
<1>7. PointOf(s, from) = l.from /\ PointOf(s, to) = l.to
  <2>1. Placed(s, from, l.from) /\ Placed(s, to, l.to)
    BY <1>1, PlacedIs
  <2> QED BY <1>1, <2>1, PlacedIs
<1> HIDE DEF f, from, to
<1>8. LineOf(s, f) = l
  <2>1. /\ LineOf(s, f) \in LineRecs
        /\ LineOf(s, f).from = l.from /\ LineOf(s, f).to = l.to
        /\ LineOf(s, f).angle = l.angle /\ LineOf(s, f).segments = l.segments
    BY <1>1, <1>4, <1>7, LineIs
  <2> QED BY <2>1, LineIsItsParts
<1>9. NodesApart(t) /\ Hang(t)
  BY <1>1, <1>3, SameNodes DEF Hung
<1>10. \A g \in FaceSet(s) : {g.from, g.to} = {f.from, f.to} => LineOf(s, g) = l
  <2> TAKE g \in FaceSet(s)
  <2> SUFFICES ASSUME {g.from, g.to} = {f.from, f.to} PROVE LineOf(s, g) = l
    OBVIOUS
  <2>1. LineOf(s, g) \in Lines(s)
    BY DEF Lines
  <2>2. LineOf(s, g).from = PointOf(s, g.from) /\ LineOf(s, g).to = PointOf(s, g.to)
    BY LineOfGood
  <2>3. \/ g.from = f.from /\ g.to = f.to
        \/ g.from = f.to /\ g.to = f.from
    OBVIOUS
  <2>4. Joined(LineOf(s, g)) = Joined(l)
    BY <1>4, <1>7, <2>2, <2>3 DEF Joined
  <2> QED BY <2>1, <2>4 DEF LinesApart
<1>11. CASE SameFace(s, f) # 0
  <2>1. t = s
    BY <1>1, <1>4, <1>6, <1>11, AddFaceIs
  <2>2. PICK i \in DOMAIN s.faces : Like(s.faces[i], f)
    BY <1>1, <1>11, SameFaceIs
  <2>3. s.faces[i] \in FaceSet(s)
    BY DEF FaceSet
  <2>4. {s.faces[i].from, s.faces[i].to} = {f.from, f.to}
    BY <2>2 DEF Like
  <2>5. l \in Lines(s)
    BY <1>10, <2>3, <2>4 DEF Lines
  <2> QED BY <2>1, <2>5
<1>12. CASE SameFace(s, f) = 0
  <2>1. FaceSet(t) = FaceSet(s) \cup {f}
    BY <1>1, <1>4, <1>6, <1>12, AddFaceIs
  <2>2. \A g \in FaceSet(s) : {g.from, g.to} # {f.from, f.to}
    <3> SUFFICES ASSUME NEW g \in FaceSet(s), {g.from, g.to} = {f.from, f.to} PROVE FALSE
      OBVIOUS
    <3>1. LineOf(s, g) = l
      BY <1>10
    <3>2. PointOf(s, g.from) = PointOf(s, f.from) /\ PointOf(s, g.to) = PointOf(s, f.to)
      BY <1>4, <1>7, <3>1, LineOfGood
    <3>3. g.from \in Ids(s) /\ g.to \in Ids(s)
      BY <1>1 DEF Hang
    <3>4. g.from = f.from /\ g.to = f.to
      BY <1>1, <1>4, <3>2, <3>3, PointTellsNode
    <3>5. g.angle = f.angle
      BY <1>4, <3>1, LineOfGood
    <3>6. PICK i \in DOMAIN s.faces : g = s.faces[i]
      BY DEF FaceSet
    <3> QED BY <1>1, <1>12, <3>4, <3>5, <3>6, SameFaceIs DEF Like
  <2>3. FacesApart(t)
    BY <1>1, <1>4, <1>6, <2>2, AddFaceIs
  <2>4. Lines(t) = Lines(s) \cup {l}
    <3>1. \A g : LineOf(t, g) = LineOf(s, g)
      BY <1>3, SameNodes
    <3> QED BY <1>8, <2>1, <3>1 DEF Lines
  <2> QED BY <1>1, <1>3, <1>9, <2>3, <2>4 DEF Good
<1> QED BY <1>11, <1>12

\* A line that is looked up, and removed when it is found.
LEMMA RemoveLineIs ==
    ASSUME NEW s \in Scenes, NEW l, NEW t, t = RemoveFace(s, GetFace(s, l))
    PROVE  /\ t \in Scenes /\ t.nodes = s.nodes /\ t.sound = s.sound
           /\ FaceSet(t) \subseteq FaceSet(s)
           /\ s \in Hung => t \in Hung
           /\ Loopless(s) => Loopless(t)
<1>1. GetFace(s, l) \in {0} \cup DOMAIN s.faces
  BY GetFaceIs
<1>2. /\ t \in Scenes /\ t.nodes = s.nodes /\ t.sound = s.sound
      /\ FaceSet(t) \subseteq FaceSet(s)
  BY <1>1, RemoveFaceIs
<1>3. Ids(t) = Ids(s)
  BY <1>2, SameNodes
<1> QED BY <1>2, <1>3 DEF Hung, Hang, Loopless

\* In a good scene a line is found when it is there.
LEMMA GetFaceGood ==
    ASSUME NEW s, Good(s), NEW L, LinesApart(L), Lines(s) \subseteq L, NEW l \in L
    PROVE  /\ l \notin Lines(s) => GetFace(s, l) = 0
           /\ l \in Lines(s) => /\ GetFace(s, l) # 0 /\ GetFace(s, l) \in DOMAIN s.faces
                                /\ LineOf(s, s.faces[GetFace(s, l)]) = l
<1> DEFINE i == GetFace(s, l)
<1>1. s \in Scenes
  BY DEF Good
<1>2. ASSUME i # 0
      PROVE  i \in DOMAIN s.faces /\ LineOf(s, s.faces[i]) = l /\ l \in Lines(s)
  <2> DEFINE f == s.faces[i]
  <2>1. i \in DOMAIN s.faces /\ Matches(s, f, l)
    BY <1>1, <1>2, GetFaceIs
  <2>2. f \in FaceSet(s)
    BY <2>1 DEF FaceSet
  <2> HIDE DEF f, i
  <2>3. Joined(LineOf(s, f)) = Joined(l)
    BY <2>1, <2>2, LineOfGood DEF Matches, Joined
  <2>4. LineOf(s, f) \in Lines(s)
    BY <2>2 DEF Lines
  <2>5. LineOf(s, f) = l
    BY <2>3, <2>4 DEF LinesApart
  <2> QED BY <2>1, <2>4, <2>5 DEF f
<1>3. ASSUME l \in Lines(s), i = 0 PROVE FALSE
  <2>1. PICK f \in FaceSet(s) : l = LineOf(s, f)
    BY <1>3 DEF Lines
  <2>2. PICK j \in DOMAIN s.faces : f = s.faces[j]
    BY DEF FaceSet
  <2>3. f.angle \in Nat
    BY <1>1, FacesAre
  <2>4. Matches(s, f, l)
    BY <2>1, <2>3, LineOfGood DEF Matches
  <2> QED BY <1>1, <1>3, <2>2, <2>4, GetFaceIs
<1> QED BY <1>2, <1>3

\* A line of a good scene is removed, and nothing else.
LEMMA RemoveLineGood ==
    ASSUME NEW s, Good(s), NEW L, LinesApart(L), Lines(s) \subseteq L, NEW l \in L,
           NEW t, t = RemoveFace(s, GetFace(s, l))
    PROVE  Good(t) /\ t.nodes = s.nodes /\ Lines(t) = Lines(s) \ {l}
<1> DEFINE i == GetFace(s, l)
<1>1. s \in Scenes /\ FacesApart(s)
  BY DEF Good
<1>2. i \in {0} \cup DOMAIN s.faces
  BY <1>1, GetFaceIs
<1>7. t = RemoveFace(s, i)
  OBVIOUS
<1> HIDE DEF i
<1>3. /\ t \in Scenes /\ t.nodes = s.nodes /\ t.sound = s.sound
      /\ i = 0 => t = s
      /\ FaceSet(t) \subseteq FaceSet(s) /\ FacesApart(t)
      /\ i # 0 => FaceSet(t) = FaceSet(s) \ {s.faces[i]}
  <2>1. /\ t \in Scenes /\ t.nodes = s.nodes /\ t.sound = s.sound
        /\ FaceSet(t) \subseteq FaceSet(s)
    BY <1>1, <1>2, <1>7, RemoveFaceIs
  <2>2. i = 0 => t = s
    BY <1>1, <1>2, <1>7, RemoveFaceIs
  <2>3. FacesApart(t) 
    BY <1>1, <1>2, <1>7, RemoveFaceIs
  <2>4. i # 0 => FaceSet(t) = FaceSet(s) \ {s.faces[i]}
    BY <1>1, <1>2, <1>7, RemoveFaceIs
  <2> QED BY <2>1, <2>2, <2>3, <2>4
<1>4. Good(t) /\ Lines(t) = {LineOf(s, f) : f \in FaceSet(t)}
  BY <1>3, FewerFaces
<1>5. CASE i = 0
  BY <1>3, <1>4, <1>5, GetFaceGood DEF i
<1>6. CASE i # 0
  <2>1. i \in DOMAIN s.faces /\ LineOf(s, s.faces[i]) = l /\ l \in Lines(s)
    BY <1>6, GetFaceGood DEF i
  <2>2. s.faces[i] \in FaceSet(s)
    BY <2>1 DEF FaceSet
  <2>3. \A f \in FaceSet(s) : LineOf(s, f) = l => f = s.faces[i]
    BY <2>1, <2>2, JoinedTellsFace
  <2> QED BY <1>3, <1>4, <1>6, <2>1, <2>2, <2>3 DEF Lines
<1> QED BY <1>5, <1>6

\* Faces are made one after the other.
LEMMA AddLinesFollow ==
    ASSUME NEW s \in Scenes, NEW ls \in Seq(LineRecs)
    PROVE  \E f : /\ f[0] = s
                  /\ \A k \in 0 .. Len(ls) - 1 : f[k + 1] = AddLine(f[k], ls[k + 1])
                  /\ AddLines(s, ls) = f[Len(ls)]
<1> DEFINE N == Len(ls)
           step == [i \in 1 .. N |-> [x \in Scenes |-> AddLine(x, ls[i])]]
           Rec(g) == g = [k \in 0 .. N |->
               IF k = 0 THEN s ELSE AddLine(g[k - 1], ls[k])]
           f == CHOOSE g : Rec(g)
<1>1. N \in Nat /\ DOMAIN ls = 1 .. N /\ \A i \in 1 .. N : ls[i] \in LineRecs
  OBVIOUS
<1>2. StaysIn(Scenes, N, step)
  BY <1>1, AddLineIs DEF StaysIn
<1>3. PICK h : Follows(h, Scenes, N, s, step)
  <2> HIDE DEF step
  <2> QED BY <1>1, <1>2, RecursionExists
<1>4. h = [k \in 0 .. N |-> IF k = 0 THEN s ELSE step[k][h[k - 1]]]
  <2> HIDE DEF step
  <2> QED BY <1>1, <1>3, FollowsIs
<1>5. \A k \in 1 .. N : step[k][h[k - 1]] = AddLine(h[k - 1], ls[k])
  <2>1. \A k \in 1 .. N : h[k - 1] \in Scenes
    BY <1>1, <1>3 DEF Follows
  <2> QED BY <2>1
<1>6. Rec(h)
  <2> HIDE DEF step
  <2>1. \A k \in 0 .. N : k # 0 => k \in 1 .. N
    BY <1>1
  <2> QED BY <1>4, <1>5, <2>1
<1>7. Rec(f)
  <2> HIDE DEF Rec
  <2> QED BY <1>6
<1>8. \A k \in 0 .. N : f[k] = IF k = 0 THEN s ELSE AddLine(f[k - 1], ls[k])
  <2> HIDE DEF f
  <2> QED BY <1>7
<1>9. AddLines(s, ls) = f[N]
  BY Zenon DEF AddLines, AfterAll, f, Rec, N
<1> HIDE DEF f
<1>10. ASSUME NEW k \in 0 .. N - 1 PROVE f[k + 1] = AddLine(f[k], ls[k + 1])
  <2>1. k + 1 \in 0 .. N /\ k + 1 # 0 /\ (k + 1) - 1 = k
    BY <1>1
  <2> QED BY <1>8, <2>1
<1>11. f[0] = s
  BY <1>1, <1>8
<1> QED BY <1>9, <1>10, <1>11

\* Faces are found and removed one after the other.
LEMMA RemoveLinesFollow ==
    ASSUME NEW s \in Scenes, NEW ls \in Seq(LineRecs)
    PROVE  \E f : /\ f[0] = s
                  /\ \A k \in 0 .. Len(ls) - 1 : f[k + 1] = RemoveFace(f[k], GetFace(f[k], ls[k + 1]))
                  /\ RemoveLines(s, ls) = f[Len(ls)]
<1> DEFINE N == Len(ls)
           step == [i \in 1 .. N |-> [x \in Scenes |-> RemoveFace(x, GetFace(x, ls[i]))]]
           Rec(g) == g = [k \in 0 .. N |->
               IF k = 0 THEN s ELSE RemoveFace(g[k - 1], GetFace(g[k - 1], ls[k]))]
           f == CHOOSE g : Rec(g)
<1>1. N \in Nat /\ DOMAIN ls = 1 .. N /\ \A i \in 1 .. N : ls[i] \in LineRecs
  OBVIOUS
<1>2. StaysIn(Scenes, N, step)
  BY <1>1, RemoveLineIs DEF StaysIn
<1>3. PICK h : Follows(h, Scenes, N, s, step)
  <2> HIDE DEF step
  <2> QED BY <1>1, <1>2, RecursionExists
<1>4. h = [k \in 0 .. N |-> IF k = 0 THEN s ELSE step[k][h[k - 1]]]
  <2> HIDE DEF step
  <2> QED BY <1>1, <1>3, FollowsIs
<1>5. \A k \in 1 .. N : step[k][h[k - 1]] = RemoveFace(h[k - 1], GetFace(h[k - 1], ls[k]))
  <2>1. \A k \in 1 .. N : h[k - 1] \in Scenes
    BY <1>1, <1>3 DEF Follows
  <2> QED BY <2>1
<1>6. Rec(h)
  <2> HIDE DEF step
  <2>1. \A k \in 0 .. N : k # 0 => k \in 1 .. N
    BY <1>1
  <2> QED BY <1>4, <1>5, <2>1
<1>7. Rec(f)
  <2> HIDE DEF Rec
  <2> QED BY <1>6
<1>8. \A k \in 0 .. N : f[k] = IF k = 0 THEN s ELSE RemoveFace(f[k - 1], GetFace(f[k - 1], ls[k]))
  <2> HIDE DEF f
  <2> QED BY <1>7
<1>9. RemoveLines(s, ls) = f[N]
  BY Zenon DEF RemoveLines, AfterAll, f, Rec, N
<1> HIDE DEF f
<1>10. ASSUME NEW k \in 0 .. N - 1 PROVE f[k + 1] = RemoveFace(f[k], GetFace(f[k], ls[k + 1]))
  <2>1. k + 1 \in 0 .. N /\ k + 1 # 0 /\ (k + 1) - 1 = k
    BY <1>1
  <2> QED BY <1>8, <2>1
<1>11. f[0] = s
  BY <1>1, <1>8
<1> QED BY <1>9, <1>10, <1>11

\* The first k of a list.
FirstOf(list, k) == {list[i] : i \in 1 .. k}

LEMMA FirstOfIs ==
    ASSUME NEW T, NEW list \in Seq(T)
    PROVE  /\ FirstOf(list, 0) = {} /\ FirstOf(list, Len(list)) = ToSet(list)
           /\ \A k \in 0 .. Len(list) - 1 :
                 FirstOf(list, k + 1) = FirstOf(list, k) \cup {list[k + 1]}
           /\ \A i \in 1 .. Len(list) : list[i] \in ToSet(list)
<1> DEFINE N == Len(list)
<1>1. N \in Nat /\ DOMAIN list = 1 .. N
  OBVIOUS
<1>2. ASSUME NEW k \in 0 .. N - 1
      PROVE  FirstOf(list, k + 1) = FirstOf(list, k) \cup {list[k + 1]}
  <2>1. \A i : i \in 1 .. k + 1 <=> i \in 1 .. k \/ i = k + 1
    BY <1>1
  <2> HIDE DEF N
  <2> QED BY <2>1 DEF FirstOf
<1>3. FirstOf(list, 0) = {}
  BY DEF FirstOf
<1>4. FirstOf(list, N) = ToSet(list)
  BY <1>1 DEF FirstOf, ToSet
<1>5. \A i \in 1 .. N : list[i] \in ToSet(list)
  BY <1>1 DEF ToSet
<1> QED BY <1>2, <1>3, <1>4, <1>5

\* Nodes are added at all the points.
LEMMA AddNodesAre ==
    ASSUME NEW s \in Scenes, NEW ps \in Seq(Points), NEW t, t = AddNodes(s, ps)
    PROVE  /\ t \in Scenes /\ t.faces = s.faces /\ t.sound = s.sound
           /\ NodesApart(s) => NodesApart(t)
           /\ PointSet(t) = PointSet(s) \cup ToSet(ps) /\ Ids(s) \subseteq Ids(t)
           /\ \A n, q : Placed(s, n, q) => Placed(t, n, q)
           /\ ToSet(ps) \subseteq PointSet(s) => t = s
<1> DEFINE N == Len(ps)
<1>1. N \in Nat /\ DOMAIN ps = 1 .. N /\ \A i \in 1 .. N : ps[i] \in Points
  OBVIOUS
<1>2. PICK f : /\ f[0] = s
               /\ \A k \in 0 .. N - 1 : f[k + 1] = AddNode(f[k], ps[k + 1])
               /\ t = f[N]
  BY AddNodesFollow
<1> DEFINE Is(k, u) ==
             /\ u \in Scenes /\ u.faces = s.faces /\ u.sound = s.sound
             /\ NodesApart(s) => NodesApart(u)
             /\ PointSet(u) = PointSet(s) \cup FirstOf(ps, k) /\ Ids(s) \subseteq Ids(u)
             /\ \A n, q : Placed(s, n, q) => Placed(u, n, q)
             /\ ToSet(ps) \subseteq PointSet(s) => u = s
           Done == {k \in 0 .. N : Is(k, f[k])}
<1>3. 0 \in Done
  BY <1>1, <1>2, FirstOfIs
<1>4. ASSUME NEW k \in 0 .. N - 1, k \in Done PROVE k + 1 \in Done
  <2> DEFINE u == f[k]
             v == f[k + 1]
  <2>1. k + 1 \in 1 .. N /\ k + 1 \in 0 .. N /\ ps[k + 1] \in Points
    BY <1>1
  <2>2. Is(k, u)
    BY <1>4
  <2>3. v = AddNode(u, ps[k + 1])
    BY <1>2
  <2> HIDE DEF u, v
  <2>4. /\ v \in Scenes /\ v.faces = u.faces /\ v.sound = u.sound
        /\ NodesApart(u) => NodesApart(v)
        /\ PointSet(v) = PointSet(u) \cup {ps[k + 1]} /\ Ids(u) \subseteq Ids(v)
        /\ \A n, q : Placed(u, n, q) => Placed(v, n, q)
        /\ ps[k + 1] \in PointSet(u) => v = u
    BY <2>1, <2>2, <2>3, AddNodeIs
  <2>5. FirstOf(ps, k + 1) = FirstOf(ps, k) \cup {ps[k + 1]} /\ ps[k + 1] \in ToSet(ps)
    BY <2>1, FirstOfIs
  <2>6. Is(k + 1, v)
    BY <2>2, <2>4, <2>5
  <2> HIDE DEF Is
  <2> QED BY <2>1, <2>6 DEF v
<1> HIDE DEF Done
<1>5. \A k \in 0 .. N : k \in Done
  <2>1. \A k \in 0 .. N - 1 : k \in Done => k + 1 \in Done
    BY <1>4
  <2> QED BY <1>1, <1>3, <2>1, SetInduction
<1>6. N \in Done
  BY <1>1, <1>5
<1>7. Is(N, t)
  BY <1>2, <1>6 DEF Done
<1>8. FirstOf(ps, N) = ToSet(ps)
  BY FirstOfIs
<1> QED BY <1>7, <1>8

\* A node leaves its point, and the program stops if a face was on it.
LEMMA RemovePointIs ==
    ASSUME NEW s \in Scenes, NEW p \in Points, NEW t, t = RemoveNode(s, GetNode(s, p))
    PROVE  /\ t \in Scenes /\ t.faces = s.faces
           /\ s \in Hung => t \in Hung
           /\ t.sound => s.sound
           /\ NodesApart(s) =>
                /\ NodesApart(t)
                /\ \A n, q : Placed(t, n, q) <=> Placed(s, n, q) /\ q # p
                /\ s.sound /\ (\A f \in FaceSet(s) : ~ Placed(s, f.from, p) /\ ~ Placed(s, f.to, p))
                     => t.sound
<1> DEFINE n == GetNode(s, p)
<1>1. CASE p \notin PointSet(s)
  <2>1. n = Null
    BY <1>1, GetNodeIs
  <2>2. t = s
    BY <2>1, RemoveNodeIs
  <2>3. \A m, q : Placed(s, m, q) => q # p
    BY <1>1, PlacedSets
  <2> QED BY <2>2, <2>3
<1>2. CASE p \in PointSet(s)
  <2>1. n \in Ids(s) /\ n \in Nat
    <3>1. PICK i \in DOMAIN s.nodes : n = s.nodes[i].id
      BY <1>2, GetNodeIs
    <3> QED BY <3>1, SceneHas DEF Ids
  <2>2. n # Null
    BY <2>1, NullIsNothing
  <2>3. t = RemoveNode(s, n)
    OBVIOUS
  <2> HIDE DEF n
  <2>4. /\ t \in Scenes /\ t.faces = s.faces
        /\ NodesApart(s) => NodesApart(t)
        /\ t.sound <=> s.sound /\ OnNode(s, n) = {}
        /\ Ids(t) = Ids(s) \ {n}
        /\ \A m, q : Placed(t, m, q) <=> Placed(s, m, q) /\ m # n
    BY <2>2, <2>3, RemoveNodeIs
  <2>5. ASSUME s \in Hung PROVE t \in Hung
    <3> SUFFICES ASSUME t.sound, NEW f \in FaceSet(t)
                 PROVE  f.from \in Ids(t) /\ f.to \in Ids(t)
      BY <2>4 DEF Hung, Hang
    <3>1. PICK i \in DOMAIN s.faces : f = s.faces[i]
      BY <2>4 DEF FaceSet
    <3>2. f.from # n /\ f.to # n
      BY <2>4, <3>1 DEF OnNode
    <3>3. f.from \in Ids(s) /\ f.to \in Ids(s)
      BY <2>4, <2>5, <3>1 DEF Hung, Hang, FaceSet
    <3> QED BY <2>4, <3>2, <3>3
  <2>6. ASSUME NodesApart(s) PROVE \A m, q : Placed(t, m, q) <=> Placed(s, m, q) /\ q # p
    <3>1. Placed(s, n, p)
      BY <1>2, <2>6, PlacedIs DEF n
    <3>2. \A m, q : Placed(s, m, q) => PointOf(s, m) = q /\ GetNode(s, q) = m
      BY <2>6, PlacedIs
    <3>3. \A m, q : Placed(s, m, q) => (m = n <=> q = p)
      BY <3>1, <3>2
    <3> QED BY <2>4, <3>3
  <2>7. ASSUME NodesApart(s), s.sound,
               \A f \in FaceSet(s) : ~ Placed(s, f.from, p) /\ ~ Placed(s, f.to, p)
        PROVE  t.sound
    <3>1. Placed(s, n, p)
      BY <1>2, <2>7, PlacedIs DEF n
    <3>2. \A i \in DOMAIN s.faces : s.faces[i].from # n /\ s.faces[i].to # n
      BY <2>7, <3>1 DEF FaceSet
    <3>3. OnNode(s, n) = {}
      BY <3>2 DEF OnNode
    <3> QED BY <2>4, <2>7, <3>3
  <2> QED BY <2>4, <2>5, <2>6, <2>7
<1> QED BY <1>1, <1>2

\* All the points lose their nodes.
LEMMA RemoveNodesAre ==
    ASSUME NEW s \in Scenes, NEW ps \in Seq(Points), NEW t, t = RemoveNodes(s, ps)
    PROVE  /\ t \in Scenes /\ t.faces = s.faces
           /\ s \in Hung => t \in Hung
           /\ t.sound => s.sound
           /\ NodesApart(s) =>
                /\ NodesApart(t)
                /\ \A n, q : Placed(t, n, q) <=> Placed(s, n, q) /\ q \notin ToSet(ps)
                /\ s.sound /\ (\A f \in FaceSet(s), p \in ToSet(ps) :
                                  ~ Placed(s, f.from, p) /\ ~ Placed(s, f.to, p))
                     => t.sound
<1> DEFINE N == Len(ps)
           Free(k) == \A f \in FaceSet(s), p \in FirstOf(ps, k) :
                         ~ Placed(s, f.from, p) /\ ~ Placed(s, f.to, p)
<1>1. N \in Nat /\ DOMAIN ps = 1 .. N /\ \A i \in 1 .. N : ps[i] \in Points
  OBVIOUS
<1>2. PICK f : /\ f[0] = s
               /\ \A k \in 0 .. N - 1 : f[k + 1] = RemoveNode(f[k], GetNode(f[k], ps[k + 1]))
               /\ t = f[N]
  BY RemoveNodesFollow
<1> DEFINE Is(k, u) ==
             /\ u \in Scenes /\ u.faces = s.faces
             /\ s \in Hung => u \in Hung
             /\ u.sound => s.sound
             /\ NodesApart(s) =>
                  /\ NodesApart(u)
                  /\ \A n, q : Placed(u, n, q) <=> Placed(s, n, q) /\ q \notin FirstOf(ps, k)
                  /\ s.sound /\ Free(k) => u.sound
           Done == {k \in 0 .. N : Is(k, f[k])}
<1>3. 0 \in Done
  <2>1. FirstOf(ps, 0) = {} /\ 0 \in 0 .. N
    BY <1>1, FirstOfIs
  <2> QED BY <1>2, <2>1
<1>4. ASSUME NEW k \in 0 .. N - 1, k \in Done PROVE k + 1 \in Done
  <2> DEFINE u == f[k]
             v == f[k + 1]
             p == ps[k + 1]
  <2>1. k + 1 \in 1 .. N /\ k + 1 \in 0 .. N /\ p \in Points
    BY <1>1
  <2>2. Is(k, u)
    BY <1>4
  <2>3. v = RemoveNode(u, GetNode(u, p))
    BY <1>2
  <2>5. FirstOf(ps, k + 1) = FirstOf(ps, k) \cup {p}
    BY <2>1, FirstOfIs
  <2> HIDE DEF u, v, p
  <2>4. /\ v \in Scenes /\ v.faces = u.faces
        /\ u \in Hung => v \in Hung
        /\ v.sound => u.sound
        /\ NodesApart(u) =>
             /\ NodesApart(v)
             /\ \A n, q : Placed(v, n, q) <=> Placed(u, n, q) /\ q # p
             /\ u.sound /\ (\A g \in FaceSet(u) : ~ Placed(u, g.from, p) /\ ~ Placed(u, g.to, p))
                  => v.sound
    BY <2>1, <2>2, <2>3, RemovePointIs
  <2>6. ASSUME NodesApart(s)
        PROVE  /\ NodesApart(v)
               /\ \A n, q : Placed(v, n, q) <=> Placed(s, n, q) /\ q \notin FirstOf(ps, k + 1)
               /\ s.sound /\ Free(k + 1) => v.sound
    <3>1. \A n, q : Placed(u, n, q) <=> Placed(s, n, q) /\ q \notin FirstOf(ps, k)
      BY <2>2, <2>6
    <3>2. NodesApart(v) /\ \A n, q : Placed(v, n, q) <=> Placed(u, n, q) /\ q # p
      BY <2>2, <2>4, <2>6
    <3>3. ASSUME s.sound, Free(k + 1) PROVE v.sound
      <4>1. Free(k)
        BY <2>5, <3>3
      <4>2. u.sound
        BY <2>2, <2>6, <3>3, <4>1
      <4>3. FaceSet(u) = FaceSet(s)
        BY <2>2 DEF FaceSet
      <4>4. \A g \in FaceSet(u) : ~ Placed(u, g.from, p) /\ ~ Placed(u, g.to, p)
        BY <2>5, <3>1, <3>3, <4>3
      <4> QED BY <2>2, <2>4, <2>6, <4>2, <4>4
    <3> QED BY <2>5, <3>1, <3>2, <3>3
  <2>7. Is(k + 1, v)
    BY <2>2, <2>4, <2>6
  <2> HIDE DEF Is
  <2> QED BY <2>1, <2>7 DEF v
<1> HIDE DEF Done
<1>5. \A k \in 0 .. N : k \in Done
  <2>1. \A k \in 0 .. N - 1 : k \in Done => k + 1 \in Done
    BY <1>4
  <2> QED BY <1>1, <1>3, <2>1, SetInduction
<1>6. N \in Done
  BY <1>1, <1>5
<1>7. Is(N, t)
  BY <1>2, <1>6 DEF Done
<1>8. FirstOf(ps, N) = ToSet(ps)
  BY FirstOfIs
<1> QED BY <1>7, <1>8

\* Faces are made of lines.
LEMMA AddLinesAre ==
    ASSUME NEW s \in Scenes, NEW ls \in Seq(LineRecs), NEW t, t = AddLines(s, ls)
    PROVE  /\ t \in Scenes /\ t.nodes = s.nodes
           /\ t.sound => s.sound
           /\ s \in Hung => t \in Hung
           /\ NodesApart(s) /\ Loopless(s) /\ (\A l \in ToSet(ls) : l.from # l.to) => Loopless(t)
<1> DEFINE N == Len(ls)
<1>1. N \in Nat /\ DOMAIN ls = 1 .. N /\ \A i \in 1 .. N : ls[i] \in LineRecs
  <2> HIDE DEF LineRecs
  <2> QED OBVIOUS
<1>2. PICK f : /\ f[0] = s
               /\ \A k \in 0 .. N - 1 : f[k + 1] = AddLine(f[k], ls[k + 1])
               /\ t = f[N]
  BY AddLinesFollow
<1> DEFINE Is(k, u) ==
             /\ u \in Scenes /\ u.nodes = s.nodes
             /\ u.sound => s.sound
             /\ s \in Hung => u \in Hung
             /\ NodesApart(s) /\ Loopless(s) /\ (\A l \in ToSet(ls) : l.from # l.to) => Loopless(u)
           Done == {k \in 0 .. N : Is(k, f[k])}
<1>3. 0 \in Done
  BY <1>1, <1>2
<1>4. ASSUME NEW k \in 0 .. N - 1, k \in Done PROVE k + 1 \in Done
  <2> DEFINE u == f[k]
             v == f[k + 1]
             l == ls[k + 1]
  <2>1. k + 1 \in 1 .. N /\ k + 1 \in 0 .. N /\ l \in LineRecs
    BY <1>1
  <2>2. Is(k, u)
    BY <1>4
  <2>3. v = AddLine(u, l)
    BY <1>2
  <2>4. l \in ToSet(ls)
    BY <2>1, FirstOfIs
  <2> HIDE DEF u, v, l
  <2>5. /\ v \in Scenes /\ v.nodes = u.nodes
        /\ v.sound => u.sound
        /\ u \in Hung => v \in Hung
        /\ NodesApart(u) /\ Loopless(u) /\ l.from # l.to => Loopless(v)
    BY <2>1, <2>2, <2>3, AddLineIs
  <2>6. NodesApart(s) => NodesApart(u)
    BY <2>2, SameNodes
  <2>7. Is(k + 1, v)
    BY <2>2, <2>4, <2>5, <2>6
  <2> HIDE DEF Is
  <2> QED BY <2>1, <2>7 DEF v
<1> HIDE DEF Done
<1>5. \A k \in 0 .. N : k \in Done
  <2>1. \A k \in 0 .. N - 1 : k \in Done => k + 1 \in Done
    BY <1>4
  <2> QED BY <1>1, <1>3, <2>1, SetInduction
<1>6. N \in Done
  BY <1>1, <1>5
<1>7. Is(N, t)
  BY <1>2, <1>6 DEF Done
<1> QED BY <1>7

\* Lines are added to a good scene, where they stay apart.
LEMMA AddLinesGood ==
    ASSUME NEW s, Good(s), NEW ls \in Seq(LineRecs),
           \A l \in ToSet(ls) : l.from \in PointSet(s) /\ l.to \in PointSet(s) /\ l.from # l.to,
           LinesApart(Lines(s) \cup ToSet(ls)), NEW t, t = AddLines(s, ls)
    PROVE  Good(t) /\ t.nodes = s.nodes /\ Lines(t) = Lines(s) \cup ToSet(ls)
<1> DEFINE N == Len(ls)
<1>1. N \in Nat /\ DOMAIN ls = 1 .. N /\ \A i \in 1 .. N : ls[i] \in LineRecs
  <2> HIDE DEF LineRecs
  <2> QED OBVIOUS
<1>2. PICK f : /\ f[0] = s
               /\ \A k \in 0 .. N - 1 : f[k + 1] = AddLine(f[k], ls[k + 1])
               /\ t = f[N]
  BY AddLinesFollow DEF Good
<1> DEFINE Is(k, u) == Good(u) /\ u.nodes = s.nodes /\ Lines(u) = Lines(s) \cup FirstOf(ls, k)
           Done == {k \in 0 .. N : Is(k, f[k])}
<1>3. 0 \in Done
  BY <1>1, <1>2, FirstOfIs
<1>4. ASSUME NEW k \in 0 .. N - 1, k \in Done PROVE k + 1 \in Done
  <2> DEFINE u == f[k]
             v == f[k + 1]
             l == ls[k + 1]
  <2>1. k + 1 \in 1 .. N /\ k + 1 \in 0 .. N /\ l \in LineRecs
    BY <1>1
  <2>2. Is(k, u)
    BY <1>4
  <2>3. v = AddLine(u, l)
    BY <1>2
  <2>4. l \in ToSet(ls) /\ FirstOf(ls, k + 1) = FirstOf(ls, k) \cup {l}
    BY <2>1, FirstOfIs
  <2>5. FirstOf(ls, k) \subseteq ToSet(ls)
    <3>1. 1 .. k \subseteq DOMAIN ls
      BY <1>1
    <3> QED BY <3>1 DEF FirstOf, ToSet
  <2> HIDE DEF u, v, l
  <2>6. LinesApart(Lines(u) \cup {l})
    BY <2>2, <2>4, <2>5 DEF LinesApart
  <2>7. PointSet(u) = PointSet(s)
    BY <2>2, SameNodes
  <2>8. Good(v) /\ v.nodes = u.nodes /\ Lines(v) = Lines(u) \cup {l}
    BY <2>1, <2>2, <2>3, <2>4, <2>6, <2>7, AddLineGood
  <2>9. Is(k + 1, v)
    BY <2>2, <2>4, <2>8
  <2> HIDE DEF Is
  <2> QED BY <2>1, <2>9 DEF v
<1> HIDE DEF Done
<1>5. \A k \in 0 .. N : k \in Done
  <2>1. \A k \in 0 .. N - 1 : k \in Done => k + 1 \in Done
    BY <1>4
  <2> QED BY <1>1, <1>3, <2>1, SetInduction
<1>6. N \in Done
  BY <1>1, <1>5
<1>7. Is(N, t)
  BY <1>2, <1>6 DEF Done
<1>8. FirstOf(ls, N) = ToSet(ls)
  BY FirstOfIs
<1> QED BY <1>7, <1>8

\* Faces are found by their lines and removed.
LEMMA RemoveLinesAre ==
    ASSUME NEW s \in Scenes, NEW ls \in Seq(LineRecs), NEW t, t = RemoveLines(s, ls)
    PROVE  /\ t \in Scenes /\ t.nodes = s.nodes /\ t.sound = s.sound
           /\ s \in Hung => t \in Hung
           /\ Loopless(s) => Loopless(t)
<1> DEFINE N == Len(ls)
<1>1. N \in Nat
  <2> HIDE DEF LineRecs
  <2> QED OBVIOUS
<1>2. PICK f : /\ f[0] = s
               /\ \A k \in 0 .. N - 1 : f[k + 1] = RemoveFace(f[k], GetFace(f[k], ls[k + 1]))
               /\ t = f[N]
  BY RemoveLinesFollow
<1> DEFINE Is(k, u) == /\ u \in Scenes /\ u.nodes = s.nodes /\ u.sound = s.sound
                       /\ s \in Hung => u \in Hung
                       /\ Loopless(s) => Loopless(u)
           Done == {k \in 0 .. N : Is(k, f[k])}
<1>3. 0 \in Done
  BY <1>1, <1>2
<1>4. ASSUME NEW k \in 0 .. N - 1, k \in Done PROVE k + 1 \in Done
  <2> DEFINE u == f[k]
             v == f[k + 1]
  <2>1. k + 1 \in 0 .. N
    BY <1>1
  <2>2. Is(k, u)
    BY <1>4
  <2>3. v = RemoveFace(u, GetFace(u, ls[k + 1]))
    BY <1>2
  <2> HIDE DEF u, v
  <2>4. Is(k + 1, v)
    BY <2>2, <2>3, RemoveLineIs
  <2> HIDE DEF Is
  <2> QED BY <2>1, <2>4 DEF v
<1> HIDE DEF Done
<1>5. \A k \in 0 .. N : k \in Done
  <2>1. \A k \in 0 .. N - 1 : k \in Done => k + 1 \in Done
    BY <1>4
  <2> QED BY <1>1, <1>3, <2>1, SetInduction
<1>6. N \in Done
  BY <1>1, <1>5
<1>7. Is(N, t)
  BY <1>2, <1>6 DEF Done
<1> QED BY <1>7

\* Of a good scene the commands remove the lines that they name, and no other.
LEMMA RemoveLinesGood ==
    ASSUME NEW s, Good(s), NEW ls \in Seq(LineRecs), ToSet(ls) \subseteq Lines(s),
           NEW t, t = RemoveLines(s, ls)
    PROVE  Good(t) /\ t.nodes = s.nodes /\ Lines(t) = Lines(s) \ ToSet(ls)
<1> DEFINE N == Len(ls)
<1>1. N \in Nat
  <2> HIDE DEF LineRecs
  <2> QED OBVIOUS
<1>2. PICK f : /\ f[0] = s
               /\ \A k \in 0 .. N - 1 : f[k + 1] = RemoveFace(f[k], GetFace(f[k], ls[k + 1]))
               /\ t = f[N]
  BY RemoveLinesFollow DEF Good
<1>0. LinesApart(Lines(s))
  BY LinesOfGood
<1> DEFINE Is(k, u) == Good(u) /\ u.nodes = s.nodes /\ Lines(u) = Lines(s) \ FirstOf(ls, k)
           Done == {k \in 0 .. N : Is(k, f[k])}
<1>3. 0 \in Done
  BY <1>1, <1>2, FirstOfIs
<1>4. ASSUME NEW k \in 0 .. N - 1, k \in Done PROVE k + 1 \in Done
  <2> DEFINE u == f[k]
             v == f[k + 1]
             l == ls[k + 1]
  <2>1. k + 1 \in 1 .. N /\ k + 1 \in 0 .. N
    BY <1>1
  <2>2. Is(k, u)
    BY <1>4
  <2>3. v = RemoveFace(u, GetFace(u, l))
    BY <1>2
  <2>4. l \in ToSet(ls) /\ FirstOf(ls, k + 1) = FirstOf(ls, k) \cup {l}
    BY <2>1, FirstOfIs
  <2> HIDE DEF u, v, l
  <2>5. Lines(u) \subseteq Lines(s) /\ l \in Lines(s)
    BY <2>2, <2>4
  <2>6. Good(v) /\ v.nodes = u.nodes /\ Lines(v) = Lines(u) \ {l}
    BY <1>0, <2>2, <2>3, <2>5, RemoveLineGood
  <2>7. Is(k + 1, v)
    BY <2>2, <2>4, <2>6
  <2> HIDE DEF Is
  <2> QED BY <2>1, <2>7 DEF v
<1> HIDE DEF Done
<1>5. \A k \in 0 .. N : k \in Done
  <2>1. \A k \in 0 .. N - 1 : k \in Done => k + 1 \in Done
    BY <1>4
  <2> QED BY <1>1, <1>3, <2>1, SetInduction
<1>6. N \in Done
  BY <1>1, <1>5
<1>7. Is(N, t)
  BY <1>2, <1>6 DEF Done
<1>8. FirstOf(ls, N) = ToSet(ls)
  BY FirstOfIs
<1> QED BY <1>7, <1>8

\* Nodes are moved one after the other; which ones was decided before.
LEMMA MoveAllFollow ==
    ASSUME NEW s \in Scenes, NEW ps \in Seq(Points), NEW qs \in Seq(Points), Len(qs) = Len(ps)
    PROVE  \E f : /\ f[0] = s
                  /\ \A k \in 0 .. Len(ps) - 1 :
                        f[k + 1] = MoveNode(f[k], GetNode(s, ps[k + 1]), qs[k + 1])
                  /\ MoveAll(s, ps, qs) = f[Len(ps)]
<1> DEFINE N == Len(ps)
           ids == [i \in DOMAIN ps |-> i]
           moved == [i \in DOMAIN ps |-> GetNode(s, ps[i])]
           step == [i \in 1 .. N |-> [x \in Scenes |-> MoveNode(x, moved[ids[i]], qs[ids[i]])]]
           Rec(g) == g = [k \in 0 .. N |->
               IF k = 0 THEN s
                                           ELSE MoveNode(g[k - 1], moved[ids[k]], qs[ids[k]])]
           f == CHOOSE g : Rec(g)
<1>1. N \in Nat /\ DOMAIN ps = 1 .. N /\ \A i \in 1 .. N : qs[i] \in Points
  OBVIOUS
<1>0. Len(ids) = N
  <2>1. ids \in [1 .. N -> Nat]
    BY <1>1
  <2> HIDE DEF ids
  <2> QED BY <1>1, <2>1, FunctionIsSequence
<1>12. \A k \in 1 .. N : ids[k] = k /\ moved[ids[k]] = GetNode(s, ps[k]) /\ qs[ids[k]] \in Points
  BY <1>1
<1>2. StaysIn(Scenes, N, step)
  <2> HIDE DEF ids, moved
  <2> QED BY <1>1, <1>12, MoveNodeIs DEF StaysIn
<1>3. PICK h : Follows(h, Scenes, N, s, step)
  <2> HIDE DEF step
  <2> QED BY <1>1, <1>2, RecursionExists
<1>4. h = [k \in 0 .. N |-> IF k = 0 THEN s ELSE step[k][h[k - 1]]]
  <2> HIDE DEF step
  <2> QED BY <1>1, <1>3, FollowsIs
<1>5. \A k \in 1 .. N : step[k][h[k - 1]] = MoveNode(h[k - 1], moved[ids[k]], qs[ids[k]])
  <2>1. \A k \in 1 .. N : h[k - 1] \in Scenes
    BY <1>1, <1>3 DEF Follows
  <2> HIDE DEF ids, moved
  <2> QED BY <2>1
<1>6. Rec(h)
  <2> HIDE DEF step, ids, moved
  <2>1. \A k \in 0 .. N : k # 0 => k \in 1 .. N
    BY <1>1
  <2> QED BY <1>4, <1>5, <2>1
<1>7. Rec(f)
  <2> HIDE DEF Rec
  <2> QED BY <1>6
<1>8. \A k \in 0 .. N : f[k] = IF k = 0 THEN s
                               ELSE MoveNode(f[k - 1], moved[ids[k]], qs[ids[k]])
  <2> HIDE DEF f
  <2> QED BY <1>7
<1>9. MoveAll(s, ps, qs) = f[N]
  BY <1>0, Zenon DEF MoveAll, AfterAll, f, Rec, N
<1> HIDE DEF f, ids, moved
<1>10. ASSUME NEW k \in 0 .. N - 1
       PROVE  f[k + 1] = MoveNode(f[k], GetNode(s, ps[k + 1]), qs[k + 1])
  <2>1. k + 1 \in 0 .. N /\ k + 1 \in 1 .. N /\ k + 1 # 0 /\ (k + 1) - 1 = k
    BY <1>1
  <2> QED BY <1>8, <1>12, <2>1
<1>11. f[0] = s
  BY <1>1, <1>8
<1> QED BY <1>9, <1>10, <1>11

\* No element is in the list twice.
NoneTwice(list) == \A i, j \in DOMAIN list : list[i] = list[j] => i = j

\* The nodes that were at ps are at qs, and no other has moved.
NodesMoved(s, t, ps, qs) ==
    \A j \in DOMAIN s.nodes :
        /\ \A i \in DOMAIN ps : s.nodes[j].point = ps[i] => t.nodes[j].point = qs[i]
        /\ s.nodes[j].point \notin ToSet(ps) => t.nodes[j].point = s.nodes[j].point

LEMMA MoveAllAre ==
    ASSUME NEW s \in Scenes, NEW ps \in Seq(Points), NEW qs \in Seq(Points), Len(qs) = Len(ps),
           NEW t, t = MoveAll(s, ps, qs)
    PROVE  /\ t \in Scenes /\ t.faces = s.faces /\ t.sound = s.sound
           /\ DOMAIN t.nodes = DOMAIN s.nodes
           /\ \A j \in DOMAIN s.nodes : t.nodes[j].id = s.nodes[j].id
           /\ NodesApart(s) /\ NoneTwice(ps) /\ ToSet(ps) \subseteq PointSet(s) =>
                NodesMoved(s, t, ps, qs)
<1> DEFINE N == Len(ps)
           Apt == NodesApart(s) /\ NoneTwice(ps) /\ ToSet(ps) \subseteq PointSet(s)
<1>1. N \in Nat /\ DOMAIN ps = 1 .. N /\ \A i \in 1 .. N : ps[i] \in Points /\ qs[i] \in Points
  OBVIOUS
<1>2. PICK f : /\ f[0] = s
               /\ \A k \in 0 .. N - 1 : f[k + 1] = MoveNode(f[k], GetNode(s, ps[k + 1]), qs[k + 1])
               /\ t = f[N]
  BY MoveAllFollow
<1> DEFINE Moved(k, u) ==
             \A j \in DOMAIN s.nodes :
                /\ \A i \in 1 .. k : s.nodes[j].point = ps[i] => u.nodes[j].point = qs[i]
                /\ s.nodes[j].point \notin FirstOf(ps, k) => u.nodes[j].point = s.nodes[j].point
           Is(k, u) ==
             /\ u \in Scenes /\ u.faces = s.faces /\ u.sound = s.sound
             /\ DOMAIN u.nodes = DOMAIN s.nodes
             /\ \A j \in DOMAIN s.nodes : u.nodes[j].id = s.nodes[j].id
             /\ Apt => Moved(k, u)
           Done == {k \in 0 .. N : Is(k, f[k])}
<1>3. 0 \in Done
  <2>1. 0 \in 0 .. N /\ 1 .. 0 = {}
    BY <1>1
  <2> QED BY <1>2, <2>1
<1>4. ASSUME NEW k \in 0 .. N - 1, k \in Done PROVE k + 1 \in Done
  <2> DEFINE u == f[k]
             v == f[k + 1]
             p == ps[k + 1]
             q == qs[k + 1]
             n == GetNode(s, p)
  <2>1. k + 1 \in 1 .. N /\ k + 1 \in 0 .. N /\ p \in Points /\ q \in Points
    BY <1>1
  <2>2. Is(k, u)
    BY <1>4
  <2>3. v = MoveNode(u, n, q)
    BY <1>2
  <2>4. FirstOf(ps, k + 1) = FirstOf(ps, k) \cup {p} /\ p \in ToSet(ps)
    BY <2>1, FirstOfIs
  <2>5. \A i \in 1 .. k + 1 : i \in 1 .. k \/ i = k + 1
    BY <1>1
  <2>6. \A i \in 1 .. k : i \in DOMAIN ps /\ i # k + 1 /\ k + 1 \in DOMAIN ps
    BY <1>1
  <2> HIDE DEF u, v
  <2>7. /\ v \in Scenes /\ v.faces = u.faces /\ v.sound = u.sound
        /\ DOMAIN v.nodes = DOMAIN u.nodes
        /\ \A i \in DOMAIN u.nodes :
              /\ v.nodes[i].id = u.nodes[i].id
              /\ v.nodes[i].point = IF u.nodes[i].id = n THEN q ELSE u.nodes[i].point
    <3> HIDE DEF n, q, p
    <3> QED BY <2>1, <2>2, <2>3, MoveNodeIs
  <2>8. ASSUME Apt PROVE Moved(k + 1, v)
    <3>1. PICK m \in DOMAIN s.nodes : s.nodes[m].point = p /\ n = s.nodes[m].id
      BY <2>4, <2>8, GetNodeIs
    <3>2. \A j \in DOMAIN s.nodes : s.nodes[j].id = n <=> s.nodes[j].point = p
      BY <2>8, <3>1 DEF NodesApart
    <3> HIDE DEF n
    <3> TAKE j \in DOMAIN s.nodes
    <3>3. v.nodes[j].point = IF s.nodes[j].point = p THEN q ELSE u.nodes[j].point
      BY <2>2, <2>7, <3>2
    <3>4. ASSUME NEW i \in 1 .. k + 1, s.nodes[j].point = ps[i] PROVE v.nodes[j].point = qs[i]
      <4>1. CASE i = k + 1
        BY <3>3, <3>4, <4>1
      <4>2. CASE i \in 1 .. k
        <5>1. ps[i] # p
          BY <2>6, <2>8, <4>2 DEF NoneTwice
        <5>2. u.nodes[j].point = qs[i]
          BY <2>2, <2>8, <3>4, <4>2
        <5> QED BY <3>3, <3>4, <5>1, <5>2
      <4> QED BY <2>5, <4>1, <4>2
    <3>5. ASSUME s.nodes[j].point \notin FirstOf(ps, k + 1)
          PROVE  v.nodes[j].point = s.nodes[j].point
      <4>1. s.nodes[j].point # p /\ s.nodes[j].point \notin FirstOf(ps, k)
        BY <2>4, <3>5
      <4> QED BY <2>2, <2>8, <3>3, <4>1
    <3> QED BY <3>4, <3>5
  <2>9. Is(k + 1, v)
    <3> HIDE DEF Moved, Apt
    <3> QED BY <2>2, <2>7, <2>8
  <2> HIDE DEF Is
  <2> QED BY <2>1, <2>9 DEF v
<1> HIDE DEF Done
<1>5. \A k \in 0 .. N : k \in Done
  <2>1. \A k \in 0 .. N - 1 : k \in Done => k + 1 \in Done
    BY <1>4
  <2> QED BY <1>1, <1>3, <2>1, SetInduction
<1>6. N \in Done
  BY <1>1, <1>5
<1>7. Is(N, t)
  BY <1>2, <1>6 DEF Done
<1>8. FirstOf(ps, N) = ToSet(ps)
  BY FirstOfIs
<1> QED BY <1>1, <1>7, <1>8 DEF NodesMoved

\* Where a point is carried when what was at ps is put at qs.
Carried(ps, qs, p) ==
    IF p \in ToSet(ps) THEN qs[CHOOSE i \in DOMAIN ps : ps[i] = p] ELSE p

\* The points ps of P can be put at qs and none is in the way; and back again.
Movable(ps, qs, P) ==
    /\ ps \in Seq(Points) /\ qs \in Seq(Points) /\ Len(qs) = Len(ps)
    /\ NoneTwice(ps) /\ NoneTwice(qs)
    /\ ToSet(ps) \subseteq P
    /\ \A q \in ToSet(qs) : q \in P => q \in ToSet(ps)

\* What is left where it is, and what has moved.
MovedSet(ps, qs, P) == (P \ ToSet(ps)) \cup ToSet(qs)

CarriedSet(ps, qs, P) == {Carried(ps, qs, p) : p \in P}

LEMMA CarriedIs ==
    ASSUME NEW ps, NEW qs, NoneTwice(ps)
    PROVE  /\ \A i \in DOMAIN ps : Carried(ps, qs, ps[i]) = qs[i]
           /\ \A p : p \notin ToSet(ps) => Carried(ps, qs, p) = p
<1>1. ASSUME NEW i \in DOMAIN ps PROVE Carried(ps, qs, ps[i]) = qs[i]
  <2> DEFINE j == CHOOSE j \in DOMAIN ps : ps[j] = ps[i]
  <2>1. j \in DOMAIN ps /\ ps[j] = ps[i]
    OBVIOUS
  <2>2. j = i
    <3> HIDE DEF j
    <3> QED BY <2>1 DEF NoneTwice
  <2>3. ps[i] \in ToSet(ps)
    BY DEF ToSet
  <2>4. Carried(ps, qs, ps[i]) = qs[j]
    BY <2>3 DEF Carried
  <2> HIDE DEF j
  <2> QED BY <2>2, <2>4
<1> QED BY <1>1 DEF Carried

\* What was carried is carried back.
CarriesBack(ps, qs, P) == \A p \in P : Carried(qs, ps, Carried(ps, qs, p)) = p

LEMMA CarriedBack ==
    ASSUME NEW P, NEW ps, NEW qs, Movable(ps, qs, P)
    PROVE  /\ Movable(qs, ps, MovedSet(ps, qs, P))
           /\ MovedSet(qs, ps, MovedSet(ps, qs, P)) = P
           /\ \A p \in P : Carried(ps, qs, p) \in MovedSet(ps, qs, P)
           /\ CarriesBack(ps, qs, P)
           /\ MovedSet(ps, qs, P) = CarriedSet(ps, qs, P)
<1>1. /\ ps \in Seq(Points) /\ qs \in Seq(Points) /\ Len(qs) = Len(ps)
      /\ NoneTwice(ps) /\ NoneTwice(qs) /\ ToSet(ps) \subseteq P
      /\ \A q \in ToSet(qs) : q \in P => q \in ToSet(ps)
  BY DEF Movable
<1>2. DOMAIN ps = DOMAIN qs
  BY <1>1
<1>3. /\ \A i \in DOMAIN ps : ps[i] \in ToSet(ps) /\ qs[i] \in ToSet(qs)
      /\ \A p \in ToSet(ps) : \E i \in DOMAIN ps : p = ps[i]
      /\ \A q \in ToSet(qs) : \E i \in DOMAIN ps : q = qs[i]
  BY <1>2 DEF ToSet
<1>4. /\ \A i \in DOMAIN ps : Carried(ps, qs, ps[i]) = qs[i] /\ Carried(qs, ps, qs[i]) = ps[i]
      /\ \A p : p \notin ToSet(ps) => Carried(ps, qs, p) = p
      /\ \A q : q \notin ToSet(qs) => Carried(qs, ps, q) = q
  BY <1>1, <1>2, CarriedIs
<1>5. Movable(qs, ps, MovedSet(ps, qs, P))
  BY <1>1 DEF Movable, MovedSet
<1>6. MovedSet(qs, ps, MovedSet(ps, qs, P)) = P
  BY <1>1 DEF MovedSet
<1>7. ASSUME NEW p \in P
      PROVE  Carried(ps, qs, p) \in MovedSet(ps, qs, P) /\ Carried(qs, ps, Carried(ps, qs, p)) = p
  <2>1. CASE p \in ToSet(ps)
    BY <1>3, <1>4, <2>1 DEF MovedSet
  <2>2. CASE p \notin ToSet(ps)
    BY <1>1, <1>4, <2>2 DEF MovedSet
  <2> QED BY <2>1, <2>2
<1>8. MovedSet(ps, qs, P) = {Carried(ps, qs, p) : p \in P}
  <2>1. ASSUME NEW q \in MovedSet(ps, qs, P) PROVE \E p \in P : q = Carried(ps, qs, p)
    <3>1. CASE q \in ToSet(qs)
      BY <1>1, <1>3, <1>4, <3>1
    <3>2. CASE q \in P \ ToSet(ps)
      BY <1>4, <3>2
    <3> QED BY <3>1, <3>2 DEF MovedSet
  <2> QED BY <1>7, <2>1
<1> QED BY <1>5, <1>6, <1>7, <1>8 DEF CarriesBack, CarriedSet

\* A line whose points are carried.
LineCarried(ps, qs, l) == [l EXCEPT !.from = Carried(ps, qs, l.from), !.to = Carried(ps, qs, l.to)]

\* Faces follow their nodes.
LEMMA MoveAllHangs ==
    ASSUME NEW s \in Scenes, NEW ps \in Seq(Points), NEW qs \in Seq(Points), Len(qs) = Len(ps),
           NEW t, t = MoveAll(s, ps, qs)
    PROVE  /\ t \in Scenes /\ t.faces = s.faces /\ t.sound = s.sound /\ Ids(t) = Ids(s)
           /\ s \in Hung => t \in Hung
           /\ Loopless(s) => Loopless(t)
<1>1. /\ t \in Scenes /\ t.faces = s.faces /\ t.sound = s.sound
      /\ DOMAIN t.nodes = DOMAIN s.nodes
      /\ \A j \in DOMAIN s.nodes : t.nodes[j].id = s.nodes[j].id
  BY MoveAllAre, SMTT(20)
<1>2. Ids(t) = Ids(s)
  BY <1>1 DEF Ids
<1>3. FaceSet(t) = FaceSet(s)
  BY <1>1 DEF FaceSet
<1> QED BY <1>1, <1>2, <1>3 DEF Hung, Hang, Loopless

\* Nodes that nobody stands in the way of stay apart when they are moved.
LEMMA MoveAllApart ==
    ASSUME NEW s \in Scenes, NodesApart(s), NEW ps, NEW qs, Movable(ps, qs, PointSet(s)),
           NEW t, t = MoveAll(s, ps, qs)
    PROVE  /\ NodesApart(t) /\ PointSet(t) = MovedSet(ps, qs, PointSet(s))
           /\ \A n \in Ids(s) : PointOf(t, n) = Carried(ps, qs, PointOf(s, n))
<1>1. /\ ps \in Seq(Points) /\ qs \in Seq(Points) /\ Len(qs) = Len(ps)
      /\ NoneTwice(ps) /\ NoneTwice(qs) /\ ToSet(ps) \subseteq PointSet(s)
      /\ \A q \in ToSet(qs) : q \in PointSet(s) => q \in ToSet(ps)
  BY DEF Movable
<1>2. /\ t \in Scenes /\ DOMAIN t.nodes = DOMAIN s.nodes
      /\ \A j \in DOMAIN s.nodes : t.nodes[j].id = s.nodes[j].id
      /\ NodesMoved(s, t, ps, qs)
  BY <1>1, MoveAllAre, SMTT(20)
<1>3. \A j \in DOMAIN s.nodes : t.nodes[j].point = Carried(ps, qs, s.nodes[j].point)
  <2> TAKE j \in DOMAIN s.nodes
  <2>1. CASE s.nodes[j].point \in ToSet(ps)
    <3>1. PICK i \in DOMAIN ps : s.nodes[j].point = ps[i]
      BY <2>1 DEF ToSet
    <3> QED BY <1>1, <1>2, <3>1, CarriedIs DEF NodesMoved
  <2>2. CASE s.nodes[j].point \notin ToSet(ps)
    BY <1>1, <1>2, <2>2, CarriedIs DEF NodesMoved
  <2> QED BY <2>1, <2>2
<1>4. \A p \in PointSet(s) : Carried(qs, ps, Carried(ps, qs, p)) = p
  BY CarriedBack DEF CarriesBack
<1>5. \A p, q \in PointSet(s) : Carried(ps, qs, p) = Carried(ps, qs, q) => p = q
  BY <1>4
<1>6. \A j \in DOMAIN s.nodes : s.nodes[j].point \in PointSet(s)
  BY DEF PointSet
<1>7. NodesApart(t)
  <2> SUFFICES ASSUME NEW i \in DOMAIN s.nodes, NEW j \in DOMAIN s.nodes,
                      t.nodes[i].id = t.nodes[j].id \/ t.nodes[i].point = t.nodes[j].point
               PROVE  i = j
    BY <1>2 DEF NodesApart
  <2>1. s.nodes[i].id = s.nodes[j].id \/ s.nodes[i].point = s.nodes[j].point
    BY <1>2, <1>3, <1>5, <1>6
  <2> QED BY <2>1 DEF NodesApart
<1>8. PointSet(t) = {Carried(ps, qs, p) : p \in PointSet(s)}
  BY <1>2, <1>3 DEF PointSet
<1>9. ASSUME NEW n \in Ids(s) PROVE PointOf(t, n) = Carried(ps, qs, PointOf(s, n))
  <2>1. PICK j \in DOMAIN s.nodes : s.nodes[j].id = n /\ PointOf(s, n) = s.nodes[j].point
    BY PointOfIs
  <2>2. Placed(t, n, t.nodes[j].point)
    BY <1>2, <2>1 DEF Placed
  <2>3. PointOf(t, n) = t.nodes[j].point
    BY <1>2, <1>7, <2>2, PlacedIs
  <2> QED BY <1>3, <2>1, <2>3
<1>10. PointSet(t) = MovedSet(ps, qs, PointSet(s))
  <2>1. MovedSet(ps, qs, PointSet(s)) = CarriedSet(ps, qs, PointSet(s))
    BY CarriedBack
  <2> QED BY <1>8, <2>1 DEF CarriedSet
<1> QED BY <1>7, <1>9, <1>10

\* What is drawn is carried along.
LEMMA MoveAllGood ==
    ASSUME NEW s, Good(s), NEW ps, NEW qs, Movable(ps, qs, PointSet(s)),
           NEW t, t = MoveAll(s, ps, qs)
    PROVE  /\ Good(t) /\ PointSet(t) = MovedSet(ps, qs, PointSet(s))
           /\ Lines(t) = {LineCarried(ps, qs, l) : l \in Lines(s)}
<1>1. s \in Scenes /\ s.sound /\ NodesApart(s) /\ Hang(s) /\ Loopless(s) /\ FacesApart(s)
  BY DEF Good
<1>2. ps \in Seq(Points) /\ qs \in Seq(Points) /\ Len(qs) = Len(ps)
  BY DEF Movable
<1>3. /\ t \in Scenes /\ t.faces = s.faces /\ t.sound = s.sound /\ Ids(t) = Ids(s)
      /\ t \in Hung /\ Loopless(t)
  <2>1. s \in Hung
    BY <1>1 DEF Hung
  <2>4. t \in Scenes 
    BY <1>1, <1>2, MoveAllHangs
  <2>5. t.faces = s.faces 
    BY <1>1, <1>2, MoveAllHangs
  <2>6. t.sound = s.sound 
    BY <1>1, <1>2, MoveAllHangs
  <2>7. Ids(t) = Ids(s)
    BY <1>1, <1>2, MoveAllHangs
  <2>2. t \in Scenes /\ t.faces = s.faces /\ t.sound = s.sound /\ Ids(t) = Ids(s)
    BY <2>4, <2>5, <2>6, <2>7
  <2>3. t \in Hung /\ Loopless(t)
    BY <1>1, <1>2, <2>1, MoveAllHangs
  <2> QED BY <2>2, <2>3
<1>4. /\ NodesApart(t) /\ PointSet(t) = MovedSet(ps, qs, PointSet(s))
      /\ \A n \in Ids(s) : PointOf(t, n) = Carried(ps, qs, PointOf(s, n))
  BY <1>1, MoveAllApart
<1>5. Good(t)
  <2>1. Hang(t)
    BY <1>1, <1>3 DEF Hung
  <2>2. FacesApart(t)
    BY <1>1, <1>3 DEF FacesApart
  <2> QED BY <1>1, <1>3, <1>4, <2>1, <2>2 DEF Good
<1>6. FaceSet(t) = FaceSet(s)
  BY <1>3 DEF FaceSet
<1>7. ASSUME NEW f \in FaceSet(s) PROVE LineOf(t, f) = LineCarried(ps, qs, LineOf(s, f))
  <2> DEFINE l == LineOf(s, f)
             m == LineCarried(ps, qs, l)
  <2>1. /\ l \in LineRecs /\ l.from = PointOf(s, f.from) /\ l.to = PointOf(s, f.to)
        /\ l.angle = f.angle /\ l.segments = f.segments
    BY LineOfGood
  <2>2. f.from \in Ids(s) /\ f.to \in Ids(s)
    BY <1>1 DEF Hang
  <2>3. /\ LineOf(t, f) \in LineRecs
        /\ LineOf(t, f).from = PointOf(t, f.from) /\ LineOf(t, f).to = PointOf(t, f.to)
        /\ LineOf(t, f).angle = f.angle /\ LineOf(t, f).segments = f.segments
    BY <1>5, <1>6, LineOfGood
  <2>4. LineOf(t, f).from \in Points /\ LineOf(t, f).to \in Points
    BY <1>5, <1>6, LineOfGood
  <2> HIDE DEF l
  <2>5. Carried(ps, qs, l.from) \in Points /\ Carried(ps, qs, l.to) \in Points
    BY <1>4, <2>1, <2>2, <2>3, <2>4
  <2>6. /\ m \in LineRecs
        /\ m.from = Carried(ps, qs, l.from) /\ m.to = Carried(ps, qs, l.to)
        /\ m.angle = l.angle /\ m.segments = l.segments
    BY <2>1, <2>5 DEF LineCarried, LineRecs
  <2> HIDE DEF m
  <2>7. LineOf(t, f) = m
    BY <1>4, <2>1, <2>2, <2>3, <2>6, LineIsItsParts
  <2> QED BY <2>7 DEF m, l
<1> QED BY <1>4, <1>5, <1>6, <1>7 DEF Lines

\* A face is set from a line, or the assertion that its points have nodes fails.
FaceReplaced(s, t, i, f) ==
    /\ DOMAIN t.faces = DOMAIN s.faces
    /\ \A j \in DOMAIN s.faces : t.faces[j] = IF j = i THEN f ELSE s.faces[j]

\* What setting a face from a line on nodes of the scene makes.
FaceSetTo(s, t, i, l) ==
    /\ t \in Scenes /\ t.nodes = s.nodes /\ t.sound = s.sound
    /\ s \in Hung => t \in Hung
    /\ NodesApart(s) /\ Loopless(s) /\ l.from # l.to => Loopless(t)
    /\ FaceOn(s, l) \in FaceRecs
    /\ FaceReplaced(s, t, i, FaceOn(s, l))

LEMMA SetFaceOn ==
    ASSUME NEW s \in Scenes, NEW i \in DOMAIN s.faces, i # 0, NEW l \in LineRecs,
           l.from \in PointSet(s), l.to \in PointSet(s), NEW t, t = SetFace(s, i, l)
    PROVE  FaceSetTo(s, t, i, l)
<1> DEFINE from == GetNode(s, l.from)
           to == GetNode(s, l.to)
           f == FaceOn(s, l)
<1>1. /\ f \in FaceRecs /\ f.from = from /\ f.to = to
      /\ f.from \in Ids(s) /\ f.to \in Ids(s)
  BY FaceOfLine
<1>2. from \in Nat /\ to \in Nat
  BY <1>1, FacesAre DEF FaceRecs
<1>3. Null \notin {from, to}
  BY <1>2, NullIsNothing
<1>4. t = [s EXCEPT !.faces[i] = f]
  BY <1>3 DEF SetFace, FaceOn
<1> HIDE DEF f, from, to
<1> DEFINE faces == [s.faces EXCEPT ![i] = f]
<1>5. s.faces \in Seq(FaceRecs) /\ i \in DOMAIN s.faces
  BY SceneHas
<1>6. /\ faces \in Seq(FaceRecs) /\ DOMAIN faces = DOMAIN s.faces
      /\ \A j \in DOMAIN s.faces : faces[j] = IF j = i THEN f ELSE s.faces[j]
  <2> HIDE DEF FaceRecs
  <2> QED BY <1>1, <1>5
<1>7. t = [s EXCEPT !.faces = faces]
  BY <1>4 DEF Scenes
<1> HIDE DEF faces
<1>8. t \in Scenes /\ t.faces = faces /\ t.nodes = s.nodes /\ t.sound = s.sound
  BY <1>6, <1>7 DEF Scenes
<1>9. FaceSet(t) \subseteq FaceSet(s) \cup {f}
  BY <1>6, <1>8 DEF FaceSet
<1>10. ASSUME s \in Hung PROVE t \in Hung
  BY <1>1, <1>8, <1>9, <1>10, SameNodes DEF Hung, Hang
<1>11. ASSUME NodesApart(s), Loopless(s), l.from # l.to PROVE Loopless(t)
  <2>1. Placed(s, from, l.from) /\ Placed(s, to, l.to)
    BY <1>11, PlacedIs DEF from, to
  <2>2. PointOf(s, from) = l.from /\ PointOf(s, to) = l.to
    BY <1>11, <2>1, PlacedIs
  <2>3. f.from # f.to
    BY <1>1, <1>11, <2>2
  <2> QED BY <1>9, <1>11, <2>3 DEF Loopless
<1>12. FaceOn(s, l) = f
  BY DEF f
<1>13. FaceReplaced(s, t, i, FaceOn(s, l))
  BY <1>6, <1>8, <1>12 DEF FaceReplaced
<1> QED BY <1>1, <1>8, <1>10, <1>11, <1>12, <1>13 DEF FaceSetTo

LEMMA SetFaceIs ==
    ASSUME NEW s \in Scenes, NEW i \in {0} \cup DOMAIN s.faces, NEW l \in LineRecs,
           NEW t, t = SetFace(s, i, l)
    PROVE  /\ t \in Scenes /\ t.nodes = s.nodes
           /\ t.sound => s.sound
           /\ s \in Hung => t \in Hung
           /\ NodesApart(s) /\ Loopless(s) /\ l.from # l.to => Loopless(t)
           /\ i # 0 /\ l.from \in PointSet(s) /\ l.to \in PointSet(s) =>
                /\ t.sound = s.sound /\ FaceOn(s, l) \in FaceRecs
                /\ FaceReplaced(s, t, i, FaceOn(s, l))
<1> DEFINE from == GetNode(s, l.from)
           to == GetNode(s, l.to)
<1>1. CASE i = 0
  BY <1>1 DEF SetFace
<1>2. CASE i # 0 /\ (l.from \notin PointSet(s) \/ l.to \notin PointSet(s))
  <2>1. Null \in {from, to}
    BY <1>2, GetNodeIs
  <2>2. t = [s EXCEPT !.sound = FALSE]
    BY <1>2, <2>1 DEF SetFace
  <2>3. t \in Scenes /\ t.nodes = s.nodes /\ t.faces = s.faces /\ t.sound = FALSE
    BY <2>2 DEF Scenes
  <2> QED BY <1>2, <2>3 DEF Hung, Loopless, FaceSet
<1>3. CASE i # 0 /\ l.from \in PointSet(s) /\ l.to \in PointSet(s)
  <2>1. i \in DOMAIN s.faces
    BY <1>3
  <2>2. FaceSetTo(s, t, i, l)
    BY <1>3, <2>1, SetFaceOn
  <2> QED BY <2>2 DEF FaceSetTo
<1> QED BY <1>1, <1>2, <1>3

\* The face of a good scene stays on its nodes.
LEMMA SetFaceOfGood ==
    ASSUME NEW s, Good(s), NEW i \in DOMAIN s.faces, NEW m \in LineRecs,
           m.from \in PointSet(s), m.to \in PointSet(s), m.from # m.to,
           NEW t, t = SetFace(s, i, m)
    PROVE  /\ t \in Scenes /\ t.nodes = s.nodes /\ t.sound = s.sound
           /\ t \in Hung /\ Loopless(t)
           /\ FaceReplaced(s, t, i, FaceOn(s, m))
<1>1. s \in Scenes /\ s \in Hung /\ NodesApart(s) /\ Loopless(s)
  BY DEF Good, Hung
<1>2. i # 0
  BY <1>1, SceneHas
<1>3. FaceSetTo(s, t, i, m)
  BY <1>1, <1>2, SetFaceOn
<1> QED BY <1>1, <1>3 DEF FaceSetTo

\* Of a good scene one line becomes another; setting it once more changes nothing.
LEMMA SetFaceGood ==
    ASSUME NEW s, Good(s), NEW i \in DOMAIN s.faces, NEW m \in LineRecs,
           m.from \in PointSet(s), m.to \in PointSet(s), m.from # m.to,
           NEW l, l = LineOf(s, s.faces[i]),
           \A n \in Lines(s) \ {l} : Joined(n) # Joined(m), NEW t, t = SetFace(s, i, m)
    PROVE  /\ Good(t) /\ t.nodes = s.nodes /\ Lines(t) = (Lines(s) \ {l}) \cup {m}
           /\ SetFace(t, i, m) = t
<1> DEFINE f == FaceOn(s, m)
<1>1. s \in Scenes /\ s.sound /\ NodesApart(s) /\ Hang(s) /\ Loopless(s) /\ FacesApart(s)
  BY DEF Good
<1>2. i # 0 /\ i \in {0} \cup DOMAIN s.faces
  BY <1>1, SceneHas
<1>3. /\ t \in Scenes /\ t.nodes = s.nodes /\ t.sound = s.sound
      /\ t \in Hung /\ Loopless(t)
      /\ DOMAIN t.faces = DOMAIN s.faces
      /\ \A j \in DOMAIN s.faces : t.faces[j] = IF j = i THEN f ELSE s.faces[j]
  <2> HIDE DEF f
  <2>1. /\ t \in Scenes /\ t.nodes = s.nodes /\ t.sound = s.sound
        /\ t \in Hung /\ Loopless(t)
        /\ FaceReplaced(s, t, i, FaceOn(s, m))
    BY SetFaceOfGood
  <2> QED BY <2>1 DEF FaceReplaced, f
<1>4. /\ f \in FaceRecs /\ f.from = GetNode(s, m.from) /\ f.to = GetNode(s, m.to)
      /\ f.angle = m.angle /\ f.segments = m.segments
      /\ f.from \in Ids(s) /\ f.to \in Ids(s)
  BY <1>1, FaceOfLine
<1>5. NodesApart(t) /\ Hang(t)
  BY <1>1, <1>3, SameNodes DEF Hung
<1>6. PointOf(s, f.from) = m.from /\ PointOf(s, f.to) = m.to
  <2>1. Placed(s, f.from, m.from) /\ Placed(s, f.to, m.to)
    BY <1>1, <1>4, PlacedIs
  <2> QED BY <1>1, <2>1, PlacedIs
<1>7. LineOf(s, f) = m
  <2>1. /\ LineOf(s, f) \in LineRecs
        /\ LineOf(s, f).from = m.from /\ LineOf(s, f).to = m.to
        /\ LineOf(s, f).angle = m.angle /\ LineOf(s, f).segments = m.segments
    BY <1>1, <1>4, <1>6, LineIs
  <2> QED BY <2>1, LineIsItsParts
<1>11. t.faces = [t.faces EXCEPT ![i] = f] /\ FaceOn(t, m) = f
  <2>1. t.faces[i] = f
    BY <1>3
  <2>2. \A p : GetNode(t, p) = GetNode(s, p)
    BY <1>3, SameNodes
  <2>3. t.faces \in Seq(FaceRecs)
    BY <1>3, SceneHas
  <2>4. t.faces = [t.faces EXCEPT ![i] = t.faces[i]]
    <3> HIDE DEF FaceRecs
    <3> QED BY <2>3
  <2> QED BY <2>1, <2>2, <2>4 DEF FaceOn
<1> HIDE DEF f
<1>8. ASSUME NEW j \in DOMAIN s.faces, j # i
      PROVE  /\ LineOf(s, s.faces[j]) \in Lines(s) \ {l}
             /\ {s.faces[j].from, s.faces[j].to} # {f.from, f.to}
  <2> DEFINE g == s.faces[j]
  <2>1. g \in FaceSet(s) /\ s.faces[i] \in FaceSet(s)
    BY DEF FaceSet
  <2>2. g # s.faces[i]
    BY <1>1, <1>8 DEF FacesApart
  <2>3. LineOf(s, g) \in Lines(s) /\ LineOf(s, g) # l
    BY <2>1, <2>2, JoinedTellsFace, LineOfGood
  <2>4. Joined(LineOf(s, g)) # Joined(m)
    BY <2>3
  <2>5. Joined(LineOf(s, g)) = {PointOf(s, g.from), PointOf(s, g.to)}
    BY <2>1, LineOfGood DEF Joined
  <2>6. Joined(m) = {PointOf(s, f.from), PointOf(s, f.to)}
    BY <1>6 DEF Joined
  <2>7. ASSUME {g.from, g.to} = {f.from, f.to} PROVE FALSE
    <3>1. \/ g.from = f.from /\ g.to = f.to
          \/ g.from = f.to /\ g.to = f.from
      BY <2>7
    <3> QED BY <2>4, <2>5, <2>6, <3>1
  <2> QED BY <2>3, <2>7
<1>9. FacesApart(t)
  <2> SUFFICES ASSUME NEW j \in DOMAIN s.faces, NEW k \in DOMAIN s.faces, j # k,
                      {t.faces[j].from, t.faces[j].to} = {t.faces[k].from, t.faces[k].to}
               PROVE  FALSE
    BY <1>3 DEF FacesApart
  <2>1. CASE j # i /\ k # i
    BY <1>1, <1>3, <2>1 DEF FacesApart
  <2>2. CASE j = i
    BY <1>3, <1>8, <2>2
  <2>3. CASE k = i
    BY <1>3, <1>8, <2>3
  <2> QED BY <2>1, <2>2, <2>3
<1>10. Lines(t) = (Lines(s) \ {l}) \cup {m}
  <2>1. \A g : LineOf(t, g) = LineOf(s, g)
    BY <1>3, SameNodes
  <2>2. ASSUME NEW n \in Lines(t) PROVE n \in (Lines(s) \ {l}) \cup {m}
    <3>1. PICK j \in DOMAIN s.faces : n = LineOf(s, t.faces[j])
      BY <1>3, <2>1 DEF Lines, FaceSet
    <3>2. CASE j = i
      BY <1>3, <1>7, <3>1, <3>2
    <3>3. CASE j # i
      BY <1>3, <1>8, <3>1, <3>3
    <3> QED BY <3>2, <3>3
  <2>3. ASSUME NEW n \in Lines(s) \ {l} PROVE n \in Lines(t)
    <3>1. PICK j \in DOMAIN s.faces : n = LineOf(s, s.faces[j])
      BY DEF Lines, FaceSet
    <3>2. j # i
      BY <3>1
    <3>3. n = LineOf(t, t.faces[j]) /\ t.faces[j] \in FaceSet(t)
      BY <1>3, <2>1, <3>1, <3>2 DEF FaceSet
    <3> QED BY <3>3 DEF Lines
  <2>4. m \in Lines(t)
    <3>1. m = LineOf(t, t.faces[i]) /\ t.faces[i] \in FaceSet(t)
      BY <1>3, <1>7, <2>1 DEF FaceSet
    <3> QED BY <3>1 DEF Lines
  <2> QED BY <2>2, <2>3, <2>4
<1>12. SetFace(t, i, m) = t
  <2>1. m.from \in PointSet(t) /\ m.to \in PointSet(t)
    BY <1>3, SameNodes
  <2>2. GetNode(t, m.from) # Null /\ GetNode(t, m.to) # Null
    BY <1>3, <2>1, GetNodeIs, SceneHas, NullIsNothing
  <2>3. SetFace(t, i, m) = [t EXCEPT !.faces[i] = f]
    BY <1>2, <1>11, <2>2 DEF SetFace, FaceOn
  <2>4. [t EXCEPT !.faces[i] = f] = [t EXCEPT !.faces = [t.faces EXCEPT ![i] = f]]
    BY <1>3 DEF Scenes
  <2>5. [t EXCEPT !.faces = t.faces] = t
    BY <1>3 DEF Scenes
  <2> QED BY <1>11, <2>3, <2>4, <2>5
<1> QED BY <1>1, <1>3, <1>5, <1>9, <1>10, <1>12 DEF Good

\* The faces of a node, as the command that removes it records them.
Plainly(l) == [l EXCEPT !.segments = DefaultSegments]
Records(s, n) == {Plainly(LineOf(s, f)) : f \in {g \in FaceSet(s) : n \in {g.from, g.to}}}

\* What a list holds after another was put behind it.
LEMMA ToSetOfConcat ==
    ASSUME NEW T, NEW a \in Seq(T), NEW b \in Seq(T)
    PROVE  a \o b \in Seq(T) /\ ToSet(a \o b) = ToSet(a) \cup ToSet(b)
<1> DEFINE c == a \o b
           m == Len(a)
           n == Len(b)
<1>1. /\ m \in Nat /\ n \in Nat /\ DOMAIN a = 1 .. m /\ DOMAIN b = 1 .. n
      /\ c \in Seq(T) /\ DOMAIN c = 1 .. m + n
      /\ \A i \in 1 .. m + n : c[i] = IF i <= m THEN a[i] ELSE b[i - m]
  BY ConcatProperties
<1> HIDE DEF c, m, n
<1>2. ASSUME NEW x \in ToSet(c) PROVE x \in ToSet(a) \cup ToSet(b)
  <2>1. PICK i \in 1 .. m + n : x = c[i]
    BY <1>1 DEF ToSet
  <2>2. CASE i <= m
    <3>1. i \in DOMAIN a /\ x = a[i]
      BY <1>1, <2>1, <2>2
    <3> QED BY <3>1 DEF ToSet
  <2>3. CASE ~ (i <= m)
    <3>1. i - m \in DOMAIN b /\ x = b[i - m]
      BY <1>1, <2>1, <2>3
    <3> QED BY <3>1 DEF ToSet
  <2> QED BY <2>2, <2>3
<1>3. ASSUME NEW x \in ToSet(a) PROVE x \in ToSet(c)
  <2>1. PICK i \in 1 .. m : x = a[i]
    BY <1>1 DEF ToSet
  <2>2. i \in DOMAIN c /\ x = c[i]
    BY <1>1, <2>1
  <2> QED BY <2>2 DEF ToSet
<1>4. ASSUME NEW x \in ToSet(b) PROVE x \in ToSet(c)
  <2>1. PICK i \in 1 .. n : x = b[i]
    BY <1>1 DEF ToSet
  <2>2. i + m \in 1 .. m + n /\ ~ (i + m <= m) /\ (i + m) - m = i
    BY <1>1
  <2>3. i + m \in DOMAIN c /\ x = c[i + m]
    BY <1>1, <2>1, <2>2
  <2> QED BY <2>3 DEF ToSet
<1> QED BY <1>1, <1>2, <1>3, <1>4 DEF c

\* The lines that are recorded for a node.
LEMMA RecordsAre ==
    ASSUME NEW s \in Scenes, NEW n, NEW loose, loose = Touching(s, n),
           NEW lines, lines = [i \in DOMAIN loose |->
                                  [LineOf(s, loose[i]) EXCEPT !.segments = DefaultSegments]]
    PROVE  lines \in Seq(LineRecs) /\ ToSet(lines) = Records(s, n)
<1> DEFINE S == OnNode(s, n)
<1>1. s.faces \in Seq(FaceRecs) /\ S \subseteq DOMAIN s.faces
  BY SceneHas DEF OnNode
<1>2. loose \in Seq(FaceRecs) /\ ToSet(loose) = {s.faces[i] : i \in S}
  <2> HIDE DEF FaceRecs, S
  <2> QED BY <1>1, ThoseAre DEF Touching, S
<1>3. ToSet(loose) = {g \in FaceSet(s) : n \in {g.from, g.to}}
  BY <1>2 DEF OnNode, FaceSet
<1>4. DOMAIN loose = 1 .. Len(loose) /\ Len(loose) \in Nat
      /\ \A i \in DOMAIN loose : loose[i] \in FaceRecs /\ loose[i] \in ToSet(loose)
  <2> HIDE DEF FaceRecs
  <2> QED BY <1>2 DEF ToSet
<1>5. \A f \in FaceRecs : Plainly(LineOf(s, f)) \in LineRecs
  <2> TAKE f \in FaceRecs
  <2>1. LineOf(s, f) \in LineRecs
    BY LineIs
  <2> QED BY <2>1, FacesAssumption DEF Plainly, LineRecs
<1>6. lines = [i \in DOMAIN loose |-> Plainly(LineOf(s, loose[i]))]
  BY DEF Plainly
<1>7. lines \in [1 .. Len(loose) -> LineRecs]
  BY <1>4, <1>5, <1>6
<1>8. lines \in Seq(LineRecs)
  BY <1>4, <1>7, FunctionIsSequence
<1>9. DOMAIN lines = DOMAIN loose /\ \A i \in DOMAIN lines : lines[i] = Plainly(LineOf(s, loose[i]))
  BY <1>6
<1>10. ToSet(lines) = {Plainly(LineOf(s, f)) : f \in ToSet(loose)}
  BY <1>9 DEF ToSet
<1> QED BY <1>3, <1>8, <1>10 DEF Records

\* The faces of a node are cut off, then the node goes; no face was on it any more.
CutOff(s, n) == [s EXCEPT !.faces = Those(s.faces, DOMAIN s.faces \ OnNode(s, n))]

LEMMA CutIs ==
    ASSUME NEW s \in Scenes, NEW n, n # Null, NEW t, t = RemoveNode(CutOff(s, n), n)
    PROVE  /\ t \in Scenes /\ t.sound = s.sound
           /\ FaceSet(t) = {f \in FaceSet(s) : n \notin {f.from, f.to}}
           /\ Ids(t) = Ids(s) \ {n}
           /\ NodesApart(s) => NodesApart(t)
           /\ FacesApart(s) => FacesApart(t)
           /\ \A m, q : Placed(t, m, q) <=> Placed(s, m, q) /\ m # n
<1> DEFINE S == DOMAIN s.faces \ OnNode(s, n)
           faces == Those(s.faces, S)
           cut == CutOff(s, n)
<1>1. s.faces \in Seq(FaceRecs) /\ S \subseteq DOMAIN s.faces
  BY SceneHas
<1>2. /\ faces \in Seq(FaceRecs) /\ ToSet(faces) = {s.faces[i] : i \in S}
      /\ \A i, j \in DOMAIN faces : i # j =>
            \E k, l \in S : k # l /\ faces[i] = s.faces[k] /\ faces[j] = s.faces[l]
  <2> HIDE DEF FaceRecs, S
  <2>1. faces \in Seq(FaceRecs)
    BY <1>1, ThoseAre
  <2>2. ToSet(faces) = {s.faces[i] : i \in S}
    BY <1>1, ThoseAre
  <2>3. PickedFrom(faces, s.faces, S)
    BY <1>1, ThoseAre
  <2> QED BY <2>1, <2>2, <2>3 DEF PickedFrom
<1>3. \A i \in DOMAIN s.faces : i \in S <=> n \notin {s.faces[i].from, s.faces[i].to}
  BY DEF OnNode
<1>4. cut = [s EXCEPT !.faces = faces] /\ t = RemoveNode(cut, n)
  BY DEF CutOff
<1> HIDE DEF S, faces, cut
<1>5. cut \in Scenes /\ cut.faces = faces /\ cut.nodes = s.nodes /\ cut.sound = s.sound
  BY <1>2, <1>4 DEF Scenes
<1>6. FaceSet(cut) = {f \in FaceSet(s) : n \notin {f.from, f.to}}
  <2>1. FaceSet(cut) = {s.faces[i] : i \in S}
    <3>1. FaceSet(cut) = ToSet(faces)
      BY <1>5 DEF FaceSet, ToSet
    <3> QED BY <1>2, <3>1
  <2>2. \A i \in S : i \in DOMAIN s.faces
    BY <1>1
  <2> QED BY <1>3, <2>1, <2>2 DEF FaceSet
<1>7. OnNode(cut, n) = {}
  <2>1. \A i \in DOMAIN cut.faces : cut.faces[i] \in FaceSet(cut)
    BY DEF FaceSet
  <2>2. \A i \in DOMAIN cut.faces : n \notin {cut.faces[i].from, cut.faces[i].to}
    BY <1>6, <2>1
  <2> QED BY <2>2 DEF OnNode
<1>8. /\ Ids(cut) = Ids(s) /\ (NodesApart(s) => NodesApart(cut))
      /\ \A m, q : Placed(cut, m, q) <=> Placed(s, m, q)
  BY <1>5, SameNodes DEF Placed
<1>9. /\ t \in Scenes /\ t.faces = cut.faces
      /\ NodesApart(cut) => NodesApart(t)
      /\ t.sound <=> cut.sound /\ OnNode(cut, n) = {}
      /\ Ids(t) = Ids(cut) \ {n}
      /\ \A m, q : Placed(t, m, q) <=> Placed(cut, m, q) /\ m # n
  <2>7. cut \in Scenes /\ t = RemoveNode(cut, n)
    BY <1>4, <1>5
  <2>1. t \in Scenes
    BY <2>7, RemoveNodeIs
  <2>6. t.faces = cut.faces
    BY <2>7, RemoveNodeIs
  <2>2. NodesApart(cut) => NodesApart(t)
    BY <2>7, RemoveNodeIs
  <2>3. t.sound <=> cut.sound /\ OnNode(cut, n) = {}
    BY <2>7, RemoveNodeIs, Zenon
  <2>4. Ids(t) = Ids(cut) \ {n}
    BY <2>7, RemoveNodeIs
  <2>5. \A m, q : Placed(t, m, q) <=> Placed(cut, m, q) /\ m # n
    BY <2>7, RemoveNodeIs
  <2> QED BY <2>1, <2>2, <2>3, <2>4, <2>5, <2>6
<1>10. t.sound = s.sound
  <2>1. t.sound \in BOOLEAN /\ s.sound \in BOOLEAN
    BY <1>9, SceneHas
  <2> QED BY <1>5, <1>7, <1>9, <2>1
<1>11. ASSUME FacesApart(s) PROVE FacesApart(t)
  <2> SUFFICES ASSUME NEW i \in DOMAIN faces, NEW j \in DOMAIN faces, i # j,
                      {faces[i].from, faces[i].to} = {faces[j].from, faces[j].to}
               PROVE  FALSE
    <3>1. t.faces = faces
      BY <1>5, <1>9
    <3> QED BY <3>1 DEF FacesApart
  <2>1. PICK k \in S, l \in S : k # l /\ faces[i] = s.faces[k] /\ faces[j] = s.faces[l]
    BY <1>2
  <2>2. k \in DOMAIN s.faces /\ l \in DOMAIN s.faces
    BY <1>1
  <2> QED BY <1>11, <2>1, <2>2 DEF FacesApart
<1>12. FaceSet(t) = FaceSet(cut)
  BY <1>9 DEF FaceSet
<1> QED BY <1>6, <1>8, <1>9, <1>10, <1>11, <1>12

\* What DetachAll goes through.
Detached == [scene : Scenes, lines : Seq(LineRecs)]

\* The node at a point is detached, or there is none.
LEMMA DetachIs ==
    ASSUME NEW a \in Detached, NEW p, NEW b, b = Detach(a, p), NEW n, n = GetNode(a.scene, p)
    PROVE  /\ b \in Detached
           /\ n = Null => b = a
           /\ n # Null =>
                /\ b.scene.sound = a.scene.sound
                /\ FaceSet(b.scene) = {f \in FaceSet(a.scene) : n \notin {f.from, f.to}}
                /\ Ids(b.scene) = Ids(a.scene) \ {n}
                /\ NodesApart(a.scene) => NodesApart(b.scene)
                /\ FacesApart(a.scene) => FacesApart(b.scene)
                /\ \A m, q : Placed(b.scene, m, q) <=> Placed(a.scene, m, q) /\ m # n
                /\ ToSet(b.lines) = ToSet(a.lines) \cup Records(a.scene, n)
<1>1. a.scene \in Scenes /\ a.lines \in Seq(LineRecs)
  BY DEF Detached
<1>2. CASE n = Null
  BY <1>2 DEF Detach
<1>3. CASE n # Null
  <2> DEFINE s == a.scene
             loose == Touching(s, n)
             lines == [i \in DOMAIN loose |->
                          [LineOf(s, loose[i]) EXCEPT !.segments = DefaultSegments]]
             cut == [s EXCEPT !.faces = Those(@, DOMAIN @ \ OnNode(s, n))]
             t == RemoveNode(cut, n)
  <2>1. b = [scene |-> t, lines |-> a.lines \o lines]
    BY <1>3 DEF Detach
  <2>2. lines \in Seq(LineRecs) /\ ToSet(lines) = Records(s, n)
    <3> HIDE DEF s
    <3> QED BY <1>1, RecordsAre DEF s
  <2>3. /\ t \in Scenes /\ t.sound = s.sound
        /\ FaceSet(t) = {f \in FaceSet(s) : n \notin {f.from, f.to}}
        /\ Ids(t) = Ids(s) \ {n}
        /\ NodesApart(s) => NodesApart(t)
        /\ FacesApart(s) => FacesApart(t)
        /\ \A m, q : Placed(t, m, q) <=> Placed(s, m, q) /\ m # n
    <3>1. t = RemoveNode(CutOff(s, n), n) /\ s \in Scenes
      BY <1>1 DEF CutOff
    <3> HIDE DEF s, t
    <3>2. t \in Scenes /\ t.sound = s.sound
      BY <1>3, <3>1, CutIs
    <3>3. FaceSet(t) = {f \in FaceSet(s) : n \notin {f.from, f.to}}
      BY <1>3, <3>1, CutIs
    <3>4. Ids(t) = Ids(s) \ {n}
      BY <1>3, <3>1, CutIs
    <3>5. (NodesApart(s) => NodesApart(t)) /\ (FacesApart(s) => FacesApart(t))
      BY <1>3, <3>1, CutIs
    <3>6. \A m, q : Placed(t, m, q) <=> Placed(s, m, q) /\ m # n
      BY <1>3, <3>1, CutIs
    <3> QED BY <3>2, <3>3, <3>4, <3>5, <3>6
  <2> HIDE DEF lines, t
  <2>4. a.lines \o lines \in Seq(LineRecs) /\ ToSet(a.lines \o lines) = ToSet(a.lines) \cup ToSet(lines)
    <3> HIDE DEF LineRecs
    <3> QED BY <1>1, <2>2, ToSetOfConcat
  <2>5. b \in Detached /\ b.scene = t /\ ToSet(b.lines) = ToSet(a.lines) \cup Records(s, n)
    BY <2>1, <2>2, <2>3, <2>4 DEF Detached
  <2> QED BY <1>3, <2>3, <2>5
<1> QED BY <1>2, <1>3

\* Scenes in which nodes are told apart and faces join two of them.
Sane(s) ==
    /\ s \in Scenes /\ s.sound
    /\ NodesApart(s) /\ Hang(s) /\ Loopless(s)

AllProper(lines) == \A l \in ToSet(lines) : l.from # l.to

LEMMA GoodIsSane ==
    ASSUME NEW s
    PROVE  Good(s) <=> Sane(s) /\ FacesApart(s)
BY DEF Good, Sane

\* The line of a face of a sane scene.
LEMMA LineOfSane ==
    ASSUME NEW s, Sane(s), NEW f \in FaceSet(s)
    PROVE  /\ f \in FaceRecs /\ f.from \in Ids(s) /\ f.to \in Ids(s)
           /\ LineOf(s, f) \in LineRecs
           /\ LineOf(s, f).from = PointOf(s, f.from) /\ LineOf(s, f).to = PointOf(s, f.to)
           /\ LineOf(s, f).from \in PointSet(s) /\ LineOf(s, f).to \in PointSet(s)
           /\ LineOf(s, f).from # LineOf(s, f).to
<1>1. s \in Scenes /\ NodesApart(s) /\ f.from \in Ids(s) /\ f.to \in Ids(s) /\ f.from # f.to
  BY DEF Sane, Hang, Loopless
<1>2. f \in FaceRecs
  BY <1>1, FacesAre
<1>3. /\ LineOf(s, f) \in LineRecs
      /\ LineOf(s, f).from = PointOf(s, f.from) /\ LineOf(s, f).to = PointOf(s, f.to)
  BY <1>1, <1>2, LineIs
<1>4. Placed(s, f.from, PointOf(s, f.from)) /\ Placed(s, f.to, PointOf(s, f.to))
  BY <1>1, PlacedIs
<1>5. PointOf(s, f.from) \in PointSet(s) /\ PointOf(s, f.to) \in PointSet(s)
  BY <1>1, <1>4, PlacedIs
<1>6. PointOf(s, f.from) # PointOf(s, f.to)
  BY <1>1, PointTellsNode
<1> QED BY <1>1, <1>2, <1>3, <1>5, <1>6

\* A sane scene stays sane when a node is detached, and records proper lines.
LEMMA DetachSane ==
    ASSUME NEW a \in Detached, Sane(a.scene), NEW p, NEW b, b = Detach(a, p)
    PROVE  /\ b \in Detached /\ Sane(b.scene) /\ PointSet(b.scene) = PointSet(a.scene) \ {p}
           /\ FaceSet(b.scene) \subseteq FaceSet(a.scene)
           /\ \A f \in FaceSet(b.scene) : LineOf(b.scene, f) = LineOf(a.scene, f)
           /\ AllProper(a.lines) => AllProper(b.lines)
<1> DEFINE s == a.scene
           t == b.scene
           n == GetNode(s, p)
<1>0. b \in Detached /\ s \in Scenes /\ t \in Scenes
  <2>1. b \in Detached
    BY DetachIs
  <2> QED BY <2>1 DEF Detached
<1>1. CASE n = Null
  <2>1. b = a
    BY <1>1, DetachIs
  <2>2. p \notin PointSet(s)
    <3> SUFFICES ASSUME p \in PointSet(s) PROVE FALSE
      OBVIOUS
    <3>1. n \in Nat
      BY <1>0, PlacedIs DEF Sane
    <3> QED BY <1>1, <3>1, NullIsNothing
  <2> QED BY <1>0, <2>1, <2>2
<1>2. CASE n # Null
  <2>1. /\ t.sound = s.sound
        /\ FaceSet(t) = {f \in FaceSet(s) : n \notin {f.from, f.to}}
        /\ Ids(t) = Ids(s) \ {n}
        /\ NodesApart(s) => NodesApart(t)
    BY <1>2, DetachIs
  <2>2. \A m, q : Placed(t, m, q) <=> Placed(s, m, q) /\ m # n
    BY <1>2, DetachIs
  <2>3. ToSet(b.lines) = ToSet(a.lines) \cup Records(s, n)
    BY <1>2, DetachIs
  <2> HIDE DEF s, t
  <2>4. s \in Scenes /\ s.sound /\ NodesApart(s) /\ Hang(s) /\ Loopless(s)
    BY DEF Sane, s
  <2>5. Sane(t)
    BY <1>0, <2>1, <2>4 DEF Sane, Hang, Loopless
  <2>6. p \in PointSet(s)
    BY <1>2, <2>4, GetNodeIs
  <2>7. Placed(s, n, p)
    BY <2>4, <2>6, PlacedIs
  <2>8. \A m, q : Placed(s, m, q) => PointOf(s, m) = q /\ GetNode(s, q) = m
    BY <2>4, PlacedIs
  <2>9. PointSet(t) = PointSet(s) \ {p}
    <3>1. \A q : q \in PointSet(t) <=> \E m : Placed(t, m, q)
      BY PlacedSets
    <3>2. \A q : q \in PointSet(s) <=> \E m : Placed(s, m, q)
      BY PlacedSets
    <3>3. \A m, q : Placed(s, m, q) => (m = n <=> q = p)
      <4> HIDE DEF n
      <4> QED BY <2>7, <2>8
    <3>4. \A q : q \in PointSet(t) <=> q \in PointSet(s) /\ q # p
      BY <2>2, <3>1, <3>2, <3>3
    <3> QED BY <3>4
  <2>10. ASSUME NEW f \in FaceSet(t) PROVE LineOf(t, f) = LineOf(s, f)
    <3>1. f \in FaceSet(s) /\ f.from \in Ids(t) /\ f.to \in Ids(t)
      BY <2>1, <2>5 DEF Sane, Hang
    <3>2. \A m \in Ids(t) : PointOf(t, m) = PointOf(s, m)
      <4> TAKE m \in Ids(t)
      <4>1. Placed(t, m, PointOf(t, m))
        BY <2>5, PlacedIs DEF Sane
      <4>2. Placed(s, m, PointOf(t, m))
        BY <2>2, <4>1
      <4> QED BY <2>8, <4>2
    <3> QED BY <3>1, <3>2 DEF LineOf
  <2>11. \A l \in Records(s, n) : l.from # l.to
    <3> SUFFICES ASSUME NEW f \in FaceSet(s)
                 PROVE  Plainly(LineOf(s, f)).from # Plainly(LineOf(s, f)).to
      BY DEF Records
    <3>1. LineOf(s, f) \in LineRecs /\ LineOf(s, f).from # LineOf(s, f).to
      <4>1. Sane(s)
        BY DEF s
      <4> QED BY <4>1, LineOfSane
    <3> QED BY <3>1 DEF Plainly, LineRecs
  <2>12. AllProper(a.lines) => AllProper(b.lines)
    BY <2>3, <2>11 DEF AllProper
  <2>13. FaceSet(t) \subseteq FaceSet(s)
    BY <2>1
  <2> QED BY <1>0, <2>5, <2>9, <2>10, <2>12, <2>13 DEF s, t
<1> QED BY <1>1, <1>2

\* Of a good scene exactly the lines of the node go, and they are recorded.
TouchingLines(L, P) == {l \in L : l.from \in P \/ l.to \in P}

LEMMA DetachGood ==
    ASSUME NEW a \in Detached, Good(a.scene), NEW p, NEW b, b = Detach(a, p)
    PROVE  /\ Good(b.scene)
           /\ Lines(b.scene) = Lines(a.scene) \ TouchingLines(Lines(a.scene), {p})
           /\ ToSet(b.lines) =
                ToSet(a.lines) \cup {Plainly(l) : l \in TouchingLines(Lines(a.scene), {p})}
<1> DEFINE s == a.scene
           t == b.scene
           n == GetNode(s, p)
<1>0. Sane(s) /\ FacesApart(s) /\ s \in Scenes /\ NodesApart(s)
  BY DEF Good, Sane
<1>1. Sane(t) /\ \A f \in FaceSet(t) : LineOf(t, f) = LineOf(s, f)
  BY <1>0, DetachSane
<1>2. CASE n = Null
  <2>1. b = a
    BY <1>2, DetachIs
  <2>2. p \notin PointSet(s)
    <3> SUFFICES ASSUME p \in PointSet(s) PROVE FALSE
      OBVIOUS
    <3>1. n \in Nat
      BY <1>0, PlacedIs
    <3> QED BY <1>2, <3>1, NullIsNothing
  <2>3. TouchingLines(Lines(s), {p}) = {}
    BY <2>2, LinesOfGood DEF TouchingLines
  <2> QED BY <2>1, <2>3
<1>3. CASE n # Null
  <2>1. /\ FaceSet(t) = {f \in FaceSet(s) : n \notin {f.from, f.to}}
        /\ FacesApart(s) => FacesApart(t)
    BY <1>3, DetachIs
  <2>2. ToSet(b.lines) = ToSet(a.lines) \cup Records(s, n)
    BY <1>3, DetachIs
  <2> HIDE DEF s, t
  <2>3. Good(t)
    BY <1>0, <1>1, <2>1, GoodIsSane
  <2>4. Placed(s, n, p)
    <3>1. p \in PointSet(s)
      BY <1>0, <1>3, GetNodeIs
    <3> QED BY <1>0, <3>1, PlacedIs
  <2>5. \A m, q : Placed(s, m, q) => PointOf(s, m) = q /\ GetNode(s, q) = m
    BY <1>0, PlacedIs
  <2>6. \A m, q : Placed(s, m, q) => (m = n <=> q = p)
    <3> HIDE DEF n
    <3> QED BY <2>4, <2>5
  <2>7. ASSUME NEW f \in FaceSet(s)
        PROVE  n \in {f.from, f.to} <=> LineOf(s, f).from = p \/ LineOf(s, f).to = p
    <3>1. Placed(s, f.from, LineOf(s, f).from) /\ Placed(s, f.to, LineOf(s, f).to)
      BY LineOfGood DEF s
    <3> HIDE DEF n
    <3> QED BY <2>6, <3>1
  <2> HIDE DEF n
  <2>8. Lines(t) = {LineOf(s, f) : f \in FaceSet(t)}
    BY <1>1 DEF Lines
  <2>9. Lines(t) = Lines(s) \ TouchingLines(Lines(s), {p})
    <3>1. ASSUME NEW l \in Lines(t) PROVE l \in Lines(s) \ TouchingLines(Lines(s), {p})
      <4>1. PICK f \in FaceSet(t) : l = LineOf(s, f)
        BY <2>8
      <4>2. f \in FaceSet(s) /\ n \notin {f.from, f.to}
        BY <2>1
      <4> QED BY <2>7, <4>1, <4>2 DEF Lines, TouchingLines
    <3>2. ASSUME NEW l \in Lines(s) \ TouchingLines(Lines(s), {p}) PROVE l \in Lines(t)
      <4>1. PICK f \in FaceSet(s) : l = LineOf(s, f)
        BY DEF Lines
      <4>2. n \notin {f.from, f.to}
        BY <2>7, <4>1 DEF TouchingLines
      <4> QED BY <2>1, <2>8, <4>1, <4>2
    <3> QED BY <3>1, <3>2
  <2>10. Records(s, n) = {Plainly(l) : l \in TouchingLines(Lines(s), {p})}
    <3>1. ASSUME NEW r \in Records(s, n)
          PROVE  \E l \in TouchingLines(Lines(s), {p}) : r = Plainly(l)
      <4>1. PICK f \in FaceSet(s) : n \in {f.from, f.to} /\ r = Plainly(LineOf(s, f))
        BY DEF Records
      <4> QED BY <2>7, <4>1 DEF Lines, TouchingLines
    <3>2. ASSUME NEW l \in TouchingLines(Lines(s), {p}) PROVE Plainly(l) \in Records(s, n)
      <4>1. PICK f \in FaceSet(s) : l = LineOf(s, f)
        BY DEF Lines, TouchingLines
      <4>2. n \in {f.from, f.to}
        BY <2>7, <4>1 DEF TouchingLines
      <4> QED BY <4>1, <4>2 DEF Records
    <3> QED BY <3>1, <3>2
  <2> QED BY <2>2, <2>3, <2>9, <2>10 DEF s, t
<1> QED BY <1>2, <1>3

\* Nodes are detached one after the other.
LEMMA DetachAllFollow ==
    ASSUME NEW s \in Scenes, NEW ps \in Seq(Points)
    PROVE  \E f : /\ f[0] = [scene |-> s, lines |-> <<>>]
                  /\ \A k \in 0 .. Len(ps) - 1 : f[k + 1] = Detach(f[k], ps[k + 1])
                  /\ DetachAll(s, ps) = f[Len(ps)]
<1> DEFINE N == Len(ps)
           step == [i \in 1 .. N |-> [x \in Detached |-> Detach(x, ps[i])]]
           Rec(g) == g = [k \in 0 .. N |->
               IF k = 0 THEN [scene |-> s, lines |-> <<>>] ELSE Detach(g[k - 1], ps[k])]
           f == CHOOSE g : Rec(g)
<1>1. N \in Nat /\ DOMAIN ps = 1 .. N /\ [scene |-> s, lines |-> <<>>] \in Detached
  BY DEF Detached
<1>2. StaysIn(Detached, N, step)
  BY <1>1, DetachIs DEF StaysIn
<1>3. PICK h : Follows(h, Detached, N, [scene |-> s, lines |-> <<>>], step)
  <2> HIDE DEF step
  <2> QED BY <1>1, <1>2, RecursionExists
<1>4. h = [k \in 0 .. N |-> IF k = 0 THEN [scene |-> s, lines |-> <<>>] ELSE step[k][h[k - 1]]]
  <2> HIDE DEF step
  <2> QED BY <1>1, <1>3, FollowsIs
<1>5. \A k \in 1 .. N : step[k][h[k - 1]] = Detach(h[k - 1], ps[k])
  <2>1. \A k \in 1 .. N : h[k - 1] \in Detached
    BY <1>1, <1>3 DEF Follows
  <2> QED BY <2>1
<1>6. Rec(h)
  <2> HIDE DEF step
  <2>1. \A k \in 0 .. N : k # 0 => k \in 1 .. N
    BY <1>1
  <2> QED BY <1>4, <1>5, <2>1
<1>7. Rec(f)
  <2> HIDE DEF Rec
  <2> QED BY <1>6
<1>8. \A k \in 0 .. N : f[k] = IF k = 0 THEN [scene |-> s, lines |-> <<>>] ELSE Detach(f[k - 1], ps[k])
  <2> HIDE DEF f
  <2> QED BY <1>7
<1>9. DetachAll(s, ps) = f[N]
  BY Zenon DEF DetachAll, AfterAll, f, Rec, N
<1> HIDE DEF f
<1>10. ASSUME NEW k \in 0 .. N - 1 PROVE f[k + 1] = Detach(f[k], ps[k + 1])
  <2>1. k + 1 \in 0 .. N /\ k + 1 # 0 /\ (k + 1) - 1 = k
    BY <1>1
  <2> QED BY <1>8, <2>1
<1>11. f[0] = [scene |-> s, lines |-> <<>>]
  BY <1>1, <1>8
<1> QED BY <1>9, <1>10, <1>11

\* Nodes and their faces go, and no pointer is left behind.
LEMMA DetachAllHung ==
    ASSUME NEW s \in Scenes, NEW ps \in Seq(Points), NEW t, t = DetachAll(s, ps)
    PROVE  /\ t \in Detached /\ t.scene.sound = s.sound
           /\ s \in Hung => t.scene \in Hung
<1> DEFINE N == Len(ps)
<1>1. N \in Nat /\ DOMAIN ps = 1 .. N
  OBVIOUS
<1>0. s \in Scenes
  OBVIOUS
<1>2. PICK f : /\ f[0] = [scene |-> s, lines |-> <<>>]
               /\ \A k \in 0 .. N - 1 : f[k + 1] = Detach(f[k], ps[k + 1])
               /\ t = f[N]
  BY <1>0, DetachAllFollow
<1> DEFINE Is(k, u) ==
             /\ u \in Detached /\ u.scene.sound = s.sound
             /\ s \in Hung => u.scene \in Hung
           Done == {k \in 0 .. N : Is(k, f[k])}
<1>3. 0 \in Done
  <2> DEFINE u == f[0]
  <2>1. u \in Detached /\ u.scene = s /\ ToSet(u.lines) = {}
    BY <1>0, <1>2 DEF Detached, ToSet
  <2>2. FirstOf(ps, 0) = {} /\ 0 \in 0 .. N
    BY <1>1, FirstOfIs
  <2> HIDE DEF u
  <2>3. Is(0, u)
    BY <2>1
  <2> HIDE DEF Is
  <2> QED BY <2>2, <2>3 DEF u
<1>4. ASSUME NEW k \in 0 .. N - 1, k \in Done PROVE k + 1 \in Done
  <2> DEFINE u == f[k]
             v == f[k + 1]
  <2>1. k + 1 \in 1 .. N /\ k + 1 \in 0 .. N
    BY <1>1
  <2>2. Is(k, u)
    BY <1>4
  <2>3. v = Detach(u, ps[k + 1])
    BY <1>2
  <2>4. FirstOf(ps, k + 1) = FirstOf(ps, k) \cup {ps[k + 1]}
    BY <2>1, FirstOfIs
  <2> HIDE DEF u, v
  <2>5. v \in Detached
    BY <2>2, <2>3, DetachIs
  <2> DEFINE n == GetNode(u.scene, ps[k + 1])
  <2>6. n = Null => v = u
    BY <2>2, <2>3, DetachIs
  <2>7. ASSUME n # Null
        PROVE  /\ v.scene.sound = u.scene.sound
               /\ FaceSet(v.scene) = {g \in FaceSet(u.scene) : n \notin {g.from, g.to}}
               /\ Ids(v.scene) = Ids(u.scene) \ {n}
    BY <2>2, <2>3, <2>7, DetachIs
  <2> HIDE DEF n
  <2>8. n # Null /\ u.scene \in Hung => v.scene \in Hung
    BY <2>5, <2>7 DEF Hung, Hang, Detached
  <2>9. Is(k + 1, v)
    BY <2>2, <2>5, <2>6, <2>7, <2>8
  <2> HIDE DEF Is
  <2> QED BY <2>1, <2>9 DEF v
<1> HIDE DEF Done
<1>5. \A k \in 0 .. N : k \in Done
  <2>1. \A k \in 0 .. N - 1 : k \in Done => k + 1 \in Done
    BY <1>4
  <2> QED BY <1>1, <1>3, <2>1, SetInduction
<1>6. N \in Done
  BY <1>1, <1>5
<1>7. Is(N, t)
  BY <1>2, <1>6 DEF Done
<1>8. FirstOf(ps, N) = ToSet(ps)
  BY FirstOfIs
<1> QED BY <1>7

\* A sane scene loses nodes and stays sane.
LEMMA DetachAllSane ==
    ASSUME NEW s, Sane(s), NEW ps \in Seq(Points), NEW t, t = DetachAll(s, ps)
    PROVE  /\ Sane(t.scene) /\ PointSet(t.scene) = PointSet(s) \ ToSet(ps)
           /\ AllProper(t.lines)
           /\ FaceSet(t.scene) \subseteq FaceSet(s)
           /\ \A g \in FaceSet(t.scene) : LineOf(t.scene, g) = LineOf(s, g)
<1> DEFINE N == Len(ps)
<1>1. N \in Nat /\ DOMAIN ps = 1 .. N
  OBVIOUS
<1>0. s \in Scenes
  BY DEF Sane
<1>2. PICK f : /\ f[0] = [scene |-> s, lines |-> <<>>]
               /\ \A k \in 0 .. N - 1 : f[k + 1] = Detach(f[k], ps[k + 1])
               /\ t = f[N]
  BY <1>0, DetachAllFollow
<1> DEFINE Is(k, u) ==
             /\ u \in Detached /\ Sane(u.scene)
             /\ PointSet(u.scene) = PointSet(s) \ FirstOf(ps, k)
             /\ AllProper(u.lines)
             /\ FaceSet(u.scene) \subseteq FaceSet(s)
             /\ \A g \in FaceSet(u.scene) : LineOf(u.scene, g) = LineOf(s, g)
           Done == {k \in 0 .. N : Is(k, f[k])}
<1>3. 0 \in Done
  <2> DEFINE u == f[0]
  <2>1. u \in Detached /\ u.scene = s /\ ToSet(u.lines) = {}
    BY <1>0, <1>2 DEF Detached, ToSet
  <2>2. FirstOf(ps, 0) = {} /\ 0 \in 0 .. N
    BY <1>1, FirstOfIs
  <2> HIDE DEF u
  <2>3. Is(0, u)
    BY <2>1, <2>2 DEF AllProper
  <2> HIDE DEF Is
  <2> QED BY <2>2, <2>3 DEF u
<1>4. ASSUME NEW k \in 0 .. N - 1, k \in Done PROVE k + 1 \in Done
  <2> DEFINE u == f[k]
             v == f[k + 1]
  <2>1. k + 1 \in 1 .. N /\ k + 1 \in 0 .. N
    BY <1>1
  <2>2. Is(k, u)
    BY <1>4
  <2>3. v = Detach(u, ps[k + 1])
    BY <1>2
  <2>4. FirstOf(ps, k + 1) = FirstOf(ps, k) \cup {ps[k + 1]}
    BY <2>1, FirstOfIs
  <2> HIDE DEF u, v
  <2>5. /\ v \in Detached /\ Sane(v.scene)
        /\ PointSet(v.scene) = PointSet(u.scene) \ {ps[k + 1]}
    BY <2>2, <2>3, DetachSane
  <2>6. /\ FaceSet(v.scene) \subseteq FaceSet(u.scene)
        /\ \A g \in FaceSet(v.scene) : LineOf(v.scene, g) = LineOf(u.scene, g)
        /\ AllProper(v.lines)
    BY <2>2, <2>3, DetachSane
  <2>9. Is(k + 1, v)
    BY <2>2, <2>4, <2>5, <2>6
  <2> HIDE DEF Is
  <2> QED BY <2>1, <2>9 DEF v
<1> HIDE DEF Done
<1>5. \A k \in 0 .. N : k \in Done
  <2>1. \A k \in 0 .. N - 1 : k \in Done => k + 1 \in Done
    BY <1>4
  <2> QED BY <1>1, <1>3, <2>1, SetInduction
<1>6. N \in Done
  BY <1>1, <1>5
<1>7. Is(N, t)
  BY <1>2, <1>6 DEF Done
<1>8. FirstOf(ps, N) = ToSet(ps)
  BY FirstOfIs
<1> QED BY <1>7, <1>8

\* Lines as they are recorded.
PlainLines(L) == {Plainly(l) : l \in L}

\* Of a good scene exactly the lines of the nodes go, and they are recorded.
LEMMA DetachAllGood ==
    ASSUME NEW s, Good(s), NEW ps \in Seq(Points), NEW t, t = DetachAll(s, ps)
    PROVE  /\ Good(t.scene)
           /\ Lines(t.scene) = Lines(s) \ TouchingLines(Lines(s), ToSet(ps))
           /\ ToSet(t.lines) = PlainLines(TouchingLines(Lines(s), ToSet(ps)))
<1> DEFINE N == Len(ps)
<1>1. N \in Nat /\ DOMAIN ps = 1 .. N
  OBVIOUS
<1>0. s \in Scenes
  BY DEF Good
<1>2. PICK f : /\ f[0] = [scene |-> s, lines |-> <<>>]
               /\ \A k \in 0 .. N - 1 : f[k + 1] = Detach(f[k], ps[k + 1])
               /\ t = f[N]
  BY <1>0, DetachAllFollow
<1> DEFINE Is(k, u) ==
             /\ u \in Detached /\ Good(u.scene)
             /\ Lines(u.scene) = Lines(s) \ TouchingLines(Lines(s), FirstOf(ps, k))
             /\ ToSet(u.lines) = {Plainly(l) : l \in TouchingLines(Lines(s), FirstOf(ps, k))}
           Done == {k \in 0 .. N : Is(k, f[k])}
<1>3. 0 \in Done
  <2> DEFINE u == f[0]
  <2>1. u \in Detached /\ u.scene = s /\ ToSet(u.lines) = {}
    BY <1>0, <1>2 DEF Detached, ToSet
  <2>2. FirstOf(ps, 0) = {} /\ 0 \in 0 .. N
    BY <1>1, FirstOfIs
  <2> HIDE DEF u
  <2>3. Is(0, u)
    BY <2>1, <2>2 DEF TouchingLines
  <2> HIDE DEF Is
  <2> QED BY <2>2, <2>3 DEF u
<1>4. ASSUME NEW k \in 0 .. N - 1, k \in Done PROVE k + 1 \in Done
  <2> DEFINE u == f[k]
             v == f[k + 1]
  <2>1. k + 1 \in 1 .. N /\ k + 1 \in 0 .. N
    BY <1>1
  <2>2. Is(k, u)
    BY <1>4
  <2>3. v = Detach(u, ps[k + 1])
    BY <1>2
  <2>4. FirstOf(ps, k + 1) = FirstOf(ps, k) \cup {ps[k + 1]}
    BY <2>1, FirstOfIs
  <2> HIDE DEF u, v
  <2> DEFINE p == ps[k + 1]
             L == Lines(s)
             A == TouchingLines(L, FirstOf(ps, k))
             B == TouchingLines(L, FirstOf(ps, k + 1))
             C == TouchingLines(Lines(u.scene), {p})
  <2>5. v \in Detached /\ Good(v.scene)
    <3>1. v \in Detached
      BY <2>2, <2>3, DetachIs
    <3>2. Good(v.scene)
      BY <2>2, <2>3, DetachGood
    <3> QED BY <3>1, <3>2
  <2>6. Lines(v.scene) = Lines(u.scene) \ C
    BY <2>2, <2>3, DetachGood
  <2>7. ToSet(v.lines) = ToSet(u.lines) \cup {Plainly(l) : l \in C}
    BY <2>2, <2>3, DetachGood
  <2>8. B = A \cup C /\ (L \ A) \ C = L \ B
    BY <2>2, <2>4 DEF TouchingLines
  <2>10. Lines(u.scene) = L \ A /\ ToSet(u.lines) = {Plainly(l) : l \in A}
    BY <2>2
  <2>9. Is(k + 1, v)
    <3> HIDE DEF A, B, C, L, p
    <3>1. Lines(v.scene) = L \ B
      BY <2>6, <2>8, <2>10
    <3>2. ToSet(v.lines) = {Plainly(l) : l \in B}
      BY <2>7, <2>8, <2>10
    <3> QED BY <2>5, <3>1, <3>2 DEF B, L
  <2> HIDE DEF Is
  <2> QED BY <2>1, <2>9 DEF v
<1> HIDE DEF Done
<1>5. \A k \in 0 .. N : k \in Done
  <2>1. \A k \in 0 .. N - 1 : k \in Done => k + 1 \in Done
    BY <1>4
  <2> QED BY <1>1, <1>3, <2>1, SetInduction
<1>6. N \in Done
  BY <1>1, <1>5
<1>7. Is(N, t)
  BY <1>2, <1>6 DEF Done
<1>8. FirstOf(ps, N) = ToSet(ps)
  BY FirstOfIs
<1> QED BY <1>7, <1>8 DEF PlainLines

-----------------------------------------------------------------------------
(* The commands.                                                           *)

NodeAdds == [op : {"nodeAdd", "nodeAddMulti"}, points : Seq(Points)]
NodeMoves ==
    {c \in [op : {"nodeEdit", "nodeMoveMulti"}, points : Seq(Points), new : Seq(Points)] :
        Len(c.new) = Len(c.points)}
NodeRemoves == [op : {"nodeRemoveMulti"}, points : Seq(Points), lines : Seq(LineRecs)]
FaceAdds ==
    {c \in [op : {"faceAdd"}, lines : Seq(LineRecs)] :
        Len(c.lines) = 1 /\ c.lines[1].from \in Points /\ c.lines[1].to \in Points}
EdgeAdds == [op : {"edgeAddMulti"}, lines : Seq(LineRecs)]
EdgeRemoves == [op : {"edgeRemoveMulti"}, lines : Seq(LineRecs)]
EdgeEdits ==
    {c \in [op : {"edgeEdit"}, lines : Seq(LineRecs), new : LineRecs] : Len(c.lines) = 1}

Commands ==
    NodeAdds \cup NodeMoves \cup NodeRemoves \cup FaceAdds \cup EdgeAdds
        \cup EdgeRemoves \cup EdgeEdits

\* The two ends of a new face, which its command adds first.
EndsOfFace(c) == <<c.lines[1].from, c.lines[1].to>>

\* What each command does, undoes and remembers.
LEMMA NodeAddsDo ==
    ASSUME NEW s, NEW c \in NodeAdds
    PROVE  /\ Redo(s, c) = AddNodes(s, c.points) /\ Undo(s, c) = RemoveNodes(s, c.points)
           /\ Remembered(s, c) = c /\ c.points \in Seq(Points)
BY DEF NodeAdds, Redo, Undo, Remembered

LEMMA NodeMovesDo ==
    ASSUME NEW s, NEW c \in NodeMoves
    PROVE  /\ Redo(s, c) = MoveAll(s, c.points, c.new) /\ Undo(s, c) = MoveAll(s, c.new, c.points)
           /\ Remembered(s, c) = c
           /\ c.points \in Seq(Points) /\ c.new \in Seq(Points) /\ Len(c.new) = Len(c.points)
BY DEF NodeMoves, Redo, Undo, Remembered

LEMMA NodeRemovesDo ==
    ASSUME NEW s, NEW c \in NodeRemoves
    PROVE  /\ Redo(s, c) = DetachAll(s, c.points).scene
           /\ Undo(s, c) = AddLines(AddNodes(s, c.points), c.lines)
           /\ Remembered(s, c) = [c EXCEPT !.lines = DetachAll(s, c.points).lines]
           /\ c.points \in Seq(Points) /\ c.lines \in Seq(LineRecs)
BY DEF NodeRemoves, Redo, Undo, Remembered

LEMMA FaceAddsDo ==
    ASSUME NEW s, NEW c \in FaceAdds
    PROVE  /\ Redo(s, c) = AddLines(AddNodes(s, EndsOfFace(c)), c.lines)
           /\ Undo(s, c) = RemoveLines(s, c.lines)
           /\ Remembered(s, c) = c
           /\ c.lines \in Seq(LineRecs) /\ EndsOfFace(c) \in Seq(Points)
           /\ ToSet(c.lines) = {c.lines[1]}
           /\ ToSet(EndsOfFace(c)) = {c.lines[1].from, c.lines[1].to}
<1>1. /\ c.lines \in Seq(LineRecs) /\ Len(c.lines) = 1 /\ c.op = "faceAdd"
      /\ c.lines[1].from \in Points /\ c.lines[1].to \in Points
  BY DEF FaceAdds
<1>2. DOMAIN c.lines = {1}
  <2> HIDE DEF LineRecs
  <2> QED BY <1>1
<1>3. ToSet(c.lines) = {c.lines[1]}
  BY <1>2 DEF ToSet
<1>4. EndsOfFace(c) \in Seq(Points) /\ ToSet(EndsOfFace(c)) = {c.lines[1].from, c.lines[1].to}
  <2>1. /\ DOMAIN EndsOfFace(c) = {1, 2}
        /\ EndsOfFace(c)[1] = c.lines[1].from
        /\ EndsOfFace(c)[2] = c.lines[1].to
    BY DEF EndsOfFace
  <2>2. EndsOfFace(c) \in Seq(Points)
    BY <1>1 DEF EndsOfFace
  <2> QED BY <2>1, <2>2 DEF ToSet
<1>5. /\ Redo(s, c) = AddLines(AddNodes(s, EndsOfFace(c)), c.lines)
      /\ Undo(s, c) = RemoveLines(s, c.lines) /\ Remembered(s, c) = c
  BY <1>1 DEF Redo, Undo, Remembered, EndsOfFace
<1> QED BY <1>1, <1>3, <1>4, <1>5

LEMMA EdgeAddsDo ==
    ASSUME NEW s, NEW c \in EdgeAdds
    PROVE  /\ Redo(s, c) = AddLines(s, c.lines) /\ Undo(s, c) = RemoveLines(s, c.lines)
           /\ Remembered(s, c) = c /\ c.lines \in Seq(LineRecs)
BY DEF EdgeAdds, Redo, Undo, Remembered

LEMMA EdgeRemovesDo ==
    ASSUME NEW s, NEW c \in EdgeRemoves
    PROVE  /\ Redo(s, c) = RemoveLines(s, c.lines) /\ Undo(s, c) = AddLines(s, c.lines)
           /\ Remembered(s, c) = c /\ c.lines \in Seq(LineRecs)
BY DEF EdgeRemoves, Redo, Undo, Remembered

LEMMA EdgeEditsDo ==
    ASSUME NEW s, NEW c \in EdgeEdits
    PROVE  /\ Redo(s, c) = SetFace(s, GetFace(s, c.lines[1]), c.new)
           /\ Undo(s, c) = SetFace(s, GetFace(s, c.new), c.lines[1])
           /\ Remembered(s, c) = c /\ c.lines[1] \in LineRecs /\ c.new \in LineRecs
<1>1. c.lines \in Seq(LineRecs) /\ Len(c.lines) = 1 /\ c.op = "edgeEdit" /\ c.new \in LineRecs
  BY DEF EdgeEdits
<1>2. c.lines[1] \in LineRecs
  <2> HIDE DEF LineRecs
  <2> QED BY <1>1
<1> QED BY <1>1, <1>2 DEF Redo, Undo, Remembered

\* Whatever the scene: no step leaves a pointer behind unless an assertion fails, and
\* after a failed assertion nothing is sound again.
Keeps(s, t) ==
    /\ t \in Scenes /\ (t.sound => s.sound)
    /\ s \in Hung => t \in Hung

LEMMA SetFaceKeeps ==
    ASSUME NEW s \in Scenes, NEW i \in {0} \cup DOMAIN s.faces, NEW l \in LineRecs
    PROVE  Keeps(s, SetFace(s, i, l))
<1> DEFINE t == SetFace(s, i, l)
<1>1. t = SetFace(s, i, l)
  OBVIOUS
<1> HIDE DEF t
<1>2. t \in Scenes /\ (t.sound => s.sound)
  BY <1>1, SetFaceIs
<1>3. s \in Hung => t \in Hung
  BY <1>1, SetFaceIs
<1> QED BY <1>1, <1>2, <1>3 DEF Keeps

LEMMA RedoKeeps ==
    ASSUME NEW s \in Scenes, NEW c \in Commands
    PROVE  Keeps(s, Redo(s, c)) /\ Remembered(s, c) \in Commands
<1> DEFINE t == Redo(s, c)
<1>1. CASE c \in NodeAdds
  <2>1. t = AddNodes(s, c.points) /\ c.points \in Seq(Points) /\ Remembered(s, c) = c
    BY <1>1, NodeAddsDo
  <2>2. t \in Scenes /\ t.faces = s.faces /\ t.sound = s.sound /\ Ids(s) \subseteq Ids(t)
    BY <2>1, AddNodesAre
  <2>3. s \in Hung => t \in Hung
    BY <2>2 DEF Hung, Hang, FaceSet
  <2> QED BY <1>1, <2>1, <2>2, <2>3 DEF Keeps, Commands
<1>2. CASE c \in NodeMoves
  <2>1. /\ t = MoveAll(s, c.points, c.new) /\ Remembered(s, c) = c
        /\ c.points \in Seq(Points) /\ c.new \in Seq(Points) /\ Len(c.new) = Len(c.points)
    BY <1>2, NodeMovesDo
  <2>2. t \in Scenes /\ t.sound = s.sound /\ (s \in Hung => t \in Hung)
    BY <2>1, MoveAllHangs
  <2> QED BY <1>2, <2>1, <2>2 DEF Keeps, Commands
<1>3. CASE c \in NodeRemoves
  <2> DEFINE a == DetachAll(s, c.points)
  <2>1. t = a.scene /\ c.points \in Seq(Points) /\ Remembered(s, c) = [c EXCEPT !.lines = a.lines]
    BY <1>3, NodeRemovesDo
  <2>2. a \in Detached /\ a.scene.sound = s.sound /\ (s \in Hung => a.scene \in Hung)
    BY <2>1, DetachAllHung
  <2>3. a.scene \in Scenes /\ a.lines \in Seq(LineRecs)
    BY <2>2 DEF Detached
  <2>4. [c EXCEPT !.lines = a.lines] \in NodeRemoves
    BY <1>3, <2>3 DEF NodeRemoves
  <2> QED BY <2>1, <2>2, <2>3, <2>4 DEF Keeps, Commands
<1>4. CASE c \in FaceAdds
  <2> DEFINE u == AddNodes(s, EndsOfFace(c))
  <2>1. /\ t = AddLines(u, c.lines) /\ c.lines \in Seq(LineRecs) /\ EndsOfFace(c) \in Seq(Points)
        /\ Remembered(s, c) = c
    BY <1>4, FaceAddsDo
  <2>2. u \in Scenes /\ u.faces = s.faces /\ u.sound = s.sound /\ Ids(s) \subseteq Ids(u)
    BY <2>1, AddNodesAre
  <2>3. s \in Hung => u \in Hung
    BY <2>2 DEF Hung, Hang, FaceSet
  <2> HIDE DEF u
  <2>4. t \in Scenes /\ (t.sound => u.sound) /\ (u \in Hung => t \in Hung)
    BY <2>1, <2>2, AddLinesAre
  <2> QED BY <1>4, <2>1, <2>2, <2>3, <2>4 DEF Keeps, Commands
<1>5. CASE c \in EdgeAdds
  <2>1. t = AddLines(s, c.lines) /\ c.lines \in Seq(LineRecs) /\ Remembered(s, c) = c
    BY <1>5, EdgeAddsDo
  <2>2. t \in Scenes /\ (t.sound => s.sound) /\ (s \in Hung => t \in Hung)
    BY <2>1, AddLinesAre
  <2> QED BY <1>5, <2>1, <2>2 DEF Keeps, Commands
<1>6. CASE c \in EdgeRemoves
  <2>1. t = RemoveLines(s, c.lines) /\ c.lines \in Seq(LineRecs) /\ Remembered(s, c) = c
    BY <1>6, EdgeRemovesDo
  <2>2. t \in Scenes /\ t.sound = s.sound /\ (s \in Hung => t \in Hung)
    BY <2>1, RemoveLinesAre
  <2> QED BY <1>6, <2>1, <2>2 DEF Keeps, Commands
<1>7. CASE c \in EdgeEdits
  <2>1. t = SetFace(s, GetFace(s, c.lines[1]), c.new) /\ c.new \in LineRecs /\ Remembered(s, c) = c
    BY <1>7, EdgeEditsDo
  <2>2. GetFace(s, c.lines[1]) \in {0} \cup DOMAIN s.faces
    BY GetFaceIs
  <2>3. Keeps(s, t)
    BY <2>1, <2>2, SetFaceKeeps
  <2> QED BY <1>7, <2>1, <2>3 DEF Commands
<1> QED BY <1>1, <1>2, <1>3, <1>4, <1>5, <1>6, <1>7 DEF Commands

LEMMA UndoKeeps ==
    ASSUME NEW s \in Scenes, NEW c \in Commands
    PROVE  Keeps(s, Undo(s, c))
<1> DEFINE t == Undo(s, c)
<1>1. CASE c \in NodeAdds
  <2>1. t = RemoveNodes(s, c.points) /\ c.points \in Seq(Points)
    BY <1>1, NodeAddsDo
  <2>2. t \in Scenes /\ (t.sound => s.sound) /\ (s \in Hung => t \in Hung)
    BY <2>1, RemoveNodesAre
  <2> QED BY <2>2 DEF Keeps
<1>2. CASE c \in NodeMoves
  <2>1. /\ t = MoveAll(s, c.new, c.points)
        /\ c.points \in Seq(Points) /\ c.new \in Seq(Points) /\ Len(c.points) = Len(c.new)
    BY <1>2, NodeMovesDo
  <2>2. t \in Scenes /\ t.sound = s.sound /\ (s \in Hung => t \in Hung)
    BY <2>1, MoveAllHangs
  <2> QED BY <2>2 DEF Keeps
<1>3. CASE c \in NodeRemoves
  <2> DEFINE u == AddNodes(s, c.points)
  <2>1. t = AddLines(u, c.lines) /\ c.lines \in Seq(LineRecs) /\ c.points \in Seq(Points)
    BY <1>3, NodeRemovesDo
  <2>2. u \in Scenes /\ u.faces = s.faces /\ u.sound = s.sound /\ Ids(s) \subseteq Ids(u)
    BY <2>1, AddNodesAre
  <2>3. s \in Hung => u \in Hung
    BY <2>2 DEF Hung, Hang, FaceSet
  <2> HIDE DEF u
  <2>4. t \in Scenes /\ (t.sound => u.sound) /\ (u \in Hung => t \in Hung)
    BY <2>1, <2>2, AddLinesAre
  <2> QED BY <2>2, <2>3, <2>4 DEF Keeps
<1>4. CASE c \in FaceAdds \cup EdgeAdds
  <2>1. t = RemoveLines(s, c.lines) /\ c.lines \in Seq(LineRecs)
    BY <1>4, FaceAddsDo, EdgeAddsDo
  <2>2. t \in Scenes /\ t.sound = s.sound /\ (s \in Hung => t \in Hung)
    BY <2>1, RemoveLinesAre
  <2> QED BY <2>2 DEF Keeps
<1>5. CASE c \in EdgeRemoves
  <2>1. t = AddLines(s, c.lines) /\ c.lines \in Seq(LineRecs)
    BY <1>5, EdgeRemovesDo
  <2>2. t \in Scenes /\ (t.sound => s.sound) /\ (s \in Hung => t \in Hung)
    BY <2>1, AddLinesAre
  <2> QED BY <2>2 DEF Keeps
<1>6. CASE c \in EdgeEdits
  <2>1. t = SetFace(s, GetFace(s, c.new), c.lines[1]) /\ c.lines[1] \in LineRecs
    BY <1>6, EdgeEditsDo
  <2>2. GetFace(s, c.new) \in {0} \cup DOMAIN s.faces
    BY GetFaceIs
  <2>3. Keeps(s, t)
    BY <2>1, <2>2, SetFaceKeeps
  <2> QED BY <2>3
<1> QED BY <1>1, <1>2, <1>3, <1>4, <1>5, <1>6 DEF Commands

-----------------------------------------------------------------------------
(* What a command does to what is seen of a scene: its points and, when exact, its   *)
(* lines.                                                                            *)

Views == [nodes : SUBSET Points, lines : SUBSET LineRecs]
Seen(exact, V) == V \in Views /\ (~ exact => V.lines = {})
View(exact, s) == [nodes |-> PointSet(s), lines |-> IF exact THEN Lines(s) ELSE {}]

\* The scenes that can be walked through: with the lines, no two faces join the same
\* nodes.
Fine(exact, s) == Sane(s) /\ (exact => FacesApart(s))

\* A drawing of lines on its points.
Drawn(V) ==
    /\ LinesApart(V.lines)
    /\ \A l \in V.lines : l.from \in V.nodes /\ l.to \in V.nodes /\ l.from # l.to

\* Lines on the points of V.
On(V, lines) == \A l \in ToSet(lines) : l.from \in V.nodes /\ l.to \in V.nodes /\ l.from # l.to

AddsNodes(c, V, W) ==
    /\ c \in NodeAdds
    /\ ToSet(c.points) \cap V.nodes = {}
    /\ W.nodes = V.nodes \cup ToSet(c.points) /\ W.lines = V.lines

MovesNodes(c, V, W) ==
    /\ c \in NodeMoves
    /\ Movable(c.points, c.new, V.nodes)
    /\ W.nodes = MovedSet(c.points, c.new, V.nodes)
    /\ W.lines = {LineCarried(c.points, c.new, l) : l \in V.lines}

RemovesNodes(c, V, W) ==
    /\ c \in NodeRemoves
    /\ ToSet(c.points) \subseteq V.nodes
    /\ W.nodes = V.nodes \ ToSet(c.points)
    /\ W.lines = V.lines \ TouchingLines(V.lines, ToSet(c.points))
    /\ \A l \in V.lines : l.segments = DefaultSegments

AddsLines(exact, c, V, W) ==
    /\ c \in FaceAdds \cup EdgeAdds
    /\ W.nodes = V.nodes /\ On(V, c.lines)
    /\ exact => /\ ToSet(c.lines) \cap V.lines = {}
                /\ W.lines = V.lines \cup ToSet(c.lines) /\ LinesApart(W.lines)

RemovesLines(exact, c, V, W) ==
    /\ c \in EdgeRemoves
    /\ W.nodes = V.nodes /\ On(V, c.lines)
    /\ exact => ToSet(c.lines) \subseteq V.lines /\ W.lines = V.lines \ ToSet(c.lines)

EditsLine(exact, c, V, W) ==
    /\ c \in EdgeEdits
    /\ W.nodes = V.nodes
    /\ c.lines[1].from # c.lines[1].to /\ c.new.from # c.new.to
    /\ c.new.from \in V.nodes /\ c.new.to \in V.nodes
    /\ exact => /\ c.lines[1] \in V.lines
                /\ W.lines = (V.lines \ {c.lines[1]}) \cup {c.new}
                /\ \A l \in V.lines \ {c.lines[1]} : Joined(l) # Joined(c.new)

\* What the command does when it is redone where V is seen, and what is seen then.
Does(exact, c, V, W) ==
    /\ Seen(exact, V) /\ Seen(exact, W)
    /\ \/ AddsNodes(c, V, W)
       \/ MovesNodes(c, V, W)
       \/ RemovesNodes(c, V, W)
       \/ AddsLines(exact, c, V, W)
       \/ RemovesLines(exact, c, V, W)
       \/ EditsLine(exact, c, V, W)

\* The lines that a command puts back are those it has taken away.
Recorded(exact, c, V) ==
    c \in NodeRemoves =>
        /\ AllProper(c.lines)
        /\ exact => ToSet(c.lines) = TouchingLines(V.lines, ToSet(c.points))

\* A command that was redone where V was seen.
Fits(exact, c, V, W) == Does(exact, c, V, W) /\ Drawn(V) /\ Recorded(exact, c, V)

\* What is seen of a scene.
LEMMA ViewIs ==
    ASSUME NEW exact \in BOOLEAN, NEW s, Fine(exact, s)
    PROVE  /\ Seen(exact, View(exact, s)) /\ Drawn(View(exact, s))
           /\ View(exact, s).nodes = PointSet(s)
           /\ exact => View(exact, s).lines = Lines(s)
           /\ exact => Good(s)
           /\ s \in Scenes /\ s.sound /\ NodesApart(s) /\ Hang(s) /\ Loopless(s) /\ s \in Hung
<1> DEFINE V == View(exact, s)
<1>1. s \in Scenes /\ s.sound /\ NodesApart(s) /\ Hang(s) /\ Loopless(s) /\ s \in Hung
  BY DEF Fine, Sane, Hung
<1>2. PointSet(s) \subseteq Points
  BY <1>1, SceneHas DEF PointSet
<1>3. /\ V.nodes = PointSet(s) /\ (exact => V.lines = Lines(s)) /\ (~ exact => V.lines = {})
  BY DEF View
<1>4. exact => Good(s)
  BY GoodIsSane DEF Fine
<1>5. exact => Drawn(V) /\ Lines(s) \subseteq LineRecs
  BY <1>3, <1>4, LinesOfGood DEF Drawn
<1>6. ~ exact => Drawn(V)
  BY <1>3 DEF Drawn, LinesApart
<1>7. V \in Views
  BY <1>2, <1>5 DEF View, Views
<1> QED BY <1>1, <1>3, <1>4, <1>5, <1>6, <1>7 DEF Seen

\* The scene t shows W.
Shows(exact, t, W) == Fine(exact, t) /\ View(exact, t) = W

LEMMA ShowsIt ==
    ASSUME NEW exact \in BOOLEAN, NEW t, NEW W, Seen(exact, W), t \in Scenes, t.sound,
           NodesApart(t), Hang(t), Loopless(t), PointSet(t) = W.nodes,
           exact => FacesApart(t) /\ Lines(t) = W.lines
    PROVE  Shows(exact, t, W)
<1>1. W = [nodes |-> W.nodes, lines |-> W.lines]
  BY DEF Seen, Views
<1>2. W.lines = IF exact THEN Lines(t) ELSE {}
  BY DEF Seen
<1> QED BY <1>1, <1>2 DEF Shows, Fine, Sane, View

\* Faces that stay on their nodes, which stay at their points, are drawn as before.
LEMMA StillDrawn ==
    ASSUME NEW s \in Scenes, NodesApart(s), Hang(s), NEW t \in Scenes, NodesApart(t), t.faces = s.faces,
           \A f \in FaceSet(s) : \A q : /\ Placed(s, f.from, q) => Placed(t, f.from, q)
                                        /\ Placed(s, f.to, q) => Placed(t, f.to, q)
    PROVE  /\ Lines(t) = Lines(s) /\ FaceSet(t) = FaceSet(s) /\ Hang(t)
           /\ Loopless(s) => Loopless(t)
           /\ FacesApart(s) => FacesApart(t)
<1>1. FaceSet(t) = FaceSet(s)
  BY DEF FaceSet
<1>2. ASSUME NEW f \in FaceSet(s)
      PROVE  LineOf(t, f) = LineOf(s, f) /\ f.from \in Ids(t) /\ f.to \in Ids(t)
  <2>1. f.from \in Ids(s) /\ f.to \in Ids(s)
    BY DEF Hang
  <2>2. Placed(s, f.from, PointOf(s, f.from)) /\ Placed(s, f.to, PointOf(s, f.to))
    BY <2>1, PlacedIs
  <2>3. Placed(t, f.from, PointOf(s, f.from)) /\ Placed(t, f.to, PointOf(s, f.to))
    BY <2>2
  <2>4. PointOf(t, f.from) = PointOf(s, f.from) /\ PointOf(t, f.to) = PointOf(s, f.to)
    BY <2>3, PlacedIs
  <2>5. f.from \in Ids(t) /\ f.to \in Ids(t)
    BY <2>3, PlacedIs
  <2> QED BY <2>4, <2>5 DEF LineOf
<1>3. Lines(t) = Lines(s)
  BY <1>1, <1>2 DEF Lines
<1>4. Hang(t) /\ (Loopless(s) => Loopless(t))
  BY <1>1, <1>2 DEF Hang, Loopless
<1>5. FacesApart(s) => FacesApart(t)
  BY DEF FacesApart
<1> QED BY <1>1, <1>3, <1>4, <1>5

\* Nodes are added, and removed again.
LEMMA AddsNodesRedone ==
    ASSUME NEW exact \in BOOLEAN, NEW s, Fine(exact, s), NEW c, NEW W, Seen(exact, W),
           AddsNodes(c, View(exact, s), W), NEW t, t = Redo(s, c)
    PROVE  Shows(exact, t, W)
<1> DEFINE V == View(exact, s)
<1>1. /\ V.nodes = PointSet(s) /\ (exact => V.lines = Lines(s)) /\ (exact => FacesApart(s))
      /\ s \in Scenes /\ s.sound /\ NodesApart(s) /\ Hang(s) /\ Loopless(s)
  BY ViewIs DEF Fine
<1>2. c \in NodeAdds /\ W.nodes = V.nodes \cup ToSet(c.points) /\ W.lines = V.lines
  BY DEF AddsNodes
<1> HIDE DEF V
<1>3. t = AddNodes(s, c.points) /\ c.points \in Seq(Points)
  BY <1>2, NodeAddsDo
<1>4. /\ t \in Scenes /\ t.faces = s.faces /\ t.sound /\ NodesApart(t)
      /\ PointSet(t) = PointSet(s) \cup ToSet(c.points)
      /\ \A n, q : Placed(s, n, q) => Placed(t, n, q)
  BY <1>1, <1>3, AddNodesAre
<1>5. Lines(t) = Lines(s) /\ Hang(t) /\ Loopless(t) /\ (FacesApart(s) => FacesApart(t))
  BY <1>1, <1>4, StillDrawn
<1>6. PointSet(t) = W.nodes /\ (exact => FacesApart(t) /\ Lines(t) = W.lines)
  BY <1>1, <1>2, <1>4, <1>5
<1> QED BY <1>4, <1>5, <1>6, ShowsIt

LEMMA AddsNodesUndone ==
    ASSUME NEW exact \in BOOLEAN, NEW s, Fine(exact, s), NEW c, NEW V, Seen(exact, V), Drawn(V),
           AddsNodes(c, V, View(exact, s)), NEW t, t = Undo(s, c), exact \/ t.sound
    PROVE  Shows(exact, t, V)
<1> DEFINE W == View(exact, s)
<1>1. /\ W.nodes = PointSet(s) /\ (exact => W.lines = Lines(s)) /\ (exact => FacesApart(s))
      /\ s \in Scenes /\ s.sound /\ NodesApart(s) /\ Hang(s) /\ Loopless(s) /\ (exact => Good(s))
  BY ViewIs DEF Fine
<1>2. /\ c \in NodeAdds /\ W.nodes = V.nodes \cup ToSet(c.points) /\ W.lines = V.lines
      /\ ToSet(c.points) \cap V.nodes = {}
  BY DEF AddsNodes
<1> HIDE DEF W
<1>3. t = RemoveNodes(s, c.points) /\ c.points \in Seq(Points)
  BY <1>2, NodeAddsDo
<1>4. /\ t \in Scenes /\ t.faces = s.faces /\ NodesApart(t)
      /\ \A n, q : Placed(t, n, q) <=> Placed(s, n, q) /\ q \notin ToSet(c.points)
  BY <1>1, <1>3, RemoveNodesAre
<1>5. s \in Hung => t \in Hung
  BY <1>1, <1>3, RemoveNodesAre
<1>6. PointSet(t) = V.nodes
  <2>1. \A q : q \in PointSet(t) <=> q \in PointSet(s) /\ q \notin ToSet(c.points)
    BY <1>4, PlacedSets
  <2> QED BY <1>1, <1>2, <2>1
<1>7. Loopless(t)
  BY <1>1, <1>4 DEF Loopless, FaceSet
<1>8. exact => t.sound /\ FacesApart(t) /\ Lines(t) = V.lines
  <2> SUFFICES ASSUME exact PROVE t.sound /\ FacesApart(t) /\ Lines(t) = V.lines
    OBVIOUS
  <2>1. Good(s) /\ Lines(s) = V.lines
    BY <1>1, <1>2
  <2>2. ASSUME NEW f \in FaceSet(s), NEW q, Placed(s, f.from, q) \/ Placed(s, f.to, q)
        PROVE  q \notin ToSet(c.points)
    <3>1. /\ LineOf(s, f) \in Lines(s)
          /\ LineOf(s, f).from = PointOf(s, f.from) /\ LineOf(s, f).to = PointOf(s, f.to)
      BY <2>1, LineOfGood
    <3>2. LineOf(s, f).from \in V.nodes /\ LineOf(s, f).to \in V.nodes
      BY <2>1, <3>1 DEF Drawn
    <3>3. \A n : Placed(s, n, q) => PointOf(s, n) = q
      BY <1>1, PlacedIs
    <3>4. q = LineOf(s, f).from \/ q = LineOf(s, f).to
      BY <2>2, <3>1, <3>3
    <3> QED BY <1>2, <3>2, <3>4
  <2>3. \A f \in FaceSet(s), p \in ToSet(c.points) : ~ Placed(s, f.from, p) /\ ~ Placed(s, f.to, p)
    BY <2>2
  <2>4. t.sound
    BY <1>1, <1>3, <2>3, RemoveNodesAre
  <2>5. \A f \in FaceSet(s) : \A q : /\ Placed(s, f.from, q) => Placed(t, f.from, q)
                                     /\ Placed(s, f.to, q) => Placed(t, f.to, q)
    BY <1>4, <2>2
  <2>6. Lines(t) = Lines(s) /\ (FacesApart(s) => FacesApart(t))
    BY <1>1, <1>4, <2>5, StillDrawn
  <2> QED BY <1>1, <2>1, <2>4, <2>6
<1>9. t.sound /\ Hang(t)
  BY <1>1, <1>5, <1>8 DEF Hung
<1> QED BY <1>4, <1>6, <1>7, <1>8, <1>9, ShowsIt

\* Nodes are moved, and moved back.
LEMMA MovesNodesRedone ==
    ASSUME NEW exact \in BOOLEAN, NEW s, Fine(exact, s), NEW ps, NEW qs, NEW W, Seen(exact, W),
           Movable(ps, qs, PointSet(s)), W.nodes = MovedSet(ps, qs, PointSet(s)),
           exact => W.lines = {LineCarried(ps, qs, l) : l \in Lines(s)},
           NEW t, t = MoveAll(s, ps, qs)
    PROVE  Shows(exact, t, W)
<1>1. /\ s \in Scenes /\ s.sound /\ NodesApart(s) /\ Hang(s) /\ Loopless(s) /\ s \in Hung
      /\ exact => Good(s)
  BY ViewIs
<1>2. ps \in Seq(Points) /\ qs \in Seq(Points) /\ Len(qs) = Len(ps)
  BY DEF Movable
<1>3. t \in Scenes /\ t.sound /\ t \in Hung /\ Loopless(t)
  BY <1>1, <1>2, MoveAllHangs
<1>4. NodesApart(t) /\ PointSet(t) = W.nodes
  BY <1>1, MoveAllApart
<1>5. exact => Good(t) /\ Lines(t) = W.lines
  BY <1>1, MoveAllGood
<1>6. exact => FacesApart(t)
  BY <1>5 DEF Good
<1>7. Hang(t)
  BY <1>3 DEF Hung
<1> QED BY <1>3, <1>4, <1>5, <1>6, <1>7, ShowsIt

\* Lines that are carried and carried back.
LEMMA LinesCarriedBack ==
    ASSUME NEW V \in Views, Drawn(V), NEW ps, NEW qs, Movable(ps, qs, V.nodes)
    PROVE  {LineCarried(qs, ps, l) : l \in {LineCarried(ps, qs, m) : m \in V.lines}} = V.lines
<1>1. CarriesBack(ps, qs, V.nodes)
  BY CarriedBack
<1>2. ASSUME NEW m \in V.lines PROVE LineCarried(qs, ps, LineCarried(ps, qs, m)) = m
  <2>1. m \in LineRecs /\ m.from \in V.nodes /\ m.to \in V.nodes
    BY DEF Drawn, Views
  <2>2. /\ Carried(qs, ps, Carried(ps, qs, m.from)) = m.from
        /\ Carried(qs, ps, Carried(ps, qs, m.to)) = m.to
    BY <1>1, <2>1 DEF CarriesBack
  <2> QED BY <2>1, <2>2 DEF LineCarried, LineRecs
<1> QED BY <1>2

\* Nodes go with their faces, and come back with them.
LEMMA RemovesNodesRedone ==
    ASSUME NEW exact \in BOOLEAN, NEW s, Fine(exact, s), NEW c, NEW W, Seen(exact, W),
           RemovesNodes(c, View(exact, s), W), NEW t, t = Redo(s, c)
    PROVE  Shows(exact, t, W) /\ Recorded(exact, Remembered(s, c), View(exact, s))
<1> DEFINE V == View(exact, s)
           a == DetachAll(s, c.points)
           r == Remembered(s, c)
<1>1. /\ V.nodes = PointSet(s) /\ (exact => V.lines = Lines(s)) /\ (exact => Good(s)) /\ Sane(s)
      /\ s \in Scenes
  BY ViewIs DEF Fine
<1>2. /\ c \in NodeRemoves /\ W.nodes = V.nodes \ ToSet(c.points)
      /\ W.lines = V.lines \ TouchingLines(V.lines, ToSet(c.points))
      /\ \A l \in V.lines : l.segments = DefaultSegments
  BY DEF RemovesNodes
<1> HIDE DEF V
<1>3. t = a.scene /\ r = [c EXCEPT !.lines = a.lines] /\ c.points \in Seq(Points)
  BY <1>2, NodeRemovesDo
<1>4. a \in Detached
  BY <1>1, <1>3, DetachAllHung
<1>5. r.lines = a.lines /\ r.points = c.points
  BY <1>2, <1>3 DEF NodeRemoves
<1>6. a = DetachAll(s, c.points)
  OBVIOUS
<1> HIDE DEF a, r
<1>7. Sane(a.scene) /\ PointSet(a.scene) = PointSet(s) \ ToSet(c.points) /\ AllProper(a.lines)
  BY <1>1, <1>3, <1>6, DetachAllSane
<1>8. ASSUME exact
      PROVE  /\ Good(t) /\ Lines(t) = W.lines
             /\ ToSet(a.lines) = TouchingLines(V.lines, ToSet(c.points))
  <2> DEFINE T == TouchingLines(V.lines, ToSet(c.points))
  <2>1. /\ Good(a.scene) /\ Lines(a.scene) = V.lines \ T
        /\ ToSet(a.lines) = {Plainly(l) : l \in T}
    <3>1. Good(s) /\ V.lines = Lines(s)
      BY <1>1, <1>8
    <3>2. Good(a.scene)
      BY <1>3, <1>6, <3>1, DetachAllGood
    <3>3. Lines(a.scene) = Lines(s) \ TouchingLines(Lines(s), ToSet(c.points))
      BY <1>3, <1>6, <3>1, DetachAllGood
    <3>4. ToSet(a.lines) = PlainLines(TouchingLines(Lines(s), ToSet(c.points)))
      BY <1>3, <1>6, <3>1, DetachAllGood
    <3> QED BY <3>1, <3>2, <3>3, <3>4 DEF PlainLines
  <2>2. ASSUME NEW l \in T PROVE Plainly(l) = l
    <3>1. l \in Lines(s)
      BY <1>1, <1>8 DEF TouchingLines
    <3>2. l \in LineRecs
      BY <1>1, <1>8, <3>1, LinesOfGood
    <3>3. l.segments = DefaultSegments
      BY <1>2, <2>2 DEF TouchingLines
    <3> QED BY <3>2, <3>3 DEF Plainly, LineRecs
  <2>3. ToSet(a.lines) = T
    <3> HIDE DEF T
    <3> QED BY <2>1, <2>2
  <2> QED BY <1>2, <1>3, <2>1, <2>3
<1>9. exact => FacesApart(t) /\ Lines(t) = W.lines
  BY <1>8 DEF Good
<1>10. t \in Scenes /\ t.sound /\ NodesApart(t) /\ Hang(t) /\ Loopless(t) /\ PointSet(t) = W.nodes
  BY <1>1, <1>2, <1>3, <1>7 DEF Sane
<1>11. Shows(exact, t, W)
  BY <1>9, <1>10, ShowsIt
<1>12. Recorded(exact, r, V)
  BY <1>5, <1>7, <1>8 DEF Recorded
<1> QED BY <1>11, <1>12 DEF V, r

\* The lines that touched the points are put back.
LEMMA LinesPutBack ==
    ASSUME NEW L, NEW P, NEW T, T = TouchingLines(L, P)
    PROVE  T \subseteq L /\ (L \ T) \cup T = L
BY DEF TouchingLines

LEMMA RemovesNodesUndone ==
    ASSUME NEW exact \in BOOLEAN, NEW s, Fine(exact, s), NEW c, NEW V, Seen(exact, V), Drawn(V),
           RemovesNodes(c, V, View(exact, s)), Recorded(exact, c, V),
           NEW t, t = Undo(s, c), exact \/ t.sound
    PROVE  Shows(exact, t, V)
<1> DEFINE W == View(exact, s)
           u == AddNodes(s, c.points)
           X == [nodes |-> V.nodes, lines |-> W.lines]
<1>1. /\ W.nodes = PointSet(s) /\ (exact => W.lines = Lines(s)) /\ (exact => FacesApart(s))
      /\ s \in Scenes /\ s.sound /\ NodesApart(s) /\ Hang(s) /\ Loopless(s) /\ (exact => Good(s))
      /\ Seen(exact, W)
  BY ViewIs DEF Fine
<1>2. /\ c \in NodeRemoves /\ W.nodes = V.nodes \ ToSet(c.points)
      /\ W.lines = V.lines \ TouchingLines(V.lines, ToSet(c.points))
      /\ ToSet(c.points) \subseteq V.nodes
  BY DEF RemovesNodes
<1>3. AllProper(c.lines) /\ (exact => ToSet(c.lines) = TouchingLines(V.lines, ToSet(c.points)))
  BY <1>2 DEF Recorded
<1> HIDE DEF W
<1>4. t = AddLines(u, c.lines) /\ c.points \in Seq(Points) /\ c.lines \in Seq(LineRecs)
  BY <1>2, NodeRemovesDo
<1>5. /\ u \in Scenes /\ u.faces = s.faces /\ u.sound /\ NodesApart(u)
      /\ PointSet(u) = PointSet(s) \cup ToSet(c.points)
      /\ \A n, q : Placed(s, n, q) => Placed(u, n, q)
  BY <1>1, <1>4, AddNodesAre
<1> HIDE DEF u
<1>6. Lines(u) = Lines(s) /\ Hang(u) /\ Loopless(u) /\ (FacesApart(s) => FacesApart(u))
  BY <1>1, <1>5, StillDrawn
<1>7. PointSet(u) = V.nodes
  BY <1>1, <1>2, <1>5
<1>8. u \in Hung
  BY <1>5, <1>6 DEF Hung
<1>9. t \in Scenes /\ t.nodes = u.nodes /\ t \in Hung /\ Loopless(t)
  <2>1. \A l \in ToSet(c.lines) : l.from # l.to
    BY <1>3 DEF AllProper
  <2>2. t \in Scenes /\ t.nodes = u.nodes
    BY <1>4, <1>5, AddLinesAre
  <2>3. t \in Hung
    BY <1>4, <1>5, <1>8, AddLinesAre
  <2>4. Loopless(t)
    BY <1>4, <1>5, <1>6, <2>1, AddLinesAre
  <2> QED BY <2>2, <2>3, <2>4
<1>10. NodesApart(t) /\ PointSet(t) = V.nodes
  BY <1>5, <1>7, <1>9, SameNodes
<1>11. ASSUME exact PROVE Good(t) /\ Lines(t) = V.lines
  <2>1. Good(u)
    BY <1>1, <1>5, <1>6, <1>11 DEF Good
  <2> DEFINE T == ToSet(c.lines)
  <2>2. T \subseteq V.lines /\ Lines(u) \cup T = V.lines
    BY <1>1, <1>2, <1>3, <1>6, <1>11, LinesPutBack
  <2>3. LinesApart(Lines(u) \cup T)
    BY <2>2 DEF Drawn
  <2>4. \A l \in T : l.from \in PointSet(u) /\ l.to \in PointSet(u) /\ l.from # l.to
    BY <1>7, <2>2 DEF Drawn
  <2>5. Good(t) /\ Lines(t) = Lines(u) \cup T
    BY <1>4, <2>1, <2>3, <2>4, AddLinesGood
  <2> QED BY <2>2, <2>5
<1>12. t.sound /\ (exact => FacesApart(t) /\ Lines(t) = V.lines)
  BY <1>11 DEF Good
<1>13. Hang(t)
  BY <1>9, <1>12 DEF Hung
<1> QED BY <1>9, <1>10, <1>12, <1>13, ShowsIt

\* Lines are added, and removed again.
LEMMA LinesAdded ==
    ASSUME NEW exact \in BOOLEAN, NEW s, Fine(exact, s), NEW ls \in Seq(LineRecs),
           \A l \in ToSet(ls) : l.from # l.to,
           exact => \A l \in ToSet(ls) : l.from \in PointSet(s) /\ l.to \in PointSet(s),
           NEW W, Seen(exact, W), W.nodes = PointSet(s),
           exact => W.lines = Lines(s) \cup ToSet(ls) /\ LinesApart(W.lines),
           NEW t, t = AddLines(s, ls), exact \/ t.sound
    PROVE  Shows(exact, t, W)
<1>1. /\ s \in Scenes /\ s.sound /\ NodesApart(s) /\ Hang(s) /\ Loopless(s) /\ s \in Hung
      /\ exact => Good(s)
  BY ViewIs
<1>2. t \in Scenes /\ t.nodes = s.nodes
  BY <1>1, AddLinesAre
<1>3. t \in Hung
  BY <1>1, AddLinesAre
<1>4. Loopless(t)
  BY <1>1, AddLinesAre
<1>5. NodesApart(t) /\ PointSet(t) = W.nodes
  BY <1>1, <1>2, SameNodes
<1>6. ASSUME exact PROVE Good(t) /\ Lines(t) = W.lines
  <2>1. \A l \in ToSet(ls) : l.from \in PointSet(s) /\ l.to \in PointSet(s) /\ l.from # l.to
    BY <1>6
  <2>2. LinesApart(Lines(s) \cup ToSet(ls)) /\ Good(s)
    BY <1>1, <1>6
  <2>3. Good(t) /\ Lines(t) = Lines(s) \cup ToSet(ls)
    BY <2>1, <2>2, AddLinesGood
  <2> QED BY <1>6, <2>3
<1>7. t.sound /\ (exact => FacesApart(t) /\ Lines(t) = W.lines)
  BY <1>6 DEF Good
<1>8. Hang(t)
  BY <1>3, <1>7 DEF Hung
<1> QED BY <1>2, <1>4, <1>5, <1>7, <1>8, ShowsIt

LEMMA LinesRemoved ==
    ASSUME NEW exact \in BOOLEAN, NEW s, Fine(exact, s), NEW ls \in Seq(LineRecs),
           NEW W, Seen(exact, W), W.nodes = PointSet(s),
           exact => ToSet(ls) \subseteq Lines(s) /\ W.lines = Lines(s) \ ToSet(ls),
           NEW t, t = RemoveLines(s, ls)
    PROVE  Shows(exact, t, W)
<1>1. /\ s \in Scenes /\ s.sound /\ NodesApart(s) /\ Hang(s) /\ Loopless(s) /\ s \in Hung
      /\ exact => Good(s)
  BY ViewIs
<1>2. t \in Scenes /\ t.nodes = s.nodes /\ t.sound /\ t \in Hung /\ Loopless(t)
  BY <1>1, RemoveLinesAre
<1>3. NodesApart(t) /\ PointSet(t) = W.nodes
  BY <1>1, <1>2, SameNodes
<1>4. exact => Good(t) /\ Lines(t) = W.lines
  BY <1>1, RemoveLinesGood
<1>5. exact => FacesApart(t) /\ Lines(t) = W.lines
  BY <1>4 DEF Good
<1>6. Hang(t)
  BY <1>2 DEF Hung
<1> QED BY <1>2, <1>3, <1>5, <1>6, ShowsIt

\* One line becomes another.
LEMMA LineReplaced ==
    ASSUME NEW exact \in BOOLEAN, NEW s, Fine(exact, s), NEW l \in LineRecs, NEW m \in LineRecs,
           m.from # m.to, exact => m.from \in PointSet(s) /\ m.to \in PointSet(s),
           NEW W, Seen(exact, W), W.nodes = PointSet(s),
           exact => /\ l \in Lines(s) /\ W.lines = (Lines(s) \ {l}) \cup {m}
                    /\ \A n \in Lines(s) \ {l} : Joined(n) # Joined(m),
           NEW t, t = SetFace(s, GetFace(s, l), m), exact \/ t.sound
    PROVE  Shows(exact, t, W)
<1> DEFINE i == GetFace(s, l)
<1>1. /\ s \in Scenes /\ s.sound /\ NodesApart(s) /\ Hang(s) /\ Loopless(s) /\ s \in Hung
      /\ exact => Good(s)
  BY ViewIs
<1>2. i \in {0} \cup DOMAIN s.faces
  BY <1>1, GetFaceIs
<1>3. t = SetFace(s, i, m)
  OBVIOUS
<1> HIDE DEF i
<1>4. t \in Scenes /\ t.nodes = s.nodes
  BY <1>1, <1>2, <1>3, SetFaceIs
<1>5. t \in Hung
  BY <1>1, <1>2, <1>3, SetFaceIs
<1>6. Loopless(t)
  BY <1>1, <1>2, <1>3, SetFaceIs
<1>7. NodesApart(t) /\ PointSet(t) = W.nodes
  BY <1>1, <1>4, SameNodes
<1>8. ASSUME exact PROVE Good(t) /\ Lines(t) = W.lines
  <2>1. Good(s) /\ l \in Lines(s) /\ LinesApart(Lines(s)) /\ Lines(s) \subseteq Lines(s)
    BY <1>1, <1>8, LinesOfGood
  <2>2. i \in DOMAIN s.faces /\ LineOf(s, s.faces[i]) = l
    BY <2>1, GetFaceGood DEF i
  <2>3. \A n \in Lines(s) \ {l} : Joined(n) # Joined(m)
    BY <1>8
  <2>4. m.from \in PointSet(s) /\ m.to \in PointSet(s)
    BY <1>8
  <2>5. Good(t) /\ Lines(t) = (Lines(s) \ {l}) \cup {m}
    BY <1>3, <2>1, <2>2, <2>3, <2>4, SetFaceGood
  <2> QED BY <1>8, <2>5
<1>9. t.sound /\ (exact => FacesApart(t) /\ Lines(t) = W.lines)
  BY <1>8 DEF Good
<1>10. Hang(t)
  BY <1>5, <1>9 DEF Hung
<1> QED BY <1>4, <1>6, <1>7, <1>9, <1>10, ShowsIt

\* A command that is redone where it should be does what it should.
LEMMA RedoDoes ==
    ASSUME NEW exact \in BOOLEAN, NEW s, Fine(exact, s), NEW c, NEW W,
           Does(exact, c, View(exact, s), W), NEW t, t = Redo(s, c), exact \/ t.sound
    PROVE  Shows(exact, t, W) /\ Fits(exact, Remembered(s, c), View(exact, s), W)
<1> DEFINE V == View(exact, s)
           r == Remembered(s, c)
<1>0. V = View(exact, s) /\ r = Remembered(s, c)
  OBVIOUS
<1>1. /\ V.nodes = PointSet(s) /\ (exact => V.lines = Lines(s)) /\ Seen(exact, V) /\ Drawn(V)
      /\ s \in Scenes
  BY ViewIs
<1> HIDE DEF V, r
<1>2. Seen(exact, W)
  BY DEF Does
<1>3. CASE AddsNodes(c, V, W)
  <2>1. Shows(exact, t, W)
    BY <1>0, <1>2, <1>3, AddsNodesRedone
  <2>2. c \in NodeAdds /\ c \notin NodeRemoves
    BY <1>3 DEF AddsNodes, NodeAdds, NodeRemoves
  <2>3. r = c
    BY <1>0, <2>2, NodeAddsDo
  <2> QED BY <1>0, <1>1, <2>1, <2>2, <2>3 DEF Fits, Recorded
<1>4. CASE MovesNodes(c, V, W)
  <2>1. c \in NodeMoves /\ c \notin NodeRemoves
    BY <1>4 DEF MovesNodes, NodeMoves, NodeRemoves
  <2>2. r = c /\ t = MoveAll(s, c.points, c.new)
    BY <1>0, <2>1, NodeMovesDo
  <2>3. /\ Movable(c.points, c.new, PointSet(s)) /\ W.nodes = MovedSet(c.points, c.new, PointSet(s))
        /\ exact => W.lines = {LineCarried(c.points, c.new, l) : l \in Lines(s)}
    BY <1>1, <1>4 DEF MovesNodes
  <2>4. Shows(exact, t, W)
    BY <1>2, <2>2, <2>3, MovesNodesRedone
  <2> QED BY <1>0, <1>1, <2>1, <2>2, <2>4 DEF Fits, Recorded
<1>5. CASE RemovesNodes(c, V, W)
  <2>1. Shows(exact, t, W) /\ Recorded(exact, r, V)
    BY <1>0, <1>2, <1>5, RemovesNodesRedone
  <2>2. c \in NodeRemoves
    BY <1>5 DEF RemovesNodes
  <2>3. r \in NodeRemoves /\ r.points = c.points
    <3> DEFINE a == DetachAll(s, c.points)
    <3>1. r = [c EXCEPT !.lines = a.lines] /\ c.points \in Seq(Points)
      BY <1>0, <2>2, NodeRemovesDo
    <3>2. a \in Detached
      BY <1>1, <3>1, DetachAllHung
    <3>3. a.lines \in Seq(LineRecs)
      BY <3>2 DEF Detached
    <3> QED BY <2>2, <3>1, <3>3 DEF NodeRemoves
  <2>4. RemovesNodes(r, V, W)
    BY <1>5, <2>3 DEF RemovesNodes
  <2> QED BY <1>0, <1>1, <1>2, <2>1, <2>4 DEF Fits, Does
<1>6. CASE AddsLines(exact, c, V, W)
  <2>1. c \in FaceAdds \cup EdgeAdds /\ c \notin NodeRemoves
    BY <1>6 DEF AddsLines, FaceAdds, EdgeAdds, NodeRemoves
  <2>2. /\ \A l \in ToSet(c.lines) : l.from \in PointSet(s) /\ l.to \in PointSet(s) /\ l.from # l.to
        /\ W.nodes = PointSet(s)
        /\ exact => W.lines = Lines(s) \cup ToSet(c.lines) /\ LinesApart(W.lines)
    BY <1>1, <1>6 DEF AddsLines, On
  <2>3. r = c /\ c.lines \in Seq(LineRecs) /\ t = AddLines(s, c.lines)
    <3>1. CASE c \in EdgeAdds
      BY <1>0, <3>1, EdgeAddsDo
    <3>2. CASE c \in FaceAdds
      <4>1. /\ r = c /\ t = AddLines(AddNodes(s, EndsOfFace(c)), c.lines)
            /\ c.lines \in Seq(LineRecs) /\ EndsOfFace(c) \in Seq(Points)
        BY <1>0, <3>2, FaceAddsDo
      <4>2. /\ ToSet(c.lines) = {c.lines[1]}
            /\ ToSet(EndsOfFace(c)) = {c.lines[1].from, c.lines[1].to}
        BY <3>2, FaceAddsDo
      <4>3. ToSet(EndsOfFace(c)) \subseteq PointSet(s)
        BY <2>2, <4>2
      <4>4. AddNodes(s, EndsOfFace(c)) = s
        BY <1>1, <4>1, <4>3, AddNodesAre
      <4> QED BY <4>1, <4>4
    <3> QED BY <2>1, <3>1, <3>2
  <2>4. Shows(exact, t, W)
    BY <1>2, <2>2, <2>3, LinesAdded
  <2> QED BY <1>0, <1>1, <2>1, <2>3, <2>4 DEF Fits, Recorded
<1>7. CASE RemovesLines(exact, c, V, W)
  <2>1. c \in EdgeRemoves /\ c \notin NodeRemoves
    BY <1>7 DEF RemovesLines, EdgeRemoves, NodeRemoves
  <2>2. r = c /\ c.lines \in Seq(LineRecs) /\ t = RemoveLines(s, c.lines)
    BY <1>0, <2>1, EdgeRemovesDo
  <2>3. /\ W.nodes = PointSet(s)
        /\ exact => ToSet(c.lines) \subseteq Lines(s) /\ W.lines = Lines(s) \ ToSet(c.lines)
    BY <1>1, <1>7 DEF RemovesLines
  <2>4. Shows(exact, t, W)
    BY <1>2, <2>2, <2>3, LinesRemoved
  <2> QED BY <1>0, <1>1, <2>1, <2>2, <2>4 DEF Fits, Recorded
<1>8. CASE EditsLine(exact, c, V, W)
  <2>1. c \in EdgeEdits /\ c \notin NodeRemoves
    BY <1>8 DEF EditsLine, EdgeEdits, NodeRemoves
  <2>2. /\ r = c /\ c.lines[1] \in LineRecs /\ c.new \in LineRecs
        /\ t = SetFace(s, GetFace(s, c.lines[1]), c.new)
    BY <1>0, <2>1, EdgeEditsDo
  <2>3. /\ W.nodes = PointSet(s) /\ c.new.from # c.new.to
        /\ c.new.from \in PointSet(s) /\ c.new.to \in PointSet(s)
        /\ exact => /\ c.lines[1] \in Lines(s)
                    /\ W.lines = (Lines(s) \ {c.lines[1]}) \cup {c.new}
                    /\ \A n \in Lines(s) \ {c.lines[1]} : Joined(n) # Joined(c.new)
    BY <1>1, <1>8 DEF EditsLine
  <2>4. Shows(exact, t, W)
    BY <1>2, <2>2, <2>3, LineReplaced
  <2> QED BY <1>0, <1>1, <2>1, <2>2, <2>4 DEF Fits, Recorded
<1> QED BY <1>0, <1>3, <1>4, <1>5, <1>6, <1>7, <1>8 DEF Does

\* A command that was redone where V was seen shows V again when it is undone.
LEMMA UndoFits ==
    ASSUME NEW exact \in BOOLEAN, NEW s, Fine(exact, s), NEW c, NEW V,
           Fits(exact, c, V, View(exact, s)), NEW t, t = Undo(s, c), exact \/ t.sound
    PROVE  Shows(exact, t, V)
<1> DEFINE W == View(exact, s)
<1>0. W = View(exact, s) /\ Fits(exact, c, V, W)
  OBVIOUS
<1>1. /\ W.nodes = PointSet(s) /\ (exact => W.lines = Lines(s)) /\ s \in Scenes
  BY ViewIs
<1> HIDE DEF W
<1>2. Seen(exact, V) /\ Drawn(V) /\ Recorded(exact, c, V) /\ V \in Views
  BY <1>0 DEF Fits, Does, Seen
<1>3. CASE AddsNodes(c, V, W)
  BY <1>0, <1>2, <1>3, AddsNodesUndone
<1>4. CASE MovesNodes(c, V, W)
  <2>1. /\ c \in NodeMoves /\ Movable(c.points, c.new, V.nodes)
        /\ W.nodes = MovedSet(c.points, c.new, V.nodes)
        /\ W.lines = {LineCarried(c.points, c.new, l) : l \in V.lines}
    BY <1>4 DEF MovesNodes
  <2>2. t = MoveAll(s, c.new, c.points)
    BY <2>1, NodeMovesDo
  <2>3. Movable(c.new, c.points, PointSet(s))
    BY <1>1, <2>1, CarriedBack
  <2>4. V.nodes = MovedSet(c.new, c.points, PointSet(s))
    BY <1>1, <2>1, CarriedBack
  <2>5. V.lines = {LineCarried(c.new, c.points, l) : l \in W.lines}
    BY <1>2, <2>1, LinesCarriedBack
  <2>6. exact => V.lines = {LineCarried(c.new, c.points, l) : l \in Lines(s)}
    BY <1>1, <2>5
  <2> QED BY <1>2, <2>2, <2>3, <2>4, <2>6, MovesNodesRedone
<1>5. CASE RemovesNodes(c, V, W)
  BY <1>0, <1>2, <1>5, RemovesNodesUndone
<1>6. CASE AddsLines(exact, c, V, W)
  <2>1. /\ c \in FaceAdds \cup EdgeAdds /\ V.nodes = PointSet(s)
        /\ exact => ToSet(c.lines) \subseteq Lines(s) /\ V.lines = Lines(s) \ ToSet(c.lines)
    BY <1>1, <1>6 DEF AddsLines
  <2>2. t = RemoveLines(s, c.lines) /\ c.lines \in Seq(LineRecs)
    BY <2>1, FaceAddsDo, EdgeAddsDo
  <2> QED BY <1>2, <2>1, <2>2, LinesRemoved
<1>7. CASE RemovesLines(exact, c, V, W)
  <2>1. /\ c \in EdgeRemoves /\ V.nodes = PointSet(s)
        /\ \A l \in ToSet(c.lines) : l.from \in V.nodes /\ l.to \in V.nodes /\ l.from # l.to
        /\ exact => V.lines = Lines(s) \cup ToSet(c.lines)
    BY <1>1, <1>7 DEF RemovesLines, On
  <2>2. t = AddLines(s, c.lines) /\ c.lines \in Seq(LineRecs)
    BY <2>1, EdgeRemovesDo
  <2>3. LinesApart(V.lines)
    BY <1>2 DEF Drawn
  <2> QED BY <1>2, <2>1, <2>2, <2>3, LinesAdded
<1>8. CASE EditsLine(exact, c, V, W)
  <2> DEFINE l == c.lines[1]
             m == c.new
  <2>1. /\ c \in EdgeEdits /\ V.nodes = PointSet(s) /\ l.from # l.to
        /\ exact => /\ l \in V.lines
                    /\ Lines(s) = (V.lines \ {l}) \cup {m}
                    /\ \A n \in V.lines \ {l} : Joined(n) # Joined(m)
    BY <1>1, <1>8 DEF EditsLine
  <2>2. t = SetFace(s, GetFace(s, m), l) /\ l \in LineRecs /\ m \in LineRecs
    BY <2>1, EdgeEditsDo
  <2> HIDE DEF l, m
  <2>3. exact => /\ m \in Lines(s) /\ V.lines = (Lines(s) \ {m}) \cup {l}
                 /\ l.from \in PointSet(s) /\ l.to \in PointSet(s)
                 /\ \A n \in Lines(s) \ {m} : Joined(n) # Joined(l)
    <3> SUFFICES ASSUME exact
                 PROVE  /\ m \in Lines(s) /\ V.lines = (Lines(s) \ {m}) \cup {l}
                        /\ l.from \in PointSet(s) /\ l.to \in PointSet(s)
                        /\ \A n \in Lines(s) \ {m} : Joined(n) # Joined(l)
      OBVIOUS
    <3>1. m \notin V.lines \ {l}
      BY <2>1
    <3>2. \A n \in V.lines \ {l} : Joined(n) # Joined(l)
      BY <1>2, <2>1 DEF Drawn, LinesApart
    <3>3. l.from \in V.nodes /\ l.to \in V.nodes
      BY <1>2, <2>1 DEF Drawn
    <3> QED BY <2>1, <3>1, <3>2, <3>3
  <2> QED BY <1>2, <2>1, <2>2, <2>3, LineReplaced
<1> QED BY <1>0, <1>3, <1>4, <1>5, <1>6, <1>7, <1>8 DEF Fits, Does

-----------------------------------------------------------------------------
(* The items of the stack.                                                 *)

\* One command of an item is redone; a is what the commands before it made.
Redone(a, c) ==
    [scene |-> Redo(a.scene, c), item |-> Append(a.item, Remembered(a.scene, c))]

RedoneItems == [scene : Scenes, item : Seq(Commands)]

LEMMA KeepsOn ==
    ASSUME NEW s, NEW t, NEW u, Keeps(s, t), Keeps(t, u)
    PROVE  Keeps(s, u)
BY DEF Keeps

LEMMA RedoneIs ==
    ASSUME NEW a \in RedoneItems, NEW c \in Commands, NEW b, b = Redone(a, c)
    PROVE  /\ b \in RedoneItems /\ Keeps(a.scene, b.scene)
           /\ b.scene = Redo(a.scene, c)
           /\ b.item = Append(a.item, Remembered(a.scene, c))
           /\ a.item \in Seq(Commands) /\ Remembered(a.scene, c) \in Commands
<1>1. a.scene \in Scenes /\ a.item \in Seq(Commands)
  BY DEF RedoneItems
<1>2. Keeps(a.scene, Redo(a.scene, c)) /\ Remembered(a.scene, c) \in Commands
  BY <1>1, RedoKeeps
<1>3. b.scene = Redo(a.scene, c) /\ b.item = Append(a.item, Remembered(a.scene, c))
      /\ b = [scene |-> b.scene, item |-> b.item]
  BY DEF Redone
<1>4. b.scene \in Scenes
  BY <1>2, <1>3 DEF Keeps
<1> HIDE DEF Commands
<1>5. b.item \in Seq(Commands)
  BY <1>1, <1>2, <1>3
<1> QED BY <1>1, <1>2, <1>3, <1>4, <1>5 DEF RedoneItems

\* The beginning of a redo.
LEMMA RedoStarts ==
    ASSUME NEW s \in Scenes
    PROVE  [scene |-> s, item |-> <<>>] \in RedoneItems
BY DEF RedoneItems

\* The commands of an item are redone one after the other.
LEMMA RedoItemFollows ==
    ASSUME NEW s \in Scenes, NEW item \in Seq(Commands)
    PROVE  \E f : /\ f[0] = [scene |-> s, item |-> <<>>]
                  /\ \A k \in 0 .. Len(item) - 1 : f[k + 1] = Redone(f[k], item[k + 1])
                  /\ RedoItem(s, item) = f[Len(item)]
<1> DEFINE N == Len(item)
           step == [i \in 1 .. N |-> [x \in RedoneItems |-> Redone(x, item[i])]]
           Rec(g) == g = [k \in 0 .. N |->
               IF k = 0 THEN [scene |-> s, item |-> <<>>] ELSE Redone(g[k - 1], item[k])]
           f == CHOOSE g : Rec(g)
<1>1. N \in Nat /\ DOMAIN item = 1 .. N /\ \A i \in 1 .. N : item[i] \in Commands
  OBVIOUS
<1>2. StaysIn(RedoneItems, N, step)
  BY <1>1, RedoneIs DEF StaysIn
<1>3. PICK h : Follows(h, RedoneItems, N, [scene |-> s, item |-> <<>>], step)
  <2> HIDE DEF step
  <2> QED BY <1>1, <1>2, RedoStarts, RecursionExists
<1>4. h = [k \in 0 .. N |-> IF k = 0 THEN [scene |-> s, item |-> <<>>] ELSE step[k][h[k - 1]]]
  <2> HIDE DEF step
  <2> QED BY <1>1, <1>3, FollowsIs
<1>5. \A k \in 1 .. N : step[k][h[k - 1]] = Redone(h[k - 1], item[k])
  <2>1. \A k \in 1 .. N : h[k - 1] \in RedoneItems
    BY <1>1, <1>3 DEF Follows
  <2> QED BY <2>1
<1>6. Rec(h)
  <2> HIDE DEF step
  <2>1. \A k \in 0 .. N : k # 0 => k \in 1 .. N
    BY <1>1
  <2> QED BY <1>4, <1>5, <2>1
<1>7. Rec(f)
  <2> HIDE DEF Rec
  <2> QED BY <1>6
<1>8. \A k \in 0 .. N : f[k] = IF k = 0 THEN [scene |-> s, item |-> <<>>] ELSE Redone(f[k - 1], item[k])
  <2> HIDE DEF f
  <2> QED BY <1>7
<1>9. RedoItem(s, item) = f[N]
  BY Zenon DEF RedoItem, Redone, AfterAll, f, Rec, N
<1> HIDE DEF f
<1>10. ASSUME NEW k \in 0 .. N - 1 PROVE f[k + 1] = Redone(f[k], item[k + 1])
  <2>1. k + 1 \in 0 .. N /\ k + 1 # 0 /\ (k + 1) - 1 = k
    BY <1>1
  <2> QED BY <1>8, <2>1
<1>11. f[0] = [scene |-> s, item |-> <<>>]
  BY <1>1, <1>8
<1> QED BY <1>9, <1>10, <1>11

UndoAll(s, list) == AfterAll(Undo, s, list)

\* Commands are undone one after the other.
LEMMA UndoFollows ==
    ASSUME NEW s \in Scenes, NEW list \in Seq(Commands)
    PROVE  \E f : /\ f[0] = s
                  /\ \A k \in 0 .. Len(list) - 1 : f[k + 1] = Undo(f[k], list[k + 1])
                  /\ UndoAll(s, list) = f[Len(list)]
<1> DEFINE N == Len(list)
           step == [i \in 1 .. N |-> [x \in Scenes |-> Undo(x, list[i])]]
           Rec(g) == g = [k \in 0 .. N |->
               IF k = 0 THEN s ELSE Undo(g[k - 1], list[k])]
           f == CHOOSE g : Rec(g)
<1>1. N \in Nat /\ DOMAIN list = 1 .. N /\ \A i \in 1 .. N : list[i] \in Commands
  OBVIOUS
<1>2. StaysIn(Scenes, N, step)
  BY <1>1, UndoKeeps DEF StaysIn, Keeps
<1>3. PICK h : Follows(h, Scenes, N, s, step)
  <2> HIDE DEF step
  <2> QED BY <1>1, <1>2, RecursionExists
<1>4. h = [k \in 0 .. N |-> IF k = 0 THEN s ELSE step[k][h[k - 1]]]
  <2> HIDE DEF step
  <2> QED BY <1>1, <1>3, FollowsIs
<1>5. \A k \in 1 .. N : step[k][h[k - 1]] = Undo(h[k - 1], list[k])
  <2>1. \A k \in 1 .. N : h[k - 1] \in Scenes
    BY <1>1, <1>3 DEF Follows
  <2> QED BY <2>1
<1>6. Rec(h)
  <2> HIDE DEF step
  <2>1. \A k \in 0 .. N : k # 0 => k \in 1 .. N
    BY <1>1
  <2> QED BY <1>4, <1>5, <2>1
<1>7. Rec(f)
  <2> HIDE DEF Rec
  <2> QED BY <1>6
<1>8. \A k \in 0 .. N : f[k] = IF k = 0 THEN s ELSE Undo(f[k - 1], list[k])
  <2> HIDE DEF f
  <2> QED BY <1>7
<1>9. UndoAll(s, list) = f[N]
  BY Zenon DEF UndoAll, AfterAll, f, Rec, N
<1> HIDE DEF f
<1>10. ASSUME NEW k \in 0 .. N - 1 PROVE f[k + 1] = Undo(f[k], list[k + 1])
  <2>1. k + 1 \in 0 .. N /\ k + 1 # 0 /\ (k + 1) - 1 = k
    BY <1>1
  <2> QED BY <1>8, <2>1
<1>11. f[0] = s
  BY <1>1, <1>8
<1> QED BY <1>9, <1>10, <1>11

\* Whatever the scene: an item that is redone keeps what every command keeps.
LEMMA RedoItemIs ==
    ASSUME NEW s \in Scenes, NEW item \in Seq(Commands), NEW t, t = RedoItem(s, item)
    PROVE  t \in RedoneItems /\ Keeps(s, t.scene)
<1> DEFINE N == Len(item)
<1>1. N \in Nat /\ DOMAIN item = 1 .. N /\ \A i \in 1 .. N : item[i] \in Commands
  OBVIOUS
<1>2. PICK f : /\ f[0] = [scene |-> s, item |-> <<>>]
               /\ \A k \in 0 .. N - 1 : f[k + 1] = Redone(f[k], item[k + 1])
               /\ t = f[N]
  BY RedoItemFollows
<1> DEFINE Is(k, u) == u \in RedoneItems /\ Keeps(s, u.scene)
           Done == {k \in 0 .. N : Is(k, f[k])}
<1>3. 0 \in Done
  BY <1>1, <1>2, RedoStarts DEF Keeps
<1>4. ASSUME NEW k \in 0 .. N - 1, k \in Done PROVE k + 1 \in Done
  <2> DEFINE u == f[k]
             v == f[k + 1]
  <2>1. k + 1 \in 1 .. N /\ k + 1 \in 0 .. N /\ item[k + 1] \in Commands
    BY <1>1
  <2>2. Is(k, u)
    BY <1>4
  <2>3. v = Redone(u, item[k + 1])
    BY <1>2
  <2> HIDE DEF u, v
  <2>4. v \in RedoneItems /\ Keeps(u.scene, v.scene)
    BY <2>1, <2>2, <2>3, RedoneIs
  <2>5. Is(k + 1, v)
    BY <2>2, <2>4, KeepsOn
  <2> HIDE DEF Is
  <2> QED BY <2>1, <2>5 DEF v
<1> HIDE DEF Done
<1>5. \A k \in 0 .. N : k \in Done
  <2>1. \A k \in 0 .. N - 1 : k \in Done => k + 1 \in Done
    BY <1>4
  <2> QED BY <1>1, <1>3, <2>1, SetInduction
<1>6. N \in Done
  BY <1>1, <1>5
<1>7. Is(N, t)
  BY <1>2, <1>6 DEF Done
<1> QED BY <1>7

\* The commands from the last to the first.
LEMMA ReverseIs ==
    ASSUME NEW T, NEW list \in Seq(T), NEW back, back = Reverse(list)
    PROVE  /\ back \in Seq(T) /\ Len(back) = Len(list)
           /\ \A i \in 1 .. Len(list) : back[i] = list[Len(list) - i + 1]
<1>1. back = [i \in 1 .. Len(list) |-> list[(Len(list) - i) + 1]]
  BY DEF Reverse
<1>2. Len(list) \in Nat /\ \A i \in 1 .. Len(list) : (Len(list) - i) + 1 \in 1 .. Len(list)
  OBVIOUS
<1>3. \A i \in 1 .. Len(list) : list[(Len(list) - i) + 1] \in T
  BY <1>2
<1> QED BY <1>1, <1>2, <1>3

LEMMA UndoItemIs ==
    ASSUME NEW s \in Scenes, NEW item \in Seq(Commands), NEW t, t = UndoItem(s, item)
    PROVE  Keeps(s, t)
<1> DEFINE N == Len(item)
           back == Reverse(item)
<1>0. back \in Seq(Commands) /\ Len(back) = N
  BY ReverseIs
<1>1. N \in Nat /\ \A i \in 1 .. N : back[i] \in Commands
  <2> HIDE DEF back
  <2> QED BY <1>0
<1>2. PICK f : /\ f[0] = s
               /\ \A k \in 0 .. N - 1 : f[k + 1] = Undo(f[k], back[k + 1])
               /\ t = f[N]
  <2>1. t = UndoAll(s, back)
    BY Zenon DEF UndoItem, UndoAll
  <2> HIDE DEF back
  <2> QED BY <1>0, <2>1, UndoFollows
<1> DEFINE Is(k, u) == Keeps(s, u)
           Done == {k \in 0 .. N : Is(k, f[k])}
<1>3. 0 \in Done
  BY <1>1, <1>2 DEF Keeps
<1>4. ASSUME NEW k \in 0 .. N - 1, k \in Done PROVE k + 1 \in Done
  <2> DEFINE u == f[k]
             v == f[k + 1]
  <2>1. k + 1 \in 1 .. N /\ k + 1 \in 0 .. N /\ back[k + 1] \in Commands
    BY <1>1
  <2>2. Is(k, u) /\ u \in Scenes
    BY <1>4 DEF Keeps
  <2>3. v = Undo(u, back[k + 1])
    BY <1>2
  <2> HIDE DEF u, v, back
  <2>4. Keeps(u, v)
    BY <2>1, <2>2, <2>3, UndoKeeps
  <2>5. Is(k + 1, v)
    BY <2>2, <2>4, KeepsOn
  <2> HIDE DEF Is
  <2> QED BY <2>1, <2>5 DEF v
<1> HIDE DEF Done
<1>5. \A k \in 0 .. N : k \in Done
  <2>1. \A k \in 0 .. N - 1 : k \in Done => k + 1 \in Done
    BY <1>4
  <2> QED BY <1>1, <1>3, <2>1, SetInduction
<1>6. N \in Done
  BY <1>1, <1>5
<1>7. Is(N, t)
  BY <1>2, <1>6 DEF Done
<1> QED BY <1>7

\* What is seen before, between and after the commands of an item: mid.
DoesThrough(exact, item, mid) ==
    \A k \in 1 .. Len(item) : Does(exact, item[k], mid[k - 1], mid[k])
FitsThrough(exact, item, mid) ==
    \A k \in 1 .. Len(item) : Fits(exact, item[k], mid[k - 1], mid[k])

ItemDoes(exact, item, V, W) ==
    \E mid : mid[0] = V /\ mid[Len(item)] = W /\ DoesThrough(exact, item, mid)
ItemFits(exact, item, V, W) ==
    \E mid : mid[0] = V /\ mid[Len(item)] = W /\ FitsThrough(exact, item, mid)

\* An item that is redone where it should be does what it should.
LEMMA RedoItemDoes ==
    ASSUME NEW exact \in BOOLEAN, NEW s, Fine(exact, s), NEW item \in Seq(Commands), NEW W,
           ItemDoes(exact, item, View(exact, s), W),
           NEW t, t = RedoItem(s, item), exact \/ t.scene.sound
    PROVE  Shows(exact, t.scene, W) /\ ItemFits(exact, t.item, View(exact, s), W)
<1> DEFINE N == Len(item)
<1>0. s \in Scenes
  BY ViewIs
<1>1. N \in Nat /\ DOMAIN item = 1 .. N /\ \A i \in 1 .. N : item[i] \in Commands
  OBVIOUS
<1>2. PICK f : /\ f[0] = [scene |-> s, item |-> <<>>]
               /\ \A k \in 0 .. N - 1 : f[k + 1] = Redone(f[k], item[k + 1])
               /\ t = f[N]
  BY <1>0, RedoItemFollows
<1>9. PICK mid : mid[0] = View(exact, s) /\ mid[N] = W /\ DoesThrough(exact, item, mid)
  BY DEF ItemDoes
<1> DEFINE Sound(u) == exact \/ u.scene.sound
           Is(k, u) == /\ u \in RedoneItems /\ Len(u.item) = k
                       /\ Sound(u) => Shows(exact, u.scene, mid[k]) /\ FitsThrough(exact, u.item, mid)
           Done == {k \in 0 .. N : Is(k, f[k])}
<1>3. 0 \in Done
  <2>1. f[0] \in RedoneItems /\ f[0].scene = s /\ Len(f[0].item) = 0
    BY <1>0, <1>2, RedoStarts
  <2>2. Shows(exact, s, mid[0])
    BY <1>9 DEF Shows
  <2>3. FitsThrough(exact, f[0].item, mid)
    BY <2>1 DEF FitsThrough
  <2> QED BY <1>1, <2>1, <2>2, <2>3
<1>4. ASSUME NEW k \in 0 .. N - 1, k \in Done PROVE k + 1 \in Done
  <2> DEFINE u == f[k]
             v == f[k + 1]
             c == item[k + 1]
  <2>1. k + 1 \in 1 .. N /\ k + 1 \in 0 .. N /\ c \in Commands /\ (k + 1) - 1 = k
    BY <1>1
  <2>2. Is(k, u)
    BY <1>4
  <2>3. v = Redone(u, c)
    BY <1>2
  <2>4. Does(exact, c, mid[k], mid[k + 1])
    BY <1>9, <2>1 DEF DoesThrough
  <2> HIDE DEF u, v, c
  <2>5. /\ v \in RedoneItems /\ Keeps(u.scene, v.scene) /\ v.scene = Redo(u.scene, c)
        /\ Len(v.item) = k + 1 /\ v.item[k + 1] = Remembered(u.scene, c)
        /\ \A j \in 1 .. k : v.item[j] = u.item[j]
    <3>1. u \in RedoneItems /\ Len(u.item) = k
      BY <2>2
    <3>2. v \in RedoneItems /\ Keeps(u.scene, v.scene) /\ v.scene = Redo(u.scene, c)
      BY <2>1, <2>3, <3>1, RedoneIs
    <3>3. /\ v.item = Append(u.item, Remembered(u.scene, c))
          /\ u.item \in Seq(Commands) /\ Remembered(u.scene, c) \in Commands
      BY <2>1, <2>3, <3>1, RedoneIs
    <3> QED BY <3>1, <3>2, <3>3
  <2>6. ASSUME Sound(v)
        PROVE  Shows(exact, v.scene, mid[k + 1]) /\ FitsThrough(exact, v.item, mid)
    <3>1. Sound(u)
      BY <2>5, <2>6 DEF Keeps
    <3>2. Fine(exact, u.scene) /\ View(exact, u.scene) = mid[k] /\ FitsThrough(exact, u.item, mid)
      BY <2>2, <3>1 DEF Shows
    <3>3. /\ Shows(exact, v.scene, mid[k + 1])
          /\ Fits(exact, Remembered(u.scene, c), mid[k], mid[k + 1])
      BY <2>4, <2>5, <2>6, <3>2, RedoDoes
    <3>4. Fits(exact, v.item[k + 1], mid[k], mid[k + 1])
      BY <2>5, <3>3
    <3>5. ASSUME NEW j \in 1 .. k + 1 PROVE Fits(exact, v.item[j], mid[j - 1], mid[j])
      <4>1. CASE j = k + 1
        BY <2>1, <3>4, <4>1
      <4>2. CASE j # k + 1
        <5>1. j \in 1 .. k
          BY <4>2
        <5>2. Fits(exact, u.item[j], mid[j - 1], mid[j])
          BY <2>2, <3>2, <5>1 DEF FitsThrough
        <5> QED BY <2>5, <5>1, <5>2
      <4> QED BY <4>1, <4>2
    <3>6. FitsThrough(exact, v.item, mid)
      BY <2>5, <3>5 DEF FitsThrough
    <3> QED BY <3>3, <3>6
  <2>7. Is(k + 1, v)
    BY <2>5, <2>6
  <2> HIDE DEF Is
  <2> QED BY <2>1, <2>7 DEF v
<1> HIDE DEF Done
<1>5. \A k \in 0 .. N : k \in Done
  <2>1. \A k \in 0 .. N - 1 : k \in Done => k + 1 \in Done
    BY <1>4
  <2> QED BY <1>1, <1>3, <2>1, SetInduction
<1>6. N \in Done
  BY <1>1, <1>5
<1>7. Is(N, t)
  BY <1>2, <1>6 DEF Done
<1>8. Shows(exact, t.scene, mid[N]) /\ FitsThrough(exact, t.item, mid) /\ Len(t.item) = N
  BY <1>7
<1> QED BY <1>8, <1>9 DEF ItemFits

\* An item that was redone where V was seen shows V again when it is undone.
LEMMA UndoItemFits ==
    ASSUME NEW exact \in BOOLEAN, NEW s, Fine(exact, s), NEW item \in Seq(Commands), NEW V,
           ItemFits(exact, item, V, View(exact, s)),
           NEW t, t = UndoItem(s, item), exact \/ t.sound
    PROVE  Shows(exact, t, V)
<1> DEFINE N == Len(item)
           back == Reverse(item)
<1>0. /\ back \in Seq(Commands) /\ Len(back) = N /\ s \in Scenes
      /\ \A i \in 1 .. N : back[i] = item[N - i + 1]
  BY ReverseIs, ViewIs
<1>1. N \in Nat /\ \A i \in 1 .. N : back[i] \in Commands
  <2> HIDE DEF back
  <2> QED BY <1>0
<1>2. PICK f : /\ f[0] = s
               /\ \A k \in 0 .. N - 1 : f[k + 1] = Undo(f[k], back[k + 1])
               /\ t = f[N]
  <2>1. t = UndoAll(s, back)
    BY Zenon DEF UndoItem, UndoAll
  <2> HIDE DEF back
  <2> QED BY <1>0, <2>1, UndoFollows
<1>9. PICK mid : mid[0] = V /\ mid[N] = View(exact, s) /\ FitsThrough(exact, item, mid)
  BY DEF ItemFits
<1> DEFINE Is(k, u) == u \in Scenes /\ (exact \/ u.sound => Shows(exact, u, mid[N - k]))
           Done == {k \in 0 .. N : Is(k, f[k])}
<1>3. 0 \in Done
  <2>1. N - 0 = N
    BY <1>1
  <2>2. Shows(exact, f[0], mid[N - 0])
    BY <1>2, <1>9, <2>1 DEF Shows
  <2> QED BY <1>0, <1>1, <1>2, <2>2
<1>4. ASSUME NEW k \in 0 .. N - 1, k \in Done PROVE k + 1 \in Done
  <2> DEFINE u == f[k]
             v == f[k + 1]
             c == item[N - k]
             j == N - k
  <2>1. /\ k + 1 \in 1 .. N /\ k + 1 \in 0 .. N /\ j \in 1 .. N /\ N - (k + 1) = j - 1
        /\ N - (k + 1) + 1 = j
    BY <1>1
  <2>2. Is(k, u)
    BY <1>4
  <2>3. back[k + 1] = c
    BY <1>0, <2>1
  <2>4. v = Undo(u, c)
    BY <1>2, <2>3
  <2>5. c \in Commands
    BY <1>1, <2>1, <2>3
  <2>6. Fits(exact, c, mid[j - 1], mid[j])
    BY <1>9, <2>1 DEF FitsThrough
  <2> HIDE DEF u, v, c, j
  <2>7. Keeps(u, v)
    BY <2>2, <2>4, <2>5, UndoKeeps
  <2>8. ASSUME exact \/ v.sound PROVE Shows(exact, v, mid[j - 1])
    <3>1. Shows(exact, u, mid[j])
      BY <2>2, <2>7, <2>8 DEF Keeps, j
    <3>2. Fine(exact, u) /\ View(exact, u) = mid[j]
      BY <3>1 DEF Shows
    <3> QED BY <2>4, <2>6, <2>8, <3>2, UndoFits
  <2>9. Is(k + 1, v)
    BY <2>1, <2>7, <2>8 DEF Keeps
  <2> HIDE DEF Is
  <2> QED BY <2>1, <2>9 DEF v
<1> HIDE DEF Done
<1>5. \A k \in 0 .. N : k \in Done
  <2>1. \A k \in 0 .. N - 1 : k \in Done => k + 1 \in Done
    BY <1>4
  <2> QED BY <1>1, <1>3, <2>1, SetInduction
<1>6. N \in Done
  BY <1>1, <1>5
<1>7. Is(N, t)
  BY <1>2, <1>6 DEF Done
<1>8. N - N = 0
  BY <1>1
<1> QED BY <1>7, <1>8, <1>9

\* Items of no command, of one, and of two.
LEMMA NoCommand ==
    ASSUME NEW exact, NEW V
    PROVE  <<>> \in Seq(Commands) /\ ItemDoes(exact, <<>>, V, V)
<1> DEFINE mid == [k \in {0} |-> V]
<1>1. mid[0] = V /\ Len(<<>>) = 0 /\ DoesThrough(exact, <<>>, mid)
  BY DEF DoesThrough
<1> QED BY <1>1 DEF ItemDoes

LEMMA OneCommand ==
    ASSUME NEW exact, NEW c \in Commands, NEW V, NEW W, Does(exact, c, V, W)
    PROVE  <<c>> \in Seq(Commands) /\ ItemDoes(exact, <<c>>, V, W)
<1> DEFINE mid == [k \in 0 .. 1 |-> IF k = 0 THEN V ELSE W]
<1>1. mid[0] = V /\ mid[1] = W /\ Len(<<c>>) = 1 /\ <<c>>[1] = c
  OBVIOUS
<1>2. DoesThrough(exact, <<c>>, mid)
  <2>1. ASSUME NEW k \in 1 .. Len(<<c>>) PROVE k = 1
    BY <1>1
  <2> QED BY <1>1, <2>1 DEF DoesThrough
<1> QED BY <1>1, <1>2 DEF ItemDoes

LEMMA OneCommandFits ==
    ASSUME NEW exact, NEW c \in Commands, NEW V, NEW W, Fits(exact, c, V, W)
    PROVE  <<c>> \in Seq(Commands) /\ ItemFits(exact, <<c>>, V, W)
<1> DEFINE mid == [k \in 0 .. 1 |-> IF k = 0 THEN V ELSE W]
<1>1. mid[0] = V /\ mid[1] = W /\ Len(<<c>>) = 1 /\ <<c>>[1] = c
  OBVIOUS
<1>2. FitsThrough(exact, <<c>>, mid)
  <2>1. ASSUME NEW k \in 1 .. Len(<<c>>) PROVE k = 1
    BY <1>1
  <2> QED BY <1>1, <2>1 DEF FitsThrough
<1> QED BY <1>1, <1>2 DEF ItemFits

LEMMA TwoCommands ==
    ASSUME NEW exact, NEW c \in Commands, NEW d \in Commands, NEW V, NEW X, NEW W,
           Does(exact, c, V, X), Does(exact, d, X, W)
    PROVE  <<c, d>> \in Seq(Commands) /\ ItemDoes(exact, <<c, d>>, V, W)
<1> DEFINE mid == [k \in 0 .. 2 |-> IF k = 0 THEN V ELSE IF k = 1 THEN X ELSE W]
<1>1. /\ mid[0] = V /\ mid[1] = X /\ mid[2] = W
      /\ Len(<<c, d>>) = 2 /\ <<c, d>>[1] = c /\ <<c, d>>[2] = d
  OBVIOUS
<1>2. DoesThrough(exact, <<c, d>>, mid)
  <2>1. ASSUME NEW k \in 1 .. Len(<<c, d>>) PROVE k = 1 \/ k = 2
    BY <1>1
  <2> QED BY <1>1, <2>1 DEF DoesThrough
<1> QED BY <1>1, <1>2 DEF ItemDoes

\* The stack between the views: one more view than items.
Walk(exact, items, views) ==
    /\ views \in Seq(Views) /\ Len(views) = Len(items) + 1
    /\ \A k \in 1 .. Len(items) : ItemFits(exact, items[k], views[k], views[k + 1])

Stacks == Seq(Seq(Commands))

\* An item is pushed where the index is; what was undone is discarded.
LEMMA WalkPushed ==
    ASSUME NEW exact, NEW items \in Stacks, NEW views, Walk(exact, items, views),
           NEW at \in 0 .. Len(items), NEW item \in Seq(Commands), NEW W \in Views,
           ItemFits(exact, item, views[at + 1], W)
    PROVE  /\ Append(SubSeq(items, 1, at), item) \in Stacks
           /\ Len(Append(SubSeq(items, 1, at), item)) = at + 1
           /\ Walk(exact, Append(SubSeq(items, 1, at), item), Append(SubSeq(views, 1, at + 1), W))
           /\ Append(SubSeq(views, 1, at + 1), W)[at + 2] = W
<1> DEFINE T == Seq(Commands)
           kept == SubSeq(items, 1, at)
           stk == Append(kept, item)
           seen == SubSeq(views, 1, at + 1)
           vs == Append(seen, W)
<1>1. items \in Seq(T) /\ item \in T /\ views \in Seq(Views) /\ Len(views) = Len(items) + 1
  BY DEF Walk, Stacks
<1>2. \A k \in 1 .. Len(items) : ItemFits(exact, items[k], views[k], views[k + 1])
  BY DEF Walk
<1> HIDE DEF T, Views
<1>3. /\ kept \in Seq(T) /\ Len(kept) = at /\ \A k \in 1 .. at : kept[k] = items[k]
      /\ at \in Nat
  BY <1>1
<1>4. /\ seen \in Seq(Views) /\ Len(seen) = at + 1 /\ \A k \in 1 .. at + 1 : seen[k] = views[k]
  BY <1>1
<1> HIDE DEF kept, seen
<1>5. /\ stk \in Seq(T) /\ Len(stk) = at + 1 /\ stk[at + 1] = item
      /\ \A k \in 1 .. at : stk[k] = items[k]
  BY <1>1, <1>3
<1>6. /\ vs \in Seq(Views) /\ Len(vs) = at + 2 /\ vs[at + 2] = W
      /\ \A k \in 1 .. at + 1 : vs[k] = views[k]
  BY <1>1, <1>3, <1>4
<1> HIDE DEF stk, vs
<1>7. ASSUME NEW k \in 1 .. Len(stk) PROVE ItemFits(exact, stk[k], vs[k], vs[k + 1])
  <2>1. CASE k = at + 1
    <3>1. vs[k] = views[at + 1] /\ vs[k + 1] = W /\ stk[k] = item
      BY <1>3, <1>5, <1>6, <2>1
    <3> QED BY <3>1
  <2>2. CASE k # at + 1
    <3>1. k \in 1 .. at /\ k + 1 \in 1 .. at + 1 /\ k \in 1 .. at + 1 /\ k \in 1 .. Len(items)
      BY <1>3, <1>5, <2>2
    <3>2. vs[k] = views[k] /\ vs[k + 1] = views[k + 1] /\ stk[k] = items[k]
      BY <1>5, <1>6, <3>1
    <3> QED BY <1>2, <3>1, <3>2
  <2> QED BY <2>1, <2>2
<1>8. stk \in Stacks
  BY <1>5 DEF Stacks, T
<1>9. Walk(exact, stk, vs)
  BY <1>3, <1>5, <1>6, <1>7 DEF Walk
<1> QED BY <1>5, <1>6, <1>8, <1>9 DEF stk, vs, kept, seen

\* An item is replaced by another that fits the same views.
LEMMA WalkReplaced ==
    ASSUME NEW exact, NEW items \in Stacks, NEW views, Walk(exact, items, views),
           NEW at \in 1 .. Len(items), NEW item \in Seq(Commands),
           ItemFits(exact, item, views[at], views[at + 1])
    PROVE  /\ [items EXCEPT ![at] = item] \in Stacks
           /\ Len([items EXCEPT ![at] = item]) = Len(items)
           /\ Walk(exact, [items EXCEPT ![at] = item], views)
<1> DEFINE T == Seq(Commands)
           stk == [items EXCEPT ![at] = item]
<1>1. items \in Seq(T) /\ item \in T
  BY DEF Stacks
<1> HIDE DEF T
<1>2. /\ stk \in Seq(T) /\ Len(stk) = Len(items) /\ stk[at] = item
      /\ \A k \in 1 .. Len(items) : k # at => stk[k] = items[k]
  BY <1>1
<1> HIDE DEF stk
<1>3. stk \in Stacks
  BY <1>2 DEF Stacks, T
<1>4. Walk(exact, stk, views)
  BY <1>2 DEF Walk
<1> QED BY <1>2, <1>3, <1>4 DEF stk

-----------------------------------------------------------------------------
(* The stack as it is pushed.                                              *)

\* What the pushes begin with, and what one leaves.
StackNow(s) == [scene |-> s, stack |-> stack, index |-> index, past |-> past]

LEMMA PushedOne ==
    ASSUME NEW s, NEW item
    PROVE  Pushed(s, <<item>>) = PushOn(StackNow(s), item)
<1> DEFINE b == StackNow(s)
           list == <<item>>
           Rec(g) == g = [k \in 0 .. Len(list) |-> IF k = 0 THEN b ELSE PushOn(g[k - 1], list[k])]
           f == CHOOSE g : Rec(g)
           h == [k \in 0 .. 1 |-> IF k = 0 THEN b ELSE PushOn(b, item)]
<1>1. Len(list) = 1 /\ list[1] = item
  OBVIOUS
<1>2. Rec(h)
  <2> DEFINE g == [k \in 0 .. Len(list) |-> IF k = 0 THEN b ELSE PushOn(h[k - 1], list[k])]
  <2>1. \A k \in 0 .. 1 : h[k] = g[k]
    <3> TAKE k \in 0 .. 1
    <3>1. k = 0 \/ k = 1
      OBVIOUS
    <3> QED BY <1>1, <3>1
  <2>2. h = [k \in 0 .. 1 |-> h[k]] /\ g = [k \in 0 .. 1 |-> g[k]]
    BY <1>1
  <2>3. h = g
    <3> HIDE DEF h, g
    <3> QED BY <2>1, <2>2
  <2> QED BY <2>3
<1>3. Rec(f)
  <2> HIDE DEF Rec
  <2> QED BY <1>2
<1>4. \A k \in 0 .. 1 : f[k] = IF k = 0 THEN b ELSE PushOn(f[k - 1], list[k])
  <2> HIDE DEF f
  <2> QED BY <1>1, <1>3
<1>5. Pushed(s, list) = f[Len(list)]
  BY Zenon DEF Pushed, AfterAll, f, Rec, b, StackNow
<1> HIDE DEF f, b
<1>6. f[0] = b /\ f[1] = PushOn(f[0], item)
  BY <1>1, <1>4
<1> QED BY <1>1, <1>5, <1>6 DEF b

LEMMA PushedTwo ==
    ASSUME NEW s, NEW item, NEW next
    PROVE  Pushed(s, <<item, next>>) = PushOn(PushOn(StackNow(s), item), next)
<1> DEFINE b == StackNow(s)
           list == <<item, next>>
           Rec(g) == g = [k \in 0 .. Len(list) |-> IF k = 0 THEN b ELSE PushOn(g[k - 1], list[k])]
           f == CHOOSE g : Rec(g)
           h == [k \in 0 .. 2 |-> IF k = 0 THEN b ELSE IF k = 1 THEN PushOn(b, item)
                                  ELSE PushOn(PushOn(b, item), next)]
<1>1. Len(list) = 2 /\ list[1] = item /\ list[2] = next
  OBVIOUS
<1>2. Rec(h)
  <2> DEFINE g == [k \in 0 .. Len(list) |-> IF k = 0 THEN b ELSE PushOn(h[k - 1], list[k])]
  <2>1. \A k \in 0 .. 2 : h[k] = g[k]
    <3> TAKE k \in 0 .. 2
    <3>1. k = 0 \/ k = 1 \/ k = 2
      OBVIOUS
    <3> QED BY <1>1, <3>1
  <2>2. h = [k \in 0 .. 2 |-> h[k]] /\ g = [k \in 0 .. 2 |-> g[k]]
    BY <1>1
  <2>3. h = g
    <3> HIDE DEF h, g
    <3> QED BY <2>1, <2>2
  <2> QED BY <2>3
<1>3. Rec(f)
  <2> HIDE DEF Rec
  <2> QED BY <1>2
<1>4. \A k \in 0 .. 2 : f[k] = IF k = 0 THEN b ELSE PushOn(f[k - 1], list[k])
  <2> HIDE DEF f
  <2> QED BY <1>1, <1>3
<1>5. Pushed(s, list) = f[Len(list)]
  BY Zenon DEF Pushed, AfterAll, f, Rec, b, StackNow
<1> HIDE DEF f, b
<1>6. f[0] = b /\ f[1] = PushOn(f[0], item) /\ f[2] = PushOn(f[1], next)
  BY <1>1, <1>4
<1> QED BY <1>1, <1>5, <1>6 DEF b

\* Scene, stack and index, whatever is drawn.
Ready(sc, stk, at) == sc \in Hung /\ stk \in Stacks /\ at \in 0 .. Len(stk)

LEMMA PushKeeps ==
    ASSUME NEW done, Ready(done.scene, done.stack, done.index), NEW item \in Seq(Commands),
           NEW d, d = PushOn(done, item)
    PROVE  /\ Ready(d.scene, d.stack, d.index)
           /\ d.scene.sound => done.scene.sound
           /\ d.scene = RedoItem(done.scene, item).scene
           /\ d.index = done.index + 1
           /\ d.stack = Append(SubSeq(done.stack, 1, done.index), RedoItem(done.scene, item).item)
           /\ ordinary /\ d.scene.sound =>
                d.past = Append(SubSeq(done.past, 1, done.index + 1), Picture(d.scene))
<1> DEFINE r == RedoItem(done.scene, item)
           T == Seq(Commands)
<1>1. /\ d.scene = r.scene /\ d.index = done.index + 1
      /\ d.stack = Append(SubSeq(done.stack, 1, done.index), r.item)
      /\ ordinary /\ d.scene.sound =>
                d.past = Append(SubSeq(done.past, 1, done.index + 1), Picture(d.scene))
  BY DEF PushOn
<1>2. done.scene \in Scenes /\ done.scene \in Hung
  BY DEF Ready, Hung
<1>3. r \in RedoneItems /\ Keeps(done.scene, r.scene)
  BY <1>2, RedoItemIs
<1>4. r.item \in T /\ r.scene \in Hung /\ (r.scene.sound => done.scene.sound)
  BY <1>2, <1>3 DEF RedoneItems, Keeps
<1>5. done.stack \in Seq(T) /\ done.index \in 0 .. Len(done.stack)
  BY DEF Ready, Stacks
<1> HIDE DEF r, T
<1>6. d.stack \in Seq(T) /\ Len(d.stack) = done.index + 1 /\ d.index \in 0 .. Len(d.stack)
  BY <1>1, <1>4, <1>5
<1>7. Ready(d.scene, d.stack, d.index)
  BY <1>1, <1>4, <1>6 DEF Ready, Stacks, T
<1> QED BY <1>1, <1>4, <1>7 DEF r

\* What is seen is noted with what is pushed.
LEMMA PastPushed ==
    ASSUME NEW done, NEW item, NEW d, d = PushOn(done, item), ordinary, d.scene.sound
    PROVE  d.past = Append(SubSeq(done.past, 1, done.index + 1), Picture(d.scene))
BY DEF PushOn

\* The scene shows what the stack says at its index.
Goes(exact, sc, stk, at, views) ==
    /\ Fine(exact, sc) /\ Walk(exact, stk, views)
    /\ views[at + 1] = View(exact, sc)

\* What is seen after an item was pushed.
SeenThen(views, at, W) == Append(SubSeq(views, 1, at + 1), W)

LEMMA PushGoes ==
    ASSUME NEW exact \in BOOLEAN, NEW done, Ready(done.scene, done.stack, done.index),
           NEW item \in Seq(Commands), NEW views, Walk(exact, done.stack, views),
           NEW r, r = RedoItem(done.scene, item), NEW W, Shows(exact, r.scene, W),
           ItemFits(exact, r.item, views[done.index + 1], W), NEW d, d = PushOn(done, item)
    PROVE  Goes(exact, d.scene, d.stack, d.index, SeenThen(views, done.index, W))
<1>1. /\ d.scene = r.scene /\ d.index = done.index + 1
      /\ d.stack = Append(SubSeq(done.stack, 1, done.index), r.item)
  BY DEF PushOn
<1>2. Fine(exact, r.scene) /\ W = View(exact, r.scene) /\ W \in Views
  BY ViewIs DEF Shows, Seen
<1>3. done.stack \in Stacks /\ done.index \in 0 .. Len(done.stack) /\ done.scene \in Scenes
  BY DEF Ready, Hung
<1>4. r.item \in Seq(Commands)
  <2>1. r \in RedoneItems
    BY <1>3, RedoItemIs
  <2> QED BY <2>1 DEF RedoneItems
<1>5. Walk(exact, d.stack, SeenThen(views, done.index, W))
  <2>1. Walk(exact, Append(SubSeq(done.stack, 1, done.index), r.item),
                    Append(SubSeq(views, 1, done.index + 1), W))
    BY <1>2, <1>3, <1>4, WalkPushed
  <2> QED BY <1>1, <2>1 DEF SeenThen
<1>6. SeenThen(views, done.index, W)[done.index + 2] = W
  <2>1. Append(SubSeq(views, 1, done.index + 1), W)[done.index + 2] = W
    BY <1>2, <1>3, <1>4, WalkPushed
  <2> QED BY <2>1 DEF SeenThen
<1>7. d.index + 1 = done.index + 2
  BY <1>1, <1>3
<1> QED BY <1>1, <1>2, <1>5, <1>6, <1>7 DEF Goes

\* An item that does what it should where the index is.
LEMMA PushDoes ==
    ASSUME NEW exact \in BOOLEAN, NEW done, Ready(done.scene, done.stack, done.index),
           NEW item \in Seq(Commands), NEW views,
           Goes(exact, done.scene, done.stack, done.index, views), NEW W,
           ItemDoes(exact, item, View(exact, done.scene), W), NEW d, d = PushOn(done, item),
           exact \/ d.scene.sound
    PROVE  Goes(exact, d.scene, d.stack, d.index, SeenThen(views, done.index, W))
<1> DEFINE r == RedoItem(done.scene, item)
<1>1. /\ Fine(exact, done.scene) /\ Walk(exact, done.stack, views)
      /\ views[done.index + 1] = View(exact, done.scene)
  BY DEF Goes
<1>2. d.scene = r.scene
  BY DEF PushOn
<1>3. r = RedoItem(done.scene, item)
  OBVIOUS
<1> HIDE DEF r
<1>4. Shows(exact, r.scene, W)
  BY <1>1, <1>2, <1>3, RedoItemDoes
<1>5. ItemFits(exact, r.item, View(exact, done.scene), W)
  BY <1>1, <1>2, <1>3, RedoItemDoes
<1>6. ItemFits(exact, r.item, views[done.index + 1], W)
  BY <1>1, <1>5
<1> QED BY <1>1, <1>3, <1>4, <1>6, PushGoes

-----------------------------------------------------------------------------
(* The invariant.                                                          *)

AllPlain(views) == \A k \in 1 .. Len(views) : Plain(views[k])

Typed == Ready(scene, stack, index) /\ opens \in Nat /\ ordinary \in BOOLEAN

\* While the document is the same, the points are those that the stack tells.
PointsGo == opens = 0 /\ scene.sound => \E views : Goes(FALSE, scene, stack, index, views)

\* While the ghosts are kept, they are what the stack tells.
PicturesGo == ordinary => Goes(TRUE, scene, stack, index, past) /\ AllPlain(past)

Inv == Typed /\ PointsGo /\ PicturesGo

\* A picture is what is seen with the lines.
LEMMA PictureIs ==
    ASSUME NEW s
    PROVE  View(TRUE, s) = Picture(s) /\ Picture(s).nodes = PointSet(s) /\ Picture(s).lines = Lines(s)
<1>1. Lines(s) = {LineOf(s, s.faces[i]) : i \in DOMAIN s.faces}
  BY DEF Lines, FaceSet
<1>2. View(TRUE, s) = [nodes |-> PointSet(s), lines |-> Lines(s)]
  BY DEF View
<1> QED BY <1>1, <1>2 DEF Picture, PointSet

LEMMA PlainThen ==
    ASSUME NEW views \in Seq(Views), AllPlain(views), NEW at \in 0 .. Len(views) - 1,
           NEW W \in Views, Plain(W)
    PROVE  AllPlain(SeenThen(views, at, W))
<1> DEFINE vs == SeenThen(views, at, W)
<1>1. /\ Len(vs) = at + 2 /\ vs[at + 2] = W /\ at \in Nat
      /\ \A k \in 1 .. at + 1 : vs[k] = views[k] /\ k \in 1 .. Len(views)
  <2> HIDE DEF Views
  <2> QED BY DEF SeenThen
<1> HIDE DEF vs
<1>2. ASSUME NEW k \in 1 .. Len(vs) PROVE Plain(vs[k])
  <2>1. k = at + 2 \/ k \in 1 .. at + 1
    BY <1>1
  <2> QED BY <1>1, <2>1 DEF AllPlain
<1> QED BY <1>2 DEF AllPlain, vs

\* What an edit leaves keeps the invariant when its scene goes with its stack.
LEMMA FinishKeeps ==
    ASSUME Inv, NEW d, Finish(d), scene.sound, Ready(d.scene, d.stack, d.index),
           opens = 0 /\ d.scene.sound => \E views : Goes(FALSE, d.scene, d.stack, d.index, views),
           ordinary /\ d.scene.sound /\ Plain(Picture(d.scene)) =>
                Goes(TRUE, d.scene, d.stack, d.index, d.past) /\ AllPlain(d.past)
    PROVE  Inv'
<1>1. /\ scene' = d.scene /\ stack' = d.stack /\ index' = d.index /\ opens' = opens
      /\ ordinary' = (ordinary /\ d.scene.sound /\ Plain(Picture(d.scene)))
      /\ past' = IF ordinary' THEN d.past ELSE <<>>
  BY DEF Finish, Watch
<1>2. Typed'
  <2>1. Ready(scene', stack', index')
    BY <1>1
  <2>2. opens' \in Nat /\ ordinary' \in BOOLEAN
    BY <1>1 DEF Inv, Typed
  <2> QED BY <2>1, <2>2 DEF Typed
<1>3. PointsGo'
  <2> SUFFICES ASSUME opens' = 0 /\ (scene').sound
               PROVE  \E views : Goes(FALSE, scene', stack', index', views)
    BY DEF PointsGo
  <2> QED BY <1>1
<1>4. PicturesGo'
  <2> SUFFICES ASSUME ordinary'
               PROVE  Goes(TRUE, scene', stack', index', past') /\ AllPlain(past')
    BY DEF PicturesGo
  <2>1. past' = d.past
    BY <1>1
  <2>2. Goes(TRUE, d.scene, d.stack, d.index, d.past) /\ AllPlain(d.past)
    BY <1>1
  <2> QED BY <1>1, <2>1, <2>2
<1> QED BY <1>2, <1>3, <1>4 DEF Inv

\* An item that does what it should, wherever it should.
Legal(item) ==
    /\ item \in Seq(Commands)
    /\ \A exact \in BOOLEAN :
          Fine(exact, scene) /\ (exact => Plain(Picture(scene))) =>
              \E W : ItemDoes(exact, item, View(exact, scene), W)

\* What the invariant says of the scene and its stack now.
LEMMA Now ==
    ASSUME Inv, scene.sound
    PROVE  /\ Ready(scene, stack, index) /\ scene \in Scenes /\ Hang(scene)
           /\ opens = 0 => \E views : Goes(FALSE, scene, stack, index, views)
           /\ ordinary => /\ Goes(TRUE, scene, stack, index, past) /\ AllPlain(past)
                          /\ Plain(Picture(scene)) /\ past \in Seq(Views)
                          /\ index \in 0 .. Len(past) - 1 /\ past[index + 1] = Picture(scene)
<1>1. Ready(scene, stack, index)
  BY DEF Inv, Typed
<1>2. scene \in Scenes /\ Hang(scene) /\ index \in 0 .. Len(stack) /\ Len(stack) \in Nat
  BY <1>1 DEF Ready, Hung, Stacks
<1>3. opens = 0 => \E views : Goes(FALSE, scene, stack, index, views)
  BY DEF Inv, PointsGo
<1>4. ordinary => Goes(TRUE, scene, stack, index, past) /\ AllPlain(past)
  BY DEF Inv, PicturesGo
<1>5. ASSUME ordinary
      PROVE  /\ past \in Seq(Views) /\ index \in 0 .. Len(past) - 1 /\ past[index + 1] = Picture(scene)
             /\ Plain(Picture(scene))
  <2>1. past \in Seq(Views) /\ Len(past) = Len(stack) + 1
    BY <1>4, <1>5 DEF Goes, Walk
  <2>2. index \in 0 .. Len(past) - 1 /\ index + 1 \in 1 .. Len(past)
    BY <1>2, <2>1
  <2>3. past[index + 1] = Picture(scene)
    BY <1>4, <1>5, PictureIs DEF Goes
  <2>4. Plain(past[index + 1])
    BY <1>4, <1>5, <2>2 DEF AllPlain
  <2> QED BY <2>1, <2>2, <2>3, <2>4
<1> QED BY <1>1, <1>2, <1>3, <1>4, <1>5

\* A push that does what it should, with the points alone and with the lines.
LEMMA LoosePush ==
    ASSUME NEW done, Ready(done.scene, done.stack, done.index), NEW item \in Seq(Commands),
           NEW views, Goes(FALSE, done.scene, done.stack, done.index, views), NEW W,
           ItemDoes(FALSE, item, View(FALSE, done.scene), W),
           NEW d, d = PushOn(done, item), d.scene.sound
    PROVE  /\ \E vs : Goes(FALSE, d.scene, d.stack, d.index, vs)
           /\ View(FALSE, d.scene) = W
<1>1. ASSUME NEW exact \in BOOLEAN, exact = FALSE
      PROVE  /\ Goes(exact, d.scene, d.stack, d.index, SeenThen(views, done.index, W))
             /\ View(exact, d.scene) = W
  <2>1. /\ Goes(exact, done.scene, done.stack, done.index, views)
        /\ ItemDoes(exact, item, View(exact, done.scene), W)
    BY <1>1
  <2>2. Goes(exact, d.scene, d.stack, d.index, SeenThen(views, done.index, W))
    BY <2>1, PushDoes
  <2>3. View(exact, d.scene) = W
    <3> DEFINE r == RedoItem(done.scene, item)
    <3>1. d.scene = r.scene /\ r = RedoItem(done.scene, item)
      BY PushKeeps
    <3> HIDE DEF r
    <3>2. Fine(exact, done.scene)
      BY <2>1 DEF Goes
    <3>3. Shows(exact, r.scene, W)
      BY <2>1, <3>1, <3>2, RedoItemDoes
    <3> QED BY <3>1, <3>3 DEF Shows
  <2> QED BY <2>2, <2>3
<1> QED BY <1>1

LEMMA ExactPush ==
    ASSUME ordinary, NEW done, Ready(done.scene, done.stack, done.index), NEW item \in Seq(Commands),
           Goes(TRUE, done.scene, done.stack, done.index, done.past), AllPlain(done.past), NEW W,
           ItemDoes(TRUE, item, View(TRUE, done.scene), W), NEW d, d = PushOn(done, item)
    PROVE  /\ Goes(TRUE, d.scene, d.stack, d.index, d.past)
           /\ View(TRUE, d.scene) = W /\ Picture(d.scene) = W
           /\ Plain(W) => AllPlain(d.past)
<1> DEFINE past2 == SeenThen(done.past, done.index, W)
<1>1. ASSUME NEW exact \in BOOLEAN, exact = TRUE
      PROVE  /\ Goes(exact, d.scene, d.stack, d.index, past2)
             /\ View(exact, d.scene) = W
  <2>1. /\ Goes(exact, done.scene, done.stack, done.index, done.past)
        /\ ItemDoes(exact, item, View(exact, done.scene), W)
    BY <1>1
  <2>2. Goes(exact, d.scene, d.stack, d.index, past2)
    BY <1>1, <2>1, PushDoes
  <2>3. View(exact, d.scene) = W
    <3> DEFINE r == RedoItem(done.scene, item)
    <3>1. d.scene = r.scene /\ r = RedoItem(done.scene, item)
      BY PushKeeps
    <3> HIDE DEF r
    <3>2. Fine(exact, done.scene)
      BY <2>1 DEF Goes
    <3>3. Shows(exact, r.scene, W)
      BY <1>1, <2>1, <3>1, <3>2, RedoItemDoes
    <3> QED BY <3>1, <3>3 DEF Shows
  <2> QED BY <2>2, <2>3
<1>2. Goes(TRUE, d.scene, d.stack, d.index, past2) /\ View(TRUE, d.scene) = W
  BY <1>1
<1>3. Fine(TRUE, d.scene)
  BY <1>2 DEF Goes
<1>4. d.scene.sound /\ W \in Views /\ W = Picture(d.scene)
  BY <1>2, <1>3, ViewIs, PictureIs DEF Seen
<1>5. d.past = past2
  <2>1. d.past = Append(SubSeq(done.past, 1, done.index + 1), Picture(d.scene))
    BY <1>4, PushKeeps
  <2> QED BY <1>4, <2>1 DEF SeenThen
<1>6. done.past \in Seq(Views) /\ done.index \in 0 .. Len(done.past) - 1
  <2>1. /\ done.past \in Seq(Views) /\ Len(done.past) = Len(done.stack) + 1
        /\ done.index \in 0 .. Len(done.stack) /\ Len(done.stack) \in Nat
    BY DEF Goes, Walk, Ready, Stacks
  <2> QED BY <2>1
<1>7. Plain(W) => AllPlain(d.past)
  BY <1>4, <1>5, <1>6, PlainThen
<1> QED BY <1>2, <1>4, <1>5, <1>7

\* What one push leaves; the scene may be worked on once more.
LEMMA OnePushGoes ==
    ASSUME Inv, scene.sound, NEW item, Legal(item), NEW d, d = Pushed(scene, <<item>>)
    PROVE  /\ Ready(d.scene, d.stack, d.index)
           /\ opens = 0 /\ d.scene.sound => \E views : Goes(FALSE, d.scene, d.stack, d.index, views)
           /\ ordinary => /\ Goes(TRUE, d.scene, d.stack, d.index, d.past)
                          /\ Plain(Picture(d.scene)) => AllPlain(d.past)
<1> DEFINE b == StackNow(scene)
<1>1. b.scene = scene /\ b.stack = stack /\ b.index = index /\ b.past = past
  BY DEF StackNow
<1>2. d = PushOn(b, item)
  BY PushedOne
<1> HIDE DEF b
<1>3. /\ Ready(b.scene, b.stack, b.index) /\ item \in Seq(Commands)
      /\ \A exact \in BOOLEAN :
            Fine(exact, scene) /\ (exact => Plain(Picture(scene))) =>
                \E W : ItemDoes(exact, item, View(exact, scene), W)
  BY <1>1, Now DEF Legal
<1>4. Ready(d.scene, d.stack, d.index)
  BY <1>2, <1>3, PushKeeps
<1>5. ASSUME opens = 0, d.scene.sound
      PROVE  \E views : Goes(FALSE, d.scene, d.stack, d.index, views)
  <2>1. PICK views : Goes(FALSE, b.scene, b.stack, b.index, views)
    BY <1>1, <1>5, Now
  <2>2. Fine(FALSE, scene)
    BY <1>1, <2>1 DEF Goes
  <2>3. PICK W : ItemDoes(FALSE, item, View(FALSE, b.scene), W)
    BY <1>1, <1>3, <2>2
  <2> QED BY <1>2, <1>3, <1>5, <2>1, <2>3, LoosePush
<1>6. ASSUME ordinary
      PROVE  /\ Goes(TRUE, d.scene, d.stack, d.index, d.past)
             /\ Plain(Picture(d.scene)) => AllPlain(d.past)
  <2>1. /\ Goes(TRUE, b.scene, b.stack, b.index, b.past) /\ Plain(Picture(scene))
        /\ AllPlain(b.past)
    BY <1>1, <1>6, Now
  <2>2. Fine(TRUE, scene)
    BY <1>1, <2>1 DEF Goes
  <2>3. PICK W : ItemDoes(TRUE, item, View(TRUE, b.scene), W)
    BY <1>1, <1>3, <2>1, <2>2
  <2> QED BY <1>2, <1>3, <1>6, <2>1, <2>3, ExactPush
<1> QED BY <1>4, <1>5, <1>6

\* An edit that pushes one item.
LEMMA OneItem ==
    ASSUME Inv, scene.sound, NEW item, Legal(item), Finish(Pushed(scene, <<item>>))
    PROVE  Inv'
<1> DEFINE d == Pushed(scene, <<item>>)
<1>1. d = Pushed(scene, <<item>>) /\ Finish(d)
  OBVIOUS
<1> HIDE DEF d
<1>2. Ready(d.scene, d.stack, d.index)
  BY <1>1, OnePushGoes
<1>3. opens = 0 /\ d.scene.sound => \E views : Goes(FALSE, d.scene, d.stack, d.index, views)
  BY <1>1, OnePushGoes
<1>4. ordinary => /\ Goes(TRUE, d.scene, d.stack, d.index, d.past)
                  /\ Plain(Picture(d.scene)) => AllPlain(d.past)
  BY <1>1, OnePushGoes
<1> QED BY <1>1, <1>2, <1>3, <1>4, FinishKeeps

-----------------------------------------------------------------------------
(* The edits that push one item.                                           *)

\* Nodes that can be moved.
LEMMA MoveLegal ==
    ASSUME scene \in Scenes, NEW c \in NodeMoves,
           NodesApart(scene) => Movable(c.points, c.new, PointSet(scene))
    PROVE  Legal(<<c>>)
<1>1. c \in Commands
  BY DEF Commands
<1>2. ASSUME NEW exact \in BOOLEAN, Fine(exact, scene)
      PROVE  \E W : ItemDoes(exact, <<c>>, View(exact, scene), W)
  <2> DEFINE V == View(exact, scene)
             X == MovedSet(c.points, c.new, V.nodes)
             M == {LineCarried(c.points, c.new, l) : l \in V.lines}
             W == [nodes |-> X, lines |-> M]
  <2>1. Seen(exact, V) /\ Drawn(V) /\ V.nodes = PointSet(scene) /\ NodesApart(scene)
    BY <1>2, ViewIs
  <2>2. Movable(c.points, c.new, V.nodes)
    BY <2>1
  <2> HIDE DEF V
  <2>3. \A p \in V.nodes : Carried(c.points, c.new, p) \in X
    BY <2>2, CarriedBack
  <2>4. X \subseteq Points
    BY <2>1, <2>2 DEF MovedSet, Movable, Seen, Views, ToSet
  <2>5. M \subseteq LineRecs
    <3> SUFFICES ASSUME NEW l \in V.lines PROVE LineCarried(c.points, c.new, l) \in LineRecs
      OBVIOUS
    <3>1. l \in LineRecs /\ l.from \in V.nodes /\ l.to \in V.nodes
      BY <2>1 DEF Drawn, Seen, Views
    <3>2. Carried(c.points, c.new, l.from) \in Points /\ Carried(c.points, c.new, l.to) \in Points
      BY <2>3, <2>4, <3>1
    <3> QED BY <3>1, <3>2 DEF LineCarried, LineRecs
  <2>6. W.nodes = X /\ W.lines = M
    OBVIOUS
  <2>7. Seen(exact, W)
    <3>1. W \in Views
      BY <2>4, <2>5 DEF Views
    <3>2. ~ exact => M = {}
      BY <2>1 DEF Seen
    <3> QED BY <2>6, <3>1, <3>2 DEF Seen
  <2> HIDE DEF X, M, W
  <2>8. MovesNodes(c, V, W)
    BY <2>2, <2>6 DEF MovesNodes, X, M
  <2>9. Does(exact, c, V, W)
    BY <2>1, <2>7, <2>8 DEF Does
  <2>10. ItemDoes(exact, <<c>>, V, W)
    BY <1>1, <2>9, OneCommand
  <2> QED BY <2>10 DEF V
<1>3. <<c>> \in Seq(Commands)
  <2> HIDE DEF Commands
  <2> QED BY <1>1
<1> QED BY <1>2, <1>3 DEF Legal

\* The points of a selection.
LEMMA PointsOfIs ==
    ASSUME scene \in Scenes, NEW S, S \subseteq DOMAIN scene.nodes
    PROVE  /\ PointsOf(S) \in Seq(Points)
           /\ ToSet(PointsOf(S)) = {scene.nodes[i].point : i \in S}
           /\ ToSet(PointsOf(S)) \subseteq PointSet(scene)
           /\ NodesApart(scene) => NoneTwice(PointsOf(S))
<1> DEFINE those == Those(scene.nodes, S)
           ps == PointsOf(S)
<1>1. /\ scene.nodes \in Seq(NodeRecs)
      /\ \A i \in DOMAIN scene.nodes : scene.nodes[i].point \in Points
  BY SceneHas
<1>2. /\ those \in Seq(NodeRecs) /\ ToSet(those) = {scene.nodes[i] : i \in S}
      /\ PickedFrom(those, scene.nodes, S)
  BY <1>1, ThoseAre
<1>3. ps = [k \in DOMAIN those |-> those[k].point]
  BY DEF PointsOf
<1> HIDE DEF those, ps
<1>4. those \in Seq(NodeRecs) /\ DOMAIN those = 1 .. Len(those) /\ Len(those) \in Nat
  <2> HIDE DEF NodeRecs
  <2> QED BY <1>2
<1>5. \A k \in DOMAIN those : those[k] \in ToSet(those)
  BY DEF ToSet
<1>6. ASSUME NEW k \in DOMAIN those PROVE \E i \in S : those[k] = scene.nodes[i]
  BY <1>2, <1>5
<1>7. ps \in Seq(Points)
  <2>1. \A k \in DOMAIN those : those[k].point \in Points
    BY <1>1, <1>6
  <2>2. /\ ps = [k \in 1 .. Len(those) |-> those[k].point]
        /\ \A k \in 1 .. Len(those) : those[k].point \in Points
    BY <1>3, <1>4, <2>1
  <2> HIDE DEF NodeRecs
  <2> QED BY <1>4, <2>2
<1>8. ToSet(ps) = {scene.nodes[i].point : i \in S}
  <2>1. ToSet(ps) = {those[k].point : k \in DOMAIN those}
    BY <1>3 DEF ToSet
  <2>2. ASSUME NEW i \in S PROVE \E k \in DOMAIN those : those[k].point = scene.nodes[i].point
    <3>1. scene.nodes[i] \in ToSet(those)
      BY <1>2
    <3> QED BY <3>1 DEF ToSet
  <2> QED BY <1>6, <2>1, <2>2
<1>9. NodesApart(scene) => NoneTwice(ps)
  <2> SUFFICES ASSUME NodesApart(scene), NEW i \in DOMAIN ps, NEW j \in DOMAIN ps, ps[i] = ps[j], i # j
               PROVE  FALSE
    BY DEF NoneTwice
  <2>1. i \in DOMAIN those /\ j \in DOMAIN those /\ those[i].point = those[j].point
    BY <1>3
  <2>2. PICK k \in S, l \in S : k # l /\ those[i] = scene.nodes[k] /\ those[j] = scene.nodes[l]
    BY <1>2, <2>1 DEF PickedFrom
  <2> QED BY <2>1, <2>2 DEF NodesApart
<1>10. ToSet(ps) \subseteq PointSet(scene)
  BY <1>8 DEF PointSet
<1> QED BY <1>7, <1>8, <1>9, <1>10 DEF ps

\* Points that are shifted.
LEMMA ShiftedIs ==
    ASSUME NEW ps \in Seq(Points), NEW d \in Shifts, \A p \in ToSet(ps) : p + d \in Points
    PROVE  /\ Shifted(ps, d) \in Seq(Points) /\ Len(Shifted(ps, d)) = Len(ps)
           /\ ToSet(Shifted(ps, d)) = {p + d : p \in ToSet(ps)}
           /\ NoneTwice(ps) => NoneTwice(Shifted(ps, d))
<1> DEFINE qs == Shifted(ps, d)
<1>1. DOMAIN ps = 1 .. Len(ps) /\ Len(ps) \in Nat /\ \A k \in 1 .. Len(ps) : ps[k] \in Points
  OBVIOUS
<1>2. \A k \in 1 .. Len(ps) : ps[k] \in ToSet(ps)
  BY <1>1 DEF ToSet
<1>3. qs = [k \in 1 .. Len(ps) |-> ps[k] + d] /\ \A k \in 1 .. Len(ps) : ps[k] + d \in Points
  BY <1>1, <1>2 DEF Shifted
<1> HIDE DEF qs
<1>4. qs \in Seq(Points) /\ Len(qs) = Len(ps) /\ DOMAIN qs = 1 .. Len(ps)
  BY <1>1, <1>3
<1>5. ToSet(qs) = {p + d : p \in ToSet(ps)}
  BY <1>1, <1>3 DEF ToSet
<1>6. \A k \in 1 .. Len(ps) : ps[k] \in Int /\ qs[k] = ps[k] + d
  BY <1>1, <1>3, PointsAssumption
<1>7. d \in Int
  BY PointsAssumption
<1>8. NoneTwice(ps) => NoneTwice(qs)
  <2> SUFFICES ASSUME NoneTwice(ps), NEW i \in 1 .. Len(ps), NEW j \in 1 .. Len(ps), qs[i] = qs[j]
               PROVE  i = j
    BY <1>4 DEF NoneTwice
  <2>1. ps[i] = ps[j]
    BY <1>6, <1>7
  <2> QED BY <1>1, <2>1 DEF NoneTwice
<1> QED BY <1>4, <1>5, <1>8 DEF qs

\* A list of one element.
LEMMA OnlyOne ==
    ASSUME NEW e
    PROVE  ToSet(<<e>>) = {e} /\ NoneTwice(<<e>>)
<1>1. DOMAIN <<e>> = {1} /\ <<e>>[1] = e
  OBVIOUS
<1>2. ToSet(<<e>>) = {e}
  BY <1>1 DEF ToSet
<1>3. NoneTwice(<<e>>)
  BY <1>1 DEF NoneTwice
<1> QED BY <1>2, <1>3

LEMMA EditNodeKeeps ==
    ASSUME Inv, scene.sound, NEW p \in NodePoints, NEW q \in Points, EditNode(p, q)
    PROVE  Inv'
<1> DEFINE c == NodeEdit(p, q)
<1>1. scene \in Scenes /\ p \in PointSet(scene) /\ p \in Points
  <2>1. scene \in Scenes /\ p \in PointSet(scene)
    BY Now DEF NodePoints, PointSet
  <2> QED BY <2>1, SceneHas DEF PointSet
<1>2. c.points = <<p>> /\ c.new = <<q>> /\ c \in NodeMoves
  BY <1>1 DEF NodeEdit, NodeMoves
<1>3. /\ GetNode(scene, q) = Null /\ Finish(Pushed(scene, <<<<c>>>>))
  BY DEF EditNode
<1> HIDE DEF c
<1>4. NodesApart(scene) => Movable(c.points, c.new, PointSet(scene))
  <2>1. NodesApart(scene) => q \notin PointSet(scene)
    BY <1>1, <1>3, PlacedIs, NullIsNothing
  <2>2. ToSet(<<p>>) = {p} /\ ToSet(<<q>>) = {q} /\ NoneTwice(<<p>>) /\ NoneTwice(<<q>>)
    BY OnlyOne
  <2> QED BY <1>1, <1>2, <2>1, <2>2 DEF Movable
<1>5. Legal(<<c>>)
  BY <1>1, <1>2, <1>4, MoveLegal
<1> QED BY <1>3, <1>5, OneItem

\* A selection that is not obstructed.
LEMMA MovableSelection ==
    ASSUME scene \in Scenes, NodesApart(scene), NEW S, S \subseteq DOMAIN scene.nodes,
           NEW d \in Shifts, \A i \in S : scene.nodes[i].point + d \in Points, ~ Obstructed(S, d),
           NEW ps, ps = PointsOf(S)
    PROVE  Movable(ps, Shifted(ps, d), PointSet(scene))
<1>1. /\ ps \in Seq(Points) /\ ToSet(ps) = {scene.nodes[i].point : i \in S}
      /\ ToSet(ps) \subseteq PointSet(scene) /\ NoneTwice(ps)
  BY PointsOfIs
<1>2. /\ Shifted(ps, d) \in Seq(Points) /\ Len(Shifted(ps, d)) = Len(ps)
      /\ ToSet(Shifted(ps, d)) = {p + d : p \in ToSet(ps)} /\ NoneTwice(Shifted(ps, d))
  BY <1>1, ShiftedIs
<1>3. ASSUME NEW q \in ToSet(Shifted(ps, d)), q \in PointSet(scene) PROVE q \in ToSet(ps)
  <2>1. PICK i \in S : q = scene.nodes[i].point + d
    BY <1>1, <1>2
  <2>2. PICK j \in DOMAIN scene.nodes : q = scene.nodes[j].point
    BY <1>3 DEF PointSet
  <2>3. j \in S
    BY <2>1, <2>2 DEF Obstructed
  <2> QED BY <1>1, <2>2, <2>3
<1> QED BY <1>1, <1>2, <1>3 DEF Movable

LEMMA MoveSelectedKeeps ==
    ASSUME Inv, scene.sound, NEW S, S \subseteq DOMAIN scene.nodes, NEW d \in Shifts,
           \A i \in S : scene.nodes[i].point + d \in Points, MoveSelected(S, d)
    PROVE  Inv'
<1> DEFINE ps == PointsOf(S)
           c == NodeMoveMulti(ps, Shifted(ps, d))
<1>1. scene \in Scenes
  BY Now
<1>2. /\ ~ Obstructed(S, d) /\ Finish(Pushed(scene, <<<<c>>>>))
  BY DEF MoveSelected
<1>3. ps \in Seq(Points) /\ ToSet(ps) = {scene.nodes[i].point : i \in S}
  BY <1>1, PointsOfIs
<1>4. Shifted(ps, d) \in Seq(Points) /\ Len(Shifted(ps, d)) = Len(ps)
  BY <1>3, ShiftedIs
<1>5. c.points = ps /\ c.new = Shifted(ps, d)
  BY DEF NodeMoveMulti
<1>6. c \in NodeMoves
  BY <1>3, <1>4 DEF NodeMoveMulti, NodeMoves
<1>7. NodesApart(scene) => Movable(ps, Shifted(ps, d), PointSet(scene))
  BY <1>1, <1>2, MovableSelection
<1> HIDE DEF c
<1>8. Legal(<<c>>)
  BY <1>1, <1>5, <1>6, <1>7, MoveLegal
<1> QED BY <1>2, <1>8, OneItem

LEMMA DragSelectedKeeps ==
    ASSUME Inv, scene.sound, NEW S, NEW d, DragSelected(S, d)
    PROVE  Inv'
<1>1. Finish(Pushed(scene, <<<<>>>>))
  BY DEF DragSelected
<1>2. Legal(<<>>)
  BY NoCommand DEF Legal
<1> QED BY <1>1, <1>2, OneItem

\* The faces of a selection that the nodes have not taken along, as lines.
LeftLines(S, F) ==
    LET cut  == DetachAll(scene, PointsOf(S)).scene
        left == Those(scene.faces, {k \in F : scene.faces[k] \in FaceSet(cut)})
    IN  [k \in DOMAIN left |-> LineOf(scene, left[k])]

LEMMA LeftLinesAre ==
    ASSUME scene \in Scenes, NEW S, NEW F, F \subseteq DOMAIN scene.faces, NEW cut,
           cut = DetachAll(scene, PointsOf(S)).scene
    PROVE  /\ LeftLines(S, F) \in Seq(LineRecs)
           /\ \A l \in ToSet(LeftLines(S, F)) :
                 \E f \in FaceSet(scene) : f \in FaceSet(cut) /\ l = LineOf(scene, f)
<1> DEFINE T == {k \in F : scene.faces[k] \in FaceSet(cut)}
           left == Those(scene.faces, T)
           ls == LeftLines(S, F)
<1>1. scene.faces \in Seq(FaceRecs) /\ T \subseteq DOMAIN scene.faces
  BY SceneHas
<1>2. left \in Seq(FaceRecs) /\ \A k \in DOMAIN left : \E i \in T : left[k] = scene.faces[i]
  <2> HIDE DEF T
  <2>1. left \in Seq(FaceRecs)
    BY <1>1, ThoseAre
  <2>2. \A k \in DOMAIN left : \E i \in T : left[k] = scene.faces[i]
    BY <1>1, ThoseAre
  <2> QED BY <2>1, <2>2
<1>3. ls = [k \in DOMAIN left |-> LineOf(scene, left[k])]
  BY DEF LeftLines
<1> HIDE DEF left, ls
<1>4. left \in Seq(FaceRecs) /\ DOMAIN left = 1 .. Len(left) /\ Len(left) \in Nat
  <2> HIDE DEF FaceRecs
  <2> QED BY <1>2
<1>5. ASSUME NEW k \in DOMAIN left
      PROVE  /\ left[k] \in FaceSet(scene) /\ left[k] \in FaceSet(cut)
             /\ LineOf(scene, left[k]) \in LineRecs
  <2>1. left[k] \in FaceSet(scene) /\ left[k] \in FaceSet(cut)
    BY <1>1, <1>2 DEF FaceSet
  <2>2. left[k] \in FaceRecs
    BY <2>1, FacesAre
  <2> QED BY <2>1, <2>2, LineIs
<1>6. ls \in Seq(LineRecs)
  <2>1. /\ ls = [k \in 1 .. Len(left) |-> LineOf(scene, left[k])]
        /\ \A k \in 1 .. Len(left) : LineOf(scene, left[k]) \in LineRecs
    BY <1>3, <1>4, <1>5
  <2> HIDE DEF LineRecs
  <2> QED BY <1>4, <2>1
<1>7. ASSUME NEW l \in ToSet(ls)
      PROVE  \E f \in FaceSet(scene) : f \in FaceSet(cut) /\ l = LineOf(scene, f)
  <2>1. PICK k \in DOMAIN ls : l = ls[k]
    BY DEF ToSet
  <2> QED BY <1>3, <1>5, <2>1
<1> QED BY <1>6, <1>7 DEF ls

\* What is deleted, and what is seen then.
LEMMA DeletedDoes ==
    ASSUME scene \in Scenes, NEW S, S \subseteq DOMAIN scene.nodes, NEW F, F \subseteq DOMAIN scene.faces,
           NEW exact \in BOOLEAN, Fine(exact, scene), exact => Plain(Picture(scene)),
           NEW V, V = View(exact, scene), NEW c, c = NodeRemoveMulti(PointsOf(S)),
           NEW d, d = EdgeRemoveMulti(LeftLines(S, F))
    PROVE  \E X, W : Does(exact, c, V, X) /\ Does(exact, d, X, W) /\ (S = {} => X = V)
<1> DEFINE P == ToSet(PointsOf(S))
           T == TouchingLines(V.lines, P)
           X == [nodes |-> V.nodes \ P, lines |-> V.lines \ T]
           L == ToSet(LeftLines(S, F))
           W == [nodes |-> X.nodes, lines |-> X.lines \ L]
           cut == DetachAll(scene, PointsOf(S)).scene
<1>1. /\ Seen(exact, V) /\ Drawn(V) /\ V.nodes = PointSet(scene) /\ Sane(scene)
      /\ exact => V.lines = Lines(scene) /\ Good(scene)
  BY ViewIs DEF Fine
<1>2. PointsOf(S) \in Seq(Points) /\ P \subseteq V.nodes /\ (S = {} => P = {})
  BY <1>1, PointsOfIs
<1>3. X.nodes = V.nodes \ P /\ X.lines = V.lines \ T /\ W.nodes = X.nodes /\ W.lines = X.lines \ L
  OBVIOUS
<1>4. Seen(exact, X) /\ Seen(exact, W)
  <2>1. V.nodes \subseteq Points /\ V.lines \subseteq LineRecs /\ (~ exact => V.lines = {})
    BY <1>1 DEF Seen, Views
  <2>2. X \in Views /\ W \in Views
    BY <2>1 DEF Views
  <2> QED BY <1>3, <2>1, <2>2 DEF Seen
<1>5. S = {} => X = V
  <2>1. V = [nodes |-> V.nodes, lines |-> V.lines]
    BY <1>1 DEF Seen, Views
  <2>2. P = {} => T = {}
    BY DEF TouchingLines
  <2> QED BY <1>2, <2>1, <2>2
<1>6. /\ \A f \in FaceSet(cut) : LineOf(cut, f) = LineOf(scene, f)
      /\ Sane(cut) /\ PointSet(cut) = X.nodes
  <2> DEFINE a == DetachAll(scene, PointsOf(S))
  <2>1. a = DetachAll(scene, PointsOf(S))
    OBVIOUS
  <2> HIDE DEF a
  <2>2. Sane(a.scene) /\ PointSet(a.scene) = PointSet(scene) \ P
    BY <1>1, <1>2, <2>1, DetachAllSane
  <2>3. \A f \in FaceSet(a.scene) : LineOf(a.scene, f) = LineOf(scene, f)
    BY <1>1, <1>2, <2>1, DetachAllSane
  <2> QED BY <1>1, <2>2, <2>3 DEF a
<1>7. exact => Lines(cut) = X.lines
  <2> DEFINE a == DetachAll(scene, PointsOf(S))
  <2>1. a = DetachAll(scene, PointsOf(S))
    OBVIOUS
  <2> HIDE DEF a
  <2>2. Good(scene) => Lines(a.scene) = Lines(scene) \ TouchingLines(Lines(scene), P)
    BY <1>2, <2>1, DetachAllGood
  <2> QED BY <1>1, <2>2 DEF a
<1>8. LeftLines(S, F) \in Seq(LineRecs)
  BY LeftLinesAre
<1>9. ASSUME NEW l \in L PROVE \E f \in FaceSet(cut) : l = LineOf(scene, f)
  BY LeftLinesAre
<1> HIDE DEF cut, X, W, T
<1>10. ASSUME NEW l \in L
       PROVE  /\ l.from \in X.nodes /\ l.to \in X.nodes /\ l.from # l.to
              /\ exact => l \in X.lines
  <2>1. PICK f \in FaceSet(cut) : l = LineOf(cut, f)
    BY <1>6, <1>9
  <2>2. l.from \in PointSet(cut) /\ l.to \in PointSet(cut) /\ l.from # l.to
    BY <1>6, <2>1, LineOfSane
  <2>3. l \in Lines(cut)
    BY <2>1 DEF Lines
  <2> QED BY <1>6, <1>7, <2>2, <2>3
<1>11. c \in NodeRemoves /\ c.points = PointsOf(S)
  <2>1. <<>> \in Seq(LineRecs)
    <3> HIDE DEF LineRecs
    <3> QED OBVIOUS
  <2> QED BY <1>2, <2>1 DEF NodeRemoves, NodeRemoveMulti
<1>12. d \in EdgeRemoves /\ d.lines = LeftLines(S, F)
  BY <1>8 DEF EdgeRemoves, EdgeRemoveMulti
<1>13. \A l \in V.lines : l.segments = DefaultSegments
  BY <1>1, PictureIs DEF Plain, Seen
<1>14. RemovesNodes(c, V, X)
  BY <1>2, <1>3, <1>11, <1>13 DEF RemovesNodes, T
<1>15. RemovesLines(exact, d, X, W)
  BY <1>3, <1>10, <1>12 DEF RemovesLines, On
<1> QED BY <1>1, <1>4, <1>5, <1>14, <1>15 DEF Does

\* A macro of at most two commands.
LEMMA TwoOfThem ==
    ASSUME NEW T, NEW c \in T, NEW d \in T
    PROVE  <<c>> \o <<d>> = <<c, d>>
<1> DEFINE both == <<c>> \o <<d>>
<1>1. /\ <<c>> \in Seq(T) /\ Len(<<c>>) = 1 /\ <<c>>[1] = c
      /\ <<d>> \in Seq(T) /\ Len(<<d>>) = 1 /\ <<d>>[1] = d
      /\ <<c, d>> \in Seq(T) /\ Len(<<c, d>>) = 2 /\ <<c, d>>[1] = c /\ <<c, d>>[2] = d
  OBVIOUS
<1>2. /\ both \in Seq(T) /\ Len(both) = 1 + 1
      /\ \A i \in 1 .. 1 + 1 : both[i] = IF i <= 1 THEN <<c>>[i] ELSE <<d>>[i - 1]
  BY <1>1, ConcatProperties
<1> HIDE DEF both
<1>3. both[1] = c /\ both[2] = d
  <2>1. 1 \in 1 .. 1 + 1 /\ 2 \in 1 .. 1 + 1 /\ 1 <= 1 /\ ~ (2 <= 1) /\ 2 - 1 = 1
    OBVIOUS
  <2>2. both[1] = <<c>>[1] /\ both[2] = <<d>>[1]
    BY <1>2, <2>1
  <2> QED BY <1>1, <2>2
<1>4. \A i \in 1 .. Len(both) : both[i] = <<c, d>>[i]
  BY <1>1, <1>2, <1>3
<1>5. both = <<c, d>>
  BY <1>1, <1>2, <1>4, SeqEqual
<1> QED BY <1>5 DEF both

LEMMA DeleteSelectedKeeps ==
    ASSUME Inv, scene.sound, NEW S, S \subseteq DOMAIN scene.nodes,
           NEW F, F \subseteq DOMAIN scene.faces, DeleteSelected(S, F)
    PROVE  Inv'
<1> DEFINE c == NodeRemoveMulti(PointsOf(S))
           lines == LeftLines(S, F)
           d == EdgeRemoveMulti(lines)
           item == (IF S = {} THEN <<>> ELSE <<c>>) \o (IF lines = <<>> THEN <<>> ELSE <<d>>)
<1>1. scene \in Scenes
  BY Now
<1>2. Finish(Pushed(scene, <<item>>))
  BY DEF DeleteSelected, LeftLines
<1>3. c \in Commands /\ d \in Commands
  <2>1. PointsOf(S) \in Seq(Points) /\ lines \in Seq(LineRecs)
    BY <1>1, PointsOfIs, LeftLinesAre
  <2>2. <<>> \in Seq(LineRecs)
    <3> HIDE DEF LineRecs
    <3> QED OBVIOUS
  <2>3. c \in NodeRemoves /\ d \in EdgeRemoves
    BY <2>1, <2>2 DEF NodeRemoves, EdgeRemoves, NodeRemoveMulti, EdgeRemoveMulti
  <2> QED BY <2>3 DEF Commands
<1>4. \/ S = {} /\ lines = <<>> /\ item = <<>>
      \/ S = {} /\ lines # <<>> /\ item = <<d>>
      \/ S # {} /\ lines = <<>> /\ item = <<c>>
      \/ S # {} /\ lines # <<>> /\ item = <<c, d>>
  <2> HIDE DEF c, d, lines
  <2>1. <<c>> \o <<d>> = <<c, d>>
    BY <1>3, TwoOfThem
  <2>2. CASE S = {} /\ lines = <<>>
    BY <2>2
  <2>3. CASE S = {} /\ lines # <<>>
    BY <2>3
  <2>4. CASE S # {} /\ lines = <<>>
    BY <2>4
  <2>5. CASE S # {} /\ lines # <<>>
    BY <2>1, <2>5
  <2> QED BY <2>2, <2>3, <2>4, <2>5
<1>5. c = NodeRemoveMulti(PointsOf(S)) /\ d = EdgeRemoveMulti(LeftLines(S, F)) /\ lines = LeftLines(S, F)
  OBVIOUS
<1> HIDE DEF c, d, item, lines, Commands
<1>6. item \in Seq(Commands)
  <2>1. <<>> \in Seq(Commands) /\ <<c>> \in Seq(Commands) /\ <<d>> \in Seq(Commands)
    BY <1>3
  <2>2. <<c, d>> \in Seq(Commands)
    BY <1>3
  <2> QED BY <1>4, <2>1, <2>2
<1>7. ASSUME NEW exact \in BOOLEAN, Fine(exact, scene), exact => Plain(Picture(scene))
      PROVE  \E W : ItemDoes(exact, item, View(exact, scene), W)
  <2> DEFINE V == View(exact, scene)
  <2>0. V = View(exact, scene)
    OBVIOUS
  <2> HIDE DEF V
  <2>1. PICK X, W : Does(exact, c, V, X) /\ Does(exact, d, X, W) /\ (S = {} => X = V)
    BY <1>1, <1>5, <1>7, <2>0, DeletedDoes
  <2>2. CASE S = {} /\ item = <<>>
    BY <2>0, <2>2, NoCommand
  <2>3. CASE S = {} /\ item = <<d>>
    <3>1. Does(exact, d, V, W)
      BY <2>1, <2>3
    <3>2. ItemDoes(exact, <<d>>, V, W)
      BY <1>3, <3>1, OneCommand
    <3> QED BY <2>0, <2>3, <3>2
  <2>4. CASE item = <<c>>
    <3>1. ItemDoes(exact, <<c>>, V, X)
      BY <1>3, <2>1, OneCommand
    <3> QED BY <2>0, <2>4, <3>1
  <2>5. CASE item = <<c, d>>
    <3>1. ItemDoes(exact, <<c, d>>, V, W)
      BY <1>3, <2>1, TwoCommands
    <3> QED BY <2>0, <2>5, <3>1
  <2> QED BY <1>4, <2>2, <2>3, <2>4, <2>5
<1>8. Legal(item)
  BY <1>6, <1>7 DEF Legal
<1> QED BY <1>2, <1>8, OneItem

\* Two items that do what they should one after the other; the first draws no line.
BothLegal(item, next) ==
    /\ item \in Seq(Commands) /\ next \in Seq(Commands)
    /\ \A exact \in BOOLEAN :
          Fine(exact, scene) /\ (exact => Plain(Picture(scene))) =>
              \E X, W : /\ ItemDoes(exact, item, View(exact, scene), X)
                        /\ X.lines = View(exact, scene).lines
                        /\ ItemDoes(exact, next, X, W)

\* What is seen after a push.
LEMMA PushShows ==
    ASSUME NEW exact \in BOOLEAN, NEW done, Ready(done.scene, done.stack, done.index),
           Fine(exact, done.scene), NEW item \in Seq(Commands), NEW W,
           ItemDoes(exact, item, View(exact, done.scene), W),
           NEW d, d = PushOn(done, item), exact \/ d.scene.sound
    PROVE  Shows(exact, d.scene, W)
<1> DEFINE r == RedoItem(done.scene, item)
<1>1. d.scene = r.scene /\ r = RedoItem(done.scene, item)
  BY PushKeeps
<1> HIDE DEF r
<1>2. Shows(exact, r.scene, W)
  BY <1>1, RedoItemDoes
<1> QED BY <1>1, <1>2

LEMMA TwoItems ==
    ASSUME Inv, scene.sound, NEW item, NEW next, BothLegal(item, next),
           Finish(Pushed(scene, <<item, next>>))
    PROVE  Inv'
<1> DEFINE b == StackNow(scene)
           d1 == PushOn(b, item)
           d2 == PushOn(d1, next)
<1>1. b.scene = scene /\ b.stack = stack /\ b.index = index /\ b.past = past
  BY DEF StackNow
<1>2. d1 = PushOn(b, item) /\ d2 = PushOn(d1, next) /\ Finish(d2)
  BY PushedTwo
<1> HIDE DEF b, d1, d2
<1>3. /\ Ready(b.scene, b.stack, b.index) /\ item \in Seq(Commands) /\ next \in Seq(Commands)
      /\ \A exact \in BOOLEAN :
            Fine(exact, scene) /\ (exact => Plain(Picture(scene))) =>
                \E X, W : /\ ItemDoes(exact, item, View(exact, scene), X)
                          /\ X.lines = View(exact, scene).lines
                          /\ ItemDoes(exact, next, X, W)
  BY <1>1, Now DEF BothLegal
<1>4. Ready(d1.scene, d1.stack, d1.index)
  BY <1>2, <1>3, PushKeeps
<1>5. Ready(d2.scene, d2.stack, d2.index)
  BY <1>2, <1>3, <1>4, PushKeeps
<1>6. d2.scene.sound => d1.scene.sound
  BY <1>2, <1>3, <1>4, PushKeeps
<1>7. ASSUME opens = 0, d2.scene.sound
      PROVE  \E views : Goes(FALSE, d2.scene, d2.stack, d2.index, views)
  <2>1. PICK views : Goes(FALSE, b.scene, b.stack, b.index, views)
    BY <1>1, <1>7, Now
  <2>2. Fine(FALSE, scene)
    BY <1>1, <2>1 DEF Goes
  <2>3. PICK X, W : ItemDoes(FALSE, item, View(FALSE, b.scene), X) /\ ItemDoes(FALSE, next, X, W)
    BY <1>1, <1>3, <2>2
  <2>4. \E vs : Goes(FALSE, d1.scene, d1.stack, d1.index, vs)
    BY <1>2, <1>3, <1>6, <1>7, <2>1, <2>3, LoosePush
  <2>5. View(FALSE, d1.scene) = X
    <3>1. ASSUME NEW exact \in BOOLEAN, exact = FALSE PROVE View(exact, d1.scene) = X
      <4>1. Fine(exact, b.scene) /\ ItemDoes(exact, item, View(exact, b.scene), X)
        BY <1>1, <2>2, <2>3, <3>1
      <4>2. d1.scene.sound /\ d1 = PushOn(b, item) /\ item \in Seq(Commands)
            /\ Ready(b.scene, b.stack, b.index)
        BY <1>2, <1>3, <1>6, <1>7
      <4>3. Shows(exact, d1.scene, X)
        BY <4>1, <4>2, PushShows
      <4> QED BY <4>3 DEF Shows
    <3> QED BY <3>1
  <2>6. PICK vs : Goes(FALSE, d1.scene, d1.stack, d1.index, vs)
    BY <2>4
  <2>7. ItemDoes(FALSE, next, View(FALSE, d1.scene), W)
    BY <2>3, <2>5
  <2> QED BY <1>2, <1>3, <1>4, <1>7, <2>6, <2>7, LoosePush
<1>8. ASSUME ordinary
      PROVE  /\ Goes(TRUE, d2.scene, d2.stack, d2.index, d2.past)
             /\ Plain(Picture(d2.scene)) => AllPlain(d2.past)
  <2>1. /\ Goes(TRUE, b.scene, b.stack, b.index, b.past) /\ Plain(Picture(scene))
        /\ AllPlain(b.past)
    BY <1>1, <1>8, Now
  <2>2. Fine(TRUE, scene)
    BY <1>1, <2>1 DEF Goes
  <2>3. PICK X, W : /\ ItemDoes(TRUE, item, View(TRUE, b.scene), X)
                    /\ X.lines = View(TRUE, scene).lines
                    /\ ItemDoes(TRUE, next, X, W)
    BY <1>1, <1>3, <2>1, <2>2
  <2>4. Plain(X)
    <3>1. View(TRUE, scene) = Picture(scene)
      BY PictureIs
    <3> QED BY <2>1, <2>3, <3>1 DEF Plain
  <2>5. /\ Goes(TRUE, d1.scene, d1.stack, d1.index, d1.past)
        /\ View(TRUE, d1.scene) = X /\ AllPlain(d1.past)
    <3>1. Goes(TRUE, d1.scene, d1.stack, d1.index, d1.past)
      BY <1>2, <1>3, <1>8, <2>1, <2>3, ExactPush
    <3>2. ASSUME NEW exact \in BOOLEAN, exact = TRUE PROVE View(exact, d1.scene) = X
      <4>1. Fine(exact, b.scene) /\ ItemDoes(exact, item, View(exact, b.scene), X)
        BY <1>1, <2>2, <2>3, <3>2
      <4>2. d1 = PushOn(b, item) /\ item \in Seq(Commands) /\ Ready(b.scene, b.stack, b.index)
        BY <1>2, <1>3
      <4>3. Shows(exact, d1.scene, X)
        BY <3>2, <4>1, <4>2, PushShows
      <4> QED BY <4>3 DEF Shows
    <3>3. Plain(X) => AllPlain(d1.past)
      BY <1>2, <1>3, <1>8, <2>1, <2>3, ExactPush
    <3> QED BY <2>4, <3>1, <3>2, <3>3
  <2>6. ItemDoes(TRUE, next, View(TRUE, d1.scene), W)
    BY <2>3, <2>5
  <2>7. Goes(TRUE, d2.scene, d2.stack, d2.index, d2.past)
    BY <1>2, <1>3, <1>4, <1>8, <2>5, <2>6, ExactPush
  <2>8. Plain(W) => AllPlain(d2.past)
    BY <1>2, <1>3, <1>4, <1>8, <2>5, <2>6, ExactPush
  <2>9. Picture(d2.scene) = W
    <3>1. Fine(TRUE, d1.scene)
      BY <2>5 DEF Goes
    <3>2. ASSUME NEW exact \in BOOLEAN, exact = TRUE PROVE View(exact, d2.scene) = W
      <4>1. Fine(exact, d1.scene) /\ ItemDoes(exact, next, View(exact, d1.scene), W)
        BY <2>6, <3>1, <3>2
      <4>2. d2 = PushOn(d1, next) /\ next \in Seq(Commands)
        BY <1>2, <1>3
      <4>3. Shows(exact, d2.scene, W)
        BY <1>4, <3>2, <4>1, <4>2, PushShows
      <4> QED BY <4>3 DEF Shows
    <3> QED BY <3>2, PictureIs
  <2> QED BY <2>7, <2>8, <2>9
<1> QED BY <1>2, <1>5, <1>7, <1>8, FinishKeeps

\* What CopySelected pushes: the nodes that are not there yet, the faces that are not.
NewPts(S, d) == {i \in S : GetNode(scene, scene.nodes[i].point + d) = Null}
CopyOf(f, d) == LET l == LineOf(scene, f) IN [l EXCEPT !.from = @ + d, !.to = @ + d]
CopyBetween(k, d) ==
    LET l == CopyOf(scene.faces[k], d) IN GetFaceBetween(scene, l.from, l.to)
NewFaces(F, d) == {k \in F : CopyBetween(k, d) = 0}
CopiedLines(F, d) ==
    LET copied == Those(scene.faces, NewFaces(F, d))
    IN  [k \in DOMAIN copied |-> CopyOf(copied[k], d)]
NodesCopied(S, d) == NodeAddMulti(Shifted(PointsOf(NewPts(S, d)), d))
FacesCopied(F, d) == EdgeAddMulti(CopiedLines(F, d))

LEMMA CopySelectedPushes ==
    ASSUME NEW S, NEW F, NEW d, CopySelected(S, F, d)
    PROVE  \/ Finish(Pushed(scene, <<<<NodesCopied(S, d)>>>>))
           \/ Finish(Pushed(scene, <<<<NodesCopied(S, d)>>, <<FacesCopied(F, d)>>>>))
BY DEF CopySelected, NodesCopied, FacesCopied, NewPts, NewFaces, CopiedLines, CopyBetween, CopyOf

\* The nodes S stay on the drawing when they are shifted, and they are the ends of the
\* faces F.
Shiftable(S, F, d) ==
    /\ S \subseteq DOMAIN scene.nodes /\ F \subseteq DOMAIN scene.faces
    /\ \A i \in S : scene.nodes[i].point + d \in Points
    /\ \A k \in F, i \in DOMAIN scene.nodes :
          scene.nodes[i].id \in {scene.faces[k].from, scene.faces[k].to} => i \in S

\* One end of a copy.
LEMMA EndShifted ==
    ASSUME scene \in Scenes, Hang(scene), NEW S, NEW F, NEW d \in Shifts, Shiftable(S, F, d),
           NEW k \in F, NEW n \in {scene.faces[k].from, scene.faces[k].to}
    PROVE  \E i \in S : PointOf(scene, n) = scene.nodes[i].point
<1>1. n \in Ids(scene)
  BY FacesAre DEF Shiftable, Hang
<1>2. PICK i \in DOMAIN scene.nodes : scene.nodes[i].id = n /\ PointOf(scene, n) = scene.nodes[i].point
  BY <1>1, PointOfIs
<1>3. i \in S
  BY <1>2 DEF Shiftable
<1> QED BY <1>2, <1>3

LEMMA CopyIs ==
    ASSUME scene \in Scenes, Hang(scene), NEW S, NEW F, NEW d \in Shifts, Shiftable(S, F, d),
           NEW k \in F, NEW f, f = scene.faces[k], NEW l, l = LineOf(scene, f)
    PROVE  /\ CopyOf(f, d) \in LineRecs
           /\ CopyOf(f, d).from = l.from + d /\ CopyOf(f, d).to = l.to + d
           /\ l.from + d \in Points /\ l.to + d \in Points /\ l.from \in Points /\ l.to \in Points
           /\ \E i \in S : l.from = scene.nodes[i].point
           /\ \E i \in S : l.to = scene.nodes[i].point
<1>1. f \in FaceRecs
  BY FacesAre DEF Shiftable
<1>2. l \in LineRecs /\ l.from = PointOf(scene, f.from) /\ l.to = PointOf(scene, f.to)
  BY <1>1, LineIs
<1>3. PICK i \in S : PointOf(scene, f.from) = scene.nodes[i].point
  BY EndShifted
<1>4. PICK j \in S : PointOf(scene, f.to) = scene.nodes[j].point
  BY EndShifted
<1>5. l.from + d \in Points /\ l.to + d \in Points /\ l.from \in Points /\ l.to \in Points
  BY <1>2, <1>3, <1>4, SceneHas DEF Shiftable
<1>6. CopyOf(f, d) = [l EXCEPT !.from = l.from + d, !.to = l.to + d]
  BY DEF CopyOf
<1>7. CopyOf(f, d) \in LineRecs /\ CopyOf(f, d).from = l.from + d /\ CopyOf(f, d).to = l.to + d
  BY <1>2, <1>5, <1>6 DEF LineRecs
<1> QED BY <1>2, <1>3, <1>4, <1>5, <1>7

\* The nodes that are copied.
LEMMA NodesCopiedAre ==
    ASSUME scene \in Scenes, NEW S, NEW F, NEW d \in Shifts, Shiftable(S, F, d),
           NEW c, c = NodesCopied(S, d)
    PROVE  /\ c \in NodeAdds
           /\ ToSet(c.points) \cap PointSet(scene) = {}
           /\ \A i \in S : scene.nodes[i].point + d \in PointSet(scene) \cup ToSet(c.points)
           /\ ToSet(c.points) \subseteq Points
<1> DEFINE T == NewPts(S, d)
           ps == PointsOf(T)
           qs == Shifted(ps, d)
<1>1. /\ T \subseteq DOMAIN scene.nodes /\ T \subseteq S
      /\ \A i \in T : /\ scene.nodes[i].point + d \in Points
                      /\ GetNode(scene, scene.nodes[i].point + d) = Null
      /\ \A i \in S \ T : GetNode(scene, scene.nodes[i].point + d) # Null
  BY DEF NewPts, Shiftable
<1>2. c.points = qs /\ c.op = "nodeAddMulti" /\ c = [op |-> "nodeAddMulti", points |-> qs]
  BY DEF NodesCopied, NodeAddMulti
<1> HIDE DEF T
<1>3. ps \in Seq(Points) /\ ToSet(ps) = {scene.nodes[i].point : i \in T}
  BY <1>1, PointsOfIs
<1> HIDE DEF ps
<1>4. qs \in Seq(Points) /\ ToSet(qs) = {p + d : p \in ToSet(ps)}
  BY <1>1, <1>3, ShiftedIs
<1> HIDE DEF qs
<1>5. ToSet(qs) = {scene.nodes[i].point + d : i \in T}
  BY <1>3, <1>4
<1>6. \A i \in T : scene.nodes[i].point + d \notin PointSet(scene)
  <2> SUFFICES ASSUME NEW i \in T, scene.nodes[i].point + d \in PointSet(scene) PROVE FALSE
    OBVIOUS
  <2>1. PICK j \in DOMAIN scene.nodes : GetNode(scene, scene.nodes[i].point + d) = scene.nodes[j].id
    BY GetNodeIs
  <2>2. scene.nodes[j].id \in Nat
    BY SceneHas
  <2> QED BY <1>1, <2>1, <2>2, NullIsNothing
<1>7. \A i \in S \ T : scene.nodes[i].point + d \in PointSet(scene)
  BY <1>1, GetNodeIs
<1>8. c \in NodeAdds
  BY <1>2, <1>4 DEF NodeAdds
<1>9. ToSet(qs) \subseteq Points
  BY <1>1, <1>5
<1>10. \A i \in S : scene.nodes[i].point + d \in PointSet(scene) \cup ToSet(qs)
  BY <1>5, <1>7
<1>11. ToSet(qs) \cap PointSet(scene) = {}
  BY <1>5, <1>6
<1> QED BY <1>2, <1>8, <1>9, <1>10, <1>11

\* The lines that are copied.
LEMMA CopiedLinesAre ==
    ASSUME scene \in Scenes, Hang(scene), NEW S, NEW F, NEW d \in Shifts, Shiftable(S, F, d),
           NEW ls, ls = CopiedLines(F, d)
    PROVE  /\ ls \in Seq(LineRecs)
           /\ \A l \in ToSet(ls) : \E k \in NewFaces(F, d) : l = CopyOf(scene.faces[k], d)
<1> DEFINE T == NewFaces(F, d)
           copied == Those(scene.faces, T)
<1>1. scene.faces \in Seq(FaceRecs) /\ T \subseteq DOMAIN scene.faces /\ T \subseteq F
  BY SceneHas DEF Shiftable, NewFaces
<1>2. copied \in Seq(FaceRecs) /\ \A k \in DOMAIN copied : \E i \in T : copied[k] = scene.faces[i]
  <2> HIDE DEF T
  <2>1. copied \in Seq(FaceRecs)
    BY <1>1, ThoseAre
  <2>2. \A k \in DOMAIN copied : \E i \in T : copied[k] = scene.faces[i]
    BY <1>1, ThoseAre
  <2> QED BY <2>1, <2>2
<1>3. ls = [k \in DOMAIN copied |-> CopyOf(copied[k], d)]
  BY DEF CopiedLines
<1> HIDE DEF copied, T
<1>4. copied \in Seq(FaceRecs) /\ DOMAIN copied = 1 .. Len(copied) /\ Len(copied) \in Nat
  <2> HIDE DEF FaceRecs
  <2> QED BY <1>2
<1>5. \A k \in DOMAIN copied : CopyOf(copied[k], d) \in LineRecs
  <2> TAKE k \in DOMAIN copied
  <2>1. PICK i \in T : copied[k] = scene.faces[i]
    BY <1>2
  <2>2. i \in F
    BY <1>1
  <2>3. CopyOf(scene.faces[i], d) \in LineRecs
    BY <2>2, CopyIs
  <2> QED BY <2>1, <2>3
<1>6. ls \in Seq(LineRecs)
  <2>1. /\ ls = [k \in 1 .. Len(copied) |-> CopyOf(copied[k], d)]
        /\ \A k \in 1 .. Len(copied) : CopyOf(copied[k], d) \in LineRecs
    BY <1>3, <1>4, <1>5
  <2> HIDE DEF LineRecs
  <2> QED BY <1>4, <2>1
<1>7. ASSUME NEW l \in ToSet(ls) PROVE \E k \in T : l = CopyOf(scene.faces[k], d)
  <2>1. PICK k \in DOMAIN ls : l = ls[k]
    BY DEF ToSet
  <2> QED BY <1>2, <1>3, <2>1
<1> QED BY <1>6, <1>7 DEF T

\* No face joins what a copy joins.
LEMMA CopyIsNew ==
    ASSUME Good(scene), NEW F, NEW d, NEW k \in NewFaces(F, d), NEW c, c = CopyOf(scene.faces[k], d),
           NEW l \in Lines(scene)
    PROVE  Joined(l) # Joined(c)
<1>1. scene \in Scenes /\ GetFaceBetween(scene, c.from, c.to) = 0
  BY DEF NewFaces, CopyBetween, Good
<1>2. PICK i \in DOMAIN scene.faces : l = LineOf(scene, scene.faces[i])
  BY DEF Lines, FaceSet
<1>3. {PointOf(scene, scene.faces[i].from), PointOf(scene, scene.faces[i].to)} # {c.from, c.to}
  BY <1>1, GetFaceBetweenIs
<1>4. l.from = PointOf(scene, scene.faces[i].from) /\ l.to = PointOf(scene, scene.faces[i].to)
  BY <1>1, <1>2, FacesAre, LineIs
<1> QED BY <1>3, <1>4 DEF Joined

\* A translation keeps points apart.
LEMMA ShiftTells == \A a, b, d \in Int : a + d = b + d => a = b
OBVIOUS

\* Copies of two faces join different points.
LEMMA CopiesApart ==
    ASSUME Good(scene), NEW S, NEW F, NEW d \in Shifts, Shiftable(S, F, d),
           NEW j \in F, NEW k \in F,
           Joined(CopyOf(scene.faces[j], d)) = Joined(CopyOf(scene.faces[k], d))
    PROVE  CopyOf(scene.faces[j], d) = CopyOf(scene.faces[k], d)
<1> DEFINE f == scene.faces[j]
           g == scene.faces[k]
           l == LineOf(scene, f)
           m == LineOf(scene, g)
<1>1. scene \in Scenes /\ Hang(scene) /\ f \in FaceSet(scene) /\ g \in FaceSet(scene)
  <2>1. scene \in Scenes /\ Hang(scene)
    BY DEF Good
  <2> QED BY <2>1, FacesAre DEF Shiftable
<1>2. /\ CopyOf(f, d).from = l.from + d /\ CopyOf(f, d).to = l.to + d
      /\ l.from \in Points /\ l.to \in Points
  BY <1>1, CopyIs
<1>3. /\ CopyOf(g, d).from = m.from + d /\ CopyOf(g, d).to = m.to + d
      /\ m.from \in Points /\ m.to \in Points
  BY <1>1, CopyIs
<1>4. {l.from + d, l.to + d} = {m.from + d, m.to + d}
  BY <1>2, <1>3 DEF Joined
<1>5. d \in Int /\ l.from \in Int /\ l.to \in Int /\ m.from \in Int /\ m.to \in Int
  BY <1>2, <1>3, PointsAssumption
<1> HIDE DEF l, m
<1>6. {l.from, l.to} = {m.from, m.to}
  <2>1. l.from + d = m.from + d => l.from = m.from
    BY <1>5, ShiftTells
  <2>2. l.from + d = m.to + d => l.from = m.to
    BY <1>5, ShiftTells
  <2>3. l.to + d = m.from + d => l.to = m.from
    BY <1>5, ShiftTells
  <2>4. l.to + d = m.to + d => l.to = m.to
    BY <1>5, ShiftTells
  <2>5. l.from + d \in {m.from + d, m.to + d} /\ l.to + d \in {m.from + d, m.to + d}
        /\ m.from + d \in {l.from + d, l.to + d} /\ m.to + d \in {l.from + d, l.to + d}
    BY <1>4
  <2> QED BY <2>1, <2>2, <2>3, <2>4, <2>5
<1>7. f = g
  BY <1>1, <1>6, JoinedTellsFace, SMTT(20) DEF Joined, l, m
<1> QED BY <1>7

\* What is copied, and what is seen then.
LEMMA CopiedDoes ==
    ASSUME scene \in Scenes, NEW S, NEW F, NEW d \in Shifts, Shiftable(S, F, d),
           NEW exact \in BOOLEAN, Fine(exact, scene), NEW V, V = View(exact, scene),
           NEW c, c = NodesCopied(S, d), NEW e, e = FacesCopied(F, d)
    PROVE  \E X, W : Does(exact, c, V, X) /\ X.lines = V.lines /\ Does(exact, e, X, W)
<1> DEFINE P == ToSet(c.points)
           L == ToSet(CopiedLines(F, d))
           X == [nodes |-> V.nodes \cup P, lines |-> V.lines]
           W == [nodes |-> X.nodes, lines |-> IF exact THEN V.lines \cup L ELSE {}]
<1>1. /\ Seen(exact, V) /\ V.nodes = PointSet(scene) /\ Sane(scene) /\ Hang(scene)
      /\ exact => V.lines = Lines(scene) /\ Good(scene)
  BY ViewIs DEF Fine
<1>2. /\ c \in NodeAdds /\ P \cap PointSet(scene) = {} /\ P \subseteq Points
      /\ \A i \in S : scene.nodes[i].point + d \in PointSet(scene) \cup P
  BY NodesCopiedAre
<1>3. /\ CopiedLines(F, d) \in Seq(LineRecs)
      /\ \A l \in L : \E k \in NewFaces(F, d) : l = CopyOf(scene.faces[k], d)
  BY <1>1, CopiedLinesAre
<1>4. NewFaces(F, d) \subseteq F
  BY DEF NewFaces
<1>5. e \in EdgeAdds /\ e.lines = CopiedLines(F, d)
  BY <1>3 DEF EdgeAdds, FacesCopied, EdgeAddMulti
<1>6. X.nodes = V.nodes \cup P /\ X.lines = V.lines /\ W.nodes = X.nodes
      /\ (exact => W.lines = V.lines \cup L) /\ (~ exact => W.lines = {})
  OBVIOUS
<1>7. L \subseteq LineRecs
  <2> SUFFICES ASSUME NEW l \in L PROVE l \in LineRecs
    OBVIOUS
  <2>1. PICK k \in F : l = CopyOf(scene.faces[k], d)
    BY <1>3, <1>4
  <2> QED BY <1>1, <2>1, CopyIs
<1>8. Seen(exact, X) /\ Seen(exact, W)
  <2>1. V.nodes \subseteq Points /\ V.lines \subseteq LineRecs /\ (~ exact => V.lines = {})
    BY <1>1 DEF Seen, Views
  <2>2. X \in Views
    BY <1>2, <2>1 DEF Views
  <2>3. W \in Views
    BY <1>2, <1>7, <2>1 DEF Views
  <2> QED BY <1>6, <2>1, <2>2, <2>3 DEF Seen
<1> HIDE DEF X, W, P, L
<1>9. AddsNodes(c, V, X)
  BY <1>1, <1>2, <1>6 DEF AddsNodes, P
<1>10. ASSUME NEW l \in L PROVE l.from \in X.nodes /\ l.to \in X.nodes /\ l.from # l.to
  <2>1. PICK k \in F : l = CopyOf(scene.faces[k], d)
    BY <1>3, <1>4
  <2> DEFINE f == scene.faces[k]
             m == LineOf(scene, f)
  <2>2. f \in FaceSet(scene)
    BY FacesAre DEF Shiftable
  <2>3. /\ l.from = m.from + d /\ l.to = m.to + d
        /\ m.from \in Points /\ m.to \in Points
    BY <1>1, <2>1, CopyIs
  <2>4. /\ \E i \in S : m.from = scene.nodes[i].point
        /\ \E i \in S : m.to = scene.nodes[i].point
    BY <1>1, CopyIs
  <2>5. m.from # m.to
    BY <1>1, <2>2, LineOfSane
  <2> HIDE DEF m
  <2>6. l.from \in X.nodes /\ l.to \in X.nodes
    BY <1>1, <1>2, <1>6, <2>3, <2>4
  <2>7. m.from \in Int /\ m.to \in Int /\ d \in Int
    BY <2>3, PointsAssumption
  <2>8. m.from + d # m.to + d
    BY <2>5, <2>7, ShiftTells
  <2> QED BY <2>3, <2>6, <2>8
<1>11. ASSUME exact PROVE L \cap V.lines = {} /\ LinesApart(V.lines \cup L)
  <2>1. Good(scene) /\ V.lines = Lines(scene) /\ LinesApart(Lines(scene))
    BY <1>1, <1>11, LinesOfGood
  <2>2. ASSUME NEW l \in Lines(scene), NEW m \in L PROVE Joined(l) # Joined(m)
    BY <1>3, <2>1, <2>2, CopyIsNew
  <2>3. ASSUME NEW l \in L, NEW m \in L, Joined(l) = Joined(m) PROVE l = m
    <3>1. PICK j \in F, k \in F : l = CopyOf(scene.faces[j], d) /\ m = CopyOf(scene.faces[k], d)
      BY <1>3, <1>4
    <3> QED BY <2>1, <2>3, <3>1, CopiesApart
  <2>4. L \cap V.lines = {}
    BY <2>1, <2>2
  <2>5. LinesApart(V.lines \cup L)
    <3> SUFFICES ASSUME NEW l \in V.lines \cup L, NEW m \in V.lines \cup L, Joined(l) = Joined(m)
                 PROVE  l = m
      BY DEF LinesApart
    <3>1. CASE l \in V.lines /\ m \in V.lines
      BY <2>1, <3>1 DEF LinesApart
    <3> QED BY <2>1, <2>2, <2>3, <3>1
  <2> QED BY <2>4, <2>5
<1>12. AddsLines(exact, e, X, W)
  BY <1>5, <1>6, <1>10, <1>11 DEF AddsLines, On, L
<1> QED BY <1>1, <1>6, <1>8, <1>9, <1>12 DEF Does

LEMMA CopySelectedKeeps ==
    ASSUME Inv, scene.sound, NEW S, NEW F, NEW d \in Shifts, Shiftable(S, F, d),
           CopySelected(S, F, d)
    PROVE  Inv'
<1> DEFINE c == NodesCopied(S, d)
           e == FacesCopied(F, d)
<1>1. scene \in Scenes /\ Hang(scene)
  BY Now
<1>2. c \in Commands /\ e \in Commands
  <2>1. c \in NodeAdds
    BY <1>1, NodesCopiedAre
  <2>2. CopiedLines(F, d) \in Seq(LineRecs)
    BY <1>1, CopiedLinesAre
  <2>3. e \in EdgeAdds
    BY <2>2 DEF EdgeAdds, FacesCopied, EdgeAddMulti
  <2> QED BY <2>1, <2>3 DEF Commands
<1>3. c = NodesCopied(S, d) /\ e = FacesCopied(F, d)
  OBVIOUS
<1>4. Finish(Pushed(scene, <<<<c>>>>)) \/ Finish(Pushed(scene, <<<<c>>, <<e>>>>))
  BY CopySelectedPushes
<1> HIDE DEF c, e
<1>5. <<c>> \in Seq(Commands) /\ <<e>> \in Seq(Commands)
  <2> HIDE DEF Commands
  <2> QED BY <1>2
<1>6. ASSUME NEW exact \in BOOLEAN, Fine(exact, scene), NEW V, V = View(exact, scene)
      PROVE  \E X, W : /\ ItemDoes(exact, <<c>>, V, X) /\ X.lines = V.lines
                       /\ ItemDoes(exact, <<e>>, X, W)
  <2>1. PICK X, W : Does(exact, c, V, X) /\ X.lines = V.lines /\ Does(exact, e, X, W)
    BY <1>1, <1>3, <1>6, CopiedDoes
  <2>2. ItemDoes(exact, <<c>>, V, X)
    BY <1>2, <2>1, OneCommand
  <2>3. ItemDoes(exact, <<e>>, X, W)
    BY <1>2, <2>1, OneCommand
  <2> QED BY <2>1, <2>2, <2>3
<1>7. BothLegal(<<c>>, <<e>>)
  BY <1>5, <1>6 DEF BothLegal
<1>8. Legal(<<c>>)
  BY <1>5, <1>6 DEF Legal
<1> QED BY <1>4, <1>7, <1>8, OneItem, TwoItems

-----------------------------------------------------------------------------
(* The edits that come before their command.                               *)

\* An item of one command, redone.
LEMMA RedoOne ==
    ASSUME NEW s \in Scenes, NEW c \in Commands, NEW r, r = RedoItem(s, <<c>>)
    PROVE  r.scene = Redo(s, c) /\ r.item = <<Remembered(s, c)>>
<1>1. <<c>> \in Seq(Commands) /\ Len(<<c>>) = 1 /\ <<c>>[1] = c
  <2> HIDE DEF Commands
  <2> QED OBVIOUS
<1>2. PICK f : /\ f[0] = [scene |-> s, item |-> <<>>]
               /\ \A k \in 0 .. Len(<<c>>) - 1 : f[k + 1] = Redone(f[k], <<c>>[k + 1])
               /\ RedoItem(s, <<c>>) = f[Len(<<c>>)]
  BY <1>1, RedoItemFollows
<1>3. r = Redone([scene |-> s, item |-> <<>>], c)
  <2>1. 0 \in 0 .. Len(<<c>>) - 1 /\ 0 + 1 = 1
    BY <1>1
  <2>2. f[1] = Redone(f[0], c)
    BY <1>1, <1>2, <2>1
  <2> QED BY <1>1, <1>2, <2>2
<1>4. r.scene = Redo(s, c) /\ r.item = Append(<<>>, Remembered(s, c))
  BY <1>3 DEF Redone
<1> QED BY <1>4

\* A command whose work is done when it is pushed, and that would do it.
LEMMA NewlyPushed ==
    ASSUME Inv, scene.sound, NEW c \in Commands, c \notin NodeRemoves,
           NEW t, t = Redo(scene, c), t.sound, Redo(t, c) = t,
           \A exact \in BOOLEAN :
               Fine(exact, scene) /\ (exact => Plain(Picture(scene)) /\ Plain(Picture(t))) =>
                   \E W : Does(exact, c, View(exact, scene), W),
           Finish(Pushed(t, <<<<c>>>>))
    PROVE  Inv'
<1> DEFINE b == StackNow(t)
           d == PushOn(b, <<c>>)
           r == RedoItem(t, <<c>>)
<1>1. b.scene = t /\ b.stack = stack /\ b.index = index /\ b.past = past
  BY DEF StackNow
<1>2. d = PushOn(b, <<c>>) /\ Finish(d)
  BY PushedOne
<1>3. r = RedoItem(t, <<c>>)
  OBVIOUS
<1> HIDE DEF b, d, r
<1>4. Ready(scene, stack, index) /\ scene \in Scenes
  BY Now
<1>5. t \in Scenes /\ t \in Hung
  <2>1. Keeps(scene, t)
    BY <1>4, RedoKeeps
  <2> QED BY <1>4, <2>1 DEF Keeps, Ready
<1>6. Ready(b.scene, b.stack, b.index) /\ <<c>> \in Seq(Commands)
  <2>1. <<c>> \in Seq(Commands)
    <3> HIDE DEF Commands
    <3> QED OBVIOUS
  <2> QED BY <1>1, <1>4, <1>5, <2>1 DEF Ready
<1>7. r.scene = t /\ r.item = <<c>>
  <2>1. r.scene = Redo(t, c) /\ r.item = <<Remembered(t, c)>>
    BY <1>3, <1>5, RedoOne
  <2>2. Remembered(t, c) = c
    <3>1. c.op # "nodeRemoveMulti"
      BY DEF Commands, NodeAdds, NodeMoves, FaceAdds, EdgeAdds, EdgeRemoves, EdgeEdits
    <3> QED BY <3>1 DEF Remembered
  <2> QED BY <2>1, <2>2
<1>8. d.scene = t
  <2>1. d.scene = RedoItem(b.scene, <<c>>).scene
    BY <1>2, <1>6, PushKeeps
  <2> QED BY <1>1, <1>3, <1>7, <2>1
<1>9. Ready(d.scene, d.stack, d.index)
  BY <1>2, <1>6, PushKeeps
<1>10. ASSUME NEW exact \in BOOLEAN, exact => Plain(Picture(t)), NEW views,
              Goes(exact, scene, stack, index, views), exact => Plain(Picture(scene))
       PROVE  Goes(exact, d.scene, d.stack, d.index, SeenThen(views, index, View(exact, t)))
  <2>1. /\ Fine(exact, scene) /\ Walk(exact, stack, views)
        /\ views[index + 1] = View(exact, scene)
    BY <1>10 DEF Goes
  <2>2. PICK W : Does(exact, c, View(exact, scene), W)
    BY <1>10, <2>1
  <2>3. Shows(exact, t, W)
    BY <2>1, <2>2, RedoDoes
  <2>4. Fits(exact, Remembered(scene, c), View(exact, scene), W)
    BY <2>1, <2>2, RedoDoes
  <2>5. Remembered(scene, c) = c
    <3>1. c.op # "nodeRemoveMulti"
      BY DEF Commands, NodeAdds, NodeMoves, FaceAdds, EdgeAdds, EdgeRemoves, EdgeEdits
    <3> QED BY <3>1 DEF Remembered
  <2>6. ItemFits(exact, r.item, views[b.index + 1], W)
    <3>1. ItemFits(exact, <<c>>, View(exact, scene), W)
      BY <2>4, <2>5, OneCommandFits
    <3> QED BY <1>1, <1>7, <2>1, <3>1
  <2>7. Shows(exact, r.scene, W) /\ Walk(exact, b.stack, views) /\ r = RedoItem(b.scene, <<c>>)
    BY <1>1, <1>3, <1>7, <2>1, <2>3
  <2>8. Goes(exact, d.scene, d.stack, d.index, SeenThen(views, b.index, W))
    BY <1>2, <1>6, <2>6, <2>7, PushGoes
  <2>9. W = View(exact, t)
    BY <2>3 DEF Shows
  <2> QED BY <1>1, <2>8, <2>9
<1>11. ASSUME opens = 0
       PROVE  \E views : Goes(FALSE, d.scene, d.stack, d.index, views)
  <2>1. PICK views : Goes(FALSE, scene, stack, index, views)
    BY <1>11, Now
  <2> QED BY <1>10, <2>1
<1>12. ASSUME ordinary, Plain(Picture(d.scene))
       PROVE  Goes(TRUE, d.scene, d.stack, d.index, d.past) /\ AllPlain(d.past)
  <2>1. /\ Goes(TRUE, scene, stack, index, past) /\ AllPlain(past)
        /\ Plain(Picture(scene)) /\ past \in Seq(Views)
        /\ index \in 0 .. Len(past) - 1
    BY <1>12, Now
  <2>2. d.past = SeenThen(past, index, View(TRUE, t))
    <3>1. d.past = Append(SubSeq(b.past, 1, b.index + 1), Picture(d.scene))
      BY <1>2, <1>8, <1>12, PastPushed
    <3>2. View(TRUE, t) = Picture(t)
      BY PictureIs
    <3> QED BY <1>1, <1>8, <3>1, <3>2 DEF SeenThen
  <2>3. Goes(TRUE, d.scene, d.stack, d.index, SeenThen(past, index, View(TRUE, t)))
    BY <1>8, <1>10, <1>12, <2>1
  <2>4. Plain(View(TRUE, t)) /\ View(TRUE, t) \in Views
    <3>1. Fine(TRUE, d.scene)
      BY <2>3 DEF Goes
    <3>2. Seen(TRUE, View(TRUE, d.scene))
      BY <3>1, ViewIs
    <3>3. View(TRUE, t) = Picture(t)
      BY PictureIs
    <3> QED BY <1>8, <1>12, <3>2, <3>3 DEF Seen
  <2>5. AllPlain(SeenThen(past, index, View(TRUE, t)))
    BY <2>1, <2>4, PlainThen
  <2> QED BY <2>2, <2>3, <2>5
<1> QED BY <1>2, <1>8, <1>9, <1>11, <1>12, FinishKeeps

\* Lists of one.
LEMMA AddOneNode ==
    ASSUME NEW s \in Scenes, NEW p \in Points
    PROVE  <<p>> \in Seq(Points) /\ AddNodes(s, <<p>>) = AddNode(s, p)
<1>1. <<p>> \in Seq(Points) /\ Len(<<p>>) = 1 /\ <<p>>[1] = p
  OBVIOUS
<1>2. PICK f : /\ f[0] = s
               /\ \A k \in 0 .. Len(<<p>>) - 1 : f[k + 1] = AddNode(f[k], <<p>>[k + 1])
               /\ AddNodes(s, <<p>>) = f[Len(<<p>>)]
  BY <1>1, AddNodesFollow
<1>3. 0 \in 0 .. Len(<<p>>) - 1 /\ 0 + 1 = 1
  BY <1>1
<1>4. f[1] = AddNode(f[0], p)
  BY <1>1, <1>2, <1>3
<1> QED BY <1>1, <1>2, <1>4

LEMMA AddOneLine ==
    ASSUME NEW s \in Scenes, NEW l \in LineRecs
    PROVE  <<l>> \in Seq(LineRecs) /\ AddLines(s, <<l>>) = AddLine(s, l)
<1>1. <<l>> \in Seq(LineRecs) /\ Len(<<l>>) = 1 /\ <<l>>[1] = l
  <2> HIDE DEF LineRecs
  <2> QED OBVIOUS
<1>2. PICK f : /\ f[0] = s
               /\ \A k \in 0 .. Len(<<l>>) - 1 : f[k + 1] = AddLine(f[k], <<l>>[k + 1])
               /\ AddLines(s, <<l>>) = f[Len(<<l>>)]
  BY <1>1, AddLinesFollow
<1>3. 0 \in 0 .. Len(<<l>>) - 1 /\ 0 + 1 = 1
  BY <1>1
<1>4. f[1] = AddLine(f[0], l)
  BY <1>1, <1>2, <1>3
<1> QED BY <1>1, <1>2, <1>4

LEMMA NewNodeKeeps ==
    ASSUME Inv, scene.sound, NEW p \in Points, NewNode(p)
    PROVE  Inv'
<1> DEFINE c == NodeAdd(p)
           t == AddNode(scene, p)
<1>1. scene \in Scenes /\ GetNode(scene, p) = Null /\ Finish(Pushed(t, <<<<c>>>>))
  BY Now DEF NewNode
<1>2. c.points = <<p>> /\ c \in NodeAdds
  BY AddOneNode, <1>1 DEF NodeAdd, NodeAdds
<1>3. t = AddNode(scene, p)
  OBVIOUS
<1> HIDE DEF c, t
<1>4. t \in Scenes /\ t.sound /\ PointSet(t) = PointSet(scene) \cup {p}
  BY <1>1, <1>3, AddNodeIs
<1>5. t = Redo(scene, c)
  BY <1>1, <1>2, <1>3, NodeAddsDo, AddOneNode
<1>6. Redo(t, c) = t
  <2>1. Redo(t, c) = AddNodes(t, <<p>>)
    BY <1>2, NodeAddsDo
  <2>2. ToSet(<<p>>) \subseteq PointSet(t)
    BY <1>4, OnlyOne
  <2>3. <<p>> \in Seq(Points)
    OBVIOUS
  <2> QED BY <1>4, <2>1, <2>2, <2>3, AddNodesAre
<1>7. c \in Commands /\ c \notin NodeRemoves
  BY <1>2 DEF Commands, NodeAdds, NodeRemoves
<1>8. p \notin PointSet(scene)
  <2> SUFFICES ASSUME p \in PointSet(scene) PROVE FALSE
    OBVIOUS
  <2>1. PICK j \in DOMAIN scene.nodes : GetNode(scene, p) = scene.nodes[j].id
    BY <1>1, GetNodeIs
  <2>2. scene.nodes[j].id \in Nat
    BY <1>1, SceneHas
  <2> QED BY <1>1, <2>1, <2>2, NullIsNothing
<1>9. ASSUME NEW exact \in BOOLEAN, Fine(exact, scene)
      PROVE  \E W : Does(exact, c, View(exact, scene), W)
  <2> DEFINE V == View(exact, scene)
             W == [nodes |-> V.nodes \cup {p}, lines |-> V.lines]
  <2>1. Seen(exact, V) /\ V.nodes = PointSet(scene)
    BY <1>9, ViewIs
  <2> HIDE DEF V
  <2>2. W.nodes = V.nodes \cup {p} /\ W.lines = V.lines
    OBVIOUS
  <2>3. Seen(exact, W)
    BY <2>1 DEF Seen, Views
  <2> HIDE DEF W
  <2>4. AddsNodes(c, V, W)
    <3>1. ToSet(c.points) = {p}
      BY <1>2, OnlyOne
    <3> QED BY <1>2, <1>8, <2>1, <2>2, <3>1 DEF AddsNodes
  <2>5. Does(exact, c, V, W)
    BY <2>1, <2>3, <2>4 DEF Does
  <2> QED BY <2>5 DEF V
<1> QED BY <1>1, <1>4, <1>5, <1>6, <1>7, <1>9, NewlyPushed

\* A face that addFace takes.
LEMMA LineTaken ==
    ASSUME NEW s \in Scenes, NEW l \in LineRecs, l.from \in PointSet(s), l.to \in PointSet(s),
           SameFace(s, FaceOn(s, l)) = 0, NEW t, t = AddLine(s, l)
    PROVE  /\ t \in Scenes /\ t.nodes = s.nodes /\ t.sound = s.sound
           /\ FaceSet(t) = FaceSet(s) \cup {FaceOn(s, l)}
           /\ AddLine(t, l) = t
<1> DEFINE f == FaceOn(s, l)
<1>1. /\ f \in FaceRecs /\ f.from = GetNode(s, l.from) /\ f.to = GetNode(s, l.to)
      /\ f.from \in Nat /\ f.to \in Nat /\ f.from = f.from
  BY FaceOfLine DEF FaceRecs
<1>2. f = [l EXCEPT !.from = GetNode(s, l.from), !.to = GetNode(s, l.to)] /\ f = FaceOn(s, l)
  BY DEF FaceOn
<1> HIDE DEF f
<1>3. GetNode(s, l.from) # Null /\ GetNode(s, l.to) # Null
  BY <1>1, NullIsNothing
<1>4. t = AddFace(s, f)
  BY <1>2, <1>3 DEF AddLine
<1>5. t \in Scenes /\ t.nodes = s.nodes /\ t.sound = s.sound
  BY <1>1, <1>4, AddFaceIs
<1>6. FaceSet(t) = FaceSet(s) \cup {f}
  BY <1>1, <1>2, <1>4, AddFaceIs
<1>7. AddLine(t, l) = AddFace(t, f)
  <2>1. GetNode(t, l.from) = GetNode(s, l.from) /\ GetNode(t, l.to) = GetNode(s, l.to)
    BY <1>5, SameNodes
  <2> QED BY <1>2, <1>3, <2>1 DEF AddLine
<1>8. SameFace(t, f) # 0
  <2>1. PICK i \in DOMAIN t.faces : t.faces[i] = f
    BY <1>6 DEF FaceSet
  <2>2. Like(t.faces[i], f)
    BY <2>1 DEF Like
  <2> QED BY <1>5, <2>2, SameFaceIs
<1>9. AddFace(t, f) = t
  BY <1>8 DEF AddFace
<1> QED BY <1>2, <1>5, <1>6, <1>7, <1>9

\* What is drawn then.
LEMMA LineTakenGood ==
    ASSUME NEW s, Good(s), NEW l \in LineRecs, l.from \in PointSet(s), l.to \in PointSet(s),
           SameFace(s, FaceOn(s, l)) = 0, NEW t, t = AddLine(s, l)
    PROVE  Lines(t) = Lines(s) \cup {l} /\ l \notin Lines(s)
<1> DEFINE f == FaceOn(s, l)
<1>1. s \in Scenes /\ NodesApart(s)
  BY DEF Good
<1>2. /\ f \in FaceRecs /\ f.from = GetNode(s, l.from) /\ f.to = GetNode(s, l.to)
      /\ f.angle = l.angle /\ f.segments = l.segments
  BY <1>1, FaceOfLine
<1>3. /\ t \in Scenes /\ t.nodes = s.nodes
      /\ FaceSet(t) = FaceSet(s) \cup {f}
  BY <1>1, LineTaken
<1>4. SameFace(s, f) = 0
  OBVIOUS
<1> HIDE DEF f
<1>5. LineOf(s, f) = l
  <2>1. PointOf(s, f.from) = l.from /\ PointOf(s, f.to) = l.to
    BY <1>1, <1>2, PlacedIs
  <2>2. /\ LineOf(s, f) \in LineRecs
        /\ LineOf(s, f).from = l.from /\ LineOf(s, f).to = l.to
        /\ LineOf(s, f).angle = l.angle /\ LineOf(s, f).segments = l.segments
    BY <1>1, <1>2, <2>1, LineIs
  <2> QED BY <2>2, LineIsItsParts
<1>6. Lines(t) = Lines(s) \cup {l}
  <2>1. \A g : LineOf(t, g) = LineOf(s, g)
    BY <1>3, SameNodes
  <2>2. Lines(t) = {LineOf(s, g) : g \in FaceSet(s) \cup {f}}
    BY <1>3, <2>1 DEF Lines
  <2> QED BY <1>5, <2>2 DEF Lines
<1>7. l \notin Lines(s)
  <2> SUFFICES ASSUME NEW g \in FaceSet(s), l = LineOf(s, g) PROVE FALSE
    BY DEF Lines
  <2>1. Placed(s, g.from, l.from) /\ Placed(s, g.to, l.to) /\ l.angle = g.angle
    BY LineOfGood
  <2>2. GetNode(s, l.from) = g.from /\ GetNode(s, l.to) = g.to
    BY <1>1, <2>1, PlacedIs
  <2>3. Like(g, f)
    BY <1>2, <2>1, <2>2 DEF Like
  <2>4. PICK i \in DOMAIN s.faces : g = s.faces[i]
    BY DEF FaceSet
  <2> QED BY <1>1, <1>4, <2>3, <2>4, SameFaceIs
<1> QED BY <1>6, <1>7

\* A face between nodes that are there is one line more.
LEMMA RedoFaceAdd ==
    ASSUME NEW s \in Scenes, NEW l \in LineRecs, l.from \in PointSet(s), l.to \in PointSet(s),
           NEW c \in FaceAdds, c.lines = <<l>>
    PROVE  Redo(s, c) = AddLine(s, l)
<1>1. /\ Redo(s, c) = AddLines(AddNodes(s, EndsOfFace(c)), c.lines)
      /\ EndsOfFace(c) \in Seq(Points) /\ ToSet(EndsOfFace(c)) = {c.lines[1].from, c.lines[1].to}
  BY FaceAddsDo
<1>2. ToSet(EndsOfFace(c)) \subseteq PointSet(s)
  BY <1>1
<1>3. AddNodes(s, EndsOfFace(c)) = s
  BY <1>1, <1>2, AddNodesAre
<1> QED BY <1>1, <1>3, AddOneLine

LEMMA NewFaceKeeps ==
    ASSUME Inv, scene.sound, NEW l \in LineRecs, l.from \in PointSet(scene), l.to \in PointSet(scene),
           l.from # l.to, NewFace(l)
    PROVE  Inv'
<1> DEFINE c == FaceAdd(l)
           t == AddLine(scene, l)
<1>1. scene \in Scenes
  BY Now
<1>2. SameFace(scene, FaceOn(scene, l)) = 0 /\ Finish(Pushed(t, <<<<c>>>>))
  BY DEF NewFace, FaceOn
<1>3. c.lines = <<l>> /\ c \in FaceAdds
  <2>1. l.from \in Points /\ l.to \in Points
    BY <1>1, SceneHas DEF PointSet
  <2>2. <<l>> \in Seq(LineRecs) /\ Len(<<l>>) = 1 /\ <<l>>[1] = l
    <3> HIDE DEF LineRecs
    <3> QED OBVIOUS
  <2> QED BY <2>1, <2>2 DEF FaceAdd, FaceAdds
<1>4. t = AddLine(scene, l)
  OBVIOUS
<1> HIDE DEF c, t
<1>5. t \in Scenes /\ t.sound /\ t.nodes = scene.nodes /\ AddLine(t, l) = t
  BY <1>1, <1>2, <1>4, LineTaken
<1>6. t = Redo(scene, c)
  BY <1>1, <1>3, <1>4, RedoFaceAdd
<1>7. Redo(t, c) = t
  <2>1. l.from \in PointSet(t) /\ l.to \in PointSet(t)
    BY <1>5, SameNodes
  <2> QED BY <1>3, <1>5, <2>1, RedoFaceAdd
<1>8. c \in Commands /\ c \notin NodeRemoves
  BY <1>3 DEF Commands, FaceAdds, NodeRemoves
<1>9. ASSUME NEW exact \in BOOLEAN, Fine(exact, scene), exact => Plain(Picture(t))
      PROVE  \E W : Does(exact, c, View(exact, scene), W)
  <2> DEFINE V == View(exact, scene)
             W == [nodes |-> V.nodes, lines |-> IF exact THEN V.lines \cup {l} ELSE {}]
  <2>1. /\ Seen(exact, V) /\ V.nodes = PointSet(scene)
        /\ exact => V.lines = Lines(scene) /\ Good(scene)
    BY <1>9, ViewIs
  <2> HIDE DEF V
  <2>2. W.nodes = V.nodes /\ (exact => W.lines = V.lines \cup {l}) /\ (~ exact => W.lines = {})
    OBVIOUS
  <2>3. Seen(exact, W)
    <3>1. V.nodes \subseteq Points /\ V.lines \subseteq LineRecs
      BY <2>1 DEF Seen, Views
    <3>2. W \in Views
      BY <3>1 DEF Views
    <3> QED BY <2>2, <3>2 DEF Seen
  <2> HIDE DEF W
  <2>4. ToSet(c.lines) = {l}
    BY <1>3, OnlyOne
  <2>5. On(V, c.lines)
    BY <2>1, <2>4 DEF On
  <2>6. ASSUME exact
        PROVE  ToSet(c.lines) \cap V.lines = {} /\ W.lines = V.lines \cup ToSet(c.lines)
               /\ LinesApart(W.lines)
    <3>1. Lines(t) = Lines(scene) \cup {l} /\ l \notin Lines(scene)
      BY <1>2, <1>4, <2>1, <2>6, LineTakenGood
    <3>2. LinesApart(Lines(t))
      <4>1. Picture(t).lines = Lines(t)
        BY PictureIs
      <4> QED BY <1>9, <2>6, <4>1 DEF Plain, LinesApart, Joined
    <3>3. W.lines = Lines(t)
      BY <2>1, <2>2, <2>6, <3>1
    <3> QED BY <2>1, <2>2, <2>4, <2>6, <3>1, <3>2, <3>3
  <2>7. AddsLines(exact, c, V, W)
    BY <1>3, <2>2, <2>5, <2>6 DEF AddsLines
  <2>8. Does(exact, c, V, W)
    BY <2>1, <2>3, <2>7 DEF Does
  <2> QED BY <2>8 DEF V
<1> QED BY <1>2, <1>5, <1>6, <1>7, <1>8, <1>9, NewlyPushed

-----------------------------------------------------------------------------
(* The edit of a face.                                                     *)

\* A face that is edited is the only one that may join the new points.
LEMMA NoOtherJoins ==
    ASSUME Good(scene), NEW i \in DOMAIN scene.faces, NEW l, l = LineOf(scene, scene.faces[i]),
           NEW m, GetFaceBetween(scene, m.from, m.to) \in {0, i}
    PROVE  l \in Lines(scene) /\ \A n \in Lines(scene) \ {l} : Joined(n) # Joined(m)
<1>1. scene \in Scenes /\ scene.faces[i] \in FaceSet(scene)
  <2>1. scene \in Scenes
    BY DEF Good
  <2> QED BY <2>1, FacesAre
<1>2. l \in Lines(scene)
  BY <1>1 DEF Lines
<1>3. ASSUME NEW n \in Lines(scene), Joined(n) = Joined(m) PROVE n = l
  <2>1. PICK j \in DOMAIN scene.faces : n = LineOf(scene, scene.faces[j])
    BY DEF Lines, FaceSet
  <2>2. scene.faces[j] \in FaceSet(scene)
    BY <1>1, <2>1, FacesAre
  <2>3. n.from = PointOf(scene, scene.faces[j].from) /\ n.to = PointOf(scene, scene.faces[j].to)
    BY <2>1, <2>2, LineOfGood
  <2>4. {PointOf(scene, scene.faces[j].from), PointOf(scene, scene.faces[j].to)} = {m.from, m.to}
    BY <1>3, <2>3 DEF Joined
  <2>5. GetFaceBetween(scene, m.from, m.to) # 0
    BY <1>1, <2>4, GetFaceBetweenIs
  <2>6. {PointOf(scene, scene.faces[i].from), PointOf(scene, scene.faces[i].to)} = {m.from, m.to}
    BY <1>1, <2>5, GetFaceBetweenIs
  <2>7. l.from = PointOf(scene, scene.faces[i].from) /\ l.to = PointOf(scene, scene.faces[i].to)
    BY <1>1, LineOfGood
  <2>8. Joined(n) = Joined(l)
    BY <1>3, <2>6, <2>7 DEF Joined
  <2> QED BY <1>2, <2>8, LinesOfGood DEF LinesApart
<1> QED BY <1>2, <1>3

\* Replacing a line of the picture, and what is seen then.
LEMMA EditedDoes ==
    ASSUME scene \in Scenes, NEW i \in DOMAIN scene.faces, NEW l, l = LineOf(scene, scene.faces[i]),
           NEW m \in LineRecs, m.from \in PointSet(scene), m.to \in PointSet(scene), m.from # m.to,
           GetFaceBetween(scene, m.from, m.to) \in {0, i},
           NEW exact \in BOOLEAN, Fine(exact, scene), NEW c, c = EdgeEdit(l, m)
    PROVE  \E W : Does(exact, c, View(exact, scene), W)
<1> DEFINE V == View(exact, scene)
           W == [nodes |-> V.nodes, lines |-> IF exact THEN (V.lines \ {l}) \cup {m} ELSE {}]
<1>1. /\ Seen(exact, V) /\ V.nodes = PointSet(scene) /\ Sane(scene) /\ Hang(scene)
      /\ exact => V.lines = Lines(scene) /\ Good(scene)
  BY ViewIs DEF Fine
<1> HIDE DEF V
<1>2. scene.faces[i] \in FaceSet(scene)
  BY FacesAre
<1>3. l \in LineRecs /\ l.from # l.to
  BY <1>1, <1>2, LineOfSane
<1>4. c \in EdgeEdits /\ c.lines[1] = l /\ c.new = m
  <2>1. <<l>> \in Seq(LineRecs) /\ Len(<<l>>) = 1 /\ <<l>>[1] = l
    <3> HIDE DEF LineRecs
    <3> QED BY <1>3
  <2> QED BY <2>1 DEF EdgeEdit, EdgeEdits
<1>5. /\ W.nodes = V.nodes /\ (exact => W.lines = (V.lines \ {l}) \cup {m})
      /\ (~ exact => W.lines = {})
  OBVIOUS
<1>6. Seen(exact, W)
  <2>1. V.nodes \subseteq Points /\ V.lines \subseteq LineRecs
    BY <1>1 DEF Seen, Views
  <2>2. W \in Views
    BY <2>1 DEF Views
  <2> QED BY <1>5, <2>2 DEF Seen
<1> HIDE DEF W
<1>7. ASSUME exact
      PROVE  l \in V.lines /\ \A n \in V.lines \ {l} : Joined(n) # Joined(m)
  <2>1. Good(scene) /\ V.lines = Lines(scene)
    BY <1>1, <1>7
  <2> QED BY <2>1, NoOtherJoins
<1>8. EditsLine(exact, c, V, W)
  BY <1>1, <1>3, <1>4, <1>5, <1>7 DEF EditsLine
<1>9. Does(exact, c, V, W)
  BY <1>1, <1>6, <1>8 DEF Does
<1> QED BY <1>9 DEF V

\* SetFace leaves the nodes alone, and what is sane.
LEMMA SetFaceSane ==
    ASSUME NEW s \in Scenes, NEW i \in {0} \cup DOMAIN s.faces, NEW m \in LineRecs,
           m.from \in PointSet(s), m.to \in PointSet(s), m.from # m.to, NEW t, t = SetFace(s, i, m)
    PROVE  /\ DOMAIN t.faces = DOMAIN s.faces /\ t.nodes = s.nodes /\ t.sound = s.sound
           /\ t \in Scenes /\ (s \in Hung => t \in Hung)
           /\ Sane(s) => Sane(t)
<1>1. t \in Scenes /\ t.nodes = s.nodes /\ (s \in Hung => t \in Hung)
  BY SetFaceIs
<1>4. NodesApart(s) /\ Loopless(s) /\ m.from # m.to => Loopless(t)
  BY SetFaceIs
<1>2. DOMAIN t.faces = DOMAIN s.faces /\ t.sound = s.sound
  <2>1. CASE i = 0
    BY <2>1 DEF SetFace
  <2>2. CASE i # 0
    <3>1. t.sound = s.sound
      BY <2>2, SetFaceIs
    <3>2. FaceReplaced(s, t, i, FaceOn(s, m))
      BY <2>2, SetFaceIs
    <3> QED BY <3>1, <3>2 DEF FaceReplaced
  <2> QED BY <2>1, <2>2
<1>3. ASSUME Sane(s) PROVE Sane(t)
  <2>1. NodesApart(s) /\ Loopless(s) /\ s \in Hung /\ s.sound
    BY <1>3 DEF Sane, Hung
  <2>2. Loopless(t)
    BY <1>4, <2>1
  <2>3. NodesApart(t)
    BY <1>1, <2>1, SameNodes
  <2>4. Hang(t)
    BY <1>1, <1>2, <2>1 DEF Hung
  <2> QED BY <1>1, <1>2, <2>1, <2>2, <2>3, <2>4 DEF Sane
<1> QED BY <1>1, <1>2, <1>3

\* Of the faces of a good scene the command finds the one that the dialog holds, and
\* what the dialog sets once more is set already.
LEMMA SetOnceMore ==
    ASSUME Good(scene), NEW i \in DOMAIN scene.faces, NEW l, l = LineOf(scene, scene.faces[i]),
           NEW m \in LineRecs, m.from \in PointSet(scene), m.to \in PointSet(scene), m.from # m.to,
           GetFaceBetween(scene, m.from, m.to) \in {0, i},
           NEW t, t = SetFace(scene, GetFace(scene, l), m)
    PROVE  SetFace(t, i, m) = t
<1> DEFINE g == GetFace(scene, l)
<1>1. /\ scene \in Scenes /\ scene.faces[i] \in FaceSet(scene) /\ FacesApart(scene)
      /\ LinesApart(Lines(scene))
  <2>1. scene \in Scenes /\ FacesApart(scene)
    BY DEF Good
  <2> QED BY <2>1, FacesAre, LinesOfGood
<1>2. l \in Lines(scene) /\ \A n \in Lines(scene) \ {l} : Joined(n) # Joined(m)
  BY NoOtherJoins
<1>3. g \in DOMAIN scene.faces /\ LineOf(scene, scene.faces[g]) = l
  BY <1>1, <1>2, GetFaceGood
<1>4. g = GetFace(scene, l)
  OBVIOUS
<1> HIDE DEF g
<1>5. scene.faces[g] \in FaceSet(scene)
  BY <1>1, <1>3, FacesAre
<1>6. scene.faces[g] = scene.faces[i]
  BY <1>1, <1>3, <1>5, JoinedTellsFace
<1>7. g = i
  BY <1>1, <1>3, <1>6 DEF FacesApart
<1>8. t = SetFace(scene, i, m)
  BY <1>4, <1>7
<1> QED BY <1>2, <1>8, SetFaceGood

LEMMA EditFaceKeeps ==
    ASSUME Inv, scene.sound, NEW i \in DOMAIN scene.faces, NEW m \in LineRecs,
           m.from \in PointSet(scene), m.to \in PointSet(scene), m.from # m.to, EditFace(i, m)
    PROVE  Inv'
<1> DEFINE l == LineOf(scene, scene.faces[i])
           c == EdgeEdit(l, m)
           e == Pushed(scene, <<<<c>>>>)
           d == [e EXCEPT !.scene = SetFace(@, i, m)]
           b == StackNow(scene)
<1>1. scene \in Scenes /\ scene \in Hung /\ Ready(scene, stack, index)
  BY Now DEF Ready
<1>2. GetFaceBetween(scene, m.from, m.to) \in {0, i} /\ Finish(d)
  BY DEF EditFace
<1>3. l = LineOf(scene, scene.faces[i]) /\ c = EdgeEdit(l, m)
  OBVIOUS
<1>4. e = PushOn(b, <<c>>)
  BY PushedOne
<1>5. /\ e = [scene |-> e.scene, stack |-> e.stack, index |-> e.index, past |-> e.past]
      /\ e.scene = RedoItem(scene, <<c>>).scene
  BY <1>4 DEF PushOn, StackNow
<1>6. e = Pushed(scene, <<<<c>>>>)
  OBVIOUS
<1> HIDE DEF l, c, e, b
<1>7. /\ d.scene = SetFace(e.scene, i, m)
      /\ d.stack = e.stack /\ d.index = e.index /\ d.past = e.past
  BY <1>5
<1> HIDE DEF d
<1>8. l \in LineRecs
  <2>1. scene.faces[i] \in FaceRecs
    BY <1>1, SceneHas
  <2> QED BY <1>1, <1>3, <2>1, LineIs
<1>9. c \in EdgeEdits /\ c.lines[1] = l /\ c.new = m /\ c \in Commands
  <2>1. <<l>> \in Seq(LineRecs) /\ Len(<<l>>) = 1 /\ <<l>>[1] = l
    <3> HIDE DEF LineRecs
    <3> QED BY <1>8
  <2>2. c \in EdgeEdits /\ c.lines[1] = l /\ c.new = m
    BY <1>3, <2>1 DEF EdgeEdit, EdgeEdits
  <2> QED BY <2>2 DEF Commands
<1>10. Legal(<<c>>)
  <2>1. <<c>> \in Seq(Commands)
    <3> HIDE DEF Commands
    <3> QED BY <1>9
  <2>2. ASSUME NEW exact \in BOOLEAN, Fine(exact, scene)
        PROVE  \E W : ItemDoes(exact, <<c>>, View(exact, scene), W)
    <3>1. PICK W : Does(exact, c, View(exact, scene), W)
      BY <1>1, <1>2, <1>3, <2>2, EditedDoes
    <3>2. ItemDoes(exact, <<c>>, View(exact, scene), W)
      BY <1>9, <3>1, OneCommand
    <3> QED BY <3>2
  <2> QED BY <2>1, <2>2 DEF Legal
<1>11. e.scene = SetFace(scene, GetFace(scene, l), m)
  <2>1. Redo(scene, c) = SetFace(scene, GetFace(scene, l), m)
    BY <1>9, EdgeEditsDo
  <2> QED BY <1>1, <1>5, <1>9, <2>1, RedoOne
<1>12. GetFace(scene, l) \in {0} \cup DOMAIN scene.faces
  BY <1>1, GetFaceIs
<1>13. /\ DOMAIN e.scene.faces = DOMAIN scene.faces /\ e.scene.nodes = scene.nodes
       /\ e.scene.sound = scene.sound /\ e.scene \in Scenes /\ e.scene \in Hung
  <2> DEFINE g == GetFace(scene, l)
  <2>1. g \in {0} \cup DOMAIN scene.faces /\ e.scene = SetFace(scene, g, m)
    BY <1>11, <1>12
  <2> HIDE DEF g
  <2>2. e.scene \in Scenes /\ (scene \in Hung => e.scene \in Hung)
    BY <1>1, <2>1, SetFaceSane
  <2>3. DOMAIN e.scene.faces = DOMAIN scene.faces /\ e.scene.nodes = scene.nodes
    BY <1>1, <2>1, SetFaceSane
  <2>4. e.scene.sound = scene.sound
    BY <1>1, <2>1, SetFaceSane
  <2> QED BY <1>1, <2>2, <2>3, <2>4
<1>14. m.from \in PointSet(e.scene) /\ m.to \in PointSet(e.scene)
  BY <1>13, SameNodes
<1>15. i \in {0} \cup DOMAIN e.scene.faces
  BY <1>13
<1>16. /\ d.scene.nodes = e.scene.nodes /\ d.scene.sound = e.scene.sound
       /\ d.scene \in Scenes /\ d.scene \in Hung
       /\ Sane(e.scene) => Sane(d.scene)
  BY <1>7, <1>13, <1>14, <1>15, SetFaceSane
<1>17. Ready(d.scene, d.stack, d.index)
  <2>1. Ready(e.scene, e.stack, e.index)
    BY <1>6, <1>10, OnePushGoes
  <2> QED BY <1>7, <1>16, <2>1 DEF Ready
<1>18. ASSUME opens = 0
       PROVE  \E views : Goes(FALSE, d.scene, d.stack, d.index, views)
  <2>1. \E views : Goes(FALSE, e.scene, e.stack, e.index, views)
    BY <1>6, <1>10, <1>13, <1>18, OnePushGoes
  <2>2. PICK views : Goes(FALSE, e.scene, e.stack, e.index, views)
    BY <2>1
  <2>3. Sane(e.scene)
    BY <2>2 DEF Goes, Fine
  <2>4. View(FALSE, d.scene) = View(FALSE, e.scene)
    BY <1>16, SameNodes DEF View
  <2>5. Fine(FALSE, d.scene)
    BY <1>16, <2>3 DEF Fine
  <2>6. Goes(FALSE, d.scene, d.stack, d.index, views)
    BY <1>7, <2>2, <2>4, <2>5 DEF Goes
  <2> QED BY <2>6
<1>19. ASSUME ordinary
       PROVE  /\ Goes(TRUE, d.scene, d.stack, d.index, d.past)
              /\ Plain(Picture(d.scene)) => AllPlain(d.past)
  <2>1. /\ Goes(TRUE, e.scene, e.stack, e.index, e.past)
        /\ Plain(Picture(e.scene)) => AllPlain(e.past)
    BY <1>6, <1>10, <1>19, OnePushGoes
  <2>2. Good(scene)
    <3>1. Goes(TRUE, scene, stack, index, past)
      BY <1>19, Now
    <3>2. Fine(TRUE, scene)
      BY <3>1 DEF Goes
    <3> QED BY <3>2, GoodIsSane DEF Fine
  <2>3. d.scene = e.scene
    BY <1>2, <1>3, <1>7, <1>11, <2>2, SetOnceMore
  <2> QED BY <1>7, <2>1, <2>3
<1> QED BY <1>2, <1>17, <1>18, <1>19, FinishKeeps

-----------------------------------------------------------------------------
(* The steps that push nothing.                                            *)

\* A step of the undo stack goes from one scene it tells to the next.
LEMMA UndoGoes ==
    ASSUME NEW exact \in BOOLEAN, Ready(scene, stack, index), index > 0, NEW views,
           Goes(exact, scene, stack, index, views),
           NEW t, t = UndoItem(scene, stack[index]), exact \/ t.sound
    PROVE  Goes(exact, t, stack, index - 1, views)
<1>1. /\ Fine(exact, scene) /\ Walk(exact, stack, views)
      /\ views[index + 1] = View(exact, scene)
  BY DEF Goes
<1>2. index \in 1 .. Len(stack) /\ stack[index] \in Seq(Commands) /\ index \in Int
  <2>1. index \in 0 .. Len(stack) /\ stack \in Seq(Seq(Commands)) /\ Len(stack) \in Nat
    BY DEF Ready, Stacks
  <2>2. index \in 1 .. Len(stack)
    BY <2>1
  <2> HIDE DEF Commands
  <2> QED BY <2>1, <2>2
<1>3. ItemFits(exact, stack[index], views[index], View(exact, scene))
  BY <1>1, <1>2 DEF Walk
<1>4. Shows(exact, t, views[index])
  BY <1>1, <1>2, <1>3, UndoItemFits
<1>5. (index - 1) + 1 = index
  BY <1>2
<1> QED BY <1>1, <1>4, <1>5 DEF Goes, Shows

LEMMA FitsThenDoes ==
    ASSUME NEW exact, NEW item, NEW V, NEW W, ItemFits(exact, item, V, W)
    PROVE  ItemDoes(exact, item, V, W)
<1>1. PICK mid : mid[0] = V /\ mid[Len(item)] = W /\ FitsThrough(exact, item, mid)
  BY DEF ItemFits
<1>2. DoesThrough(exact, item, mid)
  BY <1>1 DEF FitsThrough, DoesThrough, Fits
<1> QED BY <1>1, <1>2 DEF ItemDoes

LEMMA RedoGoes ==
    ASSUME NEW exact \in BOOLEAN, Ready(scene, stack, index), index < Len(stack), NEW views,
           Goes(exact, scene, stack, index, views),
           NEW r, r = RedoItem(scene, stack[index + 1]), exact \/ r.scene.sound
    PROVE  Goes(exact, r.scene, [stack EXCEPT ![index + 1] = r.item], index + 1, views)
<1>1. /\ Fine(exact, scene) /\ Walk(exact, stack, views)
      /\ views[index + 1] = View(exact, scene)
  BY DEF Goes
<1> DEFINE at == index + 1
<1>2. at = index + 1
  OBVIOUS
<1> HIDE DEF at
<1>3. at \in 1 .. Len(stack) /\ stack[at] \in Seq(Commands) /\ stack \in Stacks
  <2>1. index \in 0 .. Len(stack) /\ stack \in Seq(Seq(Commands)) /\ Len(stack) \in Nat
    BY DEF Ready, Stacks
  <2>2. at \in 1 .. Len(stack)
    BY <1>2, <2>1
  <2> HIDE DEF Commands
  <2> QED BY <2>1, <2>2 DEF Stacks
<1>4. ItemFits(exact, stack[at], View(exact, scene), views[at + 1])
  BY <1>1, <1>2, <1>3 DEF Walk
<1>5. ItemDoes(exact, stack[at], View(exact, scene), views[at + 1])
  BY <1>4, FitsThenDoes
<1>6. Shows(exact, r.scene, views[at + 1])
  BY <1>1, <1>2, <1>3, <1>5, RedoItemDoes
<1>7. ItemFits(exact, r.item, View(exact, scene), views[at + 1])
  BY <1>1, <1>2, <1>3, <1>5, RedoItemDoes
<1>8. r.item \in Seq(Commands)
  <2>1. r \in RedoneItems
    BY <1>2, <1>3, RedoItemIs DEF Ready, Hung
  <2> QED BY <2>1 DEF RedoneItems
<1>9. Walk(exact, [stack EXCEPT ![at] = r.item], views)
  BY <1>1, <1>2, <1>3, <1>7, <1>8, WalkReplaced
<1> QED BY <1>2, <1>6, <1>9 DEF Goes, Shows

LEMMA UndoLastKeeps ==
    ASSUME Inv, scene.sound, UndoLast
    PROVE  Inv'
<1> DEFINE t == UndoItem(scene, stack[index])
<1>1. /\ index > 0 /\ scene' = t /\ index' = index - 1 /\ stack' = stack /\ opens' = opens
      /\ ordinary' = ordinary /\ past' = IF ordinary THEN past ELSE <<>>
  <2>1. ordinary \in BOOLEAN
    BY DEF Inv, Typed
  <2> QED BY <2>1 DEF UndoLast, Watch
<1>2. t = UndoItem(scene, stack[index])
  OBVIOUS
<1> HIDE DEF t
<1>3. Ready(scene, stack, index) /\ scene \in Scenes /\ scene \in Hung
  BY Now DEF Ready
<1>4. /\ index \in 1 .. Len(stack) /\ stack[index] \in Seq(Commands)
      /\ index - 1 \in 0 .. Len(stack)
  <2>1. index \in 0 .. Len(stack) /\ stack \in Seq(Seq(Commands)) /\ Len(stack) \in Nat
    BY <1>3 DEF Ready, Stacks
  <2>2. index \in 1 .. Len(stack) /\ index - 1 \in 0 .. Len(stack)
    BY <1>1, <2>1
  <2> HIDE DEF Commands
  <2> QED BY <2>1, <2>2
<1>5. t \in Hung
  <2>1. Keeps(scene, t)
    BY <1>2, <1>3, <1>4, UndoItemIs
  <2> QED BY <1>3, <2>1 DEF Keeps
<1>6. Typed'
  <2>1. Ready(t, stack, index - 1)
    BY <1>3, <1>4, <1>5 DEF Ready
  <2>2. Ready(scene', stack', index') /\ opens' \in Nat /\ ordinary' \in BOOLEAN
    BY <1>1, <2>1 DEF Inv, Typed
  <2> QED BY <2>2 DEF Typed
<1>7. PointsGo'
  <2> SUFFICES ASSUME opens = 0, t.sound
               PROVE  \E views : Goes(FALSE, t, stack, index - 1, views)
    BY <1>1 DEF PointsGo
  <2>1. PICK views : Goes(FALSE, scene, stack, index, views)
    BY Now
  <2>2. Goes(FALSE, t, stack, index - 1, views)
    BY <1>1, <1>2, <1>3, <2>1, UndoGoes
  <2> QED BY <2>2
<1>8. PicturesGo'
  <2> SUFFICES ASSUME ordinary
               PROVE  Goes(TRUE, t, stack, index - 1, past) /\ AllPlain(past)
    BY <1>1 DEF PicturesGo
  <2>1. Goes(TRUE, scene, stack, index, past) /\ AllPlain(past)
    BY Now
  <2>2. Goes(TRUE, t, stack, index - 1, past)
    BY <1>1, <1>2, <1>3, <2>1, UndoGoes
  <2> QED BY <2>1, <2>2
<1> QED BY <1>6, <1>7, <1>8 DEF Inv

LEMMA RedoNextKeeps ==
    ASSUME Inv, scene.sound, RedoNext
    PROVE  Inv'
<1> DEFINE r == RedoItem(scene, stack[index + 1])
           items == [stack EXCEPT ![index + 1] = r.item]
<1>1. /\ index < Len(stack) /\ scene' = r.scene /\ index' = index + 1 /\ opens' = opens
      /\ stack' = items
      /\ ordinary' = ordinary /\ past' = IF ordinary THEN past ELSE <<>>
  <2>1. ordinary \in BOOLEAN
    BY DEF Inv, Typed
  <2> QED BY <2>1 DEF RedoNext, Watch
<1>2. r = RedoItem(scene, stack[index + 1]) /\ items = [stack EXCEPT ![index + 1] = r.item]
  OBVIOUS
<1> HIDE DEF r, items
<1>3. Ready(scene, stack, index) /\ scene \in Scenes /\ scene \in Hung
  BY Now DEF Ready
<1>4. /\ stack \in Seq(Seq(Commands)) /\ index + 1 \in 1 .. Len(stack)
      /\ stack[index + 1] \in Seq(Commands)
  <2>1. index \in 0 .. Len(stack) /\ stack \in Seq(Seq(Commands)) /\ Len(stack) \in Nat
    BY <1>3 DEF Ready, Stacks
  <2>2. index + 1 \in 1 .. Len(stack)
    BY <1>1, <2>1
  <2> HIDE DEF Commands
  <2> QED BY <2>1, <2>2
<1>5. r.scene \in Hung /\ r.item \in Seq(Commands)
  <2>1. r \in RedoneItems /\ Keeps(scene, r.scene)
    BY <1>2, <1>3, <1>4, RedoItemIs
  <2> QED BY <1>3, <2>1 DEF Keeps, RedoneItems
<1>6. items \in Seq(Seq(Commands)) /\ Len(items) = Len(stack)
  <2> DEFINE T == Seq(Commands)
  <2>1. stack \in Seq(T) /\ r.item \in T
    BY <1>4, <1>5
  <2> HIDE DEF T
  <2>2. items \in Seq(T) /\ Len(items) = Len(stack)
    BY <1>2, <1>4, <2>1
  <2> QED BY <2>2 DEF T
<1>7. Typed'
  <2>1. index + 1 \in 0 .. Len(items)
    BY <1>4, <1>6
  <2>2. Ready(r.scene, items, index + 1)
    BY <1>5, <1>6, <2>1 DEF Ready, Stacks
  <2>3. Ready(scene', stack', index') /\ opens' \in Nat /\ ordinary' \in BOOLEAN
    BY <1>1, <2>2 DEF Inv, Typed
  <2> QED BY <2>3 DEF Typed
<1>8. PointsGo'
  <2> SUFFICES ASSUME opens = 0, r.scene.sound
               PROVE  \E views : Goes(FALSE, r.scene, items, index + 1, views)
    BY <1>1 DEF PointsGo
  <2>1. PICK views : Goes(FALSE, scene, stack, index, views)
    BY Now
  <2>2. Goes(FALSE, r.scene, items, index + 1, views)
    BY <1>1, <1>2, <1>3, <2>1, RedoGoes
  <2> QED BY <2>2
<1>9. PicturesGo'
  <2> SUFFICES ASSUME ordinary
               PROVE  Goes(TRUE, r.scene, items, index + 1, past) /\ AllPlain(past)
    BY <1>1 DEF PicturesGo
  <2>1. Goes(TRUE, scene, stack, index, past) /\ AllPlain(past)
    BY Now
  <2>2. Goes(TRUE, r.scene, items, index + 1, past)
    BY <1>1, <1>2, <1>3, <2>1, RedoGoes
  <2> QED BY <2>1, <2>2
<1> QED BY <1>7, <1>8, <1>9 DEF Inv

LEMMA SwapFaceKeeps ==
    ASSUME Inv, scene.sound, NEW i \in DOMAIN scene.faces, SwapFace(i)
    PROVE  Inv'
<1> DEFINE old == scene.faces[i]
           new == [from |-> old.to, to |-> old.from, angle |-> old.angle, segments |-> old.segments]
           faces == [j \in DOMAIN scene.faces |-> IF j = i THEN new ELSE scene.faces[j]]
           t == [scene EXCEPT !.faces = faces]
<1>1. scene \in Scenes /\ scene \in Hung /\ Hang(scene) /\ Ready(scene, stack, index)
  BY Now DEF Ready
<1>2. /\ scene.faces \in Seq(FaceRecs) /\ DOMAIN scene.faces = 1 .. Len(scene.faces)
      /\ Len(scene.faces) \in Nat /\ old \in FaceRecs
      /\ \A j \in DOMAIN scene.faces : scene.faces[j] \in FaceRecs
  BY <1>1, SceneHas
<1>3. new \in FaceRecs /\ new = [[old EXCEPT !.from = old.to] EXCEPT !.to = old.from]
  <2> DEFINE r == [[old EXCEPT !.from = old.to] EXCEPT !.to = old.from]
  <2>1. old.from \in Nat /\ old.to \in Nat /\ old.angle \in Nat /\ old.segments \in Nat
    BY <1>2 DEF FaceRecs
  <2>2. /\ r \in FaceRecs /\ r.from = old.to /\ r.to = old.from
        /\ r.angle = old.angle /\ r.segments = old.segments
    BY <1>2, <2>1 DEF FaceRecs
  <2>3. new \in FaceRecs /\ new.from = old.to /\ new.to = old.from
        /\ new.angle = old.angle /\ new.segments = old.segments
    BY <2>1 DEF FaceRecs
  <2>4. new = r
    <3> HIDE DEF new, r
    <3> QED BY <2>2, <2>3 DEF FaceRecs
  <2> QED BY <2>3, <2>4
<1>4. scene' = t
  <2>1. scene' = [scene EXCEPT !.faces[i].from = scene.faces[i].to,
                               !.faces[i].to = scene.faces[i].from]
    BY DEF SwapFace
  <2>2. scene \in [nodes : Seq(NodeRecs), faces : Seq(FaceRecs), sound : BOOLEAN]
    BY <1>1 DEF Scenes
  <2>3. [[scene.faces EXCEPT ![i].from = old.to] EXCEPT ![i].to = old.from] = faces
    <3>1. [scene.faces EXCEPT ![i].from = old.to]
            = [j \in DOMAIN scene.faces |->
                  IF j = i THEN [old EXCEPT !.from = old.to] ELSE scene.faces[j]]
      BY <1>2
    <3> QED BY <1>2, <1>3, <3>1
  <2>4. scene' = [scene EXCEPT !.faces =
                     [[scene.faces EXCEPT ![i].from = old.to] EXCEPT ![i].to = old.from]]
    BY <2>1, <2>2
  <2> QED BY <2>3, <2>4
<1>5. /\ stack' = stack /\ index' = index /\ opens' = opens /\ ordinary' = FALSE
  BY DEF SwapFace, Watch
<1>6. faces \in Seq(FaceRecs)
  <2>1. faces = [j \in 1 .. Len(scene.faces) |-> IF j = i THEN new ELSE scene.faces[j]]
    BY <1>2
  <2>2. \A j \in 1 .. Len(scene.faces) : (IF j = i THEN new ELSE scene.faces[j]) \in FaceRecs
    BY <1>2, <1>3
  <2>3. Len(scene.faces) \in Nat
    BY <1>2
  <2> HIDE DEF faces, new, old, FaceRecs
  <2> QED BY <2>1, <2>2, <2>3
<1>7. t \in Scenes /\ t.nodes = scene.nodes /\ t.sound = scene.sound /\ t.faces = faces
  <2> HIDE DEF faces
  <2> QED BY <1>1, <1>6 DEF Scenes
<1> HIDE DEF t
<1>8. \A f \in FaceSet(t) : \E g \in FaceSet(scene) : {f.from, f.to} = {g.from, g.to}
  <2> SUFFICES ASSUME NEW j \in DOMAIN scene.faces
               PROVE  \E g \in FaceSet(scene) : {faces[j].from, faces[j].to} = {g.from, g.to}
    BY <1>7 DEF FaceSet
  <2>1. scene.faces[j] \in FaceSet(scene) /\ old \in FaceSet(scene)
    BY DEF FaceSet
  <2>2. CASE j = i
    BY <2>1, <2>2
  <2>3. CASE j # i
    BY <2>1, <2>3
  <2> QED BY <2>2, <2>3
<1>9. Hang(t)
  <2>1. Ids(t) = Ids(scene)
    BY <1>7, SameNodes
  <2> SUFFICES ASSUME NEW f \in FaceSet(t) PROVE f.from \in Ids(t) /\ f.to \in Ids(t)
    BY DEF Hang
  <2>2. PICK g \in FaceSet(scene) : {f.from, f.to} = {g.from, g.to}
    BY <1>8
  <2>3. g.from \in Ids(scene) /\ g.to \in Ids(scene)
    BY <1>1 DEF Hang
  <2>4. f.from \in {g.from, g.to} /\ f.to \in {g.from, g.to}
    BY <2>2
  <2> QED BY <2>1, <2>3, <2>4
<1>10. Typed'
  <2>1. t \in Hung
    BY <1>7, <1>9 DEF Hung
  <2>2. Ready(t, stack, index)
    BY <1>1, <2>1 DEF Ready
  <2>3. Ready(scene', stack', index') /\ opens' \in Nat /\ ordinary' \in BOOLEAN
    BY <1>4, <1>5, <2>2 DEF Inv, Typed
  <2> QED BY <2>3 DEF Typed
<1>11. PointsGo'
  <2> SUFFICES ASSUME opens = 0 PROVE \E views : Goes(FALSE, t, stack, index, views)
    BY <1>4, <1>5 DEF PointsGo
  <2>1. PICK views : Goes(FALSE, scene, stack, index, views)
    BY Now
  <2>2. Sane(scene)
    BY <2>1 DEF Goes, Fine
  <2>3. Loopless(t)
    <3> SUFFICES ASSUME NEW f \in FaceSet(t) PROVE f.from # f.to
      BY DEF Loopless
    <3>1. PICK g \in FaceSet(scene) : {f.from, f.to} = {g.from, g.to}
      BY <1>8
    <3>2. g.from # g.to
      BY <2>2 DEF Sane, Loopless
    <3> QED BY <3>1, <3>2
  <2>4. NodesApart(t)
    BY <1>7, <2>2, SameNodes DEF Sane
  <2>5. Fine(FALSE, t)
    BY <1>7, <1>9, <2>2, <2>3, <2>4 DEF Fine, Sane
  <2>6. View(FALSE, t) = View(FALSE, scene)
    BY <1>7, SameNodes DEF View
  <2>7. Goes(FALSE, t, stack, index, views)
    BY <2>1, <2>5, <2>6 DEF Goes
  <2> QED BY <2>7
<1>12. PicturesGo'
  BY <1>5 DEF PicturesGo
<1> QED BY <1>10, <1>11, <1>12 DEF Inv

\* What is read from a file.
LEMMA ReadSceneIs ==
    ASSUME NEW s, ReadScene(s)
    PROVE  Sane(s) /\ s \in Hung /\ (Plain(Picture(s)) => FacesApart(s))
<1>1. /\ s \in [nodes : Seq([id : Nat, point : Points]), sound : {TRUE},
                faces : Seq([from : Ids(s), to : Ids(s), angle : Nat, segments : Nat])]
      /\ NodesApart(s) /\ Loopless(s)
      /\ \A i, j \in DOMAIN s.faces : s.faces[i] = s.faces[j] => i = j
  BY DEF ReadScene, NodesApart, Loopless
<1>2. s.nodes \in Seq(NodeRecs) /\ s.sound = TRUE
  BY <1>1 DEF NodeRecs
<1>3. Ids(s) \subseteq Nat
  <2>1. \A i \in DOMAIN s.nodes : s.nodes[i] \in NodeRecs
    <3> HIDE DEF NodeRecs
    <3> QED BY <1>2
  <2> QED BY <2>1 DEF Ids, NodeRecs
<1> DEFINE Hanging == [from : Ids(s), to : Ids(s), angle : Nat, segments : Nat]
<1>4. s.faces \in Seq(Hanging) /\ s = [nodes |-> s.nodes, faces |-> s.faces, sound |-> s.sound]
  BY <1>1
<1>5. Hanging \subseteq FaceRecs
  BY <1>3 DEF FaceRecs
<1>6. \A f \in FaceSet(s) : f \in Hanging
  <2>1. \A i \in DOMAIN s.faces : s.faces[i] \in Hanging
    <3> HIDE DEF Hanging
    <3> QED BY <1>4
  <2> QED BY <2>1 DEF FaceSet
<1>7. s.faces \in Seq(FaceRecs)
  <2> HIDE DEF Hanging, FaceRecs
  <2> QED BY <1>4, <1>5
<1>8. s \in Scenes
  BY <1>2, <1>4, <1>7 DEF Scenes
<1>9. Hang(s)
  BY <1>6 DEF Hang
<1>10. Sane(s) /\ s \in Hung
  BY <1>1, <1>2, <1>8, <1>9 DEF Sane, Hung
<1>11. ASSUME Plain(Picture(s)) PROVE FacesApart(s)
  <2> SUFFICES ASSUME NEW i \in DOMAIN s.faces, NEW j \in DOMAIN s.faces,
                      {s.faces[i].from, s.faces[i].to} = {s.faces[j].from, s.faces[j].to}
               PROVE  i = j
    BY DEF FacesApart
  <2> DEFINE f == s.faces[i]
             g == s.faces[j]
  <2>1. f \in FaceSet(s) /\ g \in FaceSet(s) /\ f \in FaceRecs /\ g \in FaceRecs
    BY <1>8, FacesAre
  <2>2. {f.from, f.to} = {g.from, g.to}
    OBVIOUS
  <2>3. f = g => i = j
    BY <1>1
  <2> HIDE DEF f, g
  <2>4. /\ LineOf(s, f).from = PointOf(s, f.from) /\ LineOf(s, f).to = PointOf(s, f.to)
        /\ LineOf(s, f).angle = f.angle /\ LineOf(s, f).segments = f.segments
    BY <1>8, <2>1, LineIs
  <2>5. /\ LineOf(s, g).from = PointOf(s, g.from) /\ LineOf(s, g).to = PointOf(s, g.to)
        /\ LineOf(s, g).angle = g.angle /\ LineOf(s, g).segments = g.segments
    BY <1>8, <2>1, LineIs
  <2>6. {LineOf(s, f).from, LineOf(s, f).to} = {LineOf(s, g).from, LineOf(s, g).to}
    <3>1. \/ f.from = g.from /\ f.to = g.to
          \/ f.from = g.to /\ f.to = g.from
      <4>1. /\ f.from \in {g.from, g.to} /\ f.to \in {g.from, g.to}
            /\ g.from \in {f.from, f.to} /\ g.to \in {f.from, f.to}
        BY <2>2
      <4> QED BY <4>1
    <3> QED BY <2>4, <2>5, <3>1
  <2>7. LineOf(s, f) = LineOf(s, g)
    <3>1. LineOf(s, f) \in Picture(s).lines /\ LineOf(s, g) \in Picture(s).lines
      BY <2>1, PictureIs DEF Lines
    <3> QED BY <1>11, <2>6, <3>1 DEF Plain
  <2>8. f.from = g.from
    <3>1. f.from \in Ids(s) /\ g.from \in Ids(s)
      BY <1>9, <2>1 DEF Hang
    <3>2. PointOf(s, f.from) = PointOf(s, g.from)
      BY <2>4, <2>5, <2>7
    <3> QED BY <1>1, <1>8, <3>1, <3>2, PointTellsNode
  <2>9. f.to = g.to
    <3>1. f.to \in Ids(s) /\ g.to \in Ids(s)
      BY <1>9, <2>1 DEF Hang
    <3>2. PointOf(s, f.to) = PointOf(s, g.to)
      BY <2>4, <2>5, <2>7
    <3> QED BY <1>1, <1>8, <3>1, <3>2, PointTellsNode
  <2>10. f.angle = g.angle /\ f.segments = g.segments
    BY <2>4, <2>5, <2>7
  <2>11. f = g
    BY <2>1, <2>8, <2>9, <2>10 DEF FaceRecs
  <2> QED BY <2>3, <2>11
<1> QED BY <1>10, <1>11

LEMMA OpenDocumentKeeps ==
    ASSUME Inv, NEW document \in Documents, OpenDocument(document)
    PROVE  Inv'
<1>1. /\ scene' = document /\ stack' = stack /\ index' = index /\ opens' = opens + 1
      /\ ordinary' = FALSE
  BY DEF OpenDocument, Watch
<1>2. Ready(scene, stack, index) /\ opens \in Nat
  BY DEF Inv, Typed
<1>3. document \in Hung
  BY ScenesAssumption, ReadSceneIs
<1>4. Ready(document, stack, index)
  BY <1>2, <1>3 DEF Ready
<1>5. Ready(scene', stack', index')
  BY <1>1, <1>4
<1>6. opens' \in Nat /\ opens' # 0 /\ ordinary' \in BOOLEAN
  <2>1. opens + 1 \in Nat /\ opens + 1 # 0
    BY <1>2
  <2> QED BY <1>1, <2>1
<1>7. Typed'
  BY <1>5, <1>6 DEF Typed
<1>8. PointsGo'
  BY <1>6 DEF PointsGo
<1>9. PicturesGo'
  BY <1>1 DEF PicturesGo
<1> QED BY <1>7, <1>8, <1>9 DEF Inv

LEMMA InitInv == Init => Inv
<1> SUFFICES ASSUME Init PROVE Inv
  OBVIOUS
<1>1. /\ scene = FirstScene /\ stack = <<>> /\ index = 0 /\ opens = 0
      /\ past = <<Picture(scene)>> /\ ordinary = Plain(Picture(scene))
  BY DEF Init
<1>2. Sane(scene) /\ scene \in Hung /\ (Plain(Picture(scene)) => FacesApart(scene))
  BY <1>1, ScenesAssumption, ReadSceneIs
<1>3. stack \in Stacks /\ Len(stack) = 0
  <2> DEFINE T == Seq(Commands)
  <2> HIDE DEF T
  <2>1. <<>> \in Seq(T)
    OBVIOUS
  <2> QED BY <1>1, <2>1 DEF Stacks, T
<1>4. Typed
  <2>1. 0 \in 0 .. 0 /\ 0 \in Nat
    OBVIOUS
  <2>2. Ready(scene, stack, index)
    BY <1>1, <1>2, <1>3, <2>1 DEF Ready
  <2>3. Plain(Picture(scene)) \in BOOLEAN
    BY DEF Plain
  <2> QED BY <1>1, <2>1, <2>2, <2>3 DEF Typed
<1>5. ASSUME NEW exact \in BOOLEAN, Fine(exact, scene), NEW V, V = View(exact, scene)
      PROVE  Goes(exact, scene, stack, index, <<V>>)
  <2>1. V \in Views
    BY <1>5, ViewIs DEF Seen
  <2>2. <<V>> \in Seq(Views) /\ Len(<<V>>) = 1 /\ <<V>>[1] = V
    <3> HIDE DEF Views
    <3> QED BY <2>1
  <2>3. Walk(exact, stack, <<V>>)
    BY <1>3, <2>2 DEF Walk
  <2> QED BY <1>1, <1>5, <2>2, <2>3 DEF Goes
<1>6. PointsGo
  <2>1. Fine(FALSE, scene)
    BY <1>2 DEF Fine
  <2> QED BY <1>5, <2>1 DEF PointsGo
<1>7. PicturesGo
  <2> SUFFICES ASSUME ordinary PROVE Goes(TRUE, scene, stack, index, past) /\ AllPlain(past)
    BY DEF PicturesGo
  <2>1. Fine(TRUE, scene) /\ Plain(Picture(scene))
    BY <1>1, <1>2 DEF Fine
  <2>2. View(TRUE, scene) = Picture(scene)
    BY PictureIs
  <2>3. Goes(TRUE, scene, stack, index, past)
    BY <1>1, <1>5, <2>1, <2>2
  <2>4. AllPlain(past)
    BY <1>1, <2>1 DEF AllPlain
  <2> QED BY <2>3, <2>4
<1> QED BY <1>4, <1>6, <1>7 DEF Inv

-----------------------------------------------------------------------------
(* Every step keeps the invariant.                                         *)

LEMMA NodePointsAre ==
    ASSUME Inv, scene.sound
    PROVE  NodePoints = PointSet(scene) /\ NodePoints \subseteq Points
<1>1. scene \in Scenes
  BY Now
<1> QED BY <1>1, SceneHas DEF NodePoints, PointSet

LEMMA EditKeeps ==
    ASSUME Inv, scene.sound, Edit
    PROVE  Inv'
<1>1. NodePoints = PointSet(scene) /\ NodePoints \subseteq Points
  BY NodePointsAre
<1>2. ASSUME NEW p \in Points, NewNode(p) PROVE Inv'
  BY <1>2, NewNodeKeeps
<1>3. ASSUME NEW p \in NodePoints, NEW q \in NodePoints, p # q,
             NEW angle \in Nat, NEW segments \in Nat, NEW l, l = Line(p, q, angle, segments)
      PROVE  /\ l \in LineRecs /\ l.from \in PointSet(scene) /\ l.to \in PointSet(scene)
             /\ l.from # l.to
  BY <1>1, <1>3 DEF Line, LineRecs
<1>4. ASSUME NEW p \in NodePoints, NEW q \in NodePoints, p # q, ClickFace(p, q) PROVE Inv'
  <2> DEFINE l == Line(p, q, 0, DefaultSegments)
  <2>1. NewFace(l) /\ l = Line(p, q, 0, DefaultSegments)
    BY <1>4 DEF ClickFace
  <2> HIDE DEF l
  <2>2. /\ l \in LineRecs /\ l.from \in PointSet(scene) /\ l.to \in PointSet(scene)
        /\ l.from # l.to
    BY <1>3, <1>4, <2>1, FacesAssumption
  <2> QED BY <2>1, <2>2, NewFaceKeeps
<1>5. ASSUME NEW p \in NodePoints, NEW q \in NodePoints, p # q,
             NEW angle \in Angles, NEW segments \in SegmentCounts,
             DialogFace(p, q, angle, segments)
      PROVE  Inv'
  <2> DEFINE l == Line(p, q, angle, segments)
  <2>1. NewFace(l) /\ l = Line(p, q, angle, segments)
    BY <1>5 DEF DialogFace
  <2> HIDE DEF l
  <2>2. angle \in Nat /\ segments \in Nat
    BY FacesAssumption
  <2>3. /\ l \in LineRecs /\ l.from \in PointSet(scene) /\ l.to \in PointSet(scene)
        /\ l.from # l.to
    BY <1>3, <1>5, <2>1, <2>2
  <2> QED BY <2>1, <2>3, NewFaceKeeps
<1>6. ASSUME NEW p \in NodePoints, NEW q \in NodePoints, p # q,
             NEW angle \in Angles, NEW segments \in SegmentCounts,
             NEW i \in DOMAIN scene.faces, EditFace(i, Line(p, q, angle, segments))
      PROVE  Inv'
  <2> DEFINE m == Line(p, q, angle, segments)
  <2>1. EditFace(i, m) /\ m = Line(p, q, angle, segments)
    BY <1>6
  <2> HIDE DEF m
  <2>2. angle \in Nat /\ segments \in Nat
    BY FacesAssumption
  <2>3. /\ m \in LineRecs /\ m.from \in PointSet(scene) /\ m.to \in PointSet(scene)
        /\ m.from # m.to
    BY <1>3, <1>6, <2>1, <2>2
  <2> QED BY <2>1, <2>3, EditFaceKeeps
<1>7. ASSUME NEW p \in NodePoints, NEW q \in Points, EditNode(p, q) PROVE Inv'
  BY <1>7, EditNodeKeeps
<1>8. ASSUME NEW i \in DOMAIN scene.faces, SwapFace(i) PROVE Inv'
  BY <1>8, SwapFaceKeeps
<1> QED BY <1>2, <1>4, <1>5, <1>6, <1>7, <1>8 DEF Edit

LEMMA SelectionKeeps ==
    ASSUME Inv, scene.sound, Selection
    PROVE  Inv'
<1>1. PICK S \in SUBSET DOMAIN scene.nodes, F \in SUBSET DOMAIN scene.faces :
          \/ DeleteSelected(S, F)
          \/ \E d \in Shifts :
                /\ \A i \in Ends(S, F) : scene.nodes[i].point + d \in Points
                /\ \/ MoveSelected(Ends(S, F), d)
                   \/ DragSelected(Ends(S, F), d)
                   \/ CopySelected(Ends(S, F), F, d)
  BY DEF Selection
<1> DEFINE E == Ends(S, F)
<1>2. /\ E \subseteq DOMAIN scene.nodes
      /\ \A k \in F, i \in DOMAIN scene.nodes :
            scene.nodes[i].id \in {scene.faces[k].from, scene.faces[k].to} => i \in E
  BY DEF Ends
<1> HIDE DEF E
<1>3. CASE DeleteSelected(S, F)
  BY <1>3, DeleteSelectedKeeps
<1>4. ASSUME NEW d \in Shifts, \A i \in E : scene.nodes[i].point + d \in Points,
             MoveSelected(E, d) \/ DragSelected(E, d) \/ CopySelected(E, F, d)
      PROVE  Inv'
  <2>1. CASE MoveSelected(E, d)
    BY <1>2, <1>4, <2>1, MoveSelectedKeeps
  <2>2. CASE DragSelected(E, d)
    BY <2>2, DragSelectedKeeps
  <2>3. CASE CopySelected(E, F, d)
    <3>1. Shiftable(E, F, d)
      BY <1>2, <1>4 DEF Shiftable
    <3> QED BY <2>3, <3>1, CopySelectedKeeps
  <2> QED BY <1>4, <2>1, <2>2, <2>3
<1> QED BY <1>1, <1>3, <1>4 DEF E

LEMMA NextKeepsInv == Inv /\ [Next]_vars => Inv'
<1> SUFFICES ASSUME Inv, [Next]_vars PROVE Inv'
  OBVIOUS
<1>1. CASE Next
  <2>1. scene.sound
    BY <1>1 DEF Next
  <2>2. CASE Edit
    BY <2>1, <2>2, EditKeeps
  <2>3. CASE Selection
    BY <2>1, <2>3, SelectionKeeps
  <2>4. CASE UndoLast
    BY <2>1, <2>4, UndoLastKeeps
  <2>5. CASE RedoNext
    BY <2>1, <2>5, RedoNextKeeps
  <2>6. ASSUME NEW document \in Documents, OpenDocument(document) PROVE Inv'
    BY <2>6, OpenDocumentKeeps
  <2> QED BY <1>1, <2>2, <2>3, <2>4, <2>5, <2>6 DEF Next
<1>2. CASE UNCHANGED vars
  <2>1. /\ scene' = scene /\ stack' = stack /\ index' = index /\ opens' = opens
        /\ past' = past /\ ordinary' = ordinary
    BY <1>2 DEF vars
  <2> QED BY <2>1 DEF Inv, Typed, PointsGo, PicturesGo, Ready, Goes, Fine, View, AllPlain
<1> QED BY <1>1, <1>2

\* The scene and the stack in every reachable state: while the document is the same the
\* stack's commands lead through drawings of points, and while the ghosts are kept also of
\* lines, of which the scene shows the one at the index (scene.cpp, scenegeometrydialog.cpp).
THEOREM SceneCorrect == Spec => []Inv
<1>1. Init => Inv
  BY InitInv
<1>2. Inv /\ [Next]_vars => Inv'
  BY NextKeepsInv
<1> QED BY <1>1, <1>2, PTL DEF Spec

\* Nodes at distinct points are as many as their points.
LEMMA PointsCounted ==
    ASSUME NEW s \in Scenes, NodesApart(s)
    PROVE  Cardinality(PointSet(s)) = Len(s.nodes)
<1> DEFINE N == Len(s.nodes)
           at == [i \in 1 .. N |-> s.nodes[i].point]
<1>1. DOMAIN s.nodes = 1 .. N /\ N \in Nat
  BY SceneHas
<1>2. at \in Bijection(1 .. N, PointSet(s))
  <2>1. at \in Injection(1 .. N, PointSet(s))
    <3>1. at \in [1 .. N -> PointSet(s)]
      BY <1>1 DEF PointSet
    <3>2. \A i, j \in 1 .. N : at[i] = at[j] => i = j
      BY <1>1 DEF NodesApart
    <3> QED BY <3>1, <3>2 DEF Injection, IsInjective
  <2>2. at \in Surjection(1 .. N, PointSet(s))
    <3>1. at \in [1 .. N -> PointSet(s)]
      BY <1>1 DEF PointSet
    <3>2. \A p \in PointSet(s) : \E i \in 1 .. N : at[i] = p
      BY <1>1 DEF PointSet
    <3> QED BY <3>1, <3>2 DEF Surjection
  <2> QED BY <2>1, <2>2 DEF Bijection
<1>3. ExistsBijection(1 .. N, PointSet(s))
  BY <1>2 DEF ExistsBijection
<1>4. IsFiniteSet(1 .. N) /\ Cardinality(1 .. N) = N
  <2>1. 1 \in Int /\ N \in Int /\ (IF 1 > N THEN 0 ELSE N - 1 + 1) = N
    BY <1>1
  <2> QED BY <2>1, FS_Interval
<1> QED BY <1>3, <1>4, FS_Bijection

\* No pointer of a face outlives its node, and the nodes are apart, whatever the
\* constants are: the property FacesHangOnTwoNodes (scenenode.cpp:156-162,
\* sceneedge.cpp:367-384).
THEOREM FacesHang == Spec => []FacesHangOnTwoNodes
<1>1. Inv => FacesHangOnTwoNodes
  <2> SUFFICES ASSUME Inv, scene.sound
               PROVE  /\ \A i \in DOMAIN scene.faces :
                            {scene.faces[i].from, scene.faces[i].to} \subseteq Ids(scene)
                      /\ opens = 0 =>
                            /\ Cardinality(NodePoints) = Len(scene.nodes)
                            /\ \A i \in DOMAIN scene.faces : scene.faces[i].from # scene.faces[i].to
    BY DEF FacesHangOnTwoNodes
  <2>1. scene \in Scenes /\ Hang(scene)
    BY Now
  <2>2. ASSUME NEW i \in DOMAIN scene.faces
        PROVE  {scene.faces[i].from, scene.faces[i].to} \subseteq Ids(scene)
    BY <2>1 DEF Hang, FaceSet
  <2>3. ASSUME opens = 0
        PROVE  /\ Cardinality(NodePoints) = Len(scene.nodes)
               /\ \A i \in DOMAIN scene.faces : scene.faces[i].from # scene.faces[i].to
    <3>1. PICK views : Goes(FALSE, scene, stack, index, views)
      BY <2>3, Now
    <3>2. Sane(scene)
      BY <3>1 DEF Goes, Fine
    <3>3. Cardinality(NodePoints) = Len(scene.nodes)
      BY <3>2, NodePointsAre, PointsCounted DEF Sane
    <3>4. \A i \in DOMAIN scene.faces : scene.faces[i].from # scene.faces[i].to
      BY <3>2 DEF Sane, Loopless, FaceSet
    <3> QED BY <3>3, <3>4
  <2> QED BY <2>2, <2>3
<1> QED BY <1>1, SceneCorrect, PTL

\* Every sequence of undos and redos walks through the scenes the user saw, and no node is
\* removed under a face: the property UndoRestores (scenegeometrydialog.cpp:171-362, 656-804).
THEOREM UndoWalksBack == Spec => []UndoRestores
<1>1. Inv => UndoRestores
  <2> SUFFICES ASSUME Inv, ordinary
               PROVE  scene.sound /\ Picture(scene) = past[index + 1]
    BY DEF UndoRestores
  <2>1. Goes(TRUE, scene, stack, index, past)
    BY DEF Inv, PicturesGo
  <2>2. Fine(TRUE, scene) /\ past[index + 1] = View(TRUE, scene)
    BY <2>1 DEF Goes
  <2>3. scene.sound
    BY <2>2 DEF Fine, Sane
  <2> QED BY <2>2, <2>3, PictureIs
<1> QED BY <1>1, SceneCorrect, PTL

-----------------------------------------------------------------------------
(* The corners of a triangle go round.                                     *)

\* The two corners after a corner are the two others.
LEMMA AfterGoesRound ==
    \A k \in Corners :
        /\ After(k) \in Corners /\ After(After(k)) \in Corners
        /\ After(After(After(k))) = k
        /\ After(k) # k /\ After(After(k)) # k /\ After(After(k)) # After(k)
<1> SUFFICES ASSUME NEW k \in Corners
    PROVE  /\ After(k) \in Corners /\ After(After(k)) \in Corners
           /\ After(After(After(k))) = k
           /\ After(k) # k /\ After(After(k)) # k /\ After(After(k)) # After(k)
  OBVIOUS
<1>1. After(0) = 1 /\ After(1) = 2 /\ After(2) = 0
  BY DEF After
<1>2. k = 0 \/ k = 1 \/ k = 2
  BY DEF Corners
<1> QED
  BY <1>1, <1>2 DEF Corners

-----------------------------------------------------------------------------
(* What a quad has in common with the triangulation.                       *)

\* The nodes of a quad as a set.
LEMMA NodesOfQuad ==
    ASSUME NEW mesh, NEW el
    PROVE  NodesOf(mesh, el) =
             {Middle(mesh, el[1], After(el[2])), Corner(mesh, el[1], el[2]),
              Middle(mesh, el[1], After(After(el[2]))), mesh.points + el[1]}
<1>1. Node(mesh, el)[1] = Middle(mesh, el[1], After(el[2]))
      /\ Node(mesh, el)[2] = Corner(mesh, el[1], el[2])
      /\ Node(mesh, el)[3] = Middle(mesh, el[1], After(After(el[2])))
      /\ Node(mesh, el)[4] = mesh.points + el[1]
  BY DEF Node
<1>2. 1..4 = {1, 2, 3, 4}
  OBVIOUS
<1> QED
  BY <1>1, <1>2 DEF NodesOf

\* A quad has one corner of the triangulation ...
LEMMA CornerInQuad ==
    ASSUME NEW mesh, IsTriangulation(mesh),
           NEW s \in Triangles(mesh), NEW i \in Corners,
           NEW el \in Elements(mesh), Corner(mesh, s, i) \in NodesOf(mesh, el)
    PROVE  Corner(mesh, s, i) = Corner(mesh, el[1], el[2])
<1>1. el[1] \in Triangles(mesh) /\ el[2] \in Corners
  BY DEF Elements
<1>2. After(el[2]) \in Corners /\ After(After(el[2])) \in Corners
  BY <1>1, AfterGoesRound
<1>3. /\ Corner(mesh, s, i) # Middle(mesh, el[1], After(el[2]))
      /\ Corner(mesh, s, i) # Middle(mesh, el[1], After(After(el[2])))
      /\ Corner(mesh, s, i) \in 0..mesh.points - 1
  BY <1>1, <1>2 DEF IsTriangulation, NodesAreDistinct
<1>4. mesh.points \in Nat /\ el[1] \in Nat
  BY <1>1 DEF IsTriangulation
<1>5. Corner(mesh, s, i) # mesh.points + el[1]
  BY <1>3, <1>4
<1> QED
  BY <1>3, <1>5, NodesOfQuad

\* ... and the middles of the two sides that meet there.
LEMMA MiddleInQuad ==
    ASSUME NEW mesh, IsTriangulation(mesh),
           NEW s \in Triangles(mesh), NEW i \in Corners,
           NEW el \in Elements(mesh), Middle(mesh, s, i) \in NodesOf(mesh, el)
    PROVE  \/ Middle(mesh, s, i) = Middle(mesh, el[1], After(el[2]))
           \/ Middle(mesh, s, i) = Middle(mesh, el[1], After(After(el[2])))
<1>1. el[1] \in Triangles(mesh) /\ el[2] \in Corners
  BY DEF Elements
<1>3. /\ Corner(mesh, el[1], el[2]) # Middle(mesh, s, i)
      /\ Middle(mesh, s, i) \in 0..mesh.points - 1
  BY <1>1 DEF IsTriangulation, NodesAreDistinct
<1>4. mesh.points \in Nat /\ el[1] \in Nat
  BY <1>1 DEF IsTriangulation
<1>5. Middle(mesh, s, i) # mesh.points + el[1]
  BY <1>3, <1>4
<1> QED
  BY <1>3, <1>5, NodesOfQuad

\* An element is told from another by its triangle and its corner.
LEMMA ElementsDiffer ==
    ASSUME NEW mesh, IsTriangulation(mesh),
           NEW el \in Elements(mesh), NEW other \in Elements(mesh),
           el[1] = other[1],
           Corner(mesh, el[1], el[2]) = Corner(mesh, other[1], other[2])
    PROVE  el = other
<1>1. /\ el[1] \in Triangles(mesh) /\ el[2] \in Corners
      /\ other[2] \in Corners
      /\ el = <<el[1], el[2]>> /\ other = <<other[1], other[2]>>
  BY DEF Elements
<1>2. el[2] = other[2]
  BY <1>1 DEF IsTriangulation, NodesAreDistinct
<1> QED
  BY <1>1, <1>2

-----------------------------------------------------------------------------
(* The halves of an edge, and the elements on both sides of them.          *)

\* The direction of an edge is that of a triangle, so that it is cut at the
\* middle of that triangle's side.
LEMMA EdgeIsCut ==
    ASSUME NEW mesh, IsTriangulation(mesh), NEW e \in mesh.edges
    PROVE  \E t \in Triangles(mesh), k \in Corners :
             /\ e.from = Corner(mesh, t, k)
             /\ e.to = Corner(mesh, t, After(k))
             /\ Halves(mesh, e) =
                  {{e.from, Middle(mesh, t, After(After(k)))},
                   {Middle(mesh, t, After(After(k))), e.to}}
<1> DEFINE el == CHOOSE x \in Elements(mesh) : BeginsAt(mesh, e, x)
<1>1. \E x \in Elements(mesh) : BeginsAt(mesh, e, x)
  <2>1. PICK t \in Triangles(mesh), k \in Corners :
          e.from = Corner(mesh, t, k) /\ e.to = Corner(mesh, t, After(k))
    BY DEF IsTriangulation, EdgesAreSides
  <2>2. <<t, k>> \in Elements(mesh) /\ BeginsAt(mesh, e, <<t, k>>)
    BY <2>1 DEF Elements, BeginsAt
  <2> QED
    BY <2>2
<1>2. el \in Elements(mesh) /\ BeginsAt(mesh, e, el)
  BY <1>1
<1>3. Halves(mesh, e) =
        {{e.from, Node(mesh, <<el[1], After(el[2])>>)[1]},
         {Node(mesh, <<el[1], After(el[2])>>)[1], e.to}}
  BY <1>1 DEF Halves
<1> HIDE DEF el
<1>4. Node(mesh, <<el[1], After(el[2])>>)[1] = Middle(mesh, el[1], After(After(el[2])))
  BY DEF Node
<1>5. el[1] \in Triangles(mesh) /\ el[2] \in Corners
  BY <1>2 DEF Elements
<1> QED
  BY <1>2, <1>3, <1>4, <1>5 DEF BeginsAt

\* A half is a corner of an edge and the middle of that edge.
LEMMA HalfOfSide ==
    ASSUME NEW mesh, IsTriangulation(mesh),
           NEW e \in mesh.edges, NEW h \in Halves(mesh, e)
    PROVE  \E t \in Triangles(mesh), i, j \in Corners :
             /\ i # j
             /\ h = {Corner(mesh, t, i), Middle(mesh, t, j)}
             /\ EndsOf(mesh, t, j) = {e.from, e.to}
<1>1. PICK t \in Triangles(mesh), k \in Corners :
        /\ e.from = Corner(mesh, t, k)
        /\ e.to = Corner(mesh, t, After(k))
        /\ Halves(mesh, e) =
             {{e.from, Middle(mesh, t, After(After(k)))},
              {Middle(mesh, t, After(After(k))), e.to}}
  BY EdgeIsCut
<1> DEFINE j == After(After(k))
<1>2. /\ After(k) \in Corners /\ j \in Corners
      /\ After(j) = k /\ j # k /\ j # After(k) /\ After(After(j)) = After(k)
  BY AfterGoesRound
<1>3. EndsOf(mesh, t, j) = {e.from, e.to}
  BY <1>1, <1>2 DEF EndsOf
<1>4. h = {Corner(mesh, t, k), Middle(mesh, t, j)}
      \/ h = {Corner(mesh, t, After(k)), Middle(mesh, t, j)}
  BY <1>1
<1> HIDE DEF j
<1> QED
  BY <1>2, <1>3, <1>4

\* An element at a half lies in a triangle that has the edge as a side, in
\* its direction or in the opposite one.
LEMMA SideOfNeighbour ==
    ASSUME NEW mesh, IsTriangulation(mesh),
           NEW t \in Triangles(mesh), NEW k \in Corners, NEW i \in Corners,
           i = k \/ i = After(k),
           NEW el \in Neighbours(mesh, {Corner(mesh, t, i), Middle(mesh, t, After(After(k)))})
    PROVE  \E l \in Corners :
             /\ el[2] = l \/ el[2] = After(l)
             /\ \/ /\ Corner(mesh, el[1], l) = Corner(mesh, t, k)
                   /\ Corner(mesh, el[1], After(l)) = Corner(mesh, t, After(k))
                \/ /\ Corner(mesh, el[1], l) = Corner(mesh, t, After(k))
                   /\ Corner(mesh, el[1], After(l)) = Corner(mesh, t, k)
<1> DEFINE s == el[1]
           j == After(After(k))
           x == el[2]
<1>1. /\ el \in Elements(mesh)
      /\ Corner(mesh, t, i) \in NodesOf(mesh, el)
      /\ Middle(mesh, t, j) \in NodesOf(mesh, el)
  BY DEF Neighbours
<1>2. s \in Triangles(mesh) /\ x \in Corners
  BY <1>1 DEF Elements
<1>3. /\ j \in Corners /\ After(j) = k /\ After(After(j)) = After(k)
      /\ After(k) \in Corners /\ After(x) \in Corners /\ After(After(x)) \in Corners
      /\ After(After(After(x))) = x
  BY <1>2, AfterGoesRound
<1>4. Middle(mesh, t, j) = Middle(mesh, s, After(x))
      \/ Middle(mesh, t, j) = Middle(mesh, s, After(After(x)))
  BY <1>1, <1>3, MiddleInQuad
<1> HIDE DEF s, x, j
<1>5. CASE Middle(mesh, t, j) = Middle(mesh, s, After(x))
  <2>1. EndsOf(mesh, t, j) = EndsOf(mesh, s, After(x))
    BY <1>2, <1>3, <1>5 DEF IsTriangulation, NodesAreDistinct
  <2>2. {Corner(mesh, t, k), Corner(mesh, t, After(k))}
          = {Corner(mesh, s, After(After(x))), Corner(mesh, s, x)}
    BY <2>1, <1>3 DEF EndsOf
  <2>3. Corner(mesh, s, After(After(x))) # Corner(mesh, s, x)
    BY <1>2, <1>3, AfterGoesRound DEF IsTriangulation, NodesAreDistinct
  <2>4. \/ /\ Corner(mesh, s, After(After(x))) = Corner(mesh, t, k)
           /\ Corner(mesh, s, x) = Corner(mesh, t, After(k))
        \/ /\ Corner(mesh, s, After(After(x))) = Corner(mesh, t, After(k))
           /\ Corner(mesh, s, x) = Corner(mesh, t, k)
    BY <2>2, <2>3
  <2> QED
    BY <2>4, <1>3 DEF s, x
<1>6. CASE Middle(mesh, t, j) = Middle(mesh, s, After(After(x)))
  <2>1. EndsOf(mesh, t, j) = EndsOf(mesh, s, After(After(x)))
    BY <1>2, <1>3, <1>6 DEF IsTriangulation, NodesAreDistinct
  <2>4. After(After(After(After(x)))) = After(x)
    BY <1>3
  <2>2. {Corner(mesh, t, k), Corner(mesh, t, After(k))}
          = {Corner(mesh, s, x), Corner(mesh, s, After(x))}
    BY <2>1, <2>4, <1>3 DEF EndsOf
  <2>3. Corner(mesh, s, After(x)) # Corner(mesh, s, x)
    BY <1>2, <1>3, AfterGoesRound DEF IsTriangulation, NodesAreDistinct
  <2>5. \/ /\ Corner(mesh, s, x) = Corner(mesh, t, k)
           /\ Corner(mesh, s, After(x)) = Corner(mesh, t, After(k))
        \/ /\ Corner(mesh, s, x) = Corner(mesh, t, After(k))
           /\ Corner(mesh, s, After(x)) = Corner(mesh, t, k)
    BY <2>2, <2>3
  <2> QED
    BY <2>5, <1>2 DEF s, x
<1> QED
  BY <1>4, <1>5, <1>6 DEF s, x

\* The triangle of an edge has an element at each half.
LEMMA OwnElement ==
    ASSUME NEW mesh, IsTriangulation(mesh),
           NEW t \in Triangles(mesh), NEW k \in Corners, NEW i \in Corners,
           i = k \/ i = After(k)
    PROVE  <<t, i>> \in Neighbours(mesh, {Corner(mesh, t, i), Middle(mesh, t, After(After(k)))})
<1> DEFINE el == <<t, i>>
<1>1. el \in Elements(mesh) /\ el[1] = t /\ el[2] = i
  BY DEF Elements
<1>2. NodesOf(mesh, el) = {Middle(mesh, t, After(i)), Corner(mesh, t, i),
                           Middle(mesh, t, After(After(i))), mesh.points + t}
  BY <1>1, NodesOfQuad
<1>3. After(After(k)) = After(i) \/ After(After(k)) = After(After(i))
  OBVIOUS
<1> HIDE DEF el
<1>4. el \in Neighbours(mesh, {Corner(mesh, t, i), Middle(mesh, t, After(After(k)))})
  BY <1>1, <1>2, <1>3 DEF Neighbours
<1> QED
  BY <1>4 DEF el

\* fillNeighborStructures asserts that a marked edge has one or two
\* neighbouring elements (mesh/meshgenerator.cpp:219): it has, whatever the
\* triangulation, for each half an edge is cut into.
THEOREM HalvesHaveNeighbours ==
    ASSUME NEW mesh, IsTriangulation(mesh),
           NEW e \in mesh.edges, NEW h \in Halves(mesh, e)
    PROVE  \E x, y \in Elements(mesh) : Neighbours(mesh, h) = {x, y}
<1>1. PICK t \in Triangles(mesh), k \in Corners :
        /\ e.from = Corner(mesh, t, k)
        /\ e.to = Corner(mesh, t, After(k))
        /\ Halves(mesh, e) =
             {{e.from, Middle(mesh, t, After(After(k)))},
              {Middle(mesh, t, After(After(k))), e.to}}
  BY EdgeIsCut
<1>2. After(k) \in Corners
  BY AfterGoesRound
<1>3. PICK i \in Corners :
        /\ i = k \/ i = After(k)
        /\ h = {Corner(mesh, t, i), Middle(mesh, t, After(After(k)))}
  BY <1>1, <1>2
<1> DEFINE own == <<t, i>>
<1>4. own \in Neighbours(mesh, h) /\ own[1] = t /\ own[2] = i
  BY <1>3, OwnElement
<1>5. ASSUME NEW x \in Neighbours(mesh, h), NEW y \in Neighbours(mesh, h),
             x # own, y # own
      PROVE  x = y
  <2>1. /\ x \in Elements(mesh) /\ y \in Elements(mesh) /\ own \in Elements(mesh)
        /\ x[1] \in Triangles(mesh) /\ y[1] \in Triangles(mesh)
    BY <1>4 DEF Neighbours, Elements
  <2>2. Corner(mesh, x[1], x[2]) = Corner(mesh, t, i)
        /\ Corner(mesh, y[1], y[2]) = Corner(mesh, t, i)
    BY <1>3, <2>1, CornerInQuad DEF Neighbours
  <2>3. ASSUME NEW z \in Neighbours(mesh, h), z # own,
               z \in Elements(mesh), Corner(mesh, z[1], z[2]) = Corner(mesh, t, i)
        PROVE  \E l \in Corners :
                 /\ Corner(mesh, z[1], l) = Corner(mesh, t, After(k))
                 /\ Corner(mesh, z[1], After(l)) = Corner(mesh, t, k)
    <3>1. PICK l \in Corners :
            \/ /\ Corner(mesh, z[1], l) = Corner(mesh, t, k)
               /\ Corner(mesh, z[1], After(l)) = Corner(mesh, t, After(k))
            \/ /\ Corner(mesh, z[1], l) = Corner(mesh, t, After(k))
               /\ Corner(mesh, z[1], After(l)) = Corner(mesh, t, k)
      BY <1>3, SideOfNeighbour
    <3>2. CASE /\ Corner(mesh, z[1], l) = Corner(mesh, t, k)
               /\ Corner(mesh, z[1], After(l)) = Corner(mesh, t, After(k))
      <4>1. z[1] = t
        BY <3>2, <2>3 DEF IsTriangulation, TrianglesTurnOneWay, Elements
      <4>2. z = own
        BY <4>1, <1>4, <2>1, <2>3, ElementsDiffer
      <4> QED
        BY <4>2, <2>3
    <3> QED
      BY <3>1, <3>2
  <2>4. PICK l \in Corners :
          /\ Corner(mesh, x[1], l) = Corner(mesh, t, After(k))
          /\ Corner(mesh, x[1], After(l)) = Corner(mesh, t, k)
    BY <1>5, <2>1, <2>2, <2>3
  <2>5. PICK m \in Corners :
          /\ Corner(mesh, y[1], m) = Corner(mesh, t, After(k))
          /\ Corner(mesh, y[1], After(m)) = Corner(mesh, t, k)
    BY <1>5, <2>1, <2>2, <2>3
  <2>6. x[1] = y[1]
    BY <2>1, <2>4, <2>5 DEF IsTriangulation, TrianglesTurnOneWay
  <2> QED
    BY <2>1, <2>2, <2>6, ElementsDiffer
<1> HIDE DEF own
<1>6. Neighbours(mesh, h) \subseteq Elements(mesh)
  BY DEF Neighbours
<1>7. CASE \E x \in Neighbours(mesh, h) : x # own
  <2>1. PICK x \in Neighbours(mesh, h) : x # own
    BY <1>7
  <2>2. Neighbours(mesh, h) = {own, x}
    BY <1>4, <1>5, <2>1
  <2> QED
    BY <1>4, <1>6, <2>1, <2>2
<1>8. CASE \A x \in Neighbours(mesh, h) : x = own
  <2>1. Neighbours(mesh, h) = {own, own}
    BY <1>4, <1>8
  <2> QED
    BY <1>4, <1>6, <2>1
<1> QED
  BY <1>7, <1>8

-----------------------------------------------------------------------------
(* The markers of the faces.                                               *)

\* A quad has the incenter of its own triangle only.
LEMMA IncenterInQuad ==
    ASSUME NEW mesh, IsTriangulation(mesh),
           NEW s \in Triangles(mesh),
           NEW el \in Elements(mesh), mesh.points + s \in NodesOf(mesh, el)
    PROVE  s = el[1]
<1>1. el[1] \in Triangles(mesh) /\ el[2] \in Corners
  BY DEF Elements
<1>2. After(el[2]) \in Corners /\ After(After(el[2])) \in Corners
  BY <1>1, AfterGoesRound
<1>3. /\ Corner(mesh, el[1], el[2]) \in 0..mesh.points - 1
      /\ Middle(mesh, el[1], After(el[2])) \in 0..mesh.points - 1
      /\ Middle(mesh, el[1], After(After(el[2]))) \in 0..mesh.points - 1
  BY <1>1, <1>2 DEF IsTriangulation, NodesAreDistinct
<1>4. mesh.points \in Nat /\ el[1] \in Nat /\ s \in Nat
  BY <1>1 DEF IsTriangulation
<1> QED
  BY <1>3, <1>4, NodesOfQuad

\* A marked half comes from an edge, whose marker it has.
LEMMA HalfOfMark ==
    ASSUME NEW mesh, NEW h \in MarkedHalves(mesh)
    PROVE  \E e \in mesh.edges : h.face \in Halves(mesh, e) /\ h.marker = e.marker
  BY DEF MarkedHalves

\* A half belongs to one edge.
LEMMA OneMarkOfFace ==
    ASSUME NEW mesh, IsTriangulation(mesh),
           NEW g \in MarkedHalves(mesh), NEW h \in MarkedHalves(mesh), g.face = h.face
    PROVE  g.marker = h.marker
<1>1. PICK e \in mesh.edges : g.face \in Halves(mesh, e) /\ g.marker = e.marker
  BY HalfOfMark
<1>2. PICK f \in mesh.edges : h.face \in Halves(mesh, f) /\ h.marker = f.marker
  BY HalfOfMark
<1>3. PICK s \in Triangles(mesh), i, j \in Corners :
        /\ g.face = {Corner(mesh, s, i), Middle(mesh, s, j)}
        /\ EndsOf(mesh, s, j) = {e.from, e.to}
  BY <1>1, HalfOfSide
<1>4. PICK t \in Triangles(mesh), k, l \in Corners :
        /\ h.face = {Corner(mesh, t, k), Middle(mesh, t, l)}
        /\ EndsOf(mesh, t, l) = {f.from, f.to}
  BY <1>2, HalfOfSide
<1>5. /\ Corner(mesh, s, i) # Middle(mesh, t, l)
      /\ Corner(mesh, t, k) # Middle(mesh, s, j)
      /\ Middle(mesh, s, j) = Middle(mesh, t, l) <=> EndsOf(mesh, s, j) = EndsOf(mesh, t, l)
  BY DEF IsTriangulation, NodesAreDistinct
<1>6. Middle(mesh, s, j) = Middle(mesh, t, l)
  BY <1>3, <1>4, <1>5
<1>7. {e.from, e.to} = {f.from, f.to}
  BY <1>3, <1>4, <1>5, <1>6
<1>8. e = f
  BY <1>7 DEF IsTriangulation, EdgesAreSides
<1> QED
  BY <1>1, <1>2, <1>8

\* writeTodealii looks a face up by the quad behind it: two quads that meet
\* at a half of an edge meet nowhere else.
THEOREM QuadsMeetAtOneFace ==
    ASSUME NEW mesh, IsTriangulation(mesh),
           NEW el \in Elements(mesh), NEW other \in Elements(mesh), el # other,
           NEW e \in mesh.edges, NEW h \in Halves(mesh, e),
           {el, other} \subseteq Neighbours(mesh, h),
           NEW face \in FacesOf(mesh, el), other \in Neighbours(mesh, face)
    PROVE  h = face
<1> DEFINE s == el[1]
           x == el[2]
           a == Corner(mesh, s, x)
           p == Middle(mesh, s, After(x))
           q == Middle(mesh, s, After(After(x)))
<1>1. /\ s \in Triangles(mesh) /\ x \in Corners
      /\ other[1] \in Triangles(mesh) /\ other[2] \in Corners
  BY DEF Elements
<1>2. /\ After(x) \in Corners /\ After(After(x)) \in Corners /\ After(After(x)) # After(x)
      /\ After(other[2]) \in Corners /\ After(After(other[2])) \in Corners
  BY <1>1, AfterGoesRound
<1>3. PICK t \in Triangles(mesh), i, j \in Corners :
        h = {Corner(mesh, t, i), Middle(mesh, t, j)}
  BY HalfOfSide
<1>4. /\ Corner(mesh, t, i) \in NodesOf(mesh, el) /\ Middle(mesh, t, j) \in NodesOf(mesh, el)
      /\ Corner(mesh, t, i) \in NodesOf(mesh, other)
      /\ Middle(mesh, t, j) \in NodesOf(mesh, other)
  BY <1>3 DEF Neighbours
<1>5. Corner(mesh, t, i) = a /\ Corner(mesh, t, i) = Corner(mesh, other[1], other[2])
  BY <1>4, CornerInQuad
<1>6. s # other[1]
  BY <1>5, ElementsDiffer
<1>7. Middle(mesh, t, j) = p \/ Middle(mesh, t, j) = q
  BY <1>4, MiddleInQuad
<1>8. ~ (p \in NodesOf(mesh, other) /\ q \in NodesOf(mesh, other))
  <2> SUFFICES ASSUME p \in NodesOf(mesh, other), q \in NodesOf(mesh, other)
               PROVE  FALSE
    OBVIOUS
  <2>1. PICK k \in Corners : p = Middle(mesh, other[1], k)
    BY <1>1, <1>2, MiddleInQuad
  <2>2. PICK l \in Corners : q = Middle(mesh, other[1], l)
    BY <1>1, <1>2, MiddleInQuad
  <2> QED
    BY <2>1, <2>2, <1>1, <1>2, <1>6 DEF IsTriangulation, TrianglesShareOneSide
<1>9. mesh.points + s \notin NodesOf(mesh, other)
  BY <1>1, <1>6, IncenterInQuad
<1>10. face = {p, a} \/ face = {a, q} \/ mesh.points + s \in face
  BY DEF FacesOf, Node
<1>11. face \subseteq NodesOf(mesh, other)
  BY DEF Neighbours
<1>12. h = {a, Middle(mesh, t, j)} /\ Middle(mesh, t, j) \in NodesOf(mesh, other)
  BY <1>3, <1>4, <1>5
<1> HIDE DEF s, a, p, q
<1> QED
  BY <1>7, <1>8, <1>9, <1>10, <1>11, <1>12

\* Every quad becomes a cell: an area that Triangle meshes has a material of
\* a field of the problem, so the writer drops nothing.
THEOREM EveryElementIsWritten ==
    ASSUME NEW mesh, TrianglesAreOfRegions(mesh), MaterialsAreOfFields(mesh)
    PROVE  Written(mesh) = Elements(mesh)
<1> SUFFICES ASSUME NEW el \in Elements(mesh)
             PROVE  ~isHole(mesh, mesh.triangles[el[1]].label)
  BY DEF Written
<1> DEFINE l == mesh.triangles[el[1]].label
           marked == {f \in DOMAIN mesh.labels[l] : mesh.labels[l][f] # NoMaterial}
<1>1. el[1] \in Triangles(mesh)
  BY DEF Elements
<1>2. l \in Regions(mesh)
  BY <1>1 DEF TrianglesAreOfRegions
<1> HIDE DEF l
<1>3. l \in DOMAIN mesh.labels /\ markersCount(mesh, l) > 0
  BY <1>2 DEF Regions
<1>4. marked # {}
  <2>1. markersCount(mesh, l) = Cardinality(marked)
    BY DEF markersCount
  <2> HIDE DEF marked
  <2>2. marked = {} => Cardinality(marked) = 0
    BY FS_EmptySet
  <2> QED
    BY <1>3, <2>1, <2>2
<1>5. PICK f \in DOMAIN mesh.labels[l] : mesh.labels[l][f] # NoMaterial
  BY <1>4
<1>6. f \in mesh.fields
  BY <1>3, <1>5 DEF MaterialsAreOfFields
<1>7. ~isHole(mesh, l)
  BY <1>5, <1>6 DEF isHole
<1> QED
  BY <1>7 DEF l

\* The number of a cell then leads back to its quad.
THEOREM CellsAreElements ==
    ASSUME NEW mesh, IsTriangulation(mesh), Written(mesh) = Elements(mesh),
           NEW el \in Elements(mesh)
    PROVE  ElementAt(CellIndex(mesh, el)) = el
<1>1. /\ el[1] \in Nat /\ el[2] \in 0..2
      /\ el = <<el[1], el[2]>>
  BY DEF Elements, IsTriangulation, Corners
<1>2. {x \in Elements(mesh) \ Written(mesh) : NumberOf(x) < NumberOf(el)} = {}
  OBVIOUS
<1>3. CellIndex(mesh, el) = 3 * el[1] + el[2]
  <2>1. NumberOf(el) - 0 = 3 * el[1] + el[2]
    BY <1>1 DEF NumberOf
  <2> QED
    BY <1>2, <2>1, FS_EmptySet DEF CellIndex
<1>4. (3 * el[1] + el[2]) \div 3 = el[1] /\ (3 * el[1] + el[2]) % 3 = el[2]
  BY <1>1
<1> QED
  BY <1>1, <1>3, <1>4 DEF ElementAt

\* A face of a quad gets the marker of the scene's face it lies on, and no
\* marker when it lies on none: boundary conditions and interfaces are
\* assembled where the user put them, although the writer keeps them under
\* the numbers of elements and reads them under the numbers of cells.  It
\* needs every element to be a cell, hence the materials of the labels.
THEOREM UserIndexIsOfFace ==
    ASSUME NEW mesh, IsTriangulation(mesh),
           TrianglesAreOfRegions(mesh), MaterialsAreOfFields(mesh),
           NEW el \in Written(mesh), NEW face \in FacesOf(mesh, el)
    PROVE  /\ \A h \in MarkedHalves(mesh) :
                h.face = face => UserIndex(mesh, el, face) = h.marker
           /\ (\A h \in MarkedHalves(mesh) : h.face # face) => UserIndex(mesh, el, face) = 0
<1> DEFINE others == (Neighbours(mesh, face) \cap Written(mesh)) \ {el}
           Kept(other) == Between(mesh, ElementAt(CellIndex(mesh, el)),
                                        ElementAt(CellIndex(mesh, other)))
           lines == {h \in BoundaryLines(mesh) : h.face = face}
           pairs == UNION {Kept(other) : other \in others}
           found == IF others = {} THEN lines ELSE pairs
           own == {h \in MarkedHalves(mesh) : h.face = face}
<1>0. /\ el \in Elements(mesh)
      /\ others = Neighbours(mesh, face) \ {el}
      /\ \A other \in others : Kept(other) = Between(mesh, el, other)
  <2>1. Written(mesh) = Elements(mesh)
    BY EveryElementIsWritten
  <2>2. others = Neighbours(mesh, face) \ {el} /\ others \subseteq Elements(mesh)
    BY <2>1 DEF Neighbours
  <2>3. ElementAt(CellIndex(mesh, el)) = el
    BY <2>1, CellsAreElements
  <2>4. ASSUME NEW other \in others
        PROVE  ElementAt(CellIndex(mesh, other)) = other
    BY <2>1, <2>2, CellsAreElements
  <2> QED
    BY <2>1, <2>2, <2>3, <2>4
<1>1. el \in Neighbours(mesh, face)
  <2>1. face \subseteq NodesOf(mesh, el)
    BY <1>0, NodesOfQuad DEF FacesOf, Node
  <2> QED
    BY <2>1, <1>0 DEF Neighbours
<1>2. others = {} => lines = own
  <2> SUFFICES ASSUME others = {}
               PROVE  lines = own
    OBVIOUS
  <2>1. Neighbours(mesh, face) = {el}
    BY <1>0, <1>1
  <2>2. Cardinality(Neighbours(mesh, face)) = 1
    BY <2>1, FS_Singleton
  <2> QED
    BY <2>2 DEF BoundaryLines
<1>3. others # {} => pairs = own
  <2> SUFFICES ASSUME others # {}
               PROVE  pairs = own
    OBVIOUS
  <2>1. ASSUME NEW h \in own
        PROVE  h \in pairs
    <3>1. PICK other \in others : TRUE
      OBVIOUS
    <3>2. other \in Neighbours(mesh, face)
      BY <1>0, <3>1
    <3>3. h \in Between(mesh, el, other)
      BY <1>1, <3>2 DEF Between
    <3>4. h \in Kept(other)
      BY <1>0, <3>1, <3>3
    <3> QED
      BY <3>1, <3>4
  <2>2. ASSUME NEW h \in pairs
        PROVE  h \in own
    <3>0. PICK other \in others : h \in Kept(other)
      OBVIOUS
    <3>1. h \in Between(mesh, el, other)
      BY <1>0, <3>0
    <3>2. /\ h \in MarkedHalves(mesh) /\ {el, other} \subseteq Neighbours(mesh, h.face)
          /\ other \in Elements(mesh) /\ el # other /\ other \in Neighbours(mesh, face)
      BY <3>1, <1>0 DEF Between, Neighbours
    <3>3. PICK e \in mesh.edges : h.face \in Halves(mesh, e)
      BY <3>2, HalfOfMark
    <3>4. h.face = face
      BY <3>2, <3>3, <1>0, QuadsMeetAtOneFace
    <3> QED
      BY <3>2, <3>4
  <2> QED
    BY <2>1, <2>2
<1>4. found = own
  BY <1>2, <1>3
<1>5. UserIndex(mesh, el, face) = IF found = {} THEN 0 ELSE (CHOOSE h \in found : TRUE).marker
  BY DEF UserIndex
<1>6. ASSUME NEW g \in own, NEW h \in own
      PROVE  g.marker = h.marker
  BY OneMarkOfFace
<1> HIDE DEF others, lines, pairs, found, Kept
<1>7. ASSUME NEW h \in own
      PROVE  UserIndex(mesh, el, face) = h.marker
  <2>1. (CHOOSE g \in own : TRUE) \in own
    OBVIOUS
  <2> QED
    BY <2>1, <1>4, <1>5, <1>6
<1>8. own = {} => UserIndex(mesh, el, face) = 0
  BY <1>4, <1>5
<1> QED
  BY <1>7, <1>8

\* The segments of an arc lead from the node where the face starts to the
\* node where it ends, through the nodes that are placed on the arc.
THEOREM ArcIsConnected ==
    ASSUME NEW face, face.segments \in Nat \ {0}, NEW count \in Nat, NEW i
    PROVE  LET chain == Chain(face, i, count)
           IN  /\ chain[1].from = face.from
               /\ chain[face.segments].to = face.to
               /\ \A j \in 1..face.segments - 1 :
                    /\ chain[j].to = chain[j + 1].from
                    /\ chain[j].to = PseudoNode(count, j)
                    /\ chain[j].to \in count..NextCount(face, count) - 1
<1> DEFINE n == face.segments
           at(s) == Segment(StartIndex(face, count, s - 1), EndIndex(face, count, s - 1), i)
<1>1. Chain(face, i, count) = [s \in 1..n |-> at(s)] /\ n >= 1
  BY DEF Chain
<1>2. NextCount(face, count) = count + n - 1
  BY DEF NextCount
<1>3. ASSUME NEW j \in 1..n - 1
      PROVE  /\ EndIndex(face, count, j - 1) = PseudoNode(count, j)
             /\ PseudoNode(count, j) = count + j - 1
  <2>1. PseudoNode(count, j) = count + j - 1
    BY DEF PseudoNode, CountAt
  <2>2. CASE j = 1
    BY <2>1, <2>2 DEF EndIndex
  <2>3. CASE j # 1
    BY <2>1, <2>3 DEF EndIndex, CountAt
  <2> QED
    BY <2>1, <2>2, <2>3
<1>4. at(1).from = face.from /\ at(n).to = face.to
  BY <1>1 DEF Segment, StartIndex, EndIndex
<1>5. ASSUME NEW j \in 1..n - 1
      PROVE  /\ at(j).to = EndIndex(face, count, j - 1)
             /\ at(j + 1).from = EndIndex(face, count, j - 1)
  BY DEF Segment, StartIndex
<1> HIDE DEF at
<1>6. \A s \in 1..n : Chain(face, i, count)[s] = at(s)
  BY <1>1
<1> QED
  BY <1>1, <1>2, <1>3, <1>4, <1>5, <1>6

=============================================================================
