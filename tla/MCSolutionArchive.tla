------------------------- MODULE MCSolutionArchive -------------------------
(***************************************************************************)
(* Three time steps of one field and a solution of another, and a cache of *)
(* two, the smallest the settings allow: adding the third and the fourth   *)
(* solution flushes.  Two meshes of different size; two vectors tell a     *)
(* replaced solution from the first one.                                   *)
(***************************************************************************)
EXTENDS SolutionArchive, TLC

CONSTANTS a, b, coarse, fine, v1, v2, rt

ID(f, t) == [field |-> f, timeStep |-> t, adaptivityStep |-> 0]

MCSolutionIDs == {ID(a, 0), ID(a, 1), ID(a, 2), ID(b, 0)}
MCMeshes == {coarse, fine}
MCCells == (coarse :> 4) @@ (fine :> 16)
MCVectors == {v1, v2}
MCRunTimes == {rt}

\* Bounds of the explored states: how many entries of the cache order are
\* duplicates, which solutions may have the second vector, and which may be
\* in the archive; the mesh of field b is never refined.
MaxDuplicates == 1
MayBeReplaced == {ID(a, 1)}
MayBeArchived == {ID(a, 0), ID(a, 1)}

Duplicates == {id \in SolutionIDs : cacheIDOrder[id] > 1}
SecondVectors == {id \in SolutionIDs : dataFiles[id] # None /\ dataFiles[id].vector = v2}
Archived == {id \in SolutionIDs : archive.dataFiles[id] # None}

Bounds ==
    /\ \A id \in SolutionIDs : cacheIDOrder[id] <= MaxDuplicates + 1
    /\ Cardinality(Duplicates) <= MaxDuplicates
    /\ SecondVectors \subseteq MayBeReplaced
    /\ Archived \subseteq MayBeArchived
    /\ dataFiles[ID(b, 0)] # None => dataFiles[ID(b, 0)].mesh = coarse
=============================================================================
