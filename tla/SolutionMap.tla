---------------------------- MODULE SolutionMap ----------------------------
(***************************************************************************)
(* What the solution store promises to the solver, the postprocessor and   *)
(* the scripts: a map from solution identifiers to solutions that can be   *)
(* saved and opened again.  Caching, flushing and the files on the disk    *)
(* are not visible.                                                        *)
(***************************************************************************)
CONSTANTS
    SolutionIDs,    \* (field, time step, adaptivity step) triples
    Solutions,      \* what can be stored: a mesh and a vector on it
    NoSolution      \* marks an identifier that is not stored

VARIABLES
    stored,         \* stored[id]: the solution a reader of id gets
    saved           \* the map as it was saved last

EmptyMap == [id \in SolutionIDs |-> NoSolution]

Init == stored = EmptyMap /\ saved = EmptyMap

Add(id, s) ==
    /\ stored[id] = NoSolution
    /\ stored' = [stored EXCEPT ![id] = s]
    /\ UNCHANGED saved

\* another vector on the same mesh
Replace(id, s) ==
    /\ stored[id] # NoSolution
    /\ s.mesh = stored[id].mesh
    /\ stored' = [stored EXCEPT ![id] = s]
    /\ UNCHANGED saved

Remove(id) ==
    /\ stored[id] # NoSolution
    /\ stored' = [stored EXCEPT ![id] = NoSolution]
    /\ UNCHANGED saved

RemoveAll == stored' = EmptyMap /\ UNCHANGED saved

Save == saved' = stored /\ UNCHANGED stored

\* the problem is saved without its solutions
SaveNone == saved' = EmptyMap /\ UNCHANGED stored

Open == stored' = saved /\ UNCHANGED saved

Next ==
    \/ \E id \in SolutionIDs, s \in Solutions : Add(id, s) \/ Replace(id, s)
    \/ \E id \in SolutionIDs : Remove(id)
    \/ RemoveAll
    \/ Save
    \/ SaveNone
    \/ Open

Spec == Init /\ [][Next]_<<stored, saved>>
=============================================================================
