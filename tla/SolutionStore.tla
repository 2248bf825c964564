--------------------------- MODULE SolutionStore ---------------------------
(***************************************************************************)
(* SolutionStore keeps every solution of one computation twice: on the     *)
(* disk (.msh, .dof and .sol files, listed by runtime.json) and, as long   *)
(* as it has not been flushed, in a cache of MultiArray objects.           *)
(*                                                                         *)
(* Source: agros-library/solver/solutionstore.cpp and .h.                  *)
(*                                                                         *)
(* The two QLists of the class are modelled by how often each identifier   *)
(* occurs in them: the code only appends, removes one occurrence, asks     *)
(* whether an identifier occurs, and walks over all of them.               *)
(***************************************************************************)
EXTENDS Naturals, FiniteSets

CONSTANTS
    SolutionIDs,  \* the FieldSolutionIDs of the instance
    Meshes,       \* triangulations
    Vectors,      \* coefficient vectors
    Cells,        \* Cells[m]: n_cells() of the triangulation m
    RunTimes,     \* SolutionRunTimeDetails
    CacheSize,    \* Config_CacheSize
    None          \* no file, nothing cached, nothing recorded

ASSUME SolutionIDsAssumption ==
    /\ \A id \in SolutionIDs :
          /\ id = [field |-> id.field, timeStep |-> id.timeStep,
                   adaptivityStep |-> id.adaptivityStep]
          /\ id.timeStep \in Nat
          /\ id.adaptivityStep \in Nat
    /\ IsFiniteSet(SolutionIDs)

\* addSolution takes two meshes with equally many cells for the same mesh.
ASSUME CellsAssumption ==
    /\ Cells \in [Meshes -> Nat]
    /\ \A m, n \in Meshes : Cells[m] = Cells[n] => m = n

ASSUME CacheSizeAssumption == CacheSize \in Nat

Solutions == [mesh : Meshes, vector : Vectors]

\* the contents of a runtime.json
RunTimeJsons == [solutions : [SolutionIDs -> Nat],
                 runTimes : [SolutionIDs -> RunTimes \cup {None}]]

ASSUME NoneAssumption ==
    /\ None \notin Meshes \cup Solutions \cup RunTimes
    /\ None \notin RunTimeJsons

VARIABLES
    multiSolutions,  \* m_multiSolutions: occurrences of each identifier
    runTimeDetails,  \* m_multiSolutionRunTimeDetails
    dealCache,       \* m_multiSolutionDealCache
    cacheIDOrder,    \* m_multiSolutionCacheIDOrder: occurrences
    meshFiles,       \* the .msh file of each identifier
    dataFiles,       \* the .dof and .sol files, written one after the other
    runtimeJson      \* runtime.json

storeVars == <<multiSolutions, runTimeDetails, dealCache, cacheIDOrder,
               meshFiles, dataFiles, runtimeJson>>

Nowhere == [id \in SolutionIDs |-> None]
Never == [id \in SolutionIDs |-> 0]

StoreInit ==
    /\ multiSolutions = Never
    /\ runTimeDetails = Nowhere
    /\ dealCache = Nowhere
    /\ cacheIDOrder = Never
    /\ meshFiles = Nowhere
    /\ dataFiles = Nowhere
    /\ runtimeJson = None

-----------------------------------------------------------------------------
Contains(id) == id \in SolutionIDs /\ multiSolutions[id] > 0
Indexed == {id \in SolutionIDs : multiSolutions[id] > 0}
CachedIn(cache) == {id \in SolutionIDs : cache[id] # None}
Cached == CachedIn(dealCache)

\* lastTimeStep and lastAdaptiveStep; -1 stands for NOT_FOUND_SO_FAR, which
\* is smaller than every step of a solution.
Largest(S) == IF S = {} THEN 0 - 1 ELSE CHOOSE n \in S : \A m \in S : m <= n
LastTimeStep(field) ==
    Largest({id.timeStep : id \in {i \in Indexed : i.field = field}})
LastAdaptiveStep(field, timeStep) ==
    Largest({id.adaptivityStep : id \in
        {i \in Indexed : i.field = field /\ i.timeStep = timeStep}})

\* mutated form of Flushed: one entry too many is let in
FlushedLate(id, cache) ==
    IF Cardinality(CachedIn(cache)) > CacheSize + 1
    THEN {i \in SolutionIDs : cacheIDOrder[i] > 0 /\ i.field = id.field}
    ELSE {}

\* mutated form of Flushed: other fields are flushed, too
FlushedOfAnyField(id, cache) ==
    IF Cardinality(CachedIn(cache)) > CacheSize
    THEN {i \in SolutionIDs : cacheIDOrder[i] > 0}
    ELSE {}

\* insertMultiSolutionToCache.  Once the cache holds more than CacheSize
\* entries, all entries of the field that is being inserted go.
Flushed(id, cache) ==
    IF Cardinality(CachedIn(cache)) > CacheSize
    THEN {i \in SolutionIDs : cacheIDOrder[i] > 0 /\ i.field = id.field}
    ELSE {}

\* mutated form of InsertToCache: the order list is not appended to
InsertUnordered(id, s, cache) ==
    /\ dealCache' = [i \in SolutionIDs |->
          IF i = id THEN s ELSE IF i \in Flushed(id, cache) THEN None ELSE cache[i]]
    /\ cacheIDOrder' = [i \in SolutionIDs |->
          IF i \in Flushed(id, cache) THEN 0 ELSE cacheIDOrder[i]]

InsertToCache(id, s, cache) ==
    LET gone == Flushed(id, cache)
    IN  /\ dealCache' = [i \in SolutionIDs |->
              IF i = id THEN s ELSE IF i \in gone THEN None ELSE cache[i]]
        /\ cacheIDOrder' = [i \in SolutionIDs |->
              (IF i \in gone THEN 0 ELSE cacheIDOrder[i])
                  + (IF i = id THEN 1 ELSE 0)]

\* saveRunTimeDetails writes an entry for each element of the list
SaveRunTimeDetails ==
    runtimeJson' =
        [solutions |-> multiSolutions',
         runTimes |-> [id \in SolutionIDs |->
             IF multiSolutions'[id] > 0 THEN runTimeDetails'[id] ELSE None]]

-----------------------------------------------------------------------------
(***************************************************************************)
(* addSolution.  In a transient problem the mesh file of the previous time *)
(* step is copied when the meshes have equally many cells; QFile::copy     *)
(* leaves a file that exists as it is.                                     *)
(***************************************************************************)
Previous(id) == [id EXCEPT !.timeStep = @ - 1]

HasPrevious(id) == id.timeStep > 0 /\ Contains(Previous(id))

\* The previous solution is looked up in the cache alone: when it is not
\* there, a null dof handler is dereferenced.
PreviousIsCached(id) == HasPrevious(id) => Previous(id) \in Cached

SameMesh(id, s) ==
    HasPrevious(id) /\ Cells[s.mesh] = Cells[dealCache[Previous(id)].mesh]

\* mutated form of MeshFileAfterAdd: the numbers of cells are not compared
MeshFileAlwaysCopied(id, s) ==
    IF HasPrevious(id) THEN meshFiles[Previous(id)] ELSE s.mesh

MeshFileAfterAdd(id, s) ==
    IF ~SameMesh(id, s) THEN s.mesh
    ELSE IF meshFiles[id] = None THEN meshFiles[Previous(id)] ELSE meshFiles[id]

AddSolution(id, s, runTime) ==
    /\ meshFiles' = [meshFiles EXCEPT ![id] = MeshFileAfterAdd(id, s)]
    /\ dataFiles' = [dataFiles EXCEPT ![id] = s]
    /\ multiSolutions' = [multiSolutions EXCEPT ![id] = @ + 1]
    /\ runTimeDetails' = [runTimeDetails EXCEPT ![id] = runTime]
    /\ InsertToCache(id, s, dealCache)
    /\ SaveRunTimeDetails

\* what the asserts and the look-up in addSolution need of its caller
MayAdd(id) == dealCache[id] = None /\ PreviousIsCached(id)

\* mutated form of ReplaceSolution: the files keep the old vector
ReplaceInCacheOnly(id, s) ==
    /\ InsertToCache(id, s, [dealCache EXCEPT ![id] = None])
    /\ UNCHANGED <<multiSolutions, runTimeDetails, meshFiles, dataFiles,
                   runtimeJson>>

\* replaceSolution: the mesh file stays, and the identifier is appended to
\* the order although it is still in it.
ReplaceSolution(id, s) ==
    /\ dataFiles' = [dataFiles EXCEPT ![id] = s]
    /\ InsertToCache(id, s, [dealCache EXCEPT ![id] = None])
    /\ UNCHANGED <<multiSolutions, runTimeDetails, meshFiles, runtimeJson>>

\* what multiArray builds from the files
Loaded(id) == [mesh |-> meshFiles[id], vector |-> dataFiles[id].vector]

\* multiArray of an identifier that is in the list
MultiArray(id) ==
    /\ Contains(id)
    /\ IF id \in Cached
       THEN UNCHANGED <<dealCache, cacheIDOrder>>
       ELSE InsertToCache(id, Loaded(id), dealCache)
    /\ UNCHANGED <<multiSolutions, runTimeDetails, meshFiles, dataFiles,
                   runtimeJson>>

\* what both forms of removeSolution take away besides the cached object
RemoveFiles(id) ==
    /\ runTimeDetails' = [runTimeDetails EXCEPT ![id] = None]
    /\ meshFiles' = [meshFiles EXCEPT ![id] = None]
    /\ dataFiles' = [dataFiles EXCEPT ![id] = None]

RemoveFromCache(id) ==
    /\ dealCache' = [dealCache EXCEPT ![id] = None]
    /\ cacheIDOrder' = [cacheIDOrder EXCEPT
          ![id] = IF id \in Cached /\ @ > 0 THEN @ - 1 ELSE @]

\* mutated forms of RemoveSolution: nothing checks that the solution is
\* listed; runtime.json is not written again
RemoveUnlisted(id) ==
    /\ multiSolutions' = [multiSolutions EXCEPT ![id] = @ - 1]
    /\ RemoveFiles(id)
    /\ RemoveFromCache(id)
    /\ SaveRunTimeDetails

RemoveWithoutSaving(id) ==
    /\ Contains(id)
    /\ multiSolutions' = [multiSolutions EXCEPT ![id] = @ - 1]
    /\ RemoveFiles(id)
    /\ RemoveFromCache(id)
    /\ UNCHANGED runtimeJson

RemoveSolution(id) ==
    /\ Contains(id)
    /\ multiSolutions' = [multiSolutions EXCEPT ![id] = @ - 1]
    /\ RemoveFiles(id)
    /\ RemoveFromCache(id)
    /\ SaveRunTimeDetails

\* clear: removeSolution of everything listed, without rewriting
\* runtime.json, which is then deleted.
ClearStore ==
    /\ multiSolutions' = Never
    /\ runTimeDetails' = [id \in SolutionIDs |->
          IF Contains(id) THEN None ELSE runTimeDetails[id]]
    /\ dealCache' = [id \in SolutionIDs |->
          IF Contains(id) THEN None ELSE dealCache[id]]
    /\ cacheIDOrder' = [id \in SolutionIDs |->
          IF Contains(id) /\ id \in Cached /\ cacheIDOrder[id] > 0
          THEN cacheIDOrder[id] - 1 ELSE cacheIDOrder[id]]
    /\ meshFiles' = [id \in SolutionIDs |->
          IF Contains(id) THEN None ELSE meshFiles[id]]
    /\ dataFiles' = [id \in SolutionIDs |->
          IF Contains(id) THEN None ELSE dataFiles[id]]
    /\ runtimeJson' = None

-----------------------------------------------------------------------------
(***************************************************************************)
(* Flushing removes the entries of the field that is being inserted only,  *)
(* so CacheSize alone does not bound the cache: it holds at most CacheSize  *)
(* solutions and one more of each field that has some.                     *)
(***************************************************************************)
CachedFields == {id.field : id \in Cached}

CacheIsBounded == Cardinality(Cached) <= CacheSize + Cardinality(CachedFields)
=============================================================================
