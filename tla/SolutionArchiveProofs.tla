----------------------- MODULE SolutionArchiveProofs -----------------------
(***************************************************************************)
(* Every invariant that the run of MCSolutionArchive checks on a small     *)
(* instance, proved for any identifiers, meshes, vectors and cache size,   *)
(* and the refinement of SolutionMap.                                      *)
(***************************************************************************)
EXTENDS SolutionArchive, FiniteSetTheorems, TLAPS

(***************************************************************************)
(* The inductive invariant: files, index, cache, runtime.json and archive  *)
(* depend on one another.  That a removed solution leaves the index needs  *)
(* that it was listed once; that a flushed solution can be loaded needs    *)
(* its files; that the copied mesh file is the right one needs that the    *)
(* cached previous solution is the one on the disk.                        *)
(***************************************************************************)
IInv ==
    /\ TypeOK
    /\ FilesMatchIndex
    /\ CacheCoherent
    /\ JsonMatchesIndex
    /\ ArchiveIsComplete

(***************************************************************************)
(* The initial state satisfies the invariant: nothing is stored.           *)
(***************************************************************************)
LEMMA InitIInv == Init => IInv
  BY NoneAssumption, SMT
  DEF Init, StoreInit, EmptyArchive, IInv, TypeOK, FilesMatchIndex, FilesOf,
      CacheCoherent, Cached, CachedIn, JsonMatchesIndex, JsonOf,
      ArchiveIsComplete, Nowhere, Never

(***************************************************************************)
(* insertMultiSolutionToCache keeps the cache typed and touches nothing    *)
(* but the inserted entry and flushed ones, which are all in the order.    *)
(***************************************************************************)
LEMMA InsertCache ==
  ASSUME NEW id \in SolutionIDs, NEW s \in Solutions,
         NEW cache \in [SolutionIDs -> Solutions \cup {None}],
         cacheIDOrder \in [SolutionIDs -> Nat],
         InsertToCache(id, s, cache)
  PROVE  /\ dealCache' \in [SolutionIDs -> Solutions \cup {None}]
         /\ cacheIDOrder' \in [SolutionIDs -> Nat]
         /\ dealCache'[id] = s
         /\ cacheIDOrder'[id] > 0
         /\ \A i \in SolutionIDs : i # id /\ dealCache'[i] # None =>
               dealCache'[i] = cache[i] /\ cacheIDOrder'[i] = cacheIDOrder[i]
  <1> DEFINE gone == Flushed(id, cache)
  <1> HIDE DEF gone
  <1>1. /\ dealCache' = [i \in SolutionIDs |->
                IF i = id THEN s ELSE IF i \in gone THEN None ELSE cache[i]]
        /\ cacheIDOrder' = [i \in SolutionIDs |->
                (IF i \in gone THEN 0 ELSE cacheIDOrder[i])
                    + (IF i = id THEN 1 ELSE 0)]
    BY DEF InsertToCache, gone
  <1>. QED  BY <1>1, SMT

(***************************************************************************)
(* Writing an entry for each listed solution to runtime.json makes it      *)
(* match the index.                                                        *)
(***************************************************************************)
LEMMA SavedJson ==
  ASSUME multiSolutions' \in [SolutionIDs -> Nat],
         runTimeDetails' \in [SolutionIDs -> RunTimes \cup {None}],
         \A id \in SolutionIDs :
             multiSolutions'[id] > 0 <=> runTimeDetails'[id] # None,
         SaveRunTimeDetails
  PROVE  /\ runtimeJson' \in RunTimeJsons \cup {None}
         /\ JsonMatchesIndex'
  <1> DEFINE entries == [id \in SolutionIDs |->
                 IF multiSolutions'[id] > 0 THEN runTimeDetails'[id] ELSE None]
  <1>1. runtimeJson' = [solutions |-> multiSolutions', runTimes |-> entries]
    BY DEF SaveRunTimeDetails
  <1>2. entries \in [SolutionIDs -> RunTimes \cup {None}]
    OBVIOUS
  <1>3. entries = runTimeDetails'
    OBVIOUS
  <1>4. runtimeJson' \in RunTimeJsons
    BY <1>1, <1>2 DEF RunTimeJsons
  <1>5. runtimeJson' # None => JsonMatchesIndex'
    BY <1>1, <1>3 DEF JsonMatchesIndex, JsonOf
  <1>6. runtimeJson' # None
    BY <1>4, NoneAssumption DEF RunTimeJsons
  <1>. QED  BY <1>4, <1>5, <1>6

(***************************************************************************)
(* addSolution of a new identifier: the mesh file it copies is that of a   *)
(* solution with equally many cells, hence the same mesh.                  *)
(***************************************************************************)
LEMMA AddKeepsIInv ==
  ASSUME IInv,
         NEW id \in SolutionIDs, NEW s \in Solutions, NEW runTime \in RunTimes,
         SolverAdds(id, s, runTime)
  PROVE  IInv'
  <1> USE NoneAssumption
  <1>0. /\ TypeOK /\ FilesMatchIndex /\ CacheCoherent /\ JsonMatchesIndex
        /\ ArchiveIsComplete
        /\ multiSolutions[id] = 0 /\ dealCache[id] = None
        /\ s.mesh \in Meshes
    BY SMT DEF IInv, SolverAdds, Contains, MayAdd, TypeOK, Solutions
  <1>1. /\ meshFiles' = [meshFiles EXCEPT ![id] = MeshFileAfterAdd(id, s)]
        /\ dataFiles' = [dataFiles EXCEPT ![id] = s]
        /\ multiSolutions' = [multiSolutions EXCEPT ![id] = @ + 1]
        /\ runTimeDetails' = [runTimeDetails EXCEPT ![id] = runTime]
        /\ InsertToCache(id, s, dealCache)
        /\ SaveRunTimeDetails
        /\ archive' = archive
    BY DEF SolverAdds, AddSolution
  <1>2. /\ multiSolutions' \in [SolutionIDs -> Nat]
        /\ multiSolutions'[id] = 1
        /\ \A i \in SolutionIDs : i # id => multiSolutions'[i] = multiSolutions[i]
    BY <1>0, <1>1 DEF TypeOK
  <1>3. MeshFileAfterAdd(id, s) = s.mesh
    <2>1. CASE ~SameMesh(id, s)
      BY <2>1 DEF MeshFileAfterAdd
    <2>2. CASE SameMesh(id, s)
      <3> DEFINE prev == Previous(id)
      <3>1. /\ prev \in SolutionIDs /\ multiSolutions[prev] > 0
            /\ dealCache[prev] # None
            /\ Cells[s.mesh] = Cells[dealCache[prev].mesh]
        BY <2>2 DEF SameMesh, HasPrevious, Contains, SolverAdds, MayAdd,
                    PreviousIsCached, Cached, CachedIn
      <3>2. /\ dealCache[prev] = dataFiles[prev]
            /\ meshFiles[prev] = dataFiles[prev].mesh
        BY <3>1, <1>0 DEF CacheCoherent, Cached, CachedIn, FilesMatchIndex, FilesOf
      <3>3. dealCache[prev].mesh \in Meshes
        BY <3>1, <1>0 DEF TypeOK, Solutions
      <3>4. dealCache[prev].mesh = s.mesh
        BY <3>1, <3>3, <1>0, CellsAssumption
      <3>5. meshFiles[id] = None
        BY <1>0 DEF FilesMatchIndex, FilesOf
      <3>. QED  BY <2>2, <3>2, <3>4, <3>5 DEF MeshFileAfterAdd
    <2>. QED  BY <2>1, <2>2
  <1>4. /\ meshFiles' \in [SolutionIDs -> Meshes \cup {None}]
        /\ dataFiles' \in [SolutionIDs -> Solutions \cup {None}]
        /\ runTimeDetails' \in [SolutionIDs -> RunTimes \cup {None}]
    BY <1>0, <1>1, <1>3 DEF TypeOK
  <1>5. \A i \in SolutionIDs :
            multiSolutions'[i] > 0 <=> runTimeDetails'[i] # None
    BY <1>0, <1>1, <1>2 DEF JsonMatchesIndex, TypeOK
  <1>6. /\ runtimeJson' \in RunTimeJsons \cup {None}
        /\ JsonMatchesIndex'
    BY <1>1, <1>2, <1>4, <1>5, SavedJson
  <1>7. /\ dealCache' \in [SolutionIDs -> Solutions \cup {None}]
        /\ cacheIDOrder' \in [SolutionIDs -> Nat]
        /\ dealCache'[id] = s
        /\ cacheIDOrder'[id] > 0
        /\ \A i \in SolutionIDs : i # id /\ dealCache'[i] # None =>
               dealCache'[i] = dealCache[i] /\ cacheIDOrder'[i] = cacheIDOrder[i]
    BY <1>0, <1>1, InsertCache DEF TypeOK
  <1>8. TypeOK'
    BY <1>0, <1>1, <1>2, <1>4, <1>6, <1>7 DEF TypeOK
  <1>9. FilesMatchIndex'
    BY <1>0, <1>1, <1>2, <1>3 DEF FilesMatchIndex, FilesOf, TypeOK
  <1>10. CacheCoherent'
    BY <1>0, <1>1, <1>2, <1>7 DEF CacheCoherent, Cached, CachedIn, TypeOK
  <1>11. ArchiveIsComplete'
    BY <1>0, <1>1 DEF ArchiveIsComplete, FilesOf
  <1>. QED  BY <1>6, <1>8, <1>9, <1>10, <1>11 DEF IInv

(***************************************************************************)
(* replaceSolution keeps the mesh, so the mesh file still fits.            *)
(***************************************************************************)
LEMMA ReplaceKeepsIInv ==
  ASSUME IInv,
         NEW id \in SolutionIDs, NEW vector \in Vectors,
         ScriptReplaces(id, vector)
  PROVE  IInv'
  <1> USE NoneAssumption
  <1> DEFINE s == [mesh |-> dealCache[id].mesh, vector |-> vector]
             cache == [dealCache EXCEPT ![id] = None]
  <1>0. /\ TypeOK /\ FilesMatchIndex /\ CacheCoherent /\ JsonMatchesIndex
        /\ ArchiveIsComplete
        /\ multiSolutions[id] > 0 /\ dealCache[id] # None
        /\ dealCache[id] \in Solutions
    BY DEF IInv, ScriptReplaces, Contains, Cached, CachedIn, TypeOK
  <1>1. /\ s \in Solutions /\ s # None
        /\ s.mesh = dataFiles[id].mesh
        /\ cache \in [SolutionIDs -> Solutions \cup {None}]
    BY <1>0 DEF Solutions, TypeOK, CacheCoherent, Cached, CachedIn
  <1>2. /\ dataFiles' = [dataFiles EXCEPT ![id] = s]
        /\ InsertToCache(id, s, cache)
        /\ UNCHANGED <<multiSolutions, runTimeDetails, meshFiles, runtimeJson,
                       archive>>
    BY DEF ScriptReplaces, ReplaceSolution
  <1> HIDE DEF s, cache
  <1>3. /\ dealCache' \in [SolutionIDs -> Solutions \cup {None}]
        /\ cacheIDOrder' \in [SolutionIDs -> Nat]
        /\ dealCache'[id] = s
        /\ cacheIDOrder'[id] > 0
        /\ \A i \in SolutionIDs : i # id /\ dealCache'[i] # None =>
               dealCache'[i] = cache[i] /\ cacheIDOrder'[i] = cacheIDOrder[i]
    BY <1>0, <1>1, <1>2, InsertCache DEF TypeOK
  <1>4. \A i \in SolutionIDs : i # id => cache[i] = dealCache[i]
    BY <1>0 DEF cache, TypeOK
  <1>5. TypeOK'
    BY <1>0, <1>1, <1>2, <1>3 DEF TypeOK
  <1>6. FilesMatchIndex'
    BY <1>0, <1>1, <1>2 DEF FilesMatchIndex, FilesOf, TypeOK
  <1>7. CacheCoherent'
    BY <1>0, <1>2, <1>3, <1>4 DEF CacheCoherent, Cached, CachedIn, TypeOK
  <1>8. JsonMatchesIndex'
    BY <1>0, <1>2 DEF JsonMatchesIndex, JsonOf
  <1>9. ArchiveIsComplete'
    BY <1>0, <1>2 DEF ArchiveIsComplete, FilesOf
  <1>. QED  BY <1>5, <1>6, <1>7, <1>8, <1>9 DEF IInv

(***************************************************************************)
(* What multiArray loads is what was stored.                               *)
(***************************************************************************)
LEMMA LoadedIsData ==
  ASSUME TypeOK, FilesMatchIndex, NEW id \in SolutionIDs, Contains(id)
  PROVE  Loaded(id) = dataFiles[id] /\ Loaded(id) \in Solutions
  BY DEF Loaded, Contains, FilesMatchIndex, FilesOf, TypeOK, Solutions

(***************************************************************************)
(* multiArray, with the insertion and the flush of a solution that has to  *)
(* be loaded.                                                              *)
(***************************************************************************)
LEMMA ReadKeepsIInv ==
  ASSUME IInv, NEW id \in SolutionIDs, Read(id)
  PROVE  IInv'
  <1> USE NoneAssumption
  <1>0. /\ TypeOK /\ FilesMatchIndex /\ CacheCoherent /\ JsonMatchesIndex
        /\ ArchiveIsComplete
        /\ Contains(id) /\ multiSolutions[id] > 0
    BY DEF IInv, Read, MultiArray, Contains
  <1>1. UNCHANGED <<multiSolutions, runTimeDetails, meshFiles, dataFiles,
                    runtimeJson, archive>>
    BY DEF Read, MultiArray
  <1>2. TypeOK' /\ CacheCoherent'
    <2>1. CASE id \in Cached
      <3>1. UNCHANGED <<dealCache, cacheIDOrder>>
        BY <2>1 DEF Read, MultiArray
      <3>. QED  BY <3>1, <1>0, <1>1 DEF TypeOK, CacheCoherent, Cached, CachedIn
    <2>2. CASE id \notin Cached
      <3>1. InsertToCache(id, Loaded(id), dealCache)
        BY <2>2 DEF Read, MultiArray
      <3>2. Loaded(id) = dataFiles[id] /\ Loaded(id) \in Solutions
        BY <1>0, LoadedIsData
      <3>3. /\ dealCache' \in [SolutionIDs -> Solutions \cup {None}]
            /\ cacheIDOrder' \in [SolutionIDs -> Nat]
            /\ dealCache'[id] = Loaded(id)
            /\ cacheIDOrder'[id] > 0
            /\ \A i \in SolutionIDs : i # id /\ dealCache'[i] # None =>
                  dealCache'[i] = dealCache[i] /\ cacheIDOrder'[i] = cacheIDOrder[i]
        BY <1>0, <3>1, <3>2, InsertCache DEF TypeOK
      <3>4. TypeOK'
        BY <1>0, <1>1, <3>3 DEF TypeOK
      <3>. QED  BY <1>0, <1>1, <3>2, <3>3, <3>4 DEF CacheCoherent, Cached, CachedIn
    <2>. QED  BY <2>1, <2>2
  <1>3. FilesMatchIndex' /\ JsonMatchesIndex' /\ ArchiveIsComplete'
    BY <1>0, <1>1 DEF FilesMatchIndex, FilesOf, JsonMatchesIndex, JsonOf,
                      ArchiveIsComplete
  <1>. QED  BY <1>2, <1>3 DEF IInv

(***************************************************************************)
(* removeSolution takes away the only occurrence in the index.             *)
(***************************************************************************)
LEMMA RemoveKeepsIInv ==
  ASSUME IInv, NEW id \in SolutionIDs, StepRefused(id)
  PROVE  IInv'
  <1> USE NoneAssumption
  <1>0. /\ TypeOK /\ FilesMatchIndex /\ CacheCoherent /\ JsonMatchesIndex
        /\ ArchiveIsComplete
        /\ multiSolutions[id] = 1
    BY DEF IInv, StepRefused, RemoveSolution, Contains, FilesMatchIndex, FilesOf
  <1>1. /\ multiSolutions' = [multiSolutions EXCEPT ![id] = @ - 1]
        /\ runTimeDetails' = [runTimeDetails EXCEPT ![id] = None]
        /\ meshFiles' = [meshFiles EXCEPT ![id] = None]
        /\ dataFiles' = [dataFiles EXCEPT ![id] = None]
        /\ dealCache' = [dealCache EXCEPT ![id] = None]
        /\ cacheIDOrder' = [cacheIDOrder EXCEPT
              ![id] = IF id \in Cached /\ @ > 0 THEN @ - 1 ELSE @]
        /\ SaveRunTimeDetails
        /\ archive' = archive
    BY DEF StepRefused, RemoveSolution, RemoveFiles, RemoveFromCache
  <1>2. /\ multiSolutions' \in [SolutionIDs -> Nat]
        /\ multiSolutions'[id] = 0
        /\ \A i \in SolutionIDs : i # id => multiSolutions'[i] = multiSolutions[i]
    BY <1>0, <1>1 DEF TypeOK
  <1>3. /\ runTimeDetails' \in [SolutionIDs -> RunTimes \cup {None}]
        /\ meshFiles' \in [SolutionIDs -> Meshes \cup {None}]
        /\ dataFiles' \in [SolutionIDs -> Solutions \cup {None}]
        /\ dealCache' \in [SolutionIDs -> Solutions \cup {None}]
        /\ cacheIDOrder' \in [SolutionIDs -> Nat]
    BY <1>0, <1>1 DEF TypeOK
  <1>4. \A i \in SolutionIDs :
            multiSolutions'[i] > 0 <=> runTimeDetails'[i] # None
    BY <1>0, <1>1, <1>2 DEF JsonMatchesIndex, TypeOK
  <1>5. /\ runtimeJson' \in RunTimeJsons \cup {None}
        /\ JsonMatchesIndex'
    BY <1>1, <1>2, <1>3, <1>4, SavedJson
  <1>6. TypeOK'
    BY <1>0, <1>1, <1>2, <1>3, <1>5 DEF TypeOK
  <1>7. FilesMatchIndex'
    BY <1>0, <1>1, <1>2 DEF FilesMatchIndex, FilesOf, TypeOK
  <1>8. CacheCoherent'
    BY <1>0, <1>1, <1>2 DEF CacheCoherent, Cached, CachedIn, TypeOK
  <1>9. ArchiveIsComplete'
    BY <1>0, <1>1 DEF ArchiveIsComplete, FilesOf
  <1>. QED  BY <1>5, <1>6, <1>7, <1>8, <1>9 DEF IInv

(***************************************************************************)
(* clear() leaves nothing behind: what is cached or on the disk is listed. *)
(***************************************************************************)
LEMMA ClearKeepsIInv ==
  ASSUME IInv, ClearSolution
  PROVE  /\ IInv'
         /\ multiSolutions' = Never
  <1> USE NoneAssumption
  <1>0. /\ TypeOK /\ FilesMatchIndex /\ CacheCoherent /\ JsonMatchesIndex
        /\ ArchiveIsComplete
    BY DEF IInv
  <1>1. /\ multiSolutions' = Never
        /\ runTimeDetails' = Nowhere /\ dealCache' = Nowhere
        /\ meshFiles' = Nowhere /\ dataFiles' = Nowhere
        /\ runtimeJson' = None /\ archive' = archive
        /\ cacheIDOrder' \in [SolutionIDs -> Nat]
    BY <1>0 DEF ClearSolution, ClearStore, Contains, Nowhere, TypeOK, Cached, CachedIn,
           FilesMatchIndex, FilesOf, CacheCoherent, JsonMatchesIndex
  <1>2. TypeOK'
    BY <1>0, <1>1 DEF TypeOK, Never, Nowhere
  <1>3. FilesMatchIndex' /\ CacheCoherent' /\ JsonMatchesIndex'
    BY <1>1 DEF FilesMatchIndex, FilesOf, CacheCoherent, Cached, CachedIn,
                JsonMatchesIndex, JsonOf, Never, Nowhere
  <1>4. ArchiveIsComplete'
    BY <1>0, <1>1 DEF ArchiveIsComplete, FilesOf
  <1>. QED  BY <1>1, <1>2, <1>3, <1>4 DEF IInv

(***************************************************************************)
(* Saving copies files that match the index.                               *)
(***************************************************************************)
LEMMA SaveKeepsIInv ==
  ASSUME IInv, NEW onlyProblemFile \in BOOLEAN, WriteProblemToFile(onlyProblemFile)
  PROVE  IInv'
  <1>0. /\ TypeOK /\ FilesMatchIndex /\ CacheCoherent /\ JsonMatchesIndex
    BY DEF IInv
  <1>1. UNCHANGED storeVars
    BY DEF WriteProblemToFile
  <1>2. FilesMatchIndex' /\ CacheCoherent' /\ JsonMatchesIndex'
    BY <1>0, <1>1 DEF FilesMatchIndex, FilesOf, CacheCoherent, Cached,
                      CachedIn, JsonMatchesIndex, JsonOf, storeVars
  <1>3. CASE onlyProblemFile
    <2>1. archive' = EmptyArchive
      BY <1>3 DEF WriteProblemToFile
    <2>2. TypeOK'
      BY <2>1, <1>0, <1>1 DEF TypeOK, storeVars, EmptyArchive, Nowhere
    <2>3. ArchiveIsComplete'
      BY <2>1 DEF ArchiveIsComplete, EmptyArchive, FilesOf, Never, Nowhere
    <2>. QED  BY <1>2, <2>2, <2>3 DEF IInv
  <1>4. CASE ~onlyProblemFile
    <2>1. archive' = [runtimeJson |-> runtimeJson,
                      meshFiles |-> meshFiles, dataFiles |-> dataFiles]
      BY <1>4 DEF WriteProblemToFile
    <2>2. TypeOK'
      BY <2>1, <1>0, <1>1 DEF TypeOK, storeVars
    <2>3. ArchiveIsComplete'
      <3>1. CASE runtimeJson = None
        BY <3>1, <2>1, <1>0 DEF ArchiveIsComplete, JsonMatchesIndex, JsonOf,
                                FilesMatchIndex, FilesOf, Never
      <3>2. CASE runtimeJson # None
        BY <3>2, <2>1, <1>0 DEF ArchiveIsComplete, JsonMatchesIndex, JsonOf,
                                FilesMatchIndex
      <3>. QED  BY <3>1, <3>2
    <2>. QED  BY <1>2, <2>2, <2>3 DEF IInv
  <1>. QED  BY <1>3, <1>4

(***************************************************************************)
(* Opening a complete archive restores the invariant with an empty cache.  *)
(***************************************************************************)
LEMMA OpenKeepsIInv ==
  ASSUME IInv, ReadProblemFromAgs
  PROVE  IInv'
  <1> USE NoneAssumption
  <1>0. TypeOK /\ ArchiveIsComplete
    BY DEF IInv
  <1>1. /\ meshFiles' = archive.meshFiles
        /\ dataFiles' = archive.dataFiles
        /\ runtimeJson' = archive.runtimeJson
        /\ multiSolutions' = IF archive.runtimeJson = None THEN Never
                             ELSE archive.runtimeJson.solutions
        /\ runTimeDetails' = IF archive.runtimeJson = None THEN Nowhere
                             ELSE archive.runtimeJson.runTimes
        /\ dealCache' = Nowhere
        /\ cacheIDOrder' = Never
        /\ archive' = archive
    BY DEF ReadProblemFromAgs
  <1>2. /\ multiSolutions' \in [SolutionIDs -> Nat]
        /\ runTimeDetails' \in [SolutionIDs -> RunTimes \cup {None}]
    BY <1>0, <1>1 DEF TypeOK, RunTimeJsons, Never, Nowhere
  <1>3. TypeOK'
    BY <1>0, <1>1, <1>2 DEF TypeOK, Never, Nowhere
  <1>4. FilesMatchIndex'
    BY <1>0, <1>1 DEF FilesMatchIndex, ArchiveIsComplete
  <1>5. CacheCoherent'
    BY <1>1 DEF CacheCoherent, Cached, CachedIn, Nowhere
  <1>6. JsonMatchesIndex'
    BY <1>0, <1>1 DEF JsonMatchesIndex, JsonOf, ArchiveIsComplete, Never, Nowhere
  <1>7. ArchiveIsComplete'
    BY <1>0, <1>1 DEF ArchiveIsComplete, FilesOf
  <1>. QED  BY <1>3, <1>4, <1>5, <1>6, <1>7 DEF IInv

(***************************************************************************)
(* The invariant is inductive.                                             *)
(***************************************************************************)
LEMMA NextKeepsIInv == IInv /\ [Next]_vars => IInv'
  <1> SUFFICES ASSUME IInv, [Next]_vars PROVE IInv'
    OBVIOUS
  <1>1. ASSUME NEW id \in SolutionIDs, NEW s \in Solutions,
               NEW runTime \in RunTimes, SolverAdds(id, s, runTime)
        PROVE  IInv'
    BY <1>1, AddKeepsIInv
  <1>2. ASSUME NEW id \in SolutionIDs, NEW vector \in Vectors,
               ScriptReplaces(id, vector)
        PROVE  IInv'
    BY <1>2, ReplaceKeepsIInv
  <1>3. ASSUME NEW id \in SolutionIDs, Read(id) PROVE IInv'
    BY <1>3, ReadKeepsIInv
  <1>4. ASSUME NEW id \in SolutionIDs, StepRefused(id) PROVE IInv'
    BY <1>4, RemoveKeepsIInv
  <1>5. CASE ClearSolution
    BY <1>5, ClearKeepsIInv
  <1>6. ASSUME NEW onlyProblemFile \in BOOLEAN, WriteProblemToFile(onlyProblemFile)
        PROVE  IInv'
    BY <1>6, SaveKeepsIInv
  <1>7. CASE ReadProblemFromAgs
    BY <1>7, OpenKeepsIInv
  <1>8. CASE UNCHANGED vars
    BY <1>8 DEF vars, storeVars, IInv, TypeOK, FilesMatchIndex, FilesOf,
                CacheCoherent, Cached, CachedIn, JsonMatchesIndex, JsonOf,
                ArchiveIsComplete
  <1>. QED  BY <1>1, <1>2, <1>3, <1>4, <1>5, <1>6, <1>7, <1>8 DEF Next

(***************************************************************************)
(* The inductive invariant holds in every reachable state.                 *)
(***************************************************************************)
THEOREM SpecIInv == Spec => []IInv
  BY InitIInv, NextKeepsIInv, PTL DEF Spec

(***************************************************************************)
(* Type correctness.                                                       *)
(***************************************************************************)
THEOREM SpecTypeOK == Spec => []TypeOK
  <1>1. IInv => TypeOK
    BY DEF IInv
  <1>. QED  BY <1>1, SpecIInv, PTL

(***************************************************************************)
(* Every listed solution can be loaded from its own files.                 *)
(***************************************************************************)
THEOREM SpecFilesMatchIndex == Spec => []FilesMatchIndex
  <1>1. IInv => FilesMatchIndex
    BY DEF IInv
  <1>. QED  BY <1>1, SpecIInv, PTL

(***************************************************************************)
(* The cache never disagrees with the disk.                                *)
(***************************************************************************)
THEOREM SpecCacheCoherent == Spec => []CacheCoherent
  <1>1. IInv => CacheCoherent
    BY DEF IInv
  <1>. QED  BY <1>1, SpecIInv, PTL

(***************************************************************************)
(* runtime.json lists what the store lists, in the same order, after every *)
(* operation: saveRunTimeDetails is never forgotten.                       *)
(***************************************************************************)
THEOREM SpecJsonMatchesIndex == Spec => []JsonMatchesIndex
  <1>1. IInv => JsonMatchesIndex
    BY DEF IInv
  <1>. QED  BY <1>1, SpecIInv, PTL

(***************************************************************************)
(* A save at any moment gives an archive that can be opened.               *)
(***************************************************************************)
THEOREM SpecArchiveIsComplete == Spec => []ArchiveIsComplete
  <1>1. IInv => ArchiveIsComplete
    BY DEF IInv
  <1>. QED  BY <1>1, SpecIInv, PTL

(***************************************************************************)
(* What a reader gets is what the .dof and .sol files hold, cached or not; *)
(* the same holds of the archive.                                          *)
(***************************************************************************)
LEMMA StoredIsData == IInv => Stored = dataFiles /\ Saved = archive.dataFiles
  <1> SUFFICES ASSUME IInv PROVE Stored = dataFiles /\ Saved = archive.dataFiles
    OBVIOUS
  <1>1. Stored = dataFiles
    <2>1. dataFiles = [id \in SolutionIDs |-> dataFiles[id]]
      BY DEF IInv, TypeOK
    <2>2. ASSUME NEW id \in SolutionIDs PROVE Stored[id] = dataFiles[id]
      <3>1. CASE ~Contains(id)
        BY <3>1 DEF Stored, Contains, IInv, FilesMatchIndex, FilesOf
      <3>2. CASE Contains(id) /\ dealCache[id] # None
        BY <3>2 DEF Stored, IInv, CacheCoherent, Cached, CachedIn
      <3>3. CASE Contains(id) /\ dealCache[id] = None
        <4>1. dataFiles[id] \in Solutions /\ meshFiles[id] = dataFiles[id].mesh
          BY <3>3 DEF Contains, IInv, TypeOK, FilesMatchIndex, FilesOf
        <4>2. Loaded(id) = dataFiles[id]
          BY <4>1 DEF Loaded, Solutions
        <4>. QED  BY <3>3, <4>2 DEF Stored
      <3>. QED  BY <3>1, <3>2, <3>3
    <2>. QED  BY <2>1, <2>2 DEF Stored
  <1>2. Saved = archive.dataFiles
    <2>1. archive.dataFiles = [id \in SolutionIDs |-> archive.dataFiles[id]]
      BY DEF IInv, TypeOK
    <2>2. ASSUME NEW id \in SolutionIDs PROVE Saved[id] = archive.dataFiles[id]
      <3>1. CASE archive.runtimeJson = None
        BY <3>1 DEF Saved, IInv, ArchiveIsComplete, FilesOf, Never
      <3>2. CASE archive.runtimeJson # None /\ ~(archive.runtimeJson.solutions[id] > 0)
        <4>1. archive.runtimeJson.solutions[id] = 0
          BY <3>2 DEF IInv, TypeOK, RunTimeJsons
        <4>. QED  BY <3>2, <4>1 DEF Saved, IInv, ArchiveIsComplete, FilesOf
      <3>3. CASE archive.runtimeJson # None /\ archive.runtimeJson.solutions[id] > 0
        <4>1. /\ archive.dataFiles[id] \in Solutions
              /\ archive.meshFiles[id] = archive.dataFiles[id].mesh
          BY <3>3 DEF IInv, TypeOK, ArchiveIsComplete, FilesOf
        <4>2. [mesh |-> archive.meshFiles[id], vector |-> archive.dataFiles[id].vector]
                = archive.dataFiles[id]
          BY <4>1 DEF Solutions
        <4>3. archive.runtimeJson.solutions[id] # 0
          BY <3>3 DEF IInv, TypeOK, RunTimeJsons
        <4>. QED  BY <3>3, <4>2, <4>3 DEF Saved
      <3>. QED  BY <3>1, <3>2, <3>3
    <2>. QED  BY <2>1, <2>2 DEF Saved
  <1>. QED  BY <1>1, <1>2

(***************************************************************************)
(* Every step of the store is a step of the map or not seen by it.         *)
(***************************************************************************)
LEMMA NextIsMapStep == IInv /\ IInv' /\ [Next]_vars => [Map!Next]_<<Stored, Saved>>
  <1> SUFFICES ASSUME IInv, IInv', [Next]_vars
               PROVE  [Map!Next]_<<Stored, Saved>>
    OBVIOUS
  <1>0. /\ Stored = dataFiles /\ Stored' = dataFiles'
        /\ Saved = archive.dataFiles /\ Saved' = archive'.dataFiles
    <2>1. (IInv => Stored = dataFiles /\ Saved = archive.dataFiles)'
      BY StoredIsData, PTL
    <2>. QED  BY <2>1, StoredIsData
  <1>1. ASSUME NEW id \in SolutionIDs, NEW s \in Solutions,
               NEW runTime \in RunTimes, SolverAdds(id, s, runTime)
        PROVE  Map!Add(id, s)
    <2>1. /\ dataFiles' = [dataFiles EXCEPT ![id] = s] /\ ~Contains(id)
          /\ archive' = archive
      BY <1>1 DEF SolverAdds, AddSolution
    <2>2. dataFiles[id] = None
      BY <2>1 DEF Contains, IInv, FilesMatchIndex, FilesOf
    <2>. QED  BY <1>0, <2>1, <2>2 DEF Map!Add
  <1>2. ASSUME NEW id \in SolutionIDs, NEW vector \in Vectors,
               ScriptReplaces(id, vector)
        PROVE  \E s \in Solutions : Map!Replace(id, s)
    <2> DEFINE s == [mesh |-> dealCache[id].mesh, vector |-> vector]
    <2>1. /\ dataFiles' = [dataFiles EXCEPT ![id] = s] /\ id \in Cached
          /\ archive' = archive
      BY <1>2 DEF ScriptReplaces, ReplaceSolution
    <2>2. dealCache[id] \in Solutions /\ dataFiles[id] = dealCache[id]
      BY <2>1 DEF Cached, CachedIn, IInv, TypeOK, CacheCoherent
    <2>3. s \in Solutions /\ dataFiles[id] # None /\ s.mesh = dataFiles[id].mesh
      BY <2>2, NoneAssumption DEF Solutions
    <2>. HIDE DEF s
    <2>. QED  BY <1>0, <2>1, <2>3 DEF Map!Replace
  <1>3. ASSUME NEW id \in SolutionIDs, Read(id)
        PROVE  UNCHANGED <<Stored, Saved>>
    BY <1>0, <1>3 DEF Read, MultiArray
  <1>4. ASSUME NEW id \in SolutionIDs, StepRefused(id) PROVE Map!Remove(id)
    <2>1. /\ dataFiles' = [dataFiles EXCEPT ![id] = None] /\ Contains(id)
          /\ archive' = archive
      BY <1>4 DEF StepRefused, RemoveSolution, RemoveFiles
    <2>2. dataFiles[id] # None
      BY <2>1 DEF Contains, IInv, FilesMatchIndex, FilesOf
    <2>. QED  BY <1>0, <2>1, <2>2 DEF Map!Remove
  <1>5. CASE ClearSolution
    <2>1. /\ dataFiles' = [id \in SolutionIDs |->
                IF Contains(id) THEN None ELSE dataFiles[id]]
          /\ archive' = archive
      BY <1>5 DEF ClearSolution, ClearStore
    <2>2. \A id \in SolutionIDs : ~Contains(id) => dataFiles[id] = None
      BY DEF Contains, IInv, FilesMatchIndex, FilesOf
    <2>3. dataFiles' = [id \in SolutionIDs |-> None]
      BY <2>1, <2>2
    <2>. QED  BY <1>0, <2>1, <2>3 DEF Map!Next, Map!RemoveAll, Map!EmptyMap
  <1>6. ASSUME NEW onlyProblemFile \in BOOLEAN, WriteProblemToFile(onlyProblemFile)
        PROVE  Map!Save \/ Map!SaveNone
    <2>1. dataFiles' = dataFiles
      BY <1>6 DEF WriteProblemToFile, storeVars
    <2>2. CASE onlyProblemFile
      <3>1. archive'.dataFiles = [id \in SolutionIDs |-> None]
        BY <1>6, <2>2 DEF WriteProblemToFile, EmptyArchive, Nowhere
      <3>. QED  BY <1>0, <2>1, <3>1 DEF Map!SaveNone, Map!EmptyMap
    <2>3. CASE ~onlyProblemFile
      <3>1. archive'.dataFiles = dataFiles
        BY <1>6, <2>3 DEF WriteProblemToFile
      <3>. QED  BY <1>0, <2>1, <3>1 DEF Map!Save
    <2>. QED  BY <2>2, <2>3
  <1>7. CASE ReadProblemFromAgs
    <2>1. dataFiles' = archive.dataFiles /\ archive' = archive
      BY <1>7 DEF ReadProblemFromAgs
    <2>. QED  BY <1>0, <2>1 DEF Map!Next, Map!Open
  <1>8. CASE UNCHANGED vars
    BY <1>0, <1>8 DEF vars, storeVars
  <1>. QED  BY <1>1, <1>2, <1>3, <1>4, <1>5, <1>6, <1>7, <1>8 DEF Next, Map!Next

(***************************************************************************)
(* The bound on the cache.  An insertion that finds the cache within its   *)
(* limit takes it at most one beyond, and the field of the inserted        *)
(* solution is cached.  An insertion that finds it beyond the limit        *)
(* flushes the field, so the solution replaces an entry or is the first of *)
(* a field that is new to the cache.                                       *)
(***************************************************************************)
FieldsOf(ids) == {i.field : i \in ids}

BoundedBy(ids) == Cardinality(ids) <= CacheSize + Cardinality(FieldsOf(ids))

\* FS_AddElement as a bound
LEMMA AddedIsBounded ==
  ASSUME NEW S, NEW x, IsFiniteSet(S)
  PROVE  /\ IsFiniteSet(S \cup {x})
         /\ Cardinality(S \cup {x}) <= Cardinality(S) + 1
  <1>1. Cardinality(S) \in Nat
    BY FS_CardinalityType
  <1>2. /\ IsFiniteSet(S \cup {x})
        /\ Cardinality(S \cup {x}) =
              IF x \in S THEN Cardinality(S) ELSE Cardinality(S) + 1
    BY FS_AddElement
  <1>. QED  BY <1>1, <1>2

\* Sets of identifiers and of their fields are finite.
LEMMA FieldsFinite ==
  ASSUME NEW S \in SUBSET SolutionIDs
  PROVE  /\ IsFiniteSet(S) /\ Cardinality(S) \in Nat
         /\ IsFiniteSet(FieldsOf(S)) /\ Cardinality(FieldsOf(S)) \in Nat
  <1>1. IsFiniteSet(S)
    BY SolutionIDsAssumption, FS_Subset
  <1> DEFINE f == [i \in S |-> i.field]
  <1>2. f \in Surjection(S, FieldsOf(S))
    BY DEF Surjection, FieldsOf
  <1>3. IsFiniteSet(FieldsOf(S))
    BY <1>1, <1>2, FS_Surjection
  <1>. QED  BY <1>1, <1>3, FS_CardinalityType

\* One more identifier, one more field at most.
LEMMA FieldsOfMore ==
  ASSUME NEW S \in SUBSET SolutionIDs, NEW id \in SolutionIDs
  PROVE  FieldsOf(S \cup {id}) = FieldsOf(S) \cup {id.field}
  BY DEF FieldsOf

\* Taking one identifier away loses at most its field.
LEMMA BoundedWithout ==
  ASSUME NEW S \in SUBSET SolutionIDs, NEW id \in SolutionIDs, BoundedBy(S)
  PROVE  BoundedBy(S \ {id})
  <1> DEFINE T == S \ {id}
  <1>0. T \in SUBSET SolutionIDs
    OBVIOUS
  <1>1. CASE id \notin S
    <2>1. T = S
      BY <1>1
    <2>. QED  BY <2>1
  <1>2. CASE id \in S
    <2>1. Cardinality(T) = Cardinality(S) - 1
      BY <1>2, FieldsFinite, FS_RemoveElement
    <2>2. T \cup {id} = S
      BY <1>2
    <2>3. FieldsOf(S) = FieldsOf(T) \cup {id.field}
      BY <1>0, <2>2, FieldsOfMore
    <2>4. Cardinality(FieldsOf(S)) <= Cardinality(FieldsOf(T)) + 1
      <3>1. IsFiniteSet(FieldsOf(T)) /\ Cardinality(FieldsOf(T)) \in Nat
        BY <1>0, FieldsFinite
      <3>. QED  BY <2>3, <3>1, AddedIsBounded
    <2>5. /\ Cardinality(S) \in Nat /\ Cardinality(FieldsOf(S)) \in Nat
          /\ Cardinality(FieldsOf(T)) \in Nat
      BY <1>0, FieldsFinite
    <2> HIDE DEF T
    <2>. QED  BY <2>1, <2>4, <2>5, CacheSizeAssumption DEF BoundedBy, T
  <1>. QED  BY <1>1, <1>2

\* C is what the cache holds when id is inserted, N what it holds afterwards:
\* nothing was flushed (C is within the limit), or the whole field was.
LEMMA InsertionIsBounded ==
  ASSUME NEW C \in SUBSET SolutionIDs, NEW id \in SolutionIDs, BoundedBy(C),
         NEW N \in SUBSET SolutionIDs, id \in N, N \subseteq C \cup {id},
         ~(Cardinality(C) > CacheSize) \/ \A i \in N : i # id => i.field # id.field,
         \A i \in C : i.field # id.field => i \in N
  PROVE  BoundedBy(N)
  <1>0. /\ IsFiniteSet(C) /\ Cardinality(C) \in Nat
        /\ IsFiniteSet(N) /\ Cardinality(N) \in Nat
        /\ IsFiniteSet(FieldsOf(C)) /\ Cardinality(FieldsOf(C)) \in Nat
        /\ IsFiniteSet(FieldsOf(N)) /\ Cardinality(FieldsOf(N)) \in Nat
    BY FieldsFinite
  <1>1. id.field \in FieldsOf(N)
    BY DEF FieldsOf
  <1>2. Cardinality(FieldsOf(N)) >= 1
    BY <1>0, <1>1, FS_EmptySet
  <1>3. Cardinality(N) <= Cardinality(C) + 1
    <2>1. /\ IsFiniteSet(C \cup {id})
          /\ Cardinality(C \cup {id}) <= Cardinality(C) + 1
      BY <1>0, AddedIsBounded
    <2>2. Cardinality(N) <= Cardinality(C \cup {id})
      BY <2>1, FS_Subset
    <2>3. Cardinality(C \cup {id}) \in Nat
      BY <2>1, FS_CardinalityType
    <2>. QED  BY <2>1, <2>2, <2>3, <1>0
  <1>4. CASE ~(Cardinality(C) > CacheSize)
    BY <1>0, <1>2, <1>3, <1>4, CacheSizeAssumption DEF BoundedBy
  <1>5. CASE /\ Cardinality(C) > CacheSize
             /\ \A i \in N : i # id => i.field # id.field
    <2>1. CASE \E j \in C : j.field = id.field
      <3>1. PICK j \in C : j.field = id.field
        BY <2>1
      <3>2. Cardinality(N) <= Cardinality(C)
        <4> DEFINE R == C \ {j}
        <4>1. IsFiniteSet(R) /\ Cardinality(R) = Cardinality(C) - 1
          BY <1>0, FS_RemoveElement
        <4>2. N \subseteq R \cup {id}
          BY <1>5, <3>1
        <4>3. /\ IsFiniteSet(R \cup {id})
              /\ Cardinality(R \cup {id}) <= Cardinality(R) + 1
          BY <4>1, AddedIsBounded
        <4>4. Cardinality(N) <= Cardinality(R \cup {id})
          BY <4>2, <4>3, FS_Subset
        <4>5. Cardinality(R \cup {id}) \in Nat
          BY <4>3, FS_CardinalityType
        <4> HIDE DEF R
        <4>. QED  BY <4>1, <4>3, <4>4, <4>5, <1>0
      <3>3. FieldsOf(C) \subseteq FieldsOf(N)
        BY <3>1 DEF FieldsOf
      <3>4. Cardinality(FieldsOf(C)) <= Cardinality(FieldsOf(N))
        BY <1>0, <3>3, FS_Subset
      <3>. QED  BY <1>0, <3>2, <3>4, CacheSizeAssumption DEF BoundedBy
    <2>2. CASE \A j \in C : j.field # id.field
      <3>1. N = C \cup {id}
        BY <2>2
      <3>2. FieldsOf(N) = FieldsOf(C) \cup {id.field}
        BY <3>1, FieldsOfMore
      <3>3. id.field \notin FieldsOf(C)
        BY <2>2 DEF FieldsOf
      <3>4. Cardinality(FieldsOf(N)) = Cardinality(FieldsOf(C)) + 1
        BY <1>0, <3>2, <3>3, FS_AddElement
      <3>. QED  BY <1>0, <1>3, <3>4, CacheSizeAssumption DEF BoundedBy
    <2>. QED  BY <2>1, <2>2
  <1>. QED  BY <1>4, <1>5

\* insertMultiSolutionToCache keeps the bound.
LEMMA InsertKeepsBound ==
  ASSUME NEW id \in SolutionIDs, NEW s \in Solutions,
         NEW cache \in [SolutionIDs -> Solutions \cup {None}],
         BoundedBy(CachedIn(cache)),
         \A i \in SolutionIDs : cache[i] # None => cacheIDOrder[i] > 0,
         InsertToCache(id, s, cache)
  PROVE  CacheIsBounded'
  <1> DEFINE gone == Flushed(id, cache)
             C == CachedIn(cache)
             N == CachedIn(dealCache')
  <1>1. dealCache' = [i \in SolutionIDs |->
                IF i = id THEN s ELSE IF i \in gone THEN None ELSE cache[i]]
    BY DEF InsertToCache
  <1>2. s # None
    BY NoneAssumption
  <1>3. /\ C \in SUBSET SolutionIDs /\ N \in SUBSET SolutionIDs
        /\ id \in N /\ N \subseteq C \cup {id}
    BY <1>1, <1>2 DEF CachedIn
  <1>4. ~(Cardinality(C) > CacheSize) \/ \A i \in N : i # id => i.field # id.field
    BY <1>1 DEF CachedIn, Flushed
  <1>5. \A i \in C : i.field # id.field => i \in N
    BY <1>1, <1>2 DEF CachedIn, Flushed
  <1> HIDE DEF C, N
  <1>6. BoundedBy(N)
    BY <1>3, <1>4, <1>5, InsertionIsBounded DEF C
  <1>. QED  BY <1>6 DEF BoundedBy, FieldsOf, CacheIsBounded, Cached, CachedFields, N

\* Every step of the store keeps the bound: it inserts, takes away or leaves alone.
LEMMA NextKeepsBound == IInv /\ CacheIsBounded /\ [Next]_vars => CacheIsBounded'
  <1> SUFFICES ASSUME IInv, CacheIsBounded, [Next]_vars PROVE CacheIsBounded'
    OBVIOUS
  <1>0. /\ dealCache \in [SolutionIDs -> Solutions \cup {None}]
        /\ BoundedBy(CachedIn(dealCache))
        /\ \A i \in SolutionIDs : dealCache[i] # None => cacheIDOrder[i] > 0
    BY DEF IInv, TypeOK, CacheCoherent, Cached, CachedIn, CacheIsBounded,
           CachedFields, BoundedBy, FieldsOf
  <1>1. ASSUME NEW id \in SolutionIDs, NEW s \in Solutions,
               NEW runTime \in RunTimes, SolverAdds(id, s, runTime)
        PROVE  CacheIsBounded'
    BY <1>0, <1>1, InsertKeepsBound DEF SolverAdds, AddSolution
  <1>2. ASSUME NEW id \in SolutionIDs, NEW vector \in Vectors,
               ScriptReplaces(id, vector)
        PROVE  CacheIsBounded'
    <2> DEFINE s == [mesh |-> dealCache[id].mesh, vector |-> vector]
               cache == [dealCache EXCEPT ![id] = None]
    <2>1. dealCache[id] \in Solutions /\ InsertToCache(id, s, cache)
      BY <1>0, <1>2 DEF ScriptReplaces, ReplaceSolution, Cached, CachedIn
    <2>2. s \in Solutions
      BY <2>1 DEF Solutions
    <2>3. /\ cache \in [SolutionIDs -> Solutions \cup {None}]
          /\ \A i \in SolutionIDs : cache[i] # None => cacheIDOrder[i] > 0
      BY <1>0
    <2>4. CachedIn(cache) = CachedIn(dealCache) \ {id}
      BY <1>0 DEF CachedIn
    <2>5. BoundedBy(CachedIn(cache))
      BY <2>4, <1>0, BoundedWithout DEF CachedIn
    <2> HIDE DEF s, cache
    <2>. QED  BY <2>1, <2>2, <2>3, <2>5, InsertKeepsBound
  <1>3. ASSUME NEW id \in SolutionIDs, Read(id) PROVE CacheIsBounded'
    <2>1. CASE id \in Cached
      BY <1>3, <2>1 DEF Read, MultiArray, CacheIsBounded, Cached, CachedFields
    <2>2. CASE id \notin Cached
      <3>1. InsertToCache(id, Loaded(id), dealCache) /\ Contains(id)
        BY <1>3, <2>2 DEF Read, MultiArray
      <3>2. Loaded(id) \in Solutions
        BY <3>1 DEF Contains, IInv, TypeOK, FilesMatchIndex, FilesOf, Loaded, Solutions
      <3>. QED  BY <1>0, <3>1, <3>2, InsertKeepsBound
    <2>. QED  BY <2>1, <2>2
  <1>4. ASSUME NEW id \in SolutionIDs, StepRefused(id) PROVE CacheIsBounded'
    <2>1. CachedIn(dealCache') = CachedIn(dealCache) \ {id}
      BY <1>0, <1>4 DEF StepRefused, RemoveSolution, RemoveFromCache, CachedIn
    <2>2. BoundedBy(CachedIn(dealCache'))
      BY <2>1, <1>0, BoundedWithout DEF CachedIn
    <2>. QED  BY <2>2 DEF BoundedBy, FieldsOf, CacheIsBounded, Cached, CachedFields
  <1>5. ASSUME CachedIn(dealCache') = {} PROVE CacheIsBounded'
    <2>1. Cached' = {} /\ CachedFields' = {}
      BY <1>5 DEF Cached, CachedFields
    <2>. QED  BY <2>1, FS_EmptySet, CacheSizeAssumption DEF CacheIsBounded
  <1>6. CASE ClearSolution
    <2>1. CachedIn(dealCache') = {}
      BY <1>6 DEF ClearSolution, ClearStore, CachedIn, IInv, CacheCoherent,
                  Cached, Contains
    <2>. QED  BY <2>1, <1>5
  <1>7. CASE ReadProblemFromAgs
    <2>1. CachedIn(dealCache') = {}
      BY <1>7 DEF ReadProblemFromAgs, Nowhere, CachedIn
    <2>. QED  BY <2>1, <1>5
  <1>8. ASSUME UNCHANGED dealCache PROVE CacheIsBounded'
    BY <1>8 DEF CacheIsBounded, Cached, CachedFields
  <1>. QED  BY <1>1, <1>2, <1>3, <1>4, <1>6, <1>7, <1>8
            DEF Next, WriteProblemToFile, storeVars, vars

(***************************************************************************)
(* The cache holds at most CacheSize solutions and one more of each field, *)
(* for any number of fields and steps.                                     *)
(***************************************************************************)
THEOREM SpecCacheIsBounded == Spec => []CacheIsBounded
  <1>1. Init => CacheIsBounded
    <2> SUFFICES ASSUME Init PROVE CacheIsBounded
      OBVIOUS
    <2>1. Cached = {} /\ CachedFields = {}
      BY DEF Init, StoreInit, Nowhere, Cached, CachedIn, CachedFields
    <2>. QED  BY <2>1, FS_EmptySet, CacheSizeAssumption DEF CacheIsBounded
  <1>2. IInv /\ CacheIsBounded /\ [Next]_vars => CacheIsBounded'
    BY NextKeepsBound
  <1>. QED  BY <1>1, <1>2, SpecIInv, PTL DEF Spec

(***************************************************************************)
(* The store implements the map: whatever is cached, flushed or loaded     *)
(* again, its clients see a map that a save and an open carry over.        *)
(***************************************************************************)
THEOREM SpecStoreIsAMap == Spec => StoreIsAMap
  <1>1. Init => Map!Init
    <2> SUFFICES ASSUME Init PROVE Map!Init
      OBVIOUS
    <2>1. dataFiles = [id \in SolutionIDs |-> None]
          /\ archive.dataFiles = [id \in SolutionIDs |-> None]
      BY DEF Init, StoreInit, EmptyArchive, Nowhere
    <2>. QED  BY <2>1, InitIInv, StoredIsData DEF Map!Init, Map!EmptyMap
  <1>2. IInv /\ IInv' /\ [Next]_vars => [Map!Next]_<<Stored, Saved>>
    BY NextIsMapStep
  <1>. QED  BY <1>1, <1>2, SpecIInv, PTL DEF Spec, StoreIsAMap, Map!Spec
=============================================================================
