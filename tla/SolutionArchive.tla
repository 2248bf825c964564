-------------------------- MODULE SolutionArchive --------------------------
(***************************************************************************)
(* The solution store between its clients: solvers add solutions, the      *)
(* postprocessor reads them, a script overwrites one, the step size        *)
(* control takes one back, and the user clears, saves and opens the        *)
(* problem.  The archive (.ags) is a copy of the directory of the          *)
(* computation; a store that is opened from it starts with an empty cache. *)
(***************************************************************************)
EXTENDS SolutionStore

VARIABLE archive    \* the files of the last saved problem

vars == <<storeVars, archive>>

EmptyArchive == [runtimeJson |-> None, meshFiles |-> Nowhere, dataFiles |-> Nowhere]

Init == StoreInit /\ archive = EmptyArchive

\* a solver stores a solution under a new identifier
SolverAdds(id, s, runTime) ==
    /\ ~Contains(id)
    /\ MayAdd(id)
    /\ AddSolution(id, s, runTime)
    /\ UNCHANGED archive

\* PySolution::setSolution: multiArray has just put the solution into the
\* cache, only its vector is exchanged.
ScriptReplaces(id, vector) ==
    /\ Contains(id)
    /\ id \in Cached
    /\ ReplaceSolution(id, [mesh |-> dealCache[id].mesh, vector |-> vector])
    /\ UNCHANGED archive

Read(id) == MultiArray(id) /\ UNCHANGED archive

StepRefused(id) == RemoveSolution(id) /\ UNCHANGED archive

ClearSolution == ClearStore /\ UNCHANGED archive

\* Problem::writeProblemToFile compresses the directory, or problem.json only.
WriteProblemToFile(onlyProblemFile) ==
    /\ archive' = IF onlyProblemFile THEN EmptyArchive
                  ELSE [runtimeJson |-> runtimeJson,
                        meshFiles |-> meshFiles, dataFiles |-> dataFiles]
    /\ UNCHANGED storeVars

\* Problem::readProblemFromAgs clears the computations, extracts the
\* directory and lets a new store load runtime.json.
ReadProblemFromAgs ==
    /\ meshFiles' = archive.meshFiles
    /\ dataFiles' = archive.dataFiles
    /\ runtimeJson' = archive.runtimeJson
    /\ multiSolutions' = IF archive.runtimeJson = None THEN Never
                         ELSE archive.runtimeJson.solutions
    /\ runTimeDetails' = IF archive.runtimeJson = None THEN Nowhere
                         ELSE archive.runtimeJson.runTimes
    /\ dealCache' = Nowhere
    /\ cacheIDOrder' = Never
    /\ UNCHANGED archive

Next ==
    \/ \E id \in SolutionIDs, s \in Solutions, runTime \in RunTimes :
          SolverAdds(id, s, runTime)
    \/ \E id \in SolutionIDs, vector \in Vectors : ScriptReplaces(id, vector)
    \/ \E id \in SolutionIDs : Read(id)
    \/ \E id \in SolutionIDs : StepRefused(id)
    \/ ClearSolution
    \/ \E onlyProblemFile \in BOOLEAN : WriteProblemToFile(onlyProblemFile)
    \/ ReadProblemFromAgs

Spec == Init /\ [][Next]_vars

-----------------------------------------------------------------------------
TypeOK ==
    /\ multiSolutions \in [SolutionIDs -> Nat]
    /\ runTimeDetails \in [SolutionIDs -> RunTimes \cup {None}]
    /\ dealCache \in [SolutionIDs -> Solutions \cup {None}]
    /\ cacheIDOrder \in [SolutionIDs -> Nat]
    /\ meshFiles \in [SolutionIDs -> Meshes \cup {None}]
    /\ dataFiles \in [SolutionIDs -> Solutions \cup {None}]
    /\ runtimeJson \in RunTimeJsons \cup {None}
    /\ archive \in [runtimeJson : RunTimeJsons \cup {None},
                    meshFiles : [SolutionIDs -> Meshes \cup {None}],
                    dataFiles : [SolutionIDs -> Solutions \cup {None}]]

(***************************************************************************)
(* A solution is listed once, its files exist and were written on one mesh: the *)
(* copied .msh file of addSolution fits the .dof and .sol files beside it, *)
(* so a flushed solution can be loaded again (the three asserts of         *)
(* multiArray).  No file is left of a solution that is not listed, since   *)
(* QFile::copy would keep it.                                              *)
(***************************************************************************)
FilesOf(list, mesh, data) ==
    \A id \in SolutionIDs :
        IF list[id] > 0
        THEN list[id] = 1 /\ data[id] # None /\ mesh[id] = data[id].mesh
        ELSE data[id] = None /\ mesh[id] = None

FilesMatchIndex == FilesOf(multiSolutions, meshFiles, dataFiles)

(***************************************************************************)
(* The cache holds listed solutions only, each one as it is on the disk:   *)
(* flushing an entry loses nothing, and clear() leaves the cache empty (its *)
(* third assert).  Every cached entry is in the order list, where flushing *)
(* looks for it.                                                           *)
(***************************************************************************)
CacheCoherent ==
    \A id \in Cached :
        /\ multiSolutions[id] > 0
        /\ dealCache[id] = dataFiles[id]
        /\ cacheIDOrder[id] > 0

(***************************************************************************)
(* runtime.json lists exactly what the store lists, with the same details, *)
(* whenever a save may copy the directory: also after a refused step took  *)
(* a solution back and after clear() deleted the file.                     *)
(***************************************************************************)
JsonOf(list, details, json) ==
    IF json = None THEN \A id \in SolutionIDs : list[id] = 0
    ELSE json.solutions = list /\ json.runTimes = details

JsonMatchesIndex ==
    /\ JsonOf(multiSolutions, runTimeDetails, runtimeJson)
    /\ \A id \in SolutionIDs : multiSolutions[id] > 0 <=> runTimeDetails[id] # None

(***************************************************************************)
(* An archive can always be opened: its runtime.json, when there is one,   *)
(* lists solutions whose files are all in the archive, with their details. *)
(***************************************************************************)
ArchiveIsComplete ==
    LET json == archive.runtimeJson
        list == IF json = None THEN Never ELSE json.solutions
    IN  /\ FilesOf(list, archive.meshFiles, archive.dataFiles)
        /\ json # None =>
              \A id \in SolutionIDs : list[id] > 0 <=> json.runTimes[id] # None

(***************************************************************************)
(* What the store promises: a map from identifiers to solutions that a     *)
(* save and an open carry over.  A reader gets the cached object or, if    *)
(* there is none, what the files hold; flushing and reloading never show.  *)
(***************************************************************************)
Stored == [id \in SolutionIDs |->
    IF ~Contains(id) THEN None
    ELSE IF dealCache[id] # None THEN dealCache[id] ELSE Loaded(id)]

Saved == [id \in SolutionIDs |->
    IF archive.runtimeJson = None THEN None
    ELSE IF archive.runtimeJson.solutions[id] = 0 THEN None
    ELSE [mesh |-> archive.meshFiles[id], vector |-> archive.dataFiles[id].vector]]

Map == INSTANCE SolutionMap WITH
    NoSolution <- None, stored <- Stored, saved <- Saved

StoreIsAMap == Map!Spec
=============================================================================
