------------------------------ MODULE VaultIndex ------------------------------
(***************************************************************************)
(* The index of holders and validators (vaultIndex.ts), scanned from the   *)
(* vault's logs in windows of chunks, kept in memory, written to a file    *)
(* now and then and loaded from it after a restart.  yield.ts 159-176 uses *)
(* it while the scan goes on.                                              *)
(*                                                                         *)
(* What a block logs is of no interest, only whether it was taken in: the  *)
(* index holds the numbers of the blocks whose logs it has.  The vault was *)
(* deployed in block 1.                                                    *)
(***************************************************************************)
EXTENDS Integers, FiniteSets, FiniteSetsExt

CONSTANTS
    Chunk, Concurrency,     \* blocks in a request, requests in a window
    Askers,                \* requests that may want the index at a time
    LastBlock, IndexCuts    \* bounds: of the chain, of failures and crashes

ASSUME IndexAssumption ==
    /\ {Chunk, Concurrency} \subseteq Nat \ {0}
    /\ {LastBlock, IndexCuts} \subseteq Nat /\ IsFiniteSet(Askers)

VARIABLES
    chain,          \* the newest block
    file,           \* the cache on disk: an index, Unreadable, or none (also Unreadable)
    index,          \* the objects in memory: one per caller that loaded one
    current,        \* the object the map holds, or NoObject
    caller,         \* where each caller stands in vaultIndex()
    job,            \* the one scan that runs (running)
    indexCuts       \* bound only

indexVars == <<chain, file, index, current, caller, job, indexCuts>>

Scratch    == [syncedTo |-> 0, blocks |-> {}, complete |-> FALSE]
Unreadable == [Scratch EXCEPT !.syncedTo = -1]
NoObject   == "none"
NoJob      == [at |-> "idle", object |-> NoObject, head |-> 0, written |-> Scratch]

IndexInit ==
    /\ chain \in 0 .. LastBlock
    /\ file = Unreadable
    /\ index = [c \in Askers |-> Scratch]
    /\ current = NoObject
    /\ caller = [c \in Askers |-> "out"]
    /\ job = NoJob
    /\ indexCuts = IndexCuts

-----------------------------------------------------------------------------
(* load: what the file holds, or from scratch when it does not parse.      *)
Loaded == IF file = Unreadable THEN Scratch ELSE file

(* One scan at a time, on the object the caller has just been given.       *)
StartJob(object) ==
    job' = IF job = NoJob THEN [NoJob EXCEPT !.at = "head", !.object = object] ELSE job

(* vaultIndex() while the map holds an index.                              *)
Use(c) ==
    /\ caller[c] = "out" /\ current # NoObject
    /\ StartJob(current)
    /\ UNCHANGED <<chain, file, index, current, caller, indexCuts>>

(* The first callers load it, each for itself: there is an await between   *)
(* the look at the map and the write to it.                                *)
Load(c) ==
    /\ caller[c] = "out" /\ current = NoObject
    /\ caller' = [caller EXCEPT ![c] = "loaded"]
    /\ index' = [index EXCEPT ![c] = Loaded]
    /\ UNCHANGED <<chain, file, current, job, indexCuts>>

Install(c) ==
    /\ caller[c] = "loaded"
    /\ caller' = [caller EXCEPT ![c] = "out"]
    /\ current' = c
    /\ StartJob(c)
    /\ UNCHANGED <<chain, file, index, indexCuts>>

-----------------------------------------------------------------------------
ReadHead ==
    /\ job.at = "head"
    /\ job' = [job EXCEPT !.at = "scan", !.head = chain]
    /\ UNCHANGED <<chain, file, index, current, caller, indexCuts>>

(* The requests of one window.                                             *)
Ranges(synced, head) ==
    {LET from == synced + 1 + i * Chunk
         to   == from + Chunk - 1
     IN  [from |-> from, to |-> IF to > head THEN head ELSE to] :
        i \in {j \in 0 .. Concurrency - 1 : synced + j * Chunk < head}}

Known == IF job.object = NoObject THEN Scratch ELSE index[job.object]

Scanned_as_chunk_by_chunk(ranges) ==
    [Known EXCEPT !.syncedTo = Max({r.to : r \in ranges}),
                  !.blocks = @ \cup (CHOOSE r \in ranges : TRUE).from .. (CHOOSE r \in ranges : TRUE).to]

(* A node answers with the logs it has: none for blocks it does not have.  *)
Logged(ranges) == {b \in 1 .. chain : \E r \in ranges : b \in r.from .. r.to}

(* The window is applied as a whole once all of its requests are answered. *)
Scanned(ranges) ==
    [Known EXCEPT !.syncedTo = Max({r.to : r \in ranges}), !.blocks = @ \cup Logged(ranges)]

(* After a window the index may be due for a save (10 seconds).            *)
Window ==
    /\ job.at = "scan" /\ Known.syncedTo < job.head
    /\ index' = [index EXCEPT ![job.object] = Scanned(Ranges(Known.syncedTo, job.head))]
    /\ \E next \in {"scan", "save"} : job' = [job EXCEPT !.at = next]
    /\ UNCHANGED <<chain, file, current, caller, indexCuts>>

ReachHead ==
    /\ job.at = "scan" /\ Known.syncedTo >= job.head
    /\ index' = [index EXCEPT ![job.object].complete = TRUE]
    /\ job' = [job EXCEPT !.at = "lastSave"]
    /\ UNCHANGED <<chain, file, current, caller, indexCuts>>

(* writeFile empties the file before it fills it.                          *)
BeginSave ==
    /\ job.at \in {"save", "lastSave"}
    /\ file' = Unreadable
    /\ job' = [job EXCEPT !.at = IF @ = "save" THEN "write" ELSE "lastWrite",
                          !.written = Known]
    /\ UNCHANGED <<chain, index, current, caller, indexCuts>>

EndSave ==
    /\ job.at \in {"write", "lastWrite"}
    /\ file' = job.written
    /\ job' = IF job.at = "write" THEN [job EXCEPT !.at = "scan", !.written = Scratch] ELSE NoJob
    /\ UNCHANGED <<chain, index, current, caller, indexCuts>>

AfterFailure_as_still_running == [job EXCEPT !.at = "failed"]
AfterFailure == NoJob

(* A request that failed six times, or a write that failed: the scan ends. *)
JobFails ==
    /\ job.at \in {"head", "scan", "write", "lastWrite"} /\ indexCuts > 0
    /\ indexCuts' = indexCuts - 1
    /\ job' = AfterFailure
    /\ UNCHANGED <<chain, file, index, current, caller>>

IndexCrash ==
    /\ indexCuts > 0
    /\ indexCuts' = indexCuts - 1
    /\ current' = NoObject /\ job' = NoJob
    /\ caller' = [c \in Askers |-> "out"]
    /\ UNCHANGED <<chain, file, index>>

NewBlock ==
    /\ chain < LastBlock /\ chain' = chain + 1
    /\ UNCHANGED <<file, index, current, caller, job, indexCuts>>

IndexCall == \E c \in Askers : Use(c) \/ Load(c) \/ Install(c)
IndexWork == ReadHead \/ Window \/ ReachHead \/ BeginSave \/ EndSave

IndexNext == IndexCall \/ IndexWork \/ JobFails \/ IndexCrash \/ NewBlock

IndexSpec == IndexInit /\ [][IndexNext]_indexVars

(* Requests for the yield go on, and so does the scan they start.          *)
IndexFairSpec == IndexSpec /\ WF_indexVars(IndexCall) /\ WF_indexVars(IndexWork)

-----------------------------------------------------------------------------
(* No index, in memory or on disk, claims a block it has not taken in:     *)
(* over failed windows, a torn file, two callers who loaded at a time and  *)
(* a restart, a scan may be repeated but never skips (24-25, 92-106).      *)
IndexSkipsNothing ==
    /\ \A c \in Askers : 1 .. index[c].syncedTo \subseteq index[c].blocks
    /\ file # Unreadable => 1 .. file.syncedTo \subseteq file.blocks

(* What vaultIndex() hands out.                                            *)
HandedOut == IF current = NoObject THEN Scratch ELSE index[current]

(* As long as somebody asks: once the chain rests, every block is in the   *)
(* index that is handed out, and stays there (117-140).                    *)
IndexCatchesUp == <>[](1 .. chain \subseteq HandedOut.blocks)
=============================================================================
