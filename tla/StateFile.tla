------------------------------- MODULE StateFile -------------------------------
(***************************************************************************)
(* One state file as internal/store writes and loads it: the write mutex,  *)
(* the temporary file, its fsync, the rename over the old file and the     *)
(* fsync of the directory, each of which can fail or be the last thing the *)
(* process does; and Load, which decides whether this process may write.   *)
(***************************************************************************)
EXTENDS Naturals

CONSTANTS Writers,   \* goroutines that save this file
          NoWriter,
          Torn,      \* a file cut short, which a power failure can expose
          Damaged,   \* a file that does not decode
          MaxMade    \* bound: how many states the program produces

ASSUME NoWriterAssumption == NoWriter \notin Writers
ASSUME ContentAssumption == Torn \notin Nat /\ Damaged \notin Nat /\ Torn # Damaged
ASSUME MadeAssumption == MaxMade \in Nat

Stages == {"idle", "locked", "snapped", "written", "flushed", "renamed"}

VARIABLES
  made,              \* how many states the program has produced, in all its lives
  mem,               \* the state in memory
  mayWrite,          \* the path is kept: Load could read or preserve the file
  up,                \* the process runs
  writeMu,           \* who holds the write mutex
  stage,             \* how far each writer's store.Save has come
  snap,              \* the snapshot each writer took
  file,              \* what the path names
  atRisk,            \* what a power failure may leave there
  acked              \* the last state whose Save returned nil

memVars == <<made, mem, mayWrite, up>>
writerVars == <<writeMu, stage, snap>>
diskVars == <<file, atRisk, acked>>
saveVars == <<memVars, writerVars, diskVars>>

FileInit ==
  /\ made = 0 /\ mem = 0 /\ mayWrite = TRUE /\ up = TRUE
  /\ writeMu = NoWriter
  /\ stage = [w \in Writers |-> "idle"]
  /\ snap = [w \in Writers |-> 0]
  /\ file = 0 /\ atRisk = {0} /\ acked = 0

Change ==
  /\ up
  /\ made < MaxMade
  /\ made' = made + 1
  /\ mem' = made + 1
  /\ UNCHANGED <<mayWrite, up, writerVars, diskVars>>

-----------------------------------------------------------------------------
(* Save, writeLocked and writeBytesLocked *)

(* The operators named Buggy... are variants of the operator that follows, each with a      *)
(* slip a change to the code could make.  No action uses them: they show that the           *)
(* properties below can fail.                                                               *)

Steps(w, from, to) == stage[w] = from /\ stage' = [stage EXCEPT ![w] = to]

BuggyLock(w) ==                       \* no mutual exclusion between two saves
  /\ up /\ mayWrite
  /\ Steps(w, "idle", "locked")
  /\ writeMu' = w
  /\ UNCHANGED <<snap, memVars, diskVars>>
Lock(w) ==
  /\ up /\ mayWrite
  /\ writeMu = NoWriter
  /\ Steps(w, "idle", "locked")
  /\ writeMu' = w
  /\ UNCHANGED <<snap, memVars, diskVars>>

\* snapshot() runs under the mutex.
Snapshot(w) ==
  /\ Steps(w, "locked", "snapped")
  /\ snap' = [snap EXCEPT ![w] = mem]
  /\ UNCHANGED <<writeMu, memVars, diskVars>>

\* CreateTemp and Write, then Sync and Close
WriteTemp(w) == Steps(w, "snapped", "written") /\ UNCHANGED <<writeMu, snap, memVars, diskVars>>
Flush(w) == Steps(w, "written", "flushed") /\ UNCHANGED <<writeMu, snap, memVars, diskVars>>

\* os.Rename: readers see the new file at once; until the directory is flushed a power
\* failure may bring the old one back.
BuggyRename(w) ==                     \* renamed before the data reached the disk
  /\ Steps(w, "written", "renamed")
  /\ file' = snap[w]
  /\ atRisk' = atRisk \cup {snap[w], Torn}
  /\ UNCHANGED <<acked, writeMu, snap, memVars>>
Rename(w) ==
  /\ Steps(w, "flushed", "renamed")
  /\ file' = snap[w]
  /\ atRisk' = atRisk \cup {snap[w]}
  /\ UNCHANGED <<acked, writeMu, snap, memVars>>

\* syncParent succeeded and Save returns nil.
BuggySyncParent(w) ==                 \* returns nil without flushing the directory
  /\ Steps(w, "renamed", "idle")
  /\ acked' = file
  /\ writeMu' = NoWriter
  /\ UNCHANGED <<file, atRisk, snap, memVars>>
SyncParent(w) ==
  /\ Steps(w, "renamed", "idle")
  /\ atRisk' = {file}
  /\ acked' = file
  /\ writeMu' = NoWriter
  /\ UNCHANGED <<file, snap, memVars>>

\* Marshalling, writing, flushing, renaming or flushing the directory failed.  After the
\* rename the error comes too late: the new file is in place.
Fail(w) ==
  /\ stage[w] \notin {"idle", "locked"}
  /\ stage' = [stage EXCEPT ![w] = "idle"]
  /\ writeMu' = NoWriter
  /\ UNCHANGED <<snap, memVars, diskVars>>

-----------------------------------------------------------------------------
(* The end of a process, and Load in the next *)

Ends == up' = FALSE /\ writeMu' = NoWriter /\ stage' = [w \in Writers |-> "idle"]

Crash == up /\ Ends /\ UNCHANGED <<made, mem, mayWrite, snap, diskVars>>

PowerFailure ==
  /\ Ends
  /\ file' \in atRisk
  /\ atRisk' = {file'}
  /\ UNCHANGED <<made, mem, mayWrite, snap, acked>>

Damage ==
  /\ ~up
  /\ file' = Damaged /\ atRisk' = {Damaged} /\ acked' = 0
  /\ UNCHANGED <<memVars, writerVars>>

LoadDecoded ==
  /\ file \in Nat
  /\ mem' = file /\ mayWrite' = TRUE
  /\ UNCHANGED diskVars

\* The file cannot be read at all, or cannot be moved aside: writes are disabled.
BuggyLoadFailed ==                    \* the caller ignores ReadFailed
  /\ file # 0
  /\ mem' = 0 /\ mayWrite' = TRUE
  /\ UNCHANGED diskVars
LoadFailed ==
  /\ file # 0
  /\ mem' = 0 /\ mayWrite' = FALSE
  /\ UNCHANGED diskVars

\* The file does not decode: it becomes path.corrupt and the process starts fresh.
LoadMovedAside ==
  /\ file \notin Nat
  /\ mem' = 0 /\ mayWrite' = TRUE
  /\ file' = 0 /\ atRisk' = {0} /\ acked' = 0

Start ==
  /\ ~up
  /\ up' = TRUE
  /\ LoadDecoded \/ LoadFailed \/ LoadMovedAside
  /\ UNCHANGED <<made, writerVars>>

FileNext ==
  \/ Change
  \/ \E w \in Writers :
       \/ Lock(w) \/ Snapshot(w) \/ WriteTemp(w) \/ Flush(w)
       \/ Rename(w) \/ SyncParent(w) \/ Fail(w)
  \/ Crash \/ PowerFailure \/ Damage \/ Start

FileSpec == FileInit /\ [][FileNext]_saveVars

-----------------------------------------------------------------------------
Contents == Nat \cup {Damaged}

\* Every variable holds the kind of value the Go code gives it; in particular a reader, now or
\* after a power failure, finds no torn file.
FileTypeOK ==
  /\ made \in Nat /\ mem \in Nat /\ mayWrite \in BOOLEAN /\ up \in BOOLEAN
  /\ writeMu \in Writers \cup {NoWriter}
  /\ stage \in [Writers -> Stages] /\ snap \in [Writers -> Nat]
  /\ file \in Contents /\ atRisk \subseteq Contents /\ acked \in Nat

\* What a Save that returned nil wrote survives every crash and power failure that follows.
AckedSurvives ==
  \A c \in atRisk \cup {file} : (c \in Nat /\ c >= acked) \/ (c = Damaged /\ acked = 0)

\* The steps of a save, its failures and the crashes add up to the promise: an older state
\* never replaces a newer one, nothing torn is ever read, and a file this process could not
\* decode or read is not overwritten.
File == INSTANCE AtomicFile WITH content <- file, risk <- atRisk
AtomicSaves == File!Spec

=============================================================================
