----------------------------- MODULE UsageFile -----------------------------
(***************************************************************************)
(* How execution/usage_store.py writes usage.json.  Every record_* method  *)
(* of UsageStore is the same triple: take the lock of the path, load the   *)
(* file, append an event and save.  The lock is a threading.RLock, one per *)
(* path and per process.  save writes usage.json.tmp, a name shared by all *)
(* writers, and renames it over usage.json.                                *)
(*                                                                         *)
(* A file is an inode; opening usage.json.tmp for writing truncates the    *)
(* inode that has the name, and a rename moves the name, so a writer whose *)
(* tmp file was renamed by another goes on writing into usage.json.  The   *)
(* contents of a file are the set of events in it, Empty when it has just  *)
(* been truncated, or Mixed when it holds the text of one writer followed  *)
(* by the tail of another's; json.loads accepts only the first.  Each      *)
(* caller records one event, itself.                                       *)
(***************************************************************************)
EXTENDS Naturals, FiniteSets

CONSTANTS
  Callers,   \* the threads that call record_*; also their events
  Procs,     \* the processes: role workers, executors, maintenance
  ProcOf,    \* caller -> its process
  Inodes,    \* enough inodes that one is always unused
  Absent,    \* no inode, no caller
  Empty,     \* contents of a truncated file
  Mixed,     \* contents with the texts of two writers
  Crashes    \* BOOLEAN: a process may be killed and started again

ASSUME ProcAssumption == ProcOf \in [Callers -> Procs]
ASSUME AbsentAssumption == Absent \notin Callers /\ Absent \notin Inodes
ASSUME ContentAssumption == \A S \in SUBSET Callers : Empty # S /\ Mixed # S
ASSUME CrashAssumption == Crashes \in BOOLEAN
ASSUME InodeAssumption ==
  IsFiniteSet(Inodes) /\ Cardinality(Inodes) > Cardinality(Callers) + 2

VARIABLES
  usage,      \* the inode named usage.json, or Absent
  tmp,        \* the inode named usage.json.tmp, or Absent
  content,    \* inode -> events in it, Empty or Mixed
  lock,       \* process -> the caller that holds its path lock, or Absent
  place,      \* caller -> its place in record_*
  data,       \* caller -> the events it loaded, with its own appended
  fd,         \* caller -> the inode it has open for writing, or Absent
  overlapped  \* history: callers whose load..rename met one of another process

fileVars == <<usage, tmp, content, lock, place, data, fd, overlapped>>

Places == {"idle", "load", "open", "write", "rename", "returned", "raised"}

FileTypeOK ==
  /\ usage \in Inodes \cup {Absent}
  /\ tmp \in Inodes \cup {Absent}
  /\ content \in [Inodes -> (SUBSET Callers) \cup {Empty, Mixed}]
  /\ lock \in [Procs -> Callers \cup {Absent}]
  /\ place \in [Callers -> Places]
  /\ data \in [Callers -> SUBSET Callers]
  /\ fd \in [Callers -> Inodes \cup {Absent}]
  /\ overlapped \in SUBSET Callers

\* A fresh store: load() of a missing file is the empty ledger.
FileInit ==
  /\ usage = Absent
  /\ tmp = Absent
  /\ content = [i \in Inodes |-> {}]
  /\ lock = [p \in Procs |-> Absent]
  /\ place = [c \in Callers |-> "idle"]
  /\ data = [c \in Callers |-> {}]
  /\ fd = [c \in Callers |-> Absent]
  /\ overlapped = {}

----------------------------------------------------------------------------
\* json.loads accepts what is in usage.json.
Readable == usage # Absent => content[usage] \notin {Empty, Mixed}

\* Callers between their load and their rename.
InTriple(c) == place[c] \in {"open", "write", "rename"}

Unlock(c) == lock' = [lock EXCEPT ![ProcOf[c]] = Absent]

\* Mutant: the lock is taken and released by hand, and not on an exception.
RaiseKeepsLock(c) ==
  /\ place' = [place EXCEPT ![c] = "raised"]
  /\ UNCHANGED <<usage, tmp, content, lock, data, fd, overlapped>>

\* An exception leaves the with block: the lock is released, the call raises.
Raise(c) ==
  /\ place' = [place EXCEPT ![c] = "raised"]
  /\ Unlock(c)
  /\ UNCHANGED <<usage, tmp, content, data, fd, overlapped>>

\* _exclusive: the RLock of this path in this process.
Exclusive(c) ==
  /\ place[c] = "idle" /\ lock[ProcOf[c]] = Absent
  /\ place' = [place EXCEPT ![c] = "load"]
  /\ lock' = [lock EXCEPT ![ProcOf[c]] = c]
  /\ UNCHANGED <<usage, tmp, content, data, fd, overlapped>>

\* Mutant: load starts afresh although the file is there.
LedgerAfresh == {}

\* load: a missing file is the empty ledger.
Ledger == IF usage = Absent THEN {} ELSE content[usage]

\* load, and the event appended to what was loaded.
Load(c) ==
  LET met == {d \in Callers : InTriple(d) /\ ProcOf[d] # ProcOf[c]} IN
  /\ place[c] = "load"
  /\ Readable
  /\ data' = [data EXCEPT ![c] = Ledger \cup {c}]
  /\ place' = [place EXCEPT ![c] = "open"]
  /\ overlapped' = overlapped \cup met \cup (IF met = {} THEN {} ELSE {c})
  /\ UNCHANGED <<usage, tmp, content, lock, fd>>

\* json.loads raises JSONDecodeError.
LoadFails(c) ==
  /\ place[c] = "load"
  /\ ~Readable
  /\ Raise(c)

\* _check_disk_space raises OSError: nothing has been written.
DiskCritical(c) == place[c] = "open" /\ Raise(c)

\* Mutant: the ledger is written in place, without a temporary file.
OpenInPlace(c) ==
  /\ place[c] = "open"
  /\ place' = [place EXCEPT ![c] = "write"]
  /\ \E i \in Inodes :
       /\ IF usage # Absent THEN i = usage ELSE \A d \in Callers : fd[d] # i
       /\ tmp' = i
       /\ fd' = [fd EXCEPT ![c] = i]
       /\ content' = [content EXCEPT ![i] = Empty]
  /\ UNCHANGED <<usage, lock, data, overlapped>>

\* tmp.write_text opens usage.json.tmp and truncates it.
OpenTmp(c) ==
  /\ place[c] = "open"
  /\ place' = [place EXCEPT ![c] = "write"]
  /\ \E i \in Inodes :
       /\ IF tmp # Absent
          THEN i = tmp
          ELSE i # usage /\ \A d \in Callers : fd[d] # i
       /\ tmp' = i
       /\ fd' = [fd EXCEPT ![c] = i]
       /\ content' = [content EXCEPT ![i] = Empty]
  /\ UNCHANGED <<usage, lock, data, overlapped>>

\* The text is written and the file closed.  If another caller has written the
\* same inode since we truncated it, a tail of its text may stay behind ours.
WriteTmp(c) ==
  /\ place[c] = "write"
  /\ place' = [place EXCEPT ![c] = "rename"]
  /\ fd' = [fd EXCEPT ![c] = Absent]
  /\ \/ content' = [content EXCEPT ![fd[c]] = data[c]]
     \/ content[fd[c]] # Empty /\ content' = [content EXCEPT ![fd[c]] = Mixed]
  /\ UNCHANGED <<usage, tmp, lock, data, overlapped>>

\* tmp.replace(usage.json), and the call returns.
Rename(c) ==
  /\ place[c] = "rename" /\ tmp # Absent
  /\ usage' = tmp
  /\ tmp' = Absent
  /\ place' = [place EXCEPT ![c] = "returned"]
  /\ Unlock(c)
  /\ UNCHANGED <<content, data, fd, overlapped>>

\* Another writer has renamed the shared name away: FileNotFoundError.
RenameFails(c) == place[c] = "rename" /\ tmp = Absent /\ Raise(c)

\* A process is killed; what it was recording is abandoned, and it starts again.
Crash(p) ==
  /\ Crashes
  /\ lock[p] # Absent
  /\ lock' = [lock EXCEPT ![p] = Absent]
  /\ place' = [place EXCEPT ![lock[p]] = "raised"]
  /\ fd' = [fd EXCEPT ![lock[p]] = Absent]
  /\ UNCHANGED <<usage, tmp, content, data, overlapped>>

Record(c) ==
  \/ Exclusive(c) \/ Load(c) \/ LoadFails(c) \/ DiskCritical(c)
  \/ OpenTmp(c) \/ WriteTmp(c) \/ Rename(c) \/ RenameFails(c)

FileNext == (\E c \in Callers : Record(c)) \/ (\E p \in Procs : Crash(p))

FileSpec == FileInit /\ [][FileNext]_fileVars

\* A thread that holds the lock runs on; one that waits for it gets it.
FileFairSpec == FileSpec /\ \A c \in Callers : WF_fileVars(Record(c))

----------------------------------------------------------------------------
(* Properties.                                                             *)

\* usage.json is a JSON document at every moment: "Atomic write: write to a
\* temp file then rename" (save).  A reader never meets a torn file.
LedgerWhole == Readable

\* As long as no two processes overlap, every record_* call that returned is in
\* the ledger and the ledger is readable, whatever the threads of one process do
\* and wherever a process is killed: the lock of the path makes load-modify-save
\* atomic, and the rename hides an unfinished save.
LedgerKept ==
  overlapped = {} =>
    Readable /\ \A c \in Callers : place[c] = "returned" => c \in Ledger

\* What is left when they do: a call that itself overlapped no call of another
\* process is in every readable ledger from then on.
IsolatedEventKept ==
  \A c \in Callers \ overlapped :
    place[c] = "returned" /\ Readable => c \in Ledger

\* One lock holder per process, and only it is inside the triple.
LockHolder ==
  \A c \in Callers :
    place[c] \in {"load", "open", "write", "rename"} <=> lock[ProcOf[c]] = c

\* Every record_* call ends: the path lock is always released, on the
\* exception paths too.
RecordEnds == \A c \in Callers : <>(place[c] \in {"returned", "raised"})
============================================================================
