----------------------------- MODULE LogSinkFile -----------------------------
(***************************************************************************)
(* LogSinkFile: each process writes its log to files of its own in one     *)
(* directory, starts a new file when one is full or a write fails, and     *)
(* deletes the oldest files of all processes first.  A process holds       *)
(* mutex_ throughout Log; between processes nothing is locked.             *)
(***************************************************************************)
EXTENDS Integers, FiniteSets, FiniteSetsExt

CONSTANTS
  Procs,     \* processes that log to the directory
  MaxFiles,  \* MAX_LOG_FILE_COUNT
  MaxSize,   \* MAX_FILE_SIZE_THRESHOLD
  Lengths,   \* lengths of messages
  Fd,        \* the descriptor open gives: 0 if the process has closed stdin
  Root,      \* do the processes open read-only files for writing?
  MaxTime,   \* bound: seconds
  MaxRun     \* bound: process ids a process may have, one after the other

ASSUME LogSinkFileAssumption ==
  /\ IsFiniteSet(Procs)
  /\ MaxFiles \in Nat /\ MaxSize \in Nat \ {0} /\ MaxTime \in Nat /\ MaxRun \in Nat \ {0}
  /\ Lengths \subseteq 1 .. MaxSize - 1
  /\ Fd \in Nat /\ Root \in BOOLEAN

VARIABLES
  now,     \* the second it is
  files,   \* the directory: size and permission by name
  sinks,   \* each process's sink: currentFd_, currentFileSize_, the file open
  pc,      \* where each process is in Log
  len,     \* logLen of the message each process logs
  doomed,  \* the files DeleteOldestFile has yet to remove
  run      \* how often the process has been started: with it, its process id

vars == <<now, files, sinks, pc, len, doomed, run>>

Names == [owner : Procs, run : 1 .. MaxRun, time : 0 .. MaxTime]
NoFile == [owner |-> "none", run |-> 0, time |-> 0]
File == [size : 0 .. MaxSize, writable : BOOLEAN]
NewSink == [currentFd |-> -1, currentFileSize |-> 0, file |-> NoFile]
IsOpen(p) == sinks[p].currentFd >= 0

TypeOK ==
  /\ now \in 0 .. MaxTime
  /\ DOMAIN files \subseteq Names /\ \A f \in DOMAIN files : files[f] \in File
  /\ sinks \in [Procs -> [currentFd : {-1, Fd}, currentFileSize : 0 .. MaxSize,
                           file : Names \cup {NoFile}]]
  /\ pc \in [Procs -> {"idle", "list", "delete", "disk", "open", "write"}]
  /\ len \in [Procs -> Lengths \cup {0}]
  /\ doomed \in [Procs -> SUBSET Names]
  /\ run \in [Procs -> 1 .. MaxRun]

Init ==
  /\ now = 0
  /\ files = [f \in {} |-> 0]
  /\ sinks = [p \in Procs |-> NewSink]
  /\ pc = [p \in Procs |-> "idle"]
  /\ len = [p \in Procs |-> 0]
  /\ doomed = [p \in Procs |-> {}]
  /\ run = [p \in Procs |-> 1]

Goto(p, l) == pc' = [pc EXCEPT ![p] = l]
Set(fs, f, v) == [g \in DOMAIN fs \cup {f} |-> IF g = f THEN v ELSE fs[g]]

(* The directory after p has written n to its file, if that still has a     *)
(* name.                                                                    *)
Wrote(p, n) ==
  LET f == sinks[p].file
  IN IF f \in DOMAIN files THEN [files EXCEPT ![f].size = @ + n] ELSE files

-----------------------------------------------------------------------------
(* Mutant of Protected: the file keeps its permissions.                     *)
ProtectedNot(p, fs) == fs

(* The directory fs once p has made its file read-only, before it closes    *)
(* it.  Descriptor 0 is neither protected nor closed.                       *)
Protected(p, fs) ==
  LET f == sinks[p].file
  IN IF sinks[p].currentFd > 0 /\ f \in DOMAIN fs THEN [fs EXCEPT ![f].writable = FALSE] ELSE fs

CloseFile(p, fs) ==
  /\ sinks' = IF sinks[p].currentFd > 0 THEN [sinks EXCEPT ![p] = NewSink] ELSE sinks
  /\ files' = Protected(p, fs)

(* Mutant of Full: a file may be filled to the threshold and beyond.        *)
FullLater(p, n) == sinks[p].currentFileSize >= MaxSize

Full(p, n) == sinks[p].currentFileSize + n >= MaxSize

(* Log begins: a file the message would fill is closed.                     *)
Log(p, n) ==
  /\ pc[p] = "idle"
  /\ len' = [len EXCEPT ![p] = n]
  /\ IF Full(p, n) THEN CloseFile(p, files) ELSE UNCHANGED <<sinks, files>>
  /\ Goto(p, IF sinks'[p].currentFd < 0 THEN "list" ELSE "write")
  /\ UNCHANGED <<now, doomed, run>>

-----------------------------------------------------------------------------
(* Mutant of Excess: one file less is deleted than is in excess.            *)
ExcessLess(fs) == IF Cardinality(fs) > MaxFiles + 1 THEN Cardinality(fs) - MaxFiles - 1 ELSE 0

Excess(fs) == IF Cardinality(fs) > MaxFiles THEN Cardinality(fs) - MaxFiles ELSE 0

(* DeleteOldestFile reads the directory, whose files it sorts by the second *)
(* in their names, and finds those in excess.                               *)
ListFiles(p) ==
  /\ pc[p] = "list"
  /\ \E old \in kSubset(Excess(DOMAIN files), DOMAIN files) :
       /\ \A f \in old, g \in DOMAIN files \ old : f.time <= g.time
       /\ doomed' = [doomed EXCEPT ![p] = old]
  /\ Goto(p, "delete")
  /\ UNCHANGED <<now, files, sinks, len, run>>

(* It removes them one after the other, the oldest first, if they are still *)
(* there.                                                                   *)
DeleteFile(p) ==
  /\ pc[p] = "delete"
  /\ \E f \in doomed[p] :
       /\ \A g \in doomed[p] : f.time <= g.time
       /\ files' = [g \in DOMAIN files \ {f} |-> files[g]]
       /\ doomed' = [doomed EXCEPT ![p] = @ \ {f}]
  /\ UNCHANGED <<now, sinks, pc, len, run>>

Deleted(p) ==
  /\ pc[p] = "delete" /\ doomed[p] = {}
  /\ Goto(p, "disk")
  /\ UNCHANGED <<now, files, sinks, len, doomed, run>>

(* The directory cannot be made or has too little space: Log gives up.      *)
DiskFull(p) ==
  /\ pc[p] = "disk"
  /\ Goto(p, "idle")
  /\ UNCHANGED <<now, files, sinks, len, doomed, run>>

(* GetNewLogFilePath: the name carries the process id and the second.       *)
NewLogFilePath(p) ==
  /\ pc[p] = "disk"
  /\ sinks' = [sinks EXCEPT ![p].file = [owner |-> p, run |-> run[p], time |-> now]]
  /\ Goto(p, "open")
  /\ UNCHANGED <<now, files, len, doomed, run>>

MayOpen(f) == f \in DOMAIN files => files[f].writable \/ Root

(* open with O_CREAT and O_TRUNC.  A file that the process has closed in    *)
(* the same second is read-only: open fails and the message is dropped.     *)
OpenFile(p) ==
  /\ pc[p] = "open"
  /\ LET f == sinks[p].file IN
       IF MayOpen(f)
       THEN /\ files' = Set(files, f, [size |-> 0, writable |-> TRUE])
            /\ sinks' = [sinks EXCEPT ![p].currentFd = Fd]
            /\ Goto(p, "write")
       ELSE sinks' = [sinks EXCEPT ![p].file = NoFile] /\ Goto(p, "idle") /\ UNCHANGED files
  /\ UNCHANGED <<now, len, doomed, run>>

-----------------------------------------------------------------------------
Write(p) ==
  /\ pc[p] = "write"
  /\ files' = Wrote(p, len[p])
  /\ sinks' = [sinks EXCEPT ![p].currentFileSize = @ + len[p]]
  /\ Goto(p, "idle")
  /\ UNCHANGED <<now, len, doomed, run>>

(* write fails or writes a part of the message: the file is closed.         *)
WriteShort(p) ==
  /\ pc[p] = "write"
  /\ \E n \in 0 .. len[p] - 1 : CloseFile(p, Wrote(p, n))
  /\ Goto(p, "idle")
  /\ UNCHANGED <<now, len, doomed, run>>

-----------------------------------------------------------------------------
(* The process is started anew, with another process id.                    *)
Restart(p) ==
  /\ run[p] < MaxRun
  /\ run' = [run EXCEPT ![p] = @ + 1]
  /\ sinks' = [sinks EXCEPT ![p] = NewSink]
  /\ doomed' = [doomed EXCEPT ![p] = {}]
  /\ len' = [len EXCEPT ![p] = 0]
  /\ Goto(p, "idle")
  /\ UNCHANGED now

(* It exits, and the sink's destructor closes the file; or it dies.         *)
Exit(p) == pc[p] = "idle" /\ Restart(p) /\ files' = Protected(p, files)
Crash(p) == Restart(p) /\ UNCHANGED files

Tick == now < MaxTime /\ now' = now + 1 /\ UNCHANGED <<files, sinks, pc, len, doomed, run>>

Next ==
  \/ Tick
  \/ \E p \in Procs :
       \/ \E n \in Lengths : Log(p, n)
       \/ ListFiles(p) \/ DeleteFile(p) \/ Deleted(p) \/ DiskFull(p)
       \/ NewLogFilePath(p) \/ OpenFile(p) \/ Write(p) \/ WriteShort(p)
       \/ Exit(p) \/ Crash(p)

Spec == Init /\ [][Next]_vars

-----------------------------------------------------------------------------
(* However the processes' deletions and creations interleave, the directory *)
(* has at most one file more than MAX_LOG_FILE_COUNT for each process.      *)
FilesBounded == Cardinality(DOMAIN files) <= MaxFiles + Cardinality(Procs)

(* currentFileSize_ is the size of the file, and no file reaches            *)
(* MAX_FILE_SIZE_THRESHOLD, whatever failed before.                         *)
SizeBounded ==
  /\ \A f \in DOMAIN files : files[f].size < MaxSize
  /\ \A p \in Procs : IsOpen(p) /\ sinks[p].file \in DOMAIN files =>
       files[sinks[p].file].size = sinks[p].currentFileSize

(* What has been written stays until its file is deleted as the oldest: the *)
(* O_TRUNC of a second file in the same second does not erase the first.    *)
ContentsKept ==
  [][ \A f \in DOMAIN files \cap DOMAIN files' : files'[f].size >= files[f].size ]_vars
=============================================================================
