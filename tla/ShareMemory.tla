----------------------------- MODULE ShareMemory -----------------------------
(***************************************************************************)
(* ShareMemory: processes that construct, use and destroy objects of one   *)
(* name share a System V segment, and guard its creation, their accesses   *)
(* and its removal by one named POSIX semaphore.                           *)
(*                                                                         *)
(* The semaphore and the segment outlive the processes: sem_unlink is      *)
(* called with fullName_, which is empty, so the semaphore is never        *)
(* removed, and a process that dies leaves both as they are.               *)
(***************************************************************************)
EXTENDS Integers, FiniteSets

CONSTANTS
  Procs,     \* processes, each with at most one object of the name
  Segments,  \* identifiers shmget can give a segment
  NONE,      \* no segment: shmid_ -1, shareMemory_ nullptr
  Zeroed,    \* the content of zeroed memory; other contents are their writers
  GivesUp,   \* may sem_timedwait return without the semaphore?
  Crashes    \* may a process die?

ASSUME ShareMemoryAssumption ==
  /\ IsFiniteSet(Procs) /\ Procs # {}
  /\ NONE \notin Segments
  /\ Zeroed \notin Procs
  /\ GivesUp \in BOOLEAN /\ Crashes \in BOOLEAN

VARIABLES
  sem,      \* the value of the semaphore
  pc,       \* where each process is
  shmid,    \* shmid_ of each process's object
  mem,      \* the segment each process has attached
  current,  \* the segment the key names
  content   \* of the segments that exist

vars == <<sem, pc, shmid, mem, current, content>>

Waiting == {"ctorWait", "useWait", "dtorWait"}
Inside  == {"get", "attach", "stat", "zero", "ctorPost", "use",
            "detach", "dtorStat", "remove", "dtorPost"}

(* Where SemLock and SemUnLock lead to.                                     *)
Entered == [ctorWait |-> "get", useWait |-> "use", dtorWait |-> "detach"]
Left    == [ctorPost |-> "idle", use |-> "idle", dtorPost |-> "out"]

Constructed(p) == pc[p] \in {"idle", "useWait", "use", "dtorWait"}
Attached(s) == {p \in Procs : mem[p] = s}
Exists(s) == s \in DOMAIN content

TypeOK ==
  /\ sem \in 0 .. Cardinality(Procs)
  /\ pc \in [Procs -> Waiting \cup Inside \cup {"out", "idle"}]
  /\ shmid \in [Procs -> Segments \cup {NONE}]
  /\ mem \in [Procs -> Segments \cup {NONE}]
  /\ current \in Segments \cup {NONE}
  /\ DOMAIN content \subseteq Segments
  /\ \A s \in DOMAIN content : content[s] \in Procs \cup {Zeroed}

Init ==
  /\ sem = 1
  /\ pc = [p \in Procs |-> "out"]
  /\ shmid = [p \in Procs |-> NONE]
  /\ mem = [p \in Procs |-> NONE]
  /\ current = NONE
  /\ content = [s \in {} |-> Zeroed]

Goto(p, l) == pc' = [pc EXCEPT ![p] = l]
Without(s) == [x \in DOMAIN content \ {s} |-> content[x]]

-----------------------------------------------------------------------------
(* The constructor and the destructor begin, or a caller wants to use the   *)
(* memory: SemLock is called.                                               *)
Begin(p) ==
  /\ \/ pc[p] = "out" /\ Goto(p, "ctorWait")
     \/ pc[p] = "idle" /\ mem[p] # NONE /\ Goto(p, "useWait")
     \/ pc[p] = "idle" /\ Goto(p, "dtorWait")
  /\ UNCHANGED <<sem, shmid, mem, current, content>>

(* Mutant of SemLock: the semaphore is not taken.                           *)
SemLockWithout(p) ==
  /\ pc[p] \in Waiting /\ sem > 0
  /\ Goto(p, Entered[pc[p]])
  /\ UNCHANGED <<sem, shmid, mem, current, content>>

SemLock(p) ==
  /\ pc[p] \in Waiting /\ sem > 0
  /\ sem' = sem - 1
  /\ Goto(p, Entered[pc[p]])
  /\ UNCHANGED <<shmid, mem, current, content>>

(* Mutant of SemLockGivesUp: who has waited in vain waits again.            *)
SemLockRetries(p) ==
  /\ GivesUp
  /\ pc[p] \in Waiting
  /\ UNCHANGED vars

(* sem_timedwait fails, after five minutes or for a signal; SemLock logs at *)
(* most, and its caller goes on as if it held the semaphore.                *)
SemLockGivesUp(p) ==
  /\ GivesUp
  /\ pc[p] \in Waiting
  /\ Goto(p, Entered[pc[p]])
  /\ UNCHANGED <<sem, shmid, mem, current, content>>

(* The post that follows, held or not.  A semaphore above the number of     *)
(* processes makes nobody wait, so that is where its value stops.           *)
SemUnLock(p) ==
  /\ pc[p] \in DOMAIN Left
  /\ sem' = IF sem < Cardinality(Procs) THEN sem + 1 ELSE sem
  /\ Goto(p, Left[pc[p]])
  /\ UNCHANGED <<shmid, mem, current, content>>

-----------------------------------------------------------------------------
(* CreateShareMemory: shmget makes a segment, zeroed, when the key has      *)
(* none.  It may fail, and so may shmat; the object has no memory then.     *)
Get(p) ==
  /\ pc[p] = "get"
  /\ \/ /\ current # NONE
        /\ shmid' = [shmid EXCEPT ![p] = current]
        /\ Goto(p, "attach")
        /\ UNCHANGED <<current, content>>
     \/ /\ current = NONE
        /\ \E s \in Segments :
             /\ ~Exists(s) /\ \A q \in Procs : shmid[q] # s
             /\ shmid' = [shmid EXCEPT ![p] = s]
             /\ current' = s
             /\ content' = [x \in DOMAIN content \cup {s} |->
                              IF x = s THEN Zeroed ELSE content[x]]
        /\ Goto(p, "attach")
     \/ /\ shmid' = [shmid EXCEPT ![p] = NONE]
        /\ Goto(p, "ctorPost")
        /\ UNCHANGED <<current, content>>
  /\ UNCHANGED <<sem, mem>>

Attach(p) ==
  /\ pc[p] = "attach"
  /\ \/ /\ Exists(shmid[p])
        /\ mem' = [mem EXCEPT ![p] = shmid[p]]
        /\ Goto(p, "stat")
     \/ /\ Goto(p, "ctorPost")
        /\ UNCHANGED mem
  /\ UNCHANGED <<sem, shmid, current, content>>

(* Mutant of Stat: who attaches second zeroes the memory as well.           *)
StatZeroesAlways(p) ==
  /\ pc[p] = "stat"
  /\ Goto(p, "zero")
  /\ UNCHANGED <<sem, shmid, mem, current, content>>

(* Only who finds nobody else attached zeroes what a former user may have   *)
(* left.                                                                    *)
Stat(p) ==
  /\ pc[p] = "stat"
  /\ Goto(p, IF Attached(shmid[p]) = {p} THEN "zero" ELSE "ctorPost")
  /\ UNCHANGED <<sem, shmid, mem, current, content>>

Zero(p) ==
  /\ pc[p] = "zero"
  /\ content' = [content EXCEPT ![mem[p]] = Zeroed]
  /\ Goto(p, "ctorPost")
  /\ UNCHANGED <<sem, shmid, mem, current>>

(* A caller writes to the memory between its SemLock and SemUnLock.         *)
Write(p) ==
  /\ pc[p] = "use"
  /\ content' = [content EXCEPT ![mem[p]] = p]
  /\ UNCHANGED <<sem, pc, shmid, mem, current>>

-----------------------------------------------------------------------------
(* A segment removed from its key vanishes with its last user.              *)
Detached(p) ==
  /\ mem' = [mem EXCEPT ![p] = NONE]
  /\ content' = IF mem[p] # current /\ Attached(mem[p]) = {p}
                THEN Without(mem[p]) ELSE content

(* CleanUpShm: shmdt, which fails without memory.                           *)
Detach(p) ==
  /\ pc[p] = "detach"
  /\ Detached(p)
  /\ Goto(p, "dtorStat")
  /\ UNCHANGED <<sem, shmid, current>>

(* Mutant of DtorStat: the segment is removed under those who use it.       *)
DtorStatRemoves(p) ==
  /\ pc[p] = "dtorStat"
  /\ Goto(p, IF shmid[p] # NONE THEN "remove" ELSE "dtorPost")
  /\ UNCHANGED <<sem, shmid, mem, current, content>>

(* The last one removes the segment.                                        *)
DtorStat(p) ==
  /\ pc[p] = "dtorStat"
  /\ Goto(p, IF shmid[p] # NONE /\ Attached(shmid[p]) = {} THEN "remove" ELSE "dtorPost")
  /\ UNCHANGED <<sem, shmid, mem, current, content>>

(* shmctl IPC_RMID: the key names no segment any more; a user who has come  *)
(* in the meantime keeps the segment.                                       *)
Remove(p) ==
  /\ pc[p] = "remove"
  /\ current' = IF current = shmid[p] THEN NONE ELSE current
  /\ content' = IF Attached(shmid[p]) = {} THEN Without(shmid[p]) ELSE content
  /\ Goto(p, "dtorPost")
  /\ UNCHANGED <<sem, shmid, mem>>

(* The process dies: the system detaches its segment, and nothing else.     *)
Crash(p) ==
  /\ Crashes
  /\ pc[p] # "out"
  /\ Detached(p)
  /\ shmid' = [shmid EXCEPT ![p] = NONE]
  /\ Goto(p, "out")
  /\ UNCHANGED <<sem, current>>

-----------------------------------------------------------------------------
(* The steps a process takes on its own once it has begun.                  *)
Work(p) ==
  \/ SemLock(p) \/ SemLockGivesUp(p) \/ SemUnLock(p)
  \/ Get(p) \/ Attach(p) \/ Stat(p) \/ Zero(p)
  \/ Detach(p) \/ DtorStat(p) \/ Remove(p)

Next == \E p \in Procs : Begin(p) \/ Work(p) \/ Write(p) \/ Crash(p)

Spec == Init /\ [][Next]_vars

(* A process that has begun goes on, and sem_timedwait comes to an end.     *)
FairSpec == Spec /\ \A p \in Procs : WF_vars(Work(p))

-----------------------------------------------------------------------------
(* Two processes are never both between SemLock and SemUnLock.              *)
MutualExclusion ==
  \A p, q \in Procs : pc[p] \in Inside /\ pc[q] \in Inside => p = q

(***************************************************************************)
(* All processes whose constructor is through share one memory, the one    *)
(* the next process will get as well, although the last of them to leave   *)
(* removes the segment and the next to come makes a new one.               *)
(***************************************************************************)
OneMemory ==
  \A p \in Procs : Constructed(p) /\ mem[p] # NONE => mem[p] = current

(* What one process has written is not wiped while it or another one that   *)
(* has been constructed uses the memory.                                    *)
NothingWiped ==
  [][ \A p \in Procs :
        Constructed(p) /\ mem[p] # NONE /\ content[mem[p]] # Zeroed =>
          mem[p] \in DOMAIN content' /\ content'[mem[p]] # Zeroed ]_vars

(* Whoever begins to construct, to use or to destroy gets through (or       *)
(* dies), even when another process died with the semaphore.                *)
GetsThrough ==
  \A p \in Procs : pc[p] \in Waiting \cup Inside ~> pc[p] \in {"idle", "out"}
=============================================================================
