-------------------------- MODULE ShareMemoryProofs --------------------------
(***************************************************************************)
(* Proofs about ShareMemory, for any number of processes and segments.     *)
(* Types hold of every behaviour.  The safety properties hold as long as   *)
(* no wait for the semaphore times out; each follows from SInv, which says *)
(* what the process inside may rely on between one step and the next.      *)
(***************************************************************************)
EXTENDS ShareMemory, FiniteSetTheorems, TLAPS

(* The semaphore is 1 or held, by at most one process.                      *)
SemInv ==
  /\ sem \in {0, 1}
  /\ sem = 1 => \A p \in Procs : pc[p] \notin Inside
  /\ MutualExclusion

(* Whoever has memory has the segment of its object, and the key's.         *)
MemInv ==
  \A p \in Procs : mem[p] # NONE =>
    /\ mem[p] = shmid[p] /\ mem[p] = current
    /\ pc[p] \in {"stat", "zero", "ctorPost", "idle", "useWait", "use", "dtorWait", "detach"}

(* What the process inside has found out still holds at its next step.      *)
InsideInv ==
  \A p \in Procs :
    /\ pc[p] = "attach" => shmid[p] = current
    /\ pc[p] = "stat"   => mem[p] # NONE
    /\ pc[p] = "zero"   => mem[p] # NONE /\ Attached(shmid[p]) = {p}
    /\ pc[p] = "remove" => shmid[p] # NONE /\ Attached(shmid[p]) = {}

(* The segment the key names exists.                                        *)
CurrentInv == current # NONE => Exists(current)

SInv == TypeOK /\ SemInv /\ MemInv /\ InsideInv /\ CurrentInv

-----------------------------------------------------------------------------
(* Every step keeps the types, whether or not waits time out.               *)
LEMMA TypeStep == TypeOK /\ [Next]_vars => TypeOK'
  <1> SUFFICES ASSUME TypeOK, [Next]_vars PROVE TypeOK'
    OBVIOUS
  <1>0. Cardinality(Procs) \in Nat
    BY ShareMemoryAssumption, FS_CardinalityType
  <1>1. ASSUME NEW p \in Procs, Begin(p) PROVE TypeOK'
    BY <1>1 DEF TypeOK, Begin, Goto, Waiting, Inside
  <1>2. ASSUME NEW p \in Procs, SemLock(p) \/ SemLockGivesUp(p) \/ SemUnLock(p) PROVE TypeOK'
    BY <1>0, <1>2 DEF TypeOK, SemLock, SemLockGivesUp, SemUnLock, Goto, Entered, Left, Waiting, Inside
  <1>3. ASSUME NEW p \in Procs, Get(p) PROVE TypeOK'
    <2>1. pc' \in [Procs -> Waiting \cup Inside \cup {"out", "idle"}]
      <3>1. Goto(p, "attach") \/ Goto(p, "ctorPost")
        BY <1>3 DEF Get
      <3> QED
        BY <3>1 DEF TypeOK, Goto, Inside
    <2>2. \E s \in Segments \cup {NONE} : shmid' = [shmid EXCEPT ![p] = s]
      BY <1>3 DEF TypeOK, Get
    <2>3. current' \in Segments \cup {NONE} /\ UNCHANGED <<sem, mem>>
      BY <1>3 DEF TypeOK, Get
    <2>4. CASE content' = content
      BY <2>1, <2>2, <2>3, <2>4 DEF TypeOK
    <2>5. CASE \E s \in Segments :
                 content' = [x \in DOMAIN content \cup {s} |->
                               IF x = s THEN Zeroed ELSE content[x]]
      BY <2>1, <2>2, <2>3, <2>5 DEF TypeOK
    <2> QED
      BY <1>3, <2>4, <2>5 DEF Get
  <1>4. ASSUME NEW p \in Procs, Attach(p) \/ Stat(p) \/ DtorStat(p) PROVE TypeOK'
    BY <1>4 DEF TypeOK, Attach, Stat, DtorStat, Exists, Goto, Waiting, Inside
  <1>5. ASSUME NEW p \in Procs, Zero(p) \/ Write(p) PROVE TypeOK'
    BY <1>5 DEF TypeOK, Zero, Write, Goto, Waiting, Inside
  <1>6. ASSUME NEW p \in Procs, Detach(p) \/ Remove(p) \/ Crash(p) PROVE TypeOK'
    BY <1>6 DEF TypeOK, Detach, Remove, Crash, Detached, Without, Goto, Waiting, Inside
  <1>7. CASE UNCHANGED vars
    BY <1>7 DEF vars, TypeOK
  <1> QED
    BY <1>1, <1>2, <1>3, <1>4, <1>5, <1>6, <1>7 DEF Next, Work

(* The types of the shared and the private state hold in every behaviour of *)
(* the constructor, the destructor and the lock calls.                      *)
THEOREM TypeCorrect == Spec => []TypeOK
  <1>1. Init => TypeOK
    <2>1. Cardinality(Procs) \in Nat /\ Cardinality(Procs) # 0
      BY ShareMemoryAssumption, FS_CardinalityType, FS_EmptySet
    <2> QED
      BY <2>1 DEF Init, TypeOK
  <1> QED
    BY <1>1, TypeStep, PTL DEF Spec

-----------------------------------------------------------------------------
(* One step of the protocol keeps the semaphore's invariant.                *)
LEMMA SemStep ==
  ASSUME ~GivesUp, TypeOK, SemInv, [Next]_vars
  PROVE  SemInv'
  <1>0. pc \in [Procs -> Waiting \cup Inside \cup {"out", "idle"}]
    BY DEF TypeOK
  <1>1. ASSUME NEW p \in Procs, Begin(p) PROVE SemInv'
    BY <1>0, <1>1 DEF SemInv, MutualExclusion, Begin, Goto, Inside
  <1>2. ASSUME NEW p \in Procs, SemLock(p) PROVE SemInv'
    BY <1>0, <1>2 DEF SemInv, MutualExclusion, SemLock, Goto
  <1>3. ASSUME NEW p \in Procs, SemUnLock(p) PROVE SemInv'
    <2>1. pc[p] \in Inside /\ Left[pc[p]] \notin Inside
      BY <1>3 DEF SemUnLock, Left, Inside
    <2>2. sem = 0 /\ \A q \in Procs \ {p} : pc[q] \notin Inside
      BY <2>1 DEF SemInv, MutualExclusion
    <2>3. sem' \in {0, 1}
      BY <1>3, <2>2 DEF SemUnLock
    <2>4. \A q \in Procs : pc'[q] \notin Inside
      BY <1>0, <1>3, <2>1, <2>2 DEF SemUnLock, Goto
    <2> QED
      BY <2>3, <2>4 DEF SemInv, MutualExclusion
  <1>4. ASSUME NEW p \in Procs,
               \/ Get(p) \/ Attach(p) \/ Stat(p) \/ Zero(p)
               \/ Detach(p) \/ DtorStat(p) \/ Remove(p)
        PROVE  SemInv'
    <2>1. pc[p] \in Inside /\ sem' = sem /\ \A q \in Procs \ {p} : pc'[q] = pc[q]
      BY <1>0, <1>4 DEF Get, Attach, Stat, Zero, Detach, DtorStat, Remove, Goto, Inside
    <2> QED
      BY <2>1 DEF SemInv, MutualExclusion
  <1>5. ASSUME NEW p \in Procs, Write(p) \/ Crash(p) PROVE SemInv'
    BY <1>0, <1>5 DEF SemInv, MutualExclusion, Write, Crash, Goto, Inside
  <1>6. CASE UNCHANGED vars
    BY <1>6 DEF vars, SemInv, MutualExclusion
  <1>7. \A p \in Procs : ~SemLockGivesUp(p)
    BY DEF SemLockGivesUp
  <1> QED
    BY <1>1, <1>2, <1>3, <1>4, <1>5, <1>6, <1>7 DEF Next, Work

(* A process inside is the only one: an attached segment changes hands in   *)
(* no step but its own.                                                     *)
LEMMA InsideAlone ==
  ASSUME SemInv, NEW p \in Procs, pc[p] \in Inside, NEW q \in Procs, q # p
  PROVE  pc[q] \notin {"attach", "stat", "zero", "remove"}
  BY DEF SemInv, MutualExclusion, Inside

(* Steps that move processes only leave the memory's invariants alone.      *)
LEMMA MoveStep ==
  ASSUME TypeOK, SInv, NEW p \in Procs,
         Begin(p) \/ SemLock(p) \/ SemUnLock(p) \/ Stat(p) \/ DtorStat(p)
  PROVE  MemInv' /\ InsideInv' /\ CurrentInv'
  <1>0. /\ UNCHANGED <<shmid, mem, current, content>>
        /\ pc' = [pc EXCEPT ![p] = pc'[p]]
    BY DEF TypeOK, Begin, SemLock, SemUnLock, Stat, DtorStat, Goto
  <1>1. pc \in [Procs -> Waiting \cup Inside \cup {"out", "idle"}]
    BY DEF TypeOK
  <1>2. \A q \in Procs : q # p => pc'[q] = pc[q]
    BY <1>0, <1>1
  <1>3. CurrentInv'
    BY <1>0 DEF SInv, CurrentInv, Exists
  <1>4. mem[p] # NONE => pc'[p] \in {"stat", "zero", "ctorPost", "idle", "useWait", "use", "dtorWait", "detach"}
    BY <1>1 DEF SInv, MemInv, Begin, SemLock, SemUnLock, Stat, DtorStat, Goto, Entered, Left, Waiting
  <1>5. MemInv'
    BY <1>0, <1>2, <1>4 DEF SInv, MemInv
  <1>6. /\ pc'[p] \notin {"attach", "stat"}
        /\ pc'[p] = "zero"   => mem[p] # NONE /\ Attached(shmid[p]) = {p}
        /\ pc'[p] = "remove" => shmid[p] # NONE /\ Attached(shmid[p]) = {}
    BY <1>1 DEF SInv, InsideInv, Begin, SemLock, SemUnLock, Stat, DtorStat, Goto, Entered, Left, Waiting
  <1>7. InsideInv'
    BY <1>0, <1>2, <1>6 DEF SInv, InsideInv, Attached
  <1> QED
    BY <1>3, <1>5, <1>7

(* shmget: the object gets the key's segment, or a new one for everybody.   *)
LEMMA GetStep ==
  ASSUME SInv, NEW p \in Procs, Get(p)
  PROVE  MemInv' /\ InsideInv' /\ CurrentInv'
  <1>0. /\ pc \in [Procs -> Waiting \cup Inside \cup {"out", "idle"}]
        /\ shmid \in [Procs -> Segments \cup {NONE}]
        /\ pc[p] = "get" /\ pc[p] \in Inside /\ mem' = mem
    BY DEF SInv, TypeOK, Get, Inside
  <1>1. mem[p] = NONE
    BY <1>0 DEF SInv, MemInv
  <1>2. \A q \in Procs : q # p => pc'[q] = pc[q] /\ shmid'[q] = shmid[q]
    BY <1>0 DEF Get, Goto
  <1>3. pc'[p] = "ctorPost" \/ (pc'[p] = "attach" /\ shmid'[p] = current')
    BY <1>0 DEF Get, Goto
  <1>4. current' = current \/ current = NONE
    BY DEF Get
  <1>5. MemInv'
    <2> SUFFICES ASSUME NEW q \in Procs, mem[q] # NONE
                 PROVE  /\ mem[q] = shmid'[q] /\ mem[q] = current'
                        /\ pc'[q] \in {"stat", "zero", "ctorPost", "idle", "useWait", "use", "dtorWait", "detach"}
      BY <1>0 DEF MemInv
    <2> QED
      BY <1>1, <1>2, <1>4 DEF SInv, MemInv
  <1>6. InsideInv'
    BY <1>0, <1>2, <1>3, InsideAlone DEF SInv, InsideInv
  <1>7. CurrentInv'
    BY DEF SInv, CurrentInv, Exists, Get
  <1> QED
    BY <1>5, <1>6, <1>7

(* shmat: the process inside attaches the segment it got.                   *)
LEMMA AttachStep ==
  ASSUME SInv, NEW p \in Procs, Attach(p)
  PROVE  MemInv' /\ InsideInv' /\ CurrentInv'
  <1>0. /\ pc \in [Procs -> Waiting \cup Inside \cup {"out", "idle"}]
        /\ mem \in [Procs -> Segments \cup {NONE}]
        /\ pc[p] = "attach" /\ pc[p] \in Inside
        /\ UNCHANGED <<shmid, current, content>>
    BY DEF SInv, TypeOK, Attach, Inside
  <1>1. mem[p] = NONE /\ shmid[p] = current
    BY <1>0 DEF SInv, MemInv, InsideInv
  <1>2. \A q \in Procs : q # p => pc'[q] = pc[q] /\ mem'[q] = mem[q]
    BY <1>0 DEF Attach, Goto
  <1>3. /\ pc'[p] \in {"stat", "ctorPost"} /\ mem'[p] \in {NONE, shmid[p]}
        /\ pc'[p] = "stat" => mem'[p] # NONE
    <2>1. Exists(shmid[p]) => shmid[p] # NONE
      BY ShareMemoryAssumption DEF SInv, TypeOK, Exists
    <2> QED
      BY <1>0, <1>1, <2>1 DEF Attach, Goto
  <1>4. MemInv'
    BY <1>0, <1>1, <1>2, <1>3 DEF SInv, MemInv
  <1>5. InsideInv'
    BY <1>0, <1>2, <1>3, InsideAlone DEF SInv, InsideInv
  <1>6. CurrentInv'
    BY <1>0 DEF SInv, CurrentInv, Exists
  <1> QED
    BY <1>4, <1>5, <1>6

(* Zeroing and writing change the content of segments that exist only.      *)
LEMMA ContentStep ==
  ASSUME SInv, NEW p \in Procs, Zero(p) \/ Write(p)
  PROVE  MemInv' /\ InsideInv' /\ CurrentInv'
  <1>0. /\ pc \in [Procs -> Waiting \cup Inside \cup {"out", "idle"}]
        /\ UNCHANGED <<shmid, mem, current>>
        /\ pc'[p] \in {"ctorPost", "use"}
        /\ \A q \in Procs : q # p => pc'[q] = pc[q]
        /\ DOMAIN content' = DOMAIN content
    BY DEF SInv, TypeOK, Zero, Write, Goto
  <1>1. MemInv'
    BY <1>0 DEF SInv, MemInv
  <1>2. InsideInv'
    BY <1>0 DEF SInv, InsideInv, Attached
  <1>3. CurrentInv'
    BY <1>0 DEF SInv, CurrentInv, Exists
  <1> QED
    BY <1>1, <1>2, <1>3

(* A process that detaches, in its destructor or because it dies, leaves    *)
(* the key's segment in place.                                              *)
LEMMA DetachStep ==
  ASSUME SInv, NEW p \in Procs, Detach(p) \/ Crash(p)
  PROVE  MemInv' /\ InsideInv' /\ CurrentInv'
  <1>0. /\ pc \in [Procs -> Waiting \cup Inside \cup {"out", "idle"}]
        /\ mem \in [Procs -> Segments \cup {NONE}]
        /\ shmid \in [Procs -> Segments \cup {NONE}]
    BY DEF SInv, TypeOK
  <1>1. /\ mem'[p] = NONE /\ current' = current
        /\ pc'[p] \in {"dtorStat", "out"}
        /\ \A q \in Procs : q # p =>
             pc'[q] = pc[q] /\ mem'[q] = mem[q] /\ shmid'[q] = shmid[q]
    BY <1>0 DEF Detach, Crash, Detached, Goto
  <1>2. MemInv'
    BY <1>1 DEF SInv, MemInv
  <1>3. InsideInv'
    <2> SUFFICES ASSUME NEW q \in Procs, q # p
                 PROVE  /\ pc'[q] = "attach" => shmid'[q] = current'
                        /\ pc'[q] = "stat"   => mem'[q] # NONE
                        /\ pc'[q] = "zero"   => mem'[q] # NONE /\ Attached(shmid[q])' = {q}
                        /\ pc'[q] = "remove" => shmid'[q] # NONE /\ Attached(shmid[q])' = {}
      BY <1>1 DEF InsideInv, Attached
    <2>1. ASSUME pc[q] \in {"zero", "remove"} PROVE Attached(shmid[q])' = Attached(shmid[q])
      <3>1. p \notin Attached(shmid[q]) /\ shmid[q] # NONE
        BY <2>1 DEF SInv, InsideInv, MemInv
      <3> QED
        BY <1>1, <3>1 DEF Attached
    <2> QED
      BY <1>1, <2>1 DEF SInv, InsideInv
  <1>4. CurrentInv'
    <2>1. content' = content \/ (mem[p] # current /\ content' = Without(mem[p]))
      BY DEF Detach, Crash, Detached
    <2> QED
      BY <1>1, <2>1 DEF SInv, CurrentInv, Exists, Without
  <1> QED
    BY <1>2, <1>3, <1>4

(* IPC_RMID: nobody is attached to the segment that goes.                   *)
LEMMA RemoveStep ==
  ASSUME SInv, NEW p \in Procs, Remove(p)
  PROVE  MemInv' /\ InsideInv' /\ CurrentInv'
  <1>0. /\ pc \in [Procs -> Waiting \cup Inside \cup {"out", "idle"}]
        /\ pc[p] = "remove" /\ pc[p] \in Inside
        /\ UNCHANGED <<shmid, mem>>
    BY DEF SInv, TypeOK, Remove, Inside
  <1>1. Attached(shmid[p]) = {}
    BY <1>0 DEF SInv, InsideInv
  <1>2. pc'[p] = "dtorPost" /\ \A q \in Procs : q # p => pc'[q] = pc[q]
    BY <1>0 DEF Remove, Goto
  <1>3. MemInv'
    <2> SUFFICES ASSUME NEW q \in Procs, mem[q] # NONE
                 PROVE  /\ mem[q] = shmid[q] /\ mem[q] = current' /\ q # p
                        /\ pc[q] \in {"stat", "zero", "ctorPost", "idle", "useWait", "use", "dtorWait", "detach"}
      BY <1>0, <1>2 DEF MemInv
    <2>1. mem[q] # shmid[p]
      BY <1>1 DEF Attached
    <2> QED
      BY <1>0, <2>1 DEF SInv, MemInv, Remove
  <1>4. InsideInv'
    BY <1>0, <1>2, InsideAlone DEF SInv, InsideInv
  <1>5. CurrentInv'
    BY DEF SInv, CurrentInv, Exists, Remove, Without
  <1> QED
    BY <1>3, <1>4, <1>5

-----------------------------------------------------------------------------
LEMMA InvStep ==
  ASSUME ~GivesUp, SInv, [Next]_vars
  PROVE  SInv'
  <1>1. TypeOK' /\ SemInv'
    BY TypeStep, SemStep DEF SInv
  <1>2. ASSUME NEW p \in Procs, Begin(p) \/ Work(p) \/ Write(p) \/ Crash(p)
        PROVE  MemInv' /\ InsideInv' /\ CurrentInv'
    <2>1. ~SemLockGivesUp(p)
      BY DEF SemLockGivesUp
    <2> QED
      BY <1>2, <2>1, MoveStep, GetStep, AttachStep, ContentStep, DetachStep, RemoveStep
      DEF Work, SInv
  <1>3. ASSUME UNCHANGED vars PROVE MemInv' /\ InsideInv' /\ CurrentInv'
    BY <1>3 DEF vars, SInv, MemInv, InsideInv, CurrentInv, Attached, Exists
  <1> QED
    BY <1>1, <1>2, <1>3 DEF SInv, Next

(* SInv is inductive: with it, every step between SemLock and SemUnLock     *)
(* finds what the step before it found.                                     *)
THEOREM InductiveInvariant ==
  ASSUME ~GivesUp
  PROVE  Spec => []SInv
  <1>1. Init => SInv
    <2>1. Cardinality(Procs) \in Nat /\ Cardinality(Procs) # 0
      BY ShareMemoryAssumption, FS_CardinalityType, FS_EmptySet
    <2> QED
      BY <2>1 DEF Init, SInv, TypeOK, SemInv, MutualExclusion, MemInv, InsideInv, CurrentInv, Inside
  <1>2. SInv /\ [Next]_vars => SInv'
    BY InvStep
  <1> QED
    BY <1>1, <1>2, PTL DEF Spec

(* SemLock excludes: the constructor, the destructor and the callers never  *)
(* work on the segment at the same time.                                    *)
THEOREM Excluded ==
  ASSUME ~GivesUp
  PROVE  Spec => []MutualExclusion
  <1>1. SInv => MutualExclusion
    BY DEF SInv, SemInv
  <1> QED
    BY <1>1, InductiveInvariant, PTL

(* The last destructor's IPC_RMID and the next constructor's shmget never   *)
(* leave two processes with different segments.                             *)
THEOREM SharedMemoryIsOne ==
  ASSUME ~GivesUp
  PROVE  Spec => []OneMemory
  <1>1. SInv => OneMemory
    BY DEF SInv, MemInv, OneMemory
  <1> QED
    BY <1>1, InductiveInvariant, PTL

-----------------------------------------------------------------------------
(* What a process has written stays for those who are through the           *)
(* constructor, whoever makes the next step.                                *)
LEMMA NotWipedStep ==
  ASSUME SInv, ~GivesUp, [Next]_vars,
         NEW p \in Procs, Constructed(p), mem[p] # NONE, content[mem[p]] # Zeroed
  PROVE  mem[p] \in DOMAIN content' /\ content'[mem[p]] # Zeroed
  <1> DEFINE Kept == mem[p] \in DOMAIN content' /\ content'[mem[p]] # Zeroed
  <1>0. mem[p] = current /\ mem[p] \in DOMAIN content
    BY DEF SInv, MemInv, CurrentInv, Exists
  <1>1. ASSUME NEW q \in Procs, Get(q) PROVE Kept
    BY <1>0, <1>1 DEF Get, Exists
  <1>2. ASSUME NEW q \in Procs, Zero(q) PROVE Kept
    <2>1. Attached(shmid[q]) = {q} /\ p # q /\ mem[q] # NONE
      BY <1>2 DEF SInv, InsideInv, Zero, Constructed
    <2>2. mem[p] = shmid[q]
      BY <1>0, <2>1 DEF SInv, MemInv
    <2> QED
      BY <2>1, <2>2 DEF Attached
  <1>3. ASSUME NEW q \in Procs, Write(q) PROVE Kept
    BY <1>0, <1>3, ShareMemoryAssumption DEF Write
  <1>4. ASSUME NEW q \in Procs, Detach(q) \/ Crash(q) PROVE Kept
    <2>1. content' = content \/ (mem[q] # current /\ content' = Without(mem[q]))
      BY <1>4 DEF Detach, Crash, Detached
    <2> QED
      BY <1>0, <2>1 DEF Without
  <1>5. ASSUME NEW q \in Procs, Remove(q) PROVE Kept
    <2>1. mem[p] # shmid[q]
      BY <1>5 DEF SInv, InsideInv, Remove, Attached
    <2> QED
      BY <1>0, <1>5, <2>1 DEF Remove, Without
  <1>6. ASSUME UNCHANGED content PROVE Kept
    BY <1>0, <1>6
  <1>7. ASSUME NEW q \in Procs,
               \/ Begin(q) \/ SemLock(q) \/ SemUnLock(q)
               \/ Attach(q) \/ Stat(q) \/ DtorStat(q)
        PROVE  UNCHANGED content
    BY <1>7 DEF Begin, SemLock, SemUnLock, Attach, Stat, DtorStat
  <1>8. \A q \in Procs : ~SemLockGivesUp(q)
    BY DEF SemLockGivesUp
  <1>9. ASSUME UNCHANGED vars PROVE UNCHANGED content
    BY <1>9 DEF vars
  <1>10. Kept
    <2> HIDE DEF Kept
    <2> QED
      BY <1>1, <1>2, <1>3, <1>4, <1>5, <1>6, <1>7, <1>8, <1>9 DEF Next, Work
  <1> QED
    BY <1>10

(* The memset of a constructor, which follows a count of the attached       *)
(* processes, never clears a memory somebody already uses.                  *)
THEOREM MemoryIsNotWiped ==
  ASSUME ~GivesUp
  PROVE  Spec => NothingWiped
  <1>1. SInv /\ [Next]_vars =>
          [ \A p \in Procs :
              Constructed(p) /\ mem[p] # NONE /\ content[mem[p]] # Zeroed =>
                mem[p] \in DOMAIN content' /\ content'[mem[p]] # Zeroed ]_vars
    BY NotWipedStep
  <1> QED
    BY <1>1, InductiveInvariant, PTL DEF Spec, NothingWiped
=============================================================================
