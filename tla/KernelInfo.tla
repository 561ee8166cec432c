------------------------------ MODULE KernelInfo ------------------------------
(***************************************************************************)
(* The host buffers behind KernelBase and KernelInfo: who owns the launch  *)
(* arguments, the host tiling and the tensor-list buffer of every kernel   *)
(* object, across Init, Reset, Clone, the switch of the tiling mode and    *)
(* the destructor.                                                         *)
(*                                                                         *)
(* A pointer is an address of Blocks (what new[] returns to the library),  *)
(* an address of CallerBuffers (what a caller hands to SetTilingHostAddr), *)
(* or NULL.  Lengths, offsets and the slots inside the argument buffer are *)
(* the business of module KernelArgs; here a buffer's content is the       *)
(* launch whose data it holds.                                             *)
(***************************************************************************)
CONSTANTS
  Kernels,        \* addresses of kernel objects
  Blocks,         \* addresses new[] can return
  CallerBuffers,  \* addresses of the callers' tiling buffers
  Launches,       \* the launch parameters a kernel is initialised with
  NULL,           \* the null pointer
  Blank           \* content of a zeroed buffer, description of no launch

ASSUME AddressAssumption ==
  /\ Blocks \cap CallerBuffers = {}
  /\ NULL \notin Blocks \cup CallerBuffers
  /\ Blank \notin Launches

Addresses == Blocks \cup CallerBuffers

VARIABLES
  kernels,  \* the kernel objects that exist
  info,     \* kernelInfo_ of each kernel
  live,     \* the addresses that are allocated, the library's and the callers'
  content   \* the launch whose data each address holds

vars == <<kernels, info, live, content>>

(* desc stands for what an Init writes besides the buffers: hwsync index,   *)
(* block dim, const tensors, scratch sizes and memset requests.             *)
KernelInfoType ==
  [launchWithTiling: BOOLEAN, launchWithTensorlist: BOOLEAN,
   initFlag: BOOLEAN,
   args: Blocks \cup {NULL}, hostTiling: Addresses \cup {NULL},
   tensorList: Blocks \cup {NULL},
   desc: Launches \cup {Blank}]

TypeOK ==
  /\ kernels \subseteq Kernels
  /\ info \in [Kernels -> KernelInfoType]
  /\ live \subseteq Addresses
  /\ content \in [Addresses -> Launches \cup {Blank}]

NewKernelInfo ==
  [launchWithTiling |-> TRUE, launchWithTensorlist |-> FALSE,
   initFlag |-> FALSE, args |-> NULL, hostTiling |-> NULL,
   tensorList |-> NULL, desc |-> Blank]

-----------------------------------------------------------------------------
(* Mutant of Deleted: the tiling is deleted without asking for the mode.    *)
DeletedWhateverMode(ki) ==
  { p \in Addresses :
      \/ p \in {ki.args, ki.hostTiling}
      \/ ki.launchWithTensorlist /\ p = ki.tensorList }

(* The addresses Reset and the destructor delete[]: the guards of           *)
(* ResetArgs, ResetTilingInfo and ResetTensorListExtInfo.                   *)
Deleted(ki) ==
  { p \in Addresses :
      \/ p = ki.args
      \/ ki.launchWithTiling /\ p = ki.hostTiling
      \/ ki.launchWithTensorlist /\ p = ki.tensorList }

(* KernelInfo::Reset: both modes survive it, and so does a tiling address   *)
(* that is the caller's.                                                    *)
AfterReset(ki) ==
  [ki EXCEPT !.initFlag = FALSE, !.args = NULL, !.desc = Blank,
             !.hostTiling = IF ki.launchWithTiling THEN NULL ELSE @,
             !.tensorList = IF ki.launchWithTensorlist THEN NULL ELSE @]

Fresh(gone) == Blocks \ (live \ gone)

(* The addresses of gone are freed; then those of new are allocated.        *)
Reallocate(gone, new) ==
  live' = (live \ gone) \cup (new \cap Blocks)

(* What memory holds once gone is freed; a freed block holds nothing.       *)
Remaining(gone) ==
  [p \in Addresses |-> IF p \in gone THEN Blank ELSE content[p]]

-----------------------------------------------------------------------------
Init ==
  /\ kernels = {}
  /\ info = [k \in Kernels |-> NewKernelInfo]
  /\ live = {}
  /\ content = [p \in Addresses |-> Blank]

(* A kernel constructed by its creator: the prototype in the schedule.      *)
Construct(k) ==
  /\ k \notin kernels
  /\ kernels' = kernels \cup {k}
  /\ UNCHANGED <<info, live, content>>

(* Mutant of Destroy: the destructor forgets the tensor lists.              *)
DestroyKeepsTensorList(k) ==
  /\ k \in kernels
  /\ kernels' = kernels \ {k}
  /\ info' = [info EXCEPT ![k] = NewKernelInfo]
  /\ Reallocate(Deleted(info[k]) \ {info[k].tensorList}, {})
  /\ UNCHANGED content

Destroy(k) ==
  /\ k \in kernels
  /\ kernels' = kernels \ {k}
  /\ info' = [info EXCEPT ![k] = NewKernelInfo]
  /\ Reallocate(Deleted(info[k]), {})
  /\ content' = Remaining(Deleted(info[k]))

(* Kernel::Reset, and as well an Init whose AllocTilingHost fails: it has   *)
(* reset the kernel and returns.                                            *)
Reset(k) ==
  /\ k \in kernels
  /\ info' = [info EXCEPT ![k] = AfterReset(info[k])]
  /\ Reallocate(Deleted(info[k]), {})
  /\ content' = Remaining(Deleted(info[k]))
  /\ UNCHANGED kernels

(* Mutant of SetLaunchWithTiling: the kernel stays initialised.             *)
SetModeKeepsInitFlag(k, flag) ==
  LET ki == info[k]
      gone == IF flag THEN {} ELSE {ki.hostTiling}
  IN
  /\ k \in kernels
  /\ ki.launchWithTiling # flag
  /\ info' = [info EXCEPT ![k].launchWithTiling = flag,
                          ![k].hostTiling = IF flag THEN @ ELSE NULL]
  /\ Reallocate(gone, {})
  /\ content' = Remaining(gone)
  /\ UNCHANGED kernels

(* A caller turns the tiling mode on or off; asking for the mode the kernel *)
(* is in does nothing.  Only leaving the tiling mode drops the tiling: a     *)
(* kernel that is brought back to it keeps its pointer to a caller's buffer.*)
SetLaunchWithTiling(k, flag) ==
  LET ki == info[k]
      gone == IF flag THEN {} ELSE {ki.hostTiling}
  IN
  /\ k \in kernels
  /\ ki.launchWithTiling # flag
  /\ info' = [info EXCEPT ![k].launchWithTiling = flag,
                          ![k].initFlag = FALSE,
                          ![k].hostTiling = IF flag THEN @ ELSE NULL]
  /\ Reallocate(gone, {})
  /\ content' = Remaining(gone)
  /\ UNCHANGED kernels

(* A caller hands over its own tiling, which it may do outside the tiling   *)
(* mode only.                                                               *)
SetTilingHostAddr(k, addr) ==
  /\ k \in kernels
  /\ ~info[k].launchWithTiling
  /\ addr \in CallerBuffers \cap live
  /\ info' = [info EXCEPT ![k].hostTiling = addr]
  /\ UNCHANGED <<kernels, live, content>>

-----------------------------------------------------------------------------
(* KernelBase::Init for launch l, past CheckInTensors and CanSupport (a     *)
(* launch these refuse changes nothing).  t and tl are the tiling and the   *)
(* tensor-list buffer it works with: in the tiling mode AllocTilingHost's,  *)
(* otherwise the caller's, which the caller keeps alive during the call.    *)
(* A launch with tensor lists turns the tensor-list mode on for good, so    *)
(* only a kernel that never had one can do without the buffer.              *)
InitBuffers(k, t, tl) ==
  LET ki == info[k] IN
  /\ k \in kernels
  /\ t \in IF ki.launchWithTiling THEN Fresh(Deleted(ki))
                                  ELSE {ki.hostTiling} \cap live
  /\ \/ tl \in Fresh(Deleted(ki)) \ {t}
     \/ tl = NULL /\ ~ki.launchWithTensorlist

(* The kernel as InitImpl and InitTensorList leave it for launch l.         *)
Described(ki, l, t, tl) ==
  [AfterReset(ki) EXCEPT !.hostTiling = t, !.tensorList = tl, !.desc = l,
                         !.launchWithTensorlist = (tl # NULL)]

(* InitImpl fails or throws, or InitArgs fails: the buffers stay, and the   *)
(* kernel is not initialised.                                               *)
InitFails(k, l, t, tl) ==
  /\ InitBuffers(k, t, tl)
  /\ info' = [info EXCEPT ![k] = Described(info[k], l, t, tl)]
  /\ Reallocate(Deleted(info[k]), {t, tl})
  /\ content' = [p \in Addresses |->
                   IF p \in {t, tl} THEN l ELSE Remaining(Deleted(info[k]))[p]]
  /\ UNCHANGED kernels

(* InitArgs allocates the arguments; in the tiling mode the tiling and the  *)
(* tensor lists are copied into them, otherwise they are only zeroed.       *)
InitSucceeds(k, l, t, tl, a) ==
  /\ InitBuffers(k, t, tl)
  /\ a \in Fresh(Deleted(info[k])) \ {t, tl}
  /\ info' = [info EXCEPT ![k] = [Described(info[k], l, t, tl)
                                    EXCEPT !.args = a, !.initFlag = TRUE]]
  /\ Reallocate(Deleted(info[k]), {t, tl, a})
  /\ content' = [p \in Addresses |->
                   IF p \in {t, tl} THEN l
                   ELSE IF p = a
                   THEN IF info[k].launchWithTiling THEN l ELSE Blank
                   ELSE Remaining(Deleted(info[k]))[p]]
  /\ UNCHANGED kernels

-----------------------------------------------------------------------------
(* Clone: the creator makes a new kernel, and Copy fills it.  Copy takes    *)
(* the tiling mode first and stops there when the source is not             *)
(* initialised; it never takes the tensor-list mode or the tensor lists.    *)
CopyMode(src) ==
  [NewKernelInfo EXCEPT !.launchWithTiling = info[src].launchWithTiling]

CloneBlank(src, dst) ==
  /\ src \in kernels /\ dst \notin kernels
  /\ ~info[src].initFlag \/ info[src].launchWithTiling  \* or no memory
  /\ kernels' = kernels \cup {dst}
  /\ info' = [info EXCEPT ![dst] = CopyMode(src)]
  /\ UNCHANGED <<live, content>>

(* Mutant of CopyTiling: the copy takes the source's pointer in every mode. *)
CopyTilingPointer(src, dst, t) ==
  /\ src \in kernels /\ dst \notin kernels
  /\ info[src].initFlag
  /\ t = info[src].hostTiling

(* The copy's tiling: a block of its own in the tiling mode, otherwise the  *)
(* source's pointer to the caller's buffer.                                 *)
CopyTiling(src, dst, t) ==
  /\ src \in kernels /\ dst \notin kernels
  /\ info[src].initFlag
  /\ t \in IF info[src].launchWithTiling THEN Fresh({})
                                         ELSE {info[src].hostTiling}

(* No memory for the arguments: the copy has its tiling only.               *)
CloneWithoutArgs(src, dst, t) ==
  /\ CopyTiling(src, dst, t)
  /\ kernels' = kernels \cup {dst}
  /\ info' = [info EXCEPT ![dst] = [CopyMode(src) EXCEPT !.hostTiling = t]]
  /\ Reallocate({}, {t})
  /\ content' = [content EXCEPT ![t] = content[info[src].hostTiling]]

CloneSucceeds(src, dst, t, a) ==
  LET from == info[src] IN
  /\ CopyTiling(src, dst, t)
  /\ a \in Fresh({}) \ {t}
  /\ kernels' = kernels \cup {dst}
  /\ info' = [info EXCEPT ![dst] =
                [CopyMode(src) EXCEPT !.hostTiling = t, !.args = a,
                                      !.initFlag = TRUE, !.desc = from.desc]]
  /\ Reallocate({}, {t, a})
  /\ content' = [content EXCEPT
                   ![t] = content[from.hostTiling],
                   ![a] = IF from.launchWithTiling THEN content[from.args]
                                                   ELSE Blank]

-----------------------------------------------------------------------------
(* The callers' own allocations; a buffer may die while a kernel still      *)
(* points to it, as the one on the stack of a caller that returns does.     *)
CallerAllocates(b) ==
  /\ b \in CallerBuffers \ live
  /\ live' = live \cup {b}
  /\ UNCHANGED <<kernels, info, content>>

CallerFrees(b) ==
  /\ b \in CallerBuffers \cap live
  /\ live' = live \ {b}
  /\ content' = Remaining({b})
  /\ UNCHANGED <<kernels, info>>

KernelStep(k) ==
  \/ Construct(k) \/ Destroy(k) \/ Reset(k)
  \/ \E flag \in BOOLEAN : SetLaunchWithTiling(k, flag)
  \/ \E addr \in CallerBuffers : SetTilingHostAddr(k, addr)

InitStep(k) ==
  \E l \in Launches, t \in Addresses, tl \in Blocks \cup {NULL} :
    \/ InitFails(k, l, t, tl)
    \/ \E a \in Blocks : InitSucceeds(k, l, t, tl, a)

CloneStep(src, dst) ==
  \/ CloneBlank(src, dst)
  \/ \E t \in Addresses :
       \/ CloneWithoutArgs(src, dst, t)
       \/ \E a \in Blocks : CloneSucceeds(src, dst, t, a)

Next ==
  \/ \E k \in Kernels : KernelStep(k) \/ InitStep(k)
  \/ \E src, dst \in Kernels : CloneStep(src, dst)
  \/ \E b \in CallerBuffers : CallerAllocates(b) \/ CallerFrees(b)

Spec == Init /\ [][Next]_vars

-----------------------------------------------------------------------------
(***************************************************************************)
(* Every block the library will delete[] is still allocated, and will be   *)
(* deleted through one pointer of one kernel only: no double delete, no    *)
(* use after delete, whatever clones are made of a kernel, in whatever     *)
(* order they are reset and destroyed, and whatever mode they are brought  *)
(* to.                                                                     *)
(***************************************************************************)
PointersDistinct(ki) ==
  /\ ki.args # NULL => ki.args \notin {ki.hostTiling, ki.tensorList}
  /\ ki.tensorList # NULL => ki.tensorList # ki.hostTiling

OwnedOnce ==
  /\ \A k \in kernels :
       /\ Deleted(info[k]) \cap Blocks \subseteq live
       /\ PointersDistinct(info[k])
  /\ \A k1, k2 \in kernels :
       k1 # k2 => Deleted(info[k1]) \cap Deleted(info[k2]) \cap Blocks = {}

(* No buffer is lost: every block that is allocated will be deleted by some *)
(* kernel, also after an Init or a Copy that stopped half way.              *)
NoLeak == \A p \in live \cap Blocks : \E k \in kernels : p \in Deleted(info[k])

(***************************************************************************)
(* A kernel that says it is initialised can be launched, and with one      *)
(* launch's data: in the tiling mode its arguments, its host tiling and    *)
(* its description all come from the same Init, its own or the one of the  *)
(* kernel it was cloned from.                                              *)
(***************************************************************************)
LaunchCoherent ==
  \A k \in kernels :
    LET ki == info[k] IN
    ki.initFlag =>
      /\ ki.args # NULL /\ ki.hostTiling # NULL /\ ki.desc \in Launches
      /\ ki.launchWithTiling =>
           content[ki.args] = ki.desc /\ content[ki.hostTiling] = ki.desc

(***************************************************************************)
(* In the tiling mode the tiling is the library's: the check of            *)
(* SetTilingHostAddr refuses a caller's buffer with "launch with tiling    *)
(* mode on".  A kernel that is switched back to the tiling mode while it   *)
(* still points to a caller's buffer is Mistaken about it.                 *)
(***************************************************************************)
Mistaken(ki) == ki.launchWithTiling /\ ki.hostTiling \in CallerBuffers

(***************************************************************************)
(* A caller's buffer is freed by its caller, or by a kernel that was       *)
(* switched back to the tiling mode with it, and such a kernel frees it    *)
(* once: no other step of a kernel frees one, its copies' included.        *)
(***************************************************************************)
CallerBuffersKept ==
  [][ \A b \in CallerBuffers :
        b \in live /\ b \notin live' =>
          \/ UNCHANGED <<kernels, info>>
          \/ \E k \in kernels :
               /\ Mistaken(info[k]) /\ info[k].hostTiling = b
               /\ info'[k].hostTiling # b ]_vars

(* The kernels share the heap as its owners: the abstract specification.    *)
OwnerOf(p) ==
  IF \E k \in kernels : p \in Deleted(info[k])
  THEN CHOOSE k \in kernels : p \in Deleted(info[k])
  ELSE NULL

Heap == INSTANCE HeapOwnership WITH
          Owners <- Kernels, Nobody <- NULL,
          owner <- [p \in Blocks |-> OwnerOf(p)]

(* Every step of the kernels takes free blocks for one kernel or gives that *)
(* kernel's blocks back; a clone never takes over a block of its source.    *)
ImplementsHeap == Heap!Spec
=============================================================================
