--------------------------- MODULE KernelInfoProofs ---------------------------
(***************************************************************************)
(* Proofs about KernelInfo for any sets of kernels, blocks, callers'       *)
(* buffers and launches.  The heart is one observation: every step changes *)
(* one kernel k only, gives back blocks k owned and takes blocks nobody    *)
(* owned (Exchanges).  Ownership then follows once, for all actions.       *)
(***************************************************************************)
EXTENDS KernelInfo, TLAPS

(* What a kernel owns: the blocks it will delete.  A kernel that is mistaken *)
(* about a caller's buffer deletes that as well, and does not own it.       *)
Owned(ki) == Deleted(ki) \cap Blocks

Owns(k) == Owned(info[k])

(* An initialised kernel has its arguments and its tiling.                  *)
ReadyInv ==
  \A k \in Kernels :
    info[k].initFlag => info[k].args # NULL /\ info[k].hostTiling # NULL

(* Which pointers a kernel may hold in each mode, and that an address that  *)
(* holds no kernel owns nothing.                                            *)
ModesInv ==
  \A k \in Kernels :
    /\ k \notin kernels => info[k] = NewKernelInfo
    /\ ~info[k].launchWithTiling => info[k].hostTiling \in CallerBuffers \cup {NULL}
    /\ ~info[k].launchWithTensorlist => info[k].tensorList = NULL

(* A kernel that was switched back with a caller's buffer has to be          *)
(* initialised again, which replaces the buffer.                            *)
TilingModeInv ==
  \A k \in Kernels : info[k].initFlag => ~Mistaken(info[k])

OwnershipInv ==
  /\ \A k \in Kernels :
       /\ Owns(k) \subseteq live \cap Blocks
       /\ PointersDistinct(info[k])
  /\ \A k1, k2 \in Kernels : k1 # k2 => Owns(k1) \cap Owns(k2) = {}
  /\ \A p \in live \cap Blocks : \E k \in Kernels : p \in Owns(k)

-----------------------------------------------------------------------------
(* The types: every action writes members of KernelInfoType.                *)
LEMMA NewKernelInfoType == NewKernelInfo \in KernelInfoType
  BY DEF KernelInfoType, NewKernelInfo

(* Reset keeps a kernelInfo_ well typed.                                    *)
LEMMA AfterResetType ==
  ASSUME NEW ki \in KernelInfoType
  PROVE  AfterReset(ki) \in KernelInfoType
  BY DEF KernelInfoType, AfterReset

(* So does the writing of a launch into a reset kernel.                     *)
LEMMA DescribedType ==
  ASSUME NEW ki \in KernelInfoType, NEW l \in Launches, NEW t \in Addresses, NEW tl \in Blocks \cup {NULL}
  PROVE  Described(ki, l, t, tl) \in KernelInfoType
  <1>1. AfterReset(ki) \in KernelInfoType
    BY AfterResetType
  <1> QED
    BY <1>1 DEF KernelInfoType, Described

(* What a reset kernel and a kernel described for a launch hold.            *)
LEMMA AfterResetFields ==
  ASSUME NEW ki \in KernelInfoType
  PROVE  /\ AfterReset(ki).launchWithTiling = ki.launchWithTiling
         /\ AfterReset(ki).launchWithTensorlist = ki.launchWithTensorlist
         /\ ~AfterReset(ki).initFlag
         /\ AfterReset(ki).args = NULL
         /\ AfterReset(ki).hostTiling = IF ki.launchWithTiling THEN NULL
                                        ELSE ki.hostTiling
         /\ AfterReset(ki).tensorList = IF ki.launchWithTensorlist THEN NULL
                                        ELSE ki.tensorList
  BY DEF AfterReset, KernelInfoType

(* Init leaves the tiling and the tensor lists it allocated.                *)
LEMMA DescribedFields ==
  ASSUME NEW ki \in KernelInfoType, NEW l \in Launches, NEW t \in Addresses, NEW tl \in Blocks \cup {NULL}
  PROVE  /\ Described(ki, l, t, tl).launchWithTiling = ki.launchWithTiling
         /\ ~Described(ki, l, t, tl).initFlag
         /\ Described(ki, l, t, tl).args = NULL
         /\ Described(ki, l, t, tl).hostTiling = t
         /\ Described(ki, l, t, tl).tensorList = tl
  <1> DEFINE kr == AfterReset(ki)
  <1>1. kr \in KernelInfoType
    BY AfterResetType
  <1>2. /\ kr.launchWithTiling = ki.launchWithTiling
        /\ kr.launchWithTensorlist = ki.launchWithTensorlist
        /\ ~kr.initFlag
        /\ kr.args = NULL
    BY AfterResetFields
  <1>3. Described(ki, l, t, tl) =
          [kr EXCEPT !.hostTiling = t, !.tensorList = tl, !.desc = l,
                     !.launchWithTensorlist = (tl # NULL)]
    BY DEF Described
  <1> HIDE DEF kr
  <1> QED
    BY <1>1, <1>2, <1>3 DEF KernelInfoType

(* A described kernel is in the tensor-list mode iff it has the buffer.     *)
LEMMA DescribedListMode ==
  ASSUME NEW ki \in KernelInfoType, NEW l \in Launches,
         NEW t \in Addresses, NEW tl \in Blocks \cup {NULL}
  PROVE  Described(ki, l, t, tl).launchWithTensorlist = (tl # NULL)
  <1>1. AfterReset(ki) \in KernelInfoType
    BY AfterResetType
  <1> QED
    BY <1>1 DEF KernelInfoType, Described

(* Every step writes kernel objects, a well-typed kernelInfo_, addresses    *)
(* and contents.                                                            *)
LEMMA TypeStep == TypeOK /\ ReadyInv /\ [Next]_vars => TypeOK'
  <1> SUFFICES ASSUME TypeOK, ReadyInv, [Next]_vars PROVE TypeOK'
    OBVIOUS
  <1> USE DEF TypeOK
  <1>0. \A gone : Remaining(gone) \in [Addresses -> Launches \cup {Blank}]
    BY DEF Remaining
  <1>1. ASSUME NEW k \in Kernels, KernelStep(k) PROVE TypeOK'
    <2>1. CASE Construct(k)
      BY <2>1 DEF Construct
    <2>2. CASE Destroy(k)
      BY <1>0, <2>2, NewKernelInfoType DEF Destroy, Reallocate
    <2>3. CASE Reset(k)
      <3>1. AfterReset(info[k]) \in KernelInfoType
        BY AfterResetType
      <3> QED
        BY <1>0, <2>3, <3>1 DEF Reset, Reallocate
    <2>4. ASSUME NEW flag \in BOOLEAN, SetLaunchWithTiling(k, flag)
          PROVE  TypeOK'
      <3>1. [info[k] EXCEPT !.launchWithTiling = flag, !.initFlag = FALSE,
                            !.hostTiling = IF flag THEN @ ELSE NULL]
              \in KernelInfoType
        BY DEF KernelInfoType
      <3> QED
        BY <1>0, <2>4, <3>1 DEF SetLaunchWithTiling, Reallocate
    <2>5. ASSUME NEW addr \in CallerBuffers, SetTilingHostAddr(k, addr)
          PROVE  TypeOK'
      <3>1. [info[k] EXCEPT !.hostTiling = addr] \in KernelInfoType
        BY DEF KernelInfoType, Addresses
      <3> QED
        BY <2>5, <3>1 DEF SetTilingHostAddr
    <2> QED
      BY <1>1, <2>1, <2>2, <2>3, <2>4, <2>5 DEF KernelStep
  <1>2. ASSUME NEW k \in Kernels, InitStep(k) PROVE TypeOK'
    <2> PICK l \in Launches, t \in Addresses, tl \in Blocks \cup {NULL} :
               \/ InitFails(k, l, t, tl)
               \/ \E a \in Blocks : InitSucceeds(k, l, t, tl, a)
      BY <1>2 DEF InitStep
    <2>0. Described(info[k], l, t, tl) \in KernelInfoType
      BY DescribedType
    <2>1. CASE InitFails(k, l, t, tl)
      BY <1>0, <2>0, <2>1 DEF InitFails, Reallocate, Addresses
    <2>2. ASSUME NEW a \in Blocks, InitSucceeds(k, l, t, tl, a)
          PROVE  TypeOK'
      <3>1. [Described(info[k], l, t, tl)
               EXCEPT !.args = a, !.initFlag = TRUE] \in KernelInfoType
        BY <2>0 DEF KernelInfoType
      <3>0. (IF info[k].launchWithTiling THEN l ELSE Blank) \in Launches \cup {Blank}
        OBVIOUS
      <3>2. content' \in [Addresses -> Launches \cup {Blank}]
        <4> DEFINE rest == Remaining(Deleted(info[k]))
                   filled == IF info[k].launchWithTiling THEN l ELSE Blank
        <4>1. content' = [p \in Addresses |-> IF p \in {t, tl} THEN l
                            ELSE IF p = a THEN filled ELSE rest[p]]
          BY <2>2 DEF InitSucceeds
        <4>2. rest \in [Addresses -> Launches \cup {Blank}]
          BY <1>0
        <4> HIDE DEF rest, filled
        <4> QED
          BY <3>0, <4>1, <4>2 DEF filled
      <3>3. live' \subseteq Addresses
        BY <2>2 DEF InitSucceeds, Reallocate, Addresses
      <3> QED
        BY <2>2, <3>1, <3>2, <3>3 DEF InitSucceeds
    <2> QED
      BY <2>1, <2>2
  <1>3. ASSUME NEW src \in Kernels, NEW dst \in Kernels, CloneStep(src, dst)
        PROVE  TypeOK'
    <2>0. CopyMode(src) \in KernelInfoType
      BY NewKernelInfoType DEF CopyMode, KernelInfoType
    <2>1. CASE CloneBlank(src, dst)
      BY <2>0, <2>1 DEF CloneBlank
    <2>2. ASSUME NEW t \in Addresses, CloneWithoutArgs(src, dst, t)
          PROVE  TypeOK'
      <3>1. [CopyMode(src) EXCEPT !.hostTiling = t] \in KernelInfoType
        BY <2>0 DEF KernelInfoType
      <3>2. info[src].hostTiling \in Addresses
        BY <2>2 DEF CloneWithoutArgs, CopyTiling, ReadyInv, KernelInfoType
      <3>3. live' \subseteq Addresses
        BY <2>2 DEF CloneWithoutArgs, Reallocate, Addresses
      <3> QED
        BY <2>2, <3>1, <3>2, <3>3 DEF CloneWithoutArgs
    <2>3. ASSUME NEW t \in Addresses, NEW a \in Blocks,
                 CloneSucceeds(src, dst, t, a)
          PROVE  TypeOK'
      <3>1. [CopyMode(src) EXCEPT !.hostTiling = t, !.args = a,
                   !.initFlag = TRUE, !.desc = info[src].desc] \in KernelInfoType
        BY <2>0 DEF KernelInfoType
      <3>2. info[src].hostTiling \in Addresses /\ info[src].args \in Addresses
        BY <2>3 DEF CloneSucceeds, CopyTiling, ReadyInv, KernelInfoType, Addresses
      <3>3. live' \subseteq Addresses
        BY <2>3 DEF CloneSucceeds, Reallocate, Addresses
      <3>4. a \in Addresses
        BY DEF Addresses
      <3>5. content' \in [Addresses -> Launches \cup {Blank}]
        BY <2>3, <3>2 DEF CloneSucceeds
      <3> QED
        BY <2>3, <3>1, <3>3, <3>5 DEF CloneSucceeds
    <2> QED
      BY <1>3, <2>1, <2>2, <2>3 DEF CloneStep
  <1>4. ASSUME NEW b \in CallerBuffers, CallerAllocates(b) \/ CallerFrees(b)
        PROVE  TypeOK'
    BY <1>0, <1>4 DEF CallerAllocates, CallerFrees, Addresses
  <1>5. CASE UNCHANGED vars
    BY <1>5 DEF vars
  <1> QED
    BY <1>1, <1>2, <1>3, <1>4, <1>5 DEF Next

(* Only InitSucceeds and CloneSucceeds set initFlag, with all pointers set. *)
LEMMA ReadyStep == TypeOK /\ ReadyInv /\ [Next]_vars => ReadyInv'
  <1> SUFFICES ASSUME TypeOK, ReadyInv, [Next]_vars PROVE ReadyInv'
    OBVIOUS
  <1> USE DEF TypeOK, ReadyInv
  <1>1. ASSUME NEW k \in Kernels, KernelStep(k) PROVE ReadyInv'
    <2>1. CASE Construct(k)
      BY <2>1 DEF Construct
    <2>2. CASE Destroy(k)
      BY <2>2 DEF Destroy, NewKernelInfo
    <2>3. CASE Reset(k)
      <3>1. ~AfterReset(info[k]).initFlag
        BY AfterResetFields
      <3> QED
        BY <2>3, <3>1 DEF Reset
    <2>4. ASSUME NEW flag \in BOOLEAN, SetLaunchWithTiling(k, flag)
          PROVE  ReadyInv'
      BY <2>4 DEF SetLaunchWithTiling, KernelInfoType
    <2>5. ASSUME NEW addr \in CallerBuffers, SetTilingHostAddr(k, addr)
          PROVE  ReadyInv'
      BY <2>5, AddressAssumption DEF SetTilingHostAddr, KernelInfoType
    <2> QED
      BY <1>1, <2>1, <2>2, <2>3, <2>4, <2>5 DEF KernelStep
  <1>2. ASSUME NEW k \in Kernels, InitStep(k) PROVE ReadyInv'
    <2> PICK l \in Launches, t \in Addresses, tl \in Blocks \cup {NULL} :
               \/ InitFails(k, l, t, tl)
               \/ \E a \in Blocks : InitSucceeds(k, l, t, tl, a)
      BY <1>2 DEF InitStep
    <2> DEFINE ki == Described(info[k], l, t, tl)
    <2>0. /\ ki \in KernelInfoType
          /\ ~ki.initFlag
          /\ ki.hostTiling = t
      <3>1. info[k] \in KernelInfoType
        OBVIOUS
      <3> QED
        BY <3>1, DescribedType, DescribedFields
    <2> HIDE DEF ki
    <2>1. CASE InitFails(k, l, t, tl)
      <3>1. info' = [info EXCEPT ![k] = ki]
        BY <2>1 DEF InitFails, ki
      <3> QED
        BY <2>0, <3>1
    <2>2. ASSUME NEW a \in Blocks, InitSucceeds(k, l, t, tl, a)
          PROVE  ReadyInv'
      <3>1. info' = [info EXCEPT ![k] = [ki EXCEPT !.args = a, !.initFlag = TRUE]]
        BY <2>2 DEF InitSucceeds, ki
      <3> QED
        BY <2>0, <3>1, AddressAssumption DEF KernelInfoType, Addresses
    <2> QED
      BY <2>1, <2>2
  <1>3. ASSUME NEW src \in Kernels, NEW dst \in Kernels, CloneStep(src, dst)
        PROVE  ReadyInv'
    <2>0. /\ CopyMode(src) \in KernelInfoType
          /\ ~CopyMode(src).initFlag
      BY NewKernelInfoType DEF CopyMode, KernelInfoType, NewKernelInfo
    <2>1. CASE CloneBlank(src, dst)
      BY <2>0, <2>1 DEF CloneBlank
    <2>2. ASSUME NEW t \in Addresses, CloneWithoutArgs(src, dst, t)
          PROVE  ReadyInv'
      BY <2>0, <2>2 DEF CloneWithoutArgs, KernelInfoType
    <2>3. ASSUME NEW t \in Addresses, NEW a \in Blocks,
                 CloneSucceeds(src, dst, t, a)
          PROVE  ReadyInv'
      <3> DEFINE ki == [CopyMode(src) EXCEPT !.hostTiling = t, !.args = a,
                              !.initFlag = TRUE, !.desc = info[src].desc]
      <3>1. ki.args # NULL /\ ki.hostTiling # NULL
        BY <2>0, AddressAssumption DEF KernelInfoType, Addresses
      <3>2. info' = [info EXCEPT ![dst] = ki]
        BY <2>3 DEF CloneSucceeds
      <3> QED
        BY <3>1, <3>2
    <2> QED
      BY <1>3, <2>1, <2>2, <2>3 DEF CloneStep
  <1>4. ASSUME NEW b \in CallerBuffers, CallerAllocates(b) \/ CallerFrees(b)
        PROVE  ReadyInv'
    BY <1>4 DEF CallerAllocates, CallerFrees
  <1>5. CASE UNCHANGED vars
    BY <1>5 DEF vars
  <1> QED
    BY <1>1, <1>2, <1>3, <1>4, <1>5 DEF Next

-----------------------------------------------------------------------------
(* The modes: only SetLaunchWithTiling can bring a caller's buffer and the  *)
(* tiling mode together, and it takes the kernel's initialisation away.     *)
PointersInv == ModesInv /\ TilingModeInv

(* Every step keeps the pointers consistent with the two modes.             *)
LEMMA PointersStep ==
  ASSUME TypeOK, PointersInv, [Next]_vars
  PROVE  PointersInv'
  <1> USE DEF TypeOK, PointersInv, ModesInv, TilingModeInv, Mistaken
  <1>1. ASSUME NEW k \in Kernels, KernelStep(k) PROVE PointersInv'
    <2>1. CASE Construct(k)
      BY <2>1 DEF Construct
    <2>2. CASE Destroy(k)
      <3>1. /\ NewKernelInfo.launchWithTiling = TRUE
            /\ NewKernelInfo.hostTiling = NULL
            /\ NewKernelInfo.tensorList = NULL
            /\ NewKernelInfo.initFlag = FALSE
        BY DEF NewKernelInfo
      <3> QED
        BY <2>2, <3>1, AddressAssumption DEF Destroy
    <2>3. CASE Reset(k)
      <3> DEFINE ki == AfterReset(info[k])
      <3>1. /\ ki.launchWithTiling = info[k].launchWithTiling
            /\ ki.launchWithTensorlist = info[k].launchWithTensorlist
            /\ ~ki.initFlag
            /\ ki.hostTiling = IF info[k].launchWithTiling THEN NULL
                               ELSE info[k].hostTiling
            /\ ki.tensorList = IF info[k].launchWithTensorlist THEN NULL
                               ELSE info[k].tensorList
        BY AfterResetFields
      <3> HIDE DEF ki
      <3>2. info' = [info EXCEPT ![k] = ki] /\ k \in kernels /\ kernels' = kernels
        BY <2>3 DEF Reset, ki
      <3> QED
        BY <3>1, <3>2, AddressAssumption
    <2>4. ASSUME NEW flag \in BOOLEAN, SetLaunchWithTiling(k, flag)
          PROVE  PointersInv'
      <3> DEFINE ki == [info[k] EXCEPT !.launchWithTiling = flag, !.initFlag = FALSE,
                                       !.hostTiling = IF flag THEN @ ELSE NULL]
      <3>1. /\ ki.launchWithTiling = flag
            /\ ki.launchWithTensorlist = info[k].launchWithTensorlist
            /\ ki.hostTiling = IF flag THEN info[k].hostTiling ELSE NULL
            /\ ki.tensorList = info[k].tensorList
            /\ ki.initFlag = FALSE
        BY DEF KernelInfoType
      <3> HIDE DEF ki
      <3>2. info' = [info EXCEPT ![k] = ki] /\ k \in kernels /\ kernels' = kernels
        BY <2>4 DEF SetLaunchWithTiling, ki
      <3>3. ~flag => ki.hostTiling = NULL
        BY <3>1
      <3> QED
        BY <3>1, <3>2, <3>3, AddressAssumption
    <2>5. ASSUME NEW addr \in CallerBuffers, SetTilingHostAddr(k, addr)
          PROVE  PointersInv'
      BY <2>5, AddressAssumption DEF SetTilingHostAddr, KernelInfoType
    <2> QED
      BY <1>1, <2>1, <2>2, <2>3, <2>4, <2>5 DEF KernelStep
  <1>2. ASSUME NEW k \in Kernels, InitStep(k) PROVE PointersInv'
    <2> PICK l \in Launches, t \in Addresses, tl \in Blocks \cup {NULL} :
               \/ InitFails(k, l, t, tl)
               \/ \E a \in Blocks : InitSucceeds(k, l, t, tl, a)
      BY <1>2 DEF InitStep
    <2> DEFINE ki == Described(info[k], l, t, tl)
    <2>0. /\ ki \in KernelInfoType
          /\ ki.launchWithTiling = info[k].launchWithTiling
          /\ ki.hostTiling = t
          /\ ki.tensorList = tl
      <3>1. info[k] \in KernelInfoType
        OBVIOUS
      <3> QED
        BY <3>1, DescribedType, DescribedFields
    <2>a. ki.launchWithTensorlist = (tl # NULL)
      BY DescribedListMode
    <2> HIDE DEF ki
    <2>1. InitBuffers(k, t, tl)
      BY DEF InitFails, InitSucceeds
    <2>2. /\ k \in kernels
          /\ ki.launchWithTiling => t \in Blocks
          /\ ~ki.launchWithTiling => t \in CallerBuffers
          /\ ~ki.launchWithTensorlist => tl = NULL
      BY <2>0, <2>a, <2>1, AddressAssumption
         DEF InitBuffers, Fresh, KernelInfoType, Addresses
    <2>3. kernels' = kernels
      BY DEF InitFails, InitSucceeds
    <2>4. CASE InitFails(k, l, t, tl)
      <3>1. info' = [info EXCEPT ![k] = ki]
        BY <2>4 DEF InitFails, ki
      <3> QED
        BY <2>0, <2>2, <2>3, <3>1, AddressAssumption
    <2>5. ASSUME NEW a \in Blocks, InitSucceeds(k, l, t, tl, a)
          PROVE  PointersInv'
      <3> DEFINE kj == [ki EXCEPT !.args = a, !.initFlag = TRUE]
      <3>1. /\ kj.launchWithTiling = ki.launchWithTiling
            /\ kj.launchWithTensorlist = ki.launchWithTensorlist
            /\ kj.hostTiling = t /\ kj.tensorList = tl
        BY <2>0 DEF KernelInfoType
      <3>2. info' = [info EXCEPT ![k] = kj]
        BY <2>5 DEF InitSucceeds, ki
      <3> HIDE DEF kj
      <3> QED
        BY <2>2, <2>3, <3>1, <3>2, AddressAssumption
    <2> QED
      BY <2>4, <2>5
  <1>3. ASSUME NEW src \in Kernels, NEW dst \in Kernels, CloneStep(src, dst)
        PROVE  PointersInv'
    <2>0. /\ CopyMode(src) \in KernelInfoType
          /\ CopyMode(src).launchWithTiling = info[src].launchWithTiling
          /\ CopyMode(src).launchWithTensorlist = FALSE
          /\ CopyMode(src).hostTiling = NULL
          /\ CopyMode(src).tensorList = NULL
          /\ ~CopyMode(src).initFlag
      BY NewKernelInfoType DEF CopyMode, KernelInfoType, NewKernelInfo
    <2>1. CASE CloneBlank(src, dst)
      BY <2>0, <2>1, AddressAssumption DEF CloneBlank
    <2>2. ASSUME NEW t \in Addresses, CopyTiling(src, dst, t)
          PROVE  /\ info[src].launchWithTiling => t \in Blocks
                 /\ ~info[src].launchWithTiling => t \in CallerBuffers \cup {NULL}
      BY <2>2 DEF CopyTiling, Fresh
    <2>3. ASSUME NEW t \in Addresses, CloneWithoutArgs(src, dst, t)
          PROVE  PointersInv'
      <3> DEFINE ki == [CopyMode(src) EXCEPT !.hostTiling = t]
      <3>1. /\ ki.launchWithTiling = info[src].launchWithTiling
            /\ ki.hostTiling = t /\ ki.tensorList = NULL
        BY <2>0 DEF KernelInfoType
      <3>2. info' = [info EXCEPT ![dst] = ki] /\ kernels' = kernels \cup {dst}
        BY <2>3 DEF CloneWithoutArgs
      <3>3. CopyTiling(src, dst, t)
        BY <2>3 DEF CloneWithoutArgs
      <3> HIDE DEF ki
      <3> QED
        BY <2>2, <3>1, <3>2, <3>3, AddressAssumption
    <2>4. ASSUME NEW t \in Addresses, NEW a \in Blocks,
                 CloneSucceeds(src, dst, t, a)
          PROVE  PointersInv'
      <3> DEFINE ki == [CopyMode(src) EXCEPT !.hostTiling = t, !.args = a,
                              !.initFlag = TRUE, !.desc = info[src].desc]
      <3>1. /\ ki.launchWithTiling = info[src].launchWithTiling
            /\ ki.hostTiling = t /\ ki.tensorList = NULL
        BY <2>0 DEF KernelInfoType
      <3>2. info' = [info EXCEPT ![dst] = ki] /\ kernels' = kernels \cup {dst}
        BY <2>4 DEF CloneSucceeds
      <3>3. CopyTiling(src, dst, t)
        BY <2>4 DEF CloneSucceeds
      <3> HIDE DEF ki
      <3> QED
        BY <2>2, <3>1, <3>2, <3>3, AddressAssumption
    <2> QED
      BY <1>3, <2>1, <2>3, <2>4 DEF CloneStep
  <1>4. ASSUME NEW b \in CallerBuffers, CallerAllocates(b) \/ CallerFrees(b)
        PROVE  PointersInv'
    BY <1>4 DEF CallerAllocates, CallerFrees
  <1>5. CASE UNCHANGED vars
    BY <1>5 DEF vars
  <1> QED
    BY <1>1, <1>2, <1>3, <1>4, <1>5 DEF Next

-----------------------------------------------------------------------------
(* One kernel gives back what it owned and takes what nobody owned; the     *)
(* other kernels keep their pointers.                                       *)
Exchanges(k) ==
  /\ \A j \in Kernels \ {k} : info'[j] = info[j]
  /\ Owned(info'[k]) \subseteq Blocks \ (live \ Owns(k))
  /\ live' \cap Blocks = ((live \cap Blocks) \ Owns(k)) \cup Owned(info'[k])
  /\ PointersDistinct(info'[k])

(* A step in which one kernel takes free blocks or gives its own back keeps *)
(* the ownership of every other kernel.                                     *)
LEMMA ExchangeKeepsOwnership ==
  ASSUME NEW k \in Kernels, OwnershipInv, Exchanges(k)
  PROVE  OwnershipInv'
  <1> DEFINE own(j) == Owned(info'[j])
  <1>1. \A j \in Kernels \ {k} : own(j) = Owns(j) /\ info'[j] = info[j]
    BY DEF Exchanges, Owns, Owned
  <1>2. /\ own(k) \subseteq Blocks \ (live \ Owns(k))
        /\ live' \cap Blocks = ((live \cap Blocks) \ Owns(k)) \cup own(k)
        /\ PointersDistinct(info'[k])
    BY DEF Exchanges
  <1>3. /\ \A j \in Kernels : Owns(j) \subseteq live \cap Blocks
        /\ \A j1, j2 \in Kernels : j1 # j2 => Owns(j1) \cap Owns(j2) = {}
        /\ \A p \in live \cap Blocks : \E j \in Kernels : p \in Owns(j)
        /\ \A j \in Kernels : PointersDistinct(info[j])
    BY DEF OwnershipInv
  <1>4. \A j \in Kernels : PointersDistinct(info'[j])
    BY <1>1, <1>2, <1>3
  <1> HIDE DEF own
  <1>5. \A j \in Kernels : own(j) \subseteq live' \cap Blocks
    BY <1>1, <1>2, <1>3
  <1>6. \A j1, j2 \in Kernels : j1 # j2 => own(j1) \cap own(j2) = {}
    BY <1>1, <1>2, <1>3
  <1>7. \A p \in live' \cap Blocks : \E j \in Kernels : p \in own(j)
    BY <1>1, <1>2, <1>3
  <1> QED
    BY <1>4, <1>5, <1>6, <1>7 DEF OwnershipInv, Owns, own

(* A step that leaves the pointers alone and touches no library block.      *)
LEMMA SameOwnership ==
  ASSUME OwnershipInv, info' = info, live' \cap Blocks = live \cap Blocks
  PROVE  OwnershipInv'
  BY DEF OwnershipInv, Owns

(* A reset kernel owns nothing, and neither does one that does not exist.   *)
LEMMA ResetOwnsNothing ==
  ASSUME NEW ki \in KernelInfoType
  PROVE  Owned(AfterReset(ki)) = {} /\ Owned(NewKernelInfo) = {}
  <1>1. /\ AfterReset(ki).args = NULL
        /\ ki.launchWithTiling => AfterReset(ki).hostTiling = NULL
        /\ ki.launchWithTensorlist => AfterReset(ki).tensorList = NULL
        /\ AfterReset(ki).launchWithTiling = ki.launchWithTiling
        /\ AfterReset(ki).launchWithTensorlist = ki.launchWithTensorlist
    BY AfterResetFields
  <1>2. NULL \notin Addresses
    BY AddressAssumption DEF Addresses
  <1>3. Owned(AfterReset(ki)) = {}
    BY <1>1, <1>2 DEF Owned, Deleted
  <1>4. Owned(NewKernelInfo) = {}
    BY <1>2 DEF Owned, Deleted, NewKernelInfo
  <1> QED
    BY <1>3, <1>4

(* What a kernel with given pointers owns.                                  *)
LEMMA OwnedPointers ==
  ASSUME NEW ki \in KernelInfoType,
         ~ki.launchWithTensorlist => ki.tensorList = NULL,
         ~ki.launchWithTiling => ki.hostTiling \notin Blocks
  PROVE  Owned(ki) = {ki.args, ki.hostTiling, ki.tensorList} \cap Blocks
  BY AddressAssumption DEF Owned, Deleted, KernelInfoType, Addresses

(* In the reachable states a kernel owns the blocks it points to.           *)
LEMMA OwnsPointers ==
  ASSUME TypeOK, PointersInv, NEW k \in Kernels
  PROVE  Owns(k) = {info[k].args, info[k].hostTiling, info[k].tensorList} \cap Blocks
  <1>1. /\ info[k] \in KernelInfoType
        /\ ~info[k].launchWithTensorlist => info[k].tensorList = NULL
        /\ ~info[k].launchWithTiling => info[k].hostTiling \notin Blocks
    BY AddressAssumption DEF TypeOK, PointersInv, ModesInv
  <1> QED
    BY <1>1, OwnedPointers DEF Owns

(* The same of the state after a step.                                      *)
LEMMA OwnsPointersNext ==
  ASSUME TypeOK', PointersInv', NEW k \in Kernels
  PROVE  Owned(info'[k]) =
           {info'[k].args, info'[k].hostTiling, info'[k].tensorList} \cap Blocks
  <1>1. /\ info'[k] \in KernelInfoType
        /\ ~info'[k].launchWithTensorlist => info'[k].tensorList = NULL
        /\ ~info'[k].launchWithTiling => info'[k].hostTiling \notin Blocks
    BY AddressAssumption DEF TypeOK, PointersInv, ModesInv
  <1> QED
    BY <1>1, OwnedPointers

(* Construction, destruction, Reset and the setters only free blocks.       *)
LEMMA KernelStepExchanges ==
  ASSUME TypeOK, PointersInv, OwnershipInv,
         NEW k \in Kernels, KernelStep(k),
         TypeOK', PointersInv'
  PROVE  Exchanges(k)
  <1> USE DEF TypeOK
  <1>0. /\ info[k] \in KernelInfoType
        /\ info'[k] \in KernelInfoType
        /\ NULL \notin Blocks
        /\ Owns(k) \subseteq live \cap Blocks
        /\ PointersDistinct(info[k])
        /\ Owns(k) = {info[k].args, info[k].hostTiling, info[k].tensorList} \cap Blocks
    BY OwnsPointers, AddressAssumption DEF OwnershipInv
  <1>1. CASE Construct(k)
    BY <1>0, <1>1 DEF Construct, Exchanges, Owns
  <1>2. CASE Destroy(k) \/ Reset(k)
    <2>1. /\ \A j \in Kernels \ {k} : info'[j] = info[j]
          /\ info'[k] \in {NewKernelInfo, AfterReset(info[k])}
          /\ live' = live \ Deleted(info[k])
      BY <1>2 DEF Destroy, Reset, Reallocate
    <2>2. Owned(info'[k]) = {}
      BY <1>0, <2>1, ResetOwnsNothing
    <2>3. /\ NewKernelInfo.args = NULL
          /\ NewKernelInfo.tensorList = NULL
          /\ AfterReset(info[k]).args = NULL
          /\ AfterReset(info[k]).tensorList = NULL
      BY <1>0, AfterResetFields DEF PointersInv, ModesInv, NewKernelInfo
    <2>4. PointersDistinct(info'[k])
      BY <2>1, <2>3 DEF PointersDistinct
    <2> QED
      BY <2>1, <2>2, <2>4 DEF Exchanges, Owns, Owned
  <1>3. ASSUME NEW flag \in BOOLEAN, SetLaunchWithTiling(k, flag)
        PROVE  Exchanges(k)
    <2> DEFINE ki == [info[k] EXCEPT !.launchWithTiling = flag, !.initFlag = FALSE,
                                     !.hostTiling = IF flag THEN @ ELSE NULL]
    <2>1. /\ ki \in KernelInfoType
          /\ ki.args = info[k].args
          /\ ki.tensorList = info[k].tensorList
          /\ ki.hostTiling = IF flag THEN info[k].hostTiling ELSE NULL
      <3>1. CASE flag = TRUE
        BY <1>0, <3>1 DEF KernelInfoType
      <3>2. CASE flag = FALSE
        BY <1>0, <3>2 DEF KernelInfoType
      <3> QED
        BY <3>1, <3>2
    <2>2. info' = [info EXCEPT ![k] = ki]
      BY <1>3 DEF SetLaunchWithTiling
    <2> HIDE DEF ki
    <2>3. /\ info'[k] = ki
          /\ \A j \in Kernels \ {k} : info'[j] = info[j]
          /\ live' = live \ (IF flag THEN {} ELSE {info[k].hostTiling})
      BY <1>3, <2>2 DEF SetLaunchWithTiling, Reallocate
    <2>4. Owned(info'[k]) =
            {info'[k].args, info'[k].hostTiling, info'[k].tensorList} \cap Blocks
      BY OwnsPointersNext
    <2> QED
      BY <1>0, <2>1, <2>3, <2>4 DEF Exchanges, PointersDistinct, KernelInfoType
  <1>4. ASSUME NEW addr \in CallerBuffers, SetTilingHostAddr(k, addr)
        PROVE  Exchanges(k)
    <2>1. /\ info'[k].args = info[k].args
          /\ info'[k].tensorList = info[k].tensorList
          /\ info'[k].hostTiling = addr
          /\ \A j \in Kernels \ {k} : info'[j] = info[j]
          /\ live' = live
          /\ addr \notin Blocks
          /\ info[k].hostTiling \notin Blocks
      BY <1>4, AddressAssumption
         DEF SetTilingHostAddr, KernelInfoType, PointersInv, ModesInv
    <2>2. Owned(info'[k]) = Owns(k)
      BY <1>0, <2>1, OwnsPointersNext
    <2>3. PointersDistinct(info'[k])
      BY <1>0, <2>1 DEF PointersDistinct, KernelInfoType
    <2> QED
      BY <1>0, <2>1, <2>2, <2>3 DEF Exchanges
  <1> QED
    BY <1>1, <1>2, <1>3, <1>4 DEF KernelStep

(* Init frees the old buffers of its kernel and takes free blocks.          *)
LEMMA InitStepExchanges ==
  ASSUME TypeOK, PointersInv, OwnershipInv, NEW k \in Kernels, InitStep(k),
         TypeOK', PointersInv'
  PROVE  Exchanges(k)
  <1> USE DEF TypeOK
  <1> PICK l \in Launches, t \in Addresses, tl \in Blocks \cup {NULL} :
             \/ InitFails(k, l, t, tl)
             \/ \E a \in Blocks : InitSucceeds(k, l, t, tl, a)
    BY DEF InitStep
  <1> DEFINE ki == Described(info[k], l, t, tl)
             free == Blocks \ (live \ Owns(k))
  <1>1. /\ ki \in KernelInfoType
        /\ ki.args = NULL
        /\ ki.hostTiling = t
        /\ ki.tensorList = tl
    <2>1. info[k] \in KernelInfoType
      OBVIOUS
    <2> QED
      BY <2>1, DescribedType, DescribedFields
  <1>2. /\ t \in free \/ t \in CallerBuffers
        /\ tl \in free \ {t} \/ tl = NULL
    <2>1. InitBuffers(k, t, tl)
      BY DEF InitFails, InitSucceeds
    <2>2. ~info[k].launchWithTiling => info[k].hostTiling \in CallerBuffers \cup {NULL}
      BY DEF PointersInv, ModesInv
    <2> QED
      BY <2>1, <2>2, AddressAssumption DEF InitBuffers, Fresh, Owns, Owned, Addresses
  <1> HIDE DEF ki, free
  <1>3. /\ NULL \notin Blocks
        /\ \A c \in CallerBuffers : c \notin Blocks /\ c # NULL
        /\ free \subseteq Blocks
        /\ Owns(k) \subseteq live \cap Blocks
        /\ Owned(info'[k]) =
             {info'[k].args, info'[k].hostTiling, info'[k].tensorList} \cap Blocks
    BY OwnsPointersNext, AddressAssumption DEF OwnershipInv, free
  <1>4. CASE InitFails(k, l, t, tl)
    <2>1. /\ info'[k] = ki
          /\ \A j \in Kernels \ {k} : info'[j] = info[j]
          /\ live' \cap Blocks = ((live \cap Blocks) \ Owns(k)) \cup ({t, tl} \cap Blocks)
      BY <1>4 DEF InitFails, Reallocate, Owns, Owned, ki
    <2> QED
      BY <1>1, <1>2, <1>3, <2>1 DEF Exchanges, PointersDistinct, free
  <1>5. ASSUME NEW a \in Blocks, InitSucceeds(k, l, t, tl, a)
        PROVE  Exchanges(k)
    <2>1. info' = [info EXCEPT ![k] = [ki EXCEPT !.args = a, !.initFlag = TRUE]]
      BY <1>5 DEF InitSucceeds, ki
    <2>2. /\ info'[k].args = a
          /\ info'[k].hostTiling = t
          /\ info'[k].tensorList = tl
          /\ \A j \in Kernels \ {k} : info'[j] = info[j]
      BY <1>1, <2>1 DEF KernelInfoType
    <2>3. /\ live' \cap Blocks = ((live \cap Blocks) \ Owns(k)) \cup ({t, tl, a} \cap Blocks)
          /\ a \in free \ {t, tl}
      BY <1>5 DEF InitSucceeds, Reallocate, Owns, Owned, Fresh, free
    <2> QED
      BY <1>2, <1>3, <2>2, <2>3 DEF Exchanges, PointersDistinct, free
  <1> QED
    BY <1>4, <1>5

(* Clone takes free blocks for the new kernel, never the source's.          *)
LEMMA CloneStepExchanges ==
  ASSUME TypeOK, PointersInv, OwnershipInv,
         NEW src \in Kernels, NEW dst \in Kernels, CloneStep(src, dst),
         TypeOK', PointersInv'
  PROVE  Exchanges(dst)
  <1> USE DEF TypeOK
  <1>1. /\ dst \notin kernels
        /\ info[dst] = NewKernelInfo
    BY DEF CloneStep, CloneBlank, CloneWithoutArgs, CloneSucceeds, CopyTiling,
           PointersInv, ModesInv
  <1>2. Owns(dst) = {}
    <2>1. info[dst] \in KernelInfoType
      OBVIOUS
    <2> QED
      BY <1>1, <2>1, ResetOwnsNothing DEF Owns
  <1>3. /\ CopyMode(src) \in KernelInfoType
        /\ CopyMode(src).args = NULL
        /\ CopyMode(src).hostTiling = NULL
        /\ CopyMode(src).tensorList = NULL
    BY NewKernelInfoType DEF CopyMode, KernelInfoType, NewKernelInfo
  <1>4. /\ NULL \notin Blocks
        /\ \A c \in CallerBuffers : c \notin Blocks /\ c # NULL
        /\ Owned(info'[dst]) =
             {info'[dst].args, info'[dst].hostTiling, info'[dst].tensorList} \cap Blocks
    BY OwnsPointersNext, AddressAssumption
  <1>5. ASSUME NEW t \in Addresses, CopyTiling(src, dst, t)
        PROVE  t \in Blocks \ live \/ t \in CallerBuffers
    BY <1>5, AddressAssumption
       DEF CopyTiling, Fresh, PointersInv, ModesInv, Addresses
  <1>6. CASE CloneBlank(src, dst)
    <2>1. /\ info'[dst] = CopyMode(src)
          /\ \A j \in Kernels \ {dst} : info'[j] = info[j]
          /\ live' = live
      BY <1>6 DEF CloneBlank
    <2> QED
      BY <1>2, <1>3, <1>4, <2>1 DEF Exchanges, PointersDistinct
  <1>7. ASSUME NEW t \in Addresses, CloneWithoutArgs(src, dst, t)
        PROVE  Exchanges(dst)
    <2>1. /\ info' = [info EXCEPT ![dst] = [CopyMode(src) EXCEPT !.hostTiling = t]]
          /\ live' = live \cup ({t} \cap Blocks)
          /\ t \in Blocks \ live \/ t \in CallerBuffers
      BY <1>5, <1>7 DEF CloneWithoutArgs, Reallocate
    <2>2. /\ info'[dst].args = NULL
          /\ info'[dst].hostTiling = t
          /\ info'[dst].tensorList = NULL
          /\ \A j \in Kernels \ {dst} : info'[j] = info[j]
      BY <1>3, <2>1 DEF KernelInfoType
    <2> QED
      BY <1>2, <1>4, <2>1, <2>2 DEF Exchanges, PointersDistinct
  <1>8. ASSUME NEW t \in Addresses, NEW a \in Blocks, CloneSucceeds(src, dst, t, a)
        PROVE  Exchanges(dst)
    <2>1. /\ info' = [info EXCEPT ![dst] =
                        [CopyMode(src) EXCEPT !.hostTiling = t, !.args = a,
                              !.initFlag = TRUE, !.desc = info[src].desc]]
          /\ live' = live \cup ({t, a} \cap Blocks)
          /\ t \in Blocks \ live \/ t \in CallerBuffers
          /\ a \in (Blocks \ live) \ {t}
      BY <1>5, <1>8 DEF CloneSucceeds, Reallocate, Fresh
    <2>2. /\ info'[dst].args = a
          /\ info'[dst].hostTiling = t
          /\ info'[dst].tensorList = NULL
          /\ \A j \in Kernels \ {dst} : info'[j] = info[j]
      BY <1>3, <2>1 DEF KernelInfoType
    <2> QED
      BY <1>2, <1>4, <2>1, <2>2 DEF Exchanges, PointersDistinct
  <1> QED
    BY <1>6, <1>7, <1>8 DEF CloneStep

-----------------------------------------------------------------------------
IInv == TypeOK /\ ReadyInv /\ PointersInv /\ OwnershipInv

(* Without kernels the invariant holds.                                     *)
LEMMA InitiallyIInv == Init => IInv
  <1> SUFFICES ASSUME Init PROVE IInv
    OBVIOUS
  <1>1. NewKernelInfo \in KernelInfoType
    BY NewKernelInfoType
  <1>2. /\ NewKernelInfo.launchWithTiling
        /\ NewKernelInfo.hostTiling = NULL
        /\ NewKernelInfo.tensorList = NULL
        /\ NewKernelInfo.args = NULL
        /\ ~NewKernelInfo.initFlag
    BY DEF NewKernelInfo
  <1>3. Owned(NewKernelInfo) = {}
    BY <1>1, ResetOwnsNothing
  <1>4. TypeOK
    BY <1>1 DEF Init, TypeOK
  <1>5. ReadyInv /\ PointersInv
    BY <1>2, AddressAssumption
       DEF Init, ReadyInv, PointersInv, ModesInv, TilingModeInv
  <1>6. OwnershipInv
    BY <1>2, <1>3 DEF Init, OwnershipInv, Owns, PointersDistinct
  <1> QED
    BY <1>4, <1>5, <1>6 DEF IInv

(* Every step keeps the invariant, whatever the callers do.                 *)
LEMMA IInvStep ==
  ASSUME IInv, [Next]_vars
  PROVE  IInv'
  <1>1. TypeOK'
    BY TypeStep DEF IInv
  <1>2. ReadyInv'
    BY ReadyStep DEF IInv
  <1>3. PointersInv'
    BY PointersStep DEF IInv
  <1> USE <1>1, <1>3 DEF IInv
  <1>4. ASSUME NEW k \in Kernels, KernelStep(k) PROVE OwnershipInv'
    BY <1>4, KernelStepExchanges, ExchangeKeepsOwnership
  <1>5. ASSUME NEW k \in Kernels, InitStep(k) PROVE OwnershipInv'
    BY <1>5, InitStepExchanges, ExchangeKeepsOwnership
  <1>6. ASSUME NEW src \in Kernels, NEW dst \in Kernels, CloneStep(src, dst)
        PROVE  OwnershipInv'
    BY <1>6, CloneStepExchanges, ExchangeKeepsOwnership
  <1>7. ASSUME NEW b \in CallerBuffers, CallerAllocates(b) \/ CallerFrees(b)
        PROVE  OwnershipInv'
    <2>1. info' = info /\ live' \cap Blocks = live \cap Blocks
      BY <1>7, AddressAssumption DEF CallerAllocates, CallerFrees
    <2> QED
      BY <2>1, SameOwnership
  <1>8. ASSUME UNCHANGED vars PROVE OwnershipInv'
    <2>1. info' = info /\ live' = live
      BY <1>8 DEF vars
    <2>2. live' \cap Blocks = live \cap Blocks
      BY <2>1
    <2> QED
      BY <2>1, <2>2, SameOwnership
  <1>9. OwnershipInv'
    BY <1>4, <1>5, <1>6, <1>7, <1>8 DEF Next
  <1> QED
    BY <1>2, <1>9

(* Type correctness rests on ReadyInv only: a clone reads the pointers of   *)
(* an initialised kernel.                                                   *)
THEOREM TypeCorrect == Spec => []TypeOK
  <1>1. Init => TypeOK /\ ReadyInv
    BY InitiallyIInv DEF IInv
  <1>2. TypeOK /\ ReadyInv /\ [Next]_vars => (TypeOK /\ ReadyInv)'
    BY TypeStep, ReadyStep
  <1> QED
    BY <1>1, <1>2, PTL DEF Spec

(* The inductive invariant behind the safety theorems: the pointers follow  *)
(* the modes, and the library blocks that live are owned once.              *)
THEOREM InductiveInvariant ==
  Spec => []IInv
  <1>1. IInv /\ [Next]_vars => IInv'
    BY IInvStep
  <1> QED
    BY <1>1, InitiallyIInv, PTL DEF Spec

(* No double delete and no use after delete, for any number of kernels,     *)
(* clones and blocks, whatever modes the callers switch them to.            *)
THEOREM BuffersOwnedOnce ==
  Spec => []OwnedOnce
  <1>1. IInv => OwnedOnce
    BY DEF IInv, OwnershipInv, OwnedOnce, Owns, Owned, TypeOK
  <1> QED
    BY <1>1, InductiveInvariant, PTL

(* Every allocated block will be deleted by a kernel that exists.           *)
THEOREM NothingLeaks ==
  Spec => []NoLeak
  <1>1. IInv => NoLeak
    <2> SUFFICES ASSUME IInv, NEW p \in live \cap Blocks
                 PROVE  \E k \in kernels : p \in Owned(info[k])
      BY DEF NoLeak, Owned
    <2>1. PICK k \in Kernels : p \in Owns(k)
      BY DEF IInv, OwnershipInv
    <2>2. k \in kernels
      <3>1. SUFFICES ASSUME k \notin kernels PROVE FALSE
        OBVIOUS
      <3>2. info[k] \in KernelInfoType /\ info[k] = NewKernelInfo
        BY <3>1 DEF IInv, TypeOK, PointersInv, ModesInv
      <3> QED
        BY <2>1, <3>2, ResetOwnsNothing DEF Owns
    <2> QED
      BY <2>1, <2>2 DEF Owns
  <1> QED
    BY <1>1, InductiveInvariant, PTL

-----------------------------------------------------------------------------
(* A kernel deletes a caller's buffer only when it is mistaken about it, and *)
(* points to it no longer afterwards.                                       *)
LEMMA CallerBuffersStep ==
  ASSUME IInv, [Next]_vars
  PROVE  \A b \in CallerBuffers :
           b \in live /\ b \notin live' =>
             \/ UNCHANGED <<kernels, info>>
             \/ \E k \in kernels :
                  /\ Mistaken(info[k]) /\ info[k].hostTiling = b
                  /\ info'[k].hostTiling # b
  <1> SUFFICES ASSUME NEW b \in CallerBuffers, b \in live, b \notin live'
               PROVE  \/ UNCHANGED <<kernels, info>>
                      \/ \E k \in kernels :
                           /\ Mistaken(info[k]) /\ info[k].hostTiling = b
                           /\ info'[k].hostTiling # b
    OBVIOUS
  <1>0. /\ info \in [Kernels -> KernelInfoType]
        /\ b # NULL /\ b \notin Blocks /\ b \in Addresses
    BY AddressAssumption DEF IInv, TypeOK, Addresses
  <1>1. ASSUME NEW k \in Kernels, b \in Deleted(info[k])
        PROVE  Mistaken(info[k]) /\ info[k].hostTiling = b
    BY <1>0, <1>1 DEF Deleted, Mistaken, KernelInfoType
  <1>2. ASSUME NEW k \in Kernels, KernelStep(k)
        PROVE  /\ k \in kernels /\ Mistaken(info[k]) /\ info[k].hostTiling = b
               /\ info'[k].hostTiling # b
    <2>1. CASE Construct(k)
      BY <2>1 DEF Construct
    <2>2. CASE Destroy(k) \/ Reset(k)
      <3>1. /\ b \in Deleted(info[k]) /\ k \in kernels
            /\ info'[k] \in {NewKernelInfo, AfterReset(info[k])}
        BY <1>0, <2>2 DEF Destroy, Reset, Reallocate
      <3>2. Mistaken(info[k]) /\ info[k].hostTiling = b
        BY <1>1, <3>1
      <3>3. NewKernelInfo.hostTiling = NULL
        BY DEF NewKernelInfo
      <3>4. AfterReset(info[k]).hostTiling = NULL
        BY <1>0, <3>2, AfterResetFields DEF Mistaken
      <3> QED
        BY <1>0, <3>1, <3>2, <3>3, <3>4
    <2>3. ASSUME NEW flag \in BOOLEAN, SetLaunchWithTiling(k, flag)
          PROVE  /\ k \in kernels /\ Mistaken(info[k]) /\ info[k].hostTiling = b
                 /\ info'[k].hostTiling # b
      <3>1. ~flag /\ info[k].hostTiling = b /\ k \in kernels
        BY <2>3 DEF SetLaunchWithTiling, Reallocate
      <3>2. info[k].launchWithTiling
        BY <1>0, <2>3, <3>1 DEF SetLaunchWithTiling, KernelInfoType
      <3>3. info'[k].hostTiling = NULL
        BY <1>0, <2>3, <3>1 DEF SetLaunchWithTiling, KernelInfoType
      <3> QED
        BY <1>0, <3>1, <3>2, <3>3 DEF Mistaken
    <2>4. ASSUME NEW addr \in CallerBuffers, SetTilingHostAddr(k, addr)
          PROVE  FALSE
      BY <2>4 DEF SetTilingHostAddr
    <2> QED
      BY <1>2, <2>1, <2>2, <2>3, <2>4 DEF KernelStep
  <1>3. ASSUME NEW k \in Kernels, InitStep(k)
        PROVE  /\ k \in kernels /\ Mistaken(info[k]) /\ info[k].hostTiling = b
               /\ info'[k].hostTiling # b
    <2> PICK l \in Launches, t \in Addresses, tl \in Blocks \cup {NULL} :
               \/ InitFails(k, l, t, tl)
               \/ \E a \in Blocks : InitSucceeds(k, l, t, tl, a)
      BY <1>3 DEF InitStep
    <2>1. b \in Deleted(info[k]) /\ InitBuffers(k, t, tl)
      BY <1>0 DEF InitFails, InitSucceeds, Reallocate
    <2>2. /\ k \in kernels /\ Mistaken(info[k]) /\ info[k].hostTiling = b
          /\ t \in Blocks
      BY <1>1, <2>1 DEF InitBuffers, Fresh, Mistaken
    <2>3. info'[k].hostTiling = t
      <3> DEFINE ki == Described(info[k], l, t, tl)
      <3>1. ki \in KernelInfoType /\ ki.hostTiling = t
        <4>1. info[k] \in KernelInfoType
          BY <1>0
        <4> QED
          BY <4>1, DescribedType, DescribedFields
      <3>2. \/ info' = [info EXCEPT ![k] = ki]
            \/ \E a \in Blocks :
                 info' = [info EXCEPT ![k] = [ki EXCEPT !.args = a, !.initFlag = TRUE]]
        BY DEF InitFails, InitSucceeds
      <3> HIDE DEF ki
      <3> QED
        BY <1>0, <3>1, <3>2 DEF KernelInfoType
    <2> QED
      BY <1>0, <2>2, <2>3
  <1>4. ASSUME NEW src \in Kernels, NEW dst \in Kernels, CloneStep(src, dst)
        PROVE  FALSE
    BY <1>4 DEF CloneStep, CloneBlank, CloneWithoutArgs, CloneSucceeds, Reallocate
  <1>5. ASSUME NEW c \in CallerBuffers, CallerAllocates(c) \/ CallerFrees(c)
        PROVE  UNCHANGED <<kernels, info>>
    BY <1>5 DEF CallerAllocates, CallerFrees
  <1>6. CASE UNCHANGED vars
    BY <1>6 DEF vars
  <1> QED
    BY <1>2, <1>3, <1>4, <1>5, <1>6 DEF Next

(* A caller's buffer is freed by its caller, or once by a kernel that the   *)
(* caller switched back to the tiling mode with it: never by a clone, by a  *)
(* kernel out of the tiling mode or by an initialised one.                  *)
THEOREM CallerBuffersAreKept == Spec => CallerBuffersKept
  <1>1. IInv /\ [Next]_vars =>
          [ \A b \in CallerBuffers :
              b \in live /\ b \notin live' =>
                \/ UNCHANGED <<kernels, info>>
                \/ \E k \in kernels :
                     /\ Mistaken(info[k]) /\ info[k].hostTiling = b
                     /\ info'[k].hostTiling # b ]_vars
    BY CallerBuffersStep
  <1> QED
    BY <1>1, InductiveInvariant, PTL DEF Spec, CallerBuffersKept

-----------------------------------------------------------------------------
(* The data of an initialised kernel: in the tiling mode its arguments and  *)
(* its tiling hold the launch its description comes from.                   *)
Coherent(ki, mem) ==
  ki.initFlag =>
    /\ ki.desc \in Launches
    /\ ki.launchWithTiling => mem[ki.args] = ki.desc /\ mem[ki.hostTiling] = ki.desc

CoherentInv == \A k \in Kernels : Coherent(info[k], content)

(* A step of kernel k writes no block that another kernel owns.             *)
KeepsOthers(k) ==
  \A p \in (live \cap Blocks) \ Owns(k) : content'[p] = content[p]

(* What a step of another kernel leaves alone stays coherent: the blocks of *)
(* an initialised kernel are its own.                                       *)
LEMMA OthersStayCoherent ==
  ASSUME IInv, CoherentInv, NEW k \in Kernels, Exchanges(k), KeepsOthers(k),
         NEW j \in Kernels \ {k}
  PROVE  Coherent(info'[j], content')
  <1>1. info'[j] = info[j] /\ Coherent(info[j], content)
    BY DEF Exchanges, CoherentInv
  <1>2. SUFFICES ASSUME info[j].initFlag, info[j].launchWithTiling
                 PROVE  /\ content'[info[j].args] = content[info[j].args]
                        /\ content'[info[j].hostTiling] = content[info[j].hostTiling]
    BY <1>1 DEF Coherent
  <1>3. /\ info[j].args # NULL /\ info[j].hostTiling # NULL
        /\ info[j].hostTiling \notin CallerBuffers
    BY <1>2 DEF IInv, ReadyInv, PointersInv, TilingModeInv, Mistaken
  <1>4. info[j].args \in Blocks /\ info[j].hostTiling \in Blocks
    BY <1>3 DEF IInv, TypeOK, KernelInfoType, Addresses
  <1>5. info[j].args \in Owns(j) /\ info[j].hostTiling \in Owns(j)
    BY <1>4, OwnsPointers DEF IInv
  <1>6. Owns(j) \subseteq (live \cap Blocks) \ Owns(k)
    BY DEF IInv, OwnershipInv
  <1> QED
    BY <1>5, <1>6 DEF KeepsOthers

(* Reset, the setters, the constructor and the destructor leave their       *)
(* kernel uninitialised or its data as it is, and write its own blocks only.*)
LEMMA KernelStepCoherent ==
  ASSUME IInv, CoherentInv, NEW k \in Kernels, KernelStep(k)
  PROVE  KeepsOthers(k) /\ Coherent(info'[k], content')
  <1> USE DEF TypeOK, IInv
  <1>0. info[k] \in KernelInfoType /\ Coherent(info[k], content)
    BY DEF CoherentInv
  <1>1. CASE Construct(k)
    BY <1>0, <1>1 DEF Construct, KeepsOthers
  <1>2. CASE Destroy(k) \/ Reset(k)
    <2>1. /\ info'[k] \in {NewKernelInfo, AfterReset(info[k])}
          /\ content' = Remaining(Deleted(info[k]))
      BY <1>2 DEF Destroy, Reset
    <2>2. ~info'[k].initFlag
      BY <1>0, <2>1, AfterResetFields DEF NewKernelInfo
    <2> QED
      BY <2>1, <2>2 DEF KeepsOthers, Coherent, Remaining, Owns, Owned, Addresses
  <1>3. ASSUME NEW flag \in BOOLEAN, SetLaunchWithTiling(k, flag)
        PROVE  KeepsOthers(k) /\ Coherent(info'[k], content')
    <2>1. ~info'[k].initFlag
      BY <1>0, <1>3 DEF SetLaunchWithTiling, KernelInfoType
    <2>2. ASSUME NEW p \in (live \cap Blocks) \ Owns(k)
          PROVE  content'[p] = content[p]
      <3>1. p # info[k].hostTiling
        BY <2>2, OwnsPointers
      <3> QED
        BY <1>3, <3>1 DEF SetLaunchWithTiling, Remaining, Addresses
    <2> QED
      BY <2>1, <2>2 DEF KeepsOthers, Coherent
  <1>4. ASSUME NEW addr \in CallerBuffers, SetTilingHostAddr(k, addr)
        PROVE  KeepsOthers(k) /\ Coherent(info'[k], content')
    <2>1. /\ content' = content
          /\ ~info[k].launchWithTiling
          /\ info'[k] = [info[k] EXCEPT !.hostTiling = addr]
      BY <1>4 DEF SetTilingHostAddr
    <2> QED
      BY <1>0, <2>1 DEF KeepsOthers, Coherent, KernelInfoType
  <1> QED
    BY <1>1, <1>2, <1>3, <1>4 DEF KernelStep

(* Init writes the launch into fresh blocks, or into the caller's tiling.   *)
LEMMA InitStepCoherent ==
  ASSUME IInv, CoherentInv, NEW k \in Kernels, InitStep(k)
  PROVE  KeepsOthers(k) /\ Coherent(info'[k], content')
  <1> USE DEF TypeOK, IInv
  <1> PICK l \in Launches, t \in Addresses, tl \in Blocks \cup {NULL} :
             \/ InitFails(k, l, t, tl)
             \/ \E a \in Blocks : InitSucceeds(k, l, t, tl, a)
    BY DEF InitStep
  <1> DEFINE ki == Described(info[k], l, t, tl)
  <1>1. /\ ki \in KernelInfoType
        /\ ~ki.initFlag
        /\ ki.launchWithTiling = info[k].launchWithTiling
        /\ ki.hostTiling = t
    <2>1. info[k] \in KernelInfoType
      OBVIOUS
    <2> QED
      BY <2>1, DescribedType, DescribedFields
  <1>2. ki.desc = l
    <2>1. AfterReset(info[k]) \in KernelInfoType
      BY AfterResetType
    <2> QED
      BY <2>1 DEF Described, KernelInfoType
  <1>3. InitBuffers(k, t, tl)
    BY DEF InitFails, InitSucceeds
  <1>4. ASSUME NEW p \in (live \cap Blocks) \ Owns(k)
        PROVE  /\ p \notin {t, tl}
               /\ p \notin Fresh(Deleted(info[k]))
               /\ Remaining(Deleted(info[k]))[p] = content[p]
    <2>1. ~info[k].launchWithTiling => info[k].hostTiling \notin Blocks
      BY AddressAssumption DEF PointersInv, ModesInv
    <2> QED
      BY <1>3, <1>4, <2>1, AddressAssumption
         DEF InitBuffers, Fresh, Remaining, Owns, Owned, Addresses
  <1> HIDE DEF ki
  <1>5. CASE InitFails(k, l, t, tl)
    <2>1. info'[k] = ki
      BY <1>5 DEF InitFails, ki
    <2>2. KeepsOthers(k)
      BY <1>4, <1>5 DEF InitFails, KeepsOthers, Addresses
    <2> QED
      BY <1>1, <2>1, <2>2 DEF Coherent
  <1>6. ASSUME NEW a \in Blocks, InitSucceeds(k, l, t, tl, a)
        PROVE  KeepsOthers(k) /\ Coherent(info'[k], content')
    <2>1. info'[k] = [ki EXCEPT !.args = a, !.initFlag = TRUE]
      BY <1>6 DEF InitSucceeds, ki
    <2>2. /\ info'[k].args = a
          /\ info'[k].hostTiling = t
          /\ info'[k].desc = l
          /\ info'[k].launchWithTiling = info[k].launchWithTiling
      BY <1>1, <1>2, <2>1 DEF KernelInfoType
    <2>3. a \in Fresh(Deleted(info[k])) \ {t, tl}
      BY <1>6 DEF InitSucceeds
    <2>4. content' = [p \in Addresses |->
                        IF p \in {t, tl} THEN l
                        ELSE IF p = a
                        THEN IF info[k].launchWithTiling THEN l ELSE Blank
                        ELSE Remaining(Deleted(info[k]))[p]]
      BY <1>6 DEF InitSucceeds
    <2>5. KeepsOthers(k)
      BY <1>4, <2>3, <2>4 DEF KeepsOthers, Addresses
    <2>6. content'[t] = l /\ (info[k].launchWithTiling => content'[a] = l)
      BY <2>4 DEF Addresses
    <2> QED
      BY <2>2, <2>5, <2>6 DEF Coherent
  <1> QED
    BY <1>5, <1>6

(* Clone copies what its source holds into fresh blocks.                    *)
LEMMA CloneStepCoherent ==
  ASSUME IInv, CoherentInv, NEW src \in Kernels, NEW dst \in Kernels,
         CloneStep(src, dst)
  PROVE  KeepsOthers(dst) /\ Coherent(info'[dst], content')
  <1> USE DEF TypeOK, IInv
  <1>1. CopyMode(src) \in KernelInfoType /\ ~CopyMode(src).initFlag
    BY NewKernelInfoType DEF CopyMode, KernelInfoType, NewKernelInfo
  <1>2. ASSUME NEW t \in Addresses, CopyTiling(src, dst, t)
        PROVE  t \notin live \cap Blocks
    BY <1>2, AddressAssumption
       DEF CopyTiling, Fresh, PointersInv, ModesInv, Addresses
  <1>3. CASE CloneBlank(src, dst)
    BY <1>1, <1>3 DEF CloneBlank, KeepsOthers, Coherent
  <1>4. ASSUME NEW t \in Addresses, CloneWithoutArgs(src, dst, t)
        PROVE  KeepsOthers(dst) /\ Coherent(info'[dst], content')
    <2>1. ~info'[dst].initFlag
      BY <1>1, <1>4 DEF CloneWithoutArgs, KernelInfoType
    <2>2. t \notin live \cap Blocks
      BY <1>2, <1>4 DEF CloneWithoutArgs
    <2> QED
      BY <1>4, <2>1, <2>2 DEF CloneWithoutArgs, KeepsOthers, Coherent, Addresses
  <1>5. ASSUME NEW t \in Addresses, NEW a \in Blocks, CloneSucceeds(src, dst, t, a)
        PROVE  KeepsOthers(dst) /\ Coherent(info'[dst], content')
    <2>1. /\ info[src].initFlag /\ Coherent(info[src], content)
          /\ t \notin live \cap Blocks
          /\ a \in Blocks \ live /\ a # t
      BY <1>2, <1>5 DEF CloneSucceeds, CopyTiling, Fresh, CoherentInv
    <2>2. info'[dst] = [CopyMode(src) EXCEPT !.hostTiling = t, !.args = a,
                               !.initFlag = TRUE, !.desc = info[src].desc]
      BY <1>5 DEF CloneSucceeds
    <2>3. /\ info'[dst].args = a
          /\ info'[dst].hostTiling = t
          /\ info'[dst].desc = info[src].desc
          /\ info'[dst].launchWithTiling = info[src].launchWithTiling
      BY <1>1, <2>2, NewKernelInfoType DEF KernelInfoType, CopyMode
    <2>4. content' = [content EXCEPT
                        ![t] = content[info[src].hostTiling],
                        ![a] = IF info[src].launchWithTiling
                               THEN content[info[src].args] ELSE Blank]
      BY <1>5 DEF CloneSucceeds
    <2>5. /\ content'[t] = content[info[src].hostTiling]
          /\ info[src].launchWithTiling => content'[a] = content[info[src].args]
          /\ KeepsOthers(dst)
      BY <2>1, <2>4 DEF KeepsOthers, Addresses
    <2> QED
      BY <2>1, <2>3, <2>5 DEF Coherent
  <1> QED
    BY <1>3, <1>4, <1>5 DEF CloneStep

(* Every step keeps every kernel coherent.                                  *)
LEMMA CoherentStep ==
  ASSUME IInv, CoherentInv, [Next]_vars
  PROVE  CoherentInv'
  <1>0. TypeOK' /\ PointersInv'
    BY IInvStep DEF IInv
  <1>1. ASSUME NEW k \in Kernels, Exchanges(k), KeepsOthers(k),
               Coherent(info'[k], content')
        PROVE  CoherentInv'
    BY <1>1, OthersStayCoherent DEF CoherentInv
  <1>2. ASSUME NEW k \in Kernels, KernelStep(k) PROVE CoherentInv'
    BY <1>0, <1>1, <1>2, KernelStepExchanges, KernelStepCoherent DEF IInv
  <1>3. ASSUME NEW k \in Kernels, InitStep(k) PROVE CoherentInv'
    BY <1>0, <1>1, <1>3, InitStepExchanges, InitStepCoherent DEF IInv
  <1>4. ASSUME NEW src \in Kernels, NEW dst \in Kernels, CloneStep(src, dst)
        PROVE  CoherentInv'
    BY <1>0, <1>1, <1>4, CloneStepExchanges, CloneStepCoherent DEF IInv
  <1>5. ASSUME NEW b \in CallerBuffers, CallerAllocates(b) \/ CallerFrees(b)
        PROVE  CoherentInv'
    <2>1. info' = info /\ \A p \in Blocks : content'[p] = content[p]
      BY <1>5, AddressAssumption DEF CallerAllocates, CallerFrees, Remaining, Addresses
    <2>2. \A j \in Kernels : info[j].initFlag /\ info[j].launchWithTiling =>
                               info[j].args \in Blocks /\ info[j].hostTiling \in Blocks
      BY DEF IInv, TypeOK, KernelInfoType, Addresses, ReadyInv, PointersInv, TilingModeInv, Mistaken
    <2> QED
      BY <2>1, <2>2 DEF CoherentInv, Coherent
  <1>6. CASE UNCHANGED vars
    BY <1>6 DEF vars, CoherentInv
  <1> QED
    BY <1>2, <1>3, <1>4, <1>5, <1>6 DEF Next

(* An initialised kernel can be launched with one launch's data: whatever   *)
(* is cloned, reset and initialised again beside it, in the tiling mode its *)
(* arguments, its tiling and its description come from the same Init.       *)
THEOREM LaunchesAreCoherent ==
  Spec => []LaunchCoherent
  <1>1. Init => CoherentInv
    BY DEF Init, CoherentInv, Coherent, NewKernelInfo
  <1>2. IInv /\ CoherentInv /\ [Next]_vars => CoherentInv'
    BY CoherentStep
  <1>3. IInv /\ CoherentInv => LaunchCoherent
    BY DEF IInv, TypeOK, ReadyInv, CoherentInv, Coherent, LaunchCoherent
  <1> QED
    BY <1>1, <1>2, <1>3, InductiveInvariant, PTL DEF Spec

-----------------------------------------------------------------------------
(* The refinement: OwnerOf(p) is the one kernel that owns block p.          *)
LEMMA OwnerIs ==
  IInv => \A k \in Kernels : \A p \in Owns(k) : OwnerOf(p) = k
  <1> SUFFICES ASSUME IInv, NEW k \in Kernels, NEW p \in Owns(k)
               PROVE  OwnerOf(p) = k
    OBVIOUS
  <1>1. kernels \subseteq Kernels /\ \A j \in Kernels \ {k} : p \notin Deleted(info[j])
    BY DEF IInv, TypeOK, OwnershipInv, Owns, Owned
  <1>2. k \in kernels
    <2>1. info[k] \in KernelInfoType /\ (k \notin kernels => info[k] = NewKernelInfo)
      BY DEF IInv, TypeOK, PointersInv, ModesInv
    <2> QED
      BY <2>1, ResetOwnsNothing DEF Owns
  <1> QED
    BY <1>1, <1>2 DEF OwnerOf, Owns, Owned

(* A block no kernel owns is nobody's.                                      *)
LEMMA OwnerIsNobody ==
  IInv => \A p \in Blocks :
            (\A k \in Kernels : p \notin Owns(k)) => OwnerOf(p) = NULL
  BY DEF IInv, TypeOK, OwnerOf, Owns, Owned

(* OwnerOf answers with a kernel or with nobody.                            *)
LEMMA OwnerOfType == IInv => \A p \in Blocks : OwnerOf(p) \in Kernels \cup {NULL}
  BY OwnerIs, OwnerIsNobody DEF Owns

(* What the two lemmas say of the state after a step.                       *)
LEMMA OwnersNext ==
  ASSUME IInv'
  PROVE  /\ \A k \in Kernels : \A p \in Owned(info'[k]) : OwnerOf(p)' = k
         /\ \A p \in Blocks :
              (\A k \in Kernels : p \notin Owned(info'[k])) => OwnerOf(p)' = NULL
         /\ \A p \in Blocks : OwnerOf(p)' \in Kernels \cup {NULL}
  <1>1. (IInv => \A k \in Kernels : \A p \in Owns(k) : OwnerOf(p) = k)'
    BY OwnerIs, PTL
  <1>2. (IInv => \A p \in Blocks :
            (\A k \in Kernels : p \notin Owns(k)) => OwnerOf(p) = NULL)'
    BY OwnerIsNobody, PTL
  <1>3. (IInv => \A p \in Blocks : OwnerOf(p) \in Kernels \cup {NULL})'
    BY OwnerOfType, PTL
  <1> QED
    BY <1>1, <1>2, <1>3 DEF Owns

(* A step that exchanges one kernel's blocks is a step of the heap: a block *)
(* keeps its owner, is taken free, or is given back by that kernel.         *)
LEMMA ExchangeRefines ==
  ASSUME IInv, IInv', NEW k \in Kernels, Exchanges(k)
  PROVE  Heap!Next
  <1>1. ASSUME NEW p \in Blocks
        PROVE  \/ OwnerOf(p)' = OwnerOf(p)
               \/ OwnerOf(p) = NULL /\ OwnerOf(p)' = k
               \/ OwnerOf(p) = k /\ OwnerOf(p)' = NULL
    <2>1. CASE \E j \in Kernels \ {k} : p \in Owns(j)
      <3>1. PICK j \in Kernels \ {k} : p \in Owns(j)
        BY <2>1
      <3>2. p \in Owned(info'[j])
        BY <3>1 DEF Exchanges, Owns, Owned
      <3> QED
        BY <3>1, <3>2, OwnerIs, OwnersNext
    <2>2. CASE \A j \in Kernels \ {k} : p \notin Owns(j)
      <3>1. \A j \in Kernels \ {k} : p \notin Owned(info'[j])
        BY <2>2 DEF Exchanges, Owns, Owned
      <3>2. OwnerOf(p) = IF p \in Owns(k) THEN k ELSE NULL
        BY <2>2, OwnerIs, OwnerIsNobody
      <3>3. OwnerOf(p)' = IF p \in Owned(info'[k]) THEN k ELSE NULL
        BY <3>1, OwnersNext
      <3> QED
        BY <3>2, <3>3
    <2> QED
      BY <2>1, <2>2
  <1>2. ([p \in Blocks |-> OwnerOf(p)])' \in [Blocks -> Kernels \cup {NULL}]
    BY OwnersNext
  <1>3. Heap!Exchange(k)
    BY <1>1, <1>2 DEF Heap!Exchange
  <1> QED
    BY <1>3 DEF Heap!Next

(* A step that leaves the pointers alone leaves every block to its owner.   *)
LEMMA SameOwners ==
  ASSUME IInv, IInv', info' = info
  PROVE  UNCHANGED [p \in Blocks |-> OwnerOf(p)]
  <1>1. ASSUME NEW p \in Blocks PROVE OwnerOf(p)' = OwnerOf(p)
    <2>1. CASE \E k \in Kernels : p \in Owns(k)
      BY <2>1, OwnerIs, OwnersNext DEF Owns
    <2>2. CASE \A k \in Kernels : p \notin Owns(k)
      BY <2>2, OwnerIsNobody, OwnersNext DEF Owns
    <2> QED
      BY <2>1, <2>2
  <1> QED
    BY <1>1

(* Every step of the kernels is a step of the heap or changes no owner.     *)
LEMMA StepRefines ==
  ASSUME IInv, [Next]_vars
  PROVE  [Heap!Next]_([p \in Blocks |-> OwnerOf(p)])
  <1>0. IInv'
    BY IInvStep
  <1>1. TypeOK' /\ PointersInv'
    BY <1>0 DEF IInv
  <1>2. ASSUME NEW k \in Kernels, KernelStep(k) PROVE Heap!Next
    BY <1>0, <1>1, <1>2, KernelStepExchanges, ExchangeRefines DEF IInv
  <1>3. ASSUME NEW k \in Kernels, InitStep(k) PROVE Heap!Next
    BY <1>0, <1>1, <1>3, InitStepExchanges, ExchangeRefines DEF IInv
  <1>4. ASSUME NEW src \in Kernels, NEW dst \in Kernels, CloneStep(src, dst)
        PROVE  Heap!Next
    BY <1>0, <1>1, <1>4, CloneStepExchanges, ExchangeRefines DEF IInv
  <1>5. ASSUME NEW b \in CallerBuffers, CallerAllocates(b) \/ CallerFrees(b)
        PROVE  UNCHANGED [p \in Blocks |-> OwnerOf(p)]
    BY <1>0, <1>5, SameOwners DEF CallerAllocates, CallerFrees
  <1>6. CASE UNCHANGED vars
    BY <1>0, <1>6, SameOwners DEF vars
  <1> QED
    BY <1>2, <1>3, <1>4, <1>5, <1>6 DEF Next

(* The kernels implement the heap of HeapOwnership: Init, Reset, Clone, the *)
(* setters and the destructor only take free blocks for one kernel or give  *)
(* that kernel's back, so no block passes from one kernel to another.       *)
THEOREM KernelsImplementHeap ==
  Spec => ImplementsHeap
  <1>1. Init => Heap!Init
    <2> SUFFICES ASSUME Init PROVE Heap!Init
      OBVIOUS
    <2>1. \A p \in Blocks : OwnerOf(p) = NULL
      BY DEF Init, OwnerOf
    <2> QED
      BY <2>1 DEF Heap!Init
  <1>2. IInv /\ [Next]_vars => [Heap!Next]_([p \in Blocks |-> OwnerOf(p)])
    BY StepRefines
  <1> QED
    BY <1>1, <1>2, InductiveInvariant, PTL DEF Spec, Heap!Spec, ImplementsHeap
=============================================================================
