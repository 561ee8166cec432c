-------------------------------- MODULE Memset --------------------------------
(***************************************************************************)
(* ClearTensors: before a kernel that accumulates runs, the tensors it     *)
(* asks for are set to zero, by a kernel whose cores share the bytes of    *)
(* each tensor, or by the runtime if that kernel cannot be loaded.         *)
(* MemsetTiling divides the tensors on the host; CleanTensor works through *)
(* a core's part in pieces of the size of its buffer of zeros.             *)
(***************************************************************************)
EXTENDS Integers, Sequences, FiniteSetsExt

CONSTANTS
  BLOCK_BYTES,            \* 32
  BLOCK_BYTES_ONCE,       \* 32 * 8
  MEMSET_MAX_TENSOR_NUM,  \* 8
  Word,                   \* 2^32, the range of the tiling's and the device's integers
  Devices,                \* what PlatformInfo says: records [coreNum, ubSize]
  Calls                   \* memsetInfo and argsNum of a call: [sizes, argsNum]

ASSUME MemsetAssumption ==
  /\ BLOCK_BYTES \in Nat \ {0} /\ BLOCK_BYTES_ONCE \in Nat \ {0} /\ Word \in Nat \ {0}
  /\ MEMSET_MAX_TENSOR_NUM \in Nat
  /\ Devices \subseteq [coreNum : Nat, ubSize : Nat]
  /\ Calls \subseteq [sizes : Seq(Nat), argsNum : Nat]

VARIABLES
  device,        \* PlatformInfo
  memsetKernel,  \* memsetKernel and initedFlag: "uninited", "null" or "ready"
  pc,            \* who works on the call: nobody, the runtime or the device
  call,          \* the call
  status,        \* what ClearTensors has returned, or the device has come to
  tiling,        \* MemsetTilingData, its maxUb and the number of cores
  cores,         \* idx and i of each core: the tensor it is at, and how far
  zeroed         \* the bytes of each tensor that are zero

vars == <<device, memsetKernel, pc, call, status, tiling, cores, zeroed>>

Min2(a, b) == IF a <= b THEN a ELSE b
CeilDiv(a, b) == (a + b - 1) \div b
Aligned(n) == CeilDiv(n, BLOCK_BYTES) * BLOCK_BYTES

(* The tensors of a call that are given to the memset kernel, and those     *)
(* tiled for.                                                               *)
Given(c) == 1 .. Min2(MEMSET_MAX_TENSOR_NUM, Min2(Len(c.sizes), c.argsNum))
Tiled(c) == 1 .. Min2(MEMSET_MAX_TENSOR_NUM, Len(c.sizes))

-----------------------------------------------------------------------------
(* 80 percent of the unified buffer, whole blocks.                          *)
MaxUbSize(d) == Aligned((d.ubSize * 4) \div 5)

Single(d, size) == size < BLOCK_BYTES_ONCE * d.coreNum

(* The bytes of one core, and of one copy, of a tensor of size bytes.       *)
SizeBlock(d, size) ==
  IF Single(d, size) THEN size ELSE Aligned(CeilDiv(size, d.coreNum))

(* Mutant of SizeLoop: left unset for a single core.                        *)
SizeLoopUnset(d, size) ==
  IF Single(d, size) THEN 0 ELSE Min2(MaxUbSize(d), SizeBlock(d, size))

SizeLoop(d, size) ==
  IF Single(d, size) THEN size ELSE Min2(MaxUbSize(d), SizeBlock(d, size))

UsedCore(d, size) ==
  IF Single(d, size) THEN 1 ELSE CeilDiv(size, SizeBlock(d, size))

(* Mutant of BlockDim: the cores the last tensor needs.                     *)
BlockDimLast(d, sizes, tiled) ==
  IF tiled = {} THEN 0 ELSE UsedCore(d, sizes[Max(tiled)])

BlockDim(d, sizes, tiled) == Max({0} \cup {UsedCore(d, sizes[t]) : t \in tiled})

(* Mutant of MaxUb: tensors of a single core do not count.                  *)
MaxUbOfMany(d, sizes, tiled) ==
  Max({0} \cup {SizeLoop(d, sizes[t]) : t \in {t \in tiled : ~Single(d, sizes[t])}})

MaxUb(d, sizes, tiled) == Max({0} \cup {SizeLoop(d, sizes[t]) : t \in tiled})

(* MemsetTiling, stored as 32-bit integers.                                 *)
MemsetTiling(d, c) ==
  LET tiled == Tiled(c)
      sizes == [t \in tiled |-> Aligned(c.sizes[t])]
  IN [blockDim  |-> BlockDim(d, sizes, tiled),
      maxUb     |-> MaxUb(d, sizes, tiled) % Word,
      size      |-> [t \in tiled |-> sizes[t] % Word],
      sizeBlock |-> [t \in tiled |-> SizeBlock(d, sizes[t]) % Word],
      sizeLoop  |-> [t \in tiled |-> SizeLoop(d, sizes[t]) % Word]]

-----------------------------------------------------------------------------
NoCall == [sizes |-> <<>>, argsNum |-> 0]
NoTiling == [blockDim |-> 0, maxUb |-> 0, size |-> <<>>, sizeBlock |-> <<>>, sizeLoop |-> <<>>]

Init ==
  /\ device \in Devices
  /\ memsetKernel = "uninited"
  /\ pc = "idle" /\ call = NoCall /\ status = "none"
  /\ tiling = NoTiling /\ cores = <<>> /\ zeroed = <<>>

(* ClearTensors begins.  Its first call loads the memset kernel, if the     *)
(* library has a binary for the device and its handle initialises.          *)
ClearTensors(c) ==
  /\ pc = "idle"
  /\ memsetKernel' \in IF memsetKernel = "uninited" THEN {"null", "ready"} ELSE {memsetKernel}
  /\ pc' = IF memsetKernel' = "null" THEN "host" ELSE "tile"
  /\ call' = c /\ status' = "none"
  /\ zeroed' = [t \in DOMAIN c.sizes |-> {}]
  /\ tiling' = NoTiling /\ cores' = <<>>
  /\ UNCHANGED device

(* Without the memset kernel: aclrtMemset, tensor by tensor.                *)
HostMemset ==
  /\ pc = "host"
  /\ LET left == {t \in Given(call) : zeroed[t] # 0 .. call.sizes[t] - 1}
     IN IF left = {}
        THEN pc' = "idle" /\ status' = "ok" /\ UNCHANGED zeroed
        ELSE /\ zeroed' = [zeroed EXCEPT ![Min(left)] = 0 .. call.sizes[Min(left)] - 1]
             /\ UNCHANGED <<pc, status>>
  /\ UNCHANGED <<device, memsetKernel, call, tiling, cores>>

(* aclrtMemset fails, or tiling or launching the kernel does.               *)
Fail ==
  /\ pc \in {"host", "tile"}
  /\ pc' = "idle" /\ status' = "failed"
  /\ UNCHANGED <<device, memsetKernel, call, tiling, cores, zeroed>>

(* MemsetKernel::Run: the kernel is launched on blockDim cores.  A platform *)
(* without cores has no tiling.                                             *)
Run ==
  /\ pc = "tile" /\ device.coreNum > 0
  /\ LET td == MemsetTiling(device, call) IN
       /\ td.blockDim > 0
       /\ tiling' = td
       /\ cores' = [b \in 0 .. td.blockDim - 1 |-> [idx |-> 1, i |-> 0]]
  /\ pc' = "device"
  /\ UNCHANGED <<device, memsetKernel, call, status, zeroed>>

-----------------------------------------------------------------------------
Done(b) == cores[b].idx > MEMSET_MAX_TENSOR_NUM
Base(b, t) == (tiling.sizeBlock[t] * b) % Word

(* Where a core is in a tensor, as the loop counts it, ...                  *)
Reached(b, t) == (Base(b, t) + cores[b].i) % Word

(* ... and as a pointer, which does not wrap around.                        *)
Address(b, t) == Base(b, t) + cores[b].i

(* What a core copies at once: its buffer of zeros, or what is left.        *)
HandleCount(b, t) == Min2((tiling.size[t] - Reached(b, t)) % Word, tiling.sizeLoop[t])

(* Mutant of InPart: the end of the tensor is not looked at.                *)
InPartOnly(b, t) == cores[b].i < tiling.sizeBlock[t]

(* The condition of CleanTensor's loop.                                     *)
InPart(b, t) == cores[b].i < tiling.sizeBlock[t] /\ Reached(b, t) < tiling.size[t]

(* One iteration of the loop in CleanTensor, or the next tensor.  Those     *)
(* that were not given are nullptr.                                         *)
CleanTensor(b) ==
  LET t == cores[b].idx IN
  /\ pc = "device" /\ ~Done(b)
  /\ IF t \in Given(call) /\ InPart(b, t)
     THEN /\ zeroed' = [zeroed EXCEPT ![t] =
                          @ \cup (Address(b, t) .. Address(b, t) + HandleCount(b, t) - 1)]
          /\ cores' = [cores EXCEPT ![b].i = (@ + tiling.sizeLoop[t]) % Word]
     ELSE /\ cores' = [cores EXCEPT ![b] = [idx |-> t + 1, i |-> 0]]
          /\ UNCHANGED zeroed
  /\ UNCHANGED <<device, memsetKernel, pc, call, status, tiling>>

(* The stream goes on with the kernel that needs the zeros.                 *)
Finish ==
  /\ pc = "device" /\ \A b \in DOMAIN cores : Done(b)
  /\ pc' = "idle" /\ status' = "ok"
  /\ UNCHANGED <<device, memsetKernel, call, tiling, cores, zeroed>>

Next ==
  \/ \E c \in Calls : ClearTensors(c)
  \/ HostMemset \/ Fail \/ Run
  \/ \E b \in DOMAIN cores : CleanTensor(b)
  \/ Finish

Spec == Init /\ [][Next]_vars

(* Host and device go on with what they have begun.                         *)
FairSpec ==
  Spec /\ WF_vars(HostMemset \/ Fail \/ Run \/ Finish \/ \E b \in DOMAIN cores : CleanTensor(b))

-----------------------------------------------------------------------------
TypeOK ==
  /\ device \in Devices
  /\ memsetKernel \in {"uninited", "null", "ready"}
  /\ pc \in {"idle", "host", "tile", "device"}
  /\ call \in Calls \cup {NoCall}
  /\ status \in {"none", "ok", "failed"}
  /\ DOMAIN zeroed = DOMAIN call.sizes
  /\ \A b \in DOMAIN cores :
       cores[b].i \in 0 .. Word - 1 /\ cores[b].idx \in 1 .. MEMSET_MAX_TENSOR_NUM + 1

(* When ClearTensors succeeds, every byte of every tensor is zero, however  *)
(* the tensors are divided, and whichever cores end first.                  *)
AllZeroed ==
  pc = "idle" /\ status = "ok" =>
    \A t \in DOMAIN call.sizes : 0 .. call.sizes[t] - 1 \subseteq zeroed[t]

(* A tensor that ends a copy or more before what 32 bits can count.  Behind *)
(* the end of another one a core may find itself at its beginning again,    *)
(* though its pointer is not.                                               *)
LeavesRoom(d, size) ==
  d.coreNum > 0 => Aligned(size) + SizeLoop(d, Aligned(size)) <= Word

(* Nothing behind the last block of a tensor is overwritten, not by cores   *)
(* whose part begins behind it either, if the tensor leaves room.           *)
NothingBehind ==
  \A t \in DOMAIN zeroed :
    LeavesRoom(device, call.sizes[t]) => zeroed[t] \subseteq 0 .. Aligned(call.sizes[t]) - 1

(* A core copies no more than the zeros it has, and these fit into its      *)
(* unified buffer.                                                          *)
ZerosSuffice ==
  pc = "device" =>
    /\ tiling.maxUb <= device.ubSize
    /\ \A b \in DOMAIN cores :
         cores[b].idx \in Given(call) /\ InPart(b, cores[b].idx) =>
           HandleCount(b, cores[b].idx) \in 1 .. tiling.maxUb

(* Every call comes to an end: no core loops for ever.                      *)
Ends == pc # "idle" ~> pc = "idle"
=============================================================================
