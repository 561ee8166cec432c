-------------------------------- MODULE Loader --------------------------------
(***************************************************************************)
(* Loader, BinHandle and OpSchedule: what the static registrations of a    *)
(* library's operations, kernels and kernel binaries become.  Loading      *)
(* picks a binary for the device, creates operations and kernels, hands    *)
(* the kernels to their operations and fills the schedule Ops answers      *)
(* from; at exit the handles give their runtime modules back.              *)
(***************************************************************************)
EXTENDS Platform

CONSTANTS
  Library,        \* what may be registered: records [operations, creators, binaries]
  Modules,        \* identifiers the runtime can give a module
  NONE,           \* no module, no kernel
  Transient       \* can a runtime call fail and succeed when it is made again?

(***************************************************************************)
(* operations: a sequence, of kind "base", "null" (the creator gives       *)
(*   nullptr) or "foreign" (not an OperationBase);                         *)
(* creators: a sequence, null if the creator gives nullptr;                *)
(* binaries: kernel |-> a sequence: names of the kernel functions in each, *)
(*   and what Init finds wrong with it, if anything: "header", "names",    *)
(*   "rest" or "magic".                                                    *)
(***************************************************************************)
Operations == [name : STRING, kind : {"base", "null", "foreign"}]
Creators == [op : STRING, kernel : STRING, null : BOOLEAN]
Binaries == [soc : STRING, names : Seq(STRING), tiling : Nat,
             flaw : {"none", "header", "names", "rest", "magic"}]

ASSUME LoaderAssumption ==
  /\ NONE \notin Modules
  /\ \A l \in Library :
       /\ l.operations \in Seq(Operations) /\ l.creators \in Seq(Creators)
       /\ \A k \in DOMAIN l.binaries : l.binaries[k] \in Seq(Binaries)

VARIABLES
  registered,  \* the static registrations
  pc,          \* the step of Load, then of the schedule's life
  next,        \* kernel creators done
  left,        \* operations OpBaseAddKernels has not seen
  loadSuccess, \* loadSuccess_
  opMap,       \* Loader's opMap_: kinds by name
  binHandles,  \* binHandles_
  opKernelMap, \* opKernelMap_: kernels by operation
  kernelMaps,  \* OperationBase's kernelMap_ of each operation
  schedule,    \* OpSchedule's opMap_ and kernelMap_
  modules,     \* modules the runtime holds
  kept         \* those registered that no handle can give back

input == <<registered, platform>>
loader == <<registered, pc, next, left, loadSuccess, opMap, binHandles, opKernelMap,
            kernelMaps, schedule, modules, kept>>
vars == <<loader, platform>>

device == info.name

Extend(f, x, v) == [y \in DOMAIN f \cup {x} |-> IF y = x THEN v ELSE f[y]]
NoKernels == [k \in {} |-> NONE]

Kernels == UNION {DOMAIN l.binaries : l \in Library}

Init ==
  /\ PlatformInit /\ registered \in Library
  /\ pc = "binaries" /\ next = 0 /\ left = {} /\ loadSuccess = FALSE
  /\ opMap = NoKernels /\ binHandles = NoKernels /\ opKernelMap = NoKernels
  /\ kernelMaps = NoKernels
  /\ schedule = [operations |-> {}, kernels |-> NoKernels]
  /\ modules = {} /\ kept = {}

-----------------------------------------------------------------------------
(* LoadKernelBinarys: a handle for the first binary that fits the device.   *)
(* It begins with PlatformInfo's Instance, which constructs it.             *)
NewHandle(bin) == [bin |-> bin, kernelList |-> <<>>, module |-> NONE,
                   function |-> FALSE, codeLoadSuccess |-> FALSE]

Fits(bin) == bin.soc = device

(* The binary that fits and that none before it does, if there is one.      *)
FirstFitting(k) ==
  {i \in DOMAIN registered.binaries[k] :
     /\ Fits(registered.binaries[k][i])
     /\ \A j \in 1 .. i - 1 : ~Fits(registered.binaries[k][j])}

LoadKernelBinarys ==
  /\ pc = "binaries" /\ info.constructed
  /\ IF device = "unrecognized"
     THEN pc' = "schedule" /\ UNCHANGED binHandles
     ELSE /\ pc' = "operations"
          /\ binHandles' =
               [k \in {k \in DOMAIN registered.binaries : FirstFitting(k) # {}} |->
                  NewHandle(registered.binaries[k][CHOOSE i \in FirstFitting(k) : TRUE])]
  /\ UNCHANGED <<input, next, left, loadSuccess, opMap, opKernelMap, kernelMaps,
                 schedule, modules, kept>>

(* CreateOperations: the operations up to the first creator that fails.     *)
CreateOperations ==
  /\ pc = "operations"
  /\ LET ops   == registered.operations
         nulls == {i \in DOMAIN ops : ops[i].kind = "null"}
         done  == {i \in DOMAIN ops : \A j \in nulls : i < j}
     IN /\ opMap' = [n \in {ops[i].name : i \in done} |->
                       LET i == CHOOSE i \in done : ops[i].name = n IN ops[i].kind]
        /\ pc' = IF nulls = {} THEN "kernels" ELSE "schedule"
  /\ UNCHANGED <<input, next, left, loadSuccess, binHandles, opKernelMap, kernelMaps,
                 schedule, modules, kept>>

-----------------------------------------------------------------------------
(***************************************************************************)
(* rtDevBinaryRegister or rtRegisterAllKernel, each of which makes a       *)
(* module, through CHECK_STATUS_WITH_DESC_RETURN, a macro that evaluates   *)
(* the call again for the log and for the return: three calls when the     *)
(* first fails, of which the last one's result is returned.                *)
(***************************************************************************)
Registrations ==
  LET free == Modules \ modules
      once == {[made |-> {m}, module |-> m, ok |-> TRUE] : m \in free}
      none == {[made |-> {}, module |-> NONE, ok |-> FALSE]}
      logged == {[made |-> {m}, module |-> m, ok |-> FALSE] : m \in free}
      twice == UNION {{[made |-> {m, n}, module |-> n, ok |-> TRUE] : n \in free \ {m}} : m \in free}
  IN once \cup none \cup (IF Transient THEN logged \cup twice ELSE {})

(* An Init leaves a handle; it has made modules and can lose some of them.  *)
After(h, made, lost) == [handle |-> h, made |-> made, lost |-> lost]

(***************************************************************************)
(* RegisterBin of a handle whose binary has been read: a module and one    *)
(* function for a single kernel, all functions at once for several.  Each  *)
(* runtime call may fail; what was made before the failure stays.  Only    *)
(* moduleHandle_ is given back: neither the module of several kernels,     *)
(* which handle_ stands for, nor one that the call made again replaces.    *)
(***************************************************************************)
Bound(h) ==
  {[h EXCEPT !.function = TRUE, !.codeLoadSuccess = TRUE], h}
    \cup (IF Transient THEN {[h EXCEPT !.function = TRUE]} ELSE {})

RegisterSingle(h) ==
  UNION {LET m == [h EXCEPT !.module = r.module]
         IN {After(b, r.made, r.made \ {r.module}) : b \in IF r.ok THEN Bound(m) ELSE {m}} :
           r \in Registrations}

RegisterAll(h) ==
  {After([h EXCEPT !.function = h.function \/ r.made # {}, !.codeLoadSuccess = r.ok],
         r.made, r.made) : r \in Registrations}

RegisterBin(h) == IF Len(h.kernelList) = 1 THEN RegisterSingle(h) ELSE RegisterAll(h)

(* Mutant of InitHandle: the handle counts as loaded once it is read.       *)
InitHandleEarly(h) ==
  LET read == [h EXCEPT !.kernelList = h.kernelList \o h.bin.names, !.codeLoadSuccess = TRUE]
  IN IF h.bin.flaw # "none" THEN {After(h, {}, {})} ELSE RegisterBin(read)

(***************************************************************************)
(* BinHandle::Init: the handles it may leave.  The names read are appended *)
(* to those of an earlier Init; of a binary too short for its names they   *)
(* are those before the last.                                              *)
(***************************************************************************)
InitHandle(h) ==
  LET unloaded == [h EXCEPT !.codeLoadSuccess = FALSE]
      read(names) == [unloaded EXCEPT !.kernelList = h.kernelList \o names]
  IN CASE h.bin.flaw = "header" -> {After(unloaded, {}, {})}
       [] h.bin.flaw = "names"  -> {After(read(Front(h.bin.names)), {}, {})}
       [] h.bin.flaw \in {"rest", "magic"} -> {After(read(h.bin.names), {}, {})}
       [] OTHER -> IF read(h.bin.names).kernelList = <<>>
                   THEN {After(read(h.bin.names), {}, {})}
                   ELSE RegisterBin(read(h.bin.names))

(* KernelBase's constructor and GetKernelTilingSize: what a kernel keeps of *)
(* its handle.                                                              *)
TilingSize(h) == IF h.codeLoadSuccess THEN h.bin.tiling ELSE 0

NewKernel(k, h) == [name |-> k, launchBufferSize |-> TilingSize(h)]

(* Mutant of Created: the kernel is created before its handle's Init.       *)
CreatedEarly(c, before, after) == NewKernel(c.kernel, before)

(* What the creator of a kernel makes: its handle before Init and after it. *)
Created(c, before, after) == NewKernel(c.kernel, after)

(***************************************************************************)
(* CreateKernels, one creator.  The `continue` for a handle whose Init     *)
(* fails is inside MKI_CHECK's do-while and leaves only that: the kernel   *)
(* is created and registered as if Init had succeeded.                     *)
(***************************************************************************)
CreateKernel ==
  /\ pc = "kernels" /\ next < Len(registered.creators)
  /\ next' = next + 1
  /\ LET c == registered.creators[next + 1] IN
       IF c.kernel \notin DOMAIN binHandles
       THEN UNCHANGED <<pc, binHandles, opKernelMap, modules, kept>>
       ELSE \E i \in InitHandle(binHandles[c.kernel]) :
              /\ binHandles' = [binHandles EXCEPT ![c.kernel] = i.handle]
              /\ modules' = modules \cup i.made /\ kept' = kept \cup i.lost
              /\ IF c.null
                 THEN pc' = "schedule" /\ UNCHANGED opKernelMap
                 ELSE LET kernels == IF c.op \in DOMAIN opKernelMap
                                     THEN opKernelMap[c.op] ELSE NoKernels
                      IN /\ opKernelMap' = Extend(opKernelMap, c.op,
                              Extend(kernels, c.kernel, Created(c, binHandles[c.kernel], i.handle)))
                         /\ UNCHANGED pc
  /\ UNCHANGED <<input, left, loadSuccess, opMap, kernelMaps, schedule>>

KernelsCreated ==
  /\ pc = "kernels" /\ next = Len(registered.creators)
  /\ pc' = "add" /\ left' = DOMAIN opMap
  /\ UNCHANGED <<input, next, loadSuccess, opMap, binHandles, opKernelMap, kernelMaps,
                 schedule, modules, kept>>

(* Mutant of AddKernels: an operation without kernels ends the loop.        *)
AddKernelsOrStop(op) ==
  /\ pc = "add" /\ op \in left
  /\ IF op \in DOMAIN opKernelMap
     THEN left' = left \ {op} /\ kernelMaps' = Extend(kernelMaps, op, opKernelMap[op])
     ELSE left' = {} /\ UNCHANGED kernelMaps
  /\ UNCHANGED <<input, pc, next, loadSuccess, opMap, binHandles, opKernelMap, schedule, modules, kept>>

(* OpBaseAddKernels, one operation, in no particular order: AddKernel each  *)
(* of its kernels.                                                          *)
AddKernels(op) ==
  /\ pc = "add" /\ op \in left
  /\ IF opMap[op] = "foreign"
     THEN pc' = "schedule" /\ UNCHANGED <<left, kernelMaps>>
     ELSE /\ left' = left \ {op}
          /\ kernelMaps' = IF op \in DOMAIN opKernelMap
                           THEN Extend(kernelMaps, op, opKernelMap[op]) ELSE kernelMaps
          /\ UNCHANGED pc
  /\ UNCHANGED <<input, next, loadSuccess, opMap, binHandles, opKernelMap, schedule, modules, kept>>

Loaded ==
  /\ pc = "add" /\ left = {}
  /\ pc' = "schedule" /\ loadSuccess' = TRUE
  /\ UNCHANGED <<input, next, left, opMap, binHandles, opKernelMap, kernelMaps,
                 schedule, modules, kept>>

-----------------------------------------------------------------------------
(* The kernels of all operations by name, of one name the first one met.    *)
KernelsByName ==
  LET named == UNION {DOMAIN kernelMaps[op] : op \in DOMAIN kernelMaps}
      having(k) == {op \in DOMAIN kernelMaps : k \in DOMAIN kernelMaps[op]}
  IN {[k \in named |-> kernelMaps[first[k]][k]] :
        first \in {f \in [named -> DOMAIN kernelMaps] : \A k \in named : f[k] \in having(k)}}

(* Mutant of AddAllOperations: it does not ask whether the load succeeded.  *)
AddWhatThereIs ==
  /\ pc = "schedule" /\ pc' = "ready"
  /\ \E kernels \in KernelsByName :
       schedule' = [operations |-> DOMAIN opMap, kernels |-> kernels]
  /\ UNCHANGED <<input, next, left, loadSuccess, opMap, binHandles, opKernelMap,
                 kernelMaps, modules, kept>>

(* OpSchedule's constructor, AddAllOperations: of a load that succeeded the *)
(* operations and their kernels.                                            *)
AddAllOperations ==
  /\ pc = "schedule" /\ pc' = "ready"
  /\ IF loadSuccess
     THEN \E kernels \in KernelsByName :
            schedule' = [operations |-> DOMAIN opMap, kernels |-> kernels]
     ELSE UNCHANGED schedule
  /\ UNCHANGED <<input, next, left, loadSuccess, opMap, binHandles, opKernelMap,
                 kernelMaps, modules, kept>>

(* Mutant of Exit: the handles' modules stay.                               *)
ExitKeepsModules ==
  /\ pc = "ready" /\ pc' = "exited"
  /\ binHandles' = NoKernels
  /\ UNCHANGED <<input, next, left, loadSuccess, opMap, opKernelMap, kernelMaps,
                 schedule, modules, kept>>

(* The process exits: ~Loader, and ~BinHandle and ModuleDestory for each.   *)
Exit ==
  /\ pc = "ready" /\ pc' = "exited"
  /\ binHandles' = NoKernels
  /\ modules' = modules \ {binHandles[k].module : k \in DOMAIN binHandles}
  /\ UNCHANGED <<input, next, left, loadSuccess, opMap, opKernelMap, kernelMaps, schedule, kept>>

(* The application may use PlatformManager and PlatformInfo before the load *)
(* and after it; in between they would not meet.                            *)
UsePlatform ==
  /\ pc \in {"binaries", "ready"}
  /\ InitializePlatformManager \/ Finalize \/ ConstructPlatformInfo
  /\ UNCHANGED loader

Next ==
  \/ UsePlatform
  \/ LoadKernelBinarys \/ CreateOperations \/ CreateKernel \/ KernelsCreated
  \/ \E op \in left : AddKernels(op)
  \/ Loaded \/ AddAllOperations \/ Exit

Spec == Init /\ [][Next]_vars

-----------------------------------------------------------------------------
Fitting(k) == k \in DOMAIN registered.binaries
                /\ \E i \in DOMAIN registered.binaries[k] : Fits(registered.binaries[k][i])

(* After a load that succeeded, Ops has every registered operation, and     *)
(* each of its kernels that has a binary for the device, both by the        *)
(* kernel's name and through its operation.                                 *)
Complete ==
  pc = "ready" /\ loadSuccess =>
    LET names == {registered.operations[i].name : i \in DOMAIN registered.operations}
    IN /\ schedule.operations = names
       /\ \A i \in DOMAIN registered.creators :
            LET c == registered.creators[i]
            IN c.op \in names /\ Fitting(c.kernel) =>
                 /\ c.kernel \in DOMAIN schedule.kernels
                 /\ c.op \in DOMAIN kernelMaps /\ c.kernel \in DOMAIN kernelMaps[c.op]

(* Ops hands out nothing of a load that failed half way, with operations    *)
(* and kernels created and modules registered, and of one that succeeded    *)
(* only kernels whose binary is for this device, by the file that has its   *)
(* SoC version, however often PlatformManager was initialised before.       *)
HandedOut ==
  \/ schedule.operations = {} /\ DOMAIN schedule.kernels = {}
  \/ /\ loadSuccess
     /\ pc = "ready" => \A k \in DOMAIN schedule.kernels :
          \E file \in FilesOf(Real(socVersion)) :
            \E short \in Texts(GetPlatformSpec(Said[file], "version", "Short_SoC_version")) :
              supportedPlatform[short].name = binHandles[k].bin.soc

(***************************************************************************)
(* A kernel of the schedule and the clones GetKernelInstance constructs    *)
(* later, from the same handle, reserve the same tiling: that of the first *)
(* binary for this device, or none.                                        *)
(***************************************************************************)
CloneLikePrototype ==
  pc = "ready" => \A k \in DOMAIN schedule.kernels :
    LET size == schedule.kernels[k].launchBufferSize
    IN /\ size = TilingSize(binHandles[k])
       /\ \E i \in FirstFitting(k) : size \in {0, registered.binaries[k][i].tiling}

(* A handle that says its code is loaded has a function in the runtime,     *)
(* and, of a single kernel, a module that the runtime still holds.          *)
LoadedMeansRegistered ==
  \A k \in DOMAIN binHandles :
    LET h == binHandles[k]
    IN h.codeLoadSuccess =>
         /\ h.function
         /\ Len(h.kernelList) = 1 => h.module \in modules

(***************************************************************************)
(* Every module the runtime holds is one that a single handle will give    *)
(* back, or one that no handle can: at exit only those of several kernels  *)
(* and of calls that were made again are left.  A handle gives back only   *)
(* what the runtime holds.                                                 *)
(***************************************************************************)
ModulesReturned ==
  LET having == {k \in DOMAIN binHandles : binHandles[k].module # NONE}
      theirs == {binHandles[k].module : k \in having}
  IN /\ modules = theirs \cup kept
     /\ theirs \cap kept = {}
     /\ \A k, l \in having : binHandles[k].module = binHandles[l].module => k = l

(* "init handle fail" keeps a kernel from being created: every kernel the   *)
(* schedule hands out has its code loaded.                                  *)
KernelsAreLoaded ==
  pc = "ready" => \A k \in DOMAIN schedule.kernels : binHandles[k].codeLoadSuccess
=============================================================================
