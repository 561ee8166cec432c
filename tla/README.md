# Mind-KernelInfra in TLA+

Models, model checks and proofs of the parts of Mind-KernelInfra (MKI, this
repository) whose correctness depends on the order of calls, on several
processes, or on arithmetic that two places of the code have to agree about.
Paths below are relative to `src/`, the C++ library.

## The system

An application registers operations, kernels and kernel binaries statically.
At start `Loader` turns the registrations into prototypes that `Ops` hands out;
a launch clones the prototype of a kernel, initialises it with a `LaunchParam`,
which computes the layout of the arguments and the tiling, and runs it, which
fills the arguments in and gives them to the runtime. Around it are utilities:
shared memory between processes, logging, platform data, memset, profiling.

| Component | State | Operations | What is hard | What must hold | Module |
|---|---|---|---|---|---|
| `KernelInfo` (`schedule/common/kernel_info.cpp`) | raw pointers to arguments, tiling, tensor lists; flags that say who owns them | ctor, `Init*`, `Reset`, `Copy`, `SetTilingHostAddr`, `SetLaunchWithTiling`, dtor | any order of calls; allocation that fails half way | each buffer deleted once, none lost, an initialised kernel has one launch's data | `KernelInfo`, `HeapOwnership` |
| `KernelBase`, `KernelParamBuilder` (`schedule/base/kernel_base.cpp`) | slots and records in the arguments | `Init`, `Run`, `Clone` | Init lays out, Run recomputes; 16-bit offsets | the device function gets what it declares | `KernelArgs` |
| `LaunchParam` (`schedule/common/launch_param.cpp`) | tensors, lens of tensor lists | accessors, copy, `Reset` | a copy loses the lens | counts agree with the kernel's | `KernelArgs` |
| `Loader`, `OpSchedule`, `Ops` (`mki_loader`) | maps of operations, handles, kernels | `Load`, `AddAllOperations`, exit | failures half way, unordered maps | nothing of a failed load is handed out; of one that succeeded everything for this device; modules returned | `Loader` |
| `BinHandle`, `RtBackend` modules | names read, module, `codeLoadSuccess_` | `Init`, `RegisterBin`, dtor | runtime calls that a macro repeats | loaded means registered | `Loader` |
| `PlatformManager`, `PlatformInfo`, `IniFile` (`utils/platform`, `utils/inifile`) | configurations by SoC version; those of the device | `InitializePlatformManager`, `Finalize`, `Instance`, getters | initialisation that fails half way and is retried; sections that repeat | the configurations are what the files say | `Platform`, `IniFile` |
| `ShareMemory` | a segment and a semaphore of all processes | ctor, `SemLock`, `SemUnLock`, dtor | several processes, deaths, time-outs | exclusion, one memory, nothing wiped | `ShareMemory` |
| `LogSinkFile` | a directory of all processes; the file open | `Log` | several processes delete and create; write errors | number and size of files bounded, no content lost | `LogSinkFile` |
| `LogCore`, `LogStream` | sinks, level; a thread-local stream | a statement's ctor, `operator<<`, `Format`, dtor; `AddSink`, `DeleteLogFileSink` | threads, statements within statements, sinks that come and go | messages are whole and go to every sink once | `LogStream` |
| `Memset` (`utils/memset`) | the tiling; each core's loop | `ClearTensors`, `memory_set` | division over cores in 32 bits | every byte of the tensors zero, none behind them | `Memset` |
| `Fp16T` (`utils/fp16`) | a number of 16 bits | conversions, arithmetic, comparisons | rounding, denormals, overflow | results are the nearest numbers | `Fp16` |
| `BinFile` (`utils/bin_file`) | attributes, objects, their buffer; a file | `AddAttr`, `AddObject`, `Write`, `Read` | a death between two writes; names that mean something | a file that reads has all that was written | `BinFile` |
| `SVector` | an array and a size | `push_back`, `insert`, `erase`, `resize`, `clear`, `at`, comparisons | what lies behind the size | the elements are a list | `SVector`, `BoundedList` |
| `TensorDesc`, `CheckTensor` (`schedule/common/tensor.cpp`, `utils/checktensor`) | dimensions, an `SVector` | `Numel`, `View`, `CheckInTensors` | products that overflow | accepted tensors have the size the integers say | `TensorDesc` |
| `OperationIr`, `OperationIrCfg` (`utils/operationir`) | per operation the tensors it supports | `Load`, `ExtendInTensorIrByInputlens`, `ExtendOutTensorIrByOutputlens` | sections by lines, a load that fails half way, spreading within one vector | the table says what the files and lens say | `OperationIr` |
| `RunInfo`, `Status`, `Any`, `Profiling`, `RtBackend` streams and memory, file system, strings | - | - | mostly pure code or thin wrappers | - | not modelled |

`PROJECT.json` lists the components with what is left out of each, and the
hazards, each at the line where it bites.

Interactions: `Loader` asks `PlatformInfo` for the device's name, picks the
binaries by it, and owns the handles that kernels point to for their whole life;
kernels copy the tiling size out of them (`Loader`, which extends `Platform`).
`KernelBase::Init` and `Run` work on the buffers `KernelInfo` owns: `KernelInfo`
follows the pointers and lets a buffer's content be the name of a launch,
`KernelArgs` follows the contents byte range by byte range and lets the pointers
be. `Run` clears outputs through `Memset`, which asks `PlatformInfo` for cores and
buffer sizes. Tensors' dimensions and lens are `SVector`s, and the table of supported
types spreads its tensors within one: `OperationIr` extends `TensorDesc`, which extends
`SVector`, so that a vector the run builds call by call is what they are given. Log
statements of all threads end in the sinks, one of which may be a `LogSinkFile`. The
shared memory and the log directory are where processes meet.

## The modules

Each component has a module with its state as VARIABLES, `Init`, one action per
operation (or per system call, where another process may act in between), `Next`
and `Spec`; an `MC` module and `.cfg` files give the constants small values; a
`Proofs` module holds the theorems. "Mutant of X" marks a definition that changes
X the way a plausible mistake would: with it in X's place TLC finds the property
that `PROJECT.json` names violated.

**`KernelInfo`** (`schedule/common/kernel_info.cpp`, `KernelBase`'s constructor,
`Init` and `Clone`). `info[k]` is `kernelInfo_` of kernel `k`: the pointers to
arguments, tiling and tensor list, the two flags, `initFlag_`. `live` is the heap,
`content` what a buffer was last filled with. `new[]` may fail at each allocation;
`InitFails` and `CloneWithoutArgs` leave what the code leaves. Callers'
buffers come and go by `CallerAllocates` and `CallerFrees`. `HeapOwnership` is what
the component promises, a set of blocks with one owner each, of which a step
creates and frees whole sets; `ImplementsHeap` maps a kernel's blocks to it.

**`KernelArgs`** (`KernelBase::Init`, `Run`, `KernelParamBuilder`). A kernel has a
*signature*, the parameters its device function declares. `InitLaunch` computes the
layout as `Init` does, const tensors and tensor lists included; `RunLaunch` fills the
slots and the records of host data from whatever layout it finds, and `Params` is
what the runtime then hands to the device. A tiling has a size, a part its data use and
a const offset, as `InitImpl` may set them; `InitFails` is `AddConstTensorData` refusing a
const tensor that does not fit. `launch` is the caller's launch of the last `Init`; `Run`
goes with it or with a copy, on the kernel or its clone, initialised or not, as nothing in
`Run` asks. `RunsAsDeclared` compares what a `Run` hands over with the signature, for the
uses that `Works` names. Offsets keep their 16 bits (`OFFSETS`). The code's running totals
are `Sums`, its loops that pass over some elements `Picked`. The specification is
`ArgsSpec`. `Supported` says which signatures the layout serves.

**`IniFile`** (`utils/inifile`). The reader that `Platform` and `OperationIr` share. An ini
file is a sequence of lines, which `ParseIniFileToMap` goes through as the code's loop
does; `Says` reads the same file by positions, without a loop.

**`Platform`** (`utils/platform`). `configsMap` and `initFlag` are `PlatformManager`'s,
`info` is `PlatformInfo` with the copy it takes at its construction. `Assemble` is an
initialisation's turn at one file. `PlatformAsConfigured` compares what the map and the
getters answer with what the files say.

**`Loader`** (`mki_loader`, `BinHandle`, the runtime's modules). `pc` goes through
`Load`'s four steps, `CreateKernel` once per registration, then `AddAllOperations`
and `Exit`; each step may fail where the code can. The `continue` that
`CreateKernels` wants to do for a handle that fails is inside `MKI_CHECK`'s
`do ... while (0)` and does nothing: the model creates the kernel all the same.
`FirstFitting` is the binary a kernel's name and device find, the first of the registered ones.
`modules` is what the runtime holds, `kept` what nobody can give back: `~BinHandle` returns
`moduleHandle_`, but not the module behind `handle_` of a binary with several kernels, nor
one that a call made again by `CHECK_STATUS_WITH_DESC_RETURN` has replaced.

**`ShareMemory`**. A process is at a `pc` within constructor, use or destructor; each
system call is an action. `sem` is the semaphore's value, `current` the segment the
key stands for, `mem` what each process has attached, `content` what the segments
hold. `Crash` takes a process away
anywhere, with the semaphore if it has it; its segment is detached. So
ends a process whose `sem_open` failed: its next `SemLock` waits on a null pointer.

**`LogSinkFile`**. `files` is the directory, size and permission by name, that is, by
second and process. Listing, each deletion, opening and writing are
actions of their own, since processes share the directory without a lock; a write
may be short or fail, a disk full, a process killed and started again.

**`Memset`**. The host tiles the tensors over the cores (`MemsetTiling`, with
arithmetic modulo `Word`), then the cores clear their parts block copy by block
copy in any order (`CleanTensor`). `zeroed` is the bytes of each tensor that are zero.
The loop compares in 32 bits where it is (`Reached`), but writes through a 64-bit pointer
(`Address`).

**`Fp16`**. Operators for the conversions, the arithmetic and the comparisons, written
as the code computes them, and compared with `IsNearest`: the result is the number
nearest to the exact one, the even one of two, the largest if it is too large.

**`BinFile`**. A file is a sequence of lines and binary data. `Write` starts a file,
`WriteLine` and `WriteBinaries` add to it. `Read` begins to parse whatever is there,
`ReadLine` takes the lines one by one into the attributes and objects of the caller's
`BinFile`, `ReadEnd` does what follows the loop. `Crash` ends the process in between, in a
`Write` or a `Read`. Objects may be read, extended and written again.

**`SVector`**. `vec` has the array, `storage`, and `size`; a call that takes elements away
only changes `size`, and a constructor leaves the rest of the array as it was, which may
be anything. `BoundedList` is what it promises: a list of which elements are inserted,
overwritten and removed and that, resized, may gain arbitrary ones. `ListOf(vec)`, the
elements below `size`, is the refinement mapping. `CallsAsListed` states the calls
against the operations on sequences: an insert also of an element of the vector itself,
which `insert` reads after the move (`ReadAfterMove`), and an order that the comparisons give.

**`TensorDesc`**. Operators over a vector of dimensions, with arithmetic of the
width `INT64_MAX` gives: `CalNumel` refuses a product before it overflows, the number of bytes
wraps around and is then compared. `AcceptedFits` compares with the integers' product.

**`OperationIr`**. `data` is `data_` of `OperationIrCfg`, `meant` what its sections
stand for, computed by positions in the file and not line by line. `Load` is `IniFile`'s
`ParseIniFileToMap`, `Parse` and `InitIsValid` of section after section until one is
refused. `ExtendIn` and `ExtendOut` take `vec` for the caller's lens and spread the tensors
within the array, from the last on, stale elements included: `Spread` is one turn of the loop,
`StartOf` where each tensor's places begin, and `Widened` says what should come out.

**`LogStream`**. `stream` is each thread's `g_stream`, `active` the statements it has begun,
one within the other, `call` its way through `LogCore::Log`, one sink a step, so that other
threads' calls interleave with it. `logged` remembers what was handed to `Log`, `due` what of
it each entry of the vector is owed, and `written` what the entries got. An entry is a sink
for the n-th time, as `AddSink` takes a sink twice. A thread whose call is under way while
another one changes the vector has iterators that may be invalid: `Disturb` takes what is
left of its text out of `due`, as it may go anywhere, and keeps the call until the thread
returns. `DeleteLogFileSink` without a sink ends the process (`alive`). A statement within
another empties the stream they share; `interrupted` marks the outer one, whose head and
operands so far are lost.

## The runs

| Run | States | What it shows |
|---|---|---|
| `kernel_info` | 9,407 up to symmetry | each buffer has one owner, none is lost, an initialised kernel has the data of one launch, a caller's buffer is freed only by a kernel switched back to the tiling mode with it; and it implements `HeapOwnership` |
| `kernel_args` | 6,508 | what the device gets is what its function declares, in the uses that work; all data lie within the arguments |
| `share_memory` | 11,919 up to symmetry | exclusion, one segment, nothing wiped, with processes that die anywhere |
| `share_memory_live` | 73,163 | a process that begins gets through or dies, even if another has died with the semaphore |
| `loader` | 125,737 up to symmetry | the platform is as its files say; what is handed out is complete, for this device, agrees with its handles, or is nothing; the handles' modules are returned |
| `loader_failed_handles` (violation) | - | a kernel whose handle failed is handed out |
| `log_file` | 766,811 up to symmetry | number and sizes of files, and that no line is lost but by deletion |
| `memset` | 25,924 | all bytes of the tensors are cleared, none behind one that leaves room, cores end |
| `fp16` | 9,114 (every state compares a result with all numbers) | results are nearest, order is that of the values |
| `bin_file` | 238,422 | what reads is what was written |
| `operation_ir` | 26,112 | an `SVector`'s calls are a list's and it implements `BoundedList`; the check of tensors accepts what fits; the table of operations is as its files and the lens say |
| `log_stream` | 1,919,935 up to symmetry | a statement's message is its own and whole; each sink gets each message once for every time it was added, and in order, unless the sinks change while it is handed out |

The bounds, and what is known beyond them:

* `KernelInfo`: two kernels, enough for a clone and its prototype; four blocks hold all
  buffers of one and some of the other, so that allocation also fails for want of them. A
  caller may switch the tiling mode off, set a buffer of its own and switch the mode on
  again: the kernel then takes the buffer for its own and deletes it. The run has that
  sequence too. `Mistaken` names the kernels it was done with, and `OwnedOnce` and
  `CallerBuffersKept` say what becomes of their callers' buffers. `SetTilingHostAddr`
  means to keep it from happening: it refuses a caller's buffer in the tiling mode
  (`kernel_info.cpp:137`). An invariant `\A k \in kernels : ~Mistaken(info[k])` is
  violated by `Construct`, `SetLaunchWithTiling(FALSE)`, `SetTilingHostAddr` and
  `SetLaunchWithTiling(TRUE)`.
* `KernelArgs`: signatures of up to seven parameters with every kind, lists in front of
  and behind plain tensors; tilings that const tensors fill, that leave room for their
  data but not for the rounded lengths, that leave no room, and that are larger than 64 KB
  and than 1 MB. `DataWithinArgs` holds for all of them. `RunsAsDeclared` is about the
  uses that `Works` names. Each of its conditions is needed: with any one left out the run
  finds a violation. A kernel with lists works in the tiling mode only, with a tiling that
  ends with its const tensors, and not as a clone, which has lost the tensor-list mode,
  nor with a copied launch, which has lost the lens; with the lens of the outputs alone
  `InitTensorList` numbers output slots from the number of input *lens* and
  `UpdateArgsWithTensorList` from the number of input tensors; a `Run` with a copy that
  counts more arguments clears the tiling for later runs; and above 64 KB, which
  `InitArgs` accepts, offsets wrap, and the device function looks for a const tensor at
  the wrong place.
* `ShareMemory`: three processes and four segments; two processes cannot show a
  third that meets the leftovers of two. `GivesUp = FALSE`: with `sem_timedwait`
  ending after its five minutes while the holder lives, `MutualExclusion`,
  `OneMemory` and `NothingWiped` all fail, since the code goes on as if it had the
  semaphore and posts it afterwards. The live run has `GivesUp = TRUE`, which is what
  its properties rest on, and two processes. Segment identifiers are not reused while
  an object holds one, and the semaphore counts to the number of processes at most.
* `Loader`, `Platform`: libraries of three operations and five kernels, with the
  flawed binary, null creators and foreign operations that can occur; kernel names are
  distinct, as `REG_KERNEL_BASE` makes them. Five directories of ini files have a section
  and a key twice, a section without bracket, too many cores, a malformed
  intrinsic, a file without version, two files of one version, and no file; at each
  initialisation any file may be unreadable. The application initialises and finalises
  `PlatformManager` before or after the load; in between, other threads' calls
  commute with the loader's steps. The directory does not change: with another
  `ASDOPS_HOME_PATH` after a failure, the versions left of the first would mix with the
  second's. Entries before a file's first section are left out. `Transient = TRUE`: a
  runtime call may fail and succeed when `CHECK_STATUS_WITH_DESC_RETURN` makes it again for
  the log. Four modules are one for each handle, or fewer if calls are repeated, so that
  registrations fail for want of them, too. `ModulesReturned` allows the runtime the modules
  in `kept`, at exit and before: of several kernels, and of repeated calls. If `PlatformInfo`
  cannot be initialised its name is `""`, not `"unrecognized"`, and the load succeeds without
  kernels; `Complete` speaks of kernels that have a binary for the device.
* `LogSinkFile`: two processes, each started twice, directories of one file, files of
  two messages, three seconds. Three processes were explored for nine million states
  without a violation, and `FilesBounded` is proved for any number. `Fd = 0` (a process
  without stdin) makes `SizeBounded` fail, as `CloseFile` takes 0 for no file;
  `Root = TRUE` makes `ContentsKept` fail, as only permissions keep a file of the same
  second from being truncated. One process alone keeps 51 files, one more than
  `MAX_LOG_FILE_COUNT`. That a process's open file is not deleted by another, nobody
  promises.
* `Memset`: blocks of 2 bytes in words of 16, two tensors, devices with no, two, three and
  five cores; the sizes make one core, all, and fewer than all work, and idle cores' parts
  begin beyond the word (harmlessly). Size 13 on three cores does not leave room
  (`LeavesRoom`): the last core writes, counts beyond the word to the tensor's beginning,
  and goes on to write behind its end, so that `NothingBehind` fails without that
  condition. In the code these are sizes less than a copy below 4 GB, of which a core's
  part must end within a few blocks behind a multiple of its copy: with up to 72 cores
  there are none for the shipped buffers of 192, 248 and 256 KB, but some for those of 30
  and 32 KB, such as 4,294,967,264 bytes on 20 cores with 32 KB. Size 15, whose aligned
  size is `Word` (4 GB in the code), three tensors for a maximum of two (nine for eight),
  and more infos than arguments each make `AllZeroed` fail. `UbSize * 0.8` is `(ub * 4)
  \div 5`; shipped configurations have a buffer of 30720 bytes at least and 72 vector
  cores at most, so the copy of 256 bytes fits. How `aclrtMemset` is ordered with the
  stream is left out.
* `Fp16`: four exponent and three mantissa bits instead of five and ten, the other widths
  scaled so that the code's relations between them hold; all pairs of numbers.
  `Overlooked` inputs, each confirmed to make `ConvertedIsNearest` fail: `minInt8` (-128
  becomes -0, `fp16_t.cpp:1022`), `minInt32` (its negation is undefined: -0.5 without
  optimisation, -65504 with), `largeUint16` (65520 and more become infinite, because line
  1158 looks at the former value). Infinities and NaNs, which no operation but that one
  makes, are outside the other properties. The code saturates: what is too large, and a
  quotient by zero, is the largest number. `ArithmeticNearest` and `ConvertedIsNearest`
  say so, against three comments: "result is inf" of a division by zero (`fp16_t.cpp:758`)
  and "Exponent overflow/NaN converts to signed inf/NaN" of floats and doubles (977 and
  1294). With infinities as the comments have them both properties fail at once.
* `BinFile`: two attributes or objects, lengths that fit and that do not, names
  that are reserved or contain `=`. `Short = TRUE` (the objects' write falls short)
  makes `WrittenReads`, and only it, fail, since `Write` succeeds all the same; `Reuse = TRUE`
  (reading into an object that is not new) makes `ObjectsInBuffer` and `ReadsWhole` fail.
  So does an object named like `Length=x`, whose line `Read` takes for another length of the
  buffer, which it then empties (`PlainLengths` excludes such names). The checks in the
  reader's loop end in a `break` inside `MKI_CHECK`, so `MAX_FILE_LINE_NUM` has no effect and
  is not modelled. Line breaks in values, several processes at one file, and an
  attribute named `Length` are left out.
* `OperationIr`, `TensorDesc`, `SVector`: vectors of up to three of -1, 0, 1 and 2, a word
  in which products of three of them overflow, every element size, and six files whose
  sections are complete, repeated (with other contents), refused, without header or
  bracket, or have tensors with a format too few, and of which one is too long. Lens and
  dimensions are the same vector, which the run builds by any calls. `AnyLens = TRUE` lets
  callers pass lens that do not suit the tensors: a tensor that is no list (len 0) behind
  a list is overwritten by it, and with fewer lens than tensors `at` throws after the
  resize; `AsMeant` and `CombsReadable` fail then. A file that is not tidy (entries above
  the first header, a header without name or bracket, too long) means what the code reads.
  `View` to no dimensions is left out of `ViewKeepsElements`: `CalNumel` counts one
  element, `Numel` none. An insert of an own element from behind the place, which would
  insert the one before it, is left out of `CallsAsListed`; the library has none. So are
  elements that own memory: an erase of an empty range in the middle moves every later one
  onto itself.
* `LogStream`: two threads and three statements, one within the other or in turn. Each has
  an operand or none, and there are up to two sinks, which may be the same one twice;
  sinks come from the environment, and a program adds and removes them at any time. One
  level suffices for what is logged, since a level only decides whether a statement
  begins; `{0, 3}` was explored with one thread. What a call with invalid iterators does
  beyond losing or repeating its own text (it may end the process) is left out, and so are
  two `AddSink` at the same time. What `Format` does with a text longer than its buffer is
  to log nothing, which is modelled; the sinks' own locks and files are not part of this
  module.

`CHECK_DEADLOCK FALSE` is said where the system may stop: `loader` (the process exits),
`log_stream` (a sink is deleted when there is none) and `share_memory`
(all are gone, or wait for a semaphore that a dead process held).

## Fairness

`ShareMemory`'s `FairSpec` has `WF_vars(Work(p))` for each process: a process that is
inside a constructor, a `SemLock`..`SemUnLock` or a destructor goes on unless it dies, and
`sem_timedwait` returns. It says nothing of beginning, dying or starting again.
`Memset`'s has weak fairness of the disjunction of the host's and the cores' steps: the
program and the device go on; which core goes first is left open. `GetsThrough` and
`Ends` are the properties that rest on them. No other specification states fairness, and
none has liveness properties: elsewhere a caller may stop calling.

## What is proved

Every theorem is for all values of the constants that satisfy the module's named
`ASSUME`; further hypotheses are given in parentheses. They are the ones the runs make, too,
and the section on the bounds says what happens without them.

* `KernelInfoProofs`: `TypeOK`, `OwnedOnce`, `NoLeak`, `LaunchCoherent`,
  `CallerBuffersKept` and the refinement `ImplementsHeap`. Ownership (`OwnershipInv`)
  alone is not inductive, since what `Reset` deletes depends on the modes: `IInv` adds
  that the pointers follow the modes (`PointersInv`) and what an initialised kernel has
  (`ReadyInv`). Each action is shown to exchange one set of blocks for another
  (`KernelStepExchanges`, `InitStepExchanges`, `CloneStepExchanges`); exchanges keep
  ownership, and are `HeapOwnership`'s steps.
* `ShareMemoryProofs`: `TypeOK`, and (`~GivesUp`) `MutualExclusion`, `OneMemory` and
  `NothingWiped`. `SInv` says that the semaphore is at most 1, and 1 only while nobody
  is inside (`SemInv`), that what is attached is the key's segment, which exists
  (`MemInv`, `CurrentInv`), and that what the process inside has found out still holds
  at its next step (`InsideInv`).
* `LogProofs`, of the sink: `FilesBounded` for any number of processes; `TypeOK` and
  `SizeBounded` (for `Fd > 0`); `ContentsKept` (for `Fd > 0` and `~Root`). `FInv` is, besides
  types (`ShapeInv`), `CountInv`: for any set of the processes that have listed the
  directory and have yet to create a file, the files none of them will delete and one
  new file for each are at most `MaxFiles` and the number of processes. With a
  set instead of all of them it survives that two processes delete the same file.
  `SInv` ties each sink to its file: the file a sink has open bears its process's and run's
  name and, while the directory has it, the size that the sink counts; files are writable
  only while their process has them open, or if it died.
* `LaunchProofs`, of `Memset`: `AllZeroed` (for calls that are within the limits,
  `Served`), `NothingBehind` (a core on a tensor that leaves room is never beyond the
  word, `OnCourse`, so that the pointer is where the loop counts), and `ZerosSuffice`
  (`Served`, and `Roomy`: buffers that hold what a core may clear at once, and what
  rounding adds). The heart is arithmetic: the parts of the cores in use cover the tensor
  and end with it (`TilingCovers`), and a core that has left its loop has cleared its part
  (`DeviceInv`).
* `LaunchProofs`, of `KernelArgs`: `DataWithinArgs` and `RunsAsDeclared`, for any signatures,
  tilings, lens and bound on the arguments, with no hypothesis: the uses that
  `RunsAsDeclared` is about are named in it (`Works`). What is laid out one behind the other
  takes the sum of its bytes and stays apart (`LaidOutApart`), and so do the tiling, the const
  tensors and the lists, one behind the other (`CopiedWithin`). `ArgsInv` says it of the kernel
  there is, as clones and runs count the arguments from the same descriptions.
  For `RunsAsDeclared`, `Init` and `Run` both go by counting, so it is about
  ranks: a parameter's number among those of its kind (`RankOf`) is the number of places
  up to it. From there on: what `Init` records fits, place by place, what the signature asks
  for (`InfosBring`); `Run` finds each record where `Init` laid it, as no two begin at
  the same offset (`Solid`, `ServedBy`); and the slots left free are those of the
  plain tensors and the workspaces, in the order in which they are filled (`FreePlaces`).
  `ParamsInv` says that an initialised kernel is laid out for the launch with some tiling
  (`Ready`) or has lost its tiling; a `Run` with a copy of the launch, which may
  count other arguments, keeps all data or clears the tiling (`KeptOrCleared`). The launched
  parameters alone are not inductive: they are made of a layout that `Init` left, and that
  clones, resets, switches of the mode and runs may have changed since.
* `IniFileProofs`: `FileIsAsItSays`. For any file whose lines are lines, whose entries are
  all below names and which is not too long (`Tidy`), what the loop over the lines makes of
  it is what it says by positions. By induction over the lines, the map so far has of each
  name the first section that is over, and the section under way has its entries so far.
* `LoaderProofs`: `LoadedMeansRegistered`; `ModulesReturned`; `CloneLikePrototype`
  (`OneCreatorEach`: `REG_KERNEL_BASE` defines a function by the kernel's name that is not
  static, so that the linker admits one); `Complete`; `PlatformAsConfigured` (`AllTidy`:
  the files are); and `HandedOut` (`AllTidy`, and `BinariesHaveDevices`: no binary is
  registered for a device without a name, as `REG_KERNEL` makes the name from its
  argument). Their invariants say what a handle has at each step of `Load` (`HandlesInv`),
  that kernels point to handles of their own names (`KernelsInv`, `PrototypesInv`), which
  registrations have had their turn (`ProgressInv`, `ScheduleInv`), and for which device
  handles were made (`MadeInv`). `ManagerInv` says that every version in the map, after a
  failure too, has what a file of that version says, and that once `PlatformManager` is
  initialised there is one such file for each version and none is missing; `InfoInv` that
  what `PlatformInfo` copied at its construction is of the runtime's version.
* `LogProofs`, of the statements: `OwnMessage`, for any threads, sinks, levels and
  nesting. `IInv` says, thread by thread (`ThreadInv`), that all active statements but the
  innermost have been interrupted and that the stream holds the innermost one's pieces
  unless it has been as well; an action is shown to keep one thread's part and leave the
  others'. `EverySinkOnce`: `DeliveryInv` adds that a call goes through the entries there
  are, no two the same, or through no more once they have changed, and that each entry has
  got, thread by thread and in order, what it is due but for the one message a call under
  way still has for it.
* `BinFileProofs` (all for `~Reuse` and `PlainLengths`): `ReadsWhole`; `WrittenReads` (also
  `~Short`); `ObjectsInBuffer`. `BInv` follows a file from both ends: a file holds the first
  lines of what was to be written, with the binaries only behind all of them (`FileInv`,
  `TodoInv`), a `Read` has of it what the lines so far say (`ReadInv`), and the objects
  have names of their own and lie in their buffer one behind the other (`BinOK`).
* `OperationIrProofs`, on the three modules that build on each other. `SVector`: `TypeOK`,
  `ImplementsList` and `CallsAsListed` (elements are integers), for any capacity: each call's
  effect on the array is one of `BoundedList`'s, and the operation on sequences of its name,
  on the elements below `size`. `TensorDesc`: `AcceptedFits` and `ViewKeepsElements`, for any
  width of the integers: a count that `CalNumel` does not refuse is the product
  (`CountIsProduct`), and the number of bytes does not wrap where it is compared
  (`DividedFits`). `OperationIr`: `AsMeant` and `CombsReadable` (`~AnyLens`), for any
  files whose lines are lines. Reading line by line has at each line what
  `ReadTo` says, by positions, of the lines so far (`LineRead`, `FlushedTo`), which at the end
  of a tidy file is what its sections mean (`SectionRead`). The loop that spreads the tensors
  has, after each turn, those still to be copied in front of all that was written
  (`ExtendedSpreads`), and leaves what `Widened` says (`ListsAreWidened`). `TableOK` is the
  inductive invariant that a valid operation has all it supports for all its tensors.

The prover has no induction over data. Where a loop's result is a recursive function, that
the function exists is shown by exhibiting it (`FileRead`, `ListsAreWidened`) or step by
step (`StepByStep`, by which `Sums` and `Picked` are reasoned about), and what holds of
its values by a least counterexample (`CountedUp`), both from well-foundedness of the
numbers.

Only model-checked: `GetsThrough` and `Ends`, which are live and rest on fairness; and
`Fp16`, whose bit arithmetic the provers do not find.

## Not modelled

`AllocTensorListHost`'s ignored status (`kernel_base.cpp:324`, after which a list is
written through a null pointer); `ModuleCreateFromFile`; `InferShape` and `IsConsistent`;
registrations made after `Ops` was first used; the platform's lists of dtypes;
`GetPlatformConfigs` beside another thread's `Finalize`; `TensorsEqual`; printing; and the
components that `PROJECT.json` lists as `not_modelled`. Of these `Profiling` has state,
two flags and a cache without a lock, but nothing in the library calls it: which threads
there are is up to programs that are not in the repository.

## Plan

1. Done: buffers, arguments, loader and platform, the two inter-process components,
   log statements, memset, half precision, binary files, vectors, tensors' sizes and the
   operations' tables.
2. Done: the theorems above.
3. Open: a composition of `LogStream` with `LogSinkFile` over an abstract sink, and of
   `OperationIr`'s lens with those of `KernelArgs`, which hold the same numbers.
