------------------------------ MODULE KernelArgs ------------------------------
(***************************************************************************)
(* The argument buffer of a kernel launch.  KernelBase::Init lays the      *)
(* tiling, the const tensors and the tensor lists out behind the slots of  *)
(* the arguments; KernelBase::Run fills the slots for a launch, and tells  *)
(* the runtime where in the buffer the data behind some of them lies.      *)
(*                                                                         *)
(* A signature is what the kernel's device function declares: its          *)
(* parameters in order, each an input, an output, a const tensor, the      *)
(* hwsync address or a workspace; the tiling comes last.  An input or an   *)
(* output is one tensor (n = 0) or a list of n tensors; for a const tensor *)
(* and a workspace n is the size in bytes.                                 *)
(*                                                                         *)
(* A tiling is what InitImpl makes of a host tiling of size bytes: how     *)
(* much of it the tiling data use and where the const tensors begin.       *)
(***************************************************************************)
EXTENDS Integers, FiniteSets, SequencesExt

CONSTANTS
  Signatures,   \* the signatures kernels are written for
  Tilings,      \* the tilings of a launch
  Rank          \* number of dims of a tensor

Kinds == {"in", "out", "const", "hwsync", "ws"}

(* SetConstTensorOffset and SetTilingUsedSize keep within the tiling, whose *)
(* size is the const offset too as long as there are no const tensors.      *)
ASSUME SignatureAssumption ==
  /\ Signatures \subseteq Seq([kind : Kinds, n : Nat]) \ {<<>>}
  /\ \A t \in Tilings :
       t.size \in Nat /\ t.constOffset \in 1 .. t.size /\ t.used \in 1 .. t.size
  /\ Rank \in Nat

POINTER == 8                \* sizeof(void *)
MAX_ARGS_SIZE == 1048576    \* maxArgsSize of KernelInfo::InitArgs
OFFSETS == 65536            \* values of an offset in RtHostInputInfoT, RtArgsExT

VARIABLES
  kernel,    \* kernelInfo_ of the kernel object the caller works with
  launch,    \* the caller's LaunchParam, the one the kernel was initialised for
  launched   \* what the device function got from the step, if that was a Run

argsVars == <<kernel, launch, launched>>

(* infos: constTensorInfo_, the slot and the size of what is copied to the  *)
(* device, and how many bytes of that size are filled; host: what the host  *)
(* tiling of so many bytes (size) holds; data: what args_ holds behind its  *)
(* slots.  Both are sets of pieces with an offset and a size.               *)
NewKernel ==
  [tilingMode |-> TRUE, listMode |-> FALSE, initFlag |-> FALSE,
   argsSize |-> 0, data |-> {}, host |-> {}, infos |-> <<>>,
   scratch |-> <<>>, hwsync |-> -1, size |-> 0, used |-> 0, constOffset |-> 0]

Piece(what, at, size) == [what |-> what, at |-> at, size |-> size]

-----------------------------------------------------------------------------
(* Sequences of sizes: the sums of the first so many, of all, and of those  *)
(* before the i-th.                                                         *)
Sums(s) ==
  LET sum[i \in 0 .. Len(s)] == IF i = 0 THEN 0 ELSE sum[i - 1] + s[i]
  IN  sum
Total(s) == Sums(s)[Len(s)]
Before(s, i) == Sums(s)[i - 1]

(* What s has at the places of chosen, in order: SelectSeq, by places.  The *)
(* first of them, up to a place, and all.                                   *)
PickedTo(s, chosen) ==
  LET picked[i \in 0 .. Len(s)] ==
        IF i = 0 THEN <<>>
        ELSE IF i \in chosen THEN Append(picked[i - 1], s[i]) ELSE picked[i - 1]
  IN  picked
Picked(s, chosen) == PickedTo(s, chosen)[Len(s)]

AlignedSize(len) == ((len + 63) \div 64) * 64

(* The n of a signature's parameters of one kind, and where they stand.     *)
Of(s, kind) == {i \in DOMAIN s : s[i].kind = kind}
Sizes(s, kind) == Picked([i \in DOMAIN s |-> s[i].n], Of(s, kind))
Positions(s, kind) == Picked([i \in DOMAIN s |-> i], Of(s, kind))

HasLists(s) == \E i \in DOMAIN s : s[i].kind \in {"in", "out"} /\ s[i].n > 0

(* A launch: the tensors of a signature, and of which kinds of operands it  *)
(* gives the lens (0 for a tensor, n > 0 for a list).                       *)
Lens(l, kind) == IF kind \in l.lens THEN Sizes(l.signature, kind) ELSE <<>>
ListsIn(lens) == {i \in DOMAIN lens : lens[i] > 0}
ListCount(lens) == Len(Picked(lens, ListsIn(lens)))
TensorsOf(lens) == [i \in DOMAIN lens |-> IF lens[i] > 0 THEN lens[i] ELSE 1]

(* The operands Run goes through: the lens, or without lens the tensors.    *)
Operands(l, kind) ==
  IF Lens(l, kind) # <<>> THEN Lens(l, kind)
  ELSE [i \in 1 .. Total(TensorsOf(Sizes(l.signature, kind))) |-> 0]

(* Inputs, outputs, const tensors, workspaces, hwsync and the tiling.       *)
ArgsNum(k, l) ==
  Len(Operands(l, "in")) + Len(Operands(l, "out"))
    + (Len(k.infos) - ListCount(Lens(l, "in")) - ListCount(Lens(l, "out")))
    + Len(k.scratch) + (IF k.hwsync < 0 THEN 0 ELSE 1) + 1

-----------------------------------------------------------------------------
(* What InitImpl and InitTensorList record.  A const tensor's slot is the   *)
(* one the kernel gives AddConstTensorData, and its size is rounded up and  *)
(* 64 bytes more; a list's slot is its index among the lens, the outputs'   *)
(* after the inputs' lens.                                                  *)
ConstInfos(s) ==
  [c \in DOMAIN Sizes(s, "const") |->
     [what |-> <<"const", c>>, slot |-> Positions(s, "const")[c] - 1,
      size |-> AlignedSize(Sizes(s, "const")[c]) + 64, bytes |-> Sizes(s, "const")[c]]]

(* The bytes of a list: per tensor its address, its rank and index, and its *)
(* dims, and one word for the offset of the addresses.                      *)
ListBytes(n) == POINTER * (n + 1 + n * (Rank + 1))

ListInfos(lens, kind, slotOffset) ==
  LET info(i) == [what |-> <<kind, Before(TensorsOf(lens), i), lens[i]>>,
                  slot |-> i - 1 + slotOffset,
                  size |-> ListBytes(lens[i]), bytes |-> ListBytes(lens[i])]
  IN  Picked([i \in DOMAIN lens |-> info(i)], ListsIn(lens))

TensorListInfos(l) ==
  ListInfos(Lens(l, "in"), "in", 0)
    \o ListInfos(Lens(l, "out"), "out", Len(Lens(l, "in")))

InfoSizes(infos) == [i \in DOMAIN infos |-> infos[i].size]
InfoBytes(infos) == Total(InfoSizes(infos))

(* Pieces laid out one after the other from offset at.                      *)
LaidOut(infos, at) ==
  { Piece(infos[i].what, at + Before(InfoSizes(infos), i), infos[i].bytes) : i \in DOMAIN infos }

(* AddConstTensorData refuses a const tensor that begins behind the tiling  *)
(* or whose data reach behind it.                                           *)
ConstFits(infos, c, t) ==
  LET offset == t.constOffset + Before(InfoSizes(infos), c)
  IN  offset < t.size /\ offset + infos[c].bytes <= t.size
Unfit(infos, t) == {c \in DOMAIN infos : ~ConstFits(infos, c, t)}

HostOf(consts, t) == {Piece(<<"tiling">>, 0, t.used)} \cup LaidOut(consts, t.constOffset)

(* The kernel that Init and InitImpl have described for launch l with       *)
(* tiling t, once consts have been added.                                   *)
Described(l, t, consts) ==
  [kernel EXCEPT
     !.listMode = @ \/ l.lens # {},
     !.initFlag = FALSE, !.argsSize = 0, !.data = {}, !.infos = consts,
     !.scratch = Sizes(l.signature, "ws"),
     !.hwsync = IF Positions(l.signature, "hwsync") = <<>> THEN -1
                ELSE Positions(l.signature, "hwsync")[1] - 1,
     !.size = t.size, !.used = t.used, !.constOffset = t.constOffset,
     !.host = HostOf(consts, t)]

(* Bytes of host tiling from the const offset on.                           *)
ConstBytes(t) == t.size - t.constOffset

ListsBytes(l) == AlignedSize(InfoBytes(TensorListInfos(l)))

(* Mutant of ArgsSize: no room for the tensor lists.                        *)
ArgsSizeWithoutLists(k, l, t) ==
  POINTER * ArgsNum(k, l)
    + (IF k.tilingMode THEN AlignedSize(t.used) + ConstBytes(t) ELSE 0)

(* The size of args_ for a described kernel k: the slots, and in the tiling *)
(* mode the tiling, the const tensors and the tensor lists.                 *)
ArgsSize(k, l, t) ==
  POINTER * ArgsNum(k, l)
    + (IF k.tilingMode
       THEN AlignedSize(t.used) + ConstBytes(t) + ListsBytes(l)
       ELSE 0)

(* What Init copies behind the slots, in the tiling mode.                   *)
Copied(k, l, t) ==
  LET base   == POINTER * ArgsNum(k, l)
      consts == base + AlignedSize(t.used)
  IN  IF k.tilingMode
      THEN {Piece(<<"tiling">>, base, t.used)}
             \cup LaidOut(ConstInfos(l.signature), consts)
             \cup LaidOut(TensorListInfos(l), consts + ConstBytes(t))
      ELSE {}

-----------------------------------------------------------------------------
(* The slots of the arguments, NULL until something is put into them.       *)
NULL == <<"null">>

(* Items go into the free slots in order, as far as there are any: the      *)
(* loops of UpdateInOutWkspArgs and UpdateArgsWithTensorList, that step     *)
(* over the slots taken by const tensors, lists and hwsync.                 *)
Fill(args, items) ==
  LET free == {i \in DOMAIN args : args[i] = NULL}
      rank(i) == Cardinality({j \in free : j <= i})
  IN  [i \in DOMAIN args |->
         IF i \in free /\ rank(i) <= Len(items) THEN items[rank(i)] ELSE args[i]]

(* Mutant of Plain: a list is passed over as if it were one tensor.         *)
PlainIgnoresLists(operands, kind) ==
  LET item(i) == <<kind, i - 1, operands[i]>>
  IN  Picked([i \in DOMAIN operands |-> item(i)], DOMAIN operands \ ListsIn(operands))

(* The tensors among the operands, each by its index among the tensors.     *)
Plain(operands, kind) ==
  LET item(i) == <<kind, Before(TensorsOf(operands), i), operands[i]>>
  IN  Picked([i \in DOMAIN operands |-> item(i)], DOMAIN operands \ ListsIn(operands))

Tensors(l, kind) ==
  [i \in 1 .. Total(TensorsOf(Sizes(l.signature, kind))) |-> <<kind, i - 1, 0>>]

Workspaces(k) == [w \in DOMAIN k.scratch |-> <<"ws", Before(k.scratch, w)>>]

(* The tensor-list mode goes by the operands, otherwise each tensor counts. *)
Items(k, l) ==
  (IF k.listMode
   THEN Plain(Operands(l, "in"), "in") \o Plain(Operands(l, "out"), "out")
   ELSE Tensors(l, "in") \o Tensors(l, "out"))
  \o Workspaces(k)

(* The piece at an offset of a buffer.                                      *)
DataAt(buffer, offset) ==
  IF \E d \in buffer : d.at = offset
  THEN (CHOOSE d \in buffer : d.at = offset).what ELSE <<"garbage">>

(* Where Run says the i-th piece of infos is: in args_ behind n slots, or   *)
(* in the tiling that the caller has copied to the device.                  *)
InfoOffset(k, n, i) ==
  (IF k.tilingMode THEN POINTER * n + AlignedSize(k.used) ELSE k.constOffset)
    + Before(InfoSizes(k.infos), i)

(* What is left of the data once the first n slots are zeroed.              *)
Kept(k, n) == {d \in k.data : d.at >= POINTER * n}

(* The data of the i-th piece of infos as the device finds it.              *)
InfoData(k, n, i) ==
  IF k.tilingMode THEN DataAt(Kept(k, n), InfoOffset(k, n, i) % OFFSETS)
                  ELSE DataAt(k.host, InfoOffset(k, n, i))

(* The parameters as the device function gets them.  Of two pieces that are *)
(* put into one slot the later stays.                                       *)
Params(k, l) ==
  LET n == ArgsNum(k, l)
      at(j) == {i \in DOMAIN k.infos : k.infos[i].slot = j - 1}
      taken == [j \in 1 .. n |->
                  IF at(j) # {}
                  THEN InfoData(k, n, CHOOSE i \in at(j) : \A h \in at(j) : h <= i)
                  ELSE IF j - 1 = k.hwsync THEN <<"hwsync">> ELSE NULL]
  IN  [Fill(taken, Items(k, l)) EXCEPT ![n] =
         IF k.tilingMode THEN DataAt(Kept(k, n), POINTER * n % OFFSETS)
                         ELSE <<"tiling">>]

-----------------------------------------------------------------------------
ArgsInit ==
  /\ kernel = NewKernel
  /\ launch = [signature |-> <<>>, lens |-> {}]
  /\ launched = <<>>

(* A kernel written for a signature is asked for a launch: its lists need   *)
(* their lens, and each kind of operand may come with them.                 *)
Launches ==
  { l \in [signature : Signatures, lens : SUBSET {"in", "out"}] :
      /\ \A kind \in {"in", "out"} :
           (\E i \in DOMAIN l.signature :
              l.signature[i].kind = kind /\ l.signature[i].n > 0) => kind \in l.lens
      /\ \A kind \in l.lens : Sizes(l.signature, kind) # <<>> }

(* Init allocates the tiling, or finds the one the caller has set.          *)
TilingFor(t) == ~kernel.tilingMode => kernel.size = t.size

(* KernelBase::Init of a launch whose const tensors fit; InitArgs refuses   *)
(* too large a buffer.                                                      *)
InitLaunch(l, t) ==
  LET consts == ConstInfos(l.signature)
      k == [Described(l, t, consts) EXCEPT !.infos = consts \o TensorListInfos(l)]
      size == ArgsSize(k, l, t)
  IN
  /\ TilingFor(t) /\ Unfit(consts, t) = {}
  /\ kernel' = IF size > MAX_ARGS_SIZE THEN k
               ELSE [k EXCEPT !.initFlag = TRUE, !.argsSize = size,
                              !.data = Copied(k, l, t)]
  /\ launch' = l
  /\ launched' = <<>>

(* InitImpl gives up at the first const tensor that does not fit.           *)
InitFails(l, t) ==
  LET consts == ConstInfos(l.signature)
      unfit == Unfit(consts, t)
      added(c) == SubSeq(consts, 1, c - 1)
  IN
  /\ TilingFor(t)
  /\ \E c \in unfit : /\ \A b \in unfit : c <= b
                      /\ kernel' = Described(l, t, added(c))
  /\ launch' = l
  /\ launched' = <<>>

(* The caller works on with a clone.  Copy passes on all of an initialised  *)
(* kernel except the tensor-list mode, and in the tiling mode the data.     *)
Clone ==
  /\ kernel' = IF kernel.initFlag
               THEN [kernel EXCEPT !.listMode = FALSE,
                                   !.data = IF kernel.tilingMode THEN @ ELSE {}]
               ELSE [NewKernel EXCEPT !.tilingMode = kernel.tilingMode]
  /\ launched' = <<>>
  /\ UNCHANGED launch

(* KernelInfo::ResetTilingInfo: a caller's tiling stays.                    *)
WithoutTiling(k) ==
  IF k.tilingMode THEN [k EXCEPT !.host = {}, !.size = 0, !.constOffset = 0, !.used = 0] ELSE k

(* The arguments stay, described for the other mode.                        *)
SetLaunchWithTiling(flag) ==
  /\ kernel.tilingMode # flag
  /\ kernel' = [WithoutTiling(kernel) EXCEPT !.tilingMode = flag, !.initFlag = FALSE]
  /\ launched' = <<>>
  /\ UNCHANGED launch

(* The caller sets another tiling, of so many bytes and without const       *)
(* tensors; the arguments stay, and so does initFlag_.                      *)
SetTilingHostAddr(len) ==
  /\ ~kernel.tilingMode
  /\ kernel' = [kernel EXCEPT !.host = {}, !.size = len, !.used = len, !.constOffset = len]
  /\ launched' = <<>>
  /\ UNCHANGED launch

(* Also an Init that fails to allocate its tiling.                          *)
Reset ==
  /\ kernel' = [WithoutTiling(kernel) EXCEPT
                  !.initFlag = FALSE, !.argsSize = 0, !.data = {},
                  !.infos = <<>>, !.scratch = <<>>, !.hwsync = -1]
  /\ launched' = <<>>
  /\ UNCHANGED launch

(* LaunchParam's assignment: it leaves the lens behind.                     *)
CopyOf(l) == [l EXCEPT !.lens = {}]

(* KernelBase::Run with the launch of the last Init, or with a copy of it.  *)
(* Whether the kernel is still initialised is not asked, only whether the   *)
(* slots are within its arguments.                                          *)
RunLaunch(l) ==
  LET n == ArgsNum(kernel, l)
  IN
  /\ launch \in Launches
  /\ IF POINTER * n <= kernel.argsSize
     THEN /\ kernel' = [kernel EXCEPT !.data = Kept(kernel, n)]
          /\ launched' = Params(kernel, l)
     ELSE /\ launched' = << <<"refused">> >>
          /\ UNCHANGED kernel
  /\ UNCHANGED launch

ArgsNext ==
  \/ \E l \in Launches, t \in Tilings : InitLaunch(l, t)
  \/ \E l \in Launches, t \in Tilings : InitFails(l, t)
  \/ Clone
  \/ \E flag \in BOOLEAN : SetLaunchWithTiling(flag)
  \/ \E t \in Tilings : SetTilingHostAddr(t.size)
  \/ Reset
  \/ \E l \in {launch, CopyOf(launch)} : RunLaunch(l)

ArgsSpec == ArgsInit /\ [][ArgsNext]_argsVars

-----------------------------------------------------------------------------
(* The parameters a signature asks for: each by what there is of its kind   *)
(* before it, tensors, const tensors or bytes of workspace.                 *)
Asked(s) ==
  LET before(i, kind, weight) ==
        Before([j \in DOMAIN s |-> IF s[j].kind = kind THEN weight[j] ELSE 0], i)
      ones == [j \in DOMAIN s |-> 1]
      sizes == [j \in DOMAIN s |-> s[j].n]
      param(i) ==
        CASE s[i].kind \in {"in", "out"} -> <<s[i].kind, before(i, s[i].kind, TensorsOf(sizes)), s[i].n>>
          [] s[i].kind = "const"  -> <<"const", before(i, "const", ones) + 1>>
          [] s[i].kind = "ws"     -> <<"ws", before(i, "ws", sizes)>>
          [] s[i].kind = "hwsync" -> <<"hwsync">>
  IN  Append([i \in DOMAIN s |-> param(i)], <<"tiling">>)

(* The signatures that this layout serves: inputs come before outputs and   *)
(* outputs before workspaces, as the free slots are filled in that order;   *)
(* a list's slot is its index among the operands, so that nothing else      *)
(* stands before it; there is one hwsync slot; and no const tensor is empty.*)
Supported(s) ==
  /\ \A i, j \in DOMAIN s : i < j =>
       <<s[i].kind, s[j].kind>> \notin {<<"out", "in">>, <<"ws", "in">>, <<"ws", "out">>}
  /\ \A i, j \in DOMAIN s :
       i < j /\ s[j].kind \in {"in", "out"} /\ s[j].n > 0 => s[i].kind \in {"in", "out"}
  /\ \A i, j \in DOMAIN s : s[i].kind = "hwsync" /\ s[j].kind = "hwsync" => i = j
  /\ \A i \in DOMAIN s : s[i].kind = "const" => s[i].n > 0

(* The tiling that Init has filled in is still the kernel's: no other has   *)
(* been set since, and no Run with more arguments has cleared it.           *)
TilingKept(k) ==
  \E d \in (IF k.tilingMode THEN k.data ELSE k.host) : d.what = <<"tiling">>

(* The uses that work.  Offsets have 16 bits, while InitArgs accepts        *)
(* arguments of up to 1 MB.  Lists need the tensor-list mode, which a clone *)
(* has not; the tiling mode; a tiling that ends with its const tensors; and *)
(* with the lens of the outputs those of the inputs.                        *)
Works(k, l) ==
  /\ k.argsSize <= OFFSETS
  /\ k.initFlag /\ TilingKept(k)
  /\ l \in Launches /\ Supported(l.signature)
  /\ HasLists(l.signature) =>
       /\ k.listMode /\ k.tilingMode
       /\ k.size - k.constOffset = InfoBytes(ConstInfos(l.signature))
       /\ l.lens = {"out"} => Sizes(l.signature, "in") = <<>>

(***************************************************************************)
(* Whenever Run launches a kernel, be it the first run or a later one, the *)
(* original or a clone, with the caller's launch or a copy of it, the      *)
(* device function gets what it declares:  every tensor, list, const       *)
(* tensor and workspace at its own place, with its own data.  This ties    *)
(* together the slots InitImpl and InitTensorList choose, the layout Init  *)
(* copies by and the offsets Run computes anew; Works says for which uses. *)
(***************************************************************************)
RunsAsDeclared ==
  [][\A l \in {launch, CopyOf(launch)} :
       Works(kernel, l) /\ RunLaunch(l) => launched' = Asked(l.signature)]_argsVars

(***************************************************************************)
(* What Init copies into the arguments lies behind the slots and within    *)
(* the buffer, and no piece runs into another, though a const tensor is    *)
(* counted with more bytes than the tiling may have left for it.           *)
(***************************************************************************)
DataWithinArgs ==
  /\ \A d \in kernel.data :
       /\ POINTER * ArgsNum(kernel, launch) <= d.at
       /\ d.at + d.size <= kernel.argsSize
  /\ \A d, e \in kernel.data :
       d # e => d.at + d.size <= e.at \/ e.at + e.size <= d.at
=============================================================================
