----------------------------- MODULE MCKernelArgs -----------------------------
(* Signatures and tilings for checking KernelArgs. *)
EXTENDS KernelArgs

In(n)    == [kind |-> "in", n |-> n]
Out(n)   == [kind |-> "out", n |-> n]
Const(n) == [kind |-> "const", n |-> n]
Ws(n)    == [kind |-> "ws", n |-> n]
Hwsync   == [kind |-> "hwsync", n |-> 0]

(* Const tensors, of 20 and 70 bytes that count as 128 and 192, and hwsync  *)
(* before, among and behind the operands; workspaces; and lists of tensors, *)
(* of the inputs, of the outputs and of both, alone and with plain tensors. *)
MCSignatures ==
  { <<In(0), Ws(32), Ws(96)>>,
    <<Const(20), In(0), Hwsync, In(0), Const(70), Ws(32)>>,
    <<In(2), In(0), Const(20), Ws(32), Ws(96)>>,
    <<In(0), In(1), Out(2), Out(0), Const(20), Hwsync, Const(70)>>,
    <<In(0), Out(0), Out(2), Ws(32)>>,
    <<Out(2), Const(20)>> }

ASSUME MCSignaturesSupported == \A s \in MCSignatures : Supported(s)

Tiling(size, used, constOffset) == [size |-> size, used |-> used, constOffset |-> constOffset]

(* Tilings that the 128 and the 320 bytes of const tensors fill, one that   *)
(* their data fit in but not the bytes they count as, and one without room  *)
(* for any; one that 16-bit offsets do not reach the end of, and one too    *)
(* large for the arguments.                                                 *)
MCTilings ==
  { Tiling(200, 40, 72), Tiling(384, 64, 64), Tiling(262, 64, 64), Tiling(96, 96, 96),
    Tiling(65536, 65408, 65408), Tiling(1048576, 1048576, 1048576) }
=============================================================================
