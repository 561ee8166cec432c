-------------------------------- MODULE MCFp16 --------------------------------
(* All numbers of eight bits, and the floats and doubles around them. *)
EXTENDS Fp16

(* Mantissas on, just below and just above what rounding looks at.          *)
Mantissas(manLen) ==
  LET rest == manLen - MAN_LEN
      near(n) == {n - 1, n, n + 1} \cap 0 .. 2 ^ manLen - 1
  IN  UNION {near(top * 2 ^ (rest - 1)) : top \in 0 .. 2 ^ (MAN_LEN + 1)}

Floating(manLen) ==
  [sign : 0 .. 1, exp : -(FP16_EXP_BIAS + MAN_LEN + 2) .. FP16_EXP_BIAS + 2, man : Mantissas(manLen)]
    \cup [sign : 0 .. 1, exp : {ZeroExp}, man : {0}]

MCFloats == Floating(FP32_MAN_LEN)
MCDoubles == Floating(FP64_MAN_LEN)
MCInts32 == -(2 ^ (BITS32 - 1)) .. 2 ^ BITS32 - 1
=============================================================================
