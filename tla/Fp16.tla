--------------------------------- MODULE Fp16 ---------------------------------
(***************************************************************************)
(* Fp16T: half-precision numbers in software.  A number is its bits: the   *)
(* sign, EXP_LEN bits of exponent, MAN_LEN of mantissa.  The arithmetic    *)
(* has no infinity: what is too large becomes the largest number, and an   *)
(* exponent of all ones, if it is met, is one like any other.              *)
(*                                                                         *)
(* The code shifts mantissas a bit at a time and keeps what falls out in   *)
(* mTrct; here a mantissa is a whole number of units of 2^-TRCT_LEN.       *)
(***************************************************************************)
EXTENDS Integers, FiniteSetsExt

CONSTANTS
  EXP_LEN,        \* 5 bits of exponent
  MAN_LEN,        \* 10, FP16_MAN_LEN
  TRCT_LEN,       \* 32 bits of mTrct
  FP32_MAN_LEN,   \* 23
  FP64_MAN_LEN,   \* 52
  BITS8, BITS16, BITS32,  \* widths of the integer types
  Floats,         \* floats and doubles: records [sign, exp, man]; exp is
  Doubles,        \*   without its bias, and below any other's for a zero
  Ints32,         \* signed and unsigned integers of BITS32
  Overlooked      \* conversions from integers made although they go wrong

ASSUME FormatAssumption ==
  /\ EXP_LEN \in Nat \ {0, 1} /\ MAN_LEN \in Nat \ {0}
  /\ TRCT_LEN >= 2 ^ EXP_LEN /\ FP32_MAN_LEN >= 2 * MAN_LEN + 3 /\ FP64_MAN_LEN >= FP32_MAN_LEN
  /\ BITS8 <= MAN_LEN + 1 /\ BITS16 = 2 ^ (EXP_LEN - 1) /\ BITS32 > BITS16
  /\ Ints32 \subseteq -(2 ^ (BITS32 - 1)) .. 2 ^ BITS32 - 1

(* minInt8:     the least int8_t                                            *)
(* minInt32:    the least int32_t                                           *)
(* largeUint16: a uint16_t that is rounded to a power of two beyond the     *)
(*              largest number                                              *)
ASSUME OverlookedAssumption == Overlooked \subseteq {"minInt8", "minInt32", "largeUint16"}

VARIABLES
  val,   \* the number's bits
  from   \* the value it has just been converted from, if any

vars == <<val, from>>

FP16_EXP_BIAS == 2 ^ (EXP_LEN - 1) - 1
FP16_MAX_EXP == 2 ^ EXP_LEN - 1
FP16_MAN_HIDE_BIT == 2 ^ MAN_LEN
FP16_MAX_MAN == FP16_MAN_HIDE_BIT - 1
FP16_SIGN_MASK == 2 ^ (EXP_LEN + MAN_LEN)
UINT16 == 0 .. 2 * FP16_SIGN_MASK - 1

Sign(v) == v \div FP16_SIGN_MASK
ExpField(v) == (v \div FP16_MAN_HIDE_BIT) % 2 ^ EXP_LEN
Man(v) == (v % FP16_MAN_HIDE_BIT) + (IF ExpField(v) > 0 THEN FP16_MAN_HIDE_BIT ELSE 0)

(* ExtractFP16: the exponent of a denormal number is 1.                     *)
Exp(v) == IF ExpField(v) = 0 THEN 1 ELSE ExpField(v)

IsZero(v) == v % FP16_SIGN_MASK = 0
IsInvalid(v) == ExpField(v) = FP16_MAX_EXP
Constructor(s, e, m) == s * FP16_SIGN_MASK + e * FP16_MAN_HIDE_BIT + (m % FP16_MAN_HIDE_BIT)
Largest(s) == Constructor(s, FP16_MAX_EXP - 1, FP16_MAX_MAN)

(* Fp16Normalize: no infinity; the least normal number has exponent 1.      *)
Normalized(s, e, m) ==
  IF e >= FP16_MAX_EXP THEN Largest(s)
  ELSE Constructor(s, IF e = 0 /\ m = FP16_MAN_HIDE_BIT THEN 1 ELSE e, m)

-----------------------------------------------------------------------------
(* Mutant of IsRoundOne: half way is always rounded up.                     *)
IsRoundUp(m, len) == m % 2 ^ len >= 2 ^ (len - 1)

(* Are the last len bits of m rounded up?  Half way, to an even number.     *)
IsRoundOne(m, len) ==
  LET left == m % 2 ^ len
      half == 2 ^ (len - 1)
  IN  left > half \/ (left = half /\ (m \div 2 ^ len) % 2 = 1)

Rounded(m, len) == (m \div 2 ^ len) + (IF IsRoundOne(m, len) THEN 1 ELSE 0)

(* Turns of the loops that shift a mantissa left until it has its hidden    *)
(* bit, most turns at most, and right until it has no more.                 *)
LeftTurns(m, hide, most) ==
  Min({k \in 0 .. most : (m > 0 /\ m >= hide \div 2 ^ k) \/ k = most})
RightTurns(m, hide, least) ==
  Min({k \in least .. least + TRCT_LEN : m \div 2 ^ k < 2 * hide})

(* Fp16Add.  Of mantissas of different signs the one with the greater       *)
(* exponent is kept; a difference of less than a unit is computed with     *)
(* three bits more.                                                        *)
Fp16Add(v1, v2) ==
  LET e == Max({Exp(v1), Exp(v2)})
      same == Sign(v1) = Sign(v2)
      shifted(v) == (IF ~same /\ Sign(v) = 1 THEN -Man(v) ELSE Man(v))
                      * 2 ^ (TRCT_LEN - (e - Exp(v)))
      total == shifted(v1) + shifted(v2)
      s == IF same THEN Sign(v1) ELSE IF total < 0 THEN 1 ELSE 0
      shiftOut == IF total \div 2 ^ TRCT_LEN = 0 THEN 3 ELSE 0
      hide == 2 ^ (MAN_LEN + shiftOut)
      x == (IF total < 0 THEN -total ELSE total) * 2 ^ shiftOut
      up == LeftTurns(x, hide * 2 ^ TRCT_LEN, e)
      down == RightTurns(x * 2 ^ up, hide * 2 ^ TRCT_LEN, 0)
      y == (x * 2 ^ up) \div 2 ^ down
      m == (y \div 2 ^ (TRCT_LEN + shiftOut)) + (IF IsRoundOne(y, TRCT_LEN) THEN 1 ELSE 0)
      over == RightTurns(m, hide, 0)
      eVal == e - up + down + over
      mVal == m \div 2 ^ over
  IN  Normalized(s, eVal, IF eVal = 0 /\ mVal <= 2 * hide THEN mVal \div 2 ELSE mVal)

Fp16Sub(v1, v2) == Fp16Add(v1, (v2 + FP16_SIGN_MASK) % (2 * FP16_SIGN_MASK))

Xor(s1, s2) == IF s1 = s2 THEN 0 ELSE 1

Fp16Mul(v1, v2) ==
  LET e == Exp(v1) + Exp(v2) - FP16_EXP_BIAS - MAN_LEN
      x == Man(v1) * Man(v2) * 2 ^ TRCT_LEN
      hide == FP16_MAN_HIDE_BIT * 2 ^ TRCT_LEN
      up == LeftTurns(x, hide, Max({0, e - 1}))
      down == RightTurns(x * 2 ^ up, hide, Max({0, 1 - e}))
      m == Rounded((x * 2 ^ up) \div 2 ^ down, TRCT_LEN)
      over == RightTurns(m, FP16_MAN_HIDE_BIT, 0)
      eVal == e - up + down + over
      mVal == m \div 2 ^ over
  IN  Normalized(Xor(Sign(v1), Sign(v2)),
                 IF eVal = 1 /\ mVal < FP16_MAN_HIDE_BIT THEN 0 ELSE eVal, mVal)

-----------------------------------------------------------------------------
(* Mutant of Carry: dropped.                                                *)
NoCarry(m) == 0

(* Rounded up to its hidden bit, a mantissa raises the exponent.            *)
Carry(m) == IF m >= FP16_MAN_HIDE_BIT THEN 1 ELSE 0

(* From a float or a double with manLen bits of mantissa.                   *)
FromFloating(f, manLen) ==
  LET least == 1 - FP16_EXP_BIAS - MAN_LEN    \* exponent of the least denormal
      mVal == Rounded(f.man, manLen - MAN_LEN)
  IN  CASE f.exp > FP16_EXP_BIAS + 1 -> Largest(f.sign)
        [] f.exp > -FP16_EXP_BIAS /\ f.exp <= FP16_EXP_BIAS + 1 ->
             Normalized(f.sign, f.exp + FP16_EXP_BIAS + Carry(mVal), mVal)
        [] f.exp >= least /\ f.exp <= -FP16_EXP_BIAS ->
             Normalized(f.sign, 0, Rounded((f.man + 2 ^ manLen) * 2 ^ (f.exp - least), manLen))
        [] f.exp < least -> Constructor(f.sign, 0, IF f.exp = least - 1 /\ f.man > 0 THEN 1 ELSE 0)

FromFloat(f) == FromFloating(f, FP32_MAN_LEN)
FromDouble(f) == FromFloating(f, FP64_MAN_LEN)

ZeroExp == -4 * (FP16_EXP_BIAS + MAN_LEN)

(* Fp16ToFloat, Fp16ToDouble.                                               *)
ToFloating(v, manLen) ==
  LET up == LeftTurns(Man(v), FP16_MAN_HIDE_BIT, MAN_LEN)
  IN  IF Man(v) = 0 THEN [sign |-> Sign(v), exp |-> ZeroExp, man |-> 0]
      ELSE [sign |-> Sign(v), exp |-> Exp(v) - up - FP16_EXP_BIAS,
            man  |-> ((Man(v) * 2 ^ up) % FP16_MAN_HIDE_BIT) * 2 ^ (manLen - MAN_LEN)]

ToFloat(v) == ToFloating(v, FP32_MAN_LEN)
ToDouble(v) == ToFloating(v, FP64_MAN_LEN)

(* n / d as the processor computes it in floats: to the nearest, even.      *)
FloatQuotient(n, d) ==
  LET limit == 2 ^ EXP_LEN + MAN_LEN
      x == IF n >= d THEN Max({k \in 0 .. limit : d * 2 ^ k <= n})
                     ELSE Max({k \in -limit .. -1 : d <= n * 2 ^ (-k)})
      num == n * 2 ^ Max({0, FP32_MAN_LEN - x})
      den == d * 2 ^ Max({0, x - FP32_MAN_LEN})
      q == num \div den
      r == 2 * (num % den)
      m == q + (IF r > den \/ (r = den /\ q % 2 = 1) THEN 1 ELSE 0)
      carry == m \div 2 ^ (FP32_MAN_LEN + 1)
  IN  [sign |-> 0, exp |-> x + carry, man |-> (m \div 2 ^ carry) % 2 ^ FP32_MAN_LEN]

Fp16Div(v1, v2) ==
  LET s == Xor(Sign(v1), Sign(v2))
      n == Man(v1) * 2 ^ Max({0, Exp(v1) - Exp(v2)})
      d == Man(v2) * 2 ^ Max({0, Exp(v2) - Exp(v1)})
  IN  IF IsZero(v2) THEN Largest(s)
      ELSE IF IsZero(v1) THEN 0
      ELSE FromFloat(FloatQuotient(n, d)) + s * FP16_SIGN_MASK

-----------------------------------------------------------------------------
SignOf(i) == IF i < 0 THEN 1 ELSE 0
Magnitude(i) == IF i < 0 THEN -i ELSE i

(* int8_t and uint8_t have no more bits than a mantissa.                    *)
FromNarrow(s, m) ==
  LET up == LeftTurns(m, FP16_MAN_HIDE_BIT, MAN_LEN)
  IN  IF m = 0 THEN Constructor(s, 0, 0) ELSE Constructor(s, FP16_EXP_BIAS + MAN_LEN - up, m * 2 ^ up)

FromUInt8(i) == FromNarrow(0, i)

(* Of a negative number the seven low bits are looked at.                   *)
FromInt8(i) ==
  FromNarrow(SignOf(i), IF i % 2 ^ (BITS8 - 1) = 0 THEN 0 ELSE Magnitude(i))

(* The exponent and the mantissa of a wider integer.                        *)
WideInt(m) ==
  LET len == Min({k \in 0 .. BITS32 : m < 2 ^ k})
      extra == len - (MAN_LEN + 1)
      mTmp == Rounded(m, extra)
      over == RightTurns(mTmp, FP16_MAN_HIDE_BIT, 0)
  IN  IF extra > 0
      THEN [e |-> FP16_EXP_BIAS + MAN_LEN + extra + over, m |-> mTmp \div 2 ^ over]
      ELSE [e |-> FP16_EXP_BIAS + len - 1, m |-> m * 2 ^ (-extra)]

FromInt16(i) ==
  LET w == WideInt(Magnitude(i)) IN IF i = 0 THEN 0 ELSE Constructor(SignOf(i), w.e, w.m)

FromUInt16(i) == FromInt16(i)

FromWide(s, m) ==
  LET w == WideInt(m) IN IF w.e >= FP16_MAX_EXP THEN Largest(s) ELSE Constructor(s, w.e, w.m)

(* Negating the least int32_t is undefined; it gives the number itself, of  *)
(* which the sign is cut off, or, optimised, a number as large.             *)
FromInt32(i) ==
  IF i = 0 THEN {0}
  ELSE {FromWide(SignOf(i), m) : m \in {Magnitude(i) % 2 ^ (BITS32 - 1), Magnitude(i)}}

FromUInt32(i) == IF i = 0 THEN 0 ELSE FromWide(0, i)

-----------------------------------------------------------------------------
(* The mantissa as an integer, and how many bits of it are a fraction.      *)
LongInt(v) == Man(v) * 2 ^ Max({0, ExpField(v) - FP16_EXP_BIAS})
Fraction(v) == MAN_LEN + Max({0, FP16_EXP_BIAS - ExpField(v)})

(* The rounded integer, as long as most is not exceeded.                    *)
IntegerOf(v, most) ==
  LET mVal == LongInt(v) \div 2 ^ Fraction(v)
  IN  IF IsRoundOne(LongInt(v), Fraction(v)) /\ mVal < most THEN mVal + 1 ELSE mVal

Signed(v, m) == IF Sign(v) = 1 THEN -m ELSE m

(* Mutant of Overflows: not looked at.                                      *)
OverflowsNever(v, bits) == IsInvalid(v)

(* FP16CheckIntOverflow *)
Overflows(v, bits) ==
  \/ IsInvalid(v)
  \/ /\ ExpField(v) > FP16_EXP_BIAS
     /\ LongInt(v) >= 2 ^ (bits - 1 + MAN_LEN) - (1 - Sign(v))

ToInt8(v) ==
  IF Overflows(v, BITS8) THEN Signed(v, 2 ^ (BITS8 - 1) - (1 - Sign(v)))
  ELSE Signed(v, IntegerOf(v, 2 ^ (BITS8 - 1) - (1 - Sign(v))))

ToInt16(v) ==
  IF Overflows(v, BITS16) THEN Signed(v, 2 ^ (BITS16 - 1) - (1 - Sign(v)))
  ELSE Signed(v, IntegerOf(v, 2 ^ (BITS16 - 1) - 1))

ToInt32(v) ==
  IF IsInvalid(v) THEN Signed(v, 2 ^ (BITS32 - 1) - (1 - Sign(v)))
  ELSE Signed(v, IntegerOf(v, 2 ^ (BITS32 - 1) - 1))

(* A negative number becomes 0; only uint8_t can overflow.                  *)
ToUnsigned(v, bits) ==
  LET most == 2 ^ bits - 1
  IN  IF Sign(v) = 1 THEN 0
      ELSE IF IsInvalid(v) \/ LongInt(v) >= 2 ^ (bits + MAN_LEN) THEN most
      ELSE IntegerOf(v, most)

ToUInt8(v) == ToUnsigned(v, BITS8)
ToUInt16(v) == ToUnsigned(v, BITS16)
ToUInt32(v) == ToUnsigned(v, BITS32)

-----------------------------------------------------------------------------
(* Numbers of the same sign are compared as their bits are.                 *)
Above(v, w) ==
  ExpField(v) > ExpField(w) \/ (ExpField(v) = ExpField(w) /\ Man(v) > Man(w))

(* Mutant of Greater: zeros of different signs differ.                      *)
GreaterWithZeros(v, w) ==
  \/ Sign(v) = 0 /\ Sign(w) = 1
  \/ Sign(v) = 0 /\ Sign(w) = 0 /\ Above(v, w)
  \/ Sign(v) = 1 /\ Sign(w) = 1 /\ Above(w, v)

Greater(v, w) ==
  \/ Sign(v) = 0 /\ Sign(w) = 1 /\ ~(IsZero(v) /\ IsZero(w))
  \/ Sign(v) = 0 /\ Sign(w) = 0 /\ Above(v, w)
  \/ Sign(v) = 1 /\ Sign(w) = 1 /\ Above(w, v)

Equal(v, w) == v = w \/ (IsZero(v) /\ IsZero(w))
Less(v, w) == ~(Greater(v, w) \/ Equal(v, w))

-----------------------------------------------------------------------------
NoSource == [type |-> "none"]

(* What a number is converted from.  Without Overlooked, not what the code  *)
(* overlooks.                                                               *)
Sources ==
  LET of(type, values) == [type : {type}, x : values]
      minInt(bits) == -(2 ^ (bits - 1))
      without(what, S) == IF what \in Overlooked THEN {} ELSE S
      large == {i \in 0 .. 2 ^ BITS16 - 1 : WideInt(i).e = FP16_MAX_EXP}
  IN  UNION {
        of("float", Floats), of("double", Doubles),
        of("int8", (minInt(BITS8) .. -minInt(BITS8) - 1) \ without("minInt8", {minInt(BITS8)})),
        of("uint8", 0 .. 2 ^ BITS8 - 1),
        of("int16", minInt(BITS16) .. -minInt(BITS16) - 1),
        of("uint16", (0 .. 2 ^ BITS16 - 1) \ without("largeUint16", large)),
        of("int32", {i \in Ints32 : i < -minInt(BITS32)} \ without("minInt32", {minInt(BITS32)})),
        of("uint32", {i \in Ints32 : i >= 0}) }

(* Fp16T::operator= of each type.                                           *)
Converted(src) ==
  CASE src.type = "float"  -> {FromFloat(src.x)}
    [] src.type = "double" -> {FromDouble(src.x)}
    [] src.type = "int8"   -> {FromInt8(src.x)}
    [] src.type = "uint8"  -> {FromUInt8(src.x)}
    [] src.type = "int16"  -> {FromInt16(src.x)}
    [] src.type = "uint16" -> {FromUInt16(src.x)}
    [] src.type = "int32"  -> FromInt32(src.x)
    [] src.type = "uint32" -> {FromUInt32(src.x)}

Init == val = 0 /\ from = NoSource

(* A new number, from a value of another type or from bits.                 *)
Convert(src) ==
  /\ val = 0 /\ from = NoSource
  /\ val' \in Converted(src) /\ from' = src

FromBits(bits) ==
  /\ val = 0 /\ from = NoSource
  /\ val' = bits /\ UNCHANGED from

(* A copy of the number just converted.                                     *)
Copy ==
  /\ from # NoSource
  /\ from' = NoSource /\ UNCHANGED val

(* operator+= and the other three.                                          *)
Compute(v) ==
  /\ from = NoSource
  /\ val' \in {Fp16Add(val, v), Fp16Sub(val, v), Fp16Mul(val, v), Fp16Div(val, v)}
  /\ UNCHANGED from

Next ==
  \/ \E src \in Sources : Convert(src)
  \/ \E v \in UINT16 : FromBits(v) \/ Compute(v)
  \/ Copy

Spec == Init /\ [][Next]_vars

-----------------------------------------------------------------------------
(* What a number says, in units of the least denormal number.               *)
Units(v) == Signed(v, Man(v) * 2 ^ (Exp(v) - 1))

(* r is the number nearest to num / den units, and the even one of two; of  *)
(* what is too large, the largest.                                          *)
IsNearest(r, num, den) ==
  LET abs == r % FP16_SIGN_MASK
      off(v) == Magnitude(Units(v) * den - Magnitude(num))
      beats(v) == off(abs) < off(v) \/ (off(abs) = off(v) /\ abs % 2 = 0)
  IN  /\ ~IsInvalid(r)
      /\ abs < Largest(0) => beats(abs + 1)
      /\ abs > 0 => beats(abs - 1)
      /\ num # 0 => Sign(r) = SignOf(num)

(* num * 2 ^ x, as a numerator and a denominator.                           *)
IsNearestPower(r, num, x) == IsNearest(r, num * 2 ^ Max({0, x}), 2 ^ Max({0, -x}))
UnitExp == FP16_EXP_BIAS + MAN_LEN - 1

(***************************************************************************)
(* Sums, differences, products and quotients of any two numbers are the    *)
(* nearest there are: no bit that is shifted out is lost, no rounding      *)
(* happens twice with effect, and denormal numbers and overflow fit in.    *)
(* What is too large, a quotient by zero included, is the largest number,  *)
(* as in the code; its comment on that quotient, "result is inf", says     *)
(* otherwise.                                                              *)
(***************************************************************************)
ArithmeticNearest ==
  from = NoSource =>
  \A v \in {w \in UINT16 : ~IsInvalid(w) /\ ~IsInvalid(val)} :
    LET num == IF Sign(val) = Sign(v) THEN Man(val) ELSE -Man(val)
    IN
    /\ IsNearest(Fp16Add(val, v), Units(val) + Units(v), 1)
    /\ IsNearest(Fp16Sub(val, v), Units(val) - Units(v), 1)
    /\ IsNearestPower(Fp16Mul(val, v), num * Man(v), Exp(val) + Exp(v) - 2 - UnitExp)
    /\ LET x == Exp(val) - Exp(v) + UnitExp
       IN IF IsZero(v) THEN Fp16Div(val, v) = Largest(Xor(Sign(val), Sign(v)))
          ELSE IsNearest(Fp16Div(val, v), num * 2 ^ Max({0, x}), Man(v) * 2 ^ Max({0, -x}))

(***************************************************************************)
(* Comparisons say what the numbers' values do; zeros of both signs are    *)
(* equal, and between two numbers exactly one of >, == and < holds.        *)
(***************************************************************************)
OrderedByValue ==
  from = NoSource =>
  \A v \in {w \in UINT16 : ~IsInvalid(w) /\ ~IsInvalid(val)} :
    /\ Greater(val, v) <=> Units(val) > Units(v)
    /\ Equal(val, v) <=> Units(val) = Units(v)
    /\ Less(val, v) <=> Units(val) < Units(v)

(***************************************************************************)
(* A number converted from a float, a double or an integer is the nearest; *)
(* the largest, if that is too large, as in the code.  Its comments on     *)
(* floats and doubles, "converts to signed inf/NaN", say otherwise.        *)
(***************************************************************************)
ConvertedIsNearest ==
  LET floating(manLen) ==
        IF from.x.exp <= ZeroExp THEN IsZero(val)
        ELSE IsNearestPower(val, (IF from.x.sign = 1 THEN -1 ELSE 1) * (2 ^ manLen + from.x.man),
                            from.x.exp - manLen + UnitExp)
  IN  CASE from.type = "none"   -> TRUE
        [] from.type = "float"  -> floating(FP32_MAN_LEN)
        [] from.type = "double" -> floating(FP64_MAN_LEN)
        [] OTHER -> IsNearestPower(val, from.x, UnitExp)

(***************************************************************************)
(* Converted to an integer, a number is rounded to the nearest, even, and  *)
(* kept within the type; to a float or a double and back, it is the same.  *)
(***************************************************************************)
ConvertsToNearest ==
  ~IsInvalid(val) =>
    LET clipped(low, high) ==
          Min({high, Max({low, Signed(val, Rounded(Magnitude(Units(val)), UnitExp))})})
    IN
    /\ ToInt8(val) = clipped(-(2 ^ (BITS8 - 1)), 2 ^ (BITS8 - 1) - 1)
    /\ ToInt16(val) = clipped(-(2 ^ (BITS16 - 1)), 2 ^ (BITS16 - 1) - 1)
    /\ ToInt32(val) = clipped(-(2 ^ (BITS32 - 1)), 2 ^ (BITS32 - 1) - 1)
    /\ ToUInt8(val) = clipped(0, 2 ^ BITS8 - 1)
    /\ ToUInt16(val) = clipped(0, 2 ^ BITS16 - 1)
    /\ ToUInt32(val) = clipped(0, 2 ^ BITS32 - 1)
    /\ FromFloat(ToFloat(val)) = val /\ FromDouble(ToDouble(val)) = val
=============================================================================
