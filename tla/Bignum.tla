------------------------------- MODULE Bignum -------------------------------
(***************************************************************************)
(* Wide integers and their text: the limb arithmetic of bignum_string.h    *)
(* and the conversions of class Bignum.  An integer is a little-endian     *)
(* sequence of limbs in two's complement.  A text is a sequence of         *)
(* characters: the digits are the numbers below Radix, and Minus, Dot and  *)
(* Other stand for '-', '.' and any other character.                       *)
(*                                                                         *)
(* The code works with limbs of 32 bits, four of them for 128 bits, with   *)
(* Radix 10, and takes 9 digits at a time, as 10^9 is the largest power of *)
(* ten below 2^32.                                                         *)
(***************************************************************************)
EXTENDS Integers, Sequences, SequencesExt

CONSTANTS LimbBits,   \* 32
          Limbs,      \* 4
          Radix,      \* 10
          ChunkLen,   \* 9
          StrLen      \* limb_arr_str_len: 41 characters, the final NUL included

ASSUME BignumAssumption ==
    /\ {LimbBits, Limbs, Radix, ChunkLen, StrLen} \subseteq Nat \ {0}
    /\ Radix > 1
    /\ Radix ^ ChunkLen < 2 ^ LimbBits /\ Radix ^ (ChunkLen + 1) >= 2 ^ LimbBits

Minus == Radix
Dot == Radix + 1
Other == Radix + 2
Digits == 0 .. Radix - 1

Limb == 2 ^ LimbBits
MaxPow10 == Radix ^ ChunkLen
LimbArrs == [1 .. Limbs -> 0 .. Limb - 1]
Zero == [i \in 1 .. Limbs |-> 0]

TopBit(limbs) == limbs[Limbs] >= Limb \div 2

-----------------------------------------------------------------------------
limb_arr_is_zero(limbs) == \A i \in 1 .. Limbs : limbs[i] = 0

\* Inverts and adds one; a limb that came out smaller than the carry wrapped.
limb_arr_negate(limbs) ==
    LET carry[i \in 0 .. Limbs] ==
            IF i = 0 THEN 1
            ELSE IF (Limb - 1 - limbs[i] + carry[i - 1]) % Limb < carry[i - 1] THEN 1 ELSE 0
    IN  [i \in 1 .. Limbs |-> (Limb - 1 - limbs[i] + carry[i - 1]) % Limb]

limb_arr_divmod(limbs, divisor) ==
    LET remainder[i \in 1 .. Limbs + 1] ==
            IF i > Limbs THEN 0 ELSE (remainder[i + 1] * Limb + limbs[i]) % divisor
    IN  [limbs |-> [i \in 1 .. Limbs |-> (remainder[i + 1] * Limb + limbs[i]) \div divisor],
         remainder |-> remainder[1]]

limb_arr_muladd(limbs, mul, add) ==
    LET carry[i \in 0 .. Limbs] ==
            IF i = 0 THEN add ELSE (limbs[i] * mul + carry[i - 1]) \div Limb
    IN  [limbs |-> [i \in 1 .. Limbs |-> (limbs[i] * mul + carry[i - 1]) % Limb],
         carry |-> carry[Limbs]]

\* Mutant: the lower limbs are not looked at.
SignedMinByTop(limbs) == limbs[Limbs] = Limb \div 2

limb_arr_is_signed_min(limbs) ==
    /\ limbs[Limbs] = Limb \div 2
    /\ \A i \in 1 .. Limbs - 1 : limbs[i] = 0

-----------------------------------------------------------------------------
\* The value of a run of at most ChunkLen digits.
Chunk(digits) == FoldLeft(LAMBDA acc, d : acc * Radix + d, 0, digits)

Failed(status) == [status |-> status, limbs |-> Zero]

\* The limbs after the short leading chunk and n full ones.  Once the top limb
\* carried, the loop is left.
Absorbed(digits, n) ==
    LET first == Len(digits) % ChunkLen
        after[m \in 0 .. n] ==
            LET end == first + m * ChunkLen
                old == IF m = 0 THEN [limbs |-> Zero, carry |-> 0] ELSE after[m - 1]
                len == IF m = 0 THEN first ELSE ChunkLen
            IN  IF old.carry # 0 THEN old
                ELSE limb_arr_muladd(old.limbs, Radix ^ len,
                                     Chunk(SubSeq(digits, end - len + 1, end)))
    IN  after[n]

\* str_to_limb_arr
str_to_limb_arr(str, signed) ==
    LET negative == signed /\ str # <<>> /\ str[1] = Minus
        digits == IF negative THEN Tail(str) ELSE str
        sum == Absorbed(digits, Len(digits) \div ChunkLen)
        limbs == sum.limbs
    IN  IF digits = <<>> \/ (\E i \in DOMAIN digits : digits[i] \notin Digits)
        THEN Failed("BAD_STRING")
        ELSE IF \/ sum.carry # 0
                \/ signed /\ ~negative /\ TopBit(limbs)
                \/ negative /\ TopBit(limbs) /\ ~limb_arr_is_signed_min(limbs)
        THEN Failed("TOO_LARGE")
        ELSE [status |-> "OK", limbs |-> IF negative THEN limb_arr_negate(limbs) ELSE limbs]

-----------------------------------------------------------------------------
RECURSIVE ShortDigits(_), limb_arr_digits(_)

\* The digits of the chunk that is written last: none for zero.
ShortDigits(chunk) ==
    IF chunk = 0 THEN <<>> ELSE Append(ShortDigits(chunk \div Radix), chunk % Radix)

\* The digits of every other chunk, leading zeros included.
FullDigits(chunk) ==
    [i \in 1 .. ChunkLen |-> (chunk \div Radix ^ (ChunkLen - i)) % Radix]

\* The loop of limb_arr_to_str, which writes from the end of the buffer.
limb_arr_digits(limbs) ==
    LET step == limb_arr_divmod(limbs, MaxPow10)
    IN  IF limb_arr_is_zero(step.limbs) THEN ShortDigits(step.remainder)
        ELSE limb_arr_digits(step.limbs) \o FullDigits(step.remainder)

limb_arr_to_str(limbs, signed) ==
    IF limb_arr_is_zero(limbs) THEN <<0>>
    ELSE IF signed /\ TopBit(limbs) THEN <<Minus>> \o limb_arr_digits(limb_arr_negate(limbs))
    ELSE limb_arr_digits(limbs)

-----------------------------------------------------------------------------
(* The reference: what limbs and texts stand for. *)

Unsigned(limbs) == FoldRight(LAMBDA l, acc : acc * Limb + l, limbs, 0)

\* The same bits as a signed number of the given number of limbs.
SignedOf(n, count) == IF n >= Limb ^ count \div 2 THEN n - Limb ^ count ELSE n

ValueOf(limbs, signed) ==
    IF signed THEN SignedOf(Unsigned(limbs), Limbs) ELSE Unsigned(limbs)

InRange(n, signed) ==
    IF signed THEN n \in -(Limb ^ Limbs \div 2) .. Limb ^ Limbs \div 2 - 1
    ELSE n \in 0 .. Limb ^ Limbs - 1

IsNumeral(str) == str # <<>> /\ \A i \in DOMAIN str : str[i] \in Digits

Natural(str) == FoldLeft(LAMBDA acc, d : acc * Radix + d, 0, str)

IsNegative(str) == str # <<>> /\ str[1] = Minus
Unsign(str) == IF IsNegative(str) THEN Tail(str) ELSE str
NumberOf(str) == IF IsNegative(str) THEN -Natural(Tail(str)) ELSE Natural(str)

\* The one way to write a number: no leading zeros, no "-0".
IsCanonical(str) ==
    /\ IsNumeral(Unsign(str))
    /\ Len(Unsign(str)) > 1 => Unsign(str)[1] # 0
    /\ IsNegative(str) => Unsign(str) # <<0>>
=============================================================================
