--------------------------- MODULE MCDecimalColumn --------------------------
(* DecimalColumn in base 3, with limbs of 4 bits that take two digits at a  *)
(* time, and three limbs for the widest integer: 4096 numbers.              *)
EXTENDS DecimalColumn

CONSTANTS one, two, NumeralLen, TextLen

MCCols == {one, two}
Symmetry == Permutations(MCCols)

MCDecimalTypes ==
    {[precision |-> p[1], scale |-> p[2]] :
        p \in {<<1, 0>>, <<1, 1>>, <<3, 1>>, <<4, 0>>, <<5, 2>>}}

\* Every numeral of up to NumeralLen digits with and without a sign, a few longer
\* ones that overflow in an early chunk, and every text of up to TextLen characters.
Numerals == BoundedSeq(Digits, NumeralLen)
LongNumerals == {<<1>> \o Zeros(n) : n \in NumeralLen .. 2 * NumeralLen}

MCTexts ==
    LET unsigned == Numerals \cup LongNumerals
    IN  unsigned \cup {<<Minus>> \o s : s \in unsigned} \cup BoundedSeq(0 .. Other, TextLen)

MCInputs == {<<2>>, <<Minus, 1, Dot, 2>>}

\* Just beyond the narrow widths, and the least of the widest.
MCNumbers == {8, 128, -2048}
=============================================================================
