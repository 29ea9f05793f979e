--------------------------- MODULE DecimalColumn ----------------------------
(***************************************************************************)
(* ColumnDecimal, and the conversions of Bignum it rests on.  A program    *)
(* turns texts into wide integers and back, makes Decimal(precision,       *)
(* scale) columns, appends texts, integers and other columns to them,      *)
(* slices, swaps, clears, saves and loads them.  A column keeps scaled     *)
(* integers in a ColumnInt32, a ColumnInt64 or a ColumnInt128.             *)
(*                                                                         *)
(* text and wide are emptied by the call that uses them, and a text is     *)
(* used before the columns are worked on.  The conversions share no state  *)
(* with the columns and are explored before the first column is made.      *)
(***************************************************************************)
EXTENDS Bignum

CONSTANTS Cols,              \* the columns of the program
          DecimalTypes,      \* the types it makes columns of
          Int32Precision,    \* 9: the digits an Int32 holds
          Int64Precision,    \* 18: and an Int64
          Texts,             \* the texts it begins with,
          Inputs,            \* the ones it goes on with,
          Numbers,           \* and the integers it appends
          MaxText,           \* bound on the text held when a column is made
          MaxRows            \* bound on the rows of a column, and on those of all
                             \* columns when a text or a number is appended

\* Every number of so many digits fits the columns that are chosen for it.
ASSUME DecimalAssumption ==
    /\ Limbs > 2
    /\ Radix ^ Int32Precision <= Limb \div 2
    /\ Radix ^ Int64Precision <= Limb ^ 2 \div 2
    /\ \A t \in DecimalTypes : t.scale <= t.precision /\ Radix ^ t.precision <= Limb ^ Limbs \div 2
    /\ \A n \in Numbers : InRange(n, TRUE)
    /\ Inputs \subseteq Texts

VARIABLES text,    \* <<>>, or <<s>> for the text s the program holds
          wide,    \* what str_to_limb_arr left: a status, the sign mode and limbs
          type,    \* per column: its DecimalType, or NoType before it is made
          data,    \* per column: the integers of data_
          meant    \* per column and row: the number the program appended, as an
                   \* integer and its scale, and whether it came from a column
                   \* of another scale

vars == <<text, wide, type, data, meant>>

NoType == [precision |-> 0, scale |-> 0]
NoNumber == [status |-> "NONE", signed |-> FALSE, limbs |-> Zero]
Statuses == {"NONE", "OK", "TOO_LARGE", "BAD_STRING"}

Made(c) == type[c] # NoType

RowsLeft == SumFunction([c \in Cols |-> Len(data[c])]) < MaxRows

-----------------------------------------------------------------------------
\* The constructor: how many limbs an item of data_ has.
DataLimbs(t) ==
    CASE t.precision <= Int32Precision -> 1
      [] t.precision > Int32Precision /\ t.precision <= Int64Precision -> 2
      [] OTHER -> Limbs

\* An Int128 cut down to the width of data_.
Narrow(t, limbs) == SignedOf(Unsigned(limbs) % Limb ^ DataLimbs(t), DataLimbs(t))

\* The Int128 with value n.
MakeInt128(n) == [i \in 1 .. Limbs |-> ((n % Limb ^ Limbs) \div Limb ^ (i - 1)) % Limb]

\* ColumnDecimal::At
At(c, n) == MakeInt128(data[c][n])

\* Where the first dot is, or 0.
DotAt(str) == SelectInSeq(str, LAMBDA ch : ch = Dot)
HasDot(str) == DotAt(str) # 0
IntegerPart(str) == IF HasDot(str) THEN SubSeq(str, 1, DotAt(str) - 1) ELSE str
Fraction(str) == IF HasDot(str) THEN SubSeq(str, DotAt(str) + 1, Len(str)) ELSE <<>>

\* The digits before the dot from the first that is not 0.
CountedDigits(digits) ==
    LET first == SelectInSeq(digits, LAMBDA ch : ch # 0)
    IN  IF first = 0 THEN 0 ELSE Len(digits) - first + 1

\* Mutant: the digits after the dot are not counted.
ValidatesInteger(str, t) ==
    LET digits == Unsign(str)
    IN  /\ digits \notin {<<>>, <<Dot>>}
        /\ \A i \in DOMAIN digits : digits[i] \in Digits \/ i = DotAt(digits)
        /\ CountedDigits(IntegerPart(digits)) <= t.precision

\* ValidateDecimalString does not throw.
ValidateDecimalString(str, t) ==
    LET digits == Unsign(str)
    IN  /\ digits \notin {<<>>, <<Dot>>}
        /\ \A i \in DOMAIN digits : digits[i] \in Digits \/ i = DotAt(digits)
        /\ CountedDigits(IntegerPart(digits)) + (IF HasDot(digits) THEN t.scale ELSE 0)
             <= t.precision

Zeros(n) == [i \in 1 .. n |-> 0]

\* The text without its dot and with scale digits after where it was; a text
\* without a dot is taken as it is.
Cleaned(str, t) ==
    IF ~HasDot(str) THEN str
    ELSE IntegerPart(str) \o
           (IF Len(Fraction(str)) >= t.scale THEN SubSeq(Fraction(str), 1, t.scale)
            ELSE Fraction(str) \o Zeros(t.scale - Len(Fraction(str))))

\* ColumnDecimal::StringAt
StringAt(c, n) ==
    LET raw == limb_arr_to_str(At(c, n), TRUE)
        scale == type[c].scale
        digits == Unsign(raw)
        integral == Len(digits) - scale
        sign == IF IsNegative(raw) THEN <<Minus>> ELSE <<>>
    IN  IF scale = 0 THEN raw
        ELSE IF integral > 0
             THEN sign \o SubSeq(digits, 1, integral) \o <<Dot>>
                    \o SubSeq(digits, integral + 1, Len(digits))
        ELSE sign \o <<0, Dot>> \o Zeros(-integral) \o digits

-----------------------------------------------------------------------------
\* The number a text stands for in a column of type t, from its integer part
\* and its fraction, digits beyond the scale cut off.
ScaledNumber(str, t) ==
    LET whole == Natural(IntegerPart(Unsign(str)))
        rest == Fraction(str)
        scaled == whole * Radix ^ t.scale
                    + (Natural(rest) * Radix ^ t.scale) \div Radix ^ Len(rest)
        n == IF HasDot(str) THEN scaled ELSE whole
    IN  IF IsNegative(str) THEN -n ELSE n

Init ==
    /\ text \in {<<s>> : s \in Texts}
    /\ wide = NoNumber
    /\ type = [c \in Cols |-> NoType]
    /\ data = [c \in Cols |-> <<>>]
    /\ meant = [c \in Cols |-> <<>>]

\* Bignum::StringToInt128, and StringToUInt128 if not signed.  It throws
\* unless the status is OK.
StringToInt128(signed) ==
    /\ text # <<>> /\ wide = NoNumber /\ \A c \in Cols : ~Made(c)
    /\ LET parsed == str_to_limb_arr(text[1], signed)
       IN  wide' = [status |-> parsed.status, signed |-> signed, limbs |-> parsed.limbs]
    /\ text' = <<>>
    /\ UNCHANGED <<type, data, meant>>

\* Bignum::Int128ToString, UInt128ToString
Int128ToString ==
    /\ wide.status = "OK"
    /\ text' = <<limb_arr_to_str(wide.limbs, wide.signed)>>
    /\ wide' = NoNumber
    /\ UNCHANGED <<type, data, meant>>

\* The program goes on with another text, if it has room for it.
TakeText ==
    /\ text = <<>> /\ wide.status # "OK" /\ RowsLeft
    /\ \E s \in Inputs : text' = <<s>>
    /\ wide' = NoNumber
    /\ UNCHANGED <<type, data, meant>>

\* ColumnDecimal(precision, scale).  Bounded: one column without rows at a time.
New(c) ==
    /\ ~Made(c) /\ wide = NoNumber /\ \A i \in DOMAIN text : Len(text[i]) <= MaxText
    /\ \A d \in Cols : Made(d) => data[d] # <<>>
    /\ \E t \in DecimalTypes : type' = [type EXCEPT ![c] = t]
    /\ UNCHANGED <<text, wide, data, meant>>

\* ColumnDecimal::Append(const Int128&) of a number that stands for number.
AppendInt128(c, limbs, number) ==
    /\ data' = [data EXCEPT ![c] = Append(@, Narrow(type[c], limbs))]
    /\ meant' = [meant EXCEPT ![c] = Append(@,
                   [num |-> number, scale |-> type[c].scale, foreign |-> FALSE])]

AppendNumber(c) ==
    /\ Made(c) /\ text = <<>> /\ RowsLeft
    /\ \E n \in Numbers : AppendInt128(c, MakeInt128(n), n)
    /\ UNCHANGED <<text, wide, type>>

\* ColumnDecimal::Append(const std::string&): it throws if the text is not valid,
\* and if StringToInt128 does.
AppendText(c) ==
    /\ Made(c) /\ text # <<>> /\ RowsLeft
    /\ LET parsed == str_to_limb_arr(Cleaned(text[1], type[c]), TRUE)
       IN  IF ValidateDecimalString(text[1], type[c]) /\ parsed.status = "OK"
           THEN AppendInt128(c, parsed.limbs, ScaledNumber(text[1], type[c]))
           ELSE UNCHANGED <<data, meant>>
    /\ text' = <<>>
    /\ UNCHANGED <<wide, type>>

\* The program reads a row and keeps its text.
ReadText(c) ==
    /\ text = <<>> /\ RowsLeft
    /\ \E n \in DOMAIN data[c] : text' = <<StringAt(c, n)>>
    /\ UNCHANGED <<wide, type, data, meant>>

\* ColumnDecimal::Append(ColumnRef) does nothing if data_ is of another type, and
\* takes the integers as they are, whatever their scale.
AppendColumn(c, d) ==
    /\ Made(c) /\ Made(d) /\ c # d /\ text = <<>>
    /\ Len(data[c]) + Len(data[d]) <= MaxRows
    /\ IF DataLimbs(type[c]) = DataLimbs(type[d])
       THEN /\ data' = [data EXCEPT ![c] = @ \o data[d]]
            /\ meant' = [meant EXCEPT ![c] = @ \o [n \in DOMAIN meant[d] |->
                   [meant[d][n] EXCEPT !.foreign = @ \/ type[c].scale # type[d].scale]]]
       ELSE UNCHANGED <<data, meant>>
    /\ UNCHANGED <<text, wide, type>>

\* SliceVector
SliceVector(seq, begin, len) ==
    IF begin >= Len(seq) THEN <<>>
    ELSE SubSeq(seq, begin + 1, begin + Min({len, Len(seq) - begin}))

\* ColumnDecimal::Slice, and CloneEmpty for a slice of no rows: d is the new column.
Slice(c, d) ==
    /\ Made(c) /\ c # d /\ text = <<>>
    /\ \E begin \in 0 .. MaxRows, len \in 0 .. MaxRows :
           /\ data' = [data EXCEPT ![d] = SliceVector(data[c], begin, len)]
           /\ meant' = [meant EXCEPT ![d] =
                            SubSeq(meant[c], begin + 1, Min({begin + len, Len(meant[c])}))]
    /\ type' = [type EXCEPT ![d] = type[c]]
    /\ UNCHANGED <<text, wide>>

\* Mutant: columns of one precision are swapped whatever their scale.
SwapsPrecision(c, d) == type[c].precision = type[d].precision

\* ColumnDecimal::Swap does not throw.
Swaps(c, d) == type[c].precision = type[d].precision /\ type[c].scale = type[d].scale

\* ColumnDecimal::Swap
Swap(c, d) ==
    /\ Made(c) /\ Made(d) /\ c # d /\ text = <<>> /\ Swaps(c, d)
    /\ data' = [data EXCEPT ![c] = data[d], ![d] = data[c]]
    /\ meant' = [meant EXCEPT ![c] = meant[d], ![d] = meant[c]]
    /\ UNCHANGED <<text, wide, type>>

\* ColumnDecimal::SaveBody, and LoadBody of a column of the same type.
SaveAndLoad(c, d) ==
    /\ Made(c) /\ c # d /\ text = <<>> /\ type[d] = type[c]
    /\ data' = [data EXCEPT ![d] = data[c]]
    /\ meant' = [meant EXCEPT ![d] = meant[c]]
    /\ UNCHANGED <<text, wide, type>>

\* ColumnDecimal::Clear
Clear(c) ==
    /\ Made(c) /\ text = <<>>
    /\ data' = [data EXCEPT ![c] = <<>>]
    /\ meant' = [meant EXCEPT ![c] = <<>>]
    /\ UNCHANGED <<text, wide, type>>

Next ==
    \/ \E signed \in BOOLEAN : StringToInt128(signed)
    \/ Int128ToString
    \/ TakeText
    \/ \E c \in Cols : New(c) \/ AppendNumber(c) \/ AppendText(c) \/ ReadText(c) \/ Clear(c)
    \/ \E c, d \in Cols : AppendColumn(c, d) \/ Slice(c, d) \/ Swap(c, d) \/ SaveAndLoad(c, d)

Spec == Init /\ [][Next]_vars
-----------------------------------------------------------------------------
\* The numbers an item of data_ can be.
DataRange(t) ==
    -(Limb ^ DataLimbs(t) \div 2) .. Limb ^ DataLimbs(t) \div 2 - 1

\* Every item has the width ColumnDecimal::ColumnDecimal chose for the
\* precision, also after a Slice, a Swap or an Append of another column.
TypeOK ==
    /\ text = <<>> \/ text[1] \in Seq(0 .. Other)
    /\ wide.status \in Statuses /\ wide.limbs \in LimbArrs
    /\ \A c \in Cols :
           /\ type[c] \in DecimalTypes \cup {NoType}
           /\ Len(data[c]) = Len(meant[c]) /\ Len(data[c]) <= MaxRows
           /\ \A n \in DOMAIN data[c] : data[c][n] \in DataRange(type[c])

\* StringToInt128 and StringToUInt128 give the number the text stands for, and
\* throw exactly if it is no numeral or the number has no place in the limbs:
\* also at the smallest negative number, and whichever chunk overflows.
\* Int128ToString and UInt128ToString write every number in the one canonical
\* way, and within the buffer limb_arr_str_len gives them.
ConversionsExact ==
    [][/\ \A signed \in BOOLEAN : StringToInt128(signed) =>
              LET str == text[1]
                  numeral == IsNumeral(IF signed THEN Unsign(str) ELSE str)
              IN  /\ (wide'.status = "BAD_STRING") <=> ~numeral
                  /\ (wide'.status = "OK") <=> numeral /\ InRange(NumberOf(str), signed)
                  /\ wide'.status = "OK" => ValueOf(wide'.limbs, signed) = NumberOf(str)
       /\ Int128ToString =>
              LET str == text'[1]
              IN  /\ IsCanonical(str) /\ Len(str) + 1 <= StrLen
                  /\ NumberOf(str) = ValueOf(wide.limbs, wide.signed)]_vars

\* A text is a number of type t: an optional sign, digits, at most one dot, and
\* no more digits than the type has room for.  One exception: without a digit
\* before the dot nothing is left of a text if the scale is 0.
Acceptable(str, t) ==
    LET digits == Unsign(str)
        whole == IntegerPart(digits)
    IN  /\ IsNumeral(whole \o Fraction(digits))
        /\ Natural(whole) * (IF HasDot(str) THEN Radix ^ t.scale ELSE 1) < Radix ^ t.precision
        /\ t.scale = 0 => whole # <<>>

\* ColumnDecimal::Append(const std::string&) appends a row exactly if the text
\* is a number that the type has room for, whatever checks ValidateDecimalString
\* and StringToInt128 share out between them; otherwise it throws and leaves
\* the column alone.
AcceptsExactly ==
    [][\A c \in Cols : AppendText(c) =>
           Len(data'[c]) = Len(data[c]) + (IF Acceptable(text[1], type[c]) THEN 1 ELSE 0)]_vars

\* A row that data_ can hold and that no Append(ColumnRef) took from a column
\* of another scale.
Kept(c, n) == ~meant[c][n].foreign /\ meant[c][n].num \in DataRange(type[c])

\* StringAt writes the number that was appended, canonically and with scale
\* digits after the dot, after any appends, slices, swaps and loads.
\* The state keeps its types.
ReadsBack ==
    TypeOK /\ \A c \in Cols : \A n \in DOMAIN data[c] : Kept(c, n) =>
        LET str == StringAt(c, n)
        IN  /\ meant[c][n].scale = type[c].scale
            /\ IsCanonical(IntegerPart(Unsign(str)))
            /\ Len(Fraction(str)) = type[c].scale /\ HasDot(str) = (type[c].scale > 0)
            /\ ScaledNumber(str, type[c]) = meant[c][n].num
            /\ IsNegative(str) <=> meant[c][n].num < 0
=============================================================================
