----------------------------- MODULE WireFormat ------------------------------
(***************************************************************************)
(* WireFormat (base/wire_format.h, .cpp): varints, strings and quoted      *)
(* strings as sequences of bytes, and reading them back at a position.     *)
(*                                                                         *)
(* The sizes are scaled down together.  A byte holds Group bits and one    *)
(* that says another byte follows; MaxBytes bytes hold a word, of which    *)
(* the last byte has a single bit left, as 64 = 9 * 7 + 1.                 *)
(***************************************************************************)
EXTENDS Integers, Sequences, FiniteSets, SequencesExt, FiniteSetsExt

CONSTANTS Group,       \* 7 in the code
          MaxBytes,    \* MAX_VARINT_BYTES, 10 in the code
          MaxString    \* 0x00FFFFFF in the code

ASSUME WireAssumption == Group \in Nat \ {0} /\ MaxBytes \in Nat \ {0}
                         /\ MaxString \in Nat

Base == 2 ^ Group
Word == 2 ^ (Group * (MaxBytes - 1) + 1)
Byte == 0 .. 2 * Base - 1

\* Another byte follows the one with the low bits of v.
More(v) == v > Base - 1

WriteVarint64(v) ==
    LET rest(i) == v \div Base ^ (i - 1)
        size    == Min({MaxBytes} \cup {i \in 1 .. MaxBytes :
                                            rest(i) \div Base = 0})
    IN  [i \in 1 .. size |-> (rest(i) % Base)
                             + (IF More(rest(i)) THEN Base ELSE 0)]

(* What a read returns: the value and the position after it, or a failure, *)
(* after which no read succeeds.                                           *)
Got(value, pos) == [ok |-> TRUE, value |-> value, pos |-> pos]
Failed == [ok |-> FALSE, value |-> <<>>, pos |-> 1000000]

ReadVarint64(s, pos) ==
    LET ends == {n \in 1 .. MaxBytes : /\ pos + n - 1 <= Len(s)
                                       /\ s[pos + n - 1] < Base}
        n    == Min(ends)
        Bits(i) == (s[pos + i - 1] % Base) * Base ^ (i - 1)
    IN  IF ends = {} THEN Failed
        ELSE Got(MapThenSumSet(Bits, 1 .. n) % Word, pos + n)

WriteString(s) == WriteVarint64(Len(s)) \o s

StringAfter(len, s) ==
    LET end == len.pos + len.value
    IN  IF ~len.ok \/ len.value > MaxString \/ end > Len(s) + 1 THEN Failed
        ELSE Got(SubSeq(s, len.pos, end - 1), end)

ReadString(s, pos) == StringAfter(ReadVarint64(s, pos), s)

ReadFixed(s, pos) == IF pos > Len(s) THEN Failed ELSE Got(s[pos], pos + 1)

(* One read after another, each of which must succeed.                     *)
Both(acc, next) ==
    IF acc.ok /\ next.ok THEN Got(Append(acc.value, next.value), next.pos)
    ELSE Failed

ReadField(field, s, pos) ==
    CASE field = "varint" -> ReadVarint64(s, pos)
      [] field = "fixed"  -> ReadFixed(s, pos)
      [] field = "string" -> ReadString(s, pos)

ReadFields(fields, s, pos) ==
    LET Step(acc, field) == Both(acc, ReadField(field, s, acc.pos))
    IN  FoldLeft(Step, Got(<<>>, pos), fields)

-----------------------------------------------------------------------------
(* WriteQuotedString.  The bytes that have a meaning here:                 *)

QUOTE == 1
BACKSLASH == 2
NEWLINE == 3
Special == {QUOTE, BACKSLASH, NEWLINE}

\* A quoted character is a backslash and three more bytes: x27, \\\ or \\n.
Escape(c) ==
    CASE c = QUOTE     -> <<BACKSLASH, 5, 6, 7>>
      [] c = BACKSLASH -> <<BACKSLASH, BACKSLASH, BACKSLASH, BACKSLASH>>
      [] c = NEWLINE   -> <<BACKSLASH, BACKSLASH, BACKSLASH, 4>>
      [] OTHER         -> <<c>>

\* Mutant: a quoted character is counted as four bytes more, not three.
QuotedLengthFour(v) ==
    Len(v) + 2 + 4 * Quantify(DOMAIN v, LAMBDA i : v[i] \in Special)

\* The length is computed in a loop of its own, before the characters.
QuotedLength(v) ==
    Len(v) + 2 + 3 * Quantify(DOMAIN v, LAMBDA i : v[i] \in Special)

WriteQuotedString(v) ==
    WriteVarint64(QuotedLength(v))
        \o <<QUOTE>> \o FlattenSeq([i \in DOMAIN v |-> Escape(v[i])])
        \o <<QUOTE>>

\* Two backslashes and an N.
WriteParamNullRepresentation ==
    WriteString(<<QUOTE, BACKSLASH, BACKSLASH, 0, QUOTE>>)

=============================================================================
