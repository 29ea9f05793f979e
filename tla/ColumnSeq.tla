----------------------------- MODULE ColumnSeq ------------------------------
(***************************************************************************)
(* What clickhouse/columns/column.h promises of every column, whatever its *)
(* storage: a column is a sequence of rows.  wire is the last column body  *)
(* that was written, as its reader understands it; at first it is the body *)
(* of an empty column.  An operation that throws changes nothing.          *)
(*                                                                         *)
(* The modules of the column classes take these operations along with      *)
(* their own, with the same arguments, and compare.                        *)
(***************************************************************************)
EXTENDS Integers, Sequences

CONSTANT Cols    \* the columns, all of one type

VARIABLES rows, wire

columnVars == <<rows, wire>>

MinOf(m, n) == IF m <= n THEN m ELSE n

Init ==
    /\ rows = [c \in Cols |-> <<>>]
    /\ wire = <<>>

\* Appends one element to the end of the column.
AppendItem(c, v) ==
    /\ rows' = [rows EXCEPT ![c] = Append(@, v)]
    /\ UNCHANGED wire

\* "Appends content of given column to the end of current one."
AppendColumn(c, d) ==
    /\ rows' = [rows EXCEPT ![c] = @ \o rows[d]]
    /\ UNCHANGED wire

\* The same for a column of a type of its own, which holds the rows s.
AppendRows(c, s) ==
    /\ rows' = [rows EXCEPT ![c] = @ \o s]
    /\ UNCHANGED wire

\* "Clear column data."
Clear(c) ==
    /\ rows' = [rows EXCEPT ![c] = <<>>]
    /\ UNCHANGED wire

\* "Makes slice of the current column"; what lies beyond the end is cut off.
\* CloneEmpty is the empty slice.
Sliced(c, begin, len) == SubSeq(rows[c], begin + 1, MinOf(begin + len, Len(rows[c])))

\* A new column with the rows s becomes column d.
Keep(d, s) ==
    /\ rows' = [rows EXCEPT ![d] = s]
    /\ UNCHANGED wire

Slice(c, d, begin, len) == Keep(d, Sliced(c, begin, len))

Swap(c, d) ==
    /\ rows' = [rows EXCEPT ![c] = rows[d], ![d] = rows[c]]
    /\ UNCHANGED wire

\* "Saves column body to output stream."
Save(c) ==
    /\ wire' = rows[c]
    /\ UNCHANGED rows

\* The server has written a column.
Receive(s) ==
    /\ wire' = s
    /\ UNCHANGED rows

\* "Loads column data from input stream."
Load(c) ==
    /\ rows' = [rows EXCEPT ![c] = wire]
    /\ wire' = <<>>

=============================================================================
