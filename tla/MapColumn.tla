----------------------------- MODULE MapColumn ------------------------------
(***************************************************************************)
(* A column of type Map(K, Nullable(V)): ColumnMap over ColumnArray over    *)
(* ColumnTuple over a key column and a ColumnNullable.  Each class keeps    *)
(* its share of a row in columns of its own; what the application appends, *)
(* slices or loads is spread over four of them and has to come together    *)
(* again.  The keys and the values are leaf columns such as FixedString,   *)
(* which refuses (throws on) what is too long.                             *)
(*                                                                         *)
(* A row is a sequence of entries <<key, value>>.  A column is not         *)
(* appended to itself (the loop of ColumnArray::Append would not end).     *)
(* An append that throws may leave entries behind that belong to no row;   *)
(* the application neither appends to nor saves such a column, which is    *)
(* torn, but reads it, slices it, appends it to another, or clears it.     *)
(***************************************************************************)
EXTENDS Integers, Sequences

CONSTANTS Cols,            \* the columns of the application
          Keys, Values,    \* what the leaf columns hold
          Default,         \* the value stored under NULL
          Null,            \* std::nullopt
          TooLong,         \* what the leaf columns refuse
          Inputs,          \* the rows the application appends
          Sent,            \* what the server sends: columns, and the rows they mean
          MaxRows          \* bound on the rows of a column

ASSUME MapColumnAssumption ==
    /\ Default \in Values /\ {Null, TooLong} \cap (Keys \cup Values) = {} /\ Null # TooLong
    /\ Inputs \subseteq Seq((Keys \cup {TooLong}) \X (Values \cup {Null, TooLong}))
    /\ MaxRows \in Nat

VARIABLES cols,     \* per column: offsets (ColumnArray::offsets_), keys, and nulls
                    \* and values (ColumnNullable::nulls_ and nested_)
          stream,   \* the last column body written by a column or the server
          job,      \* the loop of an Append in progress
          torn,     \* the columns an append left something behind in
          rows,     \* what the columns should hold,
          wire      \* and what stream should say

vars == <<cols, stream, job, torn, rows, wire>>

Rows == INSTANCE ColumnSeq

-----------------------------------------------------------------------------
Column == [offsets : Seq(Nat), keys : Seq(Keys), nulls : Seq({0, 1}), values : Seq(Values)]

NewColumn == [offsets |-> <<>>, keys |-> <<>>, nulls |-> <<>>, values |-> <<>>]

\* ColumnArray::GetOffset: where row n + 1 begins.
GetOffset(col, n) == IF n = 0 THEN 0 ELSE col.offsets[n]

GetSize(col, n) == col.offsets[n] - GetOffset(col, n - 1)

AddOffset(col, n) ==
    [col EXCEPT !.offsets = Append(@, GetOffset(col, Len(@)) + n)]

\* ColumnTuple::Size is the size of the first element.
DataSize(col) == Len(col.keys)

\* ColumnNullable::GetItem, ColumnNullableT::At
NullableAt(col, j) == IF col.nulls[j] # 0 THEN Null ELSE col.values[j]

\* ColumnArrayT::At and ArrayValueView: row n, cut off where the data end.
RowAt(col, n) ==
    LET offset == GetOffset(col, n - 1)
    IN  [j \in 1 .. Rows!MinOf(DataSize(col) - offset, GetSize(col, n)) |->
            <<col.keys[offset + j], NullableAt(col, offset + j)>>]

Contents(col) == [n \in DOMAIN col.offsets |-> RowAt(col, n)]

\* Mutant: the null flag of a value that was refused stays.
FlagKept(col, v) ==
    [col EXCEPT !.nulls = Append(@, IF v = Null THEN 1 ELSE 0),
                !.values = IF v = TooLong THEN @ ELSE Append(@, IF v = Null THEN Default ELSE v)]

\* ColumnNullableT::Append: the flag first, and away with it if the value is
\* refused.
AppendNullable(col, v) ==
    LET flagged == [col EXCEPT !.nulls = Append(@, IF v = Null THEN 1 ELSE 0)]
    IN  IF v = TooLong
        THEN [flagged EXCEPT !.nulls = SubSeq(@, 1, Len(@) - 1)]
        ELSE [flagged EXCEPT !.values = Append(@, IF v = Null THEN Default ELSE v)]

Refused(entry) == TooLong \in {entry[1], entry[2]}

\* ColumnTupleT::AppendTuple goes from the last element to the first.
AppendTuple(col, entry) ==
    IF Refused(entry)
    THEN AppendNullable(col, entry[2])
    ELSE [AppendNullable(col, entry[2]) EXCEPT !.keys = Append(@, entry[1])]

-----------------------------------------------------------------------------
NoJob == [op |-> "none"]
Ready == job = NoJob
Size(c) == Len(cols[c].offsets)

\* ColumnMapT::Append of one row, which is ColumnArrayT::Append(begin, end): the
\* entries one by one, then the offset.  An entry that throws ends the call.
CallAppendItem(c, row) ==
    /\ Ready /\ c \notin torn /\ Size(c) < MaxRows
    /\ job' = [op |-> "AppendItem", to |-> c, row |-> row, next |-> 1]
    /\ UNCHANGED <<cols, stream, torn, rows, wire>>

\* The entries before the refused one stay, and its value if that was taken.
LeavesEntries(row, n) == Refused(row[n]) /\ (n > 1 \/ row[n][2] # TooLong)

AppendEntry ==
    /\ job.op = "AppendItem" /\ job.next <= Len(job.row)
    /\ cols' = [cols EXCEPT ![job.to] = AppendTuple(@, job.row[job.next])]
    /\ job' = IF Refused(job.row[job.next]) THEN NoJob ELSE [job EXCEPT !.next = @ + 1]
    /\ torn' = IF LeavesEntries(job.row, job.next) THEN torn \cup {job.to} ELSE torn
    /\ UNCHANGED <<stream, rows, wire>>

AppendItemReturns ==
    /\ job.op = "AppendItem" /\ job.next > Len(job.row)
    /\ cols' = [cols EXCEPT ![job.to] = AddOffset(@, Len(job.row))]
    /\ Rows!AppendItem(job.to, job.row)
    /\ job' = NoJob
    /\ UNCHANGED <<stream, torn>>

\* ColumnTuple::Append and ColumnNullable::Append: element by element.
AppendData(col, data) ==
    [offsets |-> col.offsets, keys |-> col.keys \o data.keys,
     nulls |-> col.nulls \o data.nulls, values |-> col.values \o data.values]

\* ColumnTuple::Slice and ColumnNullable::Slice; a leaf column cuts off what lies
\* beyond its end.
SliceData(col, begin, len) ==
    LET Part(s) == SubSeq(s, begin + 1, Rows!MinOf(begin + len, Len(s)))
    IN  [keys |-> Part(col.keys), nulls |-> Part(col.nulls), values |-> Part(col.values)]

\* ColumnArray::GetAsColumn and AppendAsColumn
GetAsColumn(col, n) == SliceData(col, GetOffset(col, n - 1), GetSize(col, n))

AppendAsColumn(col, data) == AddOffset(AppendData(col, data), Len(data.keys))

\* ColumnMap::Append(ColumnRef), which is ColumnArray::Append: row by row.
CallAppend(c, d) ==
    /\ Ready /\ c # d /\ c \notin torn /\ Size(c) + Size(d) <= MaxRows
    /\ job' = [op |-> "Append", to |-> c, from |-> d, next |-> 1]
    /\ UNCHANGED <<cols, stream, torn, rows, wire>>

AppendNext ==
    /\ job.op = "Append" /\ job.next <= Size(job.from)
    /\ cols' = [cols EXCEPT ![job.to] = AppendAsColumn(@, GetAsColumn(cols[job.from], job.next))]
    /\ job' = [job EXCEPT !.next = @ + 1]
    /\ UNCHANGED <<stream, torn, rows, wire>>

AppendReturns ==
    /\ job.op = "Append" /\ job.next > Size(job.from)
    /\ Rows!AppendColumn(job.to, job.from)
    /\ job' = NoJob
    /\ UNCHANGED <<cols, stream, torn>>

\* Mutant: the offsets are not moved to the start of the slice.
OffsetsKept(col, begin, size) ==
    LET first == GetOffset(col, begin)
        data  == SliceData(col, first, GetOffset(col, begin + size) - first)
    IN  [offsets |-> SubSeq(col.offsets, begin + 1, begin + size),
         keys |-> data.keys, nulls |-> data.nulls, values |-> data.values]

\* ColumnArray::Slice; the sizes of the rows, added up, are the new offsets.
Sliced(col, begin, size) ==
    LET first == GetOffset(col, begin)
        data  == SliceData(col, first, GetOffset(col, begin + size) - first)
    IN  [offsets |-> [n \in 1 .. size |-> col.offsets[begin + n] - first],
         keys |-> data.keys, nulls |-> data.nulls, values |-> data.values]

\* A slice of c, which the application keeps as d; beyond the last row it
\* throws.  CloneEmpty is the slice of no rows.
Slice(c, d, begin, size) ==
    /\ Ready /\ begin + size <= Size(c)
    /\ cols' = [cols EXCEPT ![d] = Sliced(cols[c], begin, size)]
    /\ Rows!Slice(c, d, begin, size)
    /\ torn' = torn \ {d}
    /\ UNCHANGED <<stream, job>>

Clear(c) ==
    /\ Ready
    /\ cols' = [cols EXCEPT ![c] = NewColumn]
    /\ Rows!Clear(c)
    /\ torn' = torn \ {c}
    /\ UNCHANGED <<stream, job>>

Swap(c, d) ==
    /\ Ready
    /\ cols' = [cols EXCEPT ![c] = cols[d], ![d] = cols[c]]
    /\ Rows!Swap(c, d)
    /\ torn' = (torn \ {c, d}) \cup (IF c \in torn THEN {d} ELSE {})
                              \cup (IF d \in torn THEN {c} ELSE {})
    /\ UNCHANGED <<stream, job>>

-----------------------------------------------------------------------------
\* ColumnArray, ColumnTuple and ColumnNullable::SaveBody.  The number of rows is
\* in the header of the block; nothing else tells where a leaf column ends.
Body(col) ==
    [rows  |-> Len(col.offsets),
     cells |-> IF DataSize(col) > 0
               THEN col.offsets \o col.keys \o col.nulls \o col.values
               ELSE col.offsets]

SaveBody(c) ==
    /\ Ready /\ c \notin torn
    /\ stream' = Body(cols[c])
    /\ Rows!Save(c)
    /\ UNCHANGED <<cols, job, torn>>

\* What the server may send for its rows: their entries one behind the other,
\* and anything under NULL.
Encodes(col, sent) ==
    /\ Len(col.offsets) = Len(sent)
    /\ \A m, n \in 0 .. Len(sent) : m <= n => GetOffset(col, m) <= GetOffset(col, n)
    /\ {Len(col.keys), Len(col.nulls), Len(col.values)} = {GetOffset(col, Len(sent))}
    /\ \A n \in 1 .. Len(sent) :
        /\ GetSize(col, n) = Len(sent[n])
        /\ \A j \in 1 .. Len(sent[n]) :
            LET x == GetOffset(col, n - 1) + j
            IN  sent[n][j] = <<col.keys[x], NullableAt(col, x)>>

ASSUME SentAssumption ==
    \A sent \in Sent :
        /\ sent.rows \in Seq(Seq(Keys \X (Values \cup {Null})))
        /\ sent.column \in Column /\ Encodes(sent.column, sent.rows)

ServerSends(sent) ==
    /\ Ready /\ stream.rows = 0
    /\ stream' = Body(sent.column)
    /\ Rows!Receive(sent.rows)
    /\ UNCHANGED <<cols, job, torn>>

NestedRows(body) == IF body.rows = 0 THEN 0 ELSE body.cells[body.rows]

\* ColumnArray, ColumnTuple and ColumnNullable::LoadBody
Loaded(body) ==
    LET m == NestedRows(body)
    IN  [offsets |-> SubSeq(body.cells, 1, body.rows),
         keys    |-> SubSeq(body.cells, body.rows + 1, body.rows + m),
         nulls   |-> SubSeq(body.cells, body.rows + m + 1, body.rows + 2 * m),
         values  |-> SubSeq(body.cells, body.rows + 2 * m + 1, body.rows + 3 * m)]

\* The client loads every column it reads into a new one, and drops it when the
\* stream ends early.
LoadBody(c) ==
    /\ Ready
    /\ cols' = [cols EXCEPT ![c] = Loaded(stream)]
    /\ stream' = Body(NewColumn)
    /\ Rows!Load(c)
    /\ torn' = torn \ {c}
    /\ UNCHANGED job

-----------------------------------------------------------------------------
Init ==
    /\ cols = [c \in Cols |-> NewColumn]
    /\ stream = Body(NewColumn)
    /\ job = NoJob
    /\ torn = {}
    /\ Rows!Init

Next ==
    \/ \E c \in Cols, row \in Inputs : CallAppendItem(c, row)
    \/ AppendEntry \/ AppendItemReturns
    \/ \E c, d \in Cols : CallAppend(c, d)
    \/ AppendNext \/ AppendReturns
    \/ \E c, d \in Cols, begin, size \in 0 .. MaxRows : Slice(c, d, begin, size)
    \/ \E c \in Cols : Clear(c)
    \/ \E c, d \in Cols : Swap(c, d)
    \/ \E c \in Cols : SaveBody(c)
    \/ \E sent \in Sent : ServerSends(sent)
    \/ \E c \in Cols : LoadBody(c)

Spec == Init /\ [][Next]_vars

-----------------------------------------------------------------------------
\* Type invariant: no leaf column holds what it refuses.
TypeOK ==
    /\ cols \in [Cols -> Column]
    /\ job.op \in {"none", "AppendItem", "Append"}
    /\ torn \subseteq Cols

\* Between calls the offsets grow, the last one is the number of entries, and
\* every leaf column has as many: what the constructors of ColumnArray
\* (array.cpp:77-86) and ColumnNullable (nullable.cpp:13) demand, and what
\* every other operation is written for, holds after any sequence of calls.
\* An append that threw in the middle of a row is the exception; a slice of
\* its column, a column it is appended to and the column once cleared are
\* whole again.
\* The state keeps its types throughout.
SizesAgree ==
    TypeOK /\ (Ready => \A c \in Cols \ torn :
        LET col == cols[c]
        IN  /\ \A n \in 1 .. Len(col.offsets) : GetSize(col, n) >= 0
            /\ Len(col.keys) = GetOffset(col, Len(col.offsets))
            /\ Len(col.nulls) = Len(col.keys) /\ Len(col.values) = Len(col.keys))

\* Whatever happened to a column, reading it gives the rows that a plain
\* sequence would hold, with no part of a row that was refused; an append of
\* one row shows when it is complete, an append of a column row by row; and
\* who reads the bytes written, using only the number of rows, gets these rows
\* and comes to their end.
ReadsBack ==
    /\ \A c \in Cols :
        Contents(cols[c]) = IF job.op = "Append" /\ c = job.to
                            THEN rows[c] \o SubSeq(rows[job.from], 1, job.next - 1)
                            ELSE rows[c]
    /\ Len(stream.cells) = stream.rows + 3 * NestedRows(stream)
    /\ Contents(Loaded(stream)) = wire

=============================================================================
