--------------------------- MODULE LowCardinality ---------------------------
(***************************************************************************)
(* ColumnLowCardinality (clickhouse/columns/lowcardinality.cpp): a column  *)
(* stored as a dictionary of distinct items, an index into it per row, and *)
(* a hash map from items to their place in the dictionary.  All three have *)
(* to stay in step through appends that throw, slices, swaps, and columns  *)
(* loaded from the server.                                                 *)
(*                                                                         *)
(* Items are abstract values; the pair of hashes that stands for an item   *)
(* in the map is taken to be injective, so that the map is keyed by items. *)
(* A dictionary may store an item in another form than it was given in:    *)
(* ColumnFixedString pads to its length.  The map is keyed by the form     *)
(* AppendUnsafe was given, or, after a Load, by the stored one.  In a      *)
(* dictionary of Nullable type an entry whose null flag is set is Null.    *)
(* Append(ColumnRef) and Slice are loops with one step per row.            *)
(***************************************************************************)
EXTENDS Integers, Sequences, FiniteSets, TLC

CONSTANTS Cols,        \* columns of this type
          Values,      \* items of the nested type
          Default,     \* its zero value, "" for strings
          Padded,      \* the form in which the nested column stores a value
          Refused,     \* values the nested column throws on (FixedString)
          Null,        \* the NULL item
          Plains,      \* what columns of the dictionary's type hold
          Nullables,   \* whether the nested type is Nullable: the choices
          Reshapes,    \* for which of them the application slices and clones
          Capacity,    \* how many indexes each width of index column can tell
                       \* apart: 2^8 and 2^32, scaled down
          Truncates,   \* a stream may end within the index
          MaxRows,     \* bound: rows of a column
          MaxKeys      \* bound: keys, and rows, of a column the server sends

Width == {"UInt8", "UInt32"}

ASSUME LowCardinalityAssumption ==
    /\ Padded \in [Values -> Values]
    /\ \A v \in Values \ Refused : Padded[Padded[v]] = Padded[v] /\ Padded[v] \notin Refused
    /\ Default \in Values \ Refused /\ Refused \subseteq Values /\ Null \notin Values
    /\ Plains \subseteq Seq({Padded[v] : v \in Values \ Refused} \cup {Null})
    /\ Nullables \subseteq BOOLEAN /\ Reshapes \subseteq BOOLEAN /\ Truncates \in BOOLEAN
    /\ Capacity \in [Width -> Nat \ {0}]
    /\ MaxRows \in Nat /\ MaxKeys \in Nat

VARIABLES nullable, \* the nested type is Nullable
          cols,     \* per column: dict (dictionary_column_), index and width
                    \* (index_) and map (unique_items_map_)
          stream,   \* the last column body written by a column or the server
          job,      \* the loop of Append(ColumnRef) or Slice in progress
          rows,     \* what the columns should hold,
          wire      \* and what stream should say

vars == <<nullable, cols, stream, job, rows, wire>>

Rows == INSTANCE ColumnSeq

Item == Values \cup (IF nullable THEN {Null} ELSE {})

-----------------------------------------------------------------------------
Vacant == [dict |-> <<>>, index |-> <<>>, width |-> "UInt32", map |-> <<>>]

\* unordered_map::emplace keeps an entry that is there already.
Emplace(map, v, p) == map @@ (v :> p)

\* An item as the dictionary gives it back.
Stored(v) == IF v = Null THEN Null ELSE Padded[v]

\* AppendToDictionary: one case per nested type; a null item goes to a Nullable
\* dictionary with its flag set.
AppendToDictionary(dict, v) == Append(dict, Stored(v))

AppendNullItem(col) ==
    [col EXCEPT !.dict = AppendToDictionary(@, Null), !.map = Emplace(@, Null, 0)]

AppendDefaultItem(col) ==
    [col EXCEPT !.map = Emplace(@, Default, Len(col.dict)), !.dict = AppendToDictionary(@, Default)]

\* The constructor for a Nullable dictionary puts the null item first; the one
\* for a ColumnRef does not look at what it gets.  Setup's loop: see Construct.
NewColumn(nullFirst) ==
    AppendDefaultItem(IF nullFirst THEN AppendNullItem(Vacant) ELSE Vacant)

\* getDictionaryIndex, GetItem
GetItem(col, n) ==
    IF nullable /\ col.index[n] = 0 THEN Null ELSE col.dict[col.index[n] + 1]

\* appendIndex: the index is cast to the width of the index column.
AppendIndex(col, p) == [col EXCEPT !.index = Append(@, p % Capacity[col.width])]

\* AppendUnsafe up to the dictionary: try_emplace and appendIndex
Emplaced(col, v) ==
    LET p == IF v \in DOMAIN col.map THEN col.map[v] ELSE Len(col.dict)
    IN  [AppendIndex(col, p) EXCEPT !.map = Emplace(@, v, p)]

\* Mutant: the map entry of the item stays.
IndexOnly(col, v, size) == [col EXCEPT !.index = SubSeq(@, 1, size)]

\* The catch block: the last index and the map entry are removed again.
Rollback(col, v, size) ==
    [col EXCEPT !.index = SubSeq(@, 1, size), !.map = [u \in DOMAIN @ \ {v} |-> @[u]]]

\* AppendUnsafe; AppendToDictionary may refuse an item that is new.
AppendUnsafe(col, v) ==
    CASE v \in DOMAIN col.map -> Emplaced(col, v)
      [] v \in Refused \ DOMAIN col.map -> Rollback(Emplaced(col, v), v, Len(col.index))
      [] OTHER -> [Emplaced(col, v) EXCEPT !.dict = AppendToDictionary(@, v)]

-----------------------------------------------------------------------------
NoJob == [op |-> "none"]
\* No loop is in progress.
Ready == job = NoJob
Size(c) == Len(cols[c].index)

\* ColumnLowCardinalityT::Append(value)
AppendItem(c, v) ==
    /\ Size(c) < MaxRows
    /\ cols' = [cols EXCEPT ![c] = AppendUnsafe(@, v)]
    /\ IF v \in Refused THEN UNCHANGED <<rows, wire>> ELSE Rows!AppendItem(c, Stored(v))
    /\ UNCHANGED <<nullable, stream, job>>

\* The loop that appends the items of another column to c, which has size rows;
\* meant is what they should be.  Nothing else happens meanwhile, so that the items
\* are those of the call.
Appending(c, size, items, meant) ==
    [op |-> "Append", to |-> c, base |-> size, items |-> items, meant |-> meant]

\* The items with the numbers first .. last of a column, counted from 0.
ItemsOf(col, first, last) ==
    [n \in 1 .. last - first + 1 |-> GetItem(col, first + n)]

\* Append(ColumnRef) with another column of the same type.  (With the column
\* itself the loop never ends: its own appends move the end.)
CallAppend(c, d) ==
    /\ c # d /\ Size(c) + Size(d) <= MaxRows
    /\ job' = Appending(c, Size(c), ItemsOf(cols[d], 0, Size(d) - 1), rows[d])
    /\ UNCHANGED <<nullable, cols, stream, rows, wire>>

\* Append(ColumnRef) with a column of the dictionary's type that holds items.  No
\* items also stand for a column of any other type: nothing of it is appended, and
\* nothing thrown.
AppendPlain(c, items) ==
    /\ items \in Seq(Item) /\ Size(c) + Len(items) <= MaxRows
    /\ job' = IF items = <<>> THEN NoJob ELSE Appending(c, Size(c), items, items)
    /\ UNCHANGED <<nullable, cols, stream, rows, wire>>

\* The constructor given a dictionary column that holds items: Setup appends them.
Construct(c, items) ==
    /\ items \in Seq(Item) /\ Len(items) <= MaxRows
    /\ cols' = [cols EXCEPT ![c] = NewColumn(nullable)]
    /\ Rows!Clear(c)
    /\ job' = Appending(c, 0, items, items)
    /\ UNCHANGED <<nullable, stream>>

AppendNext ==
    /\ job.op = "Append" /\ job.items # <<>>
    /\ cols' = [cols EXCEPT ![job.to] = AppendUnsafe(@, Head(job.items))]
    /\ job' = [job EXCEPT !.items = Tail(@)]
    /\ UNCHANGED <<nullable, stream, rows, wire>>

AppendReturns ==
    /\ job.op = "Append" /\ job.items = <<>>
    /\ Rows!AppendRows(job.to, job.meant)
    /\ job' = NoJob
    /\ UNCHANGED <<nullable, cols, stream>>

\* The loop that appends items to a column of its own, to be kept as d.
Slicing(d, items, meant) ==
    [op |-> "Slice", to |-> d, items |-> items, meant |-> meant, result |-> NewColumn(FALSE)]

\* Mutant: the rows are counted from the start of the column.
CallSliceFromStart(c, d, begin, len) ==
    /\ nullable \in Reshapes
    /\ LET first == Rows!MinOf(begin, Size(c))
           count == Rows!MinOf(len, Size(c) - first)
       IN  job' = Slicing(d, ItemsOf(cols[c], 0, count - 1), Rows!Sliced(c, begin, len))
    /\ UNCHANGED <<nullable, cols, stream, rows, wire>>

\* Slice(begin, len) of c, which the application keeps as d.  CloneEmpty is
\* the slice of no rows.
CallSlice(c, d, begin, len) ==
    /\ nullable \in Reshapes
    /\ LET first == Rows!MinOf(begin, Size(c))
           count == Rows!MinOf(len, Size(c) - first)
       IN  job' = Slicing(d, ItemsOf(cols[c], first, first + count - 1),
                          Rows!Sliced(c, begin, len))
    /\ UNCHANGED <<nullable, cols, stream, rows, wire>>

SliceNext ==
    /\ job.op = "Slice" /\ job.items # <<>>
    /\ job' = [job EXCEPT !.items = Tail(@), !.result = AppendUnsafe(@, Head(job.items))]
    /\ UNCHANGED <<nullable, cols, stream, rows, wire>>

SliceReturns ==
    /\ job.op = "Slice" /\ job.items = <<>>
    /\ cols' = [cols EXCEPT ![job.to] = job.result]
    /\ Rows!Keep(job.to, job.meant)
    /\ job' = NoJob
    /\ UNCHANGED <<nullable, stream>>

\* The index column stays as wide as it was.
Clear(c) ==
    /\ cols' = [cols EXCEPT ![c] = [NewColumn(nullable) EXCEPT !.width = cols[c].width]]
    /\ Rows!Clear(c)
    /\ UNCHANGED <<nullable, stream, job>>

Swap(c, d) ==
    /\ cols' = [cols EXCEPT ![c] = cols[d], ![d] = cols[c]]
    /\ Rows!Swap(c, d)
    /\ UNCHANGED <<nullable, stream, job>>

\* SaveBody: of a Nullable dictionary only the nested values are written; the
\* nested value of Null is the stored default.
Body(col) ==
    [width |-> col.width, index |-> col.index,
     keys  |-> [k \in DOMAIN col.dict |-> IF col.dict[k] = Null THEN Padded[Default] ELSE col.dict[k]]]

SaveBody(c) ==
    /\ stream' = Body(cols[c])
    /\ Rows!Save(c)
    /\ UNCHANGED <<nullable, cols, job>>

\* A column body as the server reads it, and means it.
Decoded(body) ==
    [n \in DOMAIN body.index |->
        IF nullable /\ body.index[n] = 0 THEN Null ELSE body.keys[body.index[n] + 1]]

\* The server sends a column: distinct keys, after a placeholder for NULL when
\* Nullable, and an index of the width that suffices for them.
ServerSends(keys, index) ==
    /\ stream.index = <<>>
    /\ stream' = [width |-> "UInt8", index |-> index,
                  keys |-> IF nullable THEN <<Padded[Default]>> \o keys ELSE keys]
    /\ Rows!Receive(Decoded(stream'))
    /\ UNCHANGED <<nullable, cols, job>>

\* What Load makes of the keys: the first entry of a Nullable dictionary is
\* null, and an item's place is the first one it is at.
LoadDictionary(keys) ==
    IF nullable THEN [keys EXCEPT ![1] = Null] ELSE keys

FirstPlaces(dict) ==
    [v \in {dict[k] : k \in DOMAIN dict} |->
        (CHOOSE k \in DOMAIN dict : dict[k] = v /\ \A j \in 1 .. k - 1 : dict[j] # v) - 1]

\* LoadBody consumes the stream.  A new column is read and swapped in; when
\* reading throws nothing changes.  The stream holds k entries of the index; the
\* result of reading them is not looked at, so that the rest is zero.
LoadBody(c, k) ==
    /\ cols' = [cols EXCEPT ![c] =
                  [dict  |-> LoadDictionary(stream.keys),
                   map   |-> FirstPlaces(LoadDictionary(stream.keys)),
                   width |-> stream.width,
                   index |-> [n \in DOMAIN stream.index |-> IF n <= k THEN stream.index[n] ELSE 0]]]
    /\ stream' = Body(NewColumn(nullable))
    /\ Rows!Load(c)
    /\ UNCHANGED <<nullable, job>>

-----------------------------------------------------------------------------
Init ==
    /\ nullable \in Nullables
    /\ cols = [c \in Cols |-> NewColumn(nullable)]
    /\ stream = Body(NewColumn(nullable))
    /\ job = NoJob
    /\ Rows!Init

\* The distinct keys and the indexes a server may send.
KeySeqs == {s \in UNION {[1 .. n -> {Padded[v] : v \in Values \ Refused}] : n \in 1 .. MaxKeys} :
               \A i, j \in DOMAIN s : i # j => s[i] # s[j]}
IndexSeqs(n) == UNION {[1 .. r -> 0 .. IF nullable THEN n ELSE n - 1] : r \in 1 .. MaxKeys}

Next ==
    \/ Ready /\ \E c \in Cols, v \in Item : AppendItem(c, v)
    \/ Ready /\ \E c, d \in Cols : CallAppend(c, d)
    \/ Ready /\ \E c \in Cols, items \in Plains : AppendPlain(c, items)
    \/ Ready /\ \E c \in Cols, items \in Plains : Construct(c, items)
    \/ AppendNext \/ AppendReturns
    \/ Ready /\ \E c, d \in Cols, begin, len \in 0 .. MaxRows : CallSlice(c, d, begin, len)
    \/ SliceNext \/ SliceReturns
    \/ Ready /\ \E c \in Cols : Clear(c) \/ SaveBody(c)
    \/ Ready /\ \E c, d \in Cols : Swap(c, d)
    \/ Ready /\ \E keys \in KeySeqs : \E index \in IndexSeqs(Len(keys)) : ServerSends(keys, index)
    \/ Ready /\ \E c \in Cols, k \in IF Truncates THEN 0 .. MaxRows ELSE {MaxRows} : LoadBody(c, k)

Spec == Init /\ [][Next]_vars

-----------------------------------------------------------------------------
\* Type invariant; every index points into the dictionary.
TypeOK ==
    /\ \A c \in Cols :
        /\ cols[c].dict \in Seq(Item) /\ Len(cols[c].dict) > 0
        /\ cols[c].index \in Seq(0 .. Len(cols[c].dict) - 1)
        /\ cols[c].width \in Width
        /\ DOMAIN cols[c].map \subseteq Item
    /\ job.op \in {"none", "Append", "Slice"}

\* Every key of the map leads to the form in which the dictionary stores it, two
\* keys to two places, and every entry of the dictionary has a key that is stored
\* so: what an append that threw has rolled back (lowcardinality.cpp:619) leaves
\* no trace that a later append could be misled by.  An entry is there once,
\* unless padding gives it several forms: a FixedString is looked up as it was
\* given (603) and found as it is stored after a Load (467), and may then be
\* added again.
\* The state keeps its types.
MapInStep ==
    TypeOK /\ \A c \in Cols :
        LET dict == cols[c].dict
            map  == cols[c].map
        IN  /\ {dict[k] : k \in DOMAIN dict} = {Stored(v) : v \in DOMAIN map}
            /\ \A v \in DOMAIN map : dict[map[v] + 1] = Stored(v)
            /\ \A u, v \in DOMAIN map : map[u] = map[v] => u = v
            /\ \A j, k \in DOMAIN dict :
                   j < k /\ dict[j] = dict[k] => \E v \in Item : Stored(v) = dict[j] /\ v # dict[j]

\* A column as its readers see it; during Append(ColumnRef) as it was before.
Contents(c) ==
    [n \in 1 .. (IF job.op = "Append" /\ job.to = c THEN job.base ELSE Size(c)) |->
        GetItem(cols[c], n)]

\* Whatever was done to it, a column has the rows that column.h:60-96 and
\* lowcardinality.h:69-93 lead its users to expect, each in the form in which
\* its nested column would give it back, and the server reads the
\* rows it was sent, NULL being index 0 and nothing else (lowcardinality.h:39).
ReadsBack ==
    /\ \A c \in Cols : Contents(c) = rows[c]
    /\ Decoded(stream) = wire
=============================================================================
