----------------------------- MODULE MapProofs ------------------------------
(***************************************************************************)
(* Proofs about module MapColumn: whatever is done to columns of a Map     *)
(* type, their parts stay in step and they read back as the sequences of   *)
(* rows that column.h promises, for every set of columns, keys and values, *)
(* all rows that are appended or sent and every number of rows.            *)
(***************************************************************************)
EXTENDS MapColumn, TLAPS

-----------------------------------------------------------------------------
(* The inductive invariant.                                                *)

Entry == Keys \X (Values \cup {Null})
Row == Seq(Entry)

\* The rows of a column lie one after the other in its data.  An append that
\* threw may have left data behind them, the last of it without a key.
Whole(col) ==
    /\ \A m, n \in 0 .. Len(col.offsets) : m <= n => GetOffset(col, m) <= GetOffset(col, n)
    /\ GetOffset(col, Len(col.offsets)) <= Len(col.keys)
    /\ Len(col.keys) <= Len(col.values) /\ Len(col.nulls) = Len(col.values)

\* Nothing is left behind the last row.
Tight(col) ==
    /\ Whole(col)
    /\ Len(col.keys) = GetOffset(col, Len(col.offsets)) /\ Len(col.values) = Len(col.keys)

Job ==
    {NoJob}
    \cup [op : {"AppendItem"}, to : Cols, row : Inputs, next : Nat]
    \cup [op : {"Append"}, to : Cols, from : Cols, next : Nat]

\* The first n entries of row lie behind the rows of a column that was tight.
Begun(col, row, n) ==
    LET last == GetOffset(col, Len(col.offsets))
    IN  /\ Len(col.keys) = last + n /\ Len(col.values) = last + n
        /\ \A j \in 1 .. n : <<col.keys[last + j], NullableAt(col, last + j)>> = row[j]

\* An append of a row has taken the entries before the next one, an append of
\* a column is not at its own end.
Progress ==
    /\ job.op = "AppendItem" =>
        /\ job.to \notin torn /\ job.next \in 1 .. Len(job.row) + 1
        /\ Begun(cols[job.to], job.row, job.next - 1)
    /\ job.op = "Append" =>
        /\ job.to \notin torn /\ job.to # job.from
        /\ job.next \in 1 .. Size(job.from) + 1

Types ==
    /\ cols \in [Cols -> Column] /\ rows \in [Cols -> Seq(Row)]
    /\ job \in Job /\ torn \subseteq Cols

Parts ==
    \A c \in Cols :
        /\ Whole(cols[c])
        /\ c \in torn \/ (job.op = "AppendItem" /\ job.to = c) \/ Tight(cols[c])

\* The columns read back, as ReadsBack says.
Held ==
    \A c \in Cols :
        Contents(cols[c]) = IF job.op = "Append" /\ c = job.to
                            THEN rows[c] \o SubSeq(rows[job.from], 1, job.next - 1)
                            ELSE rows[c]

\* What was written is the body of a column that is tight and reads back.
Written ==
    /\ stream \in [rows : Nat, cells : Seq(Nat \cup Keys \cup Values)]
    /\ Len(stream.cells) = stream.rows + 3 * NestedRows(stream)
    /\ Loaded(stream) \in Column /\ Tight(Loaded(stream))
    /\ Contents(Loaded(stream)) = wire

IInv == Types /\ Parts /\ Progress /\ Held /\ Written

-----------------------------------------------------------------------------
(* Sequences.                                                              *)

(* Sequences with the same length and the same elements are equal.         *)
LEMMA SameSeq ==
    ASSUME NEW S, NEW T, NEW s \in Seq(S), NEW t \in Seq(T), Len(s) = Len(t),
           \A i \in 1 .. Len(s) : s[i] = t[i]
    PROVE  s = t
OBVIOUS

(* A part of a sequence.                                                   *)
LEMMA Part ==
    ASSUME NEW S, NEW s \in Seq(S), NEW m \in Nat, NEW n \in Nat, m + n <= Len(s)
    PROVE  /\ SubSeq(s, m + 1, m + n) \in Seq(S) /\ Len(SubSeq(s, m + 1, m + n)) = n
           /\ \A i \in 1 .. n : SubSeq(s, m + 1, m + n)[i] = s[m + i]
OBVIOUS

(* The elements of a concatenation.                                        *)
LEMMA Joined ==
    ASSUME NEW S, NEW s \in Seq(S), NEW t \in Seq(S)
    PROVE  /\ s \o t \in Seq(S) /\ Len(s \o t) = Len(s) + Len(t)
           /\ \A i \in 1 .. Len(s) : (s \o t)[i] = s[i]
           /\ \A i \in 1 .. Len(t) : (s \o t)[Len(s) + i] = t[i]
OBVIOUS

(* The elements of a sequence with one more.                               *)
LEMMA Longer ==
    ASSUME NEW S, NEW s \in Seq(S), NEW x \in S
    PROVE  /\ Append(s, x) \in Seq(S) /\ Len(Append(s, x)) = Len(s) + 1
           /\ \A i \in 1 .. Len(s) : Append(s, x)[i] = s[i]
           /\ Append(s, x)[Len(s) + 1] = x
OBVIOUS

(* A function on 1 .. n is a sequence.                                     *)
LEMMA Listed ==
    ASSUME NEW S, NEW n \in Nat, NEW f \in [1 .. n -> S]
    PROVE  f \in Seq(S) /\ Len(f) = n
OBVIOUS

(* An append of a sequence, one element at a time.                         *)
LEMMA Further ==
    ASSUME NEW S, NEW s \in Seq(S), NEW t \in Seq(S), NEW n \in 1 .. Len(t)
    PROVE  Append(s \o SubSeq(t, 1, n - 1), t[n]) = s \o SubSeq(t, 1, n)
OBVIOUS

-----------------------------------------------------------------------------
(* The rows of a column.                                                   *)

(* The components of a column.                                             *)
LEMMA Components ==
    ASSUME NEW col \in Column
    PROVE  /\ col.offsets \in Seq(Nat) /\ col.keys \in Seq(Keys)
           /\ col.nulls \in Seq({0, 1}) /\ col.values \in Seq(Values)
           /\ Len(col.offsets) \in Nat /\ Len(col.keys) \in Nat
           /\ Len(col.nulls) \in Nat /\ Len(col.values) \in Nat
BY DEF Column

(* Changing a component of a column.                                       *)
LEMMA Changed ==
    ASSUME NEW col \in Column, NEW x
    PROVE  /\ [col EXCEPT !.offsets = x] = [offsets |-> x, keys |-> col.keys,
                                           nulls |-> col.nulls, values |-> col.values]
           /\ [col EXCEPT !.keys = x] = [offsets |-> col.offsets, keys |-> x,
                                        nulls |-> col.nulls, values |-> col.values]
           /\ [col EXCEPT !.nulls = x] = [offsets |-> col.offsets, keys |-> col.keys,
                                         nulls |-> x, values |-> col.values]
           /\ [col EXCEPT !.values = x] = [offsets |-> col.offsets, keys |-> col.keys,
                                          nulls |-> col.nulls, values |-> x]
<1>1. [col EXCEPT !.offsets = x] = [offsets |-> x, keys |-> col.keys,
                                    nulls |-> col.nulls, values |-> col.values]
  BY DEF Column
<1>2. [col EXCEPT !.keys = x] = [offsets |-> col.offsets, keys |-> x,
                                 nulls |-> col.nulls, values |-> col.values]
  BY DEF Column
<1>3. [col EXCEPT !.nulls = x] = [offsets |-> col.offsets, keys |-> col.keys,
                                  nulls |-> x, values |-> col.values]
  BY DEF Column
<1>4. [col EXCEPT !.values = x] = [offsets |-> col.offsets, keys |-> col.keys,
                                   nulls |-> col.nulls, values |-> x]
  BY DEF Column
<1> QED BY <1>1, <1>2, <1>3, <1>4, Zenon

(* GetOffset is a number; row n has its place between two of them.         *)
LEMMA Offsets ==
    ASSUME NEW col \in Column
    PROVE  /\ \A n \in 0 .. Len(col.offsets) : GetOffset(col, n) \in Nat
           /\ \A n \in 1 .. Len(col.offsets) : GetOffset(col, n) = col.offsets[n]
           /\ GetOffset(col, 0) = 0
BY Components DEF GetOffset

(* Where row n lies.                                                       *)
LEMMA Place ==
    ASSUME NEW col \in Column, Whole(col), NEW n \in 1 .. Len(col.offsets)
    PROVE  /\ GetOffset(col, n - 1) \in Nat /\ GetSize(col, n) \in Nat
           /\ GetOffset(col, n - 1) + GetSize(col, n) = GetOffset(col, n)
           /\ GetOffset(col, n) <= GetOffset(col, Len(col.offsets))
           /\ GetOffset(col, Len(col.offsets)) \in Nat
           /\ GetOffset(col, Len(col.offsets)) <= Len(col.keys)
           /\ Len(col.keys) <= Len(col.values) /\ Len(col.nulls) = Len(col.values)
<1>1. n \in 0 .. Len(col.offsets) /\ n - 1 \in 0 .. Len(col.offsets) /\ n - 1 <= n
      /\ Len(col.offsets) \in 0 .. Len(col.offsets) /\ n <= Len(col.offsets)
  BY Components
<1>2. GetOffset(col, n - 1) \in Nat /\ GetOffset(col, n) \in Nat
      /\ GetOffset(col, n) = col.offsets[n]
      /\ GetOffset(col, Len(col.offsets)) \in Nat
  BY <1>1, Offsets, Zenon
<1>3. GetOffset(col, n - 1) <= GetOffset(col, n)
      /\ GetOffset(col, n) <= GetOffset(col, Len(col.offsets))
  BY <1>1, Zenon DEF Whole
<1> QED BY <1>2, <1>3 DEF GetSize, Whole

(* Row n is cut off nowhere.                                               *)
LEMMA RowIs ==
    ASSUME NEW col \in Column, Whole(col), NEW n \in 1 .. Len(col.offsets)
    PROVE  /\ RowAt(col, n) = [j \in 1 .. GetSize(col, n) |->
                                 <<col.keys[GetOffset(col, n - 1) + j],
                                   NullableAt(col, GetOffset(col, n - 1) + j)>>]
           /\ RowAt(col, n) \in Row
           /\ Len(RowAt(col, n)) = GetSize(col, n)
<1> DEFINE off == GetOffset(col, n - 1)
           size == GetSize(col, n)
<1> HIDE DEF off, size
<1>1. /\ off \in Nat /\ size \in Nat /\ off + size <= Len(col.keys)
      /\ Len(col.keys) <= Len(col.values) /\ Len(col.nulls) = Len(col.values)
  BY Place, Components DEF off, size
<1>2. Rows!MinOf(DataSize(col) - off, size) = size
  BY <1>1, Components DEF Rows!MinOf, DataSize
<1>3. RowAt(col, n) = [j \in 1 .. size |-> <<col.keys[off + j], NullableAt(col, off + j)>>]
  BY <1>2, Zenon DEF RowAt, off, size
<1>4. ASSUME NEW j \in 1 .. size
      PROVE  <<col.keys[off + j], NullableAt(col, off + j)>> \in Entry
  <2>1. off + j \in 1 .. Len(col.keys) /\ off + j \in 1 .. Len(col.values)
    BY <1>1, Components
  <2> QED BY <2>1, Components DEF NullableAt, Entry
<1>5. RowAt(col, n) \in [1 .. size -> Entry]
  BY <1>3, <1>4, Zenon
<1>6. RowAt(col, n) \in Seq(Entry) /\ Len(RowAt(col, n)) = size
  BY <1>1, <1>5, Listed, Zenon
<1> QED BY <1>3, <1>6, Zenon DEF off, size, Row

(* What a column shows is a sequence of rows.                              *)
LEMMA ContentsAre ==
    ASSUME NEW col \in Column, Whole(col)
    PROVE  /\ Contents(col) \in Seq(Row) /\ Len(Contents(col)) = Len(col.offsets)
           /\ \A n \in 1 .. Len(col.offsets) : Contents(col)[n] = RowAt(col, n)
<1>1. DOMAIN col.offsets = 1 .. Len(col.offsets)
  BY Components
<1>2. Contents(col) \in [1 .. Len(col.offsets) -> Row]
  BY <1>1, RowIs, Zenon DEF Contents
<1> QED BY <1>1, <1>2, Components, Listed DEF Contents

(* Rows of the same size with the same data are equal.                     *)
LEMMA EqualRows ==
    ASSUME NEW col \in Column, NEW new \in Column, Whole(col), Whole(new),
           NEW n \in 1 .. Len(col.offsets), NEW m \in 1 .. Len(new.offsets),
           GetSize(new, m) = GetSize(col, n),
           \A j \in 1 .. GetSize(col, n) :
               /\ new.keys[GetOffset(new, m - 1) + j] = col.keys[GetOffset(col, n - 1) + j]
               /\ new.nulls[GetOffset(new, m - 1) + j] = col.nulls[GetOffset(col, n - 1) + j]
               /\ new.values[GetOffset(new, m - 1) + j] = col.values[GetOffset(col, n - 1) + j]
    PROVE  RowAt(new, m) = RowAt(col, n)
<1> DEFINE off == GetOffset(col, n - 1)
           at == GetOffset(new, m - 1)
<1>1. RowAt(col, n) = [j \in 1 .. GetSize(col, n) |->
                          <<col.keys[off + j], NullableAt(col, off + j)>>]
  BY RowIs, Zenon
<1>2. RowAt(new, m) = [j \in 1 .. GetSize(new, m) |->
                          <<new.keys[at + j], NullableAt(new, at + j)>>]
  BY RowIs, Zenon
<1>3. \A j \in 1 .. GetSize(col, n) : NullableAt(new, at + j) = NullableAt(col, off + j)
  BY Zenon DEF NullableAt
<1>4. \A j \in 1 .. GetSize(col, n) : new.keys[at + j] = col.keys[off + j]
  BY Zenon
<1> HIDE DEF off, at
<1> QED BY <1>1, <1>2, <1>3, <1>4, Zenon

(* The rows of a column are still there in one with more offsets and data. *)
LEMMA KeptRows ==
    ASSUME NEW col \in Column, NEW new \in Column, Whole(col), Whole(new),
           Len(col.offsets) <= Len(new.offsets),
           \A n \in 1 .. Len(col.offsets) : new.offsets[n] = col.offsets[n],
           \A j \in 1 .. GetOffset(col, Len(col.offsets)) :
               /\ new.keys[j] = col.keys[j]
               /\ new.nulls[j] = col.nulls[j] /\ new.values[j] = col.values[j]
    PROVE  \A n \in 1 .. Len(col.offsets) : RowAt(new, n) = RowAt(col, n)
<1> SUFFICES ASSUME NEW n \in 1 .. Len(col.offsets) PROVE RowAt(new, n) = RowAt(col, n)
  BY Zenon
<1>1. n \in 1 .. Len(new.offsets) /\ new.offsets[n] = col.offsets[n]
  <2>1. Len(col.offsets) \in Nat /\ Len(new.offsets) \in Nat
    BY Components, Zenon
  <2> QED BY <2>1
<1> DEFINE off == GetOffset(col, n - 1)
<1>2. GetOffset(new, n - 1) = off
  <2>1. CASE n = 1
    BY <2>1 DEF GetOffset
  <2>2. CASE n # 1
    <3>1. n - 1 \in 1 .. Len(col.offsets)
      BY <2>2, Components
    <3> QED BY <2>2, <3>1, Zenon DEF GetOffset
  <2> QED BY <2>1, <2>2, Zenon
<1>3. GetSize(new, n) = GetSize(col, n)
  BY <1>1, <1>2, Zenon DEF GetSize
<1>4. /\ off \in Nat /\ GetSize(col, n) \in Nat /\ GetOffset(col, Len(col.offsets)) \in Nat
      /\ off + GetSize(col, n) <= GetOffset(col, Len(col.offsets))
  BY Place, Zenon
<1> HIDE DEF off
<1>5. ASSUME NEW j \in 1 .. GetSize(col, n)
      PROVE  /\ new.keys[off + j] = col.keys[off + j]
             /\ new.nulls[off + j] = col.nulls[off + j]
             /\ new.values[off + j] = col.values[off + j]
  <2>1. off + j \in 1 .. GetOffset(col, Len(col.offsets))
    BY <1>4
  <2> QED BY <2>1, Zenon
<1> DEFINE at == GetOffset(new, n - 1)
<1>6. \A j \in 1 .. GetSize(col, n) :
          /\ new.keys[at + j] = col.keys[off + j]
          /\ new.nulls[at + j] = col.nulls[off + j]
          /\ new.values[at + j] = col.values[off + j]
  BY <1>2, <1>5, Zenon
<1> QED BY <1>1, <1>3, <1>6, EqualRows, Zenon DEF off

(* What such a column shows when it has no more offsets, and when it has   *)
(* one more.                                                               *)
LEMMA SameContents ==
    ASSUME NEW col \in Column, NEW new \in Column, Whole(col), Whole(new),
           Len(new.offsets) = Len(col.offsets),
           \A n \in 1 .. Len(col.offsets) : RowAt(new, n) = RowAt(col, n)
    PROVE  Contents(new) = Contents(col)
<1>1. /\ Contents(col) \in Seq(Row) /\ Len(Contents(col)) = Len(col.offsets)
      /\ \A n \in 1 .. Len(col.offsets) : Contents(col)[n] = RowAt(col, n)
  BY ContentsAre, Zenon
<1>2. /\ Contents(new) \in Seq(Row) /\ Len(Contents(new)) = Len(col.offsets)
      /\ \A n \in 1 .. Len(col.offsets) : Contents(new)[n] = RowAt(new, n)
  BY ContentsAre, Zenon
<1> QED BY <1>1, <1>2, SameSeq, Zenon

(* A row more, behind rows that stay: the contents are one row longer.     *)
LEMMA OneMoreRow ==
    ASSUME NEW col \in Column, NEW new \in Column, Whole(col), Whole(new),
           Len(new.offsets) = Len(col.offsets) + 1,
           \A n \in 1 .. Len(col.offsets) : RowAt(new, n) = RowAt(col, n)
    PROVE  Contents(new) = Append(Contents(col), RowAt(new, Len(col.offsets) + 1))
<1> DEFINE k == Len(col.offsets)
           row == RowAt(new, k + 1)
<1>1. /\ Contents(col) \in Seq(Row) /\ Len(Contents(col)) = k
      /\ \A n \in 1 .. k : Contents(col)[n] = RowAt(col, n)
  BY ContentsAre, Zenon
<1>2. /\ Contents(new) \in Seq(Row) /\ Len(Contents(new)) = k + 1
      /\ \A n \in 1 .. k + 1 : Contents(new)[n] = RowAt(new, n)
  BY ContentsAre, Zenon
<1>3. k \in Nat /\ k + 1 \in 1 .. Len(new.offsets)
  BY Components
<1>4. row \in Row
  BY <1>3, RowIs, Zenon
<1> HIDE DEF k, row
<1>5. /\ Append(Contents(col), row) \in Seq(Row) /\ Len(Append(Contents(col), row)) = k + 1
      /\ \A n \in 1 .. k : Append(Contents(col), row)[n] = Contents(col)[n]
      /\ Append(Contents(col), row)[k + 1] = row
  BY <1>1, <1>4, Longer
<1>6. Contents(new)[k + 1] = row
  BY <1>2, <1>3 DEF row
<1>7. ASSUME NEW n \in 1 .. k PROVE Contents(new)[n] = Append(Contents(col), row)[n]
  BY <1>1, <1>2, <1>3, <1>5, <1>7 DEF k
<1>8. ASSUME NEW n \in 1 .. k + 1 PROVE Contents(new)[n] = Append(Contents(col), row)[n]
  BY <1>3, <1>5, <1>6, <1>7
<1>9. Contents(new) = Append(Contents(col), row)
  BY <1>2, <1>5, <1>8, SameSeq, Zenon
<1> QED BY <1>9, Zenon DEF row, k

(* AddOffset makes a row of data that lie behind the last one.             *)
LEMMA OffsetAdded ==
    ASSUME NEW col \in Column, Whole(col), NEW k \in Nat,
           GetOffset(col, Len(col.offsets)) + k <= Len(col.keys)
    PROVE  LET new == AddOffset(col, k)
               last == Len(col.offsets)
           IN  /\ new \in Column /\ Whole(new) /\ Len(new.offsets) = last + 1
               /\ \A n \in 1 .. last : new.offsets[n] = col.offsets[n]
               /\ GetOffset(new, last) = GetOffset(col, last)
               /\ GetOffset(new, last + 1) = GetOffset(col, last) + k
               /\ new.keys = col.keys /\ new.nulls = col.nulls /\ new.values = col.values
<1> DEFINE new == AddOffset(col, k)
           last == Len(col.offsets)
           end == GetOffset(col, last) + k
<1>1. last \in Nat /\ GetOffset(col, last) \in Nat /\ end \in Nat
  BY Components, Offsets
<1>2. new = [offsets |-> Append(col.offsets, end), keys |-> col.keys,
             nulls |-> col.nulls, values |-> col.values]
  BY Changed, Zenon DEF AddOffset
<1>3. /\ new.offsets \in Seq(Nat) /\ Len(new.offsets) = last + 1
      /\ \A n \in 1 .. last : new.offsets[n] = col.offsets[n]
      /\ new.offsets[last + 1] = end
  <2> HIDE DEF new, end
  <2> QED BY <1>1, <1>2, Components, Longer
<1>4. new \in Column
  BY <1>2, <1>3, Components, Zenon DEF Column
<1> HIDE DEF new
<1>5. \A n \in 0 .. last : GetOffset(new, n) = GetOffset(col, n)
  BY <1>1, <1>3 DEF GetOffset
<1>6. GetOffset(new, last + 1) = end
  BY <1>1, <1>3 DEF GetOffset
<1>7. ASSUME NEW m \in 0 .. last + 1, NEW n \in 0 .. last + 1, m <= n
      PROVE  GetOffset(new, m) <= GetOffset(new, n)
  <2>1. CASE n <= last
    <3>1. m \in 0 .. last /\ n \in 0 .. last
      BY <1>1, <1>7, <2>1
    <3> QED BY <1>5, <1>7, <3>1, Zenon DEF Whole
  <2>2. CASE m <= last /\ n = last + 1
    <3>1. m \in 0 .. last /\ last \in 0 .. last /\ m <= last
      BY <1>1, <2>2
    <3>2. GetOffset(col, m) <= GetOffset(col, last) /\ GetOffset(col, m) \in Nat
      BY <3>1, Offsets, Zenon DEF Whole
    <3> QED BY <1>1, <1>5, <1>6, <2>2, <3>1, <3>2
  <2>3. CASE m = last + 1 /\ n = last + 1
    BY <1>1, <1>6, <2>3
  <2> QED BY <1>1, <1>7, <2>1, <2>2, <2>3
<1>8. Whole(new)
  BY <1>1, <1>2, <1>3, <1>6, <1>7, Zenon DEF Whole
<1>9. GetOffset(new, last) = GetOffset(col, last)
  BY <1>1, <1>5
<1> QED BY <1>2, <1>3, <1>4, <1>6, <1>8, <1>9 DEF new

-----------------------------------------------------------------------------
(* Appending.                                                              *)

Input == (Keys \cup {TooLong}) \X (Values \cup {Null, TooLong})

(* ColumnNullableT::Append takes flag and value, or neither.               *)
LEMMA NullableAppended ==
    ASSUME NEW col \in Column, NEW v \in Values \cup {Null, TooLong}
    PROVE  LET flag  == IF v = Null THEN 1 ELSE 0
               value == IF v = Null THEN Default ELSE v
           IN  /\ flag \in {0, 1}
               /\ v = TooLong => AppendNullable(col, v) = col
               /\ v # TooLong =>
                    /\ value \in Values
                    /\ AppendNullable(col, v) =
                           [offsets |-> col.offsets, keys |-> col.keys,
                            nulls |-> Append(col.nulls, flag), values |-> Append(col.values, value)]
<1> DEFINE flag  == IF v = Null THEN 1 ELSE 0
           value == IF v = Null THEN Default ELSE v
           ns == Append(col.nulls, flag)
           flagged == [col EXCEPT !.nulls = ns]
<1>1. flag \in {0, 1}
  BY Zenon
<1>2. v # TooLong => value \in Values
  BY MapColumnAssumption, Zenon
<1>3. flagged = [offsets |-> col.offsets, keys |-> col.keys, nulls |-> ns, values |-> col.values]
  BY Changed, Zenon
<1> HIDE DEF flag, value
<1>4. ns \in Seq({0, 1})
  BY <1>1, Components, Longer, Zenon
<1>5. flagged.nulls = ns /\ flagged.values = col.values /\ flagged.keys = col.keys
      /\ flagged.offsets = col.offsets
  BY <1>3, Zenon
<1>6. flagged \in Column
  <2> HIDE DEF flagged, ns
  <2> QED BY <1>3, <1>4, Components, Zenon DEF Column
<1>7. SubSeq(ns, 1, Len(ns) - 1) = col.nulls
  BY <1>1, Components
<1>8. AppendNullable(col, v) = IF v = TooLong
                               THEN [flagged EXCEPT !.nulls = SubSeq(flagged.nulls, 1, Len(flagged.nulls) - 1)]
                               ELSE [flagged EXCEPT !.values = Append(flagged.values, value)]
  BY Zenon DEF AppendNullable, flag, value
<1> HIDE DEF flagged, ns
<1>9. ASSUME v = TooLong PROVE AppendNullable(col, v) = col
  <2>1. AppendNullable(col, v) = [flagged EXCEPT !.nulls = col.nulls]
    BY <1>5, <1>7, <1>8, <1>9, Zenon
  <2>2. AppendNullable(col, v) = [offsets |-> flagged.offsets, keys |-> flagged.keys,
                                  nulls |-> col.nulls, values |-> flagged.values]
    BY <1>6, <2>1, Changed, Zenon
  <2>3. col = [offsets |-> col.offsets, keys |-> col.keys, nulls |-> col.nulls,
               values |-> col.values]
    BY Zenon DEF Column
  <2> QED BY <1>5, <2>2, <2>3, Zenon
<1>10. ASSUME v # TooLong
       PROVE  AppendNullable(col, v) =
                  [offsets |-> col.offsets, keys |-> col.keys,
                   nulls |-> ns, values |-> Append(col.values, value)]
  <2>1. AppendNullable(col, v) = [flagged EXCEPT !.values = Append(col.values, value)]
    BY <1>5, <1>8, <1>10, Zenon
  <2>2. AppendNullable(col, v) = [offsets |-> flagged.offsets, keys |-> flagged.keys,
                                  nulls |-> flagged.nulls, values |-> Append(col.values, value)]
    BY <1>6, <2>1, Changed, Zenon
  <2> QED BY <1>5, <2>2, Zenon
<1> QED BY <1>1, <1>2, <1>9, <1>10, Zenon DEF flag, value, ns

(* ColumnTupleT::AppendTuple takes the value, and the key unless one of    *)
(* them is refused.                                                        *)
LEMMA TupleAppended ==
    ASSUME NEW col \in Column, Len(col.nulls) = Len(col.values), NEW entry \in Input
    PROVE  LET new == AppendTuple(col, entry)
               last == Len(col.values) + 1
           IN  /\ new \in Column /\ new.offsets = col.offsets
               /\ Len(new.nulls) = Len(new.values)
               /\ \A j \in 1 .. Len(col.keys) : new.keys[j] = col.keys[j]
               /\ \A j \in 1 .. Len(col.values) :
                      new.nulls[j] = col.nulls[j] /\ new.values[j] = col.values[j]
               /\ entry[2] = TooLong => new = col
               /\ entry[2] # TooLong => Len(new.values) = last
               /\ Refused(entry) => new.keys = col.keys
               /\ ~Refused(entry) =>
                      /\ Len(new.keys) = Len(col.keys) + 1
                      /\ new.keys[Len(col.keys) + 1] = entry[1]
                      /\ NullableAt(new, last) = entry[2]
<1> DEFINE new == AppendTuple(col, entry)
           last == Len(col.values) + 1
           v == entry[2]
           flag == IF v = Null THEN 1 ELSE 0
           value == IF v = Null THEN Default ELSE v
           ns == Append(col.nulls, flag)
           vs == Append(col.values, value)
           with == [offsets |-> col.offsets, keys |-> col.keys, nulls |-> ns, values |-> vs]
<1>1. v \in Values \cup {Null, TooLong} /\ entry[1] \in Keys \cup {TooLong}
  BY Zenon DEF Input
<1>2. /\ flag \in {0, 1}
      /\ v = TooLong => AppendNullable(col, v) = col
      /\ v # TooLong => value \in Values /\ AppendNullable(col, v) = with
  BY <1>1, NullableAppended, Zenon
<1>3. CASE v = TooLong
  <2>1. Refused(entry) /\ new = col
    BY <1>2, <1>3, Zenon DEF Refused, AppendTuple
  <2> QED BY <1>3, <2>1, Zenon
<1>4. CASE v # TooLong
  <2> HIDE DEF flag, value
  <2>0. flag \in {0, 1} /\ value \in Values
    BY <1>2, <1>4, Zenon
  <2>1. /\ ns \in Seq({0, 1}) /\ Len(ns) = Len(col.nulls) + 1
        /\ \A j \in 1 .. Len(col.nulls) : ns[j] = col.nulls[j]
        /\ ns[Len(col.nulls) + 1] = flag
    BY <2>0, Components, Longer
  <2>2. /\ vs \in Seq(Values) /\ Len(vs) = last
        /\ \A j \in 1 .. Len(col.values) : vs[j] = col.values[j]
        /\ vs[last] = value
    BY <2>0, Components, Longer
  <2>3. with \in Column
    <3> HIDE DEF ns, vs
    <3> QED BY <2>1, <2>2, Components, Zenon DEF Column
  <2> HIDE DEF ns, vs
  <2>4. CASE Refused(entry)
    <3>1. new = with
      BY <1>2, <1>4, <2>4, Zenon DEF AppendTuple
    <3> QED BY <1>4, <2>1, <2>2, <2>3, <2>4, <3>1
  <2>5. CASE ~Refused(entry)
    <3> DEFINE ks == Append(col.keys, entry[1])
    <3>1. entry[1] \in Keys
      BY <1>1, <2>5, Zenon DEF Refused
    <3>2. /\ ks \in Seq(Keys) /\ Len(ks) = Len(col.keys) + 1
          /\ \A j \in 1 .. Len(col.keys) : ks[j] = col.keys[j]
          /\ ks[Len(col.keys) + 1] = entry[1]
      BY <3>1, Components, Longer
    <3>3. new = [with EXCEPT !.keys = Append(with.keys, entry[1])]
      BY <1>2, <1>4, <2>5, Zenon DEF AppendTuple
    <3>4. new = [offsets |-> with.offsets, keys |-> Append(with.keys, entry[1]),
                 nulls |-> with.nulls, values |-> with.values]
      <4> HIDE DEF with, new
      <4> QED BY <2>3, <3>3, Changed, Zenon
    <3>5. with.offsets = col.offsets /\ with.keys = col.keys /\ with.nulls = ns /\ with.values = vs
      BY Zenon
    <3>6. new = [offsets |-> col.offsets, keys |-> ks, nulls |-> ns, values |-> vs]
      <4> HIDE DEF with, new
      <4> QED BY <3>4, <3>5, Zenon
    <3> HIDE DEF new, ks
    <3>7. new.offsets = col.offsets /\ new.keys = ks /\ new.nulls = ns /\ new.values = vs
      BY <3>6, Zenon
    <3>8. new \in Column
      BY <2>1, <2>2, <3>2, <3>6, Components, Zenon DEF Column
    <3>9. NullableAt(new, last) = entry[2]
      <4>1. new.nulls[last] = flag /\ new.values[last] = value
        BY <2>1, <2>2, <3>7, Zenon
      <4> QED BY <4>1 DEF NullableAt, flag, value
    <3>10. /\ Len(new.nulls) = Len(new.values) /\ Len(new.values) = last
           /\ \A j \in 1 .. Len(col.values) :
                  new.nulls[j] = col.nulls[j] /\ new.values[j] = col.values[j]
      BY <2>1, <2>2, <3>7, Zenon
    <3>11. /\ \A j \in 1 .. Len(col.keys) : new.keys[j] = col.keys[j]
           /\ Len(new.keys) = Len(col.keys) + 1 /\ new.keys[Len(col.keys) + 1] = entry[1]
      BY <3>2, <3>7, Zenon
    <3> QED BY <1>4, <2>5, <3>7, <3>8, <3>9, <3>10, <3>11, Zenon DEF new
  <2> QED BY <2>4, <2>5, Zenon
<1> QED BY <1>3, <1>4, Zenon

(* An entry of a row that is appended: the rows before it stay, and a      *)
(* refused one leaves a column that is tight unless it leaves something.   *)
LEMMA EntryTaken ==
    ASSUME NEW col \in Column, Whole(col), NEW row \in Seq(Input), NEW n \in 1 .. Len(row),
           Begun(col, row, n - 1)
    PROVE  LET new == AppendTuple(col, row[n])
           IN  /\ new \in Column /\ Whole(new) /\ Contents(new) = Contents(col)
               /\ ~Refused(row[n]) => Begun(new, row, n)
               /\ Refused(row[n]) /\ ~LeavesEntries(row, n) => Tight(new)
<1> DEFINE new == AppendTuple(col, row[n])
           last == GetOffset(col, Len(col.offsets))
<1>1. row[n] \in Input
  OBVIOUS
<1>2. /\ last \in Nat /\ Len(col.keys) \in Nat /\ Len(col.values) \in Nat /\ n \in Nat
      /\ last <= Len(col.keys) /\ Len(col.keys) = last + (n - 1) /\ Len(col.values) = last + (n - 1)
      /\ Len(col.nulls) = Len(col.values)
      /\ \A j \in 1 .. n - 1 : <<col.keys[last + j], NullableAt(col, last + j)>> = row[j]
  BY Components, Offsets DEF Begun, Whole
<1>3. /\ new \in Column /\ new.offsets = col.offsets
      /\ Len(new.nulls) = Len(new.values)
      /\ \A j \in 1 .. Len(col.keys) : new.keys[j] = col.keys[j]
      /\ \A j \in 1 .. Len(col.values) :
             new.nulls[j] = col.nulls[j] /\ new.values[j] = col.values[j]
      /\ row[n][2] = TooLong => new = col
      /\ row[n][2] # TooLong => Len(new.values) = Len(col.values) + 1
      /\ Refused(row[n]) => new.keys = col.keys
      /\ ~Refused(row[n]) =>
             /\ Len(new.keys) = Len(col.keys) + 1
             /\ new.keys[Len(col.keys) + 1] = row[n][1]
             /\ NullableAt(new, Len(col.values) + 1) = row[n][2]
  BY <1>1, <1>2, TupleAppended, Zenon
<1>4. ~Refused(row[n]) => row[n][2] # TooLong
  BY Zenon DEF Refused
<1> HIDE DEF new
<1>5. \A m : GetOffset(new, m) = GetOffset(col, m)
  BY <1>3, Zenon DEF GetOffset
<1>6. Len(new.keys) \in Nat /\ Len(new.keys) >= Len(col.keys) /\ Len(new.keys) <= Len(new.values)
  <2>1. CASE row[n][2] = TooLong
    BY <1>2, <1>3, <2>1
  <2>2. CASE row[n][2] # TooLong /\ Refused(row[n])
    BY <1>2, <1>3, <2>2
  <2>3. CASE ~Refused(row[n])
    BY <1>2, <1>3, <1>4, <2>3
  <2> QED BY <2>1, <2>2, <2>3, Zenon
<1>7. Whole(new)
  BY <1>2, <1>3, <1>5, <1>6 DEF Whole
<1>8. Contents(new) = Contents(col)
  <2>1. \A j \in 1 .. last : j \in 1 .. Len(col.keys) /\ j \in 1 .. Len(col.values)
    BY <1>2
  <2>2. \A j \in 1 .. last : /\ new.keys[j] = col.keys[j]
                             /\ new.nulls[j] = col.nulls[j] /\ new.values[j] = col.values[j]
    BY <1>3, <2>1, Zenon
  <2>3. Len(col.offsets) <= Len(new.offsets)
    BY <1>3, Components
  <2>4. \A m \in 1 .. Len(col.offsets) : RowAt(new, m) = RowAt(col, m)
    BY <1>3, <1>7, <2>2, <2>3, KeptRows, Zenon
  <2> QED BY <1>3, <1>7, <2>4, SameContents, Zenon
<1>9. ASSUME ~Refused(row[n]) PROVE Begun(new, row, n)
  <2>1. Len(new.keys) = last + n /\ Len(new.values) = last + n
    BY <1>2, <1>3, <1>4, <1>9
  <2>2. ASSUME NEW j \in 1 .. n - 1
        PROVE  <<new.keys[last + j], NullableAt(new, last + j)>> = row[j]
    <3>1. last + j \in 1 .. Len(col.keys) /\ last + j \in 1 .. Len(col.values)
      BY <1>2
    <3>2. new.keys[last + j] = col.keys[last + j] /\ NullableAt(new, last + j) = NullableAt(col, last + j)
      BY <1>3, <3>1, Zenon DEF NullableAt
    <3> QED BY <1>2, <3>2, Zenon
  <2>3. <<new.keys[last + n], NullableAt(new, last + n)>> = row[n]
    <3>1. Len(col.keys) + 1 = last + n /\ Len(col.values) + 1 = last + n
      BY <1>2
    <3>2. new.keys[last + n] = row[n][1] /\ NullableAt(new, last + n) = row[n][2]
      BY <1>3, <1>9, <3>1, Zenon
    <3>3. row[n] = <<row[n][1], row[n][2]>>
      BY <1>1 DEF Input
    <3> QED BY <3>2, <3>3, Zenon
  <2>4. \A j \in 1 .. n : j = n \/ j \in 1 .. n - 1
    BY <1>2
  <2>5. GetOffset(new, Len(new.offsets)) = last
    BY <1>3, <1>5, Zenon
  <2> QED BY <2>1, <2>2, <2>3, <2>4, <2>5, Zenon DEF Begun
<1>10. ASSUME Refused(row[n]), ~LeavesEntries(row, n) PROVE Tight(new)
  <2>1. n = 1 /\ row[n][2] = TooLong
    BY <1>10 DEF LeavesEntries
  <2>2. new = col /\ Len(col.keys) = last /\ Len(col.values) = last
    BY <1>2, <1>3, <2>1
  <2> QED BY <1>7, <2>2, Zenon DEF Tight
<1> QED BY <1>3, <1>7, <1>8, <1>9, <1>10, Zenon DEF new

(* The offset that ends the append of a row makes it one.                  *)
LEMMA RowTaken ==
    ASSUME NEW col \in Column, Whole(col), NEW row \in Seq(Input), Begun(col, row, Len(row))
    PROVE  LET new == AddOffset(col, Len(row))
           IN  /\ new \in Column /\ Tight(new) /\ row \in Row
               /\ Contents(new) = Append(Contents(col), row)
<1> DEFINE new == AddOffset(col, Len(row))
           k == Len(col.offsets)
           last == GetOffset(col, k)
           n == Len(row)
<1>1. /\ last \in Nat /\ n \in Nat /\ k \in Nat
      /\ Len(col.keys) = last + n /\ Len(col.values) = last + n
      /\ Len(col.nulls) = last + n
      /\ \A j \in 1 .. n : <<col.keys[last + j], NullableAt(col, last + j)>> = row[j]
  BY Components, Offsets DEF Begun, Whole
<1>2. /\ new \in Column /\ Whole(new) /\ Len(new.offsets) = k + 1
      /\ \A m \in 1 .. k : new.offsets[m] = col.offsets[m]
      /\ GetOffset(new, k) = last /\ GetOffset(new, k + 1) = last + n
      /\ new.keys = col.keys /\ new.nulls = col.nulls /\ new.values = col.values
  <2>1. last + n <= Len(col.keys)
    BY <1>1
  <2> QED BY <1>1, <2>1, OffsetAdded, Zenon
<1> HIDE DEF new
<1>3. Tight(new)
  BY <1>1, <1>2, Zenon DEF Tight
<1>4. RowAt(new, k + 1) = [j \in 1 .. n |-> <<col.keys[last + j], NullableAt(col, last + j)>>]
      /\ RowAt(new, k + 1) \in Row
  <2>1. k + 1 \in 1 .. Len(new.offsets) /\ (k + 1) - 1 = k
    BY <1>1, <1>2
  <2>2. GetSize(new, k + 1) = n
    <3>1. new.offsets[k + 1] = last + n
      BY <1>1, <1>2 DEF GetOffset
    <3> QED BY <1>1, <1>2, <2>1, <3>1 DEF GetSize
  <2>3. \A j : NullableAt(new, j) = NullableAt(col, j)
    BY <1>2, Zenon DEF NullableAt
  <2>4. RowAt(new, k + 1) = [j \in 1 .. GetSize(new, k + 1) |->
                                <<new.keys[GetOffset(new, (k + 1) - 1) + j],
                                  NullableAt(new, GetOffset(new, (k + 1) - 1) + j)>>]
        /\ RowAt(new, k + 1) \in Row
    BY <1>2, <2>1, RowIs, Zenon
  <2>5. GetOffset(new, (k + 1) - 1) = last
    BY <1>2, <2>1, Zenon
  <2> QED BY <1>2, <2>2, <2>3, <2>4, <2>5, Zenon
<1>5. row = [j \in 1 .. n |-> row[j]]
  OBVIOUS
<1>6. RowAt(new, k + 1) = row
  BY <1>1, <1>4, <1>5, Zenon
<1>7. \A m \in 1 .. k : RowAt(new, m) = RowAt(col, m)
  <2>1. k <= Len(new.offsets)
    BY <1>1, <1>2
  <2> QED BY <1>2, <2>1, KeptRows, Zenon
<1>8. Contents(new) = Append(Contents(col), row)
  BY <1>2, <1>6, <1>7, OneMoreRow, Zenon
<1> QED BY <1>2, <1>3, <1>4, <1>6, <1>8, Zenon DEF new

(* SliceData of what a column has is not cut off.                          *)
LEMMA DataSliced ==
    ASSUME NEW col \in Column, NEW begin \in Nat, NEW len \in Nat, begin + len <= Len(col.keys),
           Len(col.keys) <= Len(col.values), Len(col.nulls) = Len(col.values)
    PROVE  LET data == SliceData(col, begin, len)
           IN  /\ data = [keys |-> data.keys, nulls |-> data.nulls, values |-> data.values]
               /\ data.keys \in Seq(Keys) /\ Len(data.keys) = len
               /\ data.nulls \in Seq({0, 1}) /\ Len(data.nulls) = len
               /\ data.values \in Seq(Values) /\ Len(data.values) = len
               /\ \A j \in 1 .. len : /\ data.keys[j] = col.keys[begin + j]
                                      /\ data.nulls[j] = col.nulls[begin + j]
                                      /\ data.values[j] = col.values[begin + j]
<1> DEFINE data == SliceData(col, begin, len)
           Piece(s) == SubSeq(s, begin + 1, begin + len)
<1>1. /\ begin + len <= Len(col.nulls) /\ begin + len <= Len(col.values)
      /\ Rows!MinOf(begin + len, Len(col.keys)) = begin + len
      /\ Rows!MinOf(begin + len, Len(col.nulls)) = begin + len
      /\ Rows!MinOf(begin + len, Len(col.values)) = begin + len
  BY Components DEF Rows!MinOf
<1>2. data = [keys |-> Piece(col.keys), nulls |-> Piece(col.nulls), values |-> Piece(col.values)]
  BY <1>1, Zenon DEF SliceData
<1>3. /\ Piece(col.keys) \in Seq(Keys) /\ Len(Piece(col.keys)) = len
      /\ \A j \in 1 .. len : Piece(col.keys)[j] = col.keys[begin + j]
  <2>1. col.keys \in Seq(Keys) /\ begin + len <= Len(col.keys)
    BY <1>1, Components, Zenon
  <2> QED BY <2>1, Part
<1>4. /\ Piece(col.nulls) \in Seq({0, 1}) /\ Len(Piece(col.nulls)) = len
      /\ \A j \in 1 .. len : Piece(col.nulls)[j] = col.nulls[begin + j]
  <2>1. col.nulls \in Seq({0, 1}) /\ begin + len <= Len(col.nulls)
    BY <1>1, Components, Zenon
  <2> QED BY <2>1, Part
<1>5. /\ Piece(col.values) \in Seq(Values) /\ Len(Piece(col.values)) = len
      /\ \A j \in 1 .. len : Piece(col.values)[j] = col.values[begin + j]
  <2>1. col.values \in Seq(Values) /\ begin + len <= Len(col.values)
    BY <1>1, Components, Zenon
  <2> QED BY <2>1, Part
<1> HIDE DEF Piece, data
<1> QED BY <1>2, <1>3, <1>4, <1>5 DEF data

(* A row of one column, appended to another.                               *)
LEMMA ColumnRowTaken ==
    ASSUME NEW col \in Column, Tight(col), NEW from \in Column, Whole(from),
           NEW n \in 1 .. Len(from.offsets)
    PROVE  LET new == AppendAsColumn(col, GetAsColumn(from, n))
           IN  /\ new \in Column /\ Tight(new)
               /\ Contents(new) = Append(Contents(col), RowAt(from, n))
<1> DEFINE off == GetOffset(from, n - 1)
           size == GetSize(from, n)
           data == GetAsColumn(from, n)
           wide == AppendData(col, data)
           new == AppendAsColumn(col, data)
           k == Len(col.offsets)
           last == GetOffset(col, k)
<1> HIDE DEF off, size
<1>1. /\ off \in Nat /\ size \in Nat /\ off + size <= Len(from.keys)
      /\ Len(from.keys) <= Len(from.values) /\ Len(from.nulls) = Len(from.values)
  BY Components, Place DEF off, size
<1>2. /\ data = [keys |-> data.keys, nulls |-> data.nulls, values |-> data.values]
      /\ data.keys \in Seq(Keys) /\ Len(data.keys) = size
      /\ data.nulls \in Seq({0, 1}) /\ Len(data.nulls) = size
      /\ data.values \in Seq(Values) /\ Len(data.values) = size
      /\ \A j \in 1 .. size : /\ data.keys[j] = from.keys[off + j]
                              /\ data.nulls[j] = from.nulls[off + j]
                              /\ data.values[j] = from.values[off + j]
  BY <1>1, DataSliced, Zenon DEF GetAsColumn, off, size
<1>3. /\ last \in Nat /\ k \in Nat /\ Whole(col) /\ Len(col.keys) = last /\ Len(col.values) = last
      /\ Len(col.nulls) = last
  BY Components, Offsets, Zenon DEF Tight, Whole
<1> HIDE DEF data
<1>4. wide = [offsets |-> col.offsets, keys |-> col.keys \o data.keys,
              nulls |-> col.nulls \o data.nulls, values |-> col.values \o data.values]
  BY Zenon DEF AppendData
<1> HIDE DEF wide
<1>5. /\ wide.offsets = col.offsets /\ wide.keys = col.keys \o data.keys
      /\ wide.nulls = col.nulls \o data.nulls /\ wide.values = col.values \o data.values
  BY <1>4, Zenon
<1> HIDE DEF last
<1>6. /\ wide.keys \in Seq(Keys) /\ Len(wide.keys) = last + size
      /\ \A j \in 1 .. last : wide.keys[j] = col.keys[j]
      /\ \A j \in 1 .. size : wide.keys[last + j] = data.keys[j]
  <2> DEFINE s == col.keys
             t == data.keys
  <2>1. /\ s \in Seq(Keys) /\ Len(s) = last /\ last \in Nat
        /\ t \in Seq(Keys) /\ Len(t) = size /\ size \in Nat
    BY <1>1, <1>2, <1>3, Components, Zenon
  <2> HIDE DEF s, t
  <2>2. /\ s \o t \in Seq(Keys) /\ Len(s \o t) = Len(s) + Len(t)
        /\ \A j \in 1 .. Len(s) : (s \o t)[j] = s[j]
        /\ \A j \in 1 .. Len(t) : (s \o t)[Len(s) + j] = t[j]
    BY <2>1
  <2>3. wide.keys = s \o t
    BY <1>5, Zenon DEF s, t
  <2> QED BY <2>1, <2>2, <2>3, Zenon DEF s, t
<1>7. /\ wide.nulls \in Seq({0, 1}) /\ Len(wide.nulls) = last + size
      /\ \A j \in 1 .. last : wide.nulls[j] = col.nulls[j]
      /\ \A j \in 1 .. size : wide.nulls[last + j] = data.nulls[j]
  <2> DEFINE s == col.nulls
             t == data.nulls
  <2>1. /\ s \in Seq({0, 1}) /\ Len(s) = last /\ last \in Nat
        /\ t \in Seq({0, 1}) /\ Len(t) = size /\ size \in Nat
    BY <1>1, <1>2, <1>3, Components
  <2> HIDE DEF s, t
  <2>2. /\ s \o t \in Seq({0, 1}) /\ Len(s \o t) = Len(s) + Len(t)
        /\ \A j \in 1 .. Len(s) : (s \o t)[j] = s[j]
        /\ \A j \in 1 .. Len(t) : (s \o t)[Len(s) + j] = t[j]
    BY <2>1
  <2>3. wide.nulls = s \o t
    BY <1>5, Zenon DEF s, t
  <2> QED BY <2>1, <2>2, <2>3, Zenon DEF s, t
<1>8. /\ wide.values \in Seq(Values) /\ Len(wide.values) = last + size
      /\ \A j \in 1 .. last : wide.values[j] = col.values[j]
      /\ \A j \in 1 .. size : wide.values[last + j] = data.values[j]
  <2> DEFINE s == col.values
             t == data.values
  <2>1. /\ s \in Seq(Values) /\ Len(s) = last /\ last \in Nat
        /\ t \in Seq(Values) /\ Len(t) = size /\ size \in Nat
    BY <1>1, <1>2, <1>3, Components
  <2> HIDE DEF s, t
  <2>2. /\ s \o t \in Seq(Values) /\ Len(s \o t) = Len(s) + Len(t)
        /\ \A j \in 1 .. Len(s) : (s \o t)[j] = s[j]
        /\ \A j \in 1 .. Len(t) : (s \o t)[Len(s) + j] = t[j]
    BY <2>1
  <2>3. wide.values = s \o t
    BY <1>5, Zenon DEF s, t
  <2> QED BY <2>1, <2>2, <2>3, Zenon DEF s, t
<1>9. wide \in Column
  BY <1>4, <1>5, <1>6, <1>7, <1>8, Components DEF Column
<1>10. Whole(wide) /\ GetOffset(wide, Len(wide.offsets)) = last
  <2>1. \A m : GetOffset(wide, m) = GetOffset(col, m)
    BY <1>5, Zenon DEF GetOffset
  <2>2. Len(wide.offsets) = k /\ GetOffset(col, k) = last
    BY <1>5 DEF last
  <2>3. \A m, i \in 0 .. k : m <= i => GetOffset(wide, m) <= GetOffset(wide, i)
    <3>1. \A m, i \in 0 .. k : m <= i => GetOffset(col, m) <= GetOffset(col, i)
      BY <1>3, Zenon DEF Whole
    <3> QED BY <2>1, <3>1
  <2>4. /\ last <= Len(wide.keys) /\ Len(wide.keys) <= Len(wide.values)
        /\ Len(wide.nulls) = Len(wide.values)
    BY <1>1, <1>3, <1>6, <1>7, <1>8
  <2> QED BY <2>1, <2>2, <2>3, <2>4, Zenon DEF Whole
<1>11. new = AddOffset(wide, size)
  BY <1>2, Zenon DEF AppendAsColumn, wide
<1>12. /\ new \in Column /\ Whole(new) /\ Len(new.offsets) = k + 1
       /\ \A m \in 1 .. k : new.offsets[m] = col.offsets[m]
       /\ GetOffset(new, k) = last /\ GetOffset(new, k + 1) = last + size
       /\ new.keys = wide.keys /\ new.nulls = wide.nulls /\ new.values = wide.values
  <2>1. GetOffset(wide, Len(wide.offsets)) + size <= Len(wide.keys)
    BY <1>1, <1>3, <1>6, <1>10
  <2> DEFINE w == Len(wide.offsets)
  <2> HIDE DEF new
  <2>2. /\ new \in Column /\ Whole(new) /\ Len(new.offsets) = w + 1
        /\ \A m \in 1 .. w : new.offsets[m] = wide.offsets[m]
        /\ GetOffset(new, w) = GetOffset(wide, w)
        /\ GetOffset(new, w + 1) = GetOffset(wide, w) + size
        /\ new.keys = wide.keys /\ new.nulls = wide.nulls /\ new.values = wide.values
    BY <1>1, <1>9, <1>10, <1>11, <2>1, OffsetAdded, Zenon
  <2>3. w = k /\ GetOffset(wide, w) = last /\ wide.offsets = col.offsets
    BY <1>5, <1>10, Zenon
  <2> HIDE DEF w
  <2> QED BY <2>2, <2>3, Zenon
<1> HIDE DEF new
<1>13. Tight(new)
  BY <1>1, <1>3, <1>6, <1>8, <1>12, Zenon DEF Tight
<1>14. RowAt(new, k + 1) = RowAt(from, n)
  <2>1. k + 1 \in 1 .. Len(new.offsets) /\ (k + 1) - 1 = k
    BY <1>3, <1>12
  <2>2. GetSize(new, k + 1) = size
    <3>1. new.offsets[k + 1] = last + size
      BY <1>3, <1>12 DEF GetOffset
    <3> QED BY <1>1, <1>3, <1>12, <2>1, <3>1 DEF GetSize
  <2>3. GetOffset(new, (k + 1) - 1) = last
    BY <1>12, <2>1, Zenon
  <2>4. ASSUME NEW j \in 1 .. size
        PROVE  /\ new.keys[last + j] = from.keys[off + j]
               /\ new.nulls[last + j] = from.nulls[off + j]
               /\ new.values[last + j] = from.values[off + j]
    <3>1. /\ wide.keys[last + j] = data.keys[j] /\ wide.nulls[last + j] = data.nulls[j]
          /\ wide.values[last + j] = data.values[j]
      BY <1>6, <1>7, <1>8, Zenon
    <3>2. /\ data.keys[j] = from.keys[off + j] /\ data.nulls[j] = from.nulls[off + j]
          /\ data.values[j] = from.values[off + j]
      BY <1>2, Zenon
    <3> QED BY <1>12, <3>1, <3>2, Zenon
  <2> DEFINE at == GetOffset(new, (k + 1) - 1)
  <2>5. \A j \in 1 .. size : /\ new.keys[at + j] = from.keys[off + j]
                              /\ new.nulls[at + j] = from.nulls[off + j]
                              /\ new.values[at + j] = from.values[off + j]
    BY <2>3, <2>4, Zenon
  <2> QED BY <1>12, <2>1, <2>2, <2>5, EqualRows, Zenon DEF off, size
<1>15. \A m \in 1 .. k : RowAt(new, m) = RowAt(col, m)
  <2>1. k <= Len(new.offsets)
    BY <1>3, <1>12
  <2>2. \A j \in 1 .. last : /\ new.keys[j] = col.keys[j]
                             /\ new.nulls[j] = col.nulls[j] /\ new.values[j] = col.values[j]
    <3> SUFFICES ASSUME NEW j \in 1 .. last
                 PROVE  /\ new.keys[j] = col.keys[j]
                        /\ new.nulls[j] = col.nulls[j] /\ new.values[j] = col.values[j]
      BY Zenon
    <3>1. /\ wide.keys[j] = col.keys[j] /\ wide.nulls[j] = col.nulls[j]
          /\ wide.values[j] = col.values[j]
      BY <1>6, <1>7, <1>8, Zenon
    <3> QED BY <1>12, <3>1, Zenon
  <2> QED BY <1>3, <1>12, <2>1, <2>2, KeptRows, Zenon DEF last
<1>16. Contents(new) = Append(Contents(col), RowAt(from, n))
  BY <1>3, <1>12, <1>14, <1>15, OneMoreRow, Zenon
<1> QED BY <1>12, <1>13, <1>16, Zenon DEF new, data

(* ColumnArray::Slice: a column of its own with the rows of the slice.     *)
LEMMA SliceOf ==
    ASSUME NEW col \in Column, Whole(col), NEW begin \in Nat, NEW size \in Nat,
           begin + size <= Len(col.offsets)
    PROVE  LET new == Sliced(col, begin, size)
               all == Contents(col)
           IN  /\ new \in Column /\ Tight(new)
               /\ Contents(new) = SubSeq(all, begin + 1, Rows!MinOf(begin + size, Len(all)))
<1> DEFINE new == Sliced(col, begin, size)
           first == GetOffset(col, begin)
           len == GetOffset(col, begin + size) - first
           data == SliceData(col, first, len)
           offs == [n \in 1 .. size |-> col.offsets[begin + n] - first]
<1>1. ASSUME NEW n \in 0 .. size
      PROVE  /\ begin + n \in 0 .. Len(col.offsets) /\ GetOffset(col, begin + n) \in Nat
             /\ first \in Nat /\ first <= GetOffset(col, begin + n)
  <2>1. begin + n \in 0 .. Len(col.offsets) /\ begin \in 0 .. Len(col.offsets) /\ begin <= begin + n
    BY Components
  <2>2. GetOffset(col, begin + n) \in Nat /\ first \in Nat
    BY <2>1, Offsets, Zenon
  <2>3. first <= GetOffset(col, begin + n)
    BY <2>1, Zenon DEF Whole
  <2> QED BY <2>1, <2>2, <2>3, Zenon
<1>2. /\ first \in Nat /\ len \in Nat /\ first + len = GetOffset(col, begin + size)
      /\ first + len <= GetOffset(col, Len(col.offsets))
      /\ GetOffset(col, Len(col.offsets)) \in Nat
  <2>1. size \in 0 .. size /\ begin + size \in 0 .. Len(col.offsets)
        /\ Len(col.offsets) \in 0 .. Len(col.offsets)
    BY Components
  <2>2. GetOffset(col, begin + size) <= GetOffset(col, Len(col.offsets))
        /\ GetOffset(col, Len(col.offsets)) \in Nat
    BY <2>1, Offsets, Zenon DEF Whole
  <2>3. /\ GetOffset(col, begin + size) \in Nat /\ first \in Nat
        /\ first <= GetOffset(col, begin + size)
    BY <1>1, <2>1, Zenon
  <2> HIDE DEF first
  <2> QED BY <2>2, <2>3
<1> HIDE DEF first, len
<1>3. /\ first + len <= Len(col.keys) /\ Len(col.keys) <= Len(col.values)
      /\ Len(col.nulls) = Len(col.values) /\ Len(col.keys) \in Nat
  BY <1>2, Components DEF Whole
<1>4. /\ data = [keys |-> data.keys, nulls |-> data.nulls, values |-> data.values]
      /\ data.keys \in Seq(Keys) /\ Len(data.keys) = len
      /\ data.nulls \in Seq({0, 1}) /\ Len(data.nulls) = len
      /\ data.values \in Seq(Values) /\ Len(data.values) = len
      /\ \A j \in 1 .. len : /\ data.keys[j] = col.keys[first + j]
                             /\ data.nulls[j] = col.nulls[first + j]
                             /\ data.values[j] = col.values[first + j]
  BY <1>2, <1>3, DataSliced, Zenon
<1>5. new = [offsets |-> offs, keys |-> data.keys, nulls |-> data.nulls, values |-> data.values]
  BY Zenon DEF Sliced, first, len
<1>6. ASSUME NEW n \in 1 .. size
      PROVE  /\ col.offsets[begin + n] = GetOffset(col, begin + n)
             /\ offs[n] = GetOffset(col, begin + n) - first /\ offs[n] \in Nat
  <2>1. n \in 0 .. size /\ begin + n # 0
    OBVIOUS
  <2>2. col.offsets[begin + n] = GetOffset(col, begin + n)
    BY <2>1, Zenon DEF GetOffset
  <2>3. /\ GetOffset(col, begin + n) \in Nat /\ first \in Nat
        /\ first <= GetOffset(col, begin + n)
    BY <1>1, <2>1, Zenon
  <2> QED BY <2>2, <2>3
<1>7. offs \in Seq(Nat) /\ Len(offs) = size
  <2>1. offs \in [1 .. size -> Nat]
    BY <1>6, Zenon
  <2> QED BY <2>1, Listed, Zenon
<1> HIDE DEF data, offs
<1>8. new \in Column
  BY <1>4, <1>5, <1>7 DEF Column
<1>9. /\ new.offsets = offs /\ new.keys = data.keys /\ new.nulls = data.nulls
      /\ new.values = data.values /\ Len(new.offsets) = size
  BY <1>5, <1>7
<1> HIDE DEF new
<1>10. ASSUME NEW n \in 0 .. size PROVE GetOffset(new, n) = GetOffset(col, begin + n) - first
  <2>1. CASE n = 0
    <3>1. begin + n = begin
      BY <2>1
    <3> QED BY <1>2, <2>1, <3>1 DEF GetOffset, first
  <2>2. CASE n # 0
    <3>1. n \in 1 .. size
      BY <2>2
    <3> QED BY <1>6, <1>9, <2>2, <3>1, Zenon DEF GetOffset
  <2> QED BY <2>1, <2>2, Zenon
<1>11. Whole(new) /\ Tight(new)
  <2>1. ASSUME NEW m \in 0 .. size, NEW n \in 0 .. size, m <= n
        PROVE  GetOffset(new, m) <= GetOffset(new, n)
    <3>1. /\ begin + m \in 0 .. Len(col.offsets) /\ begin + n \in 0 .. Len(col.offsets)
          /\ GetOffset(col, begin + m) \in Nat /\ GetOffset(col, begin + n) \in Nat
      BY <1>1, Zenon
    <3>2. begin + m <= begin + n
      BY <2>1
    <3>3. GetOffset(col, begin + m) <= GetOffset(col, begin + n)
      BY <3>1, <3>2, Zenon DEF Whole
    <3>4. GetOffset(new, m) = GetOffset(col, begin + m) - first
          /\ GetOffset(new, n) = GetOffset(col, begin + n) - first
      BY <1>10, Zenon
    <3> QED BY <1>2, <3>1, <3>3, <3>4
  <2>2. GetOffset(new, size) = len
    <3>1. size \in 0 .. size
      OBVIOUS
    <3> QED BY <1>2, <1>10, <3>1
  <2> QED BY <1>2, <1>4, <1>9, <2>1, <2>2 DEF Whole, Tight
<1>12. ASSUME NEW n \in 1 .. size PROVE RowAt(new, n) = RowAt(col, begin + n)
  <2> DEFINE at == GetOffset(new, n - 1)
             off == GetOffset(col, (begin + n) - 1)
  <2>1. /\ n \in 1 .. Len(new.offsets) /\ begin + n \in 1 .. Len(col.offsets)
        /\ n - 1 \in 0 .. size /\ begin + (n - 1) = (begin + n) - 1
    BY <1>9, Components
  <2>2. at = off - first
    BY <1>10, <2>1, Zenon
  <2>3. /\ off \in Nat /\ GetSize(col, begin + n) \in Nat
        /\ off + GetSize(col, begin + n) = GetOffset(col, begin + n)
    BY <2>1, Place, Zenon
  <2>4. new.offsets[n] = GetOffset(col, begin + n) - first
    BY <1>6, <1>9, Zenon
  <2>5. GetSize(new, n) = GetSize(col, begin + n)
    <3>1. GetSize(new, n) = (GetOffset(col, begin + n) - first) - at
      BY <2>4, Zenon DEF GetSize
    <3> HIDE DEF at, off
    <3> QED BY <1>2, <2>2, <2>3, <3>1
  <2>6. first <= off
    BY <1>1, <2>1, Zenon
  <2>7. GetOffset(col, begin + n) <= first + len
    <3>1. begin + n \in 0 .. Len(col.offsets) /\ begin + size \in 0 .. Len(col.offsets)
          /\ begin + n <= begin + size
      BY Components
    <3> QED BY <1>2, <3>1, Zenon DEF Whole
  <2> HIDE DEF at, off
  <2>8. ASSUME NEW j \in 1 .. GetSize(col, begin + n)
        PROVE  /\ new.keys[at + j] = col.keys[off + j]
               /\ new.nulls[at + j] = col.nulls[off + j]
               /\ new.values[at + j] = col.values[off + j]
    <3>1. at + j \in 1 .. len /\ first + (at + j) = off + j
      <4>1. GetOffset(col, begin + n) \in Nat /\ off + j <= GetOffset(col, begin + n)
        BY <2>3
      <4> QED BY <1>2, <2>2, <2>3, <2>6, <2>7, <4>1
    <3> QED BY <1>4, <1>9, <3>1, Zenon
  <2> QED BY <1>8, <1>11, <2>1, <2>5, <2>8, EqualRows, Zenon DEF at, off
<1> DEFINE all == Contents(col)
<1>13. /\ all \in Seq(Row) /\ Len(all) = Len(col.offsets)
       /\ \A n \in 1 .. Len(col.offsets) : all[n] = RowAt(col, n)
  BY ContentsAre, Zenon
<1>14. /\ Contents(new) \in Seq(Row) /\ Len(Contents(new)) = size
       /\ \A n \in 1 .. size : Contents(new)[n] = RowAt(new, n)
  BY <1>8, <1>9, <1>11, ContentsAre, Zenon
<1> HIDE DEF all
<1>15. Rows!MinOf(begin + size, Len(all)) = begin + size
  BY <1>13, Components, Zenon DEF Rows!MinOf
<1>16. /\ SubSeq(all, begin + 1, begin + size) \in Seq(Row)
       /\ Len(SubSeq(all, begin + 1, begin + size)) = size
       /\ \A n \in 1 .. size : SubSeq(all, begin + 1, begin + size)[n] = all[begin + n]
  <2>1. begin + size <= Len(all)
    BY <1>13, Zenon
  <2> QED BY <1>13, <2>1, Part, Zenon
<1>17. ASSUME NEW n \in 1 .. size
       PROVE  Contents(new)[n] = SubSeq(all, begin + 1, begin + size)[n]
  <2>1. begin + n \in 1 .. Len(col.offsets)
    BY Components
  <2> QED BY <1>12, <1>13, <1>14, <1>16, <2>1, Zenon
<1>18. Contents(new) = SubSeq(all, begin + 1, begin + size)
  BY <1>14, <1>16, <1>17, SameSeq
<1> QED BY <1>8, <1>11, <1>15, <1>18, Zenon DEF new, all

-----------------------------------------------------------------------------
(* Column bodies.                                                          *)

(* A sequence that follows another one is found behind it.                 *)
LEMMA Behind ==
    ASSUME NEW S, NEW s \in Seq(S), NEW t \in Seq(S)
    PROVE  SubSeq(s \o t, Len(s) + 1, Len(s) + Len(t)) = t
OBVIOUS

\* One after the other, with the last three as long as each other, sequences
\* can be told apart by the length of the first two.
Told(S, a, b, c, d) ==
    LET s == a \o b \o c \o d
        r == Len(a)
        m == Len(b)
    IN  /\ s \in Seq(S) /\ Len(s) = r + 3 * m
        /\ SubSeq(s, 1, r) = a
        /\ SubSeq(s, r + 1, r + m) = b
        /\ SubSeq(s, r + m + 1, r + 2 * m) = c
        /\ SubSeq(s, r + 2 * m + 1, r + 3 * m) = d
        /\ \A i \in 1 .. r : s[i] = a[i]

(* The parts of a body, each of which tells where the next begins.         *)
LEMMA FourParts ==
    ASSUME NEW S, NEW a \in Seq(S), NEW b \in Seq(S), NEW c \in Seq(S), NEW d \in Seq(S),
           Len(c) = Len(b), Len(d) = Len(b)
    PROVE  Told(S, a, b, c, d)
<1> DEFINE r == Len(a)
           m == Len(b)
           ab == a \o b
           abc == ab \o c
           s == abc \o d
<1>1. r \in Nat /\ m \in Nat /\ 0 \in Nat /\ r + m \in Nat
  OBVIOUS
<1>2. ab \in Seq(S) /\ Len(ab) = Len(a) + Len(b) /\ \A i \in 1 .. Len(a) : ab[i] = a[i]
  <2>1. a \in Seq(S) /\ b \in Seq(S)
    BY Zenon
  <2>2. ab \in Seq(S)
    BY <2>1, Joined, Zenon
  <2>3. Len(ab) = Len(a) + Len(b)
    BY <2>1, Joined, Zenon
  <2>4. \A i \in 1 .. Len(a) : ab[i] = a[i]
    BY <2>1, Joined, Zenon
  <2> QED BY <2>2, <2>3, <2>4, Zenon
<1>3. SubSeq(ab, r + 1, r + m) = b
  BY Behind, Zenon
<1>14. SubSeq(ab, 0 + 1, 0 + r) = a
  OBVIOUS
<1> HIDE DEF ab
<1>4. abc \in Seq(S) /\ Len(abc) = Len(ab) + Len(c) /\ \A i \in 1 .. Len(ab) : abc[i] = ab[i]
  <2>1. ab \in Seq(S) /\ c \in Seq(S)
    BY <1>2, Zenon
  <2>2. abc \in Seq(S)
    BY <2>1, Joined, Zenon
  <2>3. Len(abc) = Len(ab) + Len(c)
    BY <2>1, Joined, Zenon
  <2>4. \A i \in 1 .. Len(ab) : abc[i] = ab[i]
    BY <2>1, Joined, Zenon
  <2> QED BY <2>2, <2>3, <2>4, Zenon
<1> HIDE DEF r, m
<1>5. /\ Len(a) = r /\ Len(ab) = r + m /\ Len(abc) = r + 2 * m
      /\ Len(c) = m /\ Len(d) = m
  <2>1. Len(a) = r /\ Len(b) = m /\ Len(c) = m /\ Len(d) = m
    BY Zenon DEF r, m
  <2> HIDE DEF abc
  <2> QED BY <1>1, <1>2, <1>4, <2>1
<1>6. SubSeq(abc, r + m + 1, r + 2 * m) = c
  <2>1. SubSeq(abc, Len(ab) + 1, Len(ab) + Len(c)) = c
    BY <1>2, Behind, Zenon
  <2>2. (r + m) + m = r + 2 * m
    BY <1>1
  <2> QED BY <1>5, <2>1, <2>2, Zenon
<1>7. /\ SubSeq(abc, r + 1, r + m) = SubSeq(ab, r + 1, r + m)
      /\ SubSeq(abc, 0 + 1, 0 + r) = SubSeq(ab, 0 + 1, 0 + r)
  <2>1. r + m <= Len(ab) /\ 0 + r <= Len(ab)
    BY <1>1, <1>5
  <2>2. SubSeq(abc, r + 1, r + m) = SubSeq(ab, r + 1, r + m)
    BY <1>1, <1>2, <2>1
  <2>3. SubSeq(abc, 0 + 1, 0 + r) = SubSeq(ab, 0 + 1, 0 + r)
    BY <1>1, <1>2, <2>1
  <2> QED BY <2>2, <2>3, Zenon
<1> HIDE DEF abc
<1>8. s \in Seq(S) /\ Len(s) = Len(abc) + Len(d) /\ \A i \in 1 .. Len(abc) : s[i] = abc[i]
  <2>1. abc \in Seq(S) /\ d \in Seq(S)
    BY <1>4, Zenon
  <2>2. s \in Seq(S)
    BY <2>1, Joined, Zenon
  <2>3. Len(s) = Len(abc) + Len(d)
    BY <2>1, Joined, Zenon
  <2>4. \A i \in 1 .. Len(abc) : s[i] = abc[i]
    BY <2>1, Joined, Zenon
  <2> QED BY <2>2, <2>3, <2>4, Zenon
<1>9. SubSeq(s, r + 2 * m + 1, r + 3 * m) = d
  <2>1. SubSeq(s, Len(abc) + 1, Len(abc) + Len(d)) = d
    BY <1>4, Behind, Zenon
  <2>2. (r + 2 * m) + m = r + 3 * m
    BY <1>1
  <2> QED BY <1>5, <2>1, <2>2, Zenon
<1>10. /\ SubSeq(s, (r + m) + 1, (r + m) + m) = SubSeq(abc, (r + m) + 1, (r + m) + m)
       /\ SubSeq(s, r + 1, r + m) = SubSeq(abc, r + 1, r + m)
       /\ SubSeq(s, 0 + 1, 0 + r) = SubSeq(abc, 0 + 1, 0 + r)
  <2>1. (r + m) + m <= Len(abc) /\ r + m <= Len(abc) /\ 0 + r <= Len(abc)
    BY <1>1, <1>5
  <2>2. SubSeq(s, (r + m) + 1, (r + m) + m) = SubSeq(abc, (r + m) + 1, (r + m) + m)
    BY <1>1, <1>4, <2>1
  <2>3. SubSeq(s, r + 1, r + m) = SubSeq(abc, r + 1, r + m)
    BY <1>1, <1>4, <2>1
  <2>4. SubSeq(s, 0 + 1, 0 + r) = SubSeq(abc, 0 + 1, 0 + r)
    BY <1>1, <1>4, <2>1
  <2> QED BY <2>2, <2>3, <2>4, Zenon
<1> HIDE DEF s
<1>11. /\ SubSeq(s, r + m + 1, r + 2 * m) = c
       /\ SubSeq(s, r + 1, r + m) = b
       /\ SubSeq(s, 1, r) = a
  <2>1. (r + m) + m = r + 2 * m /\ 0 + 1 = 1 /\ 0 + r = r
    BY <1>1
  <2> QED BY <1>3, <1>14, <1>6, <1>7, <1>10, <2>1, Zenon
<1>12. \A i \in 1 .. r : s[i] = a[i]
  <2>1. \A i \in 1 .. r : i \in 1 .. r + m /\ i \in 1 .. r + 2 * m
    BY <1>1
  <2> QED BY <1>2, <1>4, <1>5, <1>8, <2>1, Zenon
<1>13. Len(s) = r + 3 * m
  BY <1>1, <1>5, <1>8
<1> QED BY <1>8, <1>9, <1>11, <1>12, <1>13, Zenon DEF s, abc, ab, r, m, Told

(* A body read back, with the number of its rows only, is the column it    *)
(* was written from, and ends where it ends.                               *)
LEMMA BodyLoaded ==
    ASSUME NEW col \in Column, Tight(col)
    PROVE  /\ Body(col) \in [rows : Nat, cells : Seq(Nat \cup Keys \cup Values)]
           /\ Len(Body(col).cells) = Body(col).rows + 3 * NestedRows(Body(col))
           /\ Loaded(Body(col)) = col
<1> DEFINE S == Nat \cup Keys \cup Values
           r == Len(col.offsets)
           m == GetOffset(col, r)
           s == col.offsets \o col.keys \o col.nulls \o col.values
<1>1. /\ col.offsets \in Seq(S) /\ col.keys \in Seq(S)
      /\ col.nulls \in Seq(S) /\ col.values \in Seq(S)
  <2>1. \A T : T \in SUBSET S => Seq(T) \subseteq Seq(S)
    <3> HIDE DEF S
    <3> QED OBVIOUS
  <2>2. Nat \subseteq S /\ Keys \subseteq S /\ {0, 1} \subseteq S /\ Values \subseteq S
    OBVIOUS
  <2> HIDE DEF S
  <2> QED BY <2>1, <2>2, Components, Zenon
<1>2. r \in Nat /\ m \in Nat
  BY Components, Offsets
<1>3. Len(col.keys) = m /\ Len(col.nulls) = m /\ Len(col.values) = m
  BY Zenon DEF Tight, Whole
<1>4. /\ s \in Seq(S) /\ Len(s) = r + 3 * m
      /\ SubSeq(s, 1, r) = col.offsets
      /\ SubSeq(s, r + 1, r + m) = col.keys
      /\ SubSeq(s, r + m + 1, r + 2 * m) = col.nulls
      /\ SubSeq(s, r + 2 * m + 1, r + 3 * m) = col.values
      /\ \A i \in 1 .. r : s[i] = col.offsets[i]
  <2> DEFINE a == col.offsets  b == col.keys  c == col.nulls  d == col.values
  <2>1. /\ a \in Seq(S) /\ b \in Seq(S) /\ c \in Seq(S) /\ d \in Seq(S)
        /\ Len(b) = m /\ Len(c) = Len(b) /\ Len(d) = Len(b)
    BY <1>1, <1>3, Zenon
  <2> HIDE DEF S, m, a, b, c, d
  <2>2. Told(S, a, b, c, d)
    BY <2>1, FourParts, Zenon
  <2> QED BY <2>1, <2>2, Zenon DEF a, b, c, d, Told
<1>5. Body(col) = [rows |-> r, cells |-> s]
  <2>1. CASE DataSize(col) > 0
    BY <2>1, Zenon DEF Body
  <2>2. CASE ~(DataSize(col) > 0)
    <3>1. m = 0
      BY <1>2, <1>3, <2>2 DEF DataSize
    <3>2. SubSeq(s, 1, r) = s
      <4> HIDE DEF s, r, S, m
      <4>1. Len(s) = r
        BY <1>2, <1>4, <3>1
      <4> QED BY <1>4, <4>1
    <3>3. s = col.offsets
      BY <1>4, <3>2, Zenon
    <3> QED BY <2>2, <3>3, Zenon DEF Body
  <2> QED BY <2>1, <2>2, Zenon
<1>6. NestedRows(Body(col)) = m
  <2>1. NestedRows(Body(col)) = IF r = 0 THEN 0 ELSE s[r]
    <3> HIDE DEF s, r
    <3>1. Body(col).rows = r /\ Body(col).cells = s
      BY <1>5
    <3> QED BY <3>1, Zenon DEF NestedRows
  <2>2. CASE r = 0
    BY <2>1, <2>2, Zenon DEF GetOffset
  <2>3. CASE r # 0
    <3>1. r \in 1 .. r
      BY <1>2, <2>3
    <3>2. s[r] = col.offsets[r]
      BY <1>4, <3>1, Zenon
    <3> QED BY <2>1, <2>3, <3>2, Zenon DEF GetOffset
  <2> QED BY <2>2, <2>3, Zenon
<1>7. Loaded(Body(col)) = [offsets |-> col.offsets, keys |-> col.keys,
                           nulls |-> col.nulls, values |-> col.values]
  <2> HIDE DEF s, m, r, S
  <2>1. Body(col).rows = r /\ Body(col).cells = s
    BY <1>5
  <2> QED BY <1>4, <1>6, <2>1, Zenon DEF Loaded
<1>8. col = [offsets |-> col.offsets, keys |-> col.keys,
             nulls |-> col.nulls, values |-> col.values]
  BY Zenon DEF Column
<1>9. Loaded(Body(col)) = col
  BY <1>7, <1>8, Zenon
<1>10. /\ Body(col) \in [rows : Nat, cells : Seq(S)]
       /\ Len(Body(col).cells) = Body(col).rows + 3 * NestedRows(Body(col))
  <2> HIDE DEF s, m, r, S
  <2> QED BY <1>2, <1>4, <1>5, <1>6
<1> QED BY <1>9, <1>10, Zenon

-----------------------------------------------------------------------------
(* What the server sends.                                                  *)

(* The column that the server sends holds the rows it means.               *)
LEMMA ColumnSent ==
    ASSUME NEW sent \in Seq(Row), NEW col \in Column, Encodes(col, sent)
    PROVE  Tight(col) /\ Contents(col) = sent
<1> DEFINE N == Len(sent)
           At(x) == <<col.keys[x], NullableAt(col, x)>>
<1>1. N \in Nat /\ Len(col.keys) \in Nat
  BY DEF Column
<1>2. /\ Len(col.offsets) = N
      /\ \A m, n \in 0 .. N : m <= n => GetOffset(col, m) <= GetOffset(col, n)
      /\ Len(col.keys) = GetOffset(col, N) /\ Len(col.nulls) = GetOffset(col, N)
      /\ Len(col.values) = GetOffset(col, N)
      /\ \A n \in 1 .. N : /\ GetSize(col, n) = Len(sent[n])
                           /\ \A j \in 1 .. Len(sent[n]) :
                                sent[n][j] = At(GetOffset(col, n - 1) + j)
  BY Zenon DEF Encodes
<1> HIDE DEF At
<1>3. Tight(col)
  <2>1. Len(col.keys) <= Len(col.keys)
    BY <1>1
  <2> QED BY <1>2, <2>1, Zenon DEF Tight, Whole
<1>4. ASSUME NEW n \in 1 .. N
      PROVE  RowAt(col, n) = sent[n]
  <2> DEFINE p == RowAt(col, n)
             t == sent[n]
  <2>1. Whole(col) /\ n \in 1 .. Len(col.offsets)
    BY <1>2, <1>3, Zenon DEF Tight
  <2>2. /\ p = [j \in 1 .. GetSize(col, n) |-> At(GetOffset(col, n - 1) + j)]
        /\ p \in Row /\ Len(p) = GetSize(col, n)
    BY <2>1, RowIs, Zenon DEF At
  <2>3. t \in Row
    OBVIOUS
  <2> HIDE DEF p, t
  <2>4. Len(p) = Len(t) /\ \A j \in 1 .. Len(p) : p[j] = t[j]
    BY <1>2, <2>2, Zenon DEF t
  <2>5. p \in Seq(Entry) /\ t \in Seq(Entry)
    BY <2>2, <2>3, Zenon DEF Row
  <2>6. p = t
    BY <2>4, <2>5, SameSeq, Zenon
  <2> QED BY <2>6, Zenon DEF p, t
<1>5. /\ Contents(col) \in Seq(Row) /\ Len(Contents(col)) = N
      /\ \A n \in 1 .. N : Contents(col)[n] = RowAt(col, n)
  BY <1>2, <1>3, ContentsAre, Zenon DEF Tight
<1> DEFINE all == Contents(col)
<1>6. all \in Seq(Row) /\ Len(all) = Len(sent) /\ \A n \in 1 .. Len(all) : all[n] = sent[n]
  BY <1>4, <1>5, Zenon
<1> HIDE DEF all, N
<1>7. all = sent
  BY <1>6, SameSeq, Zenon
<1> QED BY <1>3, <1>7, Zenon DEF all

-----------------------------------------------------------------------------
(* The steps.                                                              *)

(* The jobs are told apart by their operation.                             *)
LEMMA JobIs ==
    ASSUME job \in Job
    PROVE  /\ Ready <=> job.op = "none"
           /\ job.op = "AppendItem" => job \in [op : {"AppendItem"}, to : Cols, row : Inputs, next : Nat]
           /\ job.op = "Append" => job \in [op : {"Append"}, to : Cols, from : Cols, next : Nat]
           /\ job.op \in {"none", "AppendItem", "Append"}
BY DEF Job, NoJob, Ready

(* Between calls a column is tight unless it is torn, and reads back.      *)
LEMMA AtRest ==
    ASSUME IInv, Ready, NEW c \in Cols
    PROVE  /\ cols[c] \in Column /\ Whole(cols[c])
           /\ c \notin torn => Tight(cols[c])
           /\ rows[c] \in Seq(Row) /\ Contents(cols[c]) = rows[c]
<1>1. job.op # "AppendItem" /\ job.op # "Append"
  BY Zenon DEF Ready, NoJob
<1>2. cols[c] \in Column /\ rows[c] \in Seq(Row)
  BY Zenon DEF IInv, Types
<1>3. Whole(cols[c]) /\ (c \in torn \/ Tight(cols[c]))
  BY <1>1, Zenon DEF IInv, Parts
<1>4. Contents(cols[c]) = rows[c]
  BY <1>1, Zenon DEF IInv, Held
<1> QED BY <1>2, <1>3, <1>4, Zenon

(* A column that reads back takes the place of another one.                *)
LEMMA Replaced ==
    ASSUME IInv, Ready, job' = job, NEW d \in Cols, NEW new \in Column, Tight(new),
           NEW r \in Seq(Row), Contents(new) = r,
           cols' = [cols EXCEPT ![d] = new], rows' = [rows EXCEPT ![d] = r],
           torn' = torn \ {d}
    PROVE  Types' /\ Parts' /\ Progress' /\ Held'
<1>1. job'.op # "AppendItem" /\ job'.op # "Append"
  BY Zenon DEF Ready, NoJob
<1>2. Types'
  BY Zenon DEF IInv, Types, Job
<1>3. /\ cols'[d] = new /\ rows'[d] = r
      /\ \A c \in Cols : c # d => cols'[c] = cols[c] /\ rows'[c] = rows[c]
  BY Zenon DEF IInv, Types
<1>4. Whole(new)
  BY Zenon DEF Tight
<1>5. Parts'
  <2> SUFFICES ASSUME NEW c \in Cols PROVE Whole(cols'[c]) /\ (c \in torn' \/ Tight(cols'[c]))
    BY Zenon DEF Parts
  <2>1. CASE c = d
    BY <1>3, <1>4, <2>1, Zenon
  <2>2. CASE c # d
    <3>1. Whole(cols[c]) /\ (c \notin torn => Tight(cols[c]))
      BY AtRest, Zenon
    <3>2. c \notin torn' => c \notin torn
      BY <2>2, Zenon
    <3> QED BY <1>3, <2>2, <3>1, <3>2, Zenon
  <2> QED BY <2>1, <2>2, Zenon
<1>6. Progress'
  BY <1>1, Zenon DEF Progress
<1>7. Held'
  <2> SUFFICES ASSUME NEW c \in Cols PROVE Contents(cols'[c]) = rows'[c]
    BY <1>1 DEF Held
  <2>1. CASE c = d
    BY <1>3, <2>1, Zenon
  <2>2. CASE c # d
    BY <1>3, <2>2, AtRest, Zenon
  <2> QED BY <2>1, <2>2, Zenon
<1> QED BY <1>2, <1>5, <1>6, <1>7, Zenon

(* What was written stays while the stream does.                           *)
LEMMA WrittenStays ==
    ASSUME Written, UNCHANGED <<stream, wire>>
    PROVE  Written'
BY Zenon DEF Written

(* A body that is written reads back.                                      *)
LEMMA BodyWritten ==
    ASSUME NEW col \in Column, Tight(col), stream' = Body(col), wire' = Contents(col)
    PROVE  Written'
<1>1. /\ Body(col) \in [rows : Nat, cells : Seq(Nat \cup Keys \cup Values)]
      /\ Len(Body(col).cells) = Body(col).rows + 3 * NestedRows(Body(col))
      /\ Loaded(Body(col)) = col
  BY BodyLoaded, Zenon
<1> QED BY <1>1, Zenon DEF Written

(* A new column is empty.                                                  *)
LEMMA NewIsEmpty == NewColumn \in Column /\ Tight(NewColumn) /\ Contents(NewColumn) = <<>>
<1>1. NewColumn \in Column
  BY DEF NewColumn, Column
<1>2. NewColumn.offsets = <<>> /\ NewColumn.keys = <<>> /\ NewColumn.nulls = <<>> /\ NewColumn.values = <<>>
  BY Zenon DEF NewColumn
<1>3. Len(NewColumn.offsets) = 0 /\ Len(NewColumn.keys) = 0
  BY <1>2, Zenon
<1>4. Len(NewColumn.nulls) = 0 /\ Len(NewColumn.values) = 0
  BY <1>2, Zenon
<1>5. GetOffset(NewColumn, 0) = 0
  BY Zenon DEF GetOffset
<1>6. \A n \in 0 .. 0 : n = 0
  OBVIOUS
<1>7. 0 <= 0
  OBVIOUS
<1>8. Whole(NewColumn)
  BY <1>3, <1>4, <1>5, <1>6, <1>7, Zenon DEF Whole
<1>9. Tight(NewColumn)
  BY <1>3, <1>4, <1>5, <1>8, Zenon DEF Tight
<1>10. Contents(NewColumn) \in Seq(Row) /\ Len(Contents(NewColumn)) = 0
  BY <1>1, <1>3, <1>8, ContentsAre, Zenon
<1>11. Contents(NewColumn) = <<>>
  <2> DEFINE s == Contents(NewColumn)
  <2> HIDE DEF s
  <2>1. s \in Seq(Row) /\ Len(s) = 0
    BY <1>10, Zenon DEF s
  <2>2. s = <<>>
    BY <2>1
  <2> QED BY <2>2, Zenon DEF s
<1> QED BY <1>1, <1>9, <1>11, Zenon

(* The columns are empty at first, and nothing was written.                *)
LEMMA InitStep == Init => IInv
<1> SUFFICES ASSUME Init PROVE IInv
  BY Zenon
<1>1. /\ cols = [c \in Cols |-> NewColumn] /\ rows = [c \in Cols |-> <<>>]
      /\ stream = Body(NewColumn) /\ wire = <<>> /\ job = NoJob /\ torn = {}
  BY Zenon DEF Init, Rows!Init
<1>2. job.op # "AppendItem" /\ job.op # "Append"
  BY <1>1, Zenon DEF NoJob
<1>3. /\ NewColumn \in Column /\ Tight(NewColumn) /\ Contents(NewColumn) = <<>>
      /\ Whole(NewColumn)
  BY NewIsEmpty, Zenon DEF Tight
<1>4. Types
  <2>1. cols \in [Cols -> Column] /\ rows \in [Cols -> Seq(Row)]
    BY <1>1, <1>3
  <2> QED BY <1>1, <2>1, Zenon DEF Types, Job
<1>5. Parts
  BY <1>1, <1>3, Zenon DEF Parts
<1>6. Progress
  BY <1>2, Zenon DEF Progress
<1>7. Held
  BY <1>1, <1>2, <1>3, Zenon DEF Held
<1>8. Written
  <2>1. /\ Body(NewColumn) \in [rows : Nat, cells : Seq(Nat \cup Keys \cup Values)]
        /\ Len(Body(NewColumn).cells) = Body(NewColumn).rows + 3 * NestedRows(Body(NewColumn))
        /\ Loaded(Body(NewColumn)) = NewColumn
    BY <1>3, BodyLoaded, Zenon
  <2> QED BY <1>1, <1>3, <2>1, Zenon DEF Written
<1> QED BY <1>4, <1>5, <1>6, <1>7, <1>8, Zenon DEF IInv

(* ColumnArray::Slice.                                                     *)
LEMMA SliceStep ==
    ASSUME IInv, NEW c \in Cols, NEW d \in Cols, NEW begin \in 0 .. MaxRows,
           NEW size \in 0 .. MaxRows, Slice(c, d, begin, size)
    PROVE  IInv'
<1> DEFINE new == Sliced(cols[c], begin, size)
           all == Contents(cols[c])
           r == SubSeq(rows[c], begin + 1, Rows!MinOf(begin + size, Len(rows[c])))
<1>1. begin \in Nat /\ size \in Nat
  BY MapColumnAssumption
<1>2. /\ Ready /\ begin + size <= Len(cols[c].offsets) /\ job' = job
      /\ cols' = [cols EXCEPT ![d] = new] /\ rows' = [rows EXCEPT ![d] = r]
      /\ torn' = torn \ {d} /\ UNCHANGED <<stream, wire>>
  BY Zenon DEF Slice, Rows!Slice, Rows!Keep, Rows!Sliced, Size
<1>3. cols[c] \in Column /\ Whole(cols[c]) /\ all = rows[c] /\ rows[c] \in Seq(Row)
  BY <1>2, AtRest, Zenon
<1>4. /\ new \in Column /\ Tight(new)
      /\ Contents(new) = SubSeq(all, begin + 1, Rows!MinOf(begin + size, Len(all)))
  BY <1>1, <1>2, <1>3, SliceOf, Zenon
<1>5. Contents(new) = r
  BY <1>3, <1>4, Zenon
<1>6. Contents(new) \in Seq(Row)
  BY <1>4, ContentsAre, Zenon DEF Tight
<1>7. Types' /\ Parts' /\ Progress' /\ Held'
  <2> HIDE DEF new, r
  <2> QED BY <1>2, <1>4, <1>5, <1>6, Replaced, Zenon
<1>8. Written'
  BY <1>2, WrittenStays, Zenon DEF IInv
<1> QED BY <1>7, <1>8, Zenon DEF IInv

(* ColumnArray::Clear.                                                     *)
LEMMA ClearStep ==
    ASSUME IInv, NEW c \in Cols, Clear(c)
    PROVE  IInv'
<1>1. /\ Ready /\ job' = job
      /\ cols' = [cols EXCEPT ![c] = NewColumn] /\ rows' = [rows EXCEPT ![c] = <<>>]
      /\ torn' = torn \ {c} /\ UNCHANGED <<stream, wire>>
  BY Zenon DEF Clear, Rows!Clear
<1>2. <<>> \in Seq(Row)
  OBVIOUS
<1>3. Types' /\ Parts' /\ Progress' /\ Held'
  BY <1>1, <1>2, NewIsEmpty, Replaced, Zenon
<1>4. Written'
  BY <1>1, WrittenStays, Zenon DEF IInv
<1> QED BY <1>3, <1>4, Zenon DEF IInv

(* ColumnArray::LoadBody, into a new column.                               *)
LEMMA LoadStep ==
    ASSUME IInv, NEW c \in Cols, LoadBody(c)
    PROVE  IInv'
<1> DEFINE new == Loaded(stream)
<1>1. /\ Ready /\ job' = job
      /\ cols' = [cols EXCEPT ![c] = new] /\ rows' = [rows EXCEPT ![c] = wire]
      /\ torn' = torn \ {c} /\ stream' = Body(NewColumn) /\ wire' = <<>>
  BY Zenon DEF LoadBody, Rows!Load
<1>2. new \in Column /\ Tight(new) /\ Contents(new) = wire
  BY Zenon DEF IInv, Written
<1>3. wire \in Seq(Row)
  <2>1. Contents(new) \in Seq(Row)
    BY <1>2, ContentsAre, Zenon DEF Tight
  <2> QED BY <1>2, <2>1, Zenon
<1>4. Types' /\ Parts' /\ Progress' /\ Held'
  <2> HIDE DEF new
  <2> QED BY <1>1, <1>2, <1>3, Replaced, Zenon
<1>5. Written'
  BY <1>1, NewIsEmpty, BodyWritten, Zenon
<1> QED BY <1>4, <1>5, Zenon DEF IInv

(* While no column changes and none is being appended to, only what was    *)
(* written may differ.                                                     *)
LEMMA ColumnsStay ==
    ASSUME IInv, Ready, UNCHANGED <<cols, job, torn, rows>>
    PROVE  Types' /\ Parts' /\ Progress' /\ Held'
<1>1. job.op # "AppendItem" /\ job.op # "Append" /\ job' = job
  BY Zenon DEF Ready, NoJob
<1>2. Types'
  BY Zenon DEF IInv, Types, Job
<1>3. Parts'
  BY Zenon DEF IInv, Parts
<1>4. Progress'
  BY <1>1, Zenon DEF Progress
<1>5. Held'
  BY Zenon DEF IInv, Held
<1> QED BY <1>2, <1>3, <1>4, <1>5, Zenon

(* ColumnArray::SaveBody.                                                  *)
LEMMA SaveStep ==
    ASSUME IInv, NEW c \in Cols, SaveBody(c)
    PROVE  IInv'
<1>1. /\ Ready /\ c \notin torn /\ stream' = Body(cols[c]) /\ wire' = rows[c]
      /\ UNCHANGED <<cols, job, torn, rows>>
  BY Zenon DEF SaveBody, Rows!Save
<1>2. cols[c] \in Column /\ Tight(cols[c]) /\ Contents(cols[c]) = rows[c]
  BY <1>1, AtRest, Zenon
<1>3. Written'
  BY <1>1, <1>2, BodyWritten, Zenon
<1>4. Types' /\ Parts' /\ Progress' /\ Held'
  BY <1>1, ColumnsStay, Zenon
<1> QED BY <1>3, <1>4, Zenon DEF IInv

(* The server sends a column.                                              *)
LEMMA SendStep ==
    ASSUME IInv, NEW sent \in Sent, ServerSends(sent)
    PROVE  IInv'
<1> DEFINE col == sent.column
<1>1. /\ Ready /\ stream' = Body(col) /\ wire' = sent.rows
      /\ UNCHANGED <<cols, job, torn, rows>>
  BY Zenon DEF ServerSends, Rows!Receive
<1>2. sent.rows \in Seq(Row) /\ col \in Column /\ Encodes(col, sent.rows)
  BY SentAssumption, Zenon DEF Row, Entry
<1>3. col \in Column /\ Tight(col) /\ Contents(col) = sent.rows
  BY <1>2, ColumnSent, Zenon
<1>4. Written'
  BY <1>1, <1>3, BodyWritten, Zenon
<1>5. Types' /\ Parts' /\ Progress' /\ Held'
  BY <1>1, ColumnsStay, Zenon
<1> QED BY <1>4, <1>5, Zenon DEF IInv

(* ColumnArray::Swap.                                                      *)
LEMMA SwapStep ==
    ASSUME IInv, NEW c \in Cols, NEW d \in Cols, Swap(c, d)
    PROVE  IInv'
<1> DEFINE other(x) == IF x = c THEN d ELSE IF x = d THEN c ELSE x
<1>1. /\ Ready /\ job' = job /\ UNCHANGED <<stream, wire>>
      /\ cols' = [cols EXCEPT ![c] = cols[d], ![d] = cols[c]]
      /\ rows' = [rows EXCEPT ![c] = rows[d], ![d] = rows[c]]
      /\ torn' = (torn \ {c, d}) \cup (IF c \in torn THEN {d} ELSE {})
                                 \cup (IF d \in torn THEN {c} ELSE {})
  BY Zenon DEF Swap, Rows!Swap
<1>2. \A x \in Cols : other(x) \in Cols
  BY Zenon
<1>3. \A x \in Cols : cols'[x] = cols[other(x)] /\ rows'[x] = rows[other(x)]
  BY <1>1, Zenon DEF IInv, Types
<1>4. \A x \in Cols : x \in torn' <=> other(x) \in torn
  BY <1>1, Zenon
<1> HIDE DEF other
<1>5. job'.op # "AppendItem" /\ job'.op # "Append"
  BY <1>1, Zenon DEF Ready, NoJob
<1>6. Types'
  BY <1>1, Zenon DEF IInv, Types, Job
<1>7. Parts'
  <2> SUFFICES ASSUME NEW x \in Cols PROVE Whole(cols'[x]) /\ (x \in torn' \/ Tight(cols'[x]))
    BY Zenon DEF Parts
  <2> DEFINE y == other(x)
  <2>1. y \in Cols /\ cols'[x] = cols[y] /\ (x \in torn' <=> y \in torn)
    BY <1>2, <1>3, <1>4, Zenon
  <2> HIDE DEF y
  <2>2. Whole(cols[y]) /\ (y \notin torn => Tight(cols[y]))
    BY <1>1, <2>1, AtRest, Zenon
  <2> QED BY <2>1, <2>2, Zenon
<1>8. Progress'
  BY <1>5, Zenon DEF Progress
<1>9. Held'
  <2> SUFFICES ASSUME NEW x \in Cols PROVE Contents(cols'[x]) = rows'[x]
    BY <1>5, Zenon DEF Held
  <2> DEFINE y == other(x)
  <2>1. y \in Cols /\ cols'[x] = cols[y] /\ rows'[x] = rows[y]
    BY <1>2, <1>3, Zenon
  <2> HIDE DEF y
  <2>2. Contents(cols[y]) = rows[y]
    BY <1>1, <2>1, AtRest, Zenon
  <2> QED BY <2>1, <2>2, Zenon
<1>10. Written'
  BY <1>1, WrittenStays, Zenon DEF IInv
<1> QED BY <1>6, <1>7, <1>8, <1>9, <1>10, Zenon DEF IInv

(* An append of a row begins.                                              *)
LEMMA CallAppendItemStep ==
    ASSUME IInv, NEW c \in Cols, NEW row \in Inputs, CallAppendItem(c, row)
    PROVE  IInv'
<1>1. /\ Ready /\ c \notin torn
      /\ job' = [op |-> "AppendItem", to |-> c, row |-> row, next |-> 1]
      /\ UNCHANGED <<cols, stream, torn, rows, wire>>
  BY Zenon DEF CallAppendItem
<1>2. job'.op = "AppendItem" /\ job'.to = c /\ job'.row = row /\ job'.next = 1
  BY <1>1, Zenon
<1>3. Types'
  <2>1. job' \in Job
    BY <1>1, Zenon DEF Job
  <2> QED BY <1>1, <2>1, Zenon DEF IInv, Types
<1>4. Parts'
  <2>1. \A x \in Cols : Whole(cols[x]) /\ (x \notin torn => Tight(cols[x]))
    BY <1>1, AtRest, Zenon
  <2> QED BY <1>1, <2>1, Zenon DEF Parts
<1>5. Progress'
  <2> DEFINE col == cols[c]
  <2>1. col \in Column /\ Tight(col)
    BY <1>1, AtRest, Zenon
  <2>2. Len(row) \in Nat
    BY MapColumnAssumption
  <2>3. 1 \in 1 .. Len(row) + 1 /\ 1 - 1 = 0
    BY <2>2
  <2>4. Begun(col, row, 0)
    <3> HIDE DEF col
    <3>1. Len(col.offsets) \in 0 .. Len(col.offsets)
      BY <2>1, Components
    <3>2. GetOffset(col, Len(col.offsets)) \in Nat
      BY <2>1, <3>1, Offsets, Zenon
    <3> QED BY <2>1, <3>2 DEF Begun, Tight
  <2>5. job'.op # "Append"
    BY <1>2, Zenon
  <2> QED BY <1>1, <1>2, <2>3, <2>4, <2>5, Zenon DEF Progress
<1>6. Held'
  <2>1. \A x \in Cols : Contents(cols[x]) = rows[x]
    BY <1>1, AtRest, Zenon
  <2>2. job'.op # "Append"
    BY <1>2, Zenon
  <2> QED BY <1>1, <2>1, <2>2, Zenon DEF Held
<1>7. Written'
  BY <1>1, WrittenStays, Zenon DEF IInv
<1> QED BY <1>3, <1>4, <1>5, <1>6, <1>7, Zenon DEF IInv

(* An append of a column begins.                                           *)
LEMMA CallAppendStep ==
    ASSUME IInv, NEW c \in Cols, NEW d \in Cols, CallAppend(c, d)
    PROVE  IInv'
<1>1. /\ Ready /\ c # d /\ c \notin torn
      /\ job' = [op |-> "Append", to |-> c, from |-> d, next |-> 1]
      /\ UNCHANGED <<cols, stream, torn, rows, wire>>
  BY Zenon DEF CallAppend
<1>2. job'.op = "Append" /\ job'.to = c /\ job'.from = d /\ job'.next = 1
  BY <1>1, Zenon
<1>3. Types'
  <2>1. job' \in Job
    BY <1>1, Zenon DEF Job
  <2> QED BY <1>1, <2>1, Zenon DEF IInv, Types
<1>4. Parts'
  <2>1. \A x \in Cols : Whole(cols[x]) /\ (x \notin torn => Tight(cols[x]))
    BY <1>1, AtRest, Zenon
  <2> QED BY <1>1, <2>1, Zenon DEF Parts
<1>5. Progress'
  <2>1. job'.op # "AppendItem"
    BY <1>2, Zenon
  <2>2. 1 \in 1 .. Len(cols[d].offsets) + 1
    <3>1. cols[d] \in Column
      BY <1>1, AtRest, Zenon
    <3> QED BY <3>1, Components
  <2>3. Size(d)' = Len(cols[d].offsets)
    BY <1>1, Zenon DEF Size
  <2> QED BY <1>1, <1>2, <2>1, <2>2, <2>3, Zenon DEF Progress, Size
<1>6. Held'
  <2>1. \A x \in Cols : Contents(cols[x]) = rows[x] /\ rows[x] \in Seq(Row)
    BY <1>1, AtRest, Zenon
  <2>2. SubSeq(rows[d], 1, 1 - 1) = <<>>
    BY <2>1
  <2>3. rows[c] \o <<>> = rows[c]
    BY <2>1
  <2> QED BY <1>1, <1>2, <2>1, <2>2, <2>3, Zenon DEF Held
<1>7. Written'
  BY <1>1, WrittenStays, Zenon DEF IInv
<1> QED BY <1>3, <1>4, <1>5, <1>6, <1>7, Zenon DEF IInv

(* The loop of ColumnArrayT::Append, one entry at a time.                  *)
LEMMA AppendEntryStep ==
    ASSUME IInv, AppendEntry
    PROVE  IInv'
<1> DEFINE c == job.to  row == job.row  n == job.next
           col == cols[c]
           new == AppendTuple(col, row[n])
<1>1. /\ job.op = "AppendItem" /\ n <= Len(row) /\ cols' = [cols EXCEPT ![c] = new]
      /\ job' = IF Refused(row[n]) THEN NoJob ELSE [job EXCEPT !.next = @ + 1]
      /\ torn' = IF LeavesEntries(row, n) THEN torn \cup {c} ELSE torn
      /\ UNCHANGED <<stream, rows, wire>>
  BY Zenon DEF AppendEntry
<1>2. job \in [op : {"AppendItem"}, to : Cols, row : Inputs, next : Nat]
  BY <1>1, JobIs, Zenon DEF IInv, Types
<1>3. c \in Cols /\ row \in Inputs /\ n \in Nat
  BY <1>2, Zenon
<1>4. row \in Seq(Input)
  BY <1>3, MapColumnAssumption, Zenon DEF Input
<1>5. c \notin torn /\ n \in 1 .. Len(row) + 1 /\ Begun(col, row, n - 1)
  BY <1>1, Zenon DEF IInv, Progress
<1>6. Len(row) \in Nat
  BY <1>4
<1>7. n \in 1 .. Len(row) /\ n + 1 \in 1 .. Len(row) + 1 /\ (n + 1) - 1 = n
  <2> HIDE DEF n, row
  <2> QED BY <1>1, <1>5, <1>6
<1>8. col \in Column /\ Whole(col)
  BY <1>3, Zenon DEF IInv, Types, Parts
<1>9. /\ new \in Column /\ Whole(new) /\ Contents(new) = Contents(col)
      /\ ~Refused(row[n]) => Begun(new, row, n)
      /\ Refused(row[n]) /\ ~LeavesEntries(row, n) => Tight(new)
  <2> HIDE DEF n, row, col
  <2> QED BY <1>4, <1>5, <1>7, <1>8, EntryTaken, Zenon
<1>10. LeavesEntries(row, n) => Refused(row[n])
  BY Zenon DEF LeavesEntries
<1>11. ~Refused(row[n]) =>
          /\ job' \in Job /\ job'.op = "AppendItem" /\ job'.to = c /\ job'.row = row
          /\ job'.next = n + 1
  <2> SUFFICES ASSUME ~Refused(row[n])
               PROVE  /\ job' \in Job /\ job'.op = "AppendItem" /\ job'.to = c
                      /\ job'.row = row /\ job'.next = n + 1
    BY Zenon
  <2>1. job' = [job EXCEPT !.next = @ + 1]
    BY <1>1, Zenon
  <2>2. job' = [op |-> "AppendItem", to |-> c, row |-> row, next |-> n + 1]
    BY <1>2, <2>1, Zenon
  <2>3. n + 1 \in Nat
    BY <1>3
  <2> HIDE DEF c, row, n
  <2> QED BY <1>3, <2>2, <2>3, Zenon DEF Job
<1>12. Refused(row[n]) => job' \in Job /\ job'.op = "none"
  BY <1>1, Zenon DEF Job, NoJob
<1> HIDE DEF c, row, n, new
<1>13. /\ cols'[c] = new
       /\ \A x \in Cols : x # c => cols'[x] = cols[x]
  BY <1>1, <1>3, Zenon DEF IInv, Types
<1>14. Types'
  <2>1. cols' \in [Cols -> Column] /\ torn' \subseteq Cols
    BY <1>1, <1>3, <1>9, Zenon DEF IInv, Types
  <2> QED BY <1>1, <1>11, <1>12, <2>1, Zenon DEF IInv, Types
<1>15. Parts'
  <2> SUFFICES ASSUME NEW x \in Cols
               PROVE  /\ Whole(cols'[x])
                      /\ \/ x \in torn' \/ Tight(cols'[x])
                         \/ job'.op = "AppendItem" /\ job'.to = x
    BY Zenon DEF Parts
  <2>1. CASE x # c
    <3>1. Whole(cols[x]) /\ (x \in torn \/ Tight(cols[x]))
      BY <2>1, Zenon DEF IInv, Parts, c
    <3>2. x \in torn => x \in torn'
      BY <1>1, Zenon
    <3> QED BY <1>13, <2>1, <3>1, <3>2, Zenon
  <2>2. CASE x = c
    <3>1. LeavesEntries(row, n) => c \in torn'
      BY <1>1, Zenon
    <3> QED BY <1>9, <1>11, <1>13, <2>2, <3>1, Zenon
  <2> QED BY <2>1, <2>2, Zenon
<1>16. Progress'
  <2>1. CASE Refused(row[n])
    <3>1. job'.op # "AppendItem" /\ job'.op # "Append"
      BY <1>12, <2>1, Zenon
    <3> QED BY <3>1, Zenon DEF Progress
  <2>2. CASE ~Refused(row[n])
    <3>1. job'.op # "Append"
      BY <1>11, <2>2, Zenon
    <3>2. torn' = torn
      BY <1>1, <1>10, <2>2, Zenon
    <3> QED BY <1>5, <1>7, <1>9, <1>11, <1>13, <2>2, <3>1, <3>2, Zenon DEF Progress
  <2> QED BY <2>1, <2>2, Zenon
<1>17. Held'
  <2>1. job'.op # "Append" /\ job.op # "Append"
    BY <1>1, <1>11, <1>12, Zenon
  <2>2. \A x \in Cols : Contents(cols[x]) = rows[x]
    BY <2>1, Zenon DEF IInv, Held
  <2>3. \A x \in Cols : Contents(cols'[x]) = rows'[x]
    BY <1>1, <1>3, <1>9, <1>13, <2>2, Zenon
  <2> QED BY <2>1, <2>3, Zenon DEF Held
<1>18. Written'
  BY <1>1, WrittenStays, Zenon DEF IInv
<1> QED BY <1>14, <1>15, <1>16, <1>17, <1>18, Zenon DEF IInv

(* The row is complete once its offset is written.                         *)
LEMMA AppendItemReturnsStep ==
    ASSUME IInv, AppendItemReturns
    PROVE  IInv'
<1> DEFINE c == job.to  row == job.row  n == job.next
           col == cols[c]
           new == AddOffset(col, Len(row))
<1>1. /\ job.op = "AppendItem" /\ n > Len(row) /\ cols' = [cols EXCEPT ![c] = new]
      /\ rows' = [rows EXCEPT ![c] = Append(@, row)]
      /\ job' = NoJob /\ UNCHANGED <<stream, torn, wire>>
  BY Zenon DEF AppendItemReturns, Rows!AppendItem
<1>2. job \in [op : {"AppendItem"}, to : Cols, row : Inputs, next : Nat]
  BY <1>1, JobIs, Zenon DEF IInv, Types
<1>3. c \in Cols /\ row \in Inputs /\ n \in Nat
  BY <1>2, Zenon
<1>4. row \in Seq(Input)
  BY <1>3, MapColumnAssumption, Zenon DEF Input
<1>5. c \notin torn /\ n \in 1 .. Len(row) + 1 /\ Begun(col, row, n - 1)
  BY <1>1, Zenon DEF IInv, Progress
<1>6. n - 1 = Len(row)
  <2>1. Len(row) \in Nat
    BY <1>4
  <2> HIDE DEF n, row
  <2> QED BY <1>1, <1>5, <2>1
<1>7. col \in Column /\ Whole(col)
  BY <1>3, Zenon DEF IInv, Types, Parts
<1>8. /\ new \in Column /\ Tight(new) /\ row \in Row
      /\ Contents(new) = Append(Contents(col), row)
  <2> HIDE DEF n, row, col
  <2> QED BY <1>4, <1>5, <1>6, <1>7, RowTaken, Zenon
<1>9. job'.op # "AppendItem" /\ job'.op # "Append" /\ job.op # "Append"
  BY <1>1, Zenon DEF NoJob
<1> HIDE DEF c, row, n, new
<1>10. /\ cols'[c] = new /\ rows'[c] = Append(rows[c], row)
       /\ \A x \in Cols : x # c => cols'[x] = cols[x] /\ rows'[x] = rows[x]
  BY <1>1, <1>3, Zenon DEF IInv, Types
<1>11. Types'
  <2>1. rows[c] \in Seq(Row)
    BY <1>3, Zenon DEF IInv, Types
  <2>2. Append(rows[c], row) \in Seq(Row)
    BY <1>8, <2>1
  <2>3. cols' \in [Cols -> Column] /\ rows' \in [Cols -> Seq(Row)]
    BY <1>1, <1>3, <1>8, <2>2 DEF IInv, Types
  <2> QED BY <1>1, <2>3, Zenon DEF IInv, Types, Job
<1>12. Parts'
  <2> SUFFICES ASSUME NEW x \in Cols PROVE Whole(cols'[x]) /\ (x \in torn' \/ Tight(cols'[x]))
    BY Zenon DEF Parts
  <2>1. CASE x # c
    <3>1. Whole(cols[x]) /\ (x \in torn \/ Tight(cols[x]))
      BY <2>1, Zenon DEF IInv, Parts, c
    <3> QED BY <1>1, <1>10, <2>1, <3>1, Zenon
  <2>2. CASE x = c
    BY <1>8, <1>10, <2>2, Zenon DEF Tight
  <2> QED BY <2>1, <2>2, Zenon
<1>13. Progress'
  BY <1>9, Zenon DEF Progress
<1>14. Held'
  <2>1. \A x \in Cols : Contents(cols[x]) = rows[x]
    BY <1>9, Zenon DEF IInv, Held
  <2>2. \A x \in Cols : Contents(cols'[x]) = rows'[x]
    BY <1>3, <1>8, <1>10, <2>1, Zenon
  <2> QED BY <1>9, <2>2, Zenon DEF Held
<1>15. Written'
  BY <1>1, WrittenStays, Zenon DEF IInv
<1> QED BY <1>11, <1>12, <1>13, <1>14, <1>15, Zenon DEF IInv

(* The loop of ColumnArray::Append, one row at a time.                     *)
LEMMA AppendNextStep ==
    ASSUME IInv, AppendNext
    PROVE  IInv'
<1> DEFINE c == job.to  d == job.from  n == job.next
           col == cols[c]
           from == cols[d]
           new == AppendAsColumn(col, GetAsColumn(from, n))
           s == rows[c]
           t == rows[d]
<1>1. /\ job.op = "Append" /\ n <= Len(from.offsets) /\ cols' = [cols EXCEPT ![c] = new]
      /\ job' = [job EXCEPT !.next = @ + 1]
      /\ UNCHANGED <<stream, torn, rows, wire>>
  BY Zenon DEF AppendNext, Size
<1>2. job \in [op : {"Append"}, to : Cols, from : Cols, next : Nat]
  BY <1>1, JobIs, Zenon DEF IInv, Types
<1>3. c \in Cols /\ d \in Cols /\ n \in Nat
  BY <1>2, Zenon
<1>4. c \notin torn /\ c # d /\ n \in 1 .. Len(from.offsets) + 1
  BY <1>1, Zenon DEF IInv, Progress, Size
<1>5. col \in Column /\ from \in Column /\ s \in Seq(Row) /\ t \in Seq(Row)
  BY <1>3, Zenon DEF IInv, Types
<1>6. Whole(from) /\ Tight(col)
  <2>1. job.op # "AppendItem"
    BY <1>1, Zenon
  <2> QED BY <1>3, <1>4, <2>1, Zenon DEF IInv, Parts
<1>7. Contents(col) = s \o SubSeq(t, 1, n - 1) /\ Contents(from) = t
  BY <1>1, <1>3, <1>4, Zenon DEF IInv, Held
<1>8. job'.op = "Append" /\ job'.to = c /\ job'.from = d /\ job'.next = n + 1 /\ job' \in Job
  <2>1. job' = [op |-> "Append", to |-> c, from |-> d, next |-> n + 1]
    BY <1>1, <1>2, Zenon
  <2>2. n + 1 \in Nat
    BY <1>3
  <2> HIDE DEF c, d, n
  <2> QED BY <1>3, <2>1, <2>2, Zenon DEF Job
<1> HIDE DEF c, d, n, col, from, new, s, t
<1>9. Len(from.offsets) \in Nat
  BY <1>5, Components, Zenon
<1>10. n \in 1 .. Len(from.offsets) /\ n + 1 \in 1 .. Len(from.offsets) + 1 /\ (n + 1) - 1 = n
  BY <1>1, <1>4, <1>9
<1>11. /\ new \in Column /\ Tight(new)
       /\ Contents(new) = Append(Contents(col), RowAt(from, n))
  BY <1>5, <1>6, <1>10, ColumnRowTaken, Zenon DEF new
<1>12. RowAt(from, n) = t[n] /\ n \in 1 .. Len(t)
  <2>1. /\ Contents(from) \in Seq(Row) /\ Len(Contents(from)) = Len(from.offsets)
        /\ \A i \in 1 .. Len(from.offsets) : Contents(from)[i] = RowAt(from, i)
    BY <1>5, <1>6, ContentsAre, Zenon
  <2> QED BY <1>7, <1>10, <2>1, Zenon
<1>13. Contents(new) = s \o SubSeq(t, 1, n)
  <2>1. Append(s \o SubSeq(t, 1, n - 1), t[n]) = s \o SubSeq(t, 1, n)
    BY <1>5, <1>12, Further, Zenon
  <2> QED BY <1>7, <1>11, <1>12, <2>1, Zenon
<1>14. /\ cols'[c] = new
       /\ \A x \in Cols : x # c => cols'[x] = cols[x]
  BY <1>1, <1>3, Zenon DEF IInv, Types
<1>15. Types'
  <2>1. cols' \in [Cols -> Column]
    BY <1>1, <1>3, <1>11 DEF IInv, Types
  <2> QED BY <1>1, <1>8, <2>1, Zenon DEF IInv, Types
<1>16. Parts'
  <2> SUFFICES ASSUME NEW x \in Cols PROVE Whole(cols'[x]) /\ (x \in torn' \/ Tight(cols'[x]))
    BY Zenon DEF Parts
  <2>1. CASE x # c
    <3>1. job.op # "AppendItem"
      BY <1>1, Zenon
    <3>2. Whole(cols[x]) /\ (x \in torn \/ Tight(cols[x]))
      BY <3>1, Zenon DEF IInv, Parts
    <3> QED BY <1>1, <1>14, <2>1, <3>2, Zenon
  <2>2. CASE x = c
    BY <1>11, <1>14, <2>2, Zenon DEF Tight
  <2> QED BY <2>1, <2>2, Zenon
<1>17. Progress'
  <2>1. job'.op # "AppendItem"
    BY <1>8, Zenon
  <2>2. cols'[d] = from
    BY <1>3, <1>4, <1>14, Zenon DEF from
  <2> QED BY <1>1, <1>4, <1>8, <1>10, <2>1, <2>2, Zenon DEF Progress, Size
<1>18. Held'
  <2>1. \A x \in Cols : x # c => Contents(cols[x]) = rows[x]
    BY <1>1, Zenon DEF IInv, Held, c
  <2>2. \A x \in Cols : x # c => Contents(cols'[x]) = rows'[x]
    BY <1>1, <1>14, <2>1, Zenon
  <2>3. Contents(cols'[c]) = rows'[c] \o SubSeq(rows'[d], 1, (n + 1) - 1)
    BY <1>1, <1>10, <1>13, <1>14, Zenon DEF s, t
  <2> QED BY <1>8, <2>2, <2>3, Zenon DEF Held
<1>19. Written'
  BY <1>1, WrittenStays, Zenon DEF IInv
<1> QED BY <1>15, <1>16, <1>17, <1>18, <1>19, Zenon DEF IInv

(* An append of a column is over once the loop is.                         *)
LEMMA AppendReturnsStep ==
    ASSUME IInv, AppendReturns
    PROVE  IInv'
<1> DEFINE c == job.to  d == job.from  n == job.next
           from == cols[d]
           s == rows[c]
           t == rows[d]
<1>1. /\ job.op = "Append" /\ n > Len(from.offsets) /\ job' = NoJob
      /\ rows' = [rows EXCEPT ![c] = @ \o t]
      /\ UNCHANGED <<cols, stream, torn, wire>>
  BY Zenon DEF AppendReturns, Size, Rows!AppendColumn
<1>2. job \in [op : {"Append"}, to : Cols, from : Cols, next : Nat]
  BY <1>1, JobIs, Zenon DEF IInv, Types
<1>3. c \in Cols /\ d \in Cols /\ n \in Nat
  BY <1>2, Zenon
<1>4. c \notin torn /\ c # d /\ n \in 1 .. Len(from.offsets) + 1
  BY <1>1, Zenon DEF IInv, Progress, Size
<1>5. from \in Column /\ s \in Seq(Row) /\ t \in Seq(Row)
  BY <1>3, Zenon DEF IInv, Types
<1>6. Whole(from)
  BY <1>3, Zenon DEF IInv, Parts
<1>7. Contents(cols[c]) = s \o SubSeq(t, 1, n - 1) /\ Contents(from) = t
  BY <1>1, <1>3, <1>4, Zenon DEF IInv, Held
<1>8. job'.op # "AppendItem" /\ job'.op # "Append" /\ job.op # "AppendItem" /\ job' \in Job
  BY <1>1, Zenon DEF NoJob, Job
<1> HIDE DEF c, d, n, from, s, t
<1>9. Len(from.offsets) \in Nat
  BY <1>5, Components, Zenon
<1>10. n - 1 = Len(t)
  <2>1. n - 1 = Len(from.offsets)
    BY <1>1, <1>4, <1>9
  <2>2. Len(Contents(from)) = Len(from.offsets)
    BY <1>5, <1>6, ContentsAre, Zenon
  <2> QED BY <1>7, <2>1, <2>2, Zenon
<1>11. Contents(cols[c]) = s \o t
  <2>1. SubSeq(t, 1, Len(t)) = t
    BY <1>5
  <2> QED BY <1>7, <1>10, <2>1, Zenon
<1>12. rows'[c] = s \o t /\ \A x \in Cols : x # c => rows'[x] = rows[x]
  BY <1>1, <1>3, Zenon DEF IInv, Types, s
<1>13. Types'
  <2>1. s \o t \in Seq(Row)
    BY <1>5
  <2>2. rows' \in [Cols -> Seq(Row)]
    BY <1>1, <1>3, <2>1, Zenon DEF IInv, Types, s
  <2> QED BY <1>1, <1>8, <2>2, Zenon DEF IInv, Types
<1>14. Parts'
  BY <1>1, <1>8, Zenon DEF IInv, Parts
<1>15. Progress'
  BY <1>8, Zenon DEF Progress
<1>16. Held'
  <2>1. \A x \in Cols : x # c => Contents(cols[x]) = rows[x]
    BY <1>1, Zenon DEF IInv, Held, c
  <2>2. \A x \in Cols : Contents(cols'[x]) = rows'[x]
    BY <1>1, <1>11, <1>12, <2>1, Zenon
  <2> QED BY <1>8, <2>2, Zenon DEF Held
<1>17. Written'
  BY <1>1, WrittenStays, Zenon DEF IInv
<1> QED BY <1>13, <1>14, <1>15, <1>16, <1>17, Zenon DEF IInv

-----------------------------------------------------------------------------
(* The theorems.                                                           *)

(* Every step of the program keeps the inductive invariant.                *)
LEMMA NextStep ==
    ASSUME IInv, [Next]_vars
    PROVE  IInv'
<1>1. CASE UNCHANGED vars
  <2>1. UNCHANGED cols /\ UNCHANGED stream /\ UNCHANGED job /\ UNCHANGED torn
        /\ UNCHANGED rows /\ UNCHANGED wire
    BY <1>1, Zenon DEF vars
  <2>2. Types' /\ Parts' /\ Held'
    BY <2>1, Zenon DEF IInv, Types, Job, Parts, Held
  <2>3. Progress'
    BY <2>1, Zenon DEF IInv, Progress, Size
  <2>4. Written'
    BY <2>1, WrittenStays, Zenon DEF IInv
  <2> QED BY <2>2, <2>3, <2>4, Zenon DEF IInv
<1>2. ASSUME NEW c \in Cols, NEW row \in Inputs, CallAppendItem(c, row) PROVE IInv'
  BY <1>2, CallAppendItemStep, Zenon
<1>3. CASE AppendEntry
  BY <1>3, AppendEntryStep, Zenon
<1>4. CASE AppendItemReturns
  BY <1>4, AppendItemReturnsStep, Zenon
<1>5. ASSUME NEW c \in Cols, NEW d \in Cols, CallAppend(c, d) PROVE IInv'
  BY <1>5, CallAppendStep, Zenon
<1>6. CASE AppendNext
  BY <1>6, AppendNextStep, Zenon
<1>7. CASE AppendReturns
  BY <1>7, AppendReturnsStep, Zenon
<1>8. ASSUME NEW c \in Cols, NEW d \in Cols, NEW begin \in 0 .. MaxRows,
             NEW size \in 0 .. MaxRows, Slice(c, d, begin, size)
      PROVE  IInv'
  BY <1>8, SliceStep, Zenon
<1>9. ASSUME NEW c \in Cols, Clear(c) PROVE IInv'
  BY <1>9, ClearStep, Zenon
<1>10. ASSUME NEW c \in Cols, NEW d \in Cols, Swap(c, d) PROVE IInv'
  BY <1>10, SwapStep, Zenon
<1>11. ASSUME NEW c \in Cols, SaveBody(c) PROVE IInv'
  BY <1>11, SaveStep, Zenon
<1>12. ASSUME NEW sent \in Sent, ServerSends(sent) PROVE IInv'
  BY <1>12, SendStep, Zenon
<1>13. ASSUME NEW c \in Cols, LoadBody(c) PROVE IInv'
  BY <1>13, LoadStep, Zenon
<1> QED BY <1>1, <1>2, <1>3, <1>4, <1>5, <1>6, <1>7, <1>8, <1>9, <1>10, <1>11, <1>12, <1>13, Zenon
         DEF Next

(* The inductive invariant holds in every state of the program.            *)
THEOREM Invariance == Spec => []IInv
<1>1. Init => IInv
  BY InitStep, Zenon
<1>2. IInv /\ [Next]_vars => IInv'
  BY NextStep, Zenon
<1> QED BY <1>1, <1>2, PTL DEF Spec

(* The parts of a Map column agree: between calls the offsets of           *)
(* ColumnArray grow and end where the keys, the null flags and the values  *)
(* do, unless an append threw in the middle of a row.                      *)
THEOREM PartsAgree == Spec => []SizesAgree
<1>1. IInv => SizesAgree
  <2> SUFFICES ASSUME IInv PROVE SizesAgree
    BY Zenon
  <2>1. TypeOK
    <3>1. cols \in [Cols -> Column] /\ torn \subseteq Cols
      BY Zenon DEF IInv, Types
    <3>2. job.op \in {"none", "AppendItem", "Append"}
      BY JobIs, Zenon DEF IInv, Types
    <3> QED BY <3>1, <3>2, Zenon DEF TypeOK
  <2>2. ASSUME Ready, NEW c \in Cols \ torn
        PROVE  LET col == cols[c]
               IN  /\ \A n \in 1 .. Len(col.offsets) : GetSize(col, n) >= 0
                   /\ Len(col.keys) = GetOffset(col, Len(col.offsets))
                   /\ Len(col.nulls) = Len(col.keys) /\ Len(col.values) = Len(col.keys)
    <3> DEFINE col == cols[c]
    <3>1. c \in Cols /\ c \notin torn
      BY Zenon
    <3>2. col \in Column /\ Tight(col) /\ Whole(col)
      BY <2>2, <3>1, AtRest, Zenon
    <3> HIDE DEF col
    <3>3. ASSUME NEW n \in 1 .. Len(col.offsets)
          PROVE  GetSize(col, n) >= 0
      <4>1. GetSize(col, n) \in Nat
        BY <3>2, Place, Zenon
      <4> QED BY <4>1
    <3>4. /\ Len(col.keys) = GetOffset(col, Len(col.offsets))
          /\ Len(col.nulls) = Len(col.keys) /\ Len(col.values) = Len(col.keys)
      BY <3>2, Zenon DEF Tight, Whole
    <3> QED BY <3>3, <3>4, Zenon DEF col
  <2> QED BY <2>1, <2>2, Zenon DEF SizesAgree
<1> QED BY <1>1, Invariance, PTL

(* A Map column reads back as the sequence of rows that column.h promises, *)
(* whatever was appended, sliced, swapped, refused or loaded, and what was *)
(* written reads back as the rows of the column it was written from.       *)
THEOREM MapReadsBack == Spec => []ReadsBack
<1>1. IInv => ReadsBack
  BY Zenon DEF IInv, Held, Written, ReadsBack
<1> QED BY <1>1, Invariance, PTL
=============================================================================
