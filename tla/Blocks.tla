-------------------------------- MODULE Blocks -------------------------------
(***************************************************************************)
(* Block (block.cpp) and its way over the wire, Client::Impl::WriteBlock   *)
(* and ReadBlock (client.cpp).                                             *)
(*                                                                         *)
(* A block holds references to columns and the number of rows they had     *)
(* when it looked last.  The columns are shared: with the application,     *)
(* which fills them, and with every copy of the block.                     *)
(***************************************************************************)
EXTENDS WireFormat

CONSTANTS Column,      \* the column objects
          Kind,        \* column -> "number", "string", or "prefixed", a
                       \* number column that saves a prefix
          Block,       \* the Block objects
          Strings,     \* the values of a string column
          Parameters,  \* the texts a parameter of a query can have
          Revisions,   \* server_info_.revision
          MaxRows      \* rows of a column

ASSUME BlocksAssumption ==
    /\ Kind \in [Column -> {"number", "string", "prefixed"}]
    /\ Revisions \subseteq Nat /\ MaxRows \in Nat

VARIABLES data,      \* column -> its rows
          columns_,  \* block -> the columns it refers to, in order
          rows_,     \* block -> Block::rows_
          stale,     \* the blocks whose columns changed since they counted
          revision,  \* server_info_.revision when something is written
          wire,      \* the bytes between a write and the read
          written,   \* what was written: columns, parameters or a number
          got        \* what was read

vars == <<data, columns_, rows_, stale, revision, wire, written, got>>
ownVars == <<revision, wire, written, got>>

Holders(cs) == {b \in Block : Range(columns_[b]) \cap cs # {}}
Size(c) == Len(data[c])
Values(kind) == IF kind = "string" THEN Strings ELSE {Base}
Nothing == [kind |-> "none", columns |-> <<>>, current |-> TRUE]

Init ==
    /\ data = [c \in Column |-> <<>>]
    /\ columns_ = [b \in Block |-> <<>>]
    /\ rows_ = [b \in Block |-> 0]
    /\ stale = {}
    /\ revision = 0
    /\ wire = <<>> /\ written = Nothing /\ got = Failed

-----------------------------------------------------------------------------
(* The application appends a row to a column it holds a reference to.      *)
AppendRow(c) ==
    /\ written = Nothing /\ Size(c) < MaxRows
    /\ \E v \in Values(Kind[c]) :
           data' = [data EXCEPT ![c] = Append(@, v)]
    /\ stale' = stale \cup Holders({c})
    /\ UNCHANGED <<columns_, rows_, ownVars>>

(* AppendColumn: the first column sets rows_, another one must agree.      *)
AppendColumn(b, c) ==
    /\ written = Nothing /\ Len(columns_[b]) < Cardinality(Column)
    /\ columns_[b] # <<>> => Size(c) = rows_[b]
    /\ rows_' = [rows_ EXCEPT ![b] = Size(c)]
    /\ columns_' = [columns_ EXCEPT ![b] = Append(@, c)]
    /\ UNCHANGED <<data, stale, ownVars>>

(* RefreshRowCount throws, and keeps rows_, when the columns differ.       *)
Counts(b, d) ==
    LET sizes == {Len(d[c]) : c \in Range(columns_[b])}
    IN  IF Cardinality(sizes) > 1 THEN {}
        ELSE {IF sizes = {} THEN 0 ELSE Min(sizes)}

RefreshRowCount(b) ==
    /\ written = Nothing
    /\ \E n \in Counts(b, data) :
           /\ rows_' = [rows_ EXCEPT ![b] = n]
           /\ stale' = stale \ {b}
    /\ UNCHANGED <<data, columns_, ownVars>>

Cleared(b) == [c \in Column |-> IF c \in Range(columns_[b]) THEN <<>>
                                ELSE data[c]]

\* Mutant: the rows are not counted again.
ClearUncounted(b) ==
    /\ written = Nothing
    /\ data' = Cleared(b)
    /\ stale' = (stale \cup Holders(Range(columns_[b]))) \ {b}
    /\ UNCHANGED <<columns_, rows_, ownVars>>

(* Clear empties the columns, of the other blocks that hold them too.      *)
Clear(b) ==
    /\ written = Nothing
    /\ data' = Cleared(b)
    /\ \E n \in Counts(b, data') : rows_' = [rows_ EXCEPT ![b] = n]
    /\ stale' = (stale \cup Holders(Range(columns_[b]))) \ {b}
    /\ UNCHANGED <<columns_, ownVars>>

(* Assignment copies the references and the count, not the columns.        *)
Assign(b, from) ==
    /\ written = Nothing /\ b # from
    /\ columns_' = [columns_ EXCEPT ![b] = columns_[from]]
    /\ rows_' = [rows_ EXCEPT ![b] = rows_[from]]
    /\ stale' = IF from \in stale THEN stale \cup {b} ELSE stale \ {b}
    /\ UNCHANGED <<data, ownVars>>

-----------------------------------------------------------------------------
(* Column::Save and Load.                                                  *)

KindByte(kind) == CASE kind = "number" -> 0 [] kind = "string" -> 1
                    [] kind = "prefixed" -> 2

\* The version of a column that saves one.
Prefix(kind) == IF kind = "prefixed" THEN <<1>> ELSE <<>>

Save(kind, rows) ==
    Prefix(kind)
    \o FlattenSeq([i \in DOMAIN rows |-> IF kind = "string"
                                         THEN WriteString(rows[i])
                                         ELSE <<rows[i]>>])

Count(n) == [i \in 1 .. n |-> i]

\* The prefix, when there is one, must be the version that is written.
Loaded(prefix, all) ==
    IF all.ok /\ IsPrefix(prefix, all.value)
    THEN Got(SubSeq(all.value, Len(prefix) + 1, Len(all.value)), all.pos)
    ELSE Failed

Load(kind, s, pos, n) ==
    LET field == IF kind = "string" THEN "string" ELSE "fixed"
    IN  Loaded(Prefix(kind),
               ReadFields([i \in 1 .. Len(Prefix(kind)) + n |-> field], s, pos))

(* WriteBlock.  A column is written as its name, its type, a byte for      *)
(* custom serialization, and its rows unless the block has none.  A fixed  *)
(* width number is one byte here; Info holds the defaults, 0 and -1.       *)
Info == <<1, 0, 2, 2 * Base - 1, 0>>

ColumnHeader(kind, rev) ==
    WriteString(<<KindByte(kind)>>) \o WriteString(<<KindByte(kind)>>)
    \o (IF rev >= 54454 THEN <<0>> ELSE <<>>)

\* Mutant: a column is saved whether the block has rows or not.
ColumnBytesAlways(n, c, rev) == ColumnHeader(Kind[c], rev) \o Save(Kind[c], data[c])

ColumnBytes(n, c, rev) ==
    ColumnHeader(Kind[c], rev)
    \o (IF n > 0 THEN Save(Kind[c], data[c]) ELSE <<>>)

BlockBytes(b, rev) ==
    LET cs == columns_[b]
    IN  (IF rev >= 51903 THEN Info ELSE <<>>)
        \o WriteVarint64(Len(cs)) \o WriteVarint64(rows_[b])
        \o FlattenSeq([i \in DOMAIN cs |-> ColumnBytes(rows_[b], cs[i], rev)])

WriteBlock(b) ==
    /\ written = Nothing
    /\ revision' \in Revisions
    /\ wire' = BlockBytes(b, revision')
    /\ written' = [kind    |-> "block",
                   columns |-> [i \in DOMAIN columns_[b] |->
                                   [kind |-> Kind[columns_[b][i]],
                                    rows |-> data[columns_[b][i]]]],
                   current |-> b \notin stale]
    /\ UNCHANGED <<data, columns_, rows_, stale, got>>

(* ReadBlock: a column that cannot be loaded throws; AppendColumn throws   *)
(* when a column has another size than the first.                          *)
InfoFields(rev) ==
    IF rev >= 51903 THEN <<"varint", "fixed", "varint", "fixed", "varint">>
    ELSE <<>>

ColumnFields(rev) ==
    <<"string", "string">> \o (IF rev >= 54454 THEN <<"fixed">> ELSE <<>>)

OfKind(kind, rows) == [rows EXCEPT !.value = [kind |-> kind, rows |-> @]]

LoadColumn(header, s, n) ==
    LET kinds == {k \in {"number", "string", "prefixed"} :
                      /\ header.ok /\ header.value[2] = <<KindByte(k)>>
                      /\ Len(header.value) = 3 => header.value[3] = 0}
        kind  == CHOOSE k \in kinds : TRUE
    IN  IF kinds = {} THEN Failed
        ELSE OfKind(kind, IF n = 0 THEN Got(<<>>, header.pos)
                          ELSE Load(kind, s, header.pos, n))

ReadColumn(s, pos, n, rev) ==
    LoadColumn(ReadFields(ColumnFields(rev), s, pos), s, n)

ReadColumns(header, s, rev) ==
    LET num_columns == header.value[Len(header.value) - 1]
        num_rows    == Last(header.value)
        Step(acc, i) == Both(acc, ReadColumn(s, acc.pos, num_rows, rev))
    IN  IF header.ok
        THEN FoldLeft(Step, Got(<<>>, header.pos), Count(num_columns))
        ELSE Failed

ReadBlockFrom(s, rev) ==
    ReadColumns(ReadFields(InfoFields(rev) \o <<"varint", "varint">>, s, 1),
                s, rev)

\* A read that stops where the writer did.
Whole(read, s) == [read EXCEPT !.ok = @ /\ read.pos = Len(s) + 1]

ReadBlock ==
    /\ written.kind = "block" /\ wire # <<>>
    /\ got' = Whole(ReadBlockFrom(wire, revision), wire)
    /\ wire' = <<>>
    /\ UNCHANGED <<data, columns_, rows_, stale, revision, written>>

(* SendQuery writes the parameters after the text: name, flag and value    *)
(* of each, then an empty name.  A value is <<>> for NULL, or <<text>>.    *)
(* To a server that does not know parameters it writes none, and says      *)
(* nothing.  They have nothing to do with the blocks, and are written      *)
(* before there are any.                                                   *)
MaxParameters == 2   \* of a query
Optional == {<<>>} \cup {<<v>> : v \in Parameters}

ParameterValue(v) == IF v = <<>> THEN WriteParamNullRepresentation
                     ELSE WriteQuotedString(v[1])

ParameterBytes(ps) ==
    FlattenSeq([i \in DOMAIN ps |-> WriteString(<<i>>) \o WriteVarint64(2)
                                    \o ParameterValue(ps[i])])
    \o WriteString(<<>>)

WithParameters(rev) == rev >= 54459
Text == <<Base>>

WriteParameters ==
    /\ written = Nothing /\ columns_ = [b \in Block |-> <<>>]
    /\ data = [c \in Column |-> <<>>]
    /\ revision' \in Revisions
    /\ \E ps \in BoundedSeq(Optional, MaxParameters) :
           /\ wire' = WriteString(Text)
                      \o (IF WithParameters(revision') THEN ParameterBytes(ps) ELSE <<>>)
           /\ written' = [kind    |-> "parameters",
                          columns |-> ps,
                          current |-> TRUE]
    /\ UNCHANGED <<data, columns_, rows_, stale, got>>

(* The server reads up to the empty name, when it knows parameters.        *)
NextParameter(acc, name, all, i) ==
    IF ~acc.ok \/ acc.value.ended THEN acc
    ELSE IF name.ok /\ name.value = <<>>
    THEN Got([acc.value EXCEPT !.ended = TRUE], name.pos)
    ELSE IF all.ok /\ all.value[1] = <<i>>
    THEN Got([acc.value EXCEPT !.texts = Append(@, all.value[3])], all.pos)
    ELSE Failed

ReadParametersFrom(s, pos) ==
    LET Step(acc, i) ==
            NextParameter(acc, ReadString(s, acc.pos),
                          ReadFields(<<"string", "varint", "string">>,
                                     s, acc.pos), i)
    IN  FoldLeft(Step, Got([texts |-> <<>>, ended |-> FALSE], pos),
                 Count(MaxParameters + 1))

ReadQueryFrom(s, rev) ==
    LET text == ReadString(s, 1)
    IN  IF ~text.ok \/ text.value # Text THEN Failed
        ELSE IF WithParameters(rev) THEN ReadParametersFrom(s, text.pos)
        ELSE Got([texts |-> <<>>, ended |-> TRUE], text.pos)

ReadParameters ==
    /\ written.kind = "parameters" /\ wire # <<>>
    /\ got' = Whole(ReadQueryFrom(wire, revision), wire)
    /\ wire' = <<>>
    /\ UNCHANGED <<data, columns_, rows_, stale, revision, written>>

(* A number of a packet, on its own.                                       *)
WriteUInt64 ==
    /\ written = Nothing /\ columns_ = [b \in Block |-> <<>>]
    /\ data = [c \in Column |-> <<>>]
    /\ \E n \in 0 .. Word - 1 :
           /\ wire' = WriteVarint64(n)
           /\ written' = [kind |-> "number", columns |-> n, current |-> TRUE]
    /\ UNCHANGED <<data, columns_, rows_, stale, revision, got>>

ReadUInt64 ==
    /\ written.kind = "number" /\ wire # <<>>
    /\ got' = Whole(ReadVarint64(wire, 1), wire)
    /\ wire' = <<>>
    /\ UNCHANGED <<data, columns_, rows_, stale, revision, written>>

(* The reader is done, and the next thing can be written.                  *)
Done ==
    /\ written # Nothing /\ wire = <<>>
    /\ written' = Nothing /\ got' = Failed /\ revision' = 0
    /\ UNCHANGED <<data, columns_, rows_, stale, wire>>

Next ==
    \/ \E c \in Column : AppendRow(c)
    \/ \E b \in Block :
           \/ \E c \in Column : AppendColumn(b, c)
           \/ \E from \in Block : Assign(b, from)
           \/ RefreshRowCount(b) \/ Clear(b) \/ WriteBlock(b)
    \/ ReadBlock
    \/ WriteParameters \/ ReadParameters
    \/ WriteUInt64 \/ ReadUInt64
    \/ Done

Spec == Init /\ [][Next]_vars

-----------------------------------------------------------------------------

TypeOK ==
    /\ \A c \in Column : data[c] \in BoundedSeq(Values(Kind[c]), MaxRows)
    /\ columns_ \in [Block -> BoundedSeq(Column, Cardinality(Column))]
    /\ rows_ \in [Block -> 0 .. MaxRows]
    /\ \A i \in DOMAIN wire : wire[i] \in Byte

(* A block's row count is the size of every one of its columns, unless a   *)
(* column was changed through another reference after the block counted:   *)
(* by the application, or by clearing a block that shares it.              *)
(* The state keeps its types.                                              *)
RowCountHolds ==
    /\ TypeOK
    /\ \A b \in Block \ stale :
           \A c \in Range(columns_[b]) : Size(c) = rows_[b]

(* A block whose count is current arrives as the same columns with the     *)
(* same rows, and the reader stops where the writer did; for every         *)
(* revision, with empty blocks, empty strings and lengths of several       *)
(* bytes.  So does every number of a word: up to the largest, which has a  *)
(* single bit in the last of MAX_VARINT_BYTES, and around the powers of    *)
(* two at which a byte is added.                                           *)
BlocksReadBack ==
    /\ written.kind = "number" \/ (written.kind = "block" /\ written.current)
    /\ wire = <<>>
    => got.ok /\ got.value = written.columns

(* From revision 54459 on the parameters of a query arrive as they were    *)
(* set: the length of a quoted value, computed before its characters, is   *)
(* theirs, so that the next name is found behind it; the only bare quotes  *)
(* of a value are its first and last byte; and no other value, NULL        *)
(* included, reads the same.  Below it the query arrives without them, and *)
(* the reader still stops where the writer did (client.cpp:1099).          *)
ParametersReadBack ==
    written.kind = "parameters" /\ wire = <<>> =>
        /\ got.ok /\ got.value.ended
        /\ Len(got.value.texts) = IF WithParameters(revision) THEN Len(written.columns) ELSE 0
        /\ \A i \in DOMAIN got.value.texts :
               LET text == got.value.texts[i]
               IN  /\ {j \in DOMAIN text : text[j] = QUOTE} = {1, Len(text)}
                   /\ {v \in Optional : ParameterValue(v) = WriteString(text)}
                          = {written.columns[i]}

=============================================================================
