---------------------------- MODULE StringColumn ----------------------------
(***************************************************************************)
(* ColumnString (clickhouse/columns/string.cpp).  Its items are string      *)
(* views: they point into blocks of characters that the column allocates   *)
(* and fills from the start, into strings that were moved into the column  *)
(* (append_data_), or into memory of the application.  Nothing but the     *)
(* order of the operations keeps what they point to in place.              *)
(*                                                                         *)
(* A text is a sequence of letters.  A column is not appended to itself    *)
(* (the loop of Append would not end).                                     *)
(***************************************************************************)
EXTENDS Integers, Sequences, SequencesExt

CONSTANTS Cols,        \* the columns of the application
          Texts,       \* the strings that are appended or received
          BlockSize,   \* DEFAULT_BLOCK_SIZE, scaled down
          Sent,        \* the columns the server sends
          MaxRows,     \* bound on the rows of a column
          MaxMoved     \* bound on the strings in append_data_

ASSUME StringColumnAssumption ==
    BlockSize \in Nat /\ MaxRows \in Nat /\ MaxMoved \in Nat /\ Sent \subseteq Seq(Texts)

VARIABLES cols,     \* per column: items, blocks (blocks_: capacity and text) and
                    \* owned (append_data_)
          stream,   \* the last column body written by a column or the server
          job,      \* the loop of an operation in progress
          rows,     \* what the columns should hold,
          wire      \* and what stream should say

vars == <<cols, stream, job, rows, wire>>

Rows == INSTANCE ColumnSeq

-----------------------------------------------------------------------------
NewColumn == [items |-> <<>>, blocks |-> <<>>, owned |-> <<>>]

MaxOf(m, n) == IF m >= n THEN m ELSE n

\* A string_view: the memory, the place in it, and the length.
View(in, at, pos, len) == [in |-> in, at |-> at, pos |-> pos, len |-> len]

Garbage == <<"garbage">>

\* What a view shows; a place beyond what was written shows garbage.
Shown(col, view) ==
    LET memory == CASE view.in = "block" /\ view.at \in DOMAIN col.blocks -> col.blocks[view.at].text
                    [] view.in = "owned" /\ view.at \in DOMAIN col.owned -> col.owned[view.at]
                    [] view.in = "outside" -> view.at
                    [] OTHER -> <<>>
    IN  IF view.pos + view.len <= Len(memory)
        THEN SubSeq(memory, view.pos + 1, view.pos + view.len) ELSE Garbage

\* ColumnString::At
At(col, n) == Shown(col, col.items[n])

Contents(col) == [n \in DOMAIN col.items |-> At(col, n)]

\* ComputeTotalSize
TotalSize(texts) == FoldSeq(LAMBDA text, sum : sum + Len(text), 0, texts)

\* Mutant: an oversized string gets a block of the usual size.
FixedSizeBlock(col, len) ==
    IF col.blocks = <<>> \/ Last(col.blocks).capacity - Len(Last(col.blocks).text) < len
    THEN [col EXCEPT !.blocks = Append(@, [capacity |-> BlockSize, text |-> <<>>])]
    ELSE col

\* A new block unless the last one has room for len more characters.
WithRoom(col, len) ==
    IF col.blocks = <<>> \/ Last(col.blocks).capacity - Len(Last(col.blocks).text) < len
    THEN [col EXCEPT !.blocks = Append(@, [capacity |-> MaxOf(BlockSize, len), text |-> <<>>])]
    ELSE col

\* AppendUnsafe: into the last block, without looking.
AppendUnsafe(col, text) ==
    LET b == Len(col.blocks)
    IN  [col EXCEPT !.items = Append(@, View("block", b, Len(col.blocks[b].text), Len(text))),
                    !.blocks[b].text = @ \o text]

\* Append(string_view), Append(const char* )
AppendView(col, text) == AppendUnsafe(WithRoom(col, Len(text)), text)

\* Append(string&&)
AppendMoved(col, text) ==
    [col EXCEPT !.owned = Append(@, text),
                !.items = Append(@, View("owned", Len(col.owned) + 1, 0, Len(text)))]

\* AppendNoManagedLifetime
AppendUnmanaged(col, text) ==
    [col EXCEPT !.items = Append(@, View("outside", text, 0, Len(text)))]

-----------------------------------------------------------------------------
NoJob == [op |-> "none"]
Ready == job = NoJob
Size(c) == Len(cols[c].items)

AppendItem(c, text) ==
    /\ Ready /\ Size(c) < MaxRows
    /\ cols' = [cols EXCEPT ![c] = AppendView(@, text)]
    /\ Rows!AppendItem(c, text)
    /\ UNCHANGED <<stream, job>>

MoveItem(c, text) ==
    /\ Ready /\ Size(c) < MaxRows /\ Len(cols[c].owned) < MaxMoved
    /\ cols' = [cols EXCEPT ![c] = AppendMoved(@, text)]
    /\ Rows!AppendItem(c, text)
    /\ UNCHANGED <<stream, job>>

AppendNoManagedLifetime(c, text) ==
    /\ Ready /\ Size(c) < MaxRows
    /\ cols' = [cols EXCEPT ![c] = AppendUnmanaged(@, text)]
    /\ Rows!AppendItem(c, text)
    /\ UNCHANGED <<stream, job>>

\* Append(ColumnRef): room for all, then one string after the other.
CallAppend(c, d) ==
    /\ Ready /\ c # d /\ Size(c) + Size(d) <= MaxRows
    /\ cols' = [cols EXCEPT ![c] = WithRoom(@, TotalSize(Contents(cols[d])))]
    /\ job' = [op |-> "Append", to |-> c, from |-> d, next |-> 1]
    /\ UNCHANGED <<stream, rows, wire>>

AppendNext ==
    /\ job.op = "Append" /\ job.next <= Size(job.from)
    /\ cols' = [cols EXCEPT ![job.to] = AppendUnsafe(@, At(cols[job.from], job.next))]
    /\ job' = [job EXCEPT !.next = @ + 1]
    /\ UNCHANGED <<stream, rows, wire>>

AppendReturns ==
    /\ job.op = "Append" /\ job.next > Size(job.from)
    /\ Rows!AppendColumn(job.to, job.from)
    /\ job' = NoJob
    /\ UNCHANGED <<cols, stream>>

\* Slice: the result begins with a block for all of its strings.
Sliced(col, begin, len) ==
    LET texts == SubSeq(Contents(col), begin + 1, Rows!MinOf(begin + len, Len(col.items)))
        first == [NewColumn EXCEPT !.blocks = <<[capacity |-> TotalSize(texts), text |-> <<>>]>>]
    IN  IF begin < Len(col.items)
        THEN FoldLeft(AppendView, first, texts) ELSE NewColumn

Slice(c, d, begin, len) ==
    /\ Ready
    /\ cols' = [cols EXCEPT ![d] = Sliced(cols[c], begin, len)]
    /\ Rows!Slice(c, d, begin, len)
    /\ UNCHANGED <<stream, job>>

Clear(c) ==
    /\ Ready
    /\ cols' = [cols EXCEPT ![c] = NewColumn]
    /\ Rows!Clear(c)
    /\ UNCHANGED <<stream, job>>

\* Mutant: append_data_ stays where it was.
SwapViews(c, d) ==
    /\ Ready
    /\ cols' = [cols EXCEPT ![c] = [cols[d] EXCEPT !.owned = cols[c].owned],
                            ![d] = [cols[c] EXCEPT !.owned = cols[d].owned]]
    /\ Rows!Swap(c, d)
    /\ UNCHANGED <<stream, job>>

Swap(c, d) ==
    /\ Ready
    /\ cols' = [cols EXCEPT ![c] = cols[d], ![d] = cols[c]]
    /\ Rows!Swap(c, d)
    /\ UNCHANGED <<stream, job>>

-----------------------------------------------------------------------------
\* SaveBody: each string with its length.
SaveBody(c) ==
    /\ Ready /\ stream = <<>>
    /\ stream' = Contents(cols[c])
    /\ Rows!Save(c)
    /\ UNCHANGED <<cols, job>>

ServerSends(sent) ==
    /\ Ready /\ stream = <<>>
    /\ stream' = sent
    /\ Rows!Receive(sent)
    /\ UNCHANGED <<cols, job>>

\* LoadBody fills new items and new blocks, one string after the other, and
\* puts them in place when all are there; of append_data_ it knows nothing.
CallLoadBody(c) ==
    /\ Ready /\ stream # <<>>
    /\ job' = [op |-> "LoadBody", to |-> c, next |-> 1,
               result |-> [NewColumn EXCEPT !.blocks = <<[capacity |-> BlockSize, text |-> <<>>]>>]]
    /\ UNCHANGED <<cols, stream, rows, wire>>

LoadNext ==
    /\ job.op = "LoadBody" /\ job.next <= Len(stream)
    /\ job' = [job EXCEPT !.next = @ + 1, !.result = AppendView(@, stream[job.next])]
    /\ UNCHANGED <<cols, stream, rows, wire>>

LoadReturns ==
    /\ job.op = "LoadBody" /\ job.next > Len(stream)
    /\ cols' = [cols EXCEPT ![job.to].items = job.result.items, ![job.to].blocks = job.result.blocks]
    /\ stream' = <<>>
    /\ Rows!Load(job.to)
    /\ job' = NoJob

\* The stream ends early: LoadBody returns false.
LoadFails ==
    /\ job.op = "LoadBody" /\ job.next <= Len(stream)
    /\ stream' = <<>>
    /\ Rows!Receive(<<>>)
    /\ job' = NoJob
    /\ UNCHANGED cols

\* LoadBody(input, 0)
LoadNothing(c) ==
    /\ Ready /\ stream = <<>>
    /\ cols' = [cols EXCEPT ![c].items = <<>>, ![c].blocks = <<>>]
    /\ Rows!Load(c)
    /\ UNCHANGED <<stream, job>>

-----------------------------------------------------------------------------
Init ==
    /\ cols = [c \in Cols |-> NewColumn]
    /\ stream = <<>>
    /\ job = NoJob
    /\ Rows!Init

Next ==
    \/ \E c \in Cols, text \in Texts :
        AppendItem(c, text) \/ MoveItem(c, text) \/ AppendNoManagedLifetime(c, text)
    \/ \E c, d \in Cols : CallAppend(c, d)
    \/ AppendNext \/ AppendReturns
    \/ \E c, d \in Cols, begin, len \in 0 .. MaxRows : Slice(c, d, begin, len)
    \/ \E c \in Cols : Clear(c)
    \/ \E c, d \in Cols : Swap(c, d)
    \/ \E c \in Cols : SaveBody(c)
    \/ \E sent \in Sent : ServerSends(sent)
    \/ \E c \in Cols : CallLoadBody(c) \/ LoadNothing(c)
    \/ LoadNext \/ LoadReturns \/ LoadFails

Spec == Init /\ [][Next]_vars

-----------------------------------------------------------------------------
\* Every block of a column, those that are being loaded included.
BlocksOf(c) ==
    cols[c].blocks \o (IF job.op = "LoadBody" /\ job.to = c THEN job.result.blocks ELSE <<>>)

\* Nothing is written beyond the end of a block: every AppendUnsafe
\* (string.cpp:141) is preceded by a check for all that comes before the next
\* check.
BlocksHold ==
    \A c \in Cols : \A b \in DOMAIN BlocksOf(c) : Len(BlocksOf(c)[b].text) <= BlocksOf(c)[b].capacity

\* Whatever happened to a column, and to the column a view was copied from,
\* its views show the strings that were appended or loaded; a load that fails
\* (string.cpp:284, 290) leaves them as they were; the bytes written hold them.
ReadsBack ==
    /\ \A c \in Cols :
        Contents(cols[c]) = IF job.op = "Append" /\ c = job.to
                            THEN rows[c] \o SubSeq(rows[job.from], 1, job.next - 1)
                            ELSE rows[c]
    /\ stream = wire

=============================================================================
