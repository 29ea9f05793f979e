---------------------------- MODULE OutputStreams ----------------------------
(***************************************************************************)
(* How bytes leave the client: WireFormat::WriteAll over BufferedOutput     *)
(* (base/output.cpp) over the socket, and for the blocks of a compressed    *)
(* connection a second BufferedOutput over CompressedOutput                 *)
(* (base/compressed.cpp), which writes its frames to the first.             *)
(*                                                                         *)
(* The bytes of the application are numbered in the order in which they    *)
(* are written.  What is on the wire is a sequence of tokens: a byte, or a  *)
(* part of a frame.  `send` may take any part of what it is given, and may  *)
(* fail, so every call of it is a step; `calls` is the stack of the calls   *)
(* that have not returned.                                                 *)
(***************************************************************************)
EXTENDS Integers, Sequences, SequencesExt

CONSTANTS OutSize,      \* buflen of output_
          Chunks,       \* the possible values of max_compression_chunk_size
          MaxInput,     \* the most LZ4 compresses at once (LZ4_MAX_INPUT_SIZE)
          Blocks,       \* the blocks: the lengths of the pieces WriteBlock writes
          MaxPackets    \* bound on the packets that are sent

ASSUME OutputStreamsAssumption ==
    OutSize \in Nat /\ Chunks \subseteq Nat /\ MaxInput \in Nat /\ MaxPackets \in Nat /\ Blocks \subseteq Seq(Nat \ {0})

VARIABLES compression,   \* compression_ = CompressionState::Enable
          chunk,         \* max_compression_chunk_size
          buffer,        \* buffer_ of the two BufferedOutputs, as far as it is filled
          room,          \* for how many bytes compressed_buffer_ was allocated
          calls,         \* the calls that have not returned, the innermost first
          written,       \* the number of bytes the application wrote
          packets,       \* per packet: the bytes of its block, after the code
          writeError,    \* the exception a call ended in
          wire           \* what the socket took and the peer has not received

outVars == <<compression, chunk, buffer, room, calls, written, packets, writeError>>

Streams == {"out", "zip"}   \* output_, and the BufferedOutput of SendBlockData

-----------------------------------------------------------------------------
(* The calls, and their stack. *)

Write(to, data)    == [do |-> "write", to |-> to, data |-> data]       \* WriteAll
Place(to, data)    == [do |-> "place", to |-> to, data |-> data]       \* DoWrite, after Flush
Flush(to)          == [do |-> "flush", to |-> to, data |-> <<>>]
Drain(to, data)    == [do |-> "drain", to |-> to, data |-> data]       \* the loop of DoFlush
Rewind(to)         == [do |-> "rewind", to |-> to, data |-> <<>>]      \* its last line
Compress(to, data) == [do |-> "compress", to |-> to, data |-> data]
Allocate(n)        == [do |-> "allocate", to |-> "zip", size |-> n]    \* PreallocateCompressBuffer

Top == Head(calls)
Running(do) == calls # <<>> /\ Top.do = do

\* The innermost call returns, after it has made the calls cs.
Continue(cs) == calls' = cs \o Tail(calls)

\* buffer_.size()
Size(to) == IF to = "out" THEN OutSize ELSE chunk

\* array_output_.Avail()
Avail(to) == Size(to) - Len(buffer[to])

-----------------------------------------------------------------------------
(* BufferedOutput *)

Buffer(to, data) ==
    /\ buffer' = [buffer EXCEPT ![to] = @ \o data]
    /\ Continue(<<>>)
    /\ UNCHANGED <<room, writeError, wire>>

\* Mutant: what does not fit is passed on before what was written earlier.
DoWriteUnflushed ==
    /\ Running("write")
    /\ IF Avail(Top.to) < Len(Top.data)
       THEN /\ Continue(<<Place(Top.to, Top.data)>>)
            /\ UNCHANGED <<buffer, room, writeError, wire>>
       ELSE Buffer(Top.to, Top.data)

DoWrite ==
    /\ Running("write")
    /\ IF Avail(Top.to) < Len(Top.data)
       THEN /\ Continue(<<Flush(Top.to), Place(Top.to, Top.data)>>)
            /\ UNCHANGED <<buffer, room, writeError, wire>>
       ELSE Buffer(Top.to, Top.data)

\* Data that is longer than half of the (empty) buffer goes to destination_.
\* CompressedOutput takes all of it, the socket perhaps only a part.
DoWritePlaces ==
    /\ Running("place")
    /\ Len(Top.data) <= Size(Top.to) \div 2
    /\ Buffer(Top.to, Top.data)

DoFlush ==
    /\ Running("flush")
    /\ Continue(IF buffer[Top.to] = <<>> THEN <<>>
                ELSE <<Drain(Top.to, buffer[Top.to])>>
                     \o (IF Top.to = "zip" THEN <<Flush("out")>> ELSE <<>>)
                     \o <<Rewind(Top.to)>>)
    /\ UNCHANGED <<buffer, room, writeError, wire>>

\* array_output_.Reset
DoFlushEnds ==
    /\ Running("rewind")
    /\ buffer' = [buffer EXCEPT ![Top.to] = <<>>]
    /\ Continue(<<>>)
    /\ UNCHANGED <<room, writeError, wire>>

-----------------------------------------------------------------------------
(* The destinations of the two streams *)

\* destination_->Write is called: by DoFlush until all is written, or by
\* DoWrite, whose caller WriteAll comes back with the rest.
Passes(to) ==
    /\ calls # <<>> /\ Top.to = to
    /\ \/ Top.do = "drain"
       \/ Top.do = "place" /\ Len(Top.data) > Size(to) \div 2

\* SocketOutput::DoWrite: `send` takes the first n bytes.
SocketWrites(n) ==
    /\ wire' = wire \o SubSeq(Top.data, 1, n)
    /\ LET rest == SubSeq(Top.data, n + 1, Len(Top.data))
       IN  Continue(IF rest = <<>> THEN <<>>
                    ELSE IF Top.do = "drain" THEN <<Drain("out", rest)>> ELSE <<Write("out", rest)>>)
    /\ UNCHANGED <<buffer, room, writeError>>

\* An exception leaves all calls.  The BufferedOutput of SendBlockData is
\* destroyed with what is in it; output_ keeps its buffer.
Throw(error) ==
    /\ calls' = <<>> /\ writeError' = error
    /\ buffer' = [buffer EXCEPT !["zip"] = <<>>]
    /\ UNCHANGED <<room, wire>>

SocketWrite ==
    /\ Passes("out")
    /\ \/ \E n \in 1 .. Len(Top.data) : SocketWrites(n)
       \/ Throw("send")

\* The data in pieces of at most n bytes.
Pieces(data, n) ==
    [p \in 1 .. (Len(data) + n - 1) \div n |->
        SubSeq(data, (p - 1) * n + 1, IF p * n < Len(data) THEN p * n ELSE Len(data))]

\* Mutant: the buffer is allocated for the chunk size even if there is none.
CompressedWriteUnallocated ==
    /\ Passes("zip")
    /\ LET most == IF chunk > 0 THEN chunk ELSE Len(Top.data)
       IN  Continue([p \in DOMAIN Pieces(Top.data, most) |->
                         Compress("zip", Pieces(Top.data, most)[p])])
    /\ UNCHANGED <<buffer, room, writeError, wire>>

\* CompressedOutput::DoWrite
CompressedWrite ==
    /\ Passes("zip")
    /\ LET most == IF chunk > 0 THEN chunk ELSE Len(Top.data)
       IN  Continue((IF most > chunk THEN <<Allocate(Len(Top.data))>> ELSE <<>>)
                    \o [p \in DOMAIN Pieces(Top.data, most) |->
                            Compress("zip", Pieces(Top.data, most)[p])])
    /\ UNCHANGED <<buffer, room, writeError, wire>>

\* PreallocateCompressBuffer throws when the codec has no estimate.
PreallocateCompressBuffer ==
    /\ Running("allocate")
    /\ IF Top.size > MaxInput
       THEN Throw("estimate")
       ELSE room' = Top.size /\ Continue(<<>>) /\ UNCHANGED <<buffer, writeError, wire>>

-----------------------------------------------------------------------------
(* Frames: the hash, and what it covers: method, sizes, compressed data *)

Lz4 == <<-2>>
HeaderSize == 3

\* LZ4_compress_default, which packs any number of bytes into one or two tokens.
Packed(data) == IF Len(data) = 1 THEN data ELSE <<FlattenSeq(data), <<>>>>

\* LZ4_decompress_safe
Unpacked(body) == IF Len(body) = 1 THEN body ELSE [b \in 1 .. Len(body[1]) |-> <<body[1][b]>>]

\* CityHash128, taken to be injective
CityHash128(tokens) == <<-1>> \o FlattenSeq(tokens)

FrameOf(data) == <<Lz4, <<HeaderSize + Len(Packed(data))>>, <<Len(data)>>>> \o Packed(data)

\* CompressedOutput::Compress
CompressChunk ==
    /\ Running("compress")
    /\ IF Len(Top.data) > room
       THEN Throw("compress")
       ELSE /\ Continue(<<Write("out", <<CityHash128(FrameOf(Top.data))>>),
                          Write("out", FrameOf(Top.data)), Flush("out")>>)
            /\ UNCHANGED <<buffer, room, writeError, wire>>

-----------------------------------------------------------------------------
(* The client's calls *)

\* The next n bytes of the application.
Bytes(from, n) == [b \in 1 .. n |-> <<from + b>>]

Sum(lengths) == FoldSeq(LAMBDA n, sum : n + sum, 0, lengths)

\* SendCancel, Ping: a packet that is its code.
SendCode ==
    /\ calls' = <<Write("out", Bytes(written, 1)), Flush("out")>>
    /\ written' = written + 1
    /\ packets' = Append(packets, 0)
    /\ UNCHANGED <<buffer, room>>

\* Mutant: WriteBlock does not flush.
BlockCallsUnflushed(to, lengths) ==
    [p \in DOMAIN lengths |->
        Write(to, Bytes(written + 1 + Sum(SubSeq(lengths, 1, p - 1)), lengths[p]))]
    \o <<Flush("out")>>

\* The calls that write a block after its packet's code: WriteBlock ends with
\* a Flush of the stream it was given, SendData with one of output_.
BlockCalls(to, lengths) ==
    [p \in DOMAIN lengths |->
        Write(to, Bytes(written + 1 + Sum(SubSeq(lengths, 1, p - 1)), lengths[p]))]
    \o <<Flush(to), Flush("out")>>

\* SendData with SendBlockData and WriteBlock: new streams for the block if it
\* is to be compressed, of which CompressedOutput allocates its buffer.
SendData(lengths) ==
    /\ calls' = <<Write("out", Bytes(written, 1))>>
                \o (IF compression THEN <<Allocate(chunk)>> \o BlockCalls("zip", lengths)
                                   ELSE BlockCalls("out", lengths))
    /\ written' = written + 1 + Sum(lengths)
    /\ packets' = Append(packets, Sum(lengths))
    /\ buffer' = [buffer EXCEPT !["zip"] = <<>>]
    /\ UNCHANGED room

Call ==
    /\ calls = <<>> /\ writeError = "none" /\ Len(packets) < MaxPackets
    /\ SendCode \/ \E lengths \in Blocks : SendData(lengths)
    /\ UNCHANGED <<writeError, wire>>

-----------------------------------------------------------------------------
OutInit ==
    /\ compression \in BOOLEAN /\ chunk \in IF compression THEN Chunks ELSE {0}
    /\ buffer = [to \in Streams |-> <<>>] /\ room = 0 /\ calls = <<>>
    /\ written = 0 /\ packets = <<>> /\ writeError = "none"

OutSteps ==
    /\ \/ DoWrite \/ DoWritePlaces \/ DoFlush \/ DoFlushEnds
       \/ SocketWrite \/ CompressedWrite \/ PreallocateCompressBuffer \/ CompressChunk
    /\ UNCHANGED <<written, packets>>

OutNext == (Call \/ OutSteps) /\ UNCHANGED <<compression, chunk>>
=============================================================================
