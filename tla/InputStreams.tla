---------------------------- MODULE InputStreams ----------------------------
(***************************************************************************)
(* How bytes reach the client: WireFormat::ReadAll and InputStream::Skip    *)
(* over BufferedInput (base/input.cpp) over the socket, and for the blocks  *)
(* of a compressed connection over CompressedInput (base/compressed.cpp),   *)
(* which reads its frames from the former.                                 *)
(*                                                                         *)
(* The peer's bytes come from OutputStreams, which this module extends: the *)
(* peer writes what the client would write.  `recv` may return any part of  *)
(* what is on the wire, so every call of it is a step; `reads` is the stack *)
(* of the calls that have not returned.                                     *)
(***************************************************************************)
EXTENDS OutputStreams

CONSTANTS InSize,    \* buflen of input_
          MaxFrame,  \* DBMS_MAX_COMPRESSED_SIZE
          Lengths    \* lengths of what is read at once

ASSUME InputStreamsAssumption ==
    /\ InSize \in Nat /\ MaxFrame \in Nat
    /\ Lengths \subseteq Nat \ {0} /\ 1 \in Lengths

VARIABLES array,      \* array_input_ of input_: what was received and not read
          mem,        \* mem_ of CompressedInput: what was decompressed and not read
          frame,      \* the frame that Decompress is reading
          reads,      \* the calls that have not returned, the innermost first
          packet,     \* the bytes of the packet's block that are left to read, or Idle
          taken,      \* the number of packets that were read
          got,        \* the bytes the application has read
          readError,  \* the exception a call ended in
          closed      \* the peer has closed the connection

inVars == <<array, mem, frame, reads, packet, taken, got, readError, closed>>
vars == <<outVars, wire, inVars>>

-----------------------------------------------------------------------------
(* The calls, and their stack *)

\* ReadAll of n bytes from a stream, or Skip; what is read goes to the
\* application (or is dropped), or into the frame.
Read(from, n)  == [do |-> "read", from |-> from, n |-> n, into |-> "app"]
Skip(from, n)  == [do |-> "skip", from |-> from, n |-> n, into |-> "app"]
ReadFrame(n)   == [do |-> "read", from |-> "in", n |-> n, into |-> "frame"]
Decompress     == [do |-> "decompress", from |-> "zip", n |-> 0, into |-> "frame"]
GoOn           == [do |-> "go on", from |-> "zip", n |-> 0, into |-> "frame"]

Idle == -1

ReadTop == Head(reads)
Reading(dos, from) == reads # <<>> /\ ReadTop.do \in dos /\ ReadTop.from = from

Least(m, n) == IF m <= n THEN m ELSE n

\* The innermost call reads data, and is called again for the rest.
Deliver(data) ==
    /\ reads' = (IF Len(data) < ReadTop.n THEN <<[ReadTop EXCEPT !.n = @ - Len(data)]>> ELSE <<>>)
                \o Tail(reads)
    /\ IF ReadTop.into = "frame"
       THEN frame' = frame \o data /\ UNCHANGED got
       ELSE got' = got \o data /\ UNCHANGED frame

ReadThrows(error) ==
    /\ reads' = <<>> /\ packet' = Idle /\ mem' = <<>> /\ frame' = <<>>
    /\ readError' = error
    /\ UNCHANGED <<array, got, wire>>

-----------------------------------------------------------------------------
(* BufferedInput *)

\* ArrayInput::DoNext, by way of ZeroCopyInput::DoRead or Skip
FromArray(data) ==
    LET n == Least(ReadTop.n, Len(data))
    IN  /\ array' = SubSeq(data, n + 1, Len(data))
        /\ Deliver(SubSeq(data, 1, n))

\* BufferedInput::DoRead and DoNext while array_input_ has data
ReadBuffered ==
    /\ Reading({"read", "skip"}, "in") /\ array # <<>>
    /\ FromArray(array)
    /\ UNCHANGED <<mem, packet, readError, wire>>

\* DoRead of much data reads from the socket to its destination.  DoNext,
\* which Skip uses, always fills the buffer.
Direct == ReadTop.do = "read" /\ ReadTop.n > InSize \div 2

\* `recv`
Received(n) == SubSeq(wire, 1, n)

\* BufferedInput::DoRead and DoNext with SocketInput::DoRead
ReadReceives ==
    /\ Reading({"read", "skip"}, "in") /\ array = <<>> /\ wire # <<>>
    /\ \E n \in 1 .. Least(Len(wire), IF Direct THEN ReadTop.n ELSE InSize) :
         /\ wire' = SubSeq(wire, n + 1, Len(wire))
         /\ IF Direct THEN Deliver(Received(n)) /\ UNCHANGED array
                      ELSE FromArray(Received(n))
    /\ UNCHANGED <<mem, packet, readError>>

\* recv returns 0
ReadMeetsEnd ==
    /\ Reading({"read", "skip"}, "in") /\ array = <<>> /\ wire = <<>> /\ closed
    /\ ReadThrows("closed")

-----------------------------------------------------------------------------
(* CompressedInput *)

\* DoNext
ReadDecompressed ==
    /\ Reading({"read", "skip"}, "zip")
    /\ IF mem = <<>>
       THEN reads' = <<Decompress>> \o reads /\ UNCHANGED <<mem, frame, got>>
       ELSE LET n == Least(ReadTop.n, Len(mem))
            IN  mem' = SubSeq(mem, n + 1, Len(mem)) /\ Deliver(SubSeq(mem, 1, n))
    /\ UNCHANGED <<array, packet, readError, wire>>

\* Decompress reads hash and method,
DecompressBegins ==
    /\ Reading({"decompress"}, "zip")
    /\ reads' = <<ReadFrame(1), ReadFrame(1), GoOn>> \o Tail(reads)
    /\ frame' = <<>>
    /\ UNCHANGED <<array, mem, packet, got, readError, wire>>

\* the compressed and the original size,
DecompressReadsSizes ==
    /\ Reading({"go on"}, "zip") /\ Len(frame) = 2
    /\ IF frame[2] # Lz4
       THEN ReadThrows("method")
       ELSE /\ reads' = <<ReadFrame(1), ReadFrame(1)>> \o reads
            /\ UNCHANGED <<array, mem, frame, packet, got, readError, wire>>

\* as much data as the first of them says,
DecompressReadsData ==
    /\ Reading({"go on"}, "zip") /\ Len(frame) = 4
    /\ IF frame[3][1] > MaxFrame
       THEN ReadThrows("too big")
       ELSE /\ reads' = <<ReadFrame(frame[3][1] - HeaderSize)>> \o reads
            /\ UNCHANGED <<array, mem, frame, packet, got, readError, wire>>

\* checks the hash of all that follows it, and unpacks the data.
DecompressEnds ==
    /\ Reading({"go on"}, "zip") /\ Len(frame) > 4
    /\ IF CityHash128(Tail(frame)) # frame[1]
       THEN ReadThrows("corrupted")
       ELSE /\ mem' = SubSeq(Unpacked(SubSeq(frame, 5, Len(frame))), 1, frame[4][1])
            /\ reads' = Tail(reads) /\ frame' = <<>>
            /\ UNCHANGED <<array, packet, got, readError, wire>>

-----------------------------------------------------------------------------
(* The client's calls *)

\* ReceivePacket: the code says what follows.
PacketBegins ==
    /\ reads = <<>> /\ packet = Idle /\ readError = "none" /\ taken < Len(packets)
    /\ packet' = packets[taken + 1]
    /\ reads' = <<Read("in", 1)>>
    /\ UNCHANGED <<array, mem, frame, taken, got, readError, wire>>

\* A field of the block is read or skipped, through a CompressedInput if
\* compression is on (ReceiveData, ReadBlock).
FieldBegins ==
    /\ reads = <<>> /\ packet # Idle
    /\ LET from == IF compression THEN "zip" ELSE "in"
       IN  \E n \in Lengths :
             /\ n <= packet
             /\ packet' = packet - n
             /\ reads' \in {<<Read(from, n)>>, <<Skip(from, n)>>}
    /\ UNCHANGED <<array, mem, frame, taken, got, readError, wire>>

\* The end of ReceiveData, with the destructor of CompressedInput.
PacketEnds ==
    /\ reads = <<>> /\ packet = 0
    /\ IF mem # <<>>
       THEN ReadThrows("not read") /\ UNCHANGED taken
       ELSE /\ packet' = Idle /\ taken' = taken + 1
            /\ UNCHANGED <<array, mem, frame, reads, got, readError, wire>>

-----------------------------------------------------------------------------
InInit ==
    /\ array = <<>> /\ mem = <<>> /\ frame = <<>> /\ reads = <<>> /\ packet = Idle
    /\ taken = 0 /\ got = <<>> /\ readError = "none" /\ closed = FALSE

InSteps ==
    \/ /\ \/ ReadBuffered \/ ReadReceives \/ ReadMeetsEnd \/ ReadDecompressed
          \/ DecompressBegins \/ DecompressReadsSizes \/ DecompressReadsData \/ DecompressEnds
       /\ UNCHANGED taken
    \/ PacketBegins \/ FieldBegins \/ PacketEnds

\* The peer closes the connection, or dies.  What it had sent can still be
\* received; to the reader, losing some of that is an earlier end.
Break ==
    /\ ~closed /\ closed' = TRUE
    /\ calls' = <<>> /\ buffer' = [to \in Streams |-> <<>>] /\ room' = 0
    /\ UNCHANGED <<compression, chunk, written, packets, writeError, wire>>
    /\ UNCHANGED <<array, mem, frame, reads, packet, taken, got, readError>>

Init == OutInit /\ InInit /\ wire = <<>>

Peer   == ~closed /\ OutNext /\ UNCHANGED inVars
Reader == InSteps /\ UNCHANGED <<outVars, closed>>

Next == Peer \/ Reader \/ Break

Spec == Init /\ [][Next]_vars

-----------------------------------------------------------------------------
TypeOK ==
    /\ \A to \in Streams : Len(buffer[to]) <= Size(to)
    /\ room \in Nat /\ written \in Nat /\ taken \in 0 .. Len(packets)
    /\ Len(array) <= InSize
    /\ packet \in Nat \cup {Idle}
    /\ closed \in BOOLEAN /\ compression \in BOOLEAN

\* What the application reads is what was written, in order, without a gap:
\* however send and recv split the bytes, whichever of them pass the buffers
\* by, wherever the frames begin, and wherever a write failed; and no buffer
\* is overrun.
\* The state keeps its types.
BytesInOrder == TypeOK /\ got = Bytes(0, Len(got)) /\ Len(got) <= written

\* The reader never waits for bytes that nobody is about to send: when the
\* peer's call has returned, all of the packet is on its way.  The end of a
\* block flushes the stream of frames, the end of the packet flushes output_.
ReaderNotStranded ==
    ~ /\ calls = <<>> /\ writeError = "none" /\ ~closed
      /\ Reading({"read", "skip"}, "in") /\ array = <<>> /\ wire = <<>>

\* Reading and writing fail only where the connection does, as long as no write
\* is longer than the codec takes and no frame longer than its reader does, the
\* longest ones included (compressed.cpp:81, 235).  In particular every frame
\* fits the buffer it is compressed into, its hash is right, and a block ends
\* where a frame ends, so that ~CompressedInput has nothing to complain of.
OnlyTheConnectionFails ==
    writeError \in {"none", "send"} /\ readError \in {"none", "closed"}
=============================================================================
