----------------------------- MODULE IntoAsyncRead -----------------------------
(***************************************************************************)
(* poll_read, poll_fill_buf and consume of try_stream/ext/                 *)
(* into_async_read.rs: the chunks of a stream are read as bytes, copied    *)
(* into the caller's buffer or lent and then consumed.  A byte is the      *)
(* chunk's entry and its place in the chunk.                               *)
(***************************************************************************)
EXTENDS TryStreamSource

VARIABLES
    reading,     \* ReadState: "Ready", "PendingChunk", "Eof"
    chunk_start, \* bytes of the current chunk, the last given, that are read
    lengths,     \* of the chunks given (an error has none)
    op, room,    \* the call made last, and buf.remaining()
    got,         \* the bytes it has returned
    read,        \* history: the bytes read or consumed
    lent         \* bytes of the slice of poll_fill_buf not consumed yet

readVars == <<reading, chunk_start, lengths, op, room, got, read, lent>>

ReadInit ==
    /\ reading = "PendingChunk"
    /\ chunk_start = 0
    /\ lengths = <<>>
    /\ op = "read" /\ room = 0
    /\ got = <<>> /\ read = <<>>
    /\ lent = 0

Bytes(i, from, to) == [k \in 1 .. to - from |-> <<i, from + k>>]
Chunk == Len(lengths)
Available == Bytes(Chunk, chunk_start, lengths[Chunk])

-----------------------------------------------------------------------------

\* The caller calls poll_read with room for so many bytes, or poll_fill_buf;
\* a slice lent before is given back.
Call(o, r) ==
    /\ CallPoll
    /\ op' = o /\ room' = r
    /\ got' = <<>>
    /\ lent' = 0
    /\ UNCHANGED <<reading, chunk_start, lengths, read>>

\* Mutant of Advance: the chunk's end is missed.
AdvanceLate(n) ==
    IF chunk_start + n > lengths[Chunk]
    THEN reading' = "PendingChunk" /\ chunk_start' = 0
    ELSE chunk_start' = chunk_start + n /\ UNCHANGED reading

\* After so many bytes; a chunk read to its end is left.
Advance(n) ==
    IF chunk_start + n >= lengths[Chunk]
    THEN reading' = "PendingChunk" /\ chunk_start' = 0
    ELSE chunk_start' = chunk_start + n /\ UNCHANGED reading

\* poll_read copies what there is room for.
ReadChunk ==
    /\ op = "read" /\ reading = "Ready"
    /\ LET len == IF room < Len(Available) THEN room ELSE Len(Available) IN
          /\ got' = SubSeq(Available, 1, len)
          /\ read' = read \o got'
          /\ Advance(len)
    /\ Return("Ok")
    /\ UNCHANGED <<sourceVars, lengths, op, room, lent>>

\* poll_fill_buf lends the rest of the chunk.
FillChunk ==
    /\ op = "fill" /\ reading = "Ready"
    /\ got' = Available
    /\ lent' = Len(Available)
    /\ Return("Ok")
    /\ UNCHANGED <<sourceVars, reading, chunk_start, lengths, op, room, read>>

\* Mutant of NextChunk: an empty chunk is made current.
NextChunkEmpty ==
    /\ reading = "PendingChunk"
    /\ \/ /\ Gives("Ok")
          /\ \E n \in Sizes : lengths' = Append(lengths, n)
          /\ reading' = "Ready"
          /\ Loop
       \/ /\ Gives("Err") /\ lengths' = Append(lengths, 0)
          /\ reading' = "Eof" /\ Return("Err")
       \/ Ends /\ reading' = "Eof" /\ Return("Ok") /\ UNCHANGED lengths
       \/ Pends /\ Return("Pending") /\ UNCHANGED <<reading, lengths>>
    /\ UNCHANGED <<chunk_start, op, room, got, read, lent>>

\* Both poll the stream when they have no chunk; an empty chunk is passed over.
NextChunk ==
    /\ reading = "PendingChunk"
    /\ \/ /\ Gives("Ok")
          /\ \E n \in Sizes :
                /\ lengths' = Append(lengths, n)
                /\ reading' = IF n > 0 THEN "Ready" ELSE "PendingChunk"
          /\ Loop
       \/ /\ Gives("Err") /\ lengths' = Append(lengths, 0)
          /\ reading' = "Eof" /\ Return("Err")
       \/ Ends /\ reading' = "Eof" /\ Return("Ok") /\ UNCHANGED lengths
       \/ Pends /\ Return("Pending") /\ UNCHANGED <<reading, lengths>>
    /\ UNCHANGED <<chunk_start, op, room, got, read, lent>>

AtEof ==
    /\ reading = "Eof"
    /\ Return("Ok")
    /\ UNCHANGED <<sourceVars, readVars>>

ReadStep ==
    /\ adaptor = "IntoAsyncRead" /\ pc = "poll"
    /\ ReadChunk \/ FillChunk \/ NextChunk \/ AtEof

\* consume of bytes of the slice lent last: the caller's duty.  The two
\* debug_asserts are the "Panic".
Consume(n) ==
    /\ pc = "idle" /\ n \in 1 .. lent
    /\ lent' = lent - n
    /\ IF reading = "Ready" /\ chunk_start + n <= lengths[Chunk]
       THEN /\ read' = read \o SubSeq(Available, 1, n)
            /\ Advance(n)
            /\ UNCHANGED ret
       ELSE ret' = "Panic" /\ UNCHANGED <<reading, chunk_start, read>>
    /\ UNCHANGED <<setup, sourceVars, pc, notified, lengths, op, room, got>>
=============================================================================
