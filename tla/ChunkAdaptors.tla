----------------------------- MODULE ChunkAdaptors -----------------------------
(***************************************************************************)
(* poll_next, is_terminated and size_hint of try_stream/ext/try_chunks.rs  *)
(* and try_ready_chunks.rs.  TryChunks keeps the chunk in a field,         *)
(* TryReadyChunks in a local variable of poll_next; both flush it when the *)
(* source is pending, fails or ends, and keep the source's error for the   *)
(* next call then.                                                         *)
(***************************************************************************)
EXTENDS TryStreamAdaptor

VARIABLES
    items,   \* the chunk collected so far
    stash    \* pending_error, empty or one entry

chunkVars == <<items, stash>>

ChunkInit == items = <<>> /\ stash = <<>>

Chunked == adaptor \in {"TryChunks", "TryReadyChunks"}

-----------------------------------------------------------------------------

TakeStash ==
    /\ stash # <<>>
    /\ Emit(stash, FALSE)
    /\ stash' = <<>>
    /\ UNCHANGED <<sourceVars, items>>

Collect ==
    /\ Gives("Ok")
    /\ LET chunk == Append(items, Next1) IN
          IF Len(chunk) >= size THEN Emit(chunk, TRUE) /\ items' = <<>>
                                ELSE GoOn /\ items' = chunk
    /\ UNCHANGED stash

Flush == Emit(items, TRUE) /\ items' = <<>>

\* Mutant of OnError: the error comes before the items.
OnErrorFirst ==
    /\ Gives("Err")
    /\ Emit(<<Next1>>, FALSE)
    /\ UNCHANGED <<items, stash>>

\* The items go first, the error is kept.
OnError ==
    /\ Gives("Err")
    /\ \/ items = <<>> /\ Emit(<<Next1>>, FALSE) /\ UNCHANGED chunkVars
       \/ items # <<>> /\ Flush /\ stash' = <<Next1>>

OnEnd ==
    /\ Ends
    /\ \/ items = <<>> /\ Answer("End") /\ UNCHANGED items
       \/ items # <<>> /\ Flush
    /\ UNCHANGED stash

OnPending ==
    /\ Pends
    /\ \/ items = <<>> /\ Answer("Pending") /\ UNCHANGED items
       \/ items # <<>> /\ Flush
    /\ UNCHANGED stash

Turn == TakeStash \/ (stash = <<>> /\ (Collect \/ OnError \/ OnEnd \/ OnPending))

TryChunks == adaptor = "TryChunks" /\ Turn
TryReadyChunks == adaptor = "TryReadyChunks" /\ Turn

TryChunksTerminated == FuseTerminated /\ items = <<>>
TryReadyChunksTerminated == FuseTerminated

\* The upper bound leaves out the stashed error.
TryChunksHint ==
    LET chunk_len == IF items = <<>> THEN 0 ELSE 1 IN
    [lower |-> (left \div size) + chunk_len, upper |-> {left + chunk_len}]
TryReadyChunksHint == [lower |-> left \div size, upper |-> {left}]

ChunkStep ==
    /\ pc = "poll"
    /\ TryChunks \/ TryReadyChunks
    /\ UNCHANGED notified
=============================================================================
