------------------------------ MODULE TryBuffered ------------------------------
(***************************************************************************)
(* poll_next of TryBuffered and of TryBufferUnordered                      *)
(* (try_stream/ext/try_buffered.rs, try_buffer_unordered.rs): futures are  *)
(* pulled from a fused source into a queue, which runs them and hands out  *)
(* their results.  The two adaptors differ in the queue only, and the      *)
(* queues are taken at their word: FuturesOrdered (see OrderedQueue) hands *)
(* out the oldest future's result, FuturesUnordered that of any completed  *)
(* future, and both wake the consumer for the futures they have polled.    *)
(***************************************************************************)
EXTENDS TryStreamAdaptor

VARIABLES
    inProgress, \* in_progress_queue, oldest future first
    watched,    \* the futures the queue has polled: they wake the consumer
    len         \* poll_next's local in_progress_queue_len

bufferVars == <<inProgress, watched, len>>

BufferInit ==
    /\ inProgress = <<>>
    /\ watched = {}
    /\ len = 0

Buffered == adaptor \in {"TryBuffered", "TryBufferUnordered"}

InQueue(i) == Contains(inProgress, i)
Completed(i) == given[i].verdict # "none"

\* A future completes on another thread.
Complete(i) ==
    /\ InQueue(i) /\ ~Completed(i)
    /\ \E verdict \in {"keep", "err"} : given' = [given EXCEPT ![i].verdict = verdict]
    /\ notified' = (notified \/ i \in watched)
    /\ UNCHANGED <<setup, left, ended, terminated, waiting, pc, ret, outVars, bufferVars>>

-----------------------------------------------------------------------------
(* The loop that fills the queue *)

\* It tests the length read when poll_next was entered; 0 is no limit.
Below == size = 0 \/ len < size

FillOk ==
    /\ Below /\ Gives("Ok")
    /\ inProgress' = Append(inProgress, Next1)
    /\ GoOn
    /\ UNCHANGED <<watched, len>>

FillErr ==
    /\ Below /\ Gives("Err")
    /\ Emit(<<Next1>>, FALSE)
    /\ UNCHANGED bufferVars

ToTake == pc' = "take" /\ UNCHANGED <<ret, outVars, bufferVars>>

\* Mutant of FillStops: the source need not be polled when there is room.
FillStopsAnyway == UNCHANGED sourceVars /\ ToTake

\* The source has nothing now or has ended, or the queue was full.
FillStops ==
    /\ \/ Below /\ (Ends \/ Pends)
       \/ ~Below /\ UNCHANGED sourceVars
    /\ ToTake

-----------------------------------------------------------------------------
(* The queue is asked for a result *)

\* The k-th future's result can be handed out.
Available(k) ==
    /\ k \in DOMAIN inProgress /\ Completed(inProgress[k])
    /\ adaptor = "TryBuffered" => k = 1

TakeItem(k) ==
    /\ Available(k)
    /\ inProgress' = RemoveAt(inProgress, k)
    /\ Emit(<<inProgress[k]>>, given[inProgress[k]].verdict = "keep")
    /\ UNCHANGED <<sourceVars, watched, len, notified>>

\* Mutant of TakePending: the consumer's waker does not reach the futures.
TakePendingUnwatched ==
    /\ inProgress # <<>>
    /\ \A k \in DOMAIN inProgress : ~Available(k)
    /\ Answer("Pending")
    /\ UNCHANGED <<sourceVars, bufferVars, notified>>

\* The queue may give way before it has found a completed future, or found that
\* it holds none; it wakes the consumer then.
TakePending ==
    /\ watched' = watched \cup ToSet(inProgress)
    /\ \E again \in BOOLEAN :
          /\ inProgress = <<>> \/ (\E k \in DOMAIN inProgress : Available(k)) => again
          /\ notified' = (notified \/ again)
    /\ Answer("Pending")
    /\ UNCHANGED <<sourceVars, inProgress, len>>

\* Mutant of TakeNone: the source is not asked whether it has ended.
TakeNoneNeverEnds ==
    /\ inProgress = <<>>
    /\ Answer("Pending")
    /\ UNCHANGED <<sourceVars, bufferVars, notified>>

TakeNone ==
    /\ inProgress = <<>>
    /\ Answer(IF FuseTerminated THEN "End" ELSE "Pending")
    /\ UNCHANGED <<sourceVars, bufferVars, notified>>

BufferedTerminated == FuseTerminated /\ inProgress = <<>>

BufferStep ==
    /\ Buffered
    /\ \/ pc = "poll" /\ (FillOk \/ FillErr \/ FillStops) /\ UNCHANGED notified
       \/ pc = "take" /\ (TakePending \/ TakeNone \/ \E k \in DOMAIN inProgress : TakeItem(k))
=============================================================================
