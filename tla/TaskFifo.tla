------------------------------ MODULE TaskFifo ------------------------------
(***************************************************************************)
(* What the ready-to-run queue of FuturesUnordered promises its callers:   *)
(* a first-in first-out queue of tasks, with many enqueuers and a single   *)
(* consumer.  An enqueue takes effect in two steps, `Swap` (the task gets  *)
(* its place) and `Link` (the place becomes reachable), because the        *)
(* consumer can see the difference: a dequeue may answer "empty" although  *)
(* the oldest task has been swapped in but not linked, and "inconsistent"  *)
(* when an enqueue overlapped it.                                          *)
(*                                                                         *)
(* ReadyToRunQueue implements this module; FuturesUnordered is built on    *)
(* its actions.                                                            *)
(***************************************************************************)
EXTENDS Naturals, Sequences

CONSTANTS Tasks,        \* the tasks that can be enqueued
          NoTask        \* the task of a result that carries none

ASSUME TaskFifoAssumption == NoTask \notin Tasks

VARIABLES fifo,         \* the tasks swapped in and not yet dequeued, oldest first
          linking,      \* those whose enqueuer has not stored the link yet
          deq           \* the consumer's call: the current or the last one

fifoVars == <<fifo, linking, deq>>

\* `overlap` records that an enqueue was between its two steps at some moment
\* of the call.
Calls == [busy: BOOLEAN, overlap: BOOLEAN,
          kind: {"None", "Data", "Empty", "Inconsistent"},
          task: Tasks \cup {NoTask}]

Queued(t) == \E i \in 1 .. Len(fifo) : fifo[i] = t

FifoInit ==
    /\ fifo = <<>>
    /\ linking = {}
    /\ deq = [busy |-> FALSE, overlap |-> FALSE, kind |-> "None", task |-> NoTask]

Swap(t) ==
    /\ ~Queued(t)
    /\ fifo' = Append(fifo, t)
    /\ linking' = linking \cup {t}
    /\ deq' = [deq EXCEPT !.overlap = deq.busy]

Link(t) ==
    /\ t \in linking
    /\ linking' = linking \ {t}
    /\ UNCHANGED <<fifo, deq>>

Begin ==
    /\ ~deq.busy
    /\ deq' = [busy |-> TRUE, overlap |-> linking # {},
               kind |-> "None", task |-> NoTask]
    /\ UNCHANGED <<fifo, linking>>

Answer(kind, t) ==
    deq' = [busy |-> FALSE, overlap |-> FALSE, kind |-> kind, task |-> t]

\* The oldest task, and only when its own enqueue is complete.
Data ==
    /\ deq.busy
    /\ fifo # <<>>
    /\ Head(fifo) \notin linking
    /\ Answer("Data", Head(fifo))
    /\ fifo' = Tail(fifo)
    /\ UNCHANGED linking

\* Never while the oldest task is reachable.
Empty ==
    /\ deq.busy
    /\ fifo # <<>> => Head(fifo) \in linking
    /\ Answer("Empty", NoTask)
    /\ UNCHANGED <<fifo, linking>>

\* Only when an enqueue overlapped the call, and never on an empty queue.
Inconsistent ==
    /\ deq.busy
    /\ deq.overlap
    /\ fifo # <<>>
    /\ Answer("Inconsistent", NoTask)
    /\ UNCHANGED <<fifo, linking>>

\* The caller has taken the task it was handed.
Taken ==
    /\ deq.kind = "Data"
    /\ deq' = [deq EXCEPT !.kind = "None", !.task = NoTask]
    /\ UNCHANGED <<fifo, linking>>

FifoNext ==
    \/ \E t \in Tasks : Swap(t) \/ Link(t)
    \/ Begin \/ Data \/ Empty \/ Inconsistent \/ Taken

FifoSpec == FifoInit /\ [][FifoNext]_fifoVars
=============================================================================
