---------------------------- MODULE FuturesOrdered ----------------------------
(***************************************************************************)
(* futures_ordered.rs: futures tagged with an index run in a               *)
(* FuturesUnordered; outputs that come too early wait in a heap until the  *)
(* outgoing index reaches them.  The FuturesUnordered inside is taken at   *)
(* its word (see FutureSet): its poll_next answers with some               *)
(* completed future, with "none" only when it holds none, and with         *)
(* "pending" at any time, since it gives way while an enqueue is under     *)
(* way, be it that of a released task.  Indices are i64 in the code; the   *)
(* bound on Futures keeps them far from overflow.                          *)
(***************************************************************************)
EXTENDS Integers, Sequences, FiniteSets

CONSTANTS Futures, NoFuture

ASSUME OrderedAssumption == NoFuture \notin Futures

VARIABLES
    inProgress,         \* in_progress_queue: futures with their indices
    innerOver,          \* is_terminated of in_progress_queue
    outputs,            \* queued_outputs: outputs with their indices
    nextIncoming, nextOutgoing,
    unused, done, answer, \* see OrderedQueue
    polling,            \* inside the loop of poll_next
    lost                \* history: the futures that panicked

vars == <<inProgress, innerOver, outputs, nextIncoming, nextOutgoing, unused, done, answer, polling, lost>>

Entry(f, i) == [data |-> f, index |-> i]

Init ==
    /\ inProgress = {}
    /\ innerOver = FALSE
    /\ outputs = {}
    /\ nextIncoming = 0
    /\ nextOutgoing = 0
    /\ unused = Futures
    /\ done = {}
    /\ answer = [kind |-> "None", data |-> NoFuture]
    /\ polling = FALSE
    /\ lost = {}

PushBack(f) ==
    /\ ~polling
    /\ f \in unused
    /\ unused' = unused \ {f}
    /\ inProgress' = inProgress \cup {Entry(f, nextIncoming)}
    /\ nextIncoming' = nextIncoming + 1
    /\ innerOver' = FALSE
    /\ UNCHANGED <<outputs, nextOutgoing, done, answer, polling, lost>>

\* Mutant of PushFront: the index of the next output is used, not the one before.
PushFrontCollides(f) ==
    /\ ~polling
    /\ f \in unused
    /\ unused' = unused \ {f}
    /\ inProgress' = inProgress \cup {Entry(f, nextOutgoing)}
    /\ nextOutgoing' = nextOutgoing - 1
    /\ innerOver' = FALSE
    /\ UNCHANGED <<outputs, nextIncoming, done, answer, polling, lost>>

\* Mutant of PushFront: the index is taken from the wrong counter.
PushFrontOfIncoming(f) ==
    /\ ~polling
    /\ f \in unused
    /\ unused' = unused \ {f}
    /\ inProgress' = inProgress \cup {Entry(f, nextIncoming - 1)}
    /\ nextIncoming' = nextIncoming - 1
    /\ innerOver' = FALSE
    /\ UNCHANGED <<outputs, nextOutgoing, done, answer, polling, lost>>

PushFront(f) ==
    /\ ~polling
    /\ f \in unused
    /\ unused' = unused \ {f}
    /\ inProgress' = inProgress \cup {Entry(f, nextOutgoing - 1)}
    /\ nextOutgoing' = nextOutgoing - 1
    /\ innerOver' = FALSE
    /\ UNCHANGED <<outputs, nextIncoming, done, answer, polling, lost>>

\* A future is ready with its output, on whatever thread it works.
Complete(f) ==
    /\ \E e \in inProgress : e.data = f
    /\ f \notin done
    /\ done' = done \cup {f}
    /\ UNCHANGED <<inProgress, innerOver, outputs, nextIncoming, nextOutgoing, unused, answer, polling, lost>>

Answer(kind, f) ==
    /\ answer' = [kind |-> kind, data |-> f]
    /\ polling' = FALSE

\* The heap compares indices backwards: its top is the smallest one.
Top(e) == e \in outputs /\ \A d \in outputs : e.index <= d.index

\* Mutant of PollNext: the heap is never looked at.
PollNextNoHeap ==
    /\ ~polling
    /\ polling' = TRUE
    /\ UNCHANGED <<inProgress, innerOver, outputs, nextIncoming, nextOutgoing, unused, done, answer, lost>>

PollNext ==
    /\ ~polling
    /\ \/ \E e \in outputs :
             /\ Top(e)
             /\ e.index = nextOutgoing
             /\ outputs' = outputs \ {e}
             /\ nextOutgoing' = nextOutgoing + 1
             /\ Answer("Output", e.data)
       \/ /\ \A e \in outputs : Top(e) => e.index # nextOutgoing
          /\ polling' = TRUE
          /\ UNCHANGED <<outputs, nextOutgoing, answer>>
    /\ UNCHANGED <<inProgress, innerOver, nextIncoming, unused, done, lost>>

InTurn ==
    /\ polling
    /\ \E e \in inProgress :
          /\ e.data \in done
          /\ e.index = nextOutgoing
          /\ inProgress' = inProgress \ {e}
          /\ nextOutgoing' = nextOutgoing + 1
          /\ Answer("Output", e.data)
    /\ UNCHANGED <<innerOver, outputs, nextIncoming, unused, done, lost>>

TooEarly ==
    /\ polling
    /\ \E e \in inProgress :
          /\ e.data \in done
          /\ e.index # nextOutgoing
          /\ inProgress' = inProgress \ {e}
          /\ outputs' = outputs \cup {e}
    /\ UNCHANGED <<innerOver, nextIncoming, nextOutgoing, unused, done, answer, polling, lost>>

OnPending ==
    /\ polling
    /\ Answer("Pending", NoFuture)
    /\ UNCHANGED <<inProgress, innerOver, outputs, nextIncoming, nextOutgoing, unused, done, lost>>

OnNone ==
    /\ polling
    /\ inProgress = {}
    /\ innerOver' = TRUE
    /\ Answer("End", NoFuture)
    /\ UNCHANGED <<inProgress, outputs, nextIncoming, nextOutgoing, unused, done, lost>>

\* A panic of a future leaves poll_next; FuturesUnordered has released the
\* future, and its index with it.
OnPanic ==
    /\ polling
    /\ \E e \in inProgress :
          /\ e.data \notin done
          /\ inProgress' = inProgress \ {e}
          /\ lost' = lost \cup {e.data}
    /\ Answer("None", NoFuture)
    /\ UNCHANGED <<innerOver, outputs, nextIncoming, nextOutgoing, unused, done>>

\* The futures inside the loop of poll_next.
PollStep == InTurn \/ TooEarly \/ OnPending \/ OnNone \/ OnPanic

Next ==
    \/ \E f \in Futures : PushBack(f) \/ PushFront(f) \/ Complete(f)
    \/ PollNext \/ PollStep

Spec == Init /\ [][Next]_vars

\* Every future completes, the consumer polls on, and FuturesUnordered hands
\* out a completed future in the end (WakeReachesPoll there).
FairSpec ==
    /\ Spec
    /\ \A f \in Futures : WF_vars(Complete(f))
    /\ WF_vars(PollNext) /\ WF_vars(PollStep)
    /\ SF_vars(InTurn) /\ SF_vars(TooEarly)

-----------------------------------------------------------------------------
(* What the set says of itself *)

Held == inProgress \cup outputs

\* The answer of len, and both bounds of size_hint.
LenOf == Cardinality(inProgress) + Cardinality(outputs)

\* Mutant of IsTerminated: the outputs that wait in the heap are overlooked.
IsTerminatedByInner == innerOver

IsTerminated == innerOver /\ outputs = {}

-----------------------------------------------------------------------------
(* Properties *)

TypeOK ==
    /\ inProgress \subseteq [data: Futures, index: Int]
    /\ outputs \subseteq [data: Futures, index: Int]
    /\ nextIncoming \in Nat /\ nextOutgoing \in Int
    /\ unused \subseteq Futures /\ done \subseteq Futures
    /\ answer \in [kind: {"None", "Pending", "End", "Output"}, data: Futures \cup {NoFuture}]
    /\ polling \in BOOLEAN /\ innerOver \in BOOLEAN /\ lost \subseteq Futures

\* Every index between the two counters is held by one future or output, or was
\* that of a future that panicked: pushes at the two ends never collide, and the
\* outgoing index waits for ever for nothing but a panic's gap; `len` counts what
\* is held (push_back, push_front, poll_next, len).
IndicesExact ==
    /\ \A e \in Held : e.index \in nextOutgoing .. nextIncoming - 1
    /\ \A d, e \in Held : d.index = e.index \/ d.data = e.data => d = e
    /\ LenOf + Cardinality(lost) = nextIncoming - nextOutgoing

\* What is held at an index; the queue, from the outgoing index on.
Slot(entries, index) ==
    IF \E e \in entries : e.index = index
    THEN CHOOSE f \in Futures : Entry(f, index) \in entries
    ELSE NoFuture

Order == [i \in 1 .. nextIncoming - nextOutgoing |-> Slot(Held, nextOutgoing + i - 1)]

Queue == INSTANCE OrderedQueue WITH order <- Order, over <- IsTerminated

\* FuturesOrdered implements OrderedQueue: outputs leave in queue order, a gap
\* stops what is behind it, and the end is announced only when nothing is at
\* work and nothing can leave; is_terminated is true just then, unless
\* outputs are stuck behind a gap.
RefinesOrderedQueue == Queue!QueueSpec

\* Unless a future panics, every future pushed is yielded, also one whose output
\* waits in the heap for futures pushed in front of it later.
AllYielded == \A f \in Futures : f \notin unused ~> (lost # {} \/ \A e \in Held : e.data # f)

\* futures_ordered.rs, doc of FuturesOrdered: when poll_next returns
\* Ready(None) "the queue is currently not managing any futures".
NoneMeansEmpty == answer.kind = "End" /\ ~polling => outputs = {}
=============================================================================
