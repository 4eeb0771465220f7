----------------------------- MODULE OrderedQueue -----------------------------
(***************************************************************************)
(* What FuturesOrdered promises: futures complete in any order, but their  *)
(* outputs leave in the order of the queue, to whose two ends futures are  *)
(* pushed; "none" is answered only when nothing is left.  A future that     *)
(* panics leaves a gap, which nothing behind it gets past: what is left is *)
(* then answered with "none" as soon as nothing of it is still at work.    *)
(***************************************************************************)
EXTENDS Sequences

CONSTANTS Futures, NoFuture

VARIABLES order,    \* the futures pushed and not yielded, first to leave first;
                    \* NoFuture is a gap
          unused,   \* the futures not pushed yet
          done,     \* the futures that have completed
          over,     \* the stream has announced its end and holds nothing
          answer    \* what poll_next returned last: a future stands for its output

queueVars == <<order, unused, done, over, answer>>

Answers == [kind: {"None", "Pending", "End", "Output"}, data: Futures \cup {NoFuture}]

QueueInit ==
    /\ order = <<>>
    /\ unused = Futures
    /\ done = {}
    /\ over = FALSE
    /\ answer = [kind |-> "None", data |-> NoFuture]

AtBack(f) ==
    /\ f \in unused
    /\ unused' = unused \ {f}
    /\ order' = Append(order, f)
    /\ over' = FALSE
    /\ UNCHANGED <<done, answer>>

AtFront(f) ==
    /\ f \in unused
    /\ unused' = unused \ {f}
    /\ order' = <<f>> \o order
    /\ over' = FALSE
    /\ UNCHANGED <<done, answer>>

Completes(f) ==
    /\ f \notin unused
    /\ done' = done \cup {f}
    /\ UNCHANGED <<order, unused, answer, over>>

Loses(f) ==
    /\ f \notin done
    /\ \E i \in DOMAIN order : order[i] = f /\ order' = [order EXCEPT ![i] = NoFuture]
    /\ answer' = [kind |-> "None", data |-> NoFuture]
    /\ UNCHANGED <<unused, done, over>>

Yield ==
    /\ order # <<>>
    /\ Head(order) \in done
    /\ answer' = [kind |-> "Output", data |-> Head(order)]
    /\ order' = Tail(order)
    /\ UNCHANGED <<unused, done, over>>

\* "Pending" is never wrong: the consumer is woken and asks again.
Pend ==
    /\ answer' = [kind |-> "Pending", data |-> NoFuture]
    /\ UNCHANGED <<order, unused, done, over>>

End ==
    /\ order # <<>> => Head(order) = NoFuture
    /\ \A i \in DOMAIN order : order[i] \in done \cup {NoFuture}
    /\ over' = (\A i \in DOMAIN order : order[i] = NoFuture)
    /\ answer' = [kind |-> "End", data |-> NoFuture]
    /\ UNCHANGED <<order, unused, done>>

QueueNext ==
    \/ \E f \in Futures : AtBack(f) \/ AtFront(f) \/ Completes(f) \/ Loses(f)
    \/ Yield \/ Pend \/ End

QueueSpec == QueueInit /\ [][QueueNext]_queueVars
=============================================================================
