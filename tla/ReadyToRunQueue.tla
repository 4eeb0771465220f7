--------------------------- MODULE ReadyToRunQueue ---------------------------
(***************************************************************************)
(* The intrusive multi-producer single-consumer queue of                   *)
(* futures_unordered/ready_to_run_queue.rs, one action per access to       *)
(* shared memory.  Enqueuers are the threads that run Task::wake_by_ref    *)
(* (or push); the owner is the thread that runs dequeue.  `tail` is only   *)
(* read and written by the owner, so its accesses are merged with the      *)
(* neighbouring shared access.  Atomics are sequentially consistent.       *)
(***************************************************************************)
EXTENDS Naturals, Sequences

CONSTANTS Tasks, Enqueuers, Owner,
          Stub,         \* the task the queue itself owns
          Null, NoTask

ASSUME QueueAssumption ==
    /\ Stub \notin Tasks
    /\ Null \notin Tasks \cup {Stub}
    /\ NoTask \notin Tasks
    /\ Owner \notin Enqueuers

Nodes == Tasks \cup {Stub}
Threads == Enqueuers \cup {Owner}

VARIABLES
    head,       \* the node enqueued last
    tail,       \* the node dequeued next
    next,       \* next_ready_to_run of every node
    queued,     \* the `queued` flag of every task
    pc,         \* where each thread is in `enqueue`
    node, prev, \* the locals `task` and `prev` of `enqueue`
    dpc,        \* where the owner is in `dequeue`
    deq,        \* the dequeue call as its caller sees it (see TaskFifo)
    chain       \* history: the nodes from tail to head, in the order of the swaps

vars == <<head, tail, next, queued, pc, node, prev, dpc, deq, chain>>
enqVars == <<head, next, pc, node, prev, chain>>

InChain(n) == \E i \in 1 .. Len(chain) : chain[i] = n

Linkers == {p \in Threads : pc[p] = "link"}

Init ==
    /\ head = Stub
    /\ tail = Stub
    /\ next = [n \in Nodes |-> Null]
    /\ queued = [t \in Tasks |-> FALSE]
    /\ pc = [p \in Threads |-> "idle"]
    /\ node = [p \in Threads |-> Null]
    /\ prev = [p \in Threads |-> Null]
    /\ dpc = "idle"
    /\ deq = [busy |-> FALSE, overlap |-> FALSE, kind |-> "None", task |-> NoTask]
    /\ chain = <<Stub>>

-----------------------------------------------------------------------------
(* enqueue *)

StartEnqueue(p, n) ==
    /\ pc' = [pc EXCEPT ![p] = "clear"]
    /\ node' = [node EXCEPT ![p] = n]

\* Mutant of Claim: the previous value of the flag is ignored.
ClaimAnyway(p, t) ==
    /\ pc[p] = "idle"
    /\ queued' = [queued EXCEPT ![t] = TRUE]
    /\ StartEnqueue(p, t)
    /\ UNCHANGED <<head, tail, next, prev, dpc, deq, chain>>

\* `queued.swap(true)` returned false: this thread, and no other, enqueues t.
Claim(p, t) ==
    /\ pc[p] = "idle"
    /\ ~queued[t]
    /\ queued' = [queued EXCEPT ![t] = TRUE]
    /\ StartEnqueue(p, t)
    /\ UNCHANGED <<head, tail, next, prev, dpc, deq, chain>>

\* Mutant of ClearNext: the link of the node's last stay is kept.
ClearNextForgotten(p) ==
    /\ pc[p] = "clear"
    /\ pc' = [pc EXCEPT ![p] = "swap"]
    /\ UNCHANGED <<head, tail, next, queued, node, prev, dpc, deq, chain>>

ClearNext(p) ==
    /\ pc[p] = "clear"
    /\ next' = [next EXCEPT ![node[p]] = Null]
    /\ pc' = [pc EXCEPT ![p] = "swap"]
    /\ UNCHANGED <<head, tail, queued, node, prev, dpc, deq, chain>>

SwapHead(p) ==
    /\ pc[p] = "swap"
    /\ prev' = [prev EXCEPT ![p] = head]
    /\ head' = node[p]
    /\ pc' = [pc EXCEPT ![p] = "link"]
    /\ chain' = Append(chain, node[p])
    /\ deq' = IF p = Owner THEN deq ELSE [deq EXCEPT !.overlap = deq.busy]
    /\ UNCHANGED <<tail, next, queued, node, dpc>>

LinkPrev(p) ==
    /\ pc[p] = "link"
    /\ next' = [next EXCEPT ![prev[p]] = node[p]]
    /\ pc' = [pc EXCEPT ![p] = "idle"]
    /\ node' = [node EXCEPT ![p] = Null]
    /\ prev' = [prev EXCEPT ![p] = Null]
    /\ UNCHANGED <<head, tail, queued, dpc, deq, chain>>

Enqueue(p) == ClearNext(p) \/ SwapHead(p) \/ LinkPrev(p)

-----------------------------------------------------------------------------
(* dequeue *)

Answer(kind, t) ==
    /\ dpc' = "idle"
    /\ deq' = [busy |-> FALSE, overlap |-> FALSE, kind |-> kind, task |-> t]

\* Mutant of Hand: the tail is not moved on.
HandKeepsTail ==
    /\ tail' = tail
    /\ chain' = Tail(chain)
    /\ Answer("Data", tail)

\* The old tail is handed out and its successor becomes the tail.
Hand ==
    /\ tail' = next[tail]
    /\ chain' = Tail(chain)
    /\ Answer("Data", tail)

StartDequeue ==
    /\ dpc = "idle"
    /\ dpc' = "first"
    /\ deq' = [busy |-> TRUE, overlap |-> Linkers # {}, kind |-> "None", task |-> NoTask]
    /\ UNCHANGED <<head, tail, next, queued, pc, node, prev, chain>>

\* Mutant of FirstEmpty: the stub at the tail is taken for an empty queue.
FirstEmptyUnlooked ==
    /\ dpc = "first"
    /\ tail = Stub
    /\ Answer("Empty", NoTask)
    /\ UNCHANGED <<tail, queued, enqVars>>

FirstEmpty ==
    /\ dpc = "first"
    /\ tail = Stub
    /\ next[tail] = Null
    /\ Answer("Empty", NoTask)
    /\ UNCHANGED <<tail, queued, enqVars>>

SkipStub ==
    /\ dpc = "first"
    /\ tail = Stub
    /\ next[tail] # Null
    /\ tail' = next[tail]
    /\ chain' = Tail(chain)
    /\ dpc' = "second"
    /\ UNCHANGED <<head, next, queued, pc, node, prev, deq>>

\* The read of the tail's successor: the first one, or the second one when the
\* tail was the stub.
AtTask == (dpc = "first" /\ tail # Stub) \/ dpc = "second"

HandFirst ==
    /\ AtTask
    /\ next[tail] # Null
    /\ Hand
    /\ UNCHANGED <<head, next, queued, pc, node, prev>>

NoSuccessor ==
    /\ AtTask
    /\ next[tail] = Null
    /\ dpc' = "head"
    /\ UNCHANGED <<tail, queued, deq, enqVars>>

\* Mutant of HeadMoved: "inconsistent" although no enqueue is under way.
HeadMovedAlways ==
    /\ dpc = "head"
    /\ Answer("Inconsistent", NoTask)
    /\ UNCHANGED <<tail, queued, enqVars>>

HeadMoved ==
    /\ dpc = "head"
    /\ head # tail
    /\ Answer("Inconsistent", NoTask)
    /\ UNCHANGED <<tail, queued, enqVars>>

EnqueueStub ==
    /\ dpc = "head"
    /\ head = tail
    /\ dpc' = "stub"
    /\ StartEnqueue(Owner, Stub)
    /\ UNCHANGED <<head, tail, next, queued, prev, deq, chain>>

HandLast ==
    /\ dpc = "stub" /\ pc[Owner] = "idle"
    /\ next[tail] # Null
    /\ Hand
    /\ UNCHANGED <<head, next, queued, pc, node, prev>>

StillPending ==
    /\ dpc = "stub" /\ pc[Owner] = "idle"
    /\ next[tail] = Null
    /\ Answer("Inconsistent", NoTask)
    /\ UNCHANGED <<tail, queued, enqVars>>

Dequeue ==
    \/ FirstEmpty \/ SkipStub \/ HandFirst \/ NoSuccessor
    \/ HeadMoved \/ EnqueueStub \/ HandLast \/ StillPending

\* poll_next clears the flag of the task it was handed before polling it (a
\* released task keeps it and never comes back).
Unqueue ==
    /\ dpc = "idle"
    /\ deq.kind = "Data"
    /\ queued' = [queued EXCEPT ![deq.task] = FALSE]
    /\ deq' = [deq EXCEPT !.kind = "None", !.task = NoTask]
    /\ UNCHANGED <<tail, dpc, enqVars>>

Next ==
    \/ \E p \in Enqueuers, t \in Tasks : Claim(p, t)
    \/ \E p \in Threads : Enqueue(p)
    \/ StartDequeue \/ Dequeue \/ Unqueue

Spec == Init /\ [][Next]_vars

\* A thread inside enqueue or dequeue keeps running, and the owner dequeues
\* again and again; nobody has to claim a task.
Fairness ==
    /\ \A p \in Threads : WF_vars(Enqueue(p))
    /\ WF_vars(StartDequeue)
    /\ WF_vars(Dequeue)

FairSpec == Spec /\ Fairness

-----------------------------------------------------------------------------
(* Properties *)

TypeOK ==
    /\ head \in Nodes
    /\ tail \in Nodes
    /\ next \in [Nodes -> Nodes \cup {Null}]
    /\ queued \in [Tasks -> BOOLEAN]
    /\ pc \in [Threads -> {"idle", "clear", "swap", "link"}]
    /\ node \in [Threads -> Nodes \cup {Null}]
    /\ prev \in [Threads -> Nodes \cup {Null}]
    /\ dpc \in {"idle", "first", "second", "head", "stub"}
    /\ deq \in [busy: BOOLEAN, overlap: BOOLEAN,
                kind: {"None", "Data", "Empty", "Inconsistent"},
                task: Tasks \cup {NoTask}]
    /\ chain \in Seq(Nodes)

\* Thread p is about to store the link from a to b.
LinkDue(p, a, b) == pc[p] = "link" /\ prev[p] = a /\ node[p] = b

\* Every node swapped in stays on the way from tail to head: each node's
\* successor is stored, or one thread is about to store it and the field is
\* still null (enqueue and dequeue, ready_to_run_queue.rs).
ChainIntact ==
    /\ Len(chain) >= 1
    /\ chain[1] = tail
    /\ chain[Len(chain)] = head
    /\ next[head] = Null
    /\ \A i, j \in 1 .. Len(chain) : i # j => chain[i] # chain[j]
    /\ \A i \in 1 .. Len(chain) - 1 :
          \/ next[chain[i]] = chain[i + 1]
          \/ /\ next[chain[i]] = Null
             /\ \E p \in Threads : LinkDue(p, chain[i], chain[i + 1])

\* The stub goes back into the queue only while it is outside it, however the
\* wakers' swaps fall between the check of `head` and the stub's own swap
\* (dequeue); a second copy would cut off the tasks between the two.
StubOutsideWhenEnqueued ==
    pc[Owner] \in {"clear", "swap"} => ~InChain(Stub)

\* A task whose flag is clear is neither in the queue nor on its way in, and no
\* two threads enqueue the same node: what lets enqueue write the node's link
\* without coordination (the debug_assert of enqueue and Task::wake_by_ref).
OneEnqueuer ==
    /\ \A t \in Tasks : ~queued[t] => /\ ~InChain(t)
                                      /\ \A p \in Threads : node[p] # t
    /\ \A p, q \in Threads : p # q /\ node[p] # Null => node[p] # node[q]
    /\ \A p \in Enqueuers : pc[p] \in {"clear", "swap"} => ~InChain(node[p])

\* The inductive invariant adds what the locals of the two functions say.
EnqueueLocals ==
    /\ \A p \in Threads : pc[p] = "idle" <=> node[p] = Null
    /\ \A p \in Threads : pc[p] = "swap" => next[node[p]] = Null
    /\ \A p \in Threads : pc[p] = "link" =>
          \E i \in 1 .. Len(chain) - 1 :
             /\ chain[i] = prev[p] /\ chain[i + 1] = node[p]
             /\ next[chain[i]] = Null
    /\ \A p \in Enqueuers : node[p] # Stub
    /\ node[Owner] \in {Null, Stub}
    /\ node[Owner] = Stub => dpc = "stub"

DequeueLocals ==
    /\ dpc \in {"second", "head", "stub"} => tail # Stub
    /\ dpc = "second" => ~InChain(Stub)
    /\ dpc = "stub" /\ pc[Owner] \in {"link", "idle"} => InChain(Stub)
    /\ dpc = "head" /\ head # tail => deq.overlap
    /\ deq.busy <=> dpc # "idle"
    /\ deq.busy /\ Linkers \ {Owner} # {} => deq.overlap
    /\ deq.busy => deq.kind = "None"
    /\ deq.kind = "Data" => /\ deq.task \in Tasks /\ queued[deq.task]
                            /\ ~InChain(deq.task)
                            /\ \A p \in Threads : node[p] # deq.task

QueueInv ==
    /\ TypeOK
    /\ ChainIntact
    /\ StubOutsideWhenEnqueued
    /\ OneEnqueuer
    /\ EnqueueLocals
    /\ DequeueLocals

\* The tasks of the chain: the queue as a caller sees it.
TasksOf(s) ==
    IF \E k \in 1 .. Len(s) : s[k] = Stub
    THEN LET k == CHOOSE k \in 1 .. Len(s) : s[k] = Stub
         IN  [i \in 1 .. Len(s) - 1 |-> IF i < k THEN s[i] ELSE s[i + 1]]
    ELSE s

\* The queue implements TaskFifo: tasks come out in the order of their swaps,
\* "empty" is never answered while the oldest task is reachable, and
\* "inconsistent" only when an enqueue overlapped the call.
Fifo == INSTANCE TaskFifo
            WITH fifo <- TasksOf(chain),
                 linking <- {node[p] : p \in Linkers \ {Owner}}

RefinesTaskFifo == Fifo!FifoSpec

\* A claimed task is handed to the owner in the end, although its enqueuer and
\* others can make the dequeue answer "empty" or "inconsistent" on the way.
EveryTaskComesOut ==
    \A t \in Tasks : (\E p \in Threads : node[p] = t) ~> (deq.kind = "Data" /\ deq.task = t)
=============================================================================
