--------------------------- MODULE FuturesUnordered ---------------------------
(***************************************************************************)
(* futures_unordered/mod.rs and task.rs: the owner of the set pushes       *)
(* futures, runs poll_next and finally drops the set (or turns it into an  *)
(* iterator), while other threads run Task::wake_by_ref on wakers they     *)
(* were given.  The ready-to-run queue is the one of TaskFifo, which       *)
(* ReadyToRunQueue implements; the list of all tasks is the set `inAll`    *)
(* (only the owner touches it).  One action per access to memory shared    *)
(* with the wakers; what only the owner can see is merged into it.         *)
(***************************************************************************)
EXTENDS TaskFifo, FiniteSets

CONSTANTS Wakers,       \* the threads that wake tasks
          MaxClones     \* bound: waker clones of one task alive at a time

ASSUME UnorderedAssumption == MaxClones \in Nat \ {0}

VARIABLES
    future,             \* per task: not created, present, or taken away
    inAll,              \* the tasks linked in `head_all`
    queued, woken,      \* the two flags of every task
    strong,             \* Arc count of every task; 0 again: freed
    clones,             \* how many of those counts are wakers of the environment
    qstrong,            \* Arc count of the ready-to-run queue; 0: dropped
    registered,         \* the AtomicWaker of the queue holds the parent's waker
    notified,           \* the parent was woken since it was last polled
    opc, cur,           \* the owner: where it is, and its local `task`
    len, polled, yielded, \* locals of poll_next
    ret,                \* what the owner's last call returned
    isTerminated,       \* the stream has answered "none" and nothing was pushed since
    leaked,             \* a future panicked in the set's destructor
    wpc, wtask,         \* each waker thread: where it is, on which task
    owed                \* history: the task was pushed or woken, and not polled since

taskVars == <<future, queued, woken, strong>>
pollVars == <<len, polled, yielded>>
ownerVars == <<inAll, opc, cur, pollVars, ret, isTerminated, leaked>>
wakerVars == <<wpc, wtask>>
parentVars == <<registered, notified>>
vars == <<fifoVars, taskVars, clones, qstrong, parentVars, ownerVars, wakerVars, owed>>

Init ==
    /\ FifoInit
    /\ future = [t \in Tasks |-> "absent"]
    /\ inAll = {}
    /\ queued = [t \in Tasks |-> FALSE]
    /\ woken = [t \in Tasks |-> FALSE]
    /\ strong = [t \in Tasks |-> 0]
    /\ clones = [t \in Tasks |-> 0]
    /\ qstrong = 1
    /\ registered = FALSE
    /\ notified = FALSE
    /\ opc = "idle"
    /\ cur = NoTask
    /\ len = 0 /\ polled = 0 /\ yielded = 0
    /\ ret = "none"
    /\ isTerminated = FALSE
    /\ leaked = FALSE
    /\ wpc = [w \in Wakers |-> "idle"]
    /\ wtask = [w \in Wakers |-> NoTask]
    /\ owed = [t \in Tasks |-> FALSE]

DropArc(t) == strong' = [strong EXCEPT ![t] = @ - 1]

\* The owner's call returns r to its caller.
Return(r) ==
    /\ opc' = "idle"
    /\ ret' = r
    /\ len' = 0 /\ polled' = 0 /\ yielded' = 0

-----------------------------------------------------------------------------
(* push *)

Push(t) ==
    /\ opc = "idle"
    /\ future[t] = "absent"
    /\ future' = [future EXCEPT ![t] = "some"]
    /\ queued' = [queued EXCEPT ![t] = TRUE]
    /\ strong' = [strong EXCEPT ![t] = 1]
    /\ isTerminated' = FALSE
    /\ inAll' = inAll \cup {t}
    /\ cur' = t
    /\ opc' = "pushSwap"
    /\ owed' = [owed EXCEPT ![t] = TRUE]
    /\ UNCHANGED <<fifoVars, woken, clones, qstrong, parentVars, pollVars, ret,
                   leaked, wakerVars>>

PushSwap ==
    /\ opc = "pushSwap"
    /\ Swap(cur)
    /\ opc' = "pushLink"
    /\ UNCHANGED <<taskVars, clones, qstrong, parentVars, inAll, cur, pollVars,
                   ret, isTerminated, leaked, wakerVars, owed>>

PushLink ==
    /\ opc = "pushLink"
    /\ Link(cur)
    /\ cur' = NoTask
    /\ Return("pushed")
    /\ UNCHANGED <<taskVars, clones, qstrong, parentVars, inAll, isTerminated,
                   leaked, wakerVars, owed>>

-----------------------------------------------------------------------------
(* poll_next *)

PollNext ==
    /\ opc = "idle"
    /\ notified' = FALSE
    /\ len' = Cardinality(inAll)
    /\ opc' = "register"
    /\ UNCHANGED <<fifoVars, taskVars, clones, qstrong, registered, inAll, cur,
                   polled, yielded, ret, isTerminated, leaked, wakerVars, owed>>

Register ==
    /\ opc = "register"
    /\ registered' = TRUE
    /\ opc' = "dequeue"
    /\ UNCHANGED <<fifoVars, taskVars, clones, qstrong, notified, inAll, cur,
                   pollVars, ret, isTerminated, leaked, wakerVars, owed>>

CallDequeue ==
    /\ opc = "dequeue"
    /\ Begin
    /\ UNCHANGED <<taskVars, clones, qstrong, parentVars, ownerVars, wakerVars, owed>>

OnEmpty ==
    /\ opc = "dequeue"
    /\ Empty
    /\ Return(IF inAll = {} THEN "done" ELSE "pending")
    /\ isTerminated' = (isTerminated \/ inAll = {})
    /\ UNCHANGED <<taskVars, clones, qstrong, parentVars, inAll, cur, leaked,
                   wakerVars, owed>>

OnInconsistent ==
    /\ opc = "dequeue"
    /\ Inconsistent
    /\ notified' = TRUE
    /\ Return("pending")
    /\ UNCHANGED <<taskVars, clones, qstrong, registered, inAll, cur, isTerminated,
                   leaked, wakerVars, owed>>

\* A task released while it was in the queue: only its Arc is left.
OnReleased ==
    /\ opc = "dequeue"
    /\ Data
    /\ future[Head(fifo)] = "none"
    /\ DropArc(Head(fifo))
    /\ UNCHANGED <<future, queued, woken, clones, qstrong, parentVars, ownerVars,
                   wakerVars, owed>>

OnTask ==
    /\ opc = "dequeue"
    /\ Data
    /\ future[Head(fifo)] # "none"
    /\ cur' = Head(fifo)
    /\ inAll' = inAll \ {Head(fifo)}
    /\ opc' = "unqueue"
    /\ UNCHANGED <<taskVars, clones, qstrong, parentVars, pollVars, ret,
                   isTerminated, leaked, wakerVars, owed>>

\* Mutant of Unqueue: the flag stays set while the future is polled.
UnqueueForgotten ==
    /\ opc = "unqueue"
    /\ opc' = "reset"
    /\ UNCHANGED <<fifoVars, taskVars, clones, qstrong, parentVars, inAll, cur,
                   pollVars, ret, isTerminated, leaked, wakerVars, owed>>

Unqueue ==
    /\ opc = "unqueue"
    /\ queued' = [queued EXCEPT ![cur] = FALSE]
    /\ opc' = "reset"
    /\ UNCHANGED <<fifoVars, future, woken, strong, clones, qstrong, parentVars,
                   inAll, cur, pollVars, ret, isTerminated, leaked, wakerVars,
                   owed>>

ResetWoken ==
    /\ opc = "reset"
    /\ woken' = [woken EXCEPT ![cur] = FALSE]
    /\ owed' = [owed EXCEPT ![cur] = FALSE]
    /\ opc' = "polling"
    /\ UNCHANGED <<fifoVars, future, queued, strong, clones, qstrong, parentVars,
                   inAll, cur, pollVars, ret, isTerminated, leaked, wakerVars>>

\* Mutants of ChildPending: the yield limit is missed by one, the exit does not
\* wake the parent, there is no exit.
LinkAgain ==
    /\ inAll' = inAll \cup {cur}
    /\ cur' = NoTask
    /\ UNCHANGED <<fifoVars, taskVars, clones, qstrong, registered, isTerminated,
                   leaked, wakerVars, owed>>

ChildPendingThirdYield ==
    /\ opc = "polling"
    /\ LinkAgain
    /\ LET y == yielded + (IF woken[cur] THEN 1 ELSE 0)
           p == polled + 1
       IN  IF y > 2 \/ p = len
           THEN notified' = TRUE /\ Return("pending")
           ELSE /\ yielded' = y /\ polled' = p
                /\ opc' = "dequeue"
                /\ UNCHANGED <<len, ret, notified>>

ChildPendingSilentExit ==
    /\ opc = "polling"
    /\ LinkAgain
    /\ IF polled + 1 = len
       THEN UNCHANGED notified /\ Return("pending")
       ELSE /\ polled' = polled + 1
            /\ opc' = "dequeue"
            /\ UNCHANGED <<len, yielded, ret, notified>>

ChildPendingNoExit ==
    /\ opc = "polling"
    /\ LinkAgain
    /\ opc' = "dequeue"
    /\ UNCHANGED <<pollVars, ret, notified>>

ChildPending ==
    /\ opc = "polling"
    /\ inAll' = inAll \cup {cur}
    /\ cur' = NoTask
    /\ LET y == yielded + (IF woken[cur] THEN 1 ELSE 0)
           p == polled + 1
       IN  IF y >= 2 \/ p = len
           THEN notified' = TRUE /\ Return("pending")
           ELSE /\ yielded' = y /\ polled' = p
                /\ opc' = "dequeue"
                /\ UNCHANGED <<len, ret, notified>>
    /\ UNCHANGED <<fifoVars, taskVars, clones, qstrong, registered, isTerminated,
                   leaked, wakerVars, owed>>

\* The bomb releases the task when the child is ready or panics.
ChildDone(r) ==
    /\ opc = "polling"
    /\ opc' = "release"
    /\ ret' = r
    /\ UNCHANGED <<fifoVars, taskVars, clones, qstrong, parentVars, inAll, cur,
                   pollVars, isTerminated, leaked, wakerVars, owed>>

-----------------------------------------------------------------------------
(* release_task, from poll_next and from the destructor *)

\* Mutant of ReleaseSwap: the reference is dropped although the task is queued.
ReleaseSwapIgnored ==
    /\ opc \in {"release", "dropRelease"}
    /\ queued' = [queued EXCEPT ![cur] = TRUE]
    /\ opc' = IF opc = "release" THEN "dropFutureArc" ELSE "clearFutureArc"
    /\ UNCHANGED <<fifoVars, future, woken, strong, clones, qstrong, parentVars,
                   inAll, cur, pollVars, ret, isTerminated, leaked, wakerVars,
                   owed>>

\* The queue keeps the reference of a task that is queued, the owner that of
\* any other.
ReleaseSwap ==
    /\ opc \in {"release", "dropRelease"}
    /\ queued' = [queued EXCEPT ![cur] = TRUE]
    /\ opc' = CASE opc = "release" /\ queued[cur]      -> "dropFuture"
                [] opc = "release" /\ ~queued[cur]     -> "dropFutureArc"
                [] opc = "dropRelease" /\ queued[cur]  -> "clearFuture"
                [] opc = "dropRelease" /\ ~queued[cur] -> "clearFutureArc"
    /\ UNCHANGED <<fifoVars, future, woken, strong, clones, qstrong, parentVars,
                   inAll, cur, pollVars, ret, isTerminated, leaked, wakerVars,
                   owed>>

DropFuture ==
    /\ opc \in {"dropFuture", "dropFutureArc", "clearFuture", "clearFutureArc"}
    /\ future' = [future EXCEPT ![cur] = "none"]
    /\ IF opc \in {"dropFutureArc", "clearFutureArc"} THEN DropArc(cur) ELSE UNCHANGED strong
    /\ owed' = [owed EXCEPT ![cur] = FALSE]
    /\ cur' = NoTask

ReleaseDone ==
    /\ opc \in {"dropFuture", "dropFutureArc"}
    /\ DropFuture
    /\ Return(ret)
    /\ UNCHANGED <<fifoVars, queued, woken, clones, qstrong, parentVars, inAll,
                   isTerminated, leaked, wakerVars>>

-----------------------------------------------------------------------------
(* Drop, IntoIter *)

DropSet ==
    /\ opc = "idle"
    /\ opc' = "drop"
    /\ ret' = "none"
    /\ UNCHANGED <<fifoVars, taskVars, clones, qstrong, parentVars, inAll, cur,
                   pollVars, isTerminated, leaked, wakerVars, owed>>

DropNext(t) ==
    /\ opc = "drop"
    /\ t \in inAll
    /\ inAll' = inAll \ {t}
    /\ cur' = t
    /\ opc' = "dropRelease"
    /\ UNCHANGED <<fifoVars, taskVars, clones, qstrong, parentVars, pollVars, ret,
                   isTerminated, leaked, wakerVars, owed>>

ClearDone ==
    /\ opc \in {"clearFuture", "clearFutureArc"}
    /\ DropFuture
    /\ opc' = "drop"
    /\ UNCHANGED <<fifoVars, queued, woken, clones, qstrong, parentVars, inAll,
                   pollVars, ret, isTerminated, leaked, wakerVars>>

\* The destructor of a future panics: the guard leaks a reference of the
\* queue, the field's own one is dropped, the tasks left are leaked.
ClearPanics ==
    /\ opc \in {"clearFuture", "clearFutureArc"}
    /\ DropFuture
    /\ leaked' = TRUE
    /\ opc' = "gone"
    /\ UNCHANGED <<fifoVars, queued, woken, clones, qstrong, parentVars, inAll,
                   pollVars, ret, wakerVars, isTerminated>>

\* Mutant of DropQueueRef: the destructor does not empty the list first.
DropQueueRefEarly ==
    /\ opc = "drop"
    /\ qstrong' = qstrong - 1
    /\ opc' = IF qstrong = 1 THEN "drain" ELSE "gone"
    /\ UNCHANGED <<fifoVars, taskVars, clones, parentVars, inAll, cur, pollVars,
                   ret, isTerminated, leaked, wakerVars, owed>>

DropQueueRef ==
    /\ opc = "drop"
    /\ inAll = {}
    /\ qstrong' = qstrong - 1
    /\ opc' = IF qstrong = 1 THEN "drain" ELSE "gone"
    /\ UNCHANGED <<fifoVars, taskVars, clones, parentVars, inAll, cur, pollVars,
                   ret, isTerminated, leaked, wakerVars, owed>>

\* IntoIter::next: the future of the first task is moved out and the task
\* leaves the list; the iterator's own destructor is that of the set.
IntoIterNext(t) ==
    /\ opc \in {"idle", "iter"}
    /\ t \in inAll
    /\ future' = [future EXCEPT ![t] = "none"]
    /\ inAll' = inAll \ {t}
    /\ owed' = [owed EXCEPT ![t] = FALSE]
    /\ opc' = "iter"
    /\ UNCHANGED <<fifoVars, queued, woken, strong, clones, qstrong, parentVars,
                   cur, pollVars, ret, isTerminated, leaked, wakerVars>>

DropIter ==
    /\ opc = "iter"
    /\ opc' = "drop"
    /\ UNCHANGED <<fifoVars, taskVars, clones, qstrong, parentVars, inAll, cur,
                   pollVars, ret, isTerminated, leaked, wakerVars, owed>>

-----------------------------------------------------------------------------
(* Wakers *)

Using(t) == {w \in Wakers : wtask[w] = t}

\* The future clones the waker it is polled with.
CloneWaker ==
    /\ opc = "polling"
    /\ clones[cur] < MaxClones
    /\ clones' = [clones EXCEPT ![cur] = @ + 1]
    /\ strong' = [strong EXCEPT ![cur] = @ + 1]
    /\ UNCHANGED <<fifoVars, future, queued, woken, qstrong, parentVars, ownerVars,
                   wakerVars, owed>>

\* A clone is dropped; the last one not while a thread is using it.
DropWaker(t) ==
    /\ clones[t] > (IF Using(t) = {} THEN 0 ELSE 1)
    /\ clones' = [clones EXCEPT ![t] = @ - 1]
    /\ DropArc(t)
    /\ UNCHANGED <<fifoVars, future, queued, woken, qstrong, parentVars, ownerVars,
                   wakerVars, owed>>

\* wake_by_ref when the queue is gone does nothing.
Upgrade(w, t) ==
    /\ wpc[w] = "idle"
    /\ clones[t] > 0
    /\ qstrong > 0
    /\ qstrong' = qstrong + 1
    /\ wpc' = [wpc EXCEPT ![w] = "woken"]
    /\ wtask' = [wtask EXCEPT ![w] = t]
    /\ owed' = [owed EXCEPT ![t] = future[t] = "some"]
    /\ UNCHANGED <<fifoVars, taskVars, clones, parentVars, ownerVars>>

SetWoken(w) ==
    /\ wpc[w] = "woken"
    /\ woken' = [woken EXCEPT ![wtask[w]] = TRUE]
    /\ wpc' = [wpc EXCEPT ![w] = "claim"]
    /\ UNCHANGED <<fifoVars, future, queued, strong, clones, qstrong, parentVars,
                   ownerVars, wtask, owed>>

\* Mutant of ClaimTask: the previous value of the flag is ignored.
ClaimTaskAlways(w) ==
    /\ wpc[w] = "claim"
    /\ queued' = [queued EXCEPT ![wtask[w]] = TRUE]
    /\ wpc' = [wpc EXCEPT ![w] = "swap"]
    /\ UNCHANGED <<fifoVars, future, woken, strong, clones, qstrong, parentVars,
                   ownerVars, wtask, owed>>

ClaimTask(w) ==
    /\ wpc[w] = "claim"
    /\ queued' = [queued EXCEPT ![wtask[w]] = TRUE]
    /\ wpc' = [wpc EXCEPT ![w] = IF queued[wtask[w]] THEN "exit" ELSE "swap"]
    /\ UNCHANGED <<fifoVars, future, woken, strong, clones, qstrong, parentVars,
                   ownerVars, wtask, owed>>

WakerSwap(w) ==
    /\ wpc[w] = "swap"
    /\ Swap(wtask[w])
    /\ wpc' = [wpc EXCEPT ![w] = "link"]
    /\ UNCHANGED <<taskVars, clones, qstrong, parentVars, ownerVars, wtask, owed>>

WakerLink(w) ==
    /\ wpc[w] = "link"
    /\ Link(wtask[w])
    /\ wpc' = [wpc EXCEPT ![w] = "wake"]
    /\ UNCHANGED <<taskVars, clones, qstrong, parentVars, ownerVars, wtask, owed>>

\* AtomicWaker::wake takes the registered waker, if there is one, and wakes it.
WakeParent(w) ==
    /\ wpc[w] = "wake"
    /\ notified' = (notified \/ registered)
    /\ registered' = FALSE
    /\ wpc' = [wpc EXCEPT ![w] = "exit"]
    /\ UNCHANGED <<fifoVars, taskVars, clones, qstrong, ownerVars, wtask, owed>>

\* The upgraded reference is dropped; the last one drops the queue.
Exit(w) ==
    /\ wpc[w] = "exit"
    /\ qstrong' = qstrong - 1
    /\ wpc' = [wpc EXCEPT ![w] = IF qstrong = 1 THEN "drain" ELSE "idle"]
    /\ wtask' = [wtask EXCEPT ![w] = IF qstrong = 1 THEN @ ELSE NoTask]
    /\ UNCHANGED <<fifoVars, taskVars, clones, parentVars, ownerVars, owed>>

-----------------------------------------------------------------------------
(* Drop of the ready-to-run queue, on the thread that dropped it last *)

Draining == opc = "drain" \/ \E w \in Wakers : wpc[w] = "drain"

DrainCall ==
    /\ Draining
    /\ Begin
    /\ UNCHANGED <<taskVars, clones, qstrong, parentVars, ownerVars, wakerVars, owed>>

DrainTask ==
    /\ Draining
    /\ Data
    /\ DropArc(Head(fifo))
    /\ UNCHANGED <<future, queued, woken, clones, qstrong, parentVars, ownerVars,
                   wakerVars, owed>>

DrainEmpty ==
    /\ Draining
    /\ Empty
    /\ opc' = IF opc = "drain" THEN "gone" ELSE opc
    /\ wpc' = [w \in Wakers |-> IF wpc[w] = "drain" THEN "idle" ELSE wpc[w]]
    /\ wtask' = [w \in Wakers |-> IF wpc[w] = "drain" THEN NoTask ELSE wtask[w]]
    /\ UNCHANGED <<taskVars, clones, qstrong, parentVars, inAll, cur, pollVars,
                   ret, isTerminated, leaked, owed>>

-----------------------------------------------------------------------------

Waker(w) ==
    SetWoken(w) \/ ClaimTask(w) \/ WakerSwap(w) \/ WakerLink(w) \/ WakeParent(w) \/ Exit(w)

Drain == DrainCall \/ DrainTask \/ DrainEmpty

\* The owner inside a call.
OwnerStep ==
    \/ PushSwap \/ PushLink
    \/ Register \/ CallDequeue \/ OnEmpty \/ OnInconsistent \/ OnReleased \/ OnTask
    \/ Unqueue \/ ResetWoken \/ ChildPending
    \/ \E r \in {"item", "panic"} : ChildDone(r)
    \/ ReleaseSwap \/ ReleaseDone
    \/ \E t \in Tasks : DropNext(t)
    \/ ClearDone \/ ClearPanics \/ DropQueueRef \/ DropIter

\* Everything has been dropped.
Finished ==
    /\ opc = "gone"
    /\ \A t \in Tasks : clones[t] = 0
    /\ UNCHANGED vars

Next ==
    \/ \E t \in Tasks : Push(t) \/ IntoIterNext(t) \/ DropWaker(t)
    \/ PollNext \/ DropSet \/ CloneWaker
    \/ OwnerStep
    \/ \E w \in Wakers, t \in Tasks : Upgrade(w, t)
    \/ \E w \in Wakers : Waker(w)
    \/ Drain
    \/ Finished

Spec == Init /\ [][Next]_vars

\* The consumer polls again when it was woken, and after every answer but
\* "pending" and the end of the stream.
PollAgain == PollNext /\ (notified \/ ret \notin {"pending", "done"})

\* Threads inside a call keep running and the executor polls a task that was
\* woken; nothing makes a future complete, wake or be dropped.
Fairness ==
    /\ WF_vars(PollAgain)
    /\ WF_vars(OwnerStep)
    /\ WF_vars(Drain)
    /\ \A w \in Wakers : WF_vars(Waker(w))

FairSpec == Spec /\ Fairness

-----------------------------------------------------------------------------
(* Properties *)

TypeOK ==
    /\ fifo \in Seq(Tasks) /\ linking \subseteq Tasks /\ deq \in Calls
    /\ future \in [Tasks -> {"absent", "some", "none"}]
    /\ inAll \subseteq Tasks
    /\ queued \in [Tasks -> BOOLEAN] /\ woken \in [Tasks -> BOOLEAN]
    /\ strong \in [Tasks -> Nat] /\ clones \in [Tasks -> 0 .. MaxClones]
    /\ qstrong \in Nat
    /\ registered \in BOOLEAN /\ notified \in BOOLEAN
    /\ opc \in {"idle", "pushSwap", "pushLink", "register", "dequeue", "unqueue", "reset",
                "polling", "release", "dropFuture", "dropFutureArc", "iter", "drop",
                "dropRelease", "clearFuture", "clearFutureArc", "drain", "gone"}
    /\ cur \in Tasks \cup {NoTask}
    /\ len \in Nat /\ polled \in Nat /\ yielded \in 0 .. 1
    /\ ret \in {"none", "pushed", "pending", "item", "done", "panic"}
    /\ isTerminated \in BOOLEAN /\ leaked \in BOOLEAN
    /\ wpc \in [Wakers -> {"idle", "woken", "claim", "swap", "link", "wake", "exit", "drain"}]
    /\ wtask \in [Wakers -> Tasks \cup {NoTask}]
    /\ owed \in [Tasks -> BOOLEAN]

\* Thread w has set the flag of t and must still enqueue it.
Claims(w, t) == wtask[w] = t /\ wpc[w] = "swap"

\* The set holds one reference of t: through the list, the owner's local, or
\* the ready-to-run queue (for a released task, also through the waker that is
\* about to enqueue it).
SetHolds(t) == t \in inAll \/ cur = t \/ Queued(t) \/ \E w \in Wakers : Claims(w, t)

\* IntoIter::next has given t up while it was not in the queue: its count
\* belongs to nobody, until a waker enqueues the task once more.
GivenUp(t) == future[t] = "none" /\ ~queued[t]

\* Reference counts: every count belongs to a waker, is the set's, or was given
\* up by IntoIter::next, so a task in use is never freed and one that nobody
\* holds always is, wherever its release falls between the steps of a wake-up
\* (release_task, unlink, wake_by_ref, Drop of both structures).
RefsAccounted ==
    \A t \in Tasks :
        strong[t] = clones[t] + (IF SetHolds(t) \/ GivenUp(t) THEN 1 ELSE 0)

\* mod.rs, end of the destructor: whoever drops the queue last will "free all
\* remaining tasks" (unless a future's destructor panicked).
NothingLeaked ==
    opc = "gone" /\ qstrong = 0 /\ ~Draining /\ ~leaked =>
        \A t \in Tasks : strong[t] = clones[t]

\* A task is enqueued only when it is not in the queue and by one thread only,
\* and the flag stays set until the owner takes it (wake_by_ref, poll_next's
\* assert!(prev)).
EnqueuedOnce ==
    /\ opc = "pushSwap" => ~Queued(cur)
    /\ \A w \in Wakers : wpc[w] = "swap" => ~Queued(wtask[w])
    /\ \A v, w \in Wakers : v # w /\ wpc[v] = "swap" /\ wpc[w] = "swap" => wtask[v] # wtask[w]
    /\ \A t \in Tasks : Queued(t) => queued[t]
    /\ opc = "unqueue" => queued[cur]

\* The aborts and debug_asserts of mod.rs, task.rs and ready_to_run_queue.rs: a
\* task is freed without its future, only an unlinked task is found released,
\* and the queue is never dropped while somebody is enqueueing.
AbortsUnreachable ==
    /\ \A t \in Tasks : strong[t] = 0 => future[t] # "some"
    /\ \A t \in Tasks : future[t] = "none" => t \notin inAll
    /\ Draining => linking = {} /\ ~deq.overlap

\* No wake-up is lost between two polls: after "pending", if a task is in the
\* queue, the parent has been woken or a waker will still do it.
NoLostWakeup ==
    opc = "idle" /\ ret = "pending" /\ fifo # <<>> =>
        \/ notified
        \/ registered /\ \E w \in Wakers : wpc[w] \in {"link", "wake"}

\* Every future pushed, and every future woken, is polled or dropped (or leaked
\* with the set).
WakeReachesPoll == \A t \in Tasks : owed[t] ~> (~owed[t] \/ leaked)

\* poll_next returns, even when its futures are woken again and again while it
\* runs (the `polled == len` and `yielded >= 2` checks).
PollReturns == opc = "dequeue" ~> opc \in {"idle", "gone"}
\* What the consumer sees of the set.  A future is in it while its task is
\* linked, and while poll_next has unlinked it for its poll ...
HeldFutures == inAll \cup (IF opc \in {"unqueue", "reset", "polling"} THEN {cur} ELSE {})

\* ... and is due while its task is in the queue, between the queue and its poll,
\* or on its way into the queue.
InHand(t) == cur = t /\ opc \in {"pushSwap", "unqueue", "reset"}
Waking(t) == \E w \in Wakers : wtask[w] = t /\ wpc[w] \in {"woken", "claim", "swap"}
DueFutures == {t \in HeldFutures : Queued(t) \/ InHand(t) \/ Waking(t)}

Asking == opc \in {"register", "dequeue", "unqueue", "reset", "polling"}
Polled == IF opc = "polling" THEN cur ELSE NoTask
Answered ==
    CASE opc \in {"pushSwap", "pushLink"} -> "pushed"
      [] opc \in {"iter", "drop", "dropRelease", "clearFuture", "clearFutureArc", "drain", "gone"} -> "none"
      [] OTHER -> ret

FutureSetSeen == INSTANCE FutureSet WITH
    held <- HeldFutures, due <- DueFutures, polling <- Asking, at <- Polled,
    answer <- Answered, over <- isTerminated

\* FuturesUnordered implements FutureSet: whatever order the steps of a wake-up
\* and of poll_next fall in, no wake-up of a future in the set is dropped, only
\* pushed or woken futures are polled, and the answers are those of a set.
RefinesFutureSet == FutureSetSeen!SetSpec
=============================================================================
