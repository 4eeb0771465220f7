------------------------ MODULE FuturesUnorderedProofs ------------------------
(***************************************************************************)
(* Proofs about FuturesUnordered, for any sets of tasks and waker threads. *)
(***************************************************************************)
EXTENDS FuturesUnordered, FiniteSetTheorems, TLAPS

PushPcs == {"pushSwap", "pushLink"}
TakenPcs == {"unqueue", "reset", "polling", "release", "dropFuture", "dropFutureArc",
             "dropRelease", "clearFuture", "clearFutureArc"}

\* Where futures are: in the list or in the owner's hands.  A stream that has
\* ended holds none; a set that was dropped holds none unless it was leaked.
OwnerTask ==
    /\ opc \in PushPcs => cur \in inAll
    /\ opc \in TakenPcs => cur \in Tasks \ inAll
    /\ opc \notin PushPcs \cup TakenPcs => cur = NoTask
    /\ \A t \in Tasks : future[t] = "some" <=> t \in inAll \/ cur = t
    /\ IsFiniteSet(inAll)

Ended ==
    /\ isTerminated => inAll = {} /\ cur = NoTask
    /\ opc = "idle" /\ ret = "done" => inAll = {}
    /\ opc \in {"release", "dropFuture", "dropFutureArc"} => ret \in {"item", "panic"}
    /\ opc = "drain" \/ (opc = "gone" /\ ~leaked) => inAll = {}

\* A waker thread works with a clone that stays alive; a task not created has none.
WakerTask ==
    /\ \A w \in Wakers : wpc[w] = "idle" <=> wtask[w] = NoTask
    /\ \A w \in Wakers : wtask[w] # NoTask => clones[wtask[w]] > 0
    /\ \A t \in Tasks : future[t] = "absent" => clones[t] = 0 /\ ~queued[t]

\* The owner has the flag of t to itself.
Owns(t) == cur = t /\ opc \in {"pushSwap", "unqueue", "dropFutureArc", "clearFutureArc"}

Claimed(t) == \E w \in Wakers : Claims(w, t)

NoTwice == \A i, j \in 1 .. Len(fifo) : fifo[i] = fifo[j] => i = j

\* The flag belongs to one party at a time: the owner, one waker or the queue.
FlagHeld ==
    /\ NoTwice
    /\ \A t \in Tasks : Owns(t) => queued[t] /\ ~Queued(t) /\ ~Claimed(t)
    /\ \A t \in Tasks : Claimed(t) => queued[t] /\ ~Queued(t)
    /\ \A t \in Tasks : Queued(t) => queued[t]
    /\ \A v, w \in Wakers, t \in Tasks : Claims(v, t) /\ Claims(w, t) => v = w
    /\ \A t \in Tasks : queued[t] /\ future[t] = "some" => Owns(t) \/ Queued(t) \/ Claimed(t)
    /\ opc \in {"dropFuture", "clearFuture"} => queued[cur]

\* The threads that hold an upgraded reference of the queue.
Active == {w \in Wakers : wpc[w] \notin {"idle", "drain"}}

\* References of the queue: one of every active thread, and the set's own, which
\* a panic in the destructor leaks.
QueueRefs ==
    /\ IsFiniteSet(Active)
    /\ qstrong = Cardinality(Active) + (IF opc \in {"drain", "gone"} /\ ~leaked THEN 0 ELSE 1)
    /\ Draining => qstrong = 0
    /\ leaked => opc = "gone"

\* A link is missing only while somebody is about to store it; a call overlaps
\* nothing when the queue is drained.
LinkPending ==
    /\ \A t \in linking : \/ opc = "pushLink" /\ cur = t
                          \/ \E w \in Wakers : wpc[w] = "link" /\ wtask[w] = t
    /\ deq.busy => opc = "dequeue" \/ Draining
    /\ deq.overlap => deq.busy
    /\ Draining => ~deq.overlap

\* From its registration on, the parent's waker is there or has been used; what
\* is in the queue after "pending" comes with a wake-up.
Armed ==
    opc \in {"dequeue", "unqueue", "reset", "polling"} \/ (opc = "idle" /\ ret = "pending") =>
        registered \/ notified

Covered ==
    opc = "idle" /\ ret = "pending" /\ fifo # <<>> =>
        notified \/ \E w \in Wakers : wpc[w] \in {"link", "wake"}

\* The inductive invariant.
UnorderedInv ==
    /\ TypeOK /\ OwnerTask /\ Ended /\ WakerTask /\ FlagHeld
    /\ RefsAccounted /\ QueueRefs /\ LinkPending /\ Armed /\ Covered

-----------------------------------------------------------------------------
(* Where it starts, and what steps leave alone *)

LEMMA InitUnordered == Init => UnorderedInv
  <1> SUFFICES ASSUME Init PROVE UnorderedInv
    OBVIOUS
  <1> USE TaskFifoAssumption, UnorderedAssumption DEF Init, FifoInit
  <1>1. TypeOK
    <2>1. /\ registered \in BOOLEAN /\ notified \in BOOLEAN
          /\ isTerminated \in BOOLEAN /\ leaked \in BOOLEAN
      BY Zenon
    <2>2. deq \in Calls
      BY DEF Calls
    <2> QED BY <2>1, <2>2 DEF TypeOK
  <1>2. OwnerTask /\ Ended
    BY FS_EmptySet DEF OwnerTask, Ended, PushPcs, TakenPcs
  <1>3. WakerTask
    BY DEF WakerTask
  <1>4. FlagHeld /\ RefsAccounted
    <2> SUFFICES ASSUME NEW t \in Tasks
                 PROVE  /\ ~Queued(t) /\ ~Claimed(t) /\ ~Owns(t)
                        /\ \A v \in Wakers : ~Claims(v, t)
                        /\ ~queued[t] /\ strong[t] = clones[t] + 0
                        /\ ~SetHolds(t) /\ ~GivenUp(t)
      BY DEF NoTwice, FlagHeld, RefsAccounted
    <2>1. ~Queued(t)
      BY DEF Queued
    <2>2. \A v \in Wakers : ~Claims(v, t)
      BY DEF Claims
    <2>3. ~Owns(t) /\ ~queued[t] /\ strong[t] = clones[t] + 0
      BY DEF Owns
    <2>4. ~SetHolds(t) /\ ~GivenUp(t)
      BY <2>1, <2>2 DEF SetHolds, GivenUp
    <2> QED BY <2>1, <2>2, <2>3, <2>4 DEF Claimed
  <1>5. QueueRefs
    <2>1. Active = {} /\ ~Draining
      BY DEF Active, Draining
    <2> QED BY <2>1, FS_EmptySet DEF QueueRefs
  <1>6. LinkPending /\ Armed /\ Covered
    BY DEF LinkPending, Armed, Covered, Draining
  <1> QED BY <1>1, <1>2, <1>3, <1>4, <1>5, <1>6 DEF UnorderedInv

\* What the owner holds is no matter for the wakers, and for those who drain.
LEMMA OwnerFrame ==
    ASSUME \/ \E w \in Wakers : Waker(w)
           \/ \E w \in Wakers, t \in Tasks : Upgrade(w, t)
           \/ \E t \in Tasks : DropWaker(t)
           \/ CloneWaker \/ CallDequeue \/ OnReleased \/ DrainCall \/ DrainTask
           \/ UNCHANGED vars
    PROVE  UNCHANGED <<future, ownerVars>>
  BY Zenon DEF Waker, SetWoken, ClaimTask, WakerSwap, WakerLink, WakeParent, Exit, Upgrade,
               DropWaker, CloneWaker, CallDequeue, OnReleased, DrainCall, DrainTask,
               taskVars, vars

-----------------------------------------------------------------------------
(* Where futures are *)

\* A task in the queue was created.
LEMMA QueuedCreated ==
    ASSUME UnorderedInv, fifo # <<>>
    PROVE  /\ Head(fifo) \in Tasks /\ Queued(Head(fifo)) /\ queued[Head(fifo)]
           /\ future[Head(fifo)] # "absent"
  <1>1. Head(fifo) = fifo[1] /\ 1 \in 1 .. Len(fifo) /\ fifo[1] \in Tasks
    BY DEF UnorderedInv, TypeOK
  <1>2. Queued(Head(fifo))
    BY <1>1 DEF Queued
  <1> QED BY <1>1, <1>2 DEF UnorderedInv, FlagHeld, WakerTask

LEMMA OwnerTaskStep ==
    ASSUME UnorderedInv, [Next]_vars
    PROVE  OwnerTask'
  <1> USE TaskFifoAssumption DEF OwnerTask, PushPcs, TakenPcs, Return
  <1>0. /\ TypeOK /\ OwnerTask
    BY DEF UnorderedInv
  <1>1. ASSUME NEW t \in Tasks, Push(t) PROVE OwnerTask'
    BY <1>0, <1>1, FS_AddElement DEF Push, TypeOK
  <1>2. CASE PushSwap
    BY <1>0, <1>2 DEF PushSwap, taskVars
  <1>3. CASE PushLink
    BY <1>0, <1>3 DEF PushLink, taskVars
  <1>4. CASE PollNext \/ Register \/ OnEmpty \/ OnInconsistent \/ DropSet \/ DropIter
    BY <1>0, <1>4 DEF PollNext, Register, OnEmpty, OnInconsistent, DropSet, DropIter, taskVars
  <1>5. CASE OnTask
    <2>1. /\ Head(fifo) \in Tasks /\ future[Head(fifo)] = "some"
      BY <1>0, <1>5, QueuedCreated DEF OnTask, Data, TypeOK
    <2> QED BY <1>0, <1>5, <2>1, FS_RemoveElement DEF OnTask, taskVars
  <1>6. CASE Unqueue \/ ResetWoken
    BY <1>0, <1>6 DEF Unqueue, ResetWoken
  <1>7. CASE ChildPending
    BY <1>0, <1>7, FS_AddElement DEF ChildPending, taskVars
  <1>8. ASSUME NEW r, ChildDone(r) PROVE OwnerTask'
    BY <1>0, <1>8 DEF ChildDone, taskVars
  <1>9. CASE ReleaseSwap
    BY <1>0, <1>9 DEF ReleaseSwap
  <1>10. CASE ReleaseDone \/ ClearDone \/ ClearPanics
    <2>1. /\ opc \in {"dropFuture", "dropFutureArc", "clearFuture", "clearFutureArc"}
          /\ opc' \in {"idle", "drop", "gone"}
      BY <1>10 DEF ReleaseDone, ClearDone, ClearPanics
    <2>2. /\ future' = [future EXCEPT ![cur] = "none"] /\ cur' = NoTask /\ inAll' = inAll
      BY <1>10, Zenon DEF ReleaseDone, ClearDone, ClearPanics, DropFuture
    <2>3. cur \in Tasks \ inAll /\ future \in [Tasks -> {"absent", "some", "none"}]
      BY <1>0, <2>1 DEF TypeOK
    <2>4. \A t \in Tasks : future'[t] = "some" <=> t \in inAll' \/ cur' = t
      BY <1>0, <2>2, <2>3
    <2> QED BY <1>0, <2>1, <2>2, <2>4
  <1>11. ASSUME NEW t \in Tasks, DropNext(t) PROVE OwnerTask'
    BY <1>0, <1>11, FS_RemoveElement DEF DropNext, taskVars
  <1>12. CASE DropQueueRef
    BY <1>0, <1>12 DEF DropQueueRef, taskVars
  <1>13. ASSUME NEW t \in Tasks, IntoIterNext(t) PROVE OwnerTask'
    BY <1>0, <1>13, FS_RemoveElement DEF IntoIterNext, TypeOK
  <1>14. CASE DrainEmpty
    BY <1>0, <1>14 DEF DrainEmpty, taskVars
  <1>15. CASE UNCHANGED <<future, ownerVars>>
    BY <1>0, <1>15 DEF ownerVars
  <1> HIDE DEF OwnerTask
  <1> QED BY <1>1, <1>2, <1>3, <1>4, <1>5, <1>6, <1>7, <1>8, <1>9, <1>10, <1>11, <1>12, <1>13,
             <1>14, <1>15, OwnerFrame DEF Next, OwnerStep, Drain, Finished


LEMMA EndedStep ==
    ASSUME UnorderedInv, [Next]_vars
    PROVE  Ended'
  <1> USE DEF Ended, PushPcs, TakenPcs, Return
  <1>0. Ended /\ OwnerTask
    BY DEF UnorderedInv
  <1> USE DEF OwnerTask
  <1>1. ASSUME NEW t \in Tasks, Push(t) PROVE Ended'
    BY <1>0, <1>1 DEF Push
  <1>2. CASE PushSwap \/ PushLink \/ PollNext \/ Register \/ OnInconsistent \/ DropSet \/ DropIter
    BY <1>0, <1>2 DEF PushSwap, PushLink, PollNext, Register, OnInconsistent, DropSet, DropIter
  <1>3. CASE OnEmpty
    BY <1>0, <1>3 DEF OnEmpty
  <1>4. CASE OnTask
    <2>1. future[Head(fifo)] = "some" /\ Head(fifo) \in Tasks
      BY <1>4, QueuedCreated DEF OnTask, Data, UnorderedInv, TypeOK
    <2> QED BY <1>0, <1>4, <2>1 DEF OnTask
  <1>5. CASE Unqueue \/ ResetWoken \/ ChildPending \/ ReleaseSwap
    BY <1>0, <1>5, TaskFifoAssumption DEF Unqueue, ResetWoken, ChildPending, ReleaseSwap
  <1>6. ASSUME NEW x \in {"item", "panic"}, ChildDone(x) PROVE Ended'
    BY <1>0, <1>6, TaskFifoAssumption DEF ChildDone
  <1>7. CASE ReleaseDone \/ ClearDone \/ ClearPanics
    BY <1>0, <1>7, TaskFifoAssumption DEF ReleaseDone, ClearDone, ClearPanics, DropFuture
  <1>8. ASSUME NEW t \in Tasks, DropNext(t) \/ IntoIterNext(t) PROVE Ended'
    BY <1>0, <1>8 DEF DropNext, IntoIterNext
  <1>9. CASE DropQueueRef
    BY <1>0, <1>9 DEF DropQueueRef
  <1>10. CASE DrainEmpty
    BY <1>0, <1>10 DEF DrainEmpty
  <1>11. CASE UNCHANGED <<future, ownerVars>>
    BY <1>0, <1>11 DEF ownerVars
  <1> HIDE DEF Ended, OwnerTask
  <1> QED BY <1>1, <1>2, <1>3, <1>4, <1>5, <1>6, <1>7, <1>8, <1>9, <1>10, <1>11,
             OwnerFrame DEF Next, OwnerStep, Drain, Finished

-----------------------------------------------------------------------------
(* What waker threads work with *)

\* The owner leaves them and their clones alone.
LEMMA WakerFrame ==
    ASSUME \/ \E t \in Tasks : Push(t) \/ IntoIterNext(t)
           \/ PollNext \/ DropSet \/ OwnerStep \/ DrainCall \/ DrainTask
           \/ UNCHANGED vars
    PROVE  UNCHANGED <<wpc, wtask, clones>>
  BY Zenon DEF Push, IntoIterNext, PollNext, DropSet, OwnerStep, PushSwap, PushLink, Register,
               CallDequeue, OnEmpty, OnInconsistent, OnReleased, OnTask, Unqueue, ResetWoken,
               ChildPending, ChildDone, ReleaseSwap, ReleaseDone, DropNext, ClearDone,
               ClearPanics, DropQueueRef, DropIter, DrainCall, DrainTask, wakerVars, vars

\* Nothing of the environment touches the futures, and only a wake-up the flags.
LEMMA FlagFrame ==
    ASSUME \/ PollNext \/ DropSet \/ DropIter \/ CloneWaker \/ Drain
           \/ PushSwap \/ PushLink \/ Register \/ CallDequeue \/ OnEmpty \/ OnInconsistent
           \/ OnReleased \/ OnTask \/ ResetWoken \/ ChildPending \/ DropQueueRef
           \/ \E r \in {"item", "panic"} : ChildDone(r)
           \/ \E t \in Tasks : DropWaker(t) \/ DropNext(t)
           \/ \E w \in Wakers, t \in Tasks : Upgrade(w, t)
           \/ \E w \in Wakers : SetWoken(w) \/ WakerSwap(w) \/ WakerLink(w) \/ WakeParent(w)
                                \/ Exit(w)
           \/ UNCHANGED vars
    PROVE  UNCHANGED <<future, queued>>
  BY Zenon DEF PollNext, DropSet, DropIter, CloneWaker, Drain, DrainCall, DrainTask, DrainEmpty,
               PushSwap, PushLink, Register, CallDequeue, OnEmpty, OnInconsistent, OnReleased,
               OnTask, ResetWoken, ChildPending, DropQueueRef, ChildDone, DropWaker, DropNext,
               Upgrade, SetWoken, WakerSwap, WakerLink, WakeParent, Exit, taskVars, vars

\* Of tasks that were not created nothing is touched; only a push creates.
LEMMA AbsentStep ==
    ASSUME UnorderedInv, [Next]_vars, NEW t \in Tasks, future'[t] = "absent"
    PROVE  clones'[t] = 0 /\ ~queued'[t]
  <1> DEFINE Untouched == future[t] = "absent" /\ ~queued'[t]
  <1>0. /\ TypeOK /\ OwnerTask
        /\ future[t] = "absent" => clones[t] = 0 /\ ~queued[t]
    BY DEF UnorderedInv, WakerTask
  <1>1. Untouched
    <2>1. ASSUME NEW u \in Tasks, Push(u) PROVE Untouched
      BY <1>0, <2>1 DEF Push, TypeOK
    <2>2. ASSUME NEW u \in Tasks, IntoIterNext(u) PROVE Untouched
      BY <1>0, <2>2 DEF IntoIterNext, TypeOK
    <2>3. ASSUME Unqueue \/ ReleaseSwap PROVE Untouched
      BY <1>0, <2>3 DEF Unqueue, ReleaseSwap, TypeOK, OwnerTask, TakenPcs
    <2>4. ASSUME ReleaseDone \/ ClearDone \/ ClearPanics PROVE Untouched
      BY <1>0, <2>4 DEF ReleaseDone, ClearDone, ClearPanics, DropFuture, TypeOK
    <2>5. ASSUME NEW w \in Wakers, ClaimTask(w) PROVE Untouched
      <3>1. wpc[w] = "claim" /\ clones[wtask[w]] > 0
        BY <1>0, <2>5 DEF ClaimTask, UnorderedInv, WakerTask
      <3>2. wtask[w] # t /\ future[t] = "absent"
        BY <1>0, <2>5, <3>1 DEF ClaimTask
      <3> QED BY <1>0, <2>5, <3>2 DEF ClaimTask, TypeOK
    <2>6. ASSUME UNCHANGED <<future, queued>> PROVE Untouched
      BY <1>0, <2>6
    <2> HIDE DEF Untouched
    <2> QED BY <2>1, <2>2, <2>3, <2>4, <2>5, <2>6, FlagFrame DEF Next, OwnerStep, Waker, Finished
  <1>2. clones'[t] = clones[t]
    <2>1. ASSUME CloneWaker PROVE clones'[t] = clones[t]
      <3>1. cur # t
        BY <1>0, <1>1, <2>1 DEF CloneWaker, OwnerTask, TakenPcs
      <3> QED BY <1>0, <2>1, <3>1 DEF CloneWaker, TypeOK
    <2>2. ASSUME NEW u \in Tasks, DropWaker(u) PROVE clones'[t] = clones[t]
      <3>1. u # t
        BY <1>0, <1>1, <2>2 DEF DropWaker
      <3> QED BY <1>0, <2>2, <3>1 DEF DropWaker, TypeOK
    <2>3. ASSUME NEW w \in Wakers, (\E u \in Tasks : Upgrade(w, u)) \/ Waker(w)
          PROVE  clones' = clones
      BY <2>3, Zenon DEF Upgrade, Waker, SetWoken, ClaimTask, WakerSwap, WakerLink, WakeParent, Exit
    <2>4. ASSUME DrainEmpty PROVE clones' = clones
      BY <2>4 DEF DrainEmpty
    <2> QED BY <2>1, <2>2, <2>3, <2>4, WakerFrame DEF Next, Drain, Finished
  <1> QED BY <1>0, <1>1, <1>2

LEMMA WakerTaskStep ==
    ASSUME UnorderedInv, [Next]_vars
    PROVE  WakerTask'
  <1> DEFINE Threads == /\ \A w \in Wakers : wpc[w] = "idle" <=> wtask[w] = NoTask
                        /\ \A w \in Wakers : wtask[w] # NoTask => clones[wtask[w]] > 0
  <1> USE TaskFifoAssumption
  <1>0. TypeOK /\ Threads
    BY DEF UnorderedInv, WakerTask
  <1>1. ASSUME UNCHANGED <<wpc, wtask, clones>> PROVE Threads'
    BY <1>0, <1>1
  <1>2. ASSUME CloneWaker PROVE Threads'
    BY <1>0, <1>2 DEF CloneWaker, wakerVars, TypeOK
  <1>3. ASSUME NEW t \in Tasks, DropWaker(t) PROVE Threads'
    BY <1>0, <1>3 DEF DropWaker, wakerVars, TypeOK, Using
  <1>4. ASSUME NEW t \in Tasks, NEW w \in Wakers, Upgrade(w, t) PROVE Threads'
    BY <1>0, <1>4 DEF Upgrade, TypeOK
  <1>5. ASSUME NEW w \in Wakers, Waker(w) PROVE Threads'
    BY <1>0, <1>5 DEF Waker, SetWoken, ClaimTask, WakerSwap, WakerLink, WakeParent, Exit, TypeOK
  <1>6. ASSUME DrainEmpty PROVE Threads'
    BY <1>0, <1>6 DEF DrainEmpty, TypeOK
  <1>7. Threads'
    <2> HIDE DEF Threads
    <2> QED BY <1>1, <1>2, <1>3, <1>4, <1>5, <1>6, WakerFrame DEF Next, Drain, Finished
  <1> QED BY <1>7, AbsentStep DEF WakerTask


-----------------------------------------------------------------------------
(* Whose the flags are *)

\* The queue, after a task has joined it and after the oldest has left it.
LEMMA QueueAppended ==
    ASSUME fifo \in Seq(Tasks), NoTwice, NEW x \in Tasks, ~Queued(x), fifo' = Append(fifo, x)
    PROVE  NoTwice' /\ \A t \in Tasks : Queued(t)' <=> Queued(t) \/ t = x
  BY DEF NoTwice, Queued

LEMMA QueueTail ==
    ASSUME fifo \in Seq(Tasks), NoTwice, fifo # <<>>, fifo' = Tail(fifo)
    PROVE  NoTwice' /\ \A t \in Tasks : Queued(t)' <=> Queued(t) /\ t # Head(fifo)
  <1>1. /\ Len(fifo) \in Nat /\ Len(fifo) > 0 /\ Head(fifo) = fifo[1]
        /\ Len(fifo') = Len(fifo) - 1
        /\ \A i \in 1 .. Len(fifo) - 1 : fifo'[i] = fifo[i + 1]
    OBVIOUS
  <1>2. NoTwice'
    BY <1>1 DEF NoTwice
  <1>3. ASSUME NEW t \in Tasks, Queued(t)' PROVE Queued(t) /\ t # Head(fifo)
    <2>1. PICK i \in 1 .. Len(fifo) - 1 : fifo'[i] = t
      BY <1>1, <1>3 DEF Queued
    <2>2. i + 1 \in 1 .. Len(fifo) /\ fifo[i + 1] = t /\ i + 1 # 1 /\ 1 \in 1 .. Len(fifo)
      BY <1>1, <2>1
    <2> QED BY <1>1, <2>2 DEF Queued, NoTwice
  <1>4. ASSUME NEW t \in Tasks, Queued(t), t # Head(fifo) PROVE Queued(t)'
    <2>1. PICK i \in 1 .. Len(fifo) : fifo[i] = t
      BY <1>4 DEF Queued
    <2>2. i - 1 \in 1 .. Len(fifo) - 1 /\ fifo'[i - 1] = t
      BY <1>1, <1>4, <2>1
    <2> QED BY <1>1, <2>2 DEF Queued
  <1> QED BY <1>2, <1>3, <1>4

LEMMA QueueSame ==
    ASSUME fifo' = fifo
    PROVE  /\ NoTwice <=> NoTwice'
           /\ \A t \in Tasks : Queued(t)' <=> Queued(t)
  BY DEF NoTwice, Queued

\* Nobody claims or lets go of anything.
LEMMA FlagSame ==
    ASSUME FlagHeld, UNCHANGED <<fifo, queued, future>>,
           \A w \in Wakers, t \in Tasks : Claims(w, t)' <=> Claims(w, t),
           \A t \in Tasks : Owns(t)' <=> Owns(t),
           opc' \in {"dropFuture", "clearFuture"} => UNCHANGED <<opc, cur>>
    PROVE  FlagHeld'
  <1>1. \A t \in Tasks : Claimed(t)' <=> Claimed(t)
    BY DEF Claimed
  <1> QED BY <1>1, QueueSame DEF FlagHeld

\* The steps of that kind.
LEMMA FlagSameStep ==
    ASSUME UnorderedInv,
           \/ PushLink \/ PollNext \/ Register \/ CallDequeue \/ OnEmpty \/ OnInconsistent
           \/ ResetWoken \/ ChildPending \/ (\E r \in {"item", "panic"} : ChildDone(r))
           \/ DropSet \/ DropIter \/ (\E t \in Tasks : DropNext(t)) \/ DropQueueRef
    PROVE  FlagHeld'
  <1>0. FlagHeld /\ OwnerTask
    BY DEF UnorderedInv
  <1>1. UNCHANGED <<fifo, queued, future, wpc, wtask>>
    BY Zenon DEF PushLink, Link, PollNext, Register, CallDequeue, Begin, OnEmpty, Empty,
                 OnInconsistent, Inconsistent, ResetWoken, ChildPending, ChildDone, DropSet,
                 DropIter, DropNext, DropQueueRef, fifoVars, taskVars, wakerVars
  <1>2. opc \notin {"pushSwap", "unqueue", "dropFutureArc", "clearFutureArc"}
    BY DEF PushLink, PollNext, Register, CallDequeue, OnEmpty, OnInconsistent, ResetWoken,
           ChildPending, ChildDone, DropSet, DropIter, DropNext, DropQueueRef
  <1>3. opc' \notin {"pushSwap", "unqueue", "dropFuture", "clearFuture", "dropFutureArc",
                     "clearFutureArc"}
    BY DEF PushLink, PollNext, Register, CallDequeue, OnEmpty, OnInconsistent, ResetWoken,
           ChildPending, ChildDone, DropSet, DropIter, DropNext, DropQueueRef, Return, ownerVars
  <1> QED BY <1>0, <1>1, <1>2, <1>3, FlagSame DEF Claims, Owns

LEMMA FlagSameWaker ==
    ASSUME UnorderedInv,
           \/ CloneWaker \/ (\E t \in Tasks : DropWaker(t))
           \/ (\E w \in Wakers, t \in Tasks : Upgrade(w, t))
           \/ (\E w \in Wakers : SetWoken(w) \/ WakerLink(w) \/ WakeParent(w) \/ Exit(w))
           \/ DrainCall \/ DrainEmpty \/ UNCHANGED vars
    PROVE  FlagHeld'
  <1>0. FlagHeld /\ TypeOK
    BY DEF UnorderedInv
  <1>1. UNCHANGED <<fifo, queued, future>>
    BY Zenon DEF CloneWaker, DropWaker, Upgrade, SetWoken, WakerLink, Link, WakeParent, Exit,
                 DrainCall, Begin, DrainEmpty, Empty, fifoVars, taskVars, vars
  <1>2. \A w \in Wakers, t \in Tasks : Claims(w, t)' <=> Claims(w, t)
    BY <1>0 DEF CloneWaker, DropWaker, Upgrade, SetWoken, WakerLink, WakeParent, Exit,
                DrainCall, DrainEmpty, wakerVars, vars, Claims, TypeOK
  <1>3. cur' = cur /\ (opc' = opc \/ (opc = "drain" /\ opc' = "gone"))
    <2>1. CASE DrainEmpty
      BY <2>1 DEF DrainEmpty
    <2>2. CASE ~DrainEmpty
      BY <2>2, Zenon DEF CloneWaker, DropWaker, Upgrade, SetWoken, WakerLink, WakeParent, Exit,
                         DrainCall, ownerVars, vars
    <2> QED BY <2>1, <2>2
  <1> QED BY <1>0, <1>1, <1>2, <1>3, FlagSame DEF Owns


\* Who drains the queue is alone with it.
LEMMA DrainAlone ==
    ASSUME UnorderedInv, Draining
    PROVE  /\ qstrong = 0 /\ Active = {}
           /\ opc \in {"drain", "gone"} /\ ~leaked /\ inAll = {} /\ cur = NoTask
           /\ linking = {}
  <1>1. qstrong = 0 /\ Cardinality(Active) \in Nat
    BY FS_CardinalityType DEF UnorderedInv, QueueRefs
  <1>2. Cardinality(Active) = 0 /\ opc \in {"drain", "gone"} /\ ~leaked
    BY <1>1 DEF UnorderedInv, QueueRefs
  <1>3. Active = {}
    BY <1>2, FS_EmptySet DEF UnorderedInv, QueueRefs
  <1>4. inAll = {} /\ cur = NoTask
    BY <1>2 DEF UnorderedInv, Ended, OwnerTask, PushPcs, TakenPcs
  <1>5. linking = {}
    BY <1>2, <1>3 DEF UnorderedInv, LinkPending, Active
  <1> QED BY <1>1, <1>2, <1>3, <1>4, <1>5

LEMMA FlagHeldStep ==
    ASSUME UnorderedInv, [Next]_vars
    PROVE  FlagHeld'
  <1> USE TaskFifoAssumption
  <1>0. FlagHeld /\ OwnerTask /\ TypeOK /\ WakerTask
    BY DEF UnorderedInv
  <1>f. ASSUME UNCHANGED <<wpc, wtask>> PROVE \A w \in Wakers, t \in Tasks : Claims(w, t)' <=> Claims(w, t)
    BY <1>f DEF Claims
  <1>1. ASSUME NEW u \in Tasks, Push(u) PROVE FlagHeld'
    <2>1. /\ ~queued[u] /\ opc = "idle" /\ opc' = "pushSwap" /\ cur' = u
          /\ queued'[u] /\ future'[u] = "some"
          /\ \A t \in Tasks \ {u} : queued'[t] = queued[t] /\ future'[t] = future[t]
          /\ UNCHANGED <<fifo, wpc, wtask>>
      BY <1>0, <1>1 DEF Push, TypeOK, WakerTask, fifoVars, wakerVars
    <2>2. \A t \in Tasks : ~Owns(t) /\ (Owns(t)' <=> t = u)
      BY <2>1 DEF Owns
    <2>3. \A t \in Tasks : Claimed(t)' <=> Claimed(t)
      BY <1>f, <2>1 DEF Claimed
    <2> QED BY <1>0, <1>f, <2>1, <2>2, <2>3, QueueSame DEF FlagHeld
  <1>2. CASE PushSwap
    <2>1. /\ cur \in Tasks /\ opc = "pushSwap" /\ opc' = "pushLink" /\ ~Queued(cur)
          /\ fifo' = Append(fifo, cur)
          /\ UNCHANGED <<cur, queued, future, wpc, wtask>>
      BY <1>0, <1>2 DEF PushSwap, Swap, TypeOK, OwnerTask, PushPcs, taskVars, wakerVars
    <2>2. \A t \in Tasks : ~Owns(t)' /\ (Owns(t) <=> t = cur)
      BY <2>1 DEF Owns
    <2>3. NoTwice' /\ \A t \in Tasks : Queued(t)' <=> Queued(t) \/ t = cur
      BY <1>0, <2>1, QueueAppended DEF FlagHeld, TypeOK
    <2>4. \A t \in Tasks : Claimed(t)' <=> Claimed(t)
      BY <1>f, <2>1 DEF Claimed
    <2> QED BY <1>0, <1>f, <2>1, <2>2, <2>3, <2>4 DEF FlagHeld
  <1>3. ASSUME OnReleased \/ DrainTask PROVE FlagHeld'
    <2>1. /\ fifo # <<>> /\ fifo' = Tail(fifo) /\ Head(fifo) \in Tasks
          /\ UNCHANGED <<opc, cur, queued, future, wpc, wtask>>
      BY <1>0, <1>3 DEF OnReleased, DrainTask, Data, TypeOK, ownerVars, wakerVars
    <2>2. NoTwice' /\ \A t \in Tasks : Queued(t)' <=> Queued(t) /\ t # Head(fifo)
      BY <1>0, <2>1, QueueTail DEF FlagHeld, TypeOK
    <2>3. future[Head(fifo)] # "some"
      BY <1>0, <1>3, <2>1, DrainAlone DEF OnReleased, DrainTask, OwnerTask
    <2>4. \A t \in Tasks : (Claimed(t)' <=> Claimed(t)) /\ (Owns(t)' <=> Owns(t))
      BY <1>f, <2>1 DEF Claimed, Owns
    <2> QED BY <1>0, <1>f, <2>1, <2>2, <2>3, <2>4 DEF FlagHeld
  <1>4. CASE OnTask
    <2>1. /\ fifo # <<>> /\ fifo' = Tail(fifo) /\ Head(fifo) \in Tasks
          /\ opc = "dequeue" /\ opc' = "unqueue" /\ cur' = Head(fifo)
          /\ UNCHANGED <<queued, future, wpc, wtask>>
      BY <1>0, <1>4 DEF OnTask, Data, TypeOK, taskVars, wakerVars
    <2>2. NoTwice' /\ \A t \in Tasks : Queued(t)' <=> Queued(t) /\ t # Head(fifo)
      BY <1>0, <2>1, QueueTail DEF FlagHeld, TypeOK
    <2>3. \A t \in Tasks : ~Owns(t) /\ (Owns(t)' <=> t = Head(fifo))
      BY <2>1 DEF Owns
    <2>4. \A t \in Tasks : Claimed(t)' <=> Claimed(t)
      BY <1>f, <2>1 DEF Claimed
    <2>5. Queued(Head(fifo))
      BY <2>1, QueuedCreated
    <2> QED BY <1>0, <1>f, <2>1, <2>2, <2>3, <2>4, <2>5 DEF FlagHeld
  <1>5. CASE Unqueue
    <2>1. /\ opc = "unqueue" /\ opc' = "reset" /\ cur \in Tasks
          /\ ~queued'[cur] /\ \A t \in Tasks \ {cur} : queued'[t] = queued[t]
          /\ UNCHANGED <<cur, fifo, future, wpc, wtask>>
      BY <1>0, <1>5 DEF Unqueue, TypeOK, OwnerTask, TakenPcs, fifoVars, wakerVars
    <2>2. \A t \in Tasks : ~Owns(t)' /\ (Owns(t) <=> t = cur)
      BY <2>1 DEF Owns
    <2>3. \A t \in Tasks : Claimed(t)' <=> Claimed(t)
      BY <1>f, <2>1 DEF Claimed
    <2> QED BY <1>0, <1>f, <2>1, <2>2, <2>3, QueueSame DEF FlagHeld
  <1>6. CASE ReleaseSwap
    <2>1. /\ opc \in {"release", "dropRelease"} /\ cur \in Tasks
          /\ queued'[cur] /\ \A t \in Tasks \ {cur} : queued'[t] = queued[t]
          /\ opc' \in IF queued[cur] THEN {"dropFuture", "clearFuture"}
                                     ELSE {"dropFutureArc", "clearFutureArc"}
          /\ UNCHANGED <<cur, fifo, future, wpc, wtask>>
      BY <1>0, <1>6 DEF ReleaseSwap, TypeOK, OwnerTask, TakenPcs, fifoVars, wakerVars
    <2>2. \A t \in Tasks : ~Owns(t) /\ (Owns(t)' <=> t = cur /\ ~queued[cur])
      BY <2>1 DEF Owns
    <2>3. \A t \in Tasks : Claimed(t)' <=> Claimed(t)
      BY <1>f, <2>1 DEF Claimed
    <2> QED BY <1>0, <1>f, <2>1, <2>2, <2>3, QueueSame DEF FlagHeld
  <1>7. ASSUME ReleaseDone \/ ClearDone \/ ClearPanics PROVE FlagHeld'
    <2>1. /\ opc \in {"dropFuture", "dropFutureArc", "clearFuture", "clearFutureArc"}
          /\ opc' \in {"idle", "drop", "gone"} /\ cur \in Tasks
          /\ future'[cur] = "none" /\ \A t \in Tasks \ {cur} : future'[t] = future[t]
          /\ UNCHANGED <<fifo, queued, wpc, wtask>>
      BY <1>0, <1>7 DEF ReleaseDone, ClearDone, ClearPanics, DropFuture, Return, TypeOK, OwnerTask,
                        TakenPcs, fifoVars, wakerVars
    <2>2. \A t \in Tasks : ~Owns(t)' /\ (Owns(t) => t = cur)
      BY <2>1 DEF Owns
    <2>3. \A t \in Tasks : Claimed(t)' <=> Claimed(t)
      BY <1>f, <2>1 DEF Claimed
    <2> QED BY <1>0, <1>f, <2>1, <2>2, <2>3, QueueSame DEF FlagHeld
  <1>8. ASSUME NEW u \in Tasks, IntoIterNext(u) PROVE FlagHeld'
    <2>1. /\ opc \in {"idle", "iter"} /\ opc' = "iter"
          /\ future'[u] = "none" /\ \A t \in Tasks \ {u} : future'[t] = future[t]
          /\ UNCHANGED <<fifo, queued, wpc, wtask>>
      BY <1>0, <1>8 DEF IntoIterNext, TypeOK, fifoVars, wakerVars
    <2>2. \A t \in Tasks : ~Owns(t) /\ ~Owns(t)'
      BY <2>1 DEF Owns
    <2>3. \A t \in Tasks : Claimed(t)' <=> Claimed(t)
      BY <1>f, <2>1 DEF Claimed
    <2> QED BY <1>0, <1>f, <2>1, <2>2, <2>3, QueueSame DEF FlagHeld
  <1>9. ASSUME NEW x \in Wakers, ClaimTask(x) PROVE FlagHeld'
    <2> DEFINE u == wtask[x]
    <2>1. /\ u \in Tasks /\ UNCHANGED <<opc, cur, fifo, future>>
          /\ queued'[u] /\ \A t \in Tasks \ {u} : queued'[t] = queued[t]
          /\ \A w \in Wakers, t \in Tasks :
                Claims(w, t)' <=> Claims(w, t) \/ (w = x /\ t = u /\ ~queued[u])
      BY <1>0, <1>9 DEF ClaimTask, TypeOK, WakerTask, fifoVars, ownerVars, Claims
    <2>2. \A t \in Tasks : Owns(t)' <=> Owns(t)
      BY <2>1 DEF Owns
    <2>3. \A t \in Tasks : Claimed(t)' <=> Claimed(t) \/ (t = u /\ ~queued[u])
      BY <2>1 DEF Claimed
    <2> HIDE DEF u
    <2>4. \A v, w \in Wakers, t \in Tasks : Claims(v, t)' /\ Claims(w, t)' => v = w
      BY <1>0, <2>1 DEF FlagHeld, Claimed
    <2>5. \A t \in Tasks : Claimed(t)' => queued'[t] /\ ~Queued(t)' /\ ~Owns(t)'
      BY <1>0, <2>1, <2>2, <2>3, QueueSame DEF FlagHeld
    <2>6. \A t \in Tasks : queued'[t] /\ future'[t] = "some" => (Owns(t) \/ Queued(t) \/ Claimed(t))'
      BY <1>0, <2>1, <2>2, <2>3, QueueSame DEF FlagHeld
    <2>7. opc' \in {"dropFuture", "clearFuture"} => queued'[cur']
      BY <1>0, <2>1 DEF FlagHeld, OwnerTask, TakenPcs
    <2> QED BY <1>0, <2>1, <2>2, <2>4, <2>5, <2>6, <2>7, QueueSame DEF FlagHeld
  <1>10. ASSUME NEW x \in Wakers, WakerSwap(x) PROVE FlagHeld'
    <2> DEFINE u == wtask[x]
    <2>1. /\ u \in Tasks /\ ~Queued(u) /\ fifo' = Append(fifo, u)
          /\ UNCHANGED <<opc, cur, queued, future>>
          /\ Claims(x, u)
          /\ \A w \in Wakers, t \in Tasks : Claims(w, t)' <=> Claims(w, t) /\ w # x
          /\ \A t \in Tasks : Claims(x, t) => t = u
      BY <1>0, <1>10 DEF WakerSwap, Swap, TypeOK, WakerTask, taskVars, ownerVars, Claims
    <2> HIDE DEF u
    <2>2. \A t \in Tasks : Owns(t)' <=> Owns(t)
      BY <2>1 DEF Owns
    <2>3. \A t \in Tasks : Claimed(t)' <=> Claimed(t) /\ t # u
      BY <1>0, <2>1 DEF Claimed, FlagHeld
    <2>4. NoTwice' /\ \A t \in Tasks : Queued(t)' <=> Queued(t) \/ t = u
      BY <1>0, <2>1, QueueAppended DEF FlagHeld, TypeOK
    <2>5. Claimed(u)
      BY <2>1 DEF Claimed
    <2> QED BY <1>0, <2>1, <2>2, <2>3, <2>4, <2>5 DEF FlagHeld
  <1> QED BY <1>1, <1>2, <1>3, <1>4, <1>5, <1>6, <1>7, <1>8, <1>9, <1>10,
             FlagSameStep, FlagSameWaker DEF Next, OwnerStep, Waker, Drain, Finished


-----------------------------------------------------------------------------
(* Reference counts *)

SetRef(t) == SetHolds(t) \/ GivenUp(t)

SetRefMeans ==
    \A t \in Tasks : SetRef(t) <=> \/ t \in inAll \/ cur = t \/ Queued(t) \/ Claimed(t)
                                   \/ (future[t] = "none" /\ ~queued[t])

LEMMA SetRefIs == SetRefMeans /\ SetRefMeans'
  BY DEF SetRefMeans, SetRef, SetHolds, GivenUp, Claimed

LEMMA RefsSame ==
    ASSUME RefsAccounted, UNCHANGED <<strong, clones>>,
           \A t \in Tasks : SetRef(t)' <=> SetRef(t)
    PROVE  RefsAccounted'
  BY DEF RefsAccounted, SetRef

\* The set's reference of u is dropped.
LEMMA RefsDropped ==
    ASSUME TypeOK, RefsAccounted, NEW u \in Tasks, DropArc(u), clones' = clones,
           SetRef(u), ~SetRef(u)',
           \A t \in Tasks \ {u} : SetRef(t)' <=> SetRef(t)
    PROVE  RefsAccounted'
  BY DEF RefsAccounted, SetRef, DropArc, TypeOK

\* Who holds a task is not changed by most steps.
LEMMA HolderFrame ==
    ASSUME \/ PollNext \/ Register \/ CallDequeue \/ OnEmpty \/ OnInconsistent \/ ResetWoken
           \/ (\E r \in {"item", "panic"} : ChildDone(r)) \/ DropSet \/ DropIter \/ DropQueueRef
           \/ (\E w \in Wakers, t \in Tasks : Upgrade(w, t))
           \/ (\E w \in Wakers : SetWoken(w) \/ WakerLink(w) \/ WakeParent(w) \/ Exit(w))
           \/ DrainCall \/ DrainEmpty \/ UNCHANGED vars
    PROVE  UNCHANGED <<strong, clones, future, queued, inAll, cur, fifo>>
  BY Zenon DEF PollNext, Register, CallDequeue, Begin, OnEmpty, Empty, OnInconsistent,
               Inconsistent, ResetWoken, ChildDone, DropSet, DropIter, DropQueueRef, Upgrade,
               SetWoken, WakerLink, Link, WakeParent, Exit, DrainCall, DrainEmpty,
               fifoVars, taskVars, ownerVars, vars

\* Of the steps of the wakers only two change what is claimed.
LEMMA ClaimFrame ==
    ASSUME TypeOK,
           \/ UNCHANGED <<wpc, wtask>>
           \/ (\E w \in Wakers, t \in Tasks : Upgrade(w, t))
           \/ (\E w \in Wakers : SetWoken(w) \/ WakerLink(w) \/ WakeParent(w) \/ Exit(w))
           \/ DrainEmpty
    PROVE  \A t \in Tasks : Claimed(t)' <=> Claimed(t)
  <1>1. \A w \in Wakers, t \in Tasks : Claims(w, t)' <=> Claims(w, t)
    BY DEF Upgrade, SetWoken, WakerLink, WakeParent, Exit, DrainEmpty, Claims, TypeOK
  <1> QED BY <1>1 DEF Claimed

LEMMA RefsStep ==
    ASSUME UnorderedInv, [Next]_vars
    PROVE  RefsAccounted'
  <1> USE TaskFifoAssumption
  <1>0. FlagHeld /\ OwnerTask /\ TypeOK /\ WakerTask /\ RefsAccounted
    BY DEF UnorderedInv
  <1>f. ASSUME UNCHANGED <<wpc, wtask>> PROVE \A t \in Tasks : Claimed(t)' <=> Claimed(t)
    BY <1>0, <1>f, ClaimFrame
  <1>1. ASSUME NEW u \in Tasks, Push(u) PROVE RefsAccounted'
    <2>1. /\ future[u] = "absent" /\ future'[u] = "some" /\ ~queued[u]
          /\ inAll' = inAll \cup {u} /\ cur = NoTask /\ cur' = u
          /\ strong' = [strong EXCEPT ![u] = 1]
          /\ \A t \in Tasks \ {u} : future'[t] = future[t] /\ queued'[t] = queued[t]
          /\ UNCHANGED <<clones, fifo, wpc, wtask>> /\ clones[u] = 0
      BY <1>0, <1>1 DEF Push, TypeOK, OwnerTask, WakerTask, PushPcs, TakenPcs, fifoVars, wakerVars
    <2>2. \A t \in Tasks \ {u} : SetRef(t)' <=> SetRef(t)
      BY <1>f, <2>1, QueueSame, SetRefIs DEF SetRefMeans
    <2>3. SetRef(u)'
      BY <2>1, SetRefIs DEF SetRefMeans
    <2> QED BY <1>0, <2>1, <2>2, <2>3 DEF RefsAccounted, SetRef, TypeOK
  <1>2. CASE PushSwap
    <2>1. /\ cur \in inAll /\ ~Queued(cur) /\ fifo' = Append(fifo, cur)
          /\ UNCHANGED <<strong, clones, future, queued, inAll, cur, wpc, wtask>>
      BY <1>0, <1>2 DEF PushSwap, Swap, OwnerTask, PushPcs, taskVars, wakerVars
    <2>2. \A t \in Tasks : Queued(t)' <=> Queued(t) \/ t = cur
      BY <1>0, <2>1, QueueAppended DEF FlagHeld, TypeOK
    <2>3. \A t \in Tasks : SetRef(t)' <=> SetRef(t)
      BY <1>f, <2>1, <2>2, SetRefIs DEF SetRefMeans
    <2> QED BY <1>0, <2>1, <2>3, RefsSame
  <1>3. CASE PushLink
    <2>1. /\ cur \in inAll /\ cur' = NoTask
          /\ UNCHANGED <<strong, clones, future, queued, inAll, fifo, wpc, wtask>>
      BY <1>0, <1>3 DEF PushLink, Link, OwnerTask, PushPcs, taskVars, wakerVars
    <2>3. \A t \in Tasks : SetRef(t)' <=> SetRef(t)
      BY <1>f, <2>1, QueueSame, SetRefIs DEF SetRefMeans
    <2> QED BY <1>0, <2>1, <2>3, RefsSame
  <1>4. ASSUME OnReleased \/ DrainTask PROVE RefsAccounted'
    <2>0. fifo # <<>> /\ Head(fifo) \in Tasks
      BY <1>0, <1>4 DEF OnReleased, DrainTask, Data, TypeOK
    <2> PICK u \in Tasks : u = Head(fifo)
      BY <2>0
    <2>1. /\ fifo # <<>> /\ fifo' = Tail(fifo) /\ DropArc(u)
          /\ UNCHANGED <<clones, future, queued, inAll, cur, wpc, wtask>>
      BY <1>0, <1>4 DEF OnReleased, DrainTask, Data, TypeOK, ownerVars, wakerVars
    <2>2. u \notin inAll /\ cur = NoTask
      BY <1>0, <1>4, <2>1, DrainAlone DEF OnReleased, DrainTask, OwnerTask, PushPcs, TakenPcs
    <2>3. \A t \in Tasks : Queued(t)' <=> Queued(t) /\ t # u
      BY <1>0, <2>1, QueueTail DEF FlagHeld, TypeOK
    <2>4. Queued(u) /\ queued[u] /\ ~Claimed(u)
      BY <1>0, <2>1, QueuedCreated DEF FlagHeld
    <2>5. ~SetRef(u)' /\ SetRef(u)
      BY <1>f, <2>1, <2>2, <2>3, <2>4, SetRefIs DEF SetRefMeans
    <2>6. \A t \in Tasks \ {u} : SetRef(t)' <=> SetRef(t)
      BY <1>f, <2>1, <2>3, SetRefIs DEF SetRefMeans
    <2> QED BY <1>0, <2>1, <2>5, <2>6, RefsDropped
  <1>5. CASE OnTask
    <2> DEFINE u == Head(fifo)
    <2>1. /\ fifo # <<>> /\ fifo' = Tail(fifo) /\ u \in Tasks
          /\ inAll' = inAll \ {u} /\ cur = NoTask /\ cur' = u
          /\ UNCHANGED <<strong, clones, future, queued, wpc, wtask>>
      BY <1>0, <1>5 DEF OnTask, Data, TypeOK, OwnerTask, PushPcs, TakenPcs, taskVars, wakerVars
    <2>2. \A t \in Tasks : Queued(t)' <=> Queued(t) /\ t # u
      BY <1>0, <2>1, QueueTail DEF FlagHeld, TypeOK
    <2>3. Queued(u)
      BY <2>1, QueuedCreated
    <2> HIDE DEF u
    <2>4. \A t \in Tasks : SetRef(t)' <=> SetRef(t)
      BY <1>f, <2>1, <2>2, <2>3, SetRefIs DEF SetRefMeans
    <2> QED BY <1>0, <2>1, <2>4, RefsSame
  <1>6. ASSUME Unqueue \/ ReleaseSwap PROVE RefsAccounted'
    <2>1. /\ cur \in Tasks /\ \A t \in Tasks \ {cur} : queued'[t] = queued[t]
          /\ UNCHANGED <<strong, clones, future, inAll, cur, fifo, wpc, wtask>>
      BY <1>0, <1>6 DEF Unqueue, ReleaseSwap, OwnerTask, TakenPcs, TypeOK, fifoVars, wakerVars
    <2>2. \A t \in Tasks : SetRef(t)' <=> SetRef(t)
      BY <1>f, <2>1, QueueSame, SetRefIs DEF SetRefMeans
    <2> QED BY <1>0, <2>1, <2>2, RefsSame
  <1>7. CASE ChildPending
    <2>1. /\ inAll' = inAll \cup {cur} /\ cur' = NoTask
          /\ UNCHANGED <<strong, clones, future, queued, fifo, wpc, wtask>>
      BY <1>7 DEF ChildPending, fifoVars, taskVars, wakerVars
    <2>2. \A t \in Tasks : SetRef(t)' <=> SetRef(t)
      BY <1>f, <2>1, QueueSame, SetRefIs DEF SetRefMeans
    <2> QED BY <1>0, <2>1, <2>2, RefsSame
  <1>8. ASSUME ReleaseDone \/ ClearDone \/ ClearPanics PROVE RefsAccounted'
    <2>0. opc \in {"dropFuture", "dropFutureArc", "clearFuture", "clearFutureArc"}
      BY <1>8 DEF ReleaseDone, ClearDone, ClearPanics
    <2> PICK u \in Tasks : u = cur
      BY <1>0, <2>0 DEF OwnerTask, TakenPcs
    <2>1. /\ opc \in {"dropFuture", "dropFutureArc", "clearFuture", "clearFutureArc"}
          /\ u \notin inAll /\ cur' = NoTask /\ future'[u] = "none"
          /\ \A t \in Tasks \ {u} : future'[t] = future[t]
          /\ UNCHANGED <<clones, queued, inAll, fifo, wpc, wtask>>
          /\ IF opc \in {"dropFutureArc", "clearFutureArc"} THEN DropArc(u) ELSE UNCHANGED strong
      BY <1>0, <1>8 DEF ReleaseDone, ClearDone, ClearPanics, DropFuture, TypeOK, OwnerTask,
                        TakenPcs, fifoVars, wakerVars
    <2>2. \A t \in Tasks \ {u} : SetRef(t)' <=> SetRef(t)
      BY <1>f, <2>1, QueueSame, SetRefIs DEF SetRefMeans
    <2>3. SetRef(u) /\ queued[u] /\ future[u] = "some"
      BY <1>0, <2>1, SetRefIs DEF SetRefMeans, FlagHeld, OwnerTask, Owns
    <2>4. CASE opc \in {"dropFutureArc", "clearFutureArc"}
      <3>1. ~Queued(u) /\ ~Claimed(u)
        BY <1>0, <2>1, <2>4 DEF FlagHeld, Owns
      <3>2. ~SetRef(u)'
        BY <1>f, <2>1, <2>3, <3>1, QueueSame, SetRefIs DEF SetRefMeans
      <3> QED BY <1>0, <2>1, <2>2, <2>3, <2>4, <3>2, RefsDropped
    <2>5. CASE opc \in {"dropFuture", "clearFuture"}
      <3>1. Queued(u) \/ Claimed(u)
        BY <1>0, <2>1, <2>3, <2>5 DEF FlagHeld, Owns
      <3>2. SetRef(u)'
        BY <1>f, <2>1, <3>1, QueueSame, SetRefIs DEF SetRefMeans
      <3> QED BY <1>0, <2>1, <2>2, <2>3, <2>5, <3>2, RefsSame
    <2> QED BY <2>1, <2>4, <2>5
  <1>9. ASSUME NEW u \in Tasks, DropNext(u) PROVE RefsAccounted'
    <2>1. /\ u \in inAll /\ inAll' = inAll \ {u} /\ cur = NoTask /\ cur' = u
          /\ UNCHANGED <<strong, clones, future, queued, fifo, wpc, wtask>>
      BY <1>0, <1>9 DEF DropNext, OwnerTask, PushPcs, TakenPcs, fifoVars, taskVars, wakerVars
    <2>2. \A t \in Tasks : SetRef(t)' <=> SetRef(t)
      BY <1>f, <2>1, QueueSame, SetRefIs DEF SetRefMeans
    <2> QED BY <1>0, <2>1, <2>2, RefsSame
  <1>10. ASSUME NEW u \in Tasks, IntoIterNext(u) PROVE RefsAccounted'
    <2>1. /\ opc \in {"idle", "iter"} /\ u \in inAll /\ inAll' = inAll \ {u}
          /\ future'[u] = "none" /\ \A t \in Tasks \ {u} : future'[t] = future[t]
          /\ UNCHANGED <<strong, clones, cur, queued, fifo, wpc, wtask>>
      BY <1>0, <1>10 DEF IntoIterNext, TypeOK, fifoVars, wakerVars
    <2>2. \A t \in Tasks \ {u} : SetRef(t)' <=> SetRef(t)
      BY <1>f, <2>1, QueueSame, SetRefIs DEF SetRefMeans
    <2>3. queued[u] => Queued(u) \/ Claimed(u)
      BY <1>0, <2>1 DEF FlagHeld, OwnerTask, Owns
    <2>4. SetRef(u) /\ SetRef(u)'
      BY <1>f, <2>1, <2>3, QueueSame, SetRefIs DEF SetRefMeans
    <2> QED BY <1>0, <2>1, <2>2, <2>4, RefsSame
  <1>11. CASE CloneWaker
    <2>1. /\ cur \in Tasks
          /\ UNCHANGED <<inAll, cur, future, queued, fifo, wpc, wtask>>
      BY <1>0, <1>11 DEF CloneWaker, OwnerTask, TakenPcs, fifoVars, ownerVars, wakerVars
    <2>2. \A t \in Tasks : SetRef(t)' <=> SetRef(t)
      BY <1>f, <2>1, QueueSame, SetRefIs DEF SetRefMeans
    <2> QED BY <1>0, <1>11, <2>1, <2>2 DEF CloneWaker, RefsAccounted, SetRef, TypeOK
  <1>12. ASSUME NEW u \in Tasks, DropWaker(u) PROVE RefsAccounted'
    <2>1. UNCHANGED <<inAll, cur, future, queued, fifo, wpc, wtask>>
      BY <1>12 DEF DropWaker, fifoVars, ownerVars, wakerVars
    <2>2. \A t \in Tasks : SetRef(t)' <=> SetRef(t)
      BY <1>f, <2>1, QueueSame, SetRefIs DEF SetRefMeans
    <2> QED BY <1>0, <1>12, <2>2 DEF DropWaker, DropArc, RefsAccounted, SetRef, TypeOK
  <1>13. ASSUME NEW x \in Wakers, ClaimTask(x) PROVE RefsAccounted'
    <2> DEFINE u == wtask[x]
    <2>1. /\ u \in Tasks /\ UNCHANGED <<strong, clones, inAll, cur, fifo, future>>
          /\ queued'[u] /\ \A t \in Tasks \ {u} : queued'[t] = queued[t]
          /\ \A w \in Wakers, t \in Tasks :
                Claims(w, t)' <=> Claims(w, t) \/ (w = x /\ t = u /\ ~queued[u])
      BY <1>0, <1>13 DEF ClaimTask, TypeOK, WakerTask, fifoVars, ownerVars, Claims
    <2>2. \A t \in Tasks : Claimed(t)' <=> Claimed(t) \/ (t = u /\ ~queued[u])
      BY <2>1 DEF Claimed
    <2>3. future[u] # "absent"
      <3>1. clones[u] > 0
        BY <1>0, <1>13 DEF WakerTask, ClaimTask
      <3> QED BY <1>0, <2>1, <3>1 DEF WakerTask
    <2> HIDE DEF u
    <2>4. ~queued[u] => SetRef(u)
      BY <1>0, <2>1, <2>3, SetRefIs DEF SetRefMeans, OwnerTask, TypeOK
    <2>5. \A t \in Tasks : SetRef(t)' <=> SetRef(t)
      BY <2>1, <2>2, <2>4, QueueSame, SetRefIs DEF SetRefMeans
    <2> QED BY <1>0, <2>1, <2>5, RefsSame
  <1>14. ASSUME NEW x \in Wakers, WakerSwap(x) PROVE RefsAccounted'
    <2> DEFINE u == wtask[x]
    <2>1. /\ u \in Tasks /\ ~Queued(u) /\ fifo' = Append(fifo, u)
          /\ UNCHANGED <<strong, clones, inAll, cur, queued, future>>
          /\ Claims(x, u)
          /\ \A w \in Wakers, t \in Tasks : Claims(w, t)' <=> Claims(w, t) /\ w # x
          /\ \A t \in Tasks : Claims(x, t) => t = u
      BY <1>0, <1>14 DEF WakerSwap, Swap, TypeOK, WakerTask, taskVars, ownerVars, Claims
    <2> HIDE DEF u
    <2>2. Claimed(u) /\ \A t \in Tasks \ {u} : Claimed(t)' <=> Claimed(t)
      BY <2>1 DEF Claimed
    <2>3. \A t \in Tasks : Queued(t)' <=> Queued(t) \/ t = u
      BY <1>0, <2>1, QueueAppended DEF FlagHeld, TypeOK
    <2>4. \A t \in Tasks : SetRef(t)' <=> SetRef(t)
      BY <2>1, <2>2, <2>3, SetRefIs DEF SetRefMeans
    <2> QED BY <1>0, <2>1, <2>4, RefsSame
  <1>15. ASSUME UNCHANGED <<strong, clones, future, queued, inAll, cur, fifo>>,
                \A t \in Tasks : Claimed(t)' <=> Claimed(t)
         PROVE  RefsAccounted'
    <2>1. \A t \in Tasks : SetRef(t)' <=> SetRef(t)
      BY <1>15, QueueSame, SetRefIs DEF SetRefMeans
    <2> QED BY <1>0, <1>15, <2>1, RefsSame
  <1>16. ASSUME \/ PollNext \/ DropSet \/ DrainCall \/ UNCHANGED vars
                \/ Register \/ CallDequeue \/ OnEmpty \/ OnInconsistent \/ ResetWoken
                \/ (\E r \in {"item", "panic"} : ChildDone(r)) \/ DropIter \/ DropQueueRef
         PROVE  RefsAccounted'
    <2>1. UNCHANGED <<wpc, wtask>>
      BY <1>16, WakerFrame DEF OwnerStep
    <2> QED BY <1>f, <1>15, <1>16, <2>1, HolderFrame
  <1>17. ASSUME \/ (\E w \in Wakers, t \in Tasks : Upgrade(w, t))
                \/ (\E w \in Wakers : SetWoken(w) \/ WakerLink(w) \/ WakeParent(w) \/ Exit(w))
                \/ DrainEmpty
         PROVE  RefsAccounted'
    BY <1>0, <1>15, <1>17, HolderFrame, ClaimFrame
  <1> QED BY <1>1, <1>2, <1>3, <1>4, <1>5, <1>6, <1>7, <1>8, <1>9, <1>10, <1>11, <1>12, <1>13,
             <1>14, <1>16, <1>17 DEF Next, OwnerStep, Waker, Drain, Finished


-----------------------------------------------------------------------------
(* The queue's own references *)

\* Inside its calls the owner keeps its reference.
LEMMA OwnerInside ==
    ASSUME \/ \E t \in Tasks : Push(t) \/ IntoIterNext(t) \/ DropNext(t)
           \/ PollNext \/ DropSet \/ PushSwap \/ PushLink \/ Register
           \/ OnEmpty \/ OnInconsistent \/ OnTask \/ Unqueue \/ ResetWoken \/ ChildPending
           \/ (\E r \in {"item", "panic"} : ChildDone(r)) \/ ReleaseSwap \/ ReleaseDone
           \/ ClearDone \/ DropIter
    PROVE  /\ opc \notin {"drain", "gone"} /\ opc' \notin {"drain", "gone"}
           /\ UNCHANGED <<qstrong, leaked>>
  <1>1. UNCHANGED <<qstrong, leaked>>
    BY Zenon DEF Push, IntoIterNext, DropNext, PollNext, DropSet, PushSwap, PushLink, Register,
             OnEmpty, OnInconsistent, OnTask, Unqueue, ResetWoken, ChildPending, ChildDone,
             ReleaseSwap, ReleaseDone, ClearDone, DropIter
  <1> QED BY <1>1 DEF Push, IntoIterNext, DropNext, PollNext, DropSet, PushSwap, PushLink, Register,
             OnEmpty, OnInconsistent, OnTask, Unqueue, ResetWoken, ChildPending, ChildDone,
             ReleaseSwap, ReleaseDone, ClearDone, DropIter, Return

LEMMA QueueRefsStep ==
    ASSUME UnorderedInv, [Next]_vars
    PROVE  QueueRefs'
  <1>0. QueueRefs /\ TypeOK /\ Cardinality(Active) \in Nat
    BY FS_CardinalityType DEF UnorderedInv, QueueRefs
  <1>1. ASSUME UNCHANGED <<wpc, qstrong, leaked>>,
               opc \notin {"drain", "gone"} /\ opc' \notin {"drain", "gone"}
        PROVE  QueueRefs'
    <2>1. Active' = Active /\ (Draining' => Draining) /\ ~leaked
      BY <1>0, <1>1 DEF Active, Draining, QueueRefs
    <2> QED BY <1>0, <1>1, <2>1 DEF QueueRefs
  <1>2. ASSUME UNCHANGED <<wpc, qstrong, leaked, opc>> PROVE QueueRefs'
    <2>1. Active' = Active /\ (Draining' => Draining)
      BY <1>2 DEF Active, Draining
    <2> QED BY <1>0, <1>2, <2>1 DEF QueueRefs
  <1>3. ASSUME NEW w \in Wakers, NEW t \in Tasks, Upgrade(w, t) PROVE QueueRefs'
    <2>1. /\ wpc[w] = "idle" /\ wpc' = [wpc EXCEPT ![w] = "woken"]
          /\ qstrong' = qstrong + 1 /\ qstrong > 0 /\ UNCHANGED <<opc, leaked>>
      BY <1>3, Zenon DEF Upgrade, ownerVars
    <2>2. Active' = Active \cup {w} /\ w \notin Active
      BY <1>0, <2>1 DEF Active, TypeOK
    <2>3. ~Draining'
      BY <1>0, <2>1 DEF Draining, QueueRefs, TypeOK
    <2>4. IsFiniteSet(Active') /\ Cardinality(Active') = Cardinality(Active) + 1
      BY <1>0, <2>2, FS_AddElement DEF QueueRefs
    <2> QED BY <1>0, <2>1, <2>3, <2>4 DEF QueueRefs
  <1>4. ASSUME NEW w \in Wakers, Exit(w) PROVE QueueRefs'
    <2>1. /\ wpc[w] = "exit" /\ wpc' = [wpc EXCEPT ![w] = IF qstrong = 1 THEN "drain" ELSE "idle"]
          /\ qstrong' = qstrong - 1 /\ UNCHANGED <<opc, leaked>>
      BY <1>4, Zenon DEF Exit, ownerVars
    <2>2. Active' = Active \ {w} /\ w \in Active
      BY <1>0, <2>1 DEF Active, TypeOK
    <2>3. /\ IsFiniteSet(Active') /\ Cardinality(Active') = Cardinality(Active) - 1
          /\ Cardinality(Active') \in Nat
      BY <1>0, <2>2, FS_RemoveElement, FS_CardinalityType DEF QueueRefs
    <2>4. ~Draining
      BY <2>2, DrainAlone
    <2>5. Draining' => qstrong = 1
      BY <1>0, <2>1, <2>4 DEF Draining, TypeOK
    <2> QED BY <1>0, <2>1, <2>3, <2>5 DEF QueueRefs
  <1>5. ASSUME NEW w \in Wakers,
               SetWoken(w) \/ ClaimTask(w) \/ WakerSwap(w) \/ WakerLink(w) \/ WakeParent(w)
        PROVE  QueueRefs'
    <2>1. Active' = Active /\ (Draining' => Draining)
      BY <1>0, <1>5 DEF SetWoken, ClaimTask, WakerSwap, WakerLink, WakeParent, Active, Draining,
                        TypeOK, ownerVars
    <2>2. UNCHANGED <<qstrong, opc, leaked>>
      BY <1>5, Zenon DEF SetWoken, ClaimTask, WakerSwap, WakerLink, WakeParent, ownerVars
    <2> QED BY <1>0, <2>1, <2>2 DEF QueueRefs
  <1>6. CASE DropQueueRef
    <2>1. /\ opc = "drop" /\ qstrong' = qstrong - 1 /\ UNCHANGED <<wpc, leaked>>
          /\ opc' = IF qstrong = 1 THEN "drain" ELSE "gone"
      BY <1>6, Zenon DEF DropQueueRef, wakerVars
    <2>2. ~Draining /\ ~leaked
      BY <1>0, <2>1, DrainAlone DEF QueueRefs
    <2>3. Active' = Active /\ (Draining' => qstrong = 1)
      BY <2>1, <2>2 DEF Active, Draining
    <2> QED BY <1>0, <2>1, <2>2, <2>3 DEF QueueRefs
  <1>7. CASE ClearPanics
    <2>1. /\ opc \in {"clearFuture", "clearFutureArc"} /\ opc' = "gone" /\ leaked'
          /\ UNCHANGED <<qstrong, wpc>>
      BY <1>7 DEF ClearPanics, wakerVars
    <2>2. ~Draining
      BY <2>1, DrainAlone
    <2>3. Active' = Active /\ ~Draining'
      BY <2>1, <2>2 DEF Active, Draining
    <2> QED BY <1>0, <2>1, <2>3 DEF QueueRefs
  <1>8. CASE DrainEmpty
    <2>1. Active' = {} /\ Active = {} /\ ~leaked /\ qstrong = 0 /\ opc \in {"drain", "gone"}
      BY <1>0, <1>8, DrainAlone DEF DrainEmpty, Active, TypeOK
    <2>2. ~leaked' /\ qstrong' = 0 /\ opc' = "gone"
      BY <1>8, <2>1 DEF DrainEmpty
    <2> QED BY <1>0, <2>1, <2>2 DEF QueueRefs
  <1>9. ASSUME \/ \E t \in Tasks : Push(t) \/ IntoIterNext(t) \/ DropNext(t)
               \/ PollNext \/ DropSet \/ PushSwap \/ PushLink \/ Register
               \/ OnEmpty \/ OnInconsistent \/ OnTask \/ Unqueue \/ ResetWoken \/ ChildPending
               \/ (\E r \in {"item", "panic"} : ChildDone(r)) \/ ReleaseSwap \/ ReleaseDone
               \/ ClearDone \/ DropIter
        PROVE  QueueRefs'
    <2>1. wpc' = wpc
      BY <1>9, WakerFrame DEF OwnerStep
    <2> QED BY <1>1, <1>9, <2>1, OwnerInside
  <1>10. ASSUME \/ CloneWaker \/ CallDequeue \/ OnReleased \/ DrainCall \/ DrainTask
                \/ UNCHANGED vars \/ \E t \in Tasks : DropWaker(t)
         PROVE  QueueRefs'
    <2>1. UNCHANGED <<wpc, qstrong, leaked, opc>>
      BY <1>10, Zenon DEF CloneWaker, CallDequeue, OnReleased, DrainCall, DrainTask, DropWaker,
                          ownerVars, wakerVars, vars
    <2> QED BY <1>2, <2>1
  <1> QED BY <1>3, <1>4, <1>5, <1>6, <1>7, <1>8, <1>9, <1>10
          DEF Next, OwnerStep, Waker, Drain, Finished


-----------------------------------------------------------------------------
(* Links and calls of dequeue *)

LinkingBy ==
    \A t \in linking : \/ opc = "pushLink" /\ cur = t
                       \/ \E w \in Wakers : wpc[w] = "link" /\ wtask[w] = t

LEMMA LinkingStep ==
    ASSUME UnorderedInv, [Next]_vars
    PROVE  LinkingBy'
  <1>0. LinkingBy /\ TypeOK
    BY DEF UnorderedInv, LinkPending, LinkingBy
  <1>1. ASSUME PushSwap PROVE LinkingBy'
    BY <1>0, <1>1 DEF PushSwap, Swap, LinkingBy, wakerVars
  <1>2. ASSUME PushLink PROVE LinkingBy'
    BY <1>0, <1>2 DEF PushLink, Link, LinkingBy, wakerVars
  <1>3. ASSUME NEW x \in Wakers, WakerSwap(x) PROVE LinkingBy'
    BY <1>0, <1>3 DEF WakerSwap, Swap, LinkingBy, ownerVars, TypeOK
  <1>4. ASSUME NEW x \in Wakers, WakerLink(x) PROVE LinkingBy'
    BY <1>0, <1>4 DEF WakerLink, Link, LinkingBy, ownerVars, TypeOK
  <1>5. ASSUME UNCHANGED <<linking, wpc, wtask>>, opc # "pushLink" \/ UNCHANGED <<opc, cur>>
        PROVE  LinkingBy'
    BY <1>0, <1>5 DEF LinkingBy
  <1>6. ASSUME \/ \E w \in Wakers, t \in Tasks : Upgrade(w, t)
               \/ \E w \in Wakers : SetWoken(w) \/ ClaimTask(w) \/ WakeParent(w) \/ Exit(w)
        PROVE  LinkingBy'
    <2>1. UNCHANGED <<linking, opc, cur>>
      BY <1>6, Zenon DEF Upgrade, SetWoken, ClaimTask, WakeParent, Exit, fifoVars, ownerVars
    <2>2. \A w \in Wakers : wpc[w] = "link" => wpc'[w] = "link" /\ wtask'[w] = wtask[w]
      BY <1>0, <1>6 DEF Upgrade, SetWoken, ClaimTask, WakeParent, Exit, TypeOK
    <2> QED BY <1>0, <2>1, <2>2 DEF LinkingBy
  <1>7. ASSUME DrainEmpty PROVE LinkingBy'
    BY <1>7, DrainAlone DEF DrainEmpty, Empty, LinkingBy
  <1>8. ASSUME \/ PollNext \/ Register \/ CallDequeue \/ OnEmpty \/ OnInconsistent \/ OnReleased
               \/ OnTask \/ Unqueue \/ ResetWoken \/ ChildPending
               \/ (\E r \in {"item", "panic"} : ChildDone(r)) \/ ReleaseSwap \/ ReleaseDone
               \/ ClearDone \/ ClearPanics \/ DropQueueRef \/ DropSet \/ DropIter
               \/ DrainCall \/ DrainTask
               \/ \E t \in Tasks : Push(t) \/ IntoIterNext(t) \/ DropNext(t)
        PROVE  LinkingBy'
    <2>1. UNCHANGED <<wpc, wtask>>
      BY <1>8, WakerFrame DEF OwnerStep
    <2>2. UNCHANGED linking
      BY <1>8, Zenon DEF PollNext, Register, CallDequeue, OnEmpty, OnInconsistent, OnReleased,
           OnTask, Unqueue, ResetWoken, ChildPending, ChildDone, ReleaseSwap, ReleaseDone,
           ClearDone, ClearPanics, DropQueueRef, DropSet, DropIter, DrainCall, DrainTask, Push,
           IntoIterNext, DropNext, Begin, Empty, Inconsistent, Data, fifoVars
    <2>3. opc # "pushLink"
      BY <1>8, DrainAlone DEF PollNext, Register, CallDequeue, OnEmpty, OnInconsistent, OnReleased,
           OnTask, Unqueue, ResetWoken, ChildPending, ChildDone, ReleaseSwap, ReleaseDone,
           ClearDone, ClearPanics, DropQueueRef, DropSet, DropIter, DrainCall, DrainTask, Push,
           IntoIterNext, DropNext
    <2> QED BY <1>5, <2>1, <2>2, <2>3
  <1>9. ASSUME CloneWaker \/ UNCHANGED vars \/ \E t \in Tasks : DropWaker(t) PROVE LinkingBy'
    <2>1. UNCHANGED <<linking, wpc, wtask, opc, cur>>
      BY <1>9, Zenon DEF CloneWaker, DropWaker, fifoVars, ownerVars, wakerVars, vars
    <2> QED BY <1>5, <2>1
  <1> QED BY <1>1, <1>2, <1>3, <1>4, <1>6, <1>7, <1>8, <1>9
          DEF Next, OwnerStep, Waker, Drain, Finished

CallRight ==
    /\ deq.busy => opc = "dequeue" \/ Draining
    /\ deq.overlap => deq.busy
    /\ Draining => ~deq.overlap

\* Only the owner's loop and who drains the queue call dequeue.
LEMMA NotCalling ==
    ASSUME UnorderedInv, opc \notin {"dequeue", "drain", "gone"}
    PROVE  ~deq.busy /\ ~deq.overlap /\ ~Draining
  <1>1. ~Draining
    BY DrainAlone
  <1> QED BY <1>1 DEF UnorderedInv, LinkPending

LEMMA CallStep ==
    ASSUME UnorderedInv, [Next]_vars
    PROVE  CallRight'
  <1>0. CallRight /\ TypeOK
    BY DEF UnorderedInv, LinkPending, CallRight
  <1>1. ASSUME PushSwap PROVE CallRight'
    <2>1. deq' = [deq EXCEPT !.overlap = deq.busy] /\ ~deq.busy
      BY <1>1, NotCalling DEF PushSwap, Swap
    <2> QED BY <1>0, <2>1 DEF CallRight, TypeOK, Calls
  <1>2. ASSUME OnEmpty \/ OnInconsistent \/ OnReleased \/ OnTask \/ DrainTask \/ DrainEmpty
        PROVE  CallRight'
    <2>1. ~deq'.busy /\ ~deq'.overlap
      BY <1>2 DEF OnEmpty, Empty, OnInconsistent, Inconsistent, OnReleased, OnTask, DrainTask,
                  DrainEmpty, Data, Answer
    <2> QED BY <2>1 DEF CallRight
  <1>3. ASSUME CallDequeue PROVE CallRight'
    <2>1. ~Draining' /\ opc' = "dequeue"
      BY <1>3, DrainAlone DEF CallDequeue, Draining, ownerVars, wakerVars
    <2>2. deq'.busy
      BY <1>3 DEF CallDequeue, Begin
    <2> QED BY <2>1, <2>2 DEF CallRight
  <1>4. ASSUME DrainCall PROVE CallRight'
    <2>1. Draining' /\ linking = {}
      BY <1>4, DrainAlone DEF DrainCall, Draining, ownerVars, wakerVars
    <2>2. deq'.busy /\ ~deq'.overlap
      BY <1>4, <2>1 DEF DrainCall, Begin
    <2> QED BY <2>1, <2>2 DEF CallRight
  <1>5. ASSUME NEW x \in Wakers, WakerSwap(x) PROVE CallRight'
    <2>1. ~Draining /\ ~Draining'
      <3>1. x \in Active
        BY <1>5 DEF WakerSwap, Active
      <3> QED BY <1>0, <1>5, <3>1, DrainAlone DEF WakerSwap, Draining, ownerVars, TypeOK
    <2>2. deq' = [deq EXCEPT !.overlap = deq.busy] /\ opc' = opc
      BY <1>5, Zenon DEF WakerSwap, Swap, ownerVars
    <2> QED BY <1>0, <2>1, <2>2 DEF CallRight, TypeOK, Calls
  <1>6. ASSUME NEW x \in Wakers, Exit(x) PROVE CallRight'
    <2>1. deq' = deq /\ opc' = opc
      BY <1>6, Zenon DEF Exit, fifoVars, ownerVars
    <2>2. x \in Active
      BY <1>6 DEF Exit, Active
    <2>3. ~Draining
      BY <2>2, DrainAlone
    <2>4. CASE qstrong = 1
      <3>1. Cardinality(Active) >= 1
        BY <2>2, FS_EmptySet, FS_CardinalityType DEF UnorderedInv, QueueRefs
      <3>2. opc \in {"drain", "gone"}
        BY <2>4, <3>1, FS_CardinalityType DEF UnorderedInv, QueueRefs
      <3> QED BY <1>0, <2>1, <2>3, <3>2 DEF CallRight
    <2>5. CASE qstrong # 1
      <3>1. ~Draining'
        BY <1>0, <1>6, <2>1, <2>3, <2>5 DEF Exit, Draining, TypeOK
      <3> QED BY <1>0, <2>1, <2>3, <3>1 DEF CallRight
    <2> QED BY <2>4, <2>5
  <1>7. ASSUME \/ \E w \in Wakers, t \in Tasks : Upgrade(w, t)
               \/ \E w \in Wakers : SetWoken(w) \/ ClaimTask(w) \/ WakerLink(w) \/ WakeParent(w)
               \/ CloneWaker \/ UNCHANGED vars \/ \E t \in Tasks : DropWaker(t)
        PROVE  CallRight'
    <2>1. UNCHANGED <<deq, opc>>
      BY <1>7, Zenon DEF Upgrade, SetWoken, ClaimTask, WakerLink, Link, WakeParent, CloneWaker,
                         DropWaker, fifoVars, ownerVars, vars
    <2>2. Draining' <=> Draining
      BY <1>0, <1>7 DEF Upgrade, SetWoken, ClaimTask, WakerLink, WakeParent, CloneWaker,
                        DropWaker, ownerVars, wakerVars, vars, Draining, TypeOK
    <2> QED BY <1>0, <2>1, <2>2 DEF CallRight
  <1>8. ASSUME \/ PollNext \/ Register \/ PushLink
               \/ Unqueue \/ ResetWoken \/ ChildPending
               \/ (\E r \in {"item", "panic"} : ChildDone(r)) \/ ReleaseSwap \/ ReleaseDone
               \/ ClearDone \/ ClearPanics \/ DropQueueRef \/ DropSet \/ DropIter
               \/ \E t \in Tasks : Push(t) \/ IntoIterNext(t) \/ DropNext(t)
        PROVE  CallRight'
    <2>1. UNCHANGED deq
      BY <1>8, Zenon DEF PollNext, Register, PushLink, Link,
           Unqueue, ResetWoken, ChildPending, ChildDone, ReleaseSwap, ReleaseDone,
           ClearDone, ClearPanics, DropQueueRef, DropSet, DropIter, Push,
           IntoIterNext, DropNext, fifoVars
    <2>2. opc \notin {"dequeue", "drain", "gone"}
      BY <1>8 DEF PollNext, Register, PushLink,
           Unqueue, ResetWoken, ChildPending, ChildDone, ReleaseSwap, ReleaseDone,
           ClearDone, ClearPanics, DropQueueRef, DropSet, DropIter, Push,
           IntoIterNext, DropNext
    <2> QED BY <2>1, <2>2, NotCalling DEF CallRight
  <1> QED BY <1>1, <1>2, <1>3, <1>4, <1>5, <1>6, <1>7, <1>8
          DEF Next, OwnerStep, Waker, Drain, Finished

LEMMA LinkPendingStep ==
    ASSUME UnorderedInv, [Next]_vars
    PROVE  LinkPending'
  BY LinkingStep, CallStep DEF LinkPending, LinkingBy, CallRight


-----------------------------------------------------------------------------
(* Wake-ups *)

LEMMA ArmedStep ==
    ASSUME UnorderedInv, [Next]_vars
    PROVE  Armed' /\ Covered'
  <1> DEFINE Goal == Armed' /\ Covered'
  <1>0. /\ TypeOK
        /\ Armed /\ Covered
    BY DEF UnorderedInv
  <1>1. ASSUME OnEmpty PROVE Goal
    <2>1. (registered \/ notified) /\ UNCHANGED <<registered, notified, fifo, wpc>>
      BY <1>0, <1>1 DEF OnEmpty, Empty, Armed, parentVars, wakerVars
    <2>2. fifo # <<>> => \E w \in Wakers : wpc[w] = "link"
      BY <1>1 DEF OnEmpty, Empty, UnorderedInv, LinkPending
    <2> QED BY <2>1, <2>2 DEF Armed, Covered
  <1>2. ASSUME OnInconsistent PROVE Goal
    BY <1>2 DEF OnInconsistent, Armed, Covered
  <1>3. ASSUME ChildPending PROVE Goal
    <2>1. /\ registered \/ notified
          /\ registered' = registered
      BY <1>0, <1>3 DEF ChildPending, Armed
    <2>2. notified' \/ (notified' = notified /\ opc' = "dequeue")
      BY <1>3 DEF ChildPending
    <2> QED BY <2>1, <2>2 DEF Armed, Covered
  <1>4. ASSUME Register PROVE Goal
    BY <1>4 DEF Register, Armed, Covered
  <1>5. ASSUME OnTask \/ Unqueue \/ ResetWoken PROVE Goal
    <2>1. /\ opc \in {"dequeue", "unqueue", "reset"} /\ opc' # "idle"
          /\ UNCHANGED <<registered, notified>>
      BY <1>5 DEF OnTask, Unqueue, ResetWoken, parentVars
    <2> QED BY <1>0, <2>1 DEF Armed, Covered
  <1>6. ASSUME ReleaseDone PROVE Goal
    BY <1>6 DEF ReleaseDone, DropFuture, Return, UnorderedInv, Ended, Armed, Covered
  <1>7. ASSUME \/ PollNext \/ PushSwap \/ PushLink \/ (\E r \in {"item", "panic"} : ChildDone(r))
               \/ ReleaseSwap \/ DropSet \/ DropIter \/ ClearDone \/ ClearPanics \/ DropQueueRef
               \/ DrainCall \/ DrainTask \/ DrainEmpty
               \/ \E t \in Tasks : Push(t) \/ IntoIterNext(t) \/ DropNext(t)
        PROVE  Goal
    <2>1. ~(opc' = "idle" /\ ret' = "pending")
      BY <1>7, DrainAlone
         DEF PollNext, PushSwap, PushLink, ChildDone, ReleaseSwap, DropSet, DropIter, ClearDone,
             ClearPanics, DropQueueRef, DrainCall, DrainTask, DrainEmpty, Push, IntoIterNext,
             DropNext, Return, ownerVars
    <2>2. opc' \notin {"dequeue", "unqueue", "reset", "polling"}
      BY <1>7, DrainAlone
         DEF PollNext, PushSwap, PushLink, ChildDone, ReleaseSwap, DropSet, DropIter, ClearDone,
             ClearPanics, DropQueueRef, DrainCall, DrainTask, DrainEmpty, Push, IntoIterNext,
             DropNext, Return, ownerVars
    <2> QED BY <2>1, <2>2 DEF Armed, Covered
  <1>8. ASSUME CallDequeue \/ OnReleased PROVE Goal
    <2>1. opc = "dequeue" /\ opc' = "dequeue" /\ UNCHANGED <<registered, notified>>
      BY <1>8 DEF CallDequeue, OnReleased, ownerVars, parentVars
    <2> QED BY <1>0, <2>1 DEF Armed, Covered
  <1>9. ASSUME NEW x \in Wakers, WakerSwap(x) \/ WakerLink(x) PROVE Goal
    <2>1. UNCHANGED <<registered, notified, opc, ret>>
      BY <1>9, Zenon DEF WakerSwap, WakerLink, ownerVars, parentVars
    <2>2. wpc'[x] \in {"link", "wake"}
      BY <1>0, <1>9 DEF WakerSwap, WakerLink, TypeOK
    <2> QED BY <1>0, <2>1, <2>2 DEF Armed, Covered
  <1>10. ASSUME NEW x \in Wakers, WakeParent(x) PROVE Goal
    <2>1. UNCHANGED <<opc, ret>> /\ notified' = (notified \/ registered)
      BY <1>10, Zenon DEF WakeParent, ownerVars
    <2> QED BY <1>0, <2>1 DEF Armed, Covered
  <1>11. ASSUME \/ \E w \in Wakers, t \in Tasks : Upgrade(w, t)
                \/ \E w \in Wakers : SetWoken(w) \/ ClaimTask(w) \/ Exit(w)
                \/ CloneWaker \/ UNCHANGED vars \/ \E t \in Tasks : DropWaker(t)
         PROVE  Goal
    <2>1. UNCHANGED <<registered, notified, opc, ret, fifo>>
      BY <1>11, Zenon DEF Upgrade, SetWoken, ClaimTask, Exit, CloneWaker, DropWaker,
                          fifoVars, ownerVars, parentVars, vars
    <2>2. \A w \in Wakers : wpc[w] \in {"link", "wake"} => wpc'[w] = wpc[w]
      BY <1>0, <1>11 DEF Upgrade, SetWoken, ClaimTask, Exit, CloneWaker, DropWaker,
                         wakerVars, vars, TypeOK
    <2> QED BY <1>0, <2>1, <2>2 DEF Armed, Covered
  <1> HIDE DEF Goal
  <1>12. Goal
    BY <1>1, <1>2, <1>3, <1>4, <1>5, <1>6, <1>7, <1>8, <1>9, <1>10, <1>11
       DEF Next, OwnerStep, Waker, Drain, Finished
  <1> QED BY <1>12 DEF Goal

-----------------------------------------------------------------------------
(* Types *)

\* The queue and its calls.
LEMMA FifoTypeStep ==
    ASSUME UnorderedInv, [Next]_vars
    PROVE  fifo' \in Seq(Tasks) /\ linking' \subseteq Tasks /\ deq' \in Calls
  <1> DEFINE Goal == fifo' \in Seq(Tasks) /\ linking' \subseteq Tasks /\ deq' \in Calls
  <1>0. TypeOK /\ deq.busy \in BOOLEAN
    BY DEF UnorderedInv, TypeOK, Calls
  <1>1. ASSUME NEW t \in Tasks, Swap(t) PROVE Goal
    <2>1. fifo' \in Seq(Tasks) /\ linking' \subseteq Tasks
      BY <1>0, <1>1 DEF Swap, TypeOK
    <2>2. deq \in Calls /\ deq' = [deq EXCEPT !.overlap = deq.busy]
      BY <1>0, <1>1 DEF Swap, TypeOK
    <2>3. deq' \in Calls
      BY <1>0, <2>2, Zenon DEF Calls
    <2> QED BY <2>1, <2>3
  <1>2. ASSUME NEW t \in Tasks, Link(t) PROVE Goal
    BY <1>0, <1>2 DEF Link, TypeOK
  <1>3. ASSUME Begin PROVE Goal
    BY <1>0, <1>3, TaskFifoAssumption DEF Begin, TypeOK, Calls
  <1>4. ASSUME Data PROVE Goal
    BY <1>0, <1>4 DEF Data, Answer, TypeOK, Calls
  <1>5. ASSUME Empty \/ Inconsistent PROVE Goal
    <2>1. PICK k \in {"Empty", "Inconsistent"} : Answer(k, NoTask)
      BY <1>5 DEF Empty, Inconsistent
    <2>2. deq' \in Calls
      BY <2>1 DEF Answer, Calls
    <2> QED BY <1>0, <1>5, <2>2 DEF Empty, Inconsistent, TypeOK
  <1>6. ASSUME UNCHANGED fifoVars PROVE Goal
    BY <1>0, <1>6 DEF fifoVars, TypeOK
  <1>7. ASSUME PushSwap \/ PushLink PROVE Goal
    <2>1. cur \in Tasks
      BY <1>0, <1>7 DEF PushSwap, PushLink, UnorderedInv, OwnerTask, PushPcs, TypeOK
    <2> QED BY <1>1, <1>2, <1>7, <2>1 DEF PushSwap, PushLink
  <1>8. ASSUME NEW x \in Wakers, WakerSwap(x) \/ WakerLink(x) PROVE Goal
    <2>1. wtask[x] \in Tasks
      BY <1>0, <1>8 DEF WakerSwap, WakerLink, UnorderedInv, WakerTask, TypeOK
    <2> QED BY <1>1, <1>2, <1>8, <2>1 DEF WakerSwap, WakerLink
  <1>9. ASSUME \/ CallDequeue \/ OnEmpty \/ OnInconsistent \/ OnReleased \/ OnTask \/ Drain
        PROVE  Goal
    BY <1>3, <1>4, <1>5, <1>9 DEF CallDequeue, OnEmpty, OnInconsistent, OnReleased, OnTask, Drain,
                                  DrainCall, DrainTask, DrainEmpty
  <1>10. ASSUME \/ PollNext \/ Register \/ Unqueue \/ ResetWoken \/ ChildPending
                \/ (\E r \in {"item", "panic"} : ChildDone(r)) \/ ReleaseSwap \/ ReleaseDone
                \/ ClearDone \/ ClearPanics \/ DropQueueRef \/ DropSet \/ DropIter
                \/ (\E t \in Tasks : Push(t) \/ IntoIterNext(t) \/ DropNext(t))
                \/ (\E w \in Wakers, t \in Tasks : Upgrade(w, t))
                \/ (\E w \in Wakers : SetWoken(w) \/ ClaimTask(w) \/ WakeParent(w) \/ Exit(w))
                \/ CloneWaker \/ UNCHANGED vars \/ \E t \in Tasks : DropWaker(t)
         PROVE  Goal
    <2>1. UNCHANGED fifoVars
      BY <1>10, Zenon DEF PollNext, Register, Unqueue, ResetWoken, ChildPending, ChildDone,
           ReleaseSwap, ReleaseDone, ClearDone, ClearPanics, DropQueueRef, DropSet, DropIter, Push,
           IntoIterNext, DropNext, Upgrade, SetWoken, ClaimTask, WakeParent, Exit, CloneWaker,
           DropWaker, vars
    <2> QED BY <1>6, <2>1
  <1> HIDE DEF Goal
  <1>11. Goal
    BY <1>7, <1>8, <1>9, <1>10 DEF Next, OwnerStep, Waker, Finished
  <1> QED BY <1>11 DEF Goal


OwnerTypes ==
    /\ inAll \subseteq Tasks /\ cur \in Tasks \cup {NoTask}
    /\ opc \in {"idle", "pushSwap", "pushLink", "register", "dequeue", "unqueue", "reset",
                "polling", "release", "dropFuture", "dropFutureArc", "iter", "drop",
                "dropRelease", "clearFuture", "clearFutureArc", "drain", "gone"}
    /\ len \in Nat /\ polled \in Nat /\ yielded \in 0 .. 1
    /\ ret \in {"none", "pushed", "pending", "item", "done", "panic"}

LEMMA OwnerTypeStep ==
    ASSUME UnorderedInv, [Next]_vars
    PROVE  OwnerTypes'
  <1> USE DEF Return
  <1>0. OwnerTypes /\ OwnerTask
    BY DEF UnorderedInv, TypeOK, OwnerTypes
  <1>1. ASSUME NEW t \in Tasks, Push(t) \/ DropNext(t) \/ IntoIterNext(t) PROVE OwnerTypes'
    BY <1>0, <1>1 DEF Push, DropNext, IntoIterNext, OwnerTypes, pollVars
  <1>2. ASSUME PushSwap \/ PushLink \/ Register \/ OnEmpty \/ OnInconsistent \/ Unqueue
               \/ ResetWoken \/ DropSet \/ DropIter \/ DropQueueRef
        PROVE  OwnerTypes'
    BY <1>0, <1>2 DEF PushSwap, PushLink, Register, OnEmpty, OnInconsistent, Unqueue, ResetWoken,
                      DropSet, DropIter, DropQueueRef, OwnerTypes, pollVars
  <1>3. ASSUME PollNext PROVE OwnerTypes'
    <2>1. Cardinality(inAll) \in Nat
      BY <1>0, FS_CardinalityType DEF OwnerTask
    <2> QED BY <1>0, <1>3, <2>1 DEF PollNext, OwnerTypes
  <1>4. ASSUME OnTask PROVE OwnerTypes'
    <2>1. Head(fifo) \in Tasks
      BY <1>4, QueuedCreated DEF OnTask, Data
    <2> QED BY <1>0, <1>4, <2>1 DEF OnTask, OwnerTypes, pollVars
  <1>5. ASSUME ChildPending PROVE OwnerTypes'
    <2>1. cur \in Tasks
      BY <1>0, <1>5 DEF ChildPending, OwnerTask, TakenPcs
    <2> QED BY <1>0, <1>5, <2>1 DEF ChildPending, OwnerTypes
  <1>6. ASSUME NEW r \in {"item", "panic"}, ChildDone(r) PROVE OwnerTypes'
    BY <1>0, <1>6 DEF ChildDone, OwnerTypes, pollVars
  <1>7. ASSUME ReleaseSwap \/ ReleaseDone \/ ClearDone \/ ClearPanics PROVE OwnerTypes'
    BY <1>0, <1>7 DEF ReleaseSwap, ReleaseDone, ClearDone, ClearPanics, DropFuture, OwnerTypes,
                      pollVars
  <1>8. ASSUME DrainEmpty PROVE OwnerTypes'
    BY <1>0, <1>8 DEF DrainEmpty, OwnerTypes, pollVars
  <1>9. ASSUME UNCHANGED ownerVars PROVE OwnerTypes'
    BY <1>0, <1>9 DEF ownerVars, pollVars, OwnerTypes
  <1> QED BY <1>1, <1>2, <1>3, <1>4, <1>5, <1>6, <1>7, <1>8, <1>9, OwnerFrame
          DEF Next, OwnerStep, Drain, Finished

TaskTypes ==
    /\ future \in [Tasks -> {"absent", "some", "none"}]
    /\ queued \in [Tasks -> BOOLEAN] /\ woken \in [Tasks -> BOOLEAN]
    /\ strong \in [Tasks -> Int] /\ clones \in [Tasks -> 0 .. MaxClones]
    /\ owed \in [Tasks -> BOOLEAN]

LEMMA TaskTypeStep ==
    ASSUME UnorderedInv, [Next]_vars
    PROVE  TaskTypes'
  <1> USE UnorderedAssumption DEF DropArc
  <1>0. TaskTypes /\ OwnerTask /\ TypeOK
    BY DEF UnorderedInv, TypeOK, TaskTypes
  <1>1. ASSUME NEW t \in Tasks, Push(t) PROVE TaskTypes'
    BY <1>0, <1>1 DEF Push, TaskTypes
  <1>2. ASSUME NEW t \in Tasks, IntoIterNext(t) PROVE TaskTypes'
    BY <1>0, <1>2 DEF IntoIterNext, TaskTypes
  <1>3. ASSUME NEW t \in Tasks, DropWaker(t) PROVE TaskTypes'
    BY <1>0, <1>3 DEF DropWaker, TaskTypes
  <1>4. ASSUME CloneWaker PROVE TaskTypes'
    <2>1. /\ clones' = [clones EXCEPT ![cur] = @ + 1] /\ strong' = [strong EXCEPT ![cur] = @ + 1]
          /\ UNCHANGED <<future, queued, woken, owed>> /\ opc = "polling" /\ clones[cur] < MaxClones
      BY <1>4, Zenon DEF CloneWaker
    <2>2. cur \in Tasks
      BY <1>0, <2>1 DEF OwnerTask, TakenPcs
    <2> QED BY <1>0, <2>1, <2>2 DEF TaskTypes
  <1>5. ASSUME OnReleased \/ DrainTask PROVE TaskTypes'
    BY <1>0, <1>5 DEF OnReleased, DrainTask, TaskTypes
  <1>6. ASSUME Unqueue \/ ResetWoken \/ ReleaseSwap PROVE TaskTypes'
    BY <1>0, <1>6 DEF Unqueue, ResetWoken, ReleaseSwap, TaskTypes
  <1>7. ASSUME ReleaseDone \/ ClearDone \/ ClearPanics PROVE TaskTypes'
    <2>1. DropFuture /\ UNCHANGED <<queued, woken, clones>>
      BY <1>7, Zenon DEF ReleaseDone, ClearDone, ClearPanics
    <2>2. /\ future' = [future EXCEPT ![cur] = "none"] /\ owed' = [owed EXCEPT ![cur] = FALSE]
          /\ strong' = strong \/ strong' = [strong EXCEPT ![cur] = @ - 1]
      BY <2>1, Zenon DEF DropFuture
    <2>3. strong' \in [Tasks -> Int]
      BY <1>0, <2>2 DEF TaskTypes
    <2> QED BY <1>0, <2>1, <2>2, <2>3 DEF TaskTypes
  <1>8. ASSUME NEW w \in Wakers, NEW t \in Tasks, Upgrade(w, t) PROVE TaskTypes'
    BY <1>0, <1>8 DEF Upgrade, TaskTypes, taskVars
  <1>9. ASSUME NEW w \in Wakers, SetWoken(w) \/ ClaimTask(w) PROVE TaskTypes'
    BY <1>0, <1>9 DEF SetWoken, ClaimTask, TaskTypes
  <1>10. ASSUME \/ PollNext \/ DropSet \/ PushSwap \/ PushLink \/ Register \/ CallDequeue
                \/ OnEmpty \/ OnInconsistent \/ OnTask \/ ChildPending
                \/ (\E r \in {"item", "panic"} : ChildDone(r)) \/ DropQueueRef \/ DropIter
                \/ (\E t \in Tasks : DropNext(t))
                \/ (\E w \in Wakers : WakerSwap(w) \/ WakerLink(w) \/ WakeParent(w) \/ Exit(w))
                \/ DrainCall \/ DrainEmpty \/ UNCHANGED vars
         PROVE  TaskTypes'
    <2>1. UNCHANGED <<future, queued, woken, strong, clones, owed>>
      BY <1>10, Zenon DEF PollNext, DropSet, PushSwap, PushLink, Register, CallDequeue, OnEmpty,
           OnInconsistent, OnTask, ChildPending, ChildDone, DropQueueRef, DropIter, DropNext,
           WakerSwap, WakerLink, WakeParent, Exit, DrainCall, DrainEmpty, taskVars, vars
    <2> QED BY <1>0, <2>1 DEF TaskTypes
  <1> QED BY <1>1, <1>2, <1>3, <1>4, <1>5, <1>6, <1>7, <1>8, <1>9, <1>10
          DEF Next, OwnerStep, Waker, Drain, Finished

SharedTypes ==
    /\ registered \in BOOLEAN /\ notified \in BOOLEAN
    /\ isTerminated \in BOOLEAN /\ leaked \in BOOLEAN
    /\ wpc \in [Wakers -> {"idle", "woken", "claim", "swap", "link", "wake", "exit", "drain"}]
    /\ wtask \in [Wakers -> Tasks \cup {NoTask}]

LEMMA SharedTypeStep ==
    ASSUME UnorderedInv, [Next]_vars
    PROVE  SharedTypes'
  <1>0. SharedTypes
    BY DEF UnorderedInv, TypeOK, SharedTypes
  <1>1. registered' \in BOOLEAN
    <2>1. CASE Register \/ \E w \in Wakers : WakeParent(w)
      BY <2>1, Zenon DEF Register, WakeParent
    <2>2. CASE ~Register /\ ~\E w \in Wakers : WakeParent(w)
      <3>1. registered' = registered
        BY <2>2, Zenon DEF Next, Push, IntoIterNext, DropWaker, PollNext, DropSet, CloneWaker, OwnerStep,
             PushSwap, PushLink, CallDequeue, OnEmpty, OnInconsistent, OnReleased, OnTask, Unqueue,
             ResetWoken, ChildPending, ChildDone, ReleaseSwap, ReleaseDone, DropNext, ClearDone,
             ClearPanics, DropQueueRef, DropIter, Upgrade, Waker, SetWoken, ClaimTask, WakerSwap,
             WakerLink, Exit, Drain, DrainCall, DrainTask, DrainEmpty, Finished, parentVars, vars
      <3> QED BY <1>0, <3>1, Zenon DEF SharedTypes
    <2> QED BY <2>1, <2>2, Zenon
  <1>2. notified' \in BOOLEAN
    <2>1. CASE PollNext \/ OnInconsistent \/ ChildPending
      BY <1>0, <2>1, Zenon DEF PollNext, OnInconsistent, ChildPending, SharedTypes
    <2>2. CASE \E w \in Wakers : WakeParent(w)
      BY <2>2, Zenon DEF WakeParent
    <2>3. CASE ~PollNext /\ ~OnInconsistent /\ ~ChildPending /\ ~\E w \in Wakers : WakeParent(w)
      <3>1. notified' = notified
        BY <2>3, Zenon DEF Next, Push, IntoIterNext, DropWaker, DropSet, CloneWaker, OwnerStep,
             PushSwap, PushLink, Register, CallDequeue, OnEmpty, OnReleased, OnTask, Unqueue,
             ResetWoken, ChildDone, ReleaseSwap, ReleaseDone, DropNext, ClearDone,
             ClearPanics, DropQueueRef, DropIter, Upgrade, Waker, SetWoken, ClaimTask, WakerSwap,
             WakerLink, Exit, Drain, DrainCall, DrainTask, DrainEmpty, Finished, parentVars, vars
      <3> QED BY <1>0, <3>1, Zenon DEF SharedTypes
    <2> QED BY <2>1, <2>2, <2>3, Zenon
  <1>3. isTerminated' \in BOOLEAN
    <2>1. CASE OnEmpty \/ \E t \in Tasks : Push(t)
      BY <2>1, Zenon DEF OnEmpty, Push
    <2>2. CASE ~OnEmpty /\ ~\E t \in Tasks : Push(t)
      <3>1. isTerminated' = isTerminated
        BY <2>2, OwnerFrame, Zenon DEF Next, IntoIterNext, PollNext, DropSet, OwnerStep,
             PushSwap, PushLink, Register, OnInconsistent, OnTask, Unqueue,
             ResetWoken, ChildPending, ChildDone, ReleaseSwap, ReleaseDone, DropNext, ClearDone,
             ClearPanics, DropQueueRef, DropIter, Drain, DrainEmpty, Finished, ownerVars
      <3> QED BY <1>0, <3>1, Zenon DEF SharedTypes
    <2> QED BY <2>1, <2>2, Zenon
  <1>4. leaked' \in BOOLEAN
    <2>1. CASE ClearPanics
      BY <2>1, Zenon DEF ClearPanics
    <2>2. CASE ~ClearPanics
      <3>1. leaked' = leaked
        BY <2>2, OwnerInside, OwnerFrame, Zenon DEF Next, OwnerStep, DropQueueRef, Drain, DrainEmpty,
             Finished, ownerVars
      <3> QED BY <1>0, <3>1, Zenon DEF SharedTypes
    <2> QED BY <2>1, <2>2, Zenon
  <1>5. /\ wpc' \in [Wakers -> {"idle", "woken", "claim", "swap", "link", "wake", "exit", "drain"}]
        /\ wtask' \in [Wakers -> Tasks \cup {NoTask}]
    <2> DEFINE Goal == /\ wpc' \in [Wakers -> {"idle", "woken", "claim", "swap", "link", "wake",
                                               "exit", "drain"}]
                       /\ wtask' \in [Wakers -> Tasks \cup {NoTask}]
    <2>1. ASSUME NEW w \in Wakers, NEW t \in Tasks, Upgrade(w, t) PROVE Goal
      BY <1>0, <2>1 DEF Upgrade, SharedTypes
    <2>2. ASSUME NEW w \in Wakers, Waker(w) PROVE Goal
      BY <1>0, <2>2 DEF Waker, SetWoken, ClaimTask, WakerSwap, WakerLink, WakeParent, Exit, SharedTypes
    <2>3. ASSUME DrainEmpty PROVE Goal
      BY <1>0, <2>3 DEF DrainEmpty, SharedTypes
    <2>4. ASSUME CloneWaker \/ \E t \in Tasks : DropWaker(t) PROVE Goal
      BY <1>0, <2>4 DEF CloneWaker, DropWaker, wakerVars, SharedTypes
    <2>5. ASSUME UNCHANGED <<wpc, wtask, clones>> PROVE Goal
      BY <1>0, <2>5 DEF SharedTypes
    <2> HIDE DEF Goal
    <2>6. Goal
      BY <2>1, <2>2, <2>3, <2>4, <2>5, WakerFrame DEF Next, Drain, Finished
    <2> QED BY <2>6 DEF Goal
  <1> QED BY <1>1, <1>2, <1>3, <1>4, <1>5, Zenon DEF SharedTypes

LEMMA TypeStep ==
    ASSUME UnorderedInv, [Next]_vars
    PROVE  TypeOK'
  <1>1. strong' \in [Tasks -> Nat]
    <2>1. \A t \in Tasks : strong'[t] \in Nat
      BY RefsStep, TaskTypeStep, UnorderedAssumption DEF RefsAccounted, TaskTypes
    <2> QED BY <2>1, TaskTypeStep DEF TaskTypes
  <1>2. qstrong' \in Nat
    <2>1. IsFiniteSet(Active') => Cardinality(Active') \in Nat
      BY FS_CardinalityType
    <2> QED BY <2>1, QueueRefsStep DEF QueueRefs
  <1> QED BY <1>1, <1>2, FifoTypeStep, OwnerTypeStep, TaskTypeStep, SharedTypeStep, Zenon
          DEF TypeOK, OwnerTypes, TaskTypes, SharedTypes

-----------------------------------------------------------------------------
(* The results *)

\* The inductive invariant holds for ever (futures_unordered/mod.rs, task.rs).
THEOREM UnorderedCorrect == Spec => []UnorderedInv
  <1>1. ASSUME UnorderedInv, [Next]_vars PROVE UnorderedInv'
    <2>1. TypeOK' /\ OwnerTask' /\ Ended' /\ WakerTask' /\ FlagHeld'
      BY <1>1, TypeStep, OwnerTaskStep, EndedStep, WakerTaskStep, FlagHeldStep
    <2>2. RefsAccounted' /\ QueueRefs' /\ LinkPending' /\ Armed' /\ Covered'
      BY <1>1, RefsStep, QueueRefsStep, LinkPendingStep, ArmedStep
    <2> QED BY <2>1, <2>2 DEF UnorderedInv
  <1> QED BY <1>1, InitUnordered, PTL DEF Spec

\* Every variable keeps its type; in particular no reference count ever falls
\* below zero (release_task, Drop of both structures).
THEOREM TypeCorrect == Spec => []TypeOK
  <1>1. UnorderedInv => TypeOK
    BY DEF UnorderedInv
  <1> QED BY <1>1, UnorderedCorrect, PTL

\* Wherever a release falls between the steps of a wake-up, every reference of a
\* task is one of a waker's, the set's one, or the one given up by IntoIter
\* (release_task, unlink, wake_by_ref, Drop of both structures).
THEOREM RefsStayAccounted == Spec => []RefsAccounted
  <1>1. UnorderedInv => RefsAccounted
    BY DEF UnorderedInv
  <1> QED BY <1>1, UnorderedCorrect, PTL

\* No two threads enqueue a task at once, none enqueues one that is in the queue,
\* and the assertion on the flag in poll_next holds (wake_by_ref, poll_next).
THEOREM NeverEnqueuedTwice == Spec => []EnqueuedOnce
  <1>1. UnorderedInv => EnqueuedOnce
    <2> SUFFICES ASSUME UnorderedInv PROVE EnqueuedOnce
      OBVIOUS
    <2>1. FlagHeld /\ OwnerTask /\ WakerTask /\ TypeOK
      BY DEF UnorderedInv
    <2>2. \A w \in Wakers : wpc[w] = "swap" => wtask[w] \in Tasks /\ Claims(w, wtask[w])
      BY <2>1 DEF WakerTask, TypeOK, Claims
    <2>3. /\ opc = "pushSwap" => cur \in Tasks /\ Owns(cur)
          /\ opc = "unqueue" => cur \in Tasks /\ Owns(cur)
      BY <2>1 DEF OwnerTask, PushPcs, TakenPcs, TypeOK, Owns
    <2>4. \A w \in Wakers : wpc[w] = "swap" => ~Queued(wtask[w])
      BY <2>1, <2>2 DEF FlagHeld, Claimed
    <2>5. \A v, w \in Wakers : v # w /\ wpc[v] = "swap" /\ wpc[w] = "swap" => wtask[v] # wtask[w]
      BY <2>1, <2>2 DEF FlagHeld
    <2> QED BY <2>1, <2>3, <2>4, <2>5 DEF FlagHeld, EnqueuedOnce
  <1> QED BY <1>1, UnorderedCorrect, PTL

\* No task is freed with its future in it, none that was released is linked, and
\* nobody enqueues while the queue is being dropped: no abort, and no "inconsistent"
\* in the destructor (Drop of Task and of ReadyToRunQueue, poll_next).
THEOREM AbortsStayUnreachable == Spec => []AbortsUnreachable
  <1>1. UnorderedInv => AbortsUnreachable
    <2> SUFFICES ASSUME UnorderedInv PROVE AbortsUnreachable
      OBVIOUS
    <2>1. \A t \in Tasks : strong[t] = 0 => future[t] # "some"
      <3> SUFFICES ASSUME NEW t \in Tasks, future[t] = "some" PROVE strong[t] # 0
        OBVIOUS
      <3>1. SetRef(t)
        BY SetRefIs DEF UnorderedInv, OwnerTask, SetRefMeans
      <3> QED BY <3>1 DEF UnorderedInv, RefsAccounted, SetRef, TypeOK
    <2>2. \A t \in Tasks : future[t] = "none" => t \notin inAll
      BY DEF UnorderedInv, OwnerTask
    <2>3. Draining => linking = {} /\ ~deq.overlap
      BY DrainAlone DEF UnorderedInv, LinkPending
    <2> QED BY <2>1, <2>2, <2>3 DEF AbortsUnreachable
  <1> QED BY <1>1, UnorderedCorrect, PTL

\* After "pending" a task in the ready-to-run queue always comes with a wake-up of
\* the parent, done or about to be done (poll_next, wake_by_ref).
THEOREM WakeupsKept == Spec => []NoLostWakeup
  <1>1. UnorderedInv => NoLostWakeup
    BY DEF UnorderedInv, Armed, Covered, NoLostWakeup
  <1> QED BY <1>1, UnorderedCorrect, PTL

-----------------------------------------------------------------------------
(* FuturesUnordered implements FutureSet *)

Seen == <<HeldFutures, DueFutures, Asking, Polled, Answered, isTerminated, notified>>

Due(t) == Queued(t) \/ InHand(t) \/ Waking(t)

\* A step the consumer does not see, except perhaps that it is notified.
Unseen ==
    /\ UNCHANGED <<HeldFutures, DueFutures, Asking, Polled, Answered, isTerminated>>
    /\ notified' = notified \/ notified' = TRUE

LEMMA UnseenStep == Unseen => [FutureSetSeen!SetNext]_Seen
  BY DEF Unseen, Seen, FutureSetSeen!SetNext, FutureSetSeen!Notify

-----------------------------------------------------------------------------
(* Which futures are held, and which are due *)

LEMMA DueIs == DueFutures = {t \in HeldFutures : Due(t)}
  BY DEF DueFutures, Due

LEMMA HeldAre ==
    ASSUME UnorderedInv
    PROVE  /\ HeldFutures \subseteq Tasks
           /\ \A t \in HeldFutures : future[t] = "some"
           /\ opc \notin {"unqueue", "reset", "polling"} => HeldFutures = inAll
           /\ opc \in {"unqueue", "reset", "polling"} =>
                 cur \in Tasks \ inAll /\ HeldFutures = inAll \cup {cur} /\ cur # NoTask
  BY TaskFifoAssumption DEF UnorderedInv, TypeOK, OwnerTask, TakenPcs, HeldFutures

\* Where the queue, the owner's hands and the wakers say the same of every future,
\* the same futures are due.
LEMMA DueSame ==
    ASSUME HeldFutures' = HeldFutures,
           \A t \in HeldFutures : Due(t)' <=> Due(t)
    PROVE  DueFutures' = DueFutures
  BY DueIs DEF DueFutures, Due

LEMMA WakingSame ==
    ASSUME UNCHANGED <<wpc, wtask>>
    PROVE  \A t : Waking(t)' <=> Waking(t)
  BY DEF Waking

LEMMA WakersLeave ==
    ASSUME \/ \E w \in Wakers : Waker(w)
           \/ \E w \in Wakers, t \in Tasks : Upgrade(w, t)
           \/ \E t \in Tasks : DropWaker(t)
           \/ CloneWaker \/ DrainCall \/ DrainTask
           \/ UNCHANGED vars
    PROVE  /\ UNCHANGED <<HeldFutures, Asking, Polled, Answered, isTerminated>>
           /\ \A t : InHand(t)' <=> InHand(t)
  <1>1. UNCHANGED ownerVars
    BY OwnerFrame
  <1> QED BY <1>1 DEF ownerVars, HeldFutures, Asking, Polled, Answered, InHand

-----------------------------------------------------------------------------
(* Wakers, and whoever drains the queue *)

\* While the queue is drained no future is held.
LEMMA DrainUnseen ==
    ASSUME UnorderedInv, Drain
    PROVE  Unseen
  <1>1. opc \in {"drain", "gone"} /\ inAll = {}
    BY DrainAlone DEF Drain, DrainCall, DrainTask, DrainEmpty, Begin, Data, Empty, Draining,
                      LinkPending, UnorderedInv
  <1>2. opc' \in {"drain", "gone"} /\ UNCHANGED <<inAll, isTerminated, notified, ret>>
    BY <1>1 DEF Drain, DrainCall, DrainTask, DrainEmpty, ownerVars, parentVars
  <1>3. HeldFutures = {} /\ HeldFutures' = {}
    BY <1>1, <1>2 DEF HeldFutures
  <1> QED BY <1>1, <1>2, <1>3 DEF Unseen, DueFutures, Asking, Polled, Answered

\* A wake-up makes its future due from its beginning.
LEMMA UpgradeSeen ==
    ASSUME UnorderedInv, NEW w \in Wakers, NEW x \in Tasks, Upgrade(w, x)
    PROVE  FutureSetSeen!Wake(x)
  <1>1. /\ UNCHANGED <<HeldFutures, Asking, Polled, Answered, isTerminated, notified>>
        /\ \A t : InHand(t)' <=> InHand(t)
    <2>1. notified' = notified
      BY DEF Upgrade, parentVars
    <2> QED BY <2>1, WakersLeave
  <1>2. \A t \in Tasks : Queued(t)' <=> Queued(t)
    BY QueueSame DEF Upgrade, fifoVars
  <1>3. \A t \in Tasks : Waking(t)' <=> Waking(t) \/ t = x
    BY DEF Upgrade, Waking, UnorderedInv, TypeOK
  <1>4. DueFutures' = DueFutures \cup (HeldFutures \cap {x})
    BY <1>1, <1>2, <1>3, HeldAre DEF DueFutures
  <1> QED BY <1>1, <1>4 DEF FutureSetSeen!Wake

\* A wake-up that finds the flag set leaves its future due: the task is in the queue
\* or on its way, unless the future is being released.
LEMMA ClaimUnseen ==
    ASSUME UnorderedInv, NEW w \in Wakers, ClaimTask(w)
    PROVE  \A t \in HeldFutures : Due(t)' <=> Due(t)
  <1>0. /\ wpc[w] = "claim" /\ UNCHANGED <<fifo, wtask, cur, opc>>
        /\ wpc' = [wpc EXCEPT ![w] = IF queued[wtask[w]] THEN "exit" ELSE "swap"]
        /\ wpc \in [Wakers -> {"idle", "woken", "claim", "swap", "link", "wake", "exit", "drain"}]
    BY DEF ClaimTask, fifoVars, ownerVars, UnorderedInv, TypeOK
  <1>1. ASSUME NEW t \in HeldFutures PROVE Due(t)' <=> Due(t)
    <2>1. t \in Tasks /\ future[t] = "some" /\ (Queued(t)' <=> Queued(t))
      BY <1>0, HeldAre, QueueSame
    <2>2. InHand(t)' <=> InHand(t)
      BY <1>0 DEF InHand
    <2>3. Waking(t)' => Waking(t)
      BY <1>0 DEF Waking
    <2>4. CASE wtask[w] # t \/ ~queued[t]
      <3>1. Waking(t)' <=> Waking(t)
        BY <1>0, <2>4 DEF Waking
      <3> QED BY <2>1, <2>2, <3>1 DEF Due
    <2>5. CASE wtask[w] = t /\ queued[t]
      <3>1. Owns(t) \/ Queued(t) \/ Claimed(t)
        BY <2>1, <2>5 DEF UnorderedInv, FlagHeld
      <3>2. Owns(t) => InHand(t)
        BY <2>1, HeldAre DEF Owns, InHand, UnorderedInv, OwnerTask, TakenPcs
      <3>3. Claimed(t) => Waking(t)'
        BY <1>0 DEF Claimed, Claims, Waking
      <3>4. Waking(t)
        BY <1>0, <2>5 DEF Waking
      <3> QED BY <2>1, <2>2, <3>1, <3>2, <3>3, <3>4 DEF Due
    <2> QED BY <2>4, <2>5
  <1> QED BY <1>1

\* The other steps of a wake-up, and of waker clones.
LEMMA WakerUnseen ==
    ASSUME UnorderedInv,
           \/ \E w \in Wakers : Waker(w)
           \/ \E t \in Tasks : DropWaker(t)
           \/ CloneWaker
           \/ UNCHANGED vars
    PROVE  Unseen
  <1> USE DEF UnorderedInv, TypeOK
  <1>0. /\ UNCHANGED <<HeldFutures, Asking, Polled, Answered, isTerminated>>
        /\ \A t : InHand(t)' <=> InHand(t)
    BY WakersLeave
  <1>1. ASSUME UNCHANGED <<fifo, notified>>, \A t \in Tasks : Waking(t)' <=> Waking(t) PROVE Unseen
    BY <1>0, <1>1, QueueSame, HeldAre, DueSame DEF Unseen, Due
  <1>2. CASE CloneWaker \/ (\E t \in Tasks : DropWaker(t)) \/ UNCHANGED vars
    <2>1. UNCHANGED <<fifo, notified, wpc, wtask>>
      BY <1>2, Zenon DEF CloneWaker, DropWaker, vars, fifoVars, parentVars, wakerVars
    <2> QED BY <1>1, <2>1, WakingSame
  <1>3. ASSUME NEW w \in Wakers, SetWoken(w) PROVE Unseen
    <2>1. UNCHANGED <<fifo, notified, wtask>> /\ wpc' = [wpc EXCEPT ![w] = "claim"] /\ wpc[w] = "woken"
      BY <1>3, Zenon DEF SetWoken, fifoVars, parentVars
    <2> QED BY <1>1, <2>1 DEF Waking
  <1>4. ASSUME NEW w \in Wakers, ClaimTask(w) PROVE Unseen
    <2>1. notified' = notified
      BY <1>4 DEF ClaimTask, parentVars
    <2> QED BY <1>0, <1>4, <2>1, ClaimUnseen, DueSame DEF Unseen
  <1>5. ASSUME NEW w \in Wakers, WakerSwap(w) PROVE Unseen
    <2>1. /\ wpc[w] = "swap" /\ UNCHANGED <<notified, wtask>>
          /\ wpc' = [wpc EXCEPT ![w] = "link"] /\ fifo' = Append(fifo, wtask[w]) /\ ~Queued(wtask[w])
      BY <1>5, Zenon DEF WakerSwap, Swap, parentVars
    <2>2. wtask[w] \in Tasks
      BY <2>1 DEF WakerTask
    <2>3. \A t \in Tasks : Queued(t)' <=> Queued(t) \/ t = wtask[w]
      BY <2>1, <2>2, QueueAppended DEF FlagHeld
    <2>4. \A t \in Tasks : Waking(t) <=> Waking(t)' \/ t = wtask[w]
      BY <2>1 DEF Waking
    <2>5. \A t \in Tasks : Due(t)' <=> Due(t)
      BY <1>0, <2>3, <2>4 DEF Due
    <2> QED BY <1>0, <2>1, <2>5, HeldAre, DueSame DEF Unseen
  <1>6. ASSUME NEW w \in Wakers, WakerLink(w) PROVE Unseen
    <2>1. UNCHANGED <<fifo, notified, wtask>> /\ wpc' = [wpc EXCEPT ![w] = "wake"] /\ wpc[w] = "link"
      BY <1>6, Zenon DEF WakerLink, Link, parentVars
    <2> QED BY <1>1, <2>1 DEF Waking
  <1>7. ASSUME NEW w \in Wakers, WakeParent(w) PROVE Unseen
    <2>1. UNCHANGED <<fifo, wtask>> /\ wpc' = [wpc EXCEPT ![w] = "exit"] /\ wpc[w] = "wake"
      BY <1>7, Zenon DEF WakeParent, fifoVars
    <2>2. \A t \in Tasks : Due(t)' <=> Due(t)
      BY <1>0, <2>1, QueueSame DEF Due, Waking
    <2>3. notified' = notified \/ notified' = TRUE
      BY <1>7 DEF WakeParent
    <2> QED BY <1>0, <2>2, <2>3, HeldAre, DueSame DEF Unseen
  <1>8. ASSUME NEW w \in Wakers, Exit(w) PROVE Unseen
    <2>1. /\ UNCHANGED <<fifo, notified>> /\ wpc[w] = "exit"
          /\ wpc' = [wpc EXCEPT ![w] = IF qstrong = 1 THEN "drain" ELSE "idle"]
          /\ wtask' = [wtask EXCEPT ![w] = IF qstrong = 1 THEN @ ELSE NoTask]
      BY <1>8, Zenon DEF Exit, fifoVars, parentVars
    <2> QED BY <1>1, <2>1 DEF Waking
  <1> QED BY <1>2, <1>3, <1>4, <1>5, <1>6, <1>7, <1>8 DEF Waker

-----------------------------------------------------------------------------
(* The owner *)

\* The steps of the owner that change nothing but its pc.
LEMMA OwnerUnseen ==
    ASSUME UnorderedInv,
           Register \/ CallDequeue \/ Unqueue \/ PushLink \/ ReleaseSwap \/ ReleaseDone
           \/ ClearDone \/ ClearPanics \/ DropQueueRef \/ DropIter
    PROVE  Unseen
  <1> USE DEF UnorderedInv, TypeOK, Return
  <1>1. UNCHANGED <<fifo, inAll, isTerminated, notified, wpc, wtask>>
    BY Zenon DEF Register, CallDequeue, Begin, Unqueue, PushLink, Link, ReleaseSwap, ReleaseDone,
                 ClearDone, ClearPanics, DropQueueRef, DropIter, fifoVars, parentVars, ownerVars,
                 wakerVars
  <1>2. \/ opc = opc' /\ UNCHANGED <<cur, ret>>
        \/ opc = "register" /\ opc' = "dequeue" /\ UNCHANGED <<cur, ret>>
        \/ opc = "unqueue" /\ opc' = "reset" /\ UNCHANGED <<cur, ret>>
        \/ opc = "pushLink" /\ opc' = "idle" /\ ret' = "pushed"
        \/ opc = "release" /\ opc' \in {"dropFuture", "dropFutureArc"} /\ ret' = ret
        \/ opc \in {"dropFuture", "dropFutureArc"} /\ opc' = "idle" /\ ret' = ret
        \/ /\ opc \in {"iter", "drop", "dropRelease", "clearFuture", "clearFutureArc"}
           /\ opc' \in {"drop", "clearFuture", "clearFutureArc", "drain", "gone"}
    BY DEF Register, CallDequeue, Unqueue, PushLink, ReleaseSwap, ReleaseDone,
           ClearDone, ClearPanics, DropQueueRef, DropIter, ownerVars
  <1>3. HeldFutures' = HeldFutures /\ Asking' = Asking /\ Polled' = Polled /\ Answered' = Answered
    BY <1>1, <1>2 DEF HeldFutures, Asking, Polled, Answered
  <1>4. \A t : InHand(t)' <=> InHand(t)
    BY <1>2 DEF InHand
  <1>5. DueFutures' = DueFutures
    BY <1>1, <1>3, <1>4, QueueSame, WakingSame, HeldAre, DueSame DEF Due
  <1> QED BY <1>1, <1>3, <1>5 DEF Unseen

\* A push, and its enqueue.
LEMMA PushSeen ==
    ASSUME UnorderedInv, NEW x \in Tasks, Push(x)
    PROVE  FutureSetSeen!Insert(x)
  <1>1. /\ opc = "idle" /\ opc' = "pushSwap" /\ cur' = x /\ inAll' = inAll \cup {x}
        /\ isTerminated' = FALSE
        /\ UNCHANGED <<fifo, wpc, wtask, notified>> /\ future[x] = "absent"
    BY Zenon DEF Push, fifoVars, wakerVars, parentVars
  <1>2. HeldFutures = inAll /\ HeldFutures' = inAll \cup {x} /\ x \notin HeldFutures
    BY <1>1, HeldAre DEF HeldFutures
  <1>3. DueFutures' = DueFutures \cup {x}
    <2>1. \A t : InHand(t)' <=> t = x
      BY <1>1 DEF InHand
    <2>2. \A t : ~InHand(t)
      BY <1>1 DEF InHand
    <2> QED BY <1>1, <1>2, <2>1, <2>2, QueueSame, WakingSame, HeldAre DEF DueFutures
  <1>4. ~Asking /\ ~Asking' /\ Polled = NoTask /\ Polled' = NoTask /\ Answered' = "pushed"
    BY <1>1 DEF Asking, Polled, Answered
  <1> QED BY <1>1, <1>2, <1>3, <1>4 DEF FutureSetSeen!Insert, Asking

LEMMA PushSwapUnseen ==
    ASSUME UnorderedInv, PushSwap
    PROVE  Unseen
  <1>1. /\ opc = "pushSwap" /\ opc' = "pushLink" /\ cur' = cur
        /\ UNCHANGED <<inAll, isTerminated, notified, wpc, wtask, ret>>
        /\ fifo' = Append(fifo, cur) /\ ~Queued(cur)
    BY Zenon DEF PushSwap, Swap, parentVars, wakerVars
  <1>2. HeldFutures' = HeldFutures /\ Asking' = Asking /\ Polled' = Polled /\ Answered' = Answered
    BY <1>1 DEF HeldFutures, Asking, Polled, Answered
  <1>3. cur \in Tasks
    BY <1>1 DEF UnorderedInv, OwnerTask, PushPcs, TypeOK
  <1>4. \A t \in Tasks : Queued(t)' <=> Queued(t) \/ t = cur
    BY <1>1, <1>3, QueueAppended DEF UnorderedInv, FlagHeld, TypeOK
  <1>5. \A t \in Tasks : InHand(t) <=> t = cur
    BY <1>1 DEF InHand
  <1>6. \A t \in Tasks : ~InHand(t)'
    BY <1>1 DEF InHand
  <1>7. \A t \in Tasks : Due(t)' <=> Due(t)
    BY <1>1, <1>4, <1>5, <1>6, WakingSame DEF Due
  <1> QED BY <1>1, <1>2, <1>7, HeldAre, DueSame DEF Unseen

\* The oldest task of the queue was released: its future is held no longer.
LEMMA ReleasedUnseen ==
    ASSUME UnorderedInv, OnReleased
    PROVE  Unseen
  <1>1. /\ UNCHANGED <<ownerVars, notified, wpc, wtask>>
        /\ fifo # <<>> /\ fifo' = Tail(fifo) /\ future[Head(fifo)] = "none"
    BY Zenon DEF OnReleased, Data, parentVars, wakerVars
  <1>2. /\ UNCHANGED <<HeldFutures, Asking, Polled, Answered, isTerminated>>
        /\ \A t : InHand(t)' <=> InHand(t)
    BY <1>1 DEF ownerVars, HeldFutures, Asking, Polled, Answered, InHand
  <1>3. \A t \in HeldFutures : Queued(t)' <=> Queued(t)
    BY <1>1, HeldAre, QueueTail DEF UnorderedInv, FlagHeld, TypeOK
  <1>4. DueFutures' = DueFutures
    BY <1>1, <1>2, <1>3, WakingSame, DueSame DEF Due
  <1> QED BY <1>1, <1>2, <1>4 DEF Unseen

\* A task goes from the queue into the owner's hands.
LEMMA TakenUnseen ==
    ASSUME UnorderedInv, OnTask
    PROVE  Unseen
  <1> DEFINE h == Head(fifo)
  <1>1. /\ opc = "dequeue" /\ opc' = "unqueue" /\ cur' = h /\ inAll' = inAll \ {h}
        /\ UNCHANGED <<isTerminated, notified, wpc, wtask, ret>>
        /\ fifo # <<>> /\ fifo' = Tail(fifo)
    BY Zenon DEF OnTask, Data, parentVars, wakerVars
  <1>2. h \in Tasks /\ Queued(h) /\ h \in inAll
    <2>1. h \in Tasks /\ Queued(h) /\ future[h] = "some"
      BY <1>1, QueuedCreated DEF OnTask, UnorderedInv, TypeOK
    <2>2. cur = NoTask
      BY <1>1 DEF UnorderedInv, OwnerTask, PushPcs, TakenPcs
    <2> QED BY <2>1, <2>2, TaskFifoAssumption DEF UnorderedInv, OwnerTask
  <1>3. /\ HeldFutures = inAll /\ HeldFutures' = inAll
        /\ Asking' = Asking /\ Polled' = Polled /\ Answered' = Answered
    BY <1>1, <1>2 DEF HeldFutures, Asking, Polled, Answered
  <1>4. \A t \in Tasks : Queued(t)' <=> Queued(t) /\ t # h
    BY <1>1, QueueTail DEF UnorderedInv, FlagHeld, TypeOK
  <1>5. \A t \in Tasks : (InHand(t)' <=> t = h) /\ ~InHand(t)
    BY <1>1 DEF InHand
  <1>6. \A t \in Tasks : Due(t)' <=> Due(t)
    BY <1>1, <1>2, <1>4, <1>5, WakingSame DEF Due
  <1> QED BY <1>1, <1>3, <1>6, HeldAre, DueSame DEF Unseen

\* poll_next begins.
LEMMA PollSeen ==
    ASSUME UnorderedInv, PollNext
    PROVE  FutureSetSeen!StartPoll
  <1>1. /\ opc = "idle" /\ opc' = "register" /\ notified' = FALSE
        /\ UNCHANGED <<fifo, inAll, cur, isTerminated, wpc, wtask, ret>>
    BY Zenon DEF PollNext, fifoVars, wakerVars
  <1>2. /\ HeldFutures' = HeldFutures /\ Polled' = Polled /\ Answered' = Answered
        /\ ~Asking /\ Asking'
    BY <1>1 DEF HeldFutures, Asking, Polled, Answered
  <1>3. \A t : InHand(t)' <=> InHand(t)
    BY <1>1 DEF InHand
  <1>4. DueFutures' = DueFutures
    BY <1>1, <1>2, <1>3, QueueSame, WakingSame, HeldAre, DueSame DEF Due
  <1> QED BY <1>1, <1>2, <1>4 DEF FutureSetSeen!StartPoll, Asking

\* The queue is empty, or in an inconsistent state.
LEMMA EmptySeen ==
    ASSUME UnorderedInv, OnEmpty \/ OnInconsistent
    PROVE  FutureSetSeen!Pending \/ FutureSetSeen!None
  <1>1. /\ opc = "dequeue" /\ opc' = "idle" /\ UNCHANGED <<fifo, inAll, cur, wpc, wtask>>
    BY Zenon DEF OnEmpty, Empty, OnInconsistent, Inconsistent, Return, wakerVars
  <1>2. \/ ret' = "done" /\ inAll = {} /\ isTerminated' = TRUE /\ notified' = notified
        \/ ret' = "pending" /\ inAll # {} /\ isTerminated' = isTerminated /\ notified' = notified
        \/ ret' = "pending" /\ isTerminated' = isTerminated /\ notified' = TRUE
    BY DEF OnEmpty, OnInconsistent, Return, parentVars, UnorderedInv, TypeOK
  <1>3. /\ HeldFutures' = HeldFutures /\ HeldFutures = inAll /\ Polled' = NoTask /\ Polled = NoTask
        /\ Answered' = ret' /\ Asking /\ ~Asking'
    BY <1>1 DEF HeldFutures, Asking, Polled, Answered
  <1>4. \A t : InHand(t)' <=> InHand(t)
    BY <1>1 DEF InHand
  <1>5. DueFutures' = DueFutures
    BY <1>1, <1>3, <1>4, QueueSame, WakingSame, HeldAre, DueSame DEF Due
  <1>6. notified \in BOOLEAN
    BY DEF UnorderedInv, TypeOK
  <1>7. Asking' = FALSE
    BY <1>1 DEF Asking
  <1>8. CASE ret' = "done"
    BY <1>2, <1>3, <1>5, <1>7, <1>8 DEF FutureSetSeen!None
  <1>9. CASE ret' = "pending" /\ inAll # {} /\ isTerminated' = isTerminated /\ notified' = notified
    BY <1>3, <1>5, <1>7, <1>9 DEF FutureSetSeen!Pending
  <1>10. CASE ret' = "pending" /\ isTerminated' = isTerminated /\ notified' = TRUE
    BY <1>3, <1>5, <1>7, <1>10 DEF FutureSetSeen!Pending
  <1> QED BY <1>2, <1>8, <1>9, <1>10

\* A future is polled; if it was woken meanwhile it stays due.
LEMMA ResetSeen ==
    ASSUME UnorderedInv, ResetWoken
    PROVE  \E t \in Tasks : FutureSetSeen!PollFuture(t)
  <1>1. /\ opc = "reset" /\ opc' = "polling"
        /\ UNCHANGED <<fifo, inAll, cur, isTerminated, notified, wpc, wtask, ret>>
    BY Zenon DEF ResetWoken, fifoVars, wakerVars, parentVars
  <1>2. cur \in Tasks /\ cur \in HeldFutures /\ cur # NoTask
    BY <1>1, HeldAre
  <1>3. /\ HeldFutures' = HeldFutures /\ Polled = NoTask /\ Polled' = cur /\ Answered' = Answered
        /\ Asking /\ Asking'
    BY <1>1 DEF HeldFutures, Asking, Polled, Answered
  <1>4. \A t : (InHand(t) <=> t = cur) /\ ~InHand(t)'
    BY <1>1 DEF InHand
  <1>5. cur \in DueFutures /\ DueFutures \ {cur} \subseteq DueFutures' /\ DueFutures' \subseteq DueFutures
    BY <1>1, <1>2, <1>3, <1>4, QueueSame, WakingSame, HeldAre DEF DueFutures
  <1>6. FutureSetSeen!PollFuture(cur)
    BY <1>1, <1>3, <1>5 DEF FutureSetSeen!PollFuture, Asking
  <1> QED BY <1>2, <1>6

\* The future is pending: poll_next goes on, or gives way and wakes its consumer.
LEMMA ChildPendingSeen ==
    ASSUME UnorderedInv, ChildPending
    PROVE  FutureSetSeen!StillPending \/ FutureSetSeen!Pending
  <1>1. /\ opc = "polling" /\ inAll' = inAll \cup {cur}
        /\ UNCHANGED <<fifo, isTerminated, wpc, wtask>>
    BY Zenon DEF ChildPending, fifoVars, wakerVars
  <1>2. \/ opc' = "dequeue" /\ UNCHANGED <<ret, notified>>
        \/ opc' = "idle" /\ ret' = "pending" /\ notified' = TRUE
    BY DEF ChildPending, Return
  <1>3. cur # NoTask
    BY <1>1, HeldAre
  <1>4. /\ HeldFutures' = HeldFutures /\ Polled = cur /\ Polled' = NoTask /\ Asking
        /\ opc' = "dequeue" => Asking' = Asking /\ Answered' = Answered
        /\ opc' = "idle" => ~Asking' /\ Answered' = ret'
    BY <1>1, <1>2 DEF HeldFutures, Asking, Polled, Answered
  <1>5. \A t : InHand(t)' <=> InHand(t)
    BY <1>1, <1>2 DEF InHand
  <1>6. DueFutures' = DueFutures
    BY <1>1, <1>4, <1>5, QueueSame, WakingSame, HeldAre, DueSame DEF Due
  <1>7. CASE opc' = "dequeue"
    BY <1>1, <1>2, <1>3, <1>4, <1>6, <1>7 DEF FutureSetSeen!StillPending
  <1>8. CASE opc' = "idle" /\ ret' = "pending" /\ notified' = TRUE
    <2>1. Asking' = FALSE
      BY <1>8 DEF Asking
    <2> QED BY <1>1, <1>3, <1>4, <1>6, <1>8, <2>1 DEF FutureSetSeen!Pending
  <1> QED BY <1>2, <1>7, <1>8

\* The future is ready, or panics, and is held no longer.
LEMMA ChildDoneSeen ==
    ASSUME UnorderedInv, NEW r \in {"item", "panic"}, ChildDone(r)
    PROVE  FutureSetSeen!Finish
  <1>1. /\ opc = "polling" /\ opc' = "release" /\ ret' = r
        /\ UNCHANGED <<fifo, inAll, cur, isTerminated, notified, wpc, wtask>>
    BY Zenon DEF ChildDone, fifoVars, parentVars, wakerVars
  <1>2. cur # NoTask /\ HeldFutures = inAll \cup {cur} /\ cur \notin inAll
    BY <1>1, HeldAre
  <1>3. /\ HeldFutures' = HeldFutures \ {cur} /\ Polled = cur /\ Polled' = NoTask
        /\ ~Asking' /\ Answered' = r
    BY <1>1, <1>2 DEF HeldFutures, Asking, Polled, Answered
  <1>4. \A t : ~InHand(t) /\ ~InHand(t)'
    BY <1>1 DEF InHand
  <1>5. DueFutures' = DueFutures \ {cur}
    BY <1>1, <1>3, <1>4, QueueSame, WakingSame, HeldAre DEF DueFutures
  <1> QED BY <1>1, <1>2, <1>3, <1>5 DEF FutureSetSeen!Finish, FutureSetSeen!Leave, Asking

\* The destructor and the iterator take futures out.
LEMMA DropSetSeen ==
    ASSUME UnorderedInv, DropSet
    PROVE  FutureSetSeen!Discard({})
  <1>1. /\ opc = "idle" /\ opc' = "drop"
        /\ UNCHANGED <<fifo, inAll, cur, isTerminated, notified, wpc, wtask>>
    BY Zenon DEF DropSet, fifoVars, parentVars, wakerVars
  <1>2. /\ HeldFutures' = HeldFutures /\ Polled' = Polled /\ ~Asking /\ ~Asking' /\ Answered' = "none"
    BY <1>1 DEF HeldFutures, Asking, Polled, Answered
  <1>3. \A t : InHand(t)' <=> InHand(t)
    BY <1>1 DEF InHand
  <1>4. DueFutures' = DueFutures
    BY <1>1, <1>2, <1>3, QueueSame, WakingSame, HeldAre, DueSame DEF Due
  <1> QED BY <1>1, <1>2, <1>4 DEF FutureSetSeen!Discard, FutureSetSeen!Leave, Asking

LEMMA DiscardSeen ==
    ASSUME UnorderedInv, NEW x \in Tasks, DropNext(x) \/ IntoIterNext(x)
    PROVE  FutureSetSeen!Discard({x})
  <1>1. /\ opc \in {"idle", "iter", "drop"} /\ opc' \in {"iter", "dropRelease"}
        /\ inAll' = inAll \ {x}
        /\ UNCHANGED <<fifo, isTerminated, notified, wpc, wtask>>
    BY Zenon DEF DropNext, IntoIterNext, fifoVars, parentVars, wakerVars
  <1>2. /\ HeldFutures' = HeldFutures \ {x} /\ Polled' = Polled /\ ~Asking /\ ~Asking'
        /\ Answered' = "none"
    BY <1>1 DEF HeldFutures, Asking, Polled, Answered
  <1>3. \A t : ~InHand(t) /\ ~InHand(t)'
    BY <1>1 DEF InHand
  <1>4. DueFutures' = DueFutures \ {x}
    BY <1>1, <1>2, <1>3, QueueSame, WakingSame, HeldAre DEF DueFutures
  <1> QED BY <1>1, <1>2, <1>4 DEF FutureSetSeen!Discard, FutureSetSeen!Leave, Asking

-----------------------------------------------------------------------------
(* The result *)

LEMMA InitSeen == Init => FutureSetSeen!SetInit
  <1> SUFFICES ASSUME Init PROVE FutureSetSeen!SetInit
    OBVIOUS
  <1>1. HeldFutures = {} /\ DueFutures = {} /\ ~Asking /\ Polled = NoTask /\ Answered = "none"
    BY DEF Init, HeldFutures, DueFutures, Asking, Polled, Answered
  <1> QED BY <1>1 DEF Init, FutureSetSeen!SetInit, Asking

LEMMA StepSeen ==
    ASSUME UnorderedInv, [Next]_vars
    PROVE  [FutureSetSeen!SetNext]_Seen
  <1> USE DEF FutureSetSeen!SetNext
  <1>1. ASSUME NEW t \in Tasks, Push(t) PROVE FutureSetSeen!SetNext
    BY <1>1, PushSeen
  <1>2. ASSUME NEW t \in Tasks, IntoIterNext(t) \/ DropNext(t) PROVE FutureSetSeen!SetNext
    BY <1>2, DiscardSeen
  <1>3. CASE PollNext
    BY <1>3, PollSeen
  <1>4. CASE DropSet
    BY <1>4, DropSetSeen
  <1>5. CASE OnEmpty \/ OnInconsistent
    BY <1>5, EmptySeen
  <1>6. CASE ResetWoken
    BY <1>6, ResetSeen
  <1>7. CASE ChildPending
    BY <1>7, ChildPendingSeen
  <1>8. ASSUME NEW r \in {"item", "panic"}, ChildDone(r) PROVE FutureSetSeen!SetNext
    BY <1>8, ChildDoneSeen
  <1>9. ASSUME NEW w \in Wakers, NEW t \in Tasks, Upgrade(w, t) PROVE FutureSetSeen!SetNext
    BY <1>9, UpgradeSeen
  <1> HIDE DEF FutureSetSeen!SetNext
  <1>10. CASE \/ \E w \in Wakers : Waker(w)
              \/ \E t \in Tasks : DropWaker(t)
              \/ CloneWaker \/ UNCHANGED vars \/ Drain
              \/ PushSwap \/ OnReleased \/ OnTask
              \/ Register \/ CallDequeue \/ Unqueue \/ PushLink \/ ReleaseSwap \/ ReleaseDone
              \/ ClearDone \/ ClearPanics \/ DropQueueRef \/ DropIter
    <2>1. Unseen
      BY <1>10, WakerUnseen, DrainUnseen, PushSwapUnseen, ReleasedUnseen, TakenUnseen, OwnerUnseen,
         Zenon
    <2> QED BY <2>1, UnseenStep
  <1> QED BY <1>1, <1>2, <1>3, <1>4, <1>5, <1>6, <1>7, <1>8, <1>9, <1>10, Zenon
          DEF Next, OwnerStep, Finished

\* FuturesUnordered implements FutureSet (futures_unordered/mod.rs, task.rs).
THEOREM UnorderedRefinesSet == Spec => RefinesFutureSet
  <1>1. UnorderedInv /\ [Next]_vars => [FutureSetSeen!SetNext]_Seen
    BY StepSeen
  <1> QED BY <1>1, InitSeen, UnorderedCorrect, PTL
          DEF Spec, RefinesFutureSet, FutureSetSeen!SetSpec, FutureSetSeen!setVars, Seen
=============================================================================
