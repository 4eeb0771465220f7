# Verification of tokio-stream-util

TLA+ models of the concurrent and stateful parts of `tokio-stream-util`, TLC configurations that
check them on small instances, and TLAPS proofs of every safety invariant those runs check, for
instances of any size.
Paths below are relative to the repository's `src/` directory of the crate.

## 1. The system

The crate re-implements the combinators of `futures-util` for tokio's `Stream`/`Sink` traits. Its
own core is a scheduler for many futures inside one task (`FuturesUnordered`), the adaptors built
on it, and a family of per-item adaptors over fallible streams.

| component | state it keeps | operations | talks to | what is hard |
|---|---|---|---|---|
| ready-to-run queue (`futures_unordered/ready_to_run_queue.rs`) | atomic `head`, owner-only `tail`, `next_ready_to_run` of every node, a stub node | `enqueue` (any thread), `dequeue` (owner only), `Drop` | called by wakers and by `poll_next` | an enqueuer preempted between the swap of `head` and the store of the link; the stub's re-insertion; "inconsistent" answers |
| set, tasks and wakers (`futures_unordered/mod.rs`, `task.rs`, `abort.rs`) | per task: future, `queued`, `woken`, `Arc` count; the parent's `AtomicWaker`; `is_terminated` | `push`, `poll_next`, `clear`, `Drop`, `into_iter`; `Task::wake_by_ref`, waker clone/drop | child futures and their wakers on any thread, the parent's waker | lost wake-ups, double enqueueing, reference counts handed between list and queue, panics of futures and destructors, which thread frees the queue |
| list of all tasks (`mod.rs` `link`/`unlink`, `iter.rs`) | `head_all`, `next_all`, `prev_all`, `len_all` | `link` (`push` takes `&self`: several threads), `unlink`, `len`, four iterators | `push`, `poll_next`, `Drop` | spins on a link that is still pending; lengths cached per node; consuming iteration |
| `FuturesOrdered` (`futures_ordered.rs`) | index counters at both ends, heap of early outputs | `push_back`, `push_front`, `poll_next` | owns a `FuturesUnordered` | pushes at the front while outputs wait in the heap; a gap left by a panic |
| `TryBuffered`, `TryBufferUnordered` | fused source, queue of futures, limit | `poll_next` | source stream, the two queues | which of source and queue holds the waker; limit read once; errors in between; termination |
| `FlattenUnordered`, `TryFlattenUnordered` | one atomic byte (`SharedPollState`), waker cells, a `FuturesUnordered` of inner streams | `poll_next`, `WrappedWaker::wake_by_ref` | base stream, inner streams, consumer task | plain cells guarded by the byte, wake-ups during polling and waking, spinning, panic reset, limit, flow controller |
| `TryChunks`, `TryReadyChunks` | partial chunk, pending error | `poll_next`, `size_hint`, `is_terminated` | source | flush, error after partial chunk, what the size hint counts |
| `TryForward` | item between stream and sink | `poll` | stream, sink | pending on either side; flush and close |
| `TryFlatten` | current inner stream | `poll_next`, `is_terminated` | two levels of streams | errors and ends of the two levels |
| per-item adaptors (`and_then`, `or_else`, `try_filter`, `try_filter_map`, `try_take_while`, `try_skip_while`, `try_unfold`) | pending future, pending item, done flags | `poll_next`, `size_hint`, `is_terminated` | source, user futures | the three fields in step over polls that answer "pending" |
| folding futures (`try_all`, `try_any`, `try_collect`, `try_concat`), `try_next` | pending future, done flag, accumulator | `poll`, `is_terminated` | source, user futures | short-circuit; an error with the accumulator half full; polls after completion |
| `IntoAsyncRead` | chunk, position, end-of-file | `poll_read`, `poll_fill_buf`, `consume` | source | empty chunks, error, end |
| `IntoStream`, `IntoFuseStream`, `Fuse`, `FusedStream` | one flag | `poll_next`, `is_terminated` | source | the flag's use by `TryBuffered` |
| mapping adaptors (`err_into`, `map_err`, `map_ok`, `inspect_*`), constructors in `ext/mod.rs` | none | forward | source | nothing |

What makes each part correct, in one line: the *queue* never loses, duplicates or reorders a task
and never cuts off its tail; the *set* polls whatever was pushed or woken, frees every task exactly
once and never while it is in use, and never sleeps on a non-empty queue; the *list* contains
exactly the live tasks with exact lengths for every reader; *FuturesOrdered* is a queue;
*FlattenUnordered* keeps its unsynchronised cells exclusive, loses no wake-up and ends; every
*adaptor* brings out each entry of its source once, in order and with the right sign, leaves its
waker with somebody whenever it answers "pending", ends once and for good, and keeps what its
`size_hint` promises; every *consumer* delivers all it was given, and finishes.

## 2. Modules

| module | models | abstraction |
|---|---|---|
| `TaskFifo` | what callers may rely on from the ready-to-run queue | sequence of tasks whose `Swap` is done, set `linking` of tasks whose link is not; `Inconsistent` is allowed only while somebody was linking during the call |
| `ReadyToRunQueue` | every atomic access of `enqueue`/`dequeue` | pointers are node names; sequentially consistent |
| `ReadyToRunQueueProofs` | – | its inductive invariant, and the proof that it implements `TaskFifo` |
| `FuturesUnordered` | set, tasks, wakers, both destructors, `into_iter` | extends `TaskFifo`; the list of all tasks is the set `inAll` |
| `FutureSet` | what `FuturesUnordered` promises those who poll it | a set of futures, the due ones among them |
| `FuturesUnorderedProofs` | – | its inductive invariant, and the proof that it implements `FutureSet` |
| `AllTasksList` | `link`, `unlink`, `len`, shared, exclusive and consuming iterators | tasks and pointers only |
| `AllTasksListProofs` | – | its inductive invariant |
| `OrderedQueue` | what `FuturesOrdered` promises | a sequence with completion in any order; a panic leaves a gap |
| `FuturesOrdered` | `futures_ordered.rs` | `FuturesUnordered` inside taken at its word |
| `FuturesOrderedProofs` | – | its inductive invariant, and the proof that it implements `OrderedQueue` |
| `FlattenUnordered` | `flatten_unordered.rs` with the flow controller and wrappers of `try_flatten_unordered.rs` | `FuturesUnordered` taken at its word |
| `FlattenUnorderedProofs` | – | its two inductive invariants: the byte and the cells; the wake-ups |
| `TryStreamSource` | the source stream (with or without `IntoFuseStream`), the user's future, the consumer | entries are indices of the sequence given so far |
| `TryStreamAdaptor` | how a stream adaptor returns, and the shapes of `size_hint` | `out`: what has come out |
| `ItemAdaptors` | the seven adaptors with a pending future, the mapping adaptors, `IntoStream`, `TryNext` | one disjunct per arm of the loop |
| `ChunkAdaptors` | `try_chunks.rs`, `try_ready_chunks.rs` | the local chunk of `TryReadyChunks` is the variable `items`, empty between polls |
| `TryBuffered` | `try_buffered.rs`, `try_buffer_unordered.rs` | both queues taken at their word |
| `TryFlatten` | `try_flatten.rs` | inner streams draw on the source's bound of entries |
| `TryStreamSourceProofs` | – | lemmas for the two modules of proofs below: sequences, and what the source's answers do |
| `StreamAdaptors` | composes the four above; states once what all adaptors promise | – |
| `StreamAdaptorsProofs` | – | the inductive invariant of all nineteen |
| `TryForward` | `try_forward.rs` | the sink answers ready, an error or pending |
| `TryFolds` | `try_all.rs`, `try_any.rs`, `try_collect.rs`, `try_concat.rs` | – |
| `IntoAsyncRead` | `into_async_read.rs` | a byte is a chunk and a place in it |
| `StreamConsumers` | composes the three above | – |
| `StreamConsumersProofs` | – | the inductive invariant of all six |
| `MC_*` | – | small sets of model values for TLC |

The composition is by contract. `ReadyToRunQueue` is shown (by TLC and by proof) to implement
`TaskFifo`; `FuturesUnordered` EXTENDS `TaskFifo` and uses its actions as the queue's operations, so
that what it does is justified for the pointer-level queue. `FuturesUnordered` in turn is shown (by TLC and by
proof) to implement `FutureSet` (a future is polled only when it was pushed or woken, a wake-up is not dropped,
"none" only when empty). That, and `WakeReachesPoll` (a woken future is polled in the end), is what
`FuturesOrdered`, `TryBuffered` and `FlattenUnordered` assume of the set inside them. They do not assume
that a set without futures answers "none": while a released task is still being enqueued it answers
"pending" and wakes its consumer, so that these adaptors may put off an item or their end. And
`OrderedQueue` is what `TryBuffered` assumes of `FuturesOrdered`.

### ReadyToRunQueue
`head`, `tail`, `next` are the atomics and the `UnsafeCell`; every enqueuer has a pc over
*claim → clear → swap → link* (the `queued` swap of `wake_by_ref`, then lines 37, 40–42, 43–45), the
owner runs `dequeue` one access at a time: `StartDequeue`, `FirstEmpty`/`SkipStub`/`AtTask`,
`HandFirst`/`NoSuccessor`, `HeadMoved`/`EnqueueStub`, `HandLast`/`StillPending`. The owner's
re-insertion of the stub uses the same enqueue steps as any thread. `Unqueue` is the clearing of
`queued` by `poll_next`, without which tasks could be enqueued once only.

### FuturesUnordered
The owner thread's pc (`opc`) walks through `push`, `poll_next`, `release_task`, `Drop` and
`IntoIter::next`; every waker thread's pc (`wpc`) through `Task::wake_by_ref`: upgrade the weak queue
reference, set `woken`, claim with `queued`, swap, link, wake the parent, drop the reference, and –
if it was the last – drain the queue. One action per access to shared memory; what only the owner
can see is merged. `strong`, `qstrong` are the `Arc` counts, `clones` the part held by wakers outside.
A child poll ends pending, done (item or panic), after cloning its waker any number of times up to
`MaxClones`; a wake-up *during* the child's poll is a clone used by a waker thread. `clear()` is the
destructor's loop followed by `new()` and is covered by `DropSet` and `Init`. `owed` is a history
variable for the liveness property.

### AllTasksList
`link` is swap of `head_all`, then spin for the successor's `next_all` to leave *pending* and store
the length, then `next_all`, then the successor's `prev_all`. `push` takes `&self`, so several threads
link at once and iterate with `iter_pin_ref`; `Spin` is a turn of the busy loop in `spin_next_all`.
`unlink`, `iter_pin_mut` and the destructors need `&mut self` and happen when no thread is inside (that is
what the borrow checker enforces): `phase` is "mut" while an exclusive iterator lives, and `lentTask`,
`lentLen` are its fields, shared with `IntoIter`.

### FuturesOrdered
One action per arm of the loop. `OnPanic` is the bomb of the inner set: the
future is gone and with it its index. `innerOver` is the inner set's `is_terminated`.

### The adaptors and consumers
They are all loops around "poll the source, poll the future, return or go on", so that the answers of
the source (`Gives`, `Ends`, `Pends`) and of the future (`Resolves`, `FuturePends`) are defined once, in
`TryStreamSource`, and each adaptor is its match arms. `Init` chooses the adaptor, its capacity or limit,
how many entries the source will give (each one Ok, Err or, for `TryFlatten`, an inner stream) and
whether the source reports `is_terminated` before it is polled at its end (`early`), as `FusedStream`
allows. `waiting` is the set of parties that hold the consumer's waker; a party that waits answers only
"pending" until it wakes the consumer. A spurious poll is possible in every state. `given[i].verdict` is
what the user's future said of entry *i*. `out` is what has come out, `delivered` the same entries one
by one, in the order they left. In `TryBuffered`, `len` is the local `in_progress_queue_len`.
In `StreamConsumers` futures are polled after completion too: the panic is the answer "Panic".

### FlattenUnordered
`state` is the byte as a set of bits; `limit` is the constructor's argument, chosen by `Init`. Waker threads run the inner task's wake-up
(`Enqueue`, `TakeRegistered`) and then `WrappedWaker::wake_by_ref` (`StartWaking`, `ReadCell`,
`StopWaking`, `WakeConsumer`); `poll_next` is `Poll`, `StartPolling` (the spin), `ReplaceWaker`, the
base loop, the inner poll, `Finish`. Different tasks may poll in turn (`Consumers`). `InnerPending`
may give way as `FuturesUnordered` does after its budget, which wakes through the wrapped waker and
therefore only sets a bit. `Panic` is a stream panicking inside the poll; `PollStateBomb` resets the
byte to "poll everything". `BaseAnswers` and `InnerAnswers` are the streams of `TryFlattenUnordered`: an
error of the base stream becomes a `Single` that the flow controller returns at once.

## 3. Runs

| run | instance | shows |
|---|---|---|
| `queue` | 3 tasks, 3 enqueuers, fairness | `ChainIntact`, `OneEnqueuer`, the inductive invariant `QueueInv` (with the type), refinement of `TaskFifo`, and `EveryTaskComesOut` |
| `unordered` | 3 tasks, 2 waker threads, 1 clone per task, constraint `FewTasksOrOneWaker` | type, `RefsAccounted`, `EnqueuedOnce`, `AbortsUnreachable`, `NoLostWakeup`, refinement of `FutureSet` |
| `unordered_live` | 2 tasks, 1 waker thread, fairness | `WakeReachesPoll`, `PollReturns` |
| `unordered_iter_leak` | 2 tasks | finding: `NothingLeaked` fails |
| `list` | 3 tasks, 3 threads, fairness | type, `ListIntact`, `IteratorsExact`, `SpinsEnd` |
| `ordered` | 4 futures, fairness | type, `IndicesExact`, refinement of `OrderedQueue`, `AllYielded` |
| `ordered_gap` | 3 futures | finding: `NoneMeansEmpty` fails |
| `adaptors` | 19 adaptors, capacities and limits 0, 1, 2, sources of 0 to 3 entries, fairness | type, `OutputRight`, `PendingHasWaker`, `EndIsFinal`, `HintsHold`, `AllYielded`, `EndReached` |
| `buffered_limit` | the two buffered adaptors | finding: `AtMostMax` fails |
| `flatten` | 2 consumers, 2 waker threads, 2 inner streams, limits 0 and 1, 1 panic | `CellExclusive`, `StopWakingAssert`, `NoLostWakeup`, `AtMostLimit` |
| `flatten_live` | 1 consumer, 1 waker thread, 1 inner stream of 2 items, limits 0 and 1, 1 error, 1 panic, fairness | type, `ItemKept`, `SpinEnds`, `EndReached` |
| `consumers` | 6 consumers, chunk and buffer sizes 0, 1, 2, sources of 0 to 4 entries, fairness | type, `DeliveredRight`, `PendingHasWaker`, `Completes` |

**Why these bounds.** *Queue:* with three enqueuers one can be stopped between swap and link, a second
behind it, while the third finishes and the owner puts the stub back; three tasks let the tail be a
task, its successor unlinked, and the stub behind. *Set:* two wakers on the same task race for the
flag, two on different tasks make the queue inconsistent; two tasks let a released one stay queued
while another is polled. The exit `yielded >= 2` needs a third task, because with two `polled == len`
comes first; the constraint `FewTasksOrOneWaker` lets the third task in only while one waker thread is idle and the set is
not being destroyed. One clone per task suffices since two threads may use it at the same time. *List:*
three threads make a row of two pending links, on which the third spins. *Ordered:* four futures give
an output waiting in the heap, a future pushed in front of it, one behind, and a gap. *Adaptors:* three
entries exceed every capacity and limit used, leave a partial chunk of one behind a full chunk, put an
error between two items, and give an inner stream an item and an error, or an error and a successor
stream; a capacity of 2 is the first with a partial chunk, a limit of 1 the first that blocks, 0 is "no
limit". *Consumers:* four entries let a sink fail on one item, hold another
unflushed and receive a third; chunks of 0, 1 and 2 bytes with buffers of 0, 1 and 2 are every relation
of the two (empty, exact, left over, room left). *Flatten:* two threads are needed for one waking while another
wants to; two consumers for a poll by another task while the old cell is read; with two streams and a
limit of one the limit stops the base stream and lets it go again, and without a limit both are in the
set at once. `flatten` gives its inner streams no items (an item and an end do the same to the byte);
`flatten_live` has items and errors, and one stream is enough for an error of the base stream and an item
to be due in the same poll. `NoLostWakeup` and `AtMostLimit` where items and errors
are due are not run but proved (`WakeupsKept`, `LimitHolds`), for any number of them. `MaxClones`, `MaxErrors`,
`MaxItems`, `MaxPanics`, `MaxAnswers` bound what would otherwise only repeat.

**Symmetry** is used in the runs without liveness properties only, over sets whose elements the
specifications treat alike.

**Deadlock** is checked in every run. `FuturesUnordered` ends in the explicit step `Finished`.

## 4. Fairness

* Threads inside a call keep running: weak fairness of every step inside `enqueue`, `dequeue`,
  `wake_by_ref`, `link` and `poll_next`. An OS scheduler gives that; nothing forces a thread to
  *start* a call.
* The consumer polls again after an answer other than "pending" and the end, and after a wake-up
  (`PollAgain`): the executor's contract with a task that loops on the stream.
* `queue`: the owner calls `dequeue` again and again (`poll_next` re-polls, see `PollAgain`), nobody has to
  claim a task; that `dequeue` makes progress follows from the enqueuers finishing, without strong fairness.
* `unordered_live`: futures need not complete, wake or be dropped.
* `ordered`: futures complete; the set inside hands out a completed future in the
  end – the strong fairness of `InTurn`/`TooEarly` is `WakeReachesPoll` and
  `PollReturns` one level down. `AllYielded` of `FuturesOrdered` is conditional on no future panicking.
* `adaptors`: user futures, buffered futures and inner streams that were polled wake the consumer, and
  answer with something else than "pending" in the end (strong fairness of `Settles`, because they may be
  polled early again and again). The source may stay pending for ever: `AllYielded` says that what an
  adaptor holds comes out even then, `EndReached` starts from a source that has ended.
* `consumers`: source, sink and user futures all answer in the end, or nothing could complete. A reader
  goes on reading with room for at least one byte; calls of `poll_fill_buf`, `consume` and of reads without room come
  in between as they like.
* `flatten_live`: base and inner streams that are pending become ready in the end (`EndReached` would be
  false otherwise); strong fairness, because the one waker thread may be busy with another wake-up.

## 5. Proofs

**The queue**, for every set of tasks and every set of enqueuers, from `QueueAssumption` (the names of tasks,
stub, null, owner are distinct) and nothing else.

* `QueueCorrect`: `Spec => []QueueInv`. The interesting property, `ChainIntact` – from the tail the
  links lead, in order, through everything swapped in – is not inductive: a link store is only right
  if the storing thread's local `prev` is the predecessor recorded at its swap, and a swap is only
  right if the node's own link was cleared before. `QueueInv` therefore adds to type and chain what
  every enqueuer's locals say at each pc (`EnqueueLocals`), what the owner's locals say at each point
  of `dequeue` (`DequeueLocals`: for instance that the successor it read is the chain's second node),
  the ownership of nodes through the flag (`OneEnqueuer`), and that the owner enqueues the stub only when
  the stub is outside. `chain` is a history variable: the sequence of nodes in swap order. The step
  lemmas are one per action; facts about sequences without duplicates are lemmas of their own.
* `TypeCorrect`, `ChainStaysIntact`, `StubNeverTwice`, `NoTwoEnqueuers` are its corollaries.
* `QueueRefinesTaskFifo`: `Spec => RefinesTaskFifo`, that is `Fifo!FifoSpec` with the mapping *fifo = chain without the stub*.
  Swaps map to `Swap`, link stores to `Link` (the owner's own, of the stub, to a stutter), the answers of
  `dequeue` to `Data`, `Empty` and `Inconsistent`. The step that needs `QueueInv` is "inconsistent": the
  owner has seen a head that is not its tail, so some enqueuer is or was linking during the call; and
  `Empty`: a tail that is the stub without a successor means an empty fifo or a pending link.

**FuturesUnordered**, for any set of tasks and any set of waker threads, from `TaskFifoAssumption` and
`UnorderedAssumption`. `UnorderedCorrect`: `Spec => []UnorderedInv`; all five invariants of the run `unordered`
follow. The reference counts of a task (`RefsAccounted`) are clones plus at most one more, whoever holds that
one; that it is never two is the queued flag's doing. `FlagHeld` says so: the flag of a task belongs to the owner, to one
waker thread between its swap of the flag and its swap of the head, or to the queue, which holds no task twice.
A dequeued task without a future was released with its flag set, so nobody else can hold it; that is where
`OwnerTask` comes in – a future is there just while its task is in the list or in the owner's hands. A waker thread is safe
because its clone lives as long as it uses it (`WakerTask`). `AbortsUnreachable` needs to know who holds the
queue itself: `QueueRefs` counts the threads with an upgraded reference, so that whoever drains it is alone
(lemma `DrainAlone`), and with `LinkPending` – a missing link has a thread that will store it – the destructor never meets an
"inconsistent" queue. `NoLostWakeup` follows from `Armed` (from its registration on the parent's waker is
registered or has been used) and `Covered` (a task that is in the queue after "pending" has a thread that links it or
wakes).

`UnorderedRefinesSet`: `Spec => RefinesFutureSet`, with the mapping *held = the linked tasks and the one unlinked
for its poll; due = those of them in the queue, in the owner's hands before the poll, or with a waker thread
before its swap of the head*. A wake-up begins when the thread has upgraded its reference, so that a future that was woken is due
at once; then three steps can lose it. A claim that finds the flag set: `FlagHeld` says who holds the flag, and each
of them keeps the future due. A dequeue that finds no future: by `OwnerTask` the task is not held. And the drain of the
queue: by `DrainAlone` nothing is held. `FutureSet` is a safety specification; that a due future is polled in the end is `WakeReachesPoll`.

**AllTasksList**, for any sets of tasks and threads, from `ListAssumption`. `ListCorrect`: `Spec => []ListInv`. The
invariant tells tasks apart by their depth, the number of tasks from them to the end of the list: a push leaves it
alone, and it is what `len_all` counts. `Links`: the link to the next task is right from the moment on at which it is visible,
the one back once the push is over. `Linkers`: a thread inside `link` knows its task's successor and has the task to itself.
`Counts`: a visible count is never too low, and exact for the head and for every task from which another push is about to
count – counts inside the list go stale when tasks are unlinked. `Iterators`: what an iterator has still to
yield is the list from some depth on. `ListStaysIntact`, `IteratorsStayExact` and `TypeCorrect` follow.

**FlattenUnordered**, for any sets of inner streams, waker threads and consumers, any limits and any
bounds, from `FlattenAssumption`. `PhasesCorrect`: `Spec => []PhasesInv`. `CellExclusive` alone is not inductive:
that a thread which reads the cell excludes `ReplaceWaker` needs that WAKING and POLLING are never set
together (`StopWakingAssert`), that POLLING is set exactly while `poll_next` is past its spin (`PollingPhase`), and that
nobody can wake before the cells were filled once (`Unarmed`, with `PollerKnown` for who is stored). That two
threads never wake for the same inner stream's task is `Places`: such a stream is armed, on its way into the
ready queue, or in it. `LimitHolds` carries the finiteness of the bucket along, without which a
cardinality says nothing; `ItemTaken` says that after an item `poll_next` only returns. `CellsExclusive`, `OneWaker`,
`LimitHolds`, `ItemsKept` (an action property) and `TypeCorrect` follow.

`WakeupsKept` (`NoLostWakeup`) has an invariant of its own on top, `WakingInv`. That somebody will tell the consumer is
not inductive: the wake-up moves from the inner task's queue through a thread's locals into the byte, from there into
`poll_next`'s locals, and back. `BaseCovered` and `InnerCovered` say for each kind of stream that it has ended (is empty), holds a waker, or that
"to be polled" is recorded somewhere on that way (`Asked`); `FlagTold` and `WokenTold` that a flag left in the byte after "pending" comes with
a thread that is waking or a consumer that was told. A thread may wake with a cell read long ago: `CellLast` and `WakingHeld` make
it the waker of the consumer that polled last for as long as the phase lasts.

**FuturesOrdered**, for any set of futures, infinite ones included, from `OrderedAssumption`. `OrderedCorrect`:
`Spec => []OrderedInv`. `IndicesExact` counts: held entries and panics together are the distance of the two
counters. The count is inductive only with finite halves that share no entry (`Apart`), and no two
entries share an index only if no future is pushed twice and a lost one is not held (`Once`). The actions
change the halves in four ways, one lemma each (`Joins`, `Leaves`, `ChangesSides`, `Vanishes`). `IndicesStayExact` and `TypeCorrect` follow.
`OrderedRefinesQueue`: `Spec => RefinesOrderedQueue`, with the mapping *order = what is held at each index from the
outgoing one on, a gap where nothing is; over = is_terminated*. Two things carry it. `IndicesExact` makes the
mapping a function: at an index there is one entry (`SlotFinds`), so a push is `Append` or a new head, leaving in turn is
`Tail`, and a panic an EXCEPT. `Settled`, a second inductive invariant, justifies the answers: no output at the
outgoing index waits in the heap once `poll_next` has gone past it to the inner set, or that set is over – otherwise "none"
would be answered with an output due – and outputs are of completed futures. `TooEarly` and the start of a poll are stutters.

**The stream adaptors**, all nineteen of them, for sources of any length, any capacities and limits, from
`SourceAssumption` alone (an unknown name makes an adaptor without steps). `AdaptorsCorrect`:
`Spec => []AdaptorInv`. The properties speak of an adaptor between polls, the invariant of every turn of its
loop, so that it must say where each entry is in the middle of one. `Shape` and `BufferShape` tie the fields to one another
(an item is kept just while a future is asked about it; a chunk has items only while poll runs, a stashed
error only between the chunk and the next poll). `Verdicts` says what is known of the entries given, and *when*: the entry a
future is asked about has no verdict yet, and `try_skip_while` has stopped asking just when it has met an entry that it does not skip.
`InOrder` is the heart of `OutputRight`: what was delivered and what is held list the entries that come out, each once and
in order; behind a queue, what it has handed out and what it holds list all, and errors overtake items. `AnswersRight`
makes the answers of what was delivered. `QueueAsked` is needed for the wakers: a buffer asks its queue only after it has
asked its source, or the limit forbids that. `EndIsFinal` needs `OverKept`: an adaptor that has said it was over is in a state (`Over`)
from which nothing comes. `HintsHold` is about two calls and the polls between them; `HintsKept` bounds what will come
from the *present* state (`Least`, `Most`, which counts a stashed error), and each step moves an answer from there to
`out`, or makes it impossible. `promise` keeps what `size_hint` itself said; its upper bound is that of the last call with
no error stashed, since the one said with an error stashed is wrong (section 6), so that `HintsStayTrue` covers
every answer up to the end for every other promise. The steps of the
per-item adaptors are nine forms (`Begins`, `Passes`, `Decides`, `Drops`, ...), one lemma each, and every arm of
every loop is shown to be one of them (`ItemMoves`).
`TypeCorrect`, `OutputStaysRight`, `WakersHeld`, `EndStaysFinal` and `HintsStayTrue` follow.

**The consumers**, for sources, chunks and buffers of any size, from `SourceAssumption` and `ConsumersAssumption`
(the six names). `ConsumersCorrect`: `Spec => []ConsumerInv`. `try_forward`: what start_send was called with and what is buffered list
the items, in order (`ForwardRight`, inductive with `ForwardShape`: nothing is buffered where the source is asked, and
a flush happens only when the source has the waker). `try_all`, `try_any`: while there is no decision every entry has gone through but
the one whose future is asked (`FoldShape`), which is why an answer can be believed. `try_collect`,
`try_concat`: collection and results list the items (`AllGathered`, what the code does; for `try_collect`
`DeliveredRight` takes from it only what was given since the last error). `into_async_read`: the bytes read, then those in hand of the last chunk, are all the
bytes of all chunks in order; taking some (`AdvanceMoves`) leaves that sequence as it is and a new chunk goes
behind it (`StreamMoves`). A slice lent is all there is in hand, so `consume` cannot panic. `OverKept` carries what
`is_terminated` said through the poll. Each kind of consumer is proved on the part of the invariant about it, and four lemmas
(`Forwarding`, `FoldingThem`, `GatheringThem`, `Reading`) say that for such a consumer the part is the whole.
`TypeCorrect`, `DeliveredStaysRight` and `WakersHeld` follow.

**Only model-checked:** everything temporal beyond safety, because TLAPS does not reach liveness under
fairness, nor ENABLED: that tasks come out, wake-ups reach polls, spins end, streams and futures end, and
that nothing held stays. Safety, in every passing run, is proved.

## 6. Findings

* `NothingLeaked` (`futures_unordered/iter.rs:60`): `IntoIter::next` takes the future out and pops the task
  from the list without reclaiming the list's `Arc` count; unless the task is in the ready-to-run queue it
  is never freed. The comments in `mod.rs:167-169` and `605-607` say otherwise. The invariant
  `RefsAccounted` names exactly these tasks (`GivenUp`).
* `NoneMeansEmpty` (`futures_ordered.rs:309`): after a panicking future has left a gap, `poll_next` answers
  `None` while outputs wait in the heap; the documentation (161–162) says `None` means that nothing is managed.
  `is_terminated` is right even then (`RefinesOrderedQueue`).
* `AtMostMax` (`try_stream/ext/try_buffered.rs:111`): the queue's length is read once, before the loop that
  fills it; one call pulls as many futures as the source has ready. The documentation
  (`ext/mod.rs:833`) promises at most `n`.

Three more disagreements, met while modelling and without a run of their own. The properties that are checked and
proved take no side in them, they leave out just the case in question:

* `TryChunks` hands out a partial chunk when its source is pending (`try_stream/ext/try_chunks.rs:161-168`): its
  documentation (`ext/mod.rs:487-491`) names only the end and an error, and gives "pending" to `try_ready_chunks`
  alone (539-541). The model follows the code; `PendingHasWaker` and `AllYielded` let a chunk of `TryChunks`
  wait for the source.
* `size_hint` of both chunk adaptors does not count an error stashed behind a chunk (`try_chunks.rs:173-182`,
  `try_ready_chunks.rs:139-143`). With a capacity of 2 and a source of Ok, Err it says `(0, Some(0))` after the chunk, and the
  error still comes. `HintsHold` is said of every lower bound, and of the upper bounds said with no error stashed.
* After an error `TryCollect` keeps what it has collected (`try_collect.rs:52`); its `is_terminated` may still
  be false, and a later poll returns those items. The documentation (`ext/mod.rs:456-457`) says that all collected
  elements are dropped. `DeliveredRight` asks of `TryCollect` that what was given since the last error is there, in order
  and once, whatever becomes of what came before.

A smaller one: the items in `TryChunksError` (`try_chunks.rs:218`, "all items that were collected before an error") are
always empty, since they go out in a chunk before the error; the example in `ext/mod.rs:517` expects just that.

## 7. Assumptions of the models

* Atomics are sequentially consistent. The code uses acquire/release and relaxed orderings; reorderings
  they would allow are not modelled.
* `AtomicWaker::register` and `wake` are atomic and linearizable (an external library).
* `Arc` counts never overflow; the indices of `FuturesOrdered` (`i64`) and size hints (`usize`) are
  mathematical integers.
* Two threads pushing into the same `FuturesUnordered` at once are modelled in `AllTasksList` and
  `ReadyToRunQueue`, not in `FuturesUnordered`, where the owner pushes.
* In the adaptor and consumer modules the source, the sink and the user's functions and futures do not
  panic; what a panic of a buffered future leads to is `ordered_gap`. A source that is polled
  after its end answers "none" again; behind the fuse it is not asked.
* `HintsHold` is about sources whose own `size_hint` is exact.
* A caller of `IntoAsyncRead` consumes at most what `poll_fill_buf` has lent it last: the contract of
  `AsyncBufRead`. The two `debug_assert`s of `consume` are then never violated (part of `DeliveredRight`).

## 8. Not modelled

* The `Sink` implementations of the adaptors and `AsyncWrite` of `IntoAsyncRead` forward every call to the
  source and have no state; read and found to forward to the method of the same name.
* `ext/mod.rs` (constructors, documentation) and the traits and forwarding implementations in `fused.rs`,
  `lib.rs`, `try_stream/mod.rs` have no state. `FromIterator` and `Extend` are rows of pushes.
* Formatting (`Debug`), accessors (`get_ref`, `into_inner`), the `no_std` abort shim.
* Weak memory orderings, see section 7.

What could come next: `FuturesOrdered` and `FlattenUnordered` on the actions of `FutureSet`, as
`FuturesUnordered` is on those of `TaskFifo`.
