--------------------------- MODULE FlattenUnordered ---------------------------
(***************************************************************************)
(* flatten_unordered.rs: a base stream of inner streams is flattened; one  *)
(* atomic byte (SharedPollState) keeps poll_next and the wrapped wakers of *)
(* the base and of the inner streams apart and records what a wake-up      *)
(* asks for.  The byte is the set of its bits.  The flow controller is     *)
(* that of TryFlattenUnordered: an error of the base stream is returned at *)
(* once.  The FuturesUnordered inside is taken at its word (see that       *)
(* module): `ready` is its ready-to-run queue, `registered` its            *)
(* AtomicWaker.                                                            *)
(***************************************************************************)
EXTENDS Naturals, FiniteSets

CONSTANTS Streams,      \* the inner streams the base stream may yield
          Wakers,       \* the threads on which streams wake
          Consumers,    \* the tasks that poll
          NoStream, NoConsumer,
          Limits,       \* the limits the adaptor is made with; 0: none
          MaxItems,     \* bound: items of an inner stream
          MaxErrors,    \* bound: errors of the base stream
          MaxPanics     \* bound: panics of streams when they are polled

ASSUME FlattenAssumption ==
    /\ NoStream \notin Streams \cup {"error"}
    /\ "error" \notin Streams
    /\ NoConsumer \notin Consumers
    /\ Limits \subseteq Nat
    /\ MaxItems \in Nat /\ MaxErrors \in Nat /\ MaxPanics \in Nat

VARIABLES
    limit,      \* the limit on inner streams
    state,      \* SharedPollState
    cell,       \* inner_waker of both wrapped wakers
    last,       \* the consumer that polled last, or is polling
    notified,   \* per consumer: woken since it last polled
    pc, value, need, nextItem, \* poll_next and its locals poll_state_value, need_to_poll_next, next_item
    done,       \* is_stream_done
    bucket, ready, registered, \* inner_streams: all, woken, waker registered
    base,       \* what the base stream would answer
    baseArmed,  \* it holds a clone of stream_waker
    unused, errors, \* the inner streams it has not yielded, the errors it has
    inner, left, armed, \* per inner stream: its answer, its items left, its task's waker held
    panics,     \* the panics so far
    ret,        \* what poll_next returned last
    wpc, wflag, wstream, wcell \* each waker thread: where, need_to_poll, the stream, the waker cloned

pollVars == <<pc, value, need, nextItem>>
setVars == <<bucket, ready, registered>>
baseVars == <<base, baseArmed, unused, errors>>
innerVars == <<inner, left, armed, panics>>
wakerVars == <<wpc, wflag, wstream, wcell>>
vars == <<limit, state, cell, last, notified, pollVars, done, setVars, baseVars, innerVars, ret, wakerVars>>

NeedToPollAll == {"inner", "stream"}

Init ==
    /\ limit \in Limits
    /\ state = {"stream"}
    /\ cell = NoConsumer
    /\ last = NoConsumer
    /\ notified = [c \in Consumers |-> FALSE]
    /\ pc = "idle" /\ value = {} /\ need = {} /\ nextItem = NoStream
    /\ done = FALSE
    /\ bucket = {} /\ ready = {} /\ registered = FALSE
    /\ base \in {"pending", "ready"}
    /\ baseArmed = FALSE
    /\ unused = Streams
    /\ errors = 0
    /\ inner \in [Streams -> {"pending", "ready"}]
    /\ left = [s \in Streams |-> MaxItems]
    /\ armed = [s \in Streams |-> FALSE]
    /\ panics = 0
    /\ ret = [kind |-> "None", item |-> NoStream]
    /\ wpc = [w \in Wakers |-> "idle"]
    /\ wflag = [w \in Wakers |-> "stream"]
    /\ wstream = [w \in Wakers |-> NoStream]
    /\ wcell = [w \in Wakers |-> NoConsumer]

-----------------------------------------------------------------------------
(* The streams and their wakers, on other threads *)

\* Thread w calls wake_by_ref of a wrapped waker.
CallWake(w, flag) ==
    /\ wpc' = [wpc EXCEPT ![w] = "start"]
    /\ wflag' = [wflag EXCEPT ![w] = flag]

BaseReady(w) ==
    /\ base = "pending"
    /\ base' = "ready"
    /\ IF baseArmed
       THEN wpc[w] = "idle" /\ CallWake(w, "stream")
       ELSE UNCHANGED <<wpc, wflag>>
    /\ baseArmed' = FALSE
    /\ UNCHANGED <<limit, state, cell, last, notified, pollVars, done, setVars, unused,
                   errors, innerVars, ret, wstream, wcell>>

\* A wake-up without anything new: clones of the base stream's waker, which it
\* was polled with first, may be kept and used at any time.
SpuriousWake(w) ==
    /\ cell # NoConsumer
    /\ wpc[w] = "idle"
    /\ CallWake(w, "stream")
    /\ UNCHANGED <<limit, state, cell, last, notified, pollVars, done, setVars, baseVars,
                   innerVars, ret, wstream, wcell>>

InnerReady(s, w) ==
    /\ inner[s] = "pending"
    /\ inner' = [inner EXCEPT ![s] = "ready"]
    /\ IF armed[s]
       THEN /\ wpc[w] = "idle"
            /\ wpc' = [wpc EXCEPT ![w] = "enqueue"]
            /\ wstream' = [wstream EXCEPT ![w] = s]
       ELSE UNCHANGED <<wpc, wstream>>
    /\ armed' = [armed EXCEPT ![s] = FALSE]
    /\ UNCHANGED <<limit, state, cell, last, notified, pollVars, done, setVars, baseVars,
                   left, panics, ret, wflag, wcell>>

\* The inner stream's task goes into the ready-to-run queue, ...
Enqueue(w) ==
    /\ wpc[w] = "enqueue"
    /\ ready' = ready \cup {wstream[w]}
    /\ wpc' = [wpc EXCEPT ![w] = "take"]
    /\ wstream' = [wstream EXCEPT ![w] = NoStream]
    /\ UNCHANGED <<limit, state, cell, last, notified, pollVars, done, bucket, registered,
                   baseVars, innerVars, ret, wflag, wcell>>

\* ... and the waker registered with the set, if there is one, is woken.
TakeRegistered(w) ==
    /\ wpc[w] = "take"
    /\ registered' = FALSE
    /\ IF registered
       THEN CallWake(w, "inner")
       ELSE wpc' = [wpc EXCEPT ![w] = "idle"] /\ UNCHANGED wflag
    /\ UNCHANGED <<limit, state, cell, last, notified, pollVars, done, bucket, ready,
                   baseVars, innerVars, ret, wstream, wcell>>

-----------------------------------------------------------------------------
(* WrappedWaker::wake_by_ref *)

\* Mutant of StartWaking: a woken stream is woken again.
StartWakingTwice(w) ==
    /\ wpc[w] = "start"
    /\ state' = state \cup {wflag[w]}
                      \cup (IF state \cap {"polling"} = {} THEN {"waking"} ELSE {})
    /\ wpc' = [wpc EXCEPT ![w] = IF state \cap {"polling", "waking"} = {}
                                 THEN "read" ELSE "idle"]
    /\ UNCHANGED <<limit, cell, last, notified, pollVars, done, setVars, baseVars,
                   innerVars, ret, wflag, wstream, wcell>>

StartWaking(w) ==
    /\ wpc[w] = "start"
    /\ state' = state \cup {wflag[w]}
                      \cup (IF state \cap {"woken", "polling"} = {} THEN {"waking"} ELSE {})
    /\ wpc' = [wpc EXCEPT ![w] = IF state \cap {"woken", "polling", "waking"} = {}
                                 THEN "read" ELSE "idle"]
    /\ UNCHANGED <<limit, cell, last, notified, pollVars, done, setVars, baseVars,
                   innerVars, ret, wflag, wstream, wcell>>

ReadCell(w) ==
    /\ wpc[w] = "read"
    /\ wcell' = [wcell EXCEPT ![w] = cell]
    /\ wpc' = [wpc EXCEPT ![w] = "stop"]
    /\ UNCHANGED <<limit, state, cell, last, notified, pollVars, done, setVars, baseVars,
                   innerVars, ret, wflag, wstream>>

\* Mutant of StopWaking: the state does not become `WOKEN`.
StopWakingNotWoken(w) ==
    /\ wpc[w] = "stop"
    /\ state' = state \ {"waking"}
    /\ wpc' = [wpc EXCEPT ![w] = IF wcell[w] = NoConsumer THEN "idle" ELSE "wake"]
    /\ UNCHANGED <<limit, cell, last, notified, pollVars, done, setVars, baseVars,
                   innerVars, ret, wflag, wstream, wcell>>

StopWaking(w) ==
    /\ wpc[w] = "stop"
    /\ state' = (state \ {"waking"}) \cup {"woken"}
    /\ wpc' = [wpc EXCEPT ![w] = IF wcell[w] = NoConsumer THEN "idle" ELSE "wake"]
    /\ UNCHANGED <<limit, cell, last, notified, pollVars, done, setVars, baseVars,
                   innerVars, ret, wflag, wstream, wcell>>

WakeConsumer(w) ==
    /\ wpc[w] = "wake"
    /\ notified' = [notified EXCEPT ![wcell[w]] = TRUE]
    /\ wpc' = [wpc EXCEPT ![w] = "idle"]
    /\ wcell' = [wcell EXCEPT ![w] = NoConsumer]
    /\ UNCHANGED <<limit, state, cell, last, pollVars, done, setVars, baseVars, innerVars,
                   ret, wflag, wstream>>

Waker(w) ==
    \/ Enqueue(w) \/ TakeRegistered(w)
    \/ StartWaking(w) \/ ReadCell(w) \/ StopWaking(w) \/ WakeConsumer(w)

-----------------------------------------------------------------------------
(* poll_next *)

\* Mutant of Exceeded: one inner stream more.
ExceededLate == limit > 0 /\ Cardinality(bucket) > limit

Exceeded == limit > 0 /\ Cardinality(bucket) >= limit

Poll(c) ==
    /\ pc = "idle"
    /\ pc' = "start"
    /\ last' = c
    /\ notified' = [notified EXCEPT ![c] = FALSE]
    /\ UNCHANGED <<limit, state, cell, value, need, nextItem, done, setVars, baseVars,
                   innerVars, ret, wakerVars>>

\* Mutant of StartPolling: a waker that is waking is not waited for.
StartPollingAnyway ==
    /\ pc = "start"
    /\ value' = state \cap NeedToPollAll
    /\ state' = {"polling"}
    /\ pc' = "replace"
    /\ UNCHANGED <<limit, cell, last, notified, need, nextItem, done, setVars, baseVars,
                   innerVars, ret, wakerVars>>

\* The loop around start_polling ends when no waker is waking.
StartPolling ==
    /\ pc = "start"
    /\ "waking" \notin state
    /\ value' = state \cap NeedToPollAll
    /\ state' = {"polling"}
    /\ pc' = "replace"
    /\ UNCHANGED <<limit, cell, last, notified, need, nextItem, done, setVars, baseVars,
                   innerVars, ret, wakerVars>>

ReplaceWaker ==
    /\ pc = "replace"
    /\ cell' = last
    /\ pc' = IF "stream" \in value THEN "base" ELSE "inner"
    /\ UNCHANGED <<limit, state, last, notified, value, need, nextItem, done, setVars,
                   baseVars, innerVars, ret, wakerVars>>

\* The base stream is not polled (again).
BaseSkipped ==
    /\ pc = "base"
    /\ Exceeded \/ done
    /\ need' = IF done THEN need ELSE need \cup {"stream"}
    /\ pc' = "inner"
    /\ UNCHANGED <<limit, state, cell, last, notified, value, nextItem, done, setVars,
                   baseVars, innerVars, ret, wakerVars>>

BasePolled == pc = "base" /\ ~Exceeded /\ ~done

\* The base stream, read through NestedTryStreamIntoEither, has an inner stream
\* or an error.
BaseAnswers == BasePolled /\ base = "ready" /\ base' \in {"pending", "ready"}

\* FlowStep::Continue: the inner stream joins the bucket, to be polled soon.
BaseStream(s) ==
    /\ BaseAnswers
    /\ s \in unused
    /\ unused' = unused \ {s}
    /\ bucket' = bucket \cup {s}
    /\ ready' = ready \cup {s}
    /\ value' = value \cup {"inner"}
    /\ UNCHANGED <<limit, state, cell, last, notified, pc, need, nextItem, done, registered,
                   baseArmed, errors, innerVars, ret, wakerVars>>

\* Mutant of BaseError: the inner streams are polled all the same.
BaseErrorPollsOn ==
    /\ BaseAnswers
    /\ errors < MaxErrors
    /\ errors' = errors + 1
    /\ need' = need \cup {"stream"} \cup (value \cap {"inner"})
    /\ nextItem' = "error"
    /\ pc' = "inner"
    /\ UNCHANGED <<limit, state, cell, last, notified, value, done, setVars, baseArmed, unused,
                   innerVars, ret, wakerVars>>

\* FlowStep::Return: the inner streams wait for the next poll.
BaseError ==
    /\ BaseAnswers
    /\ errors < MaxErrors
    /\ errors' = errors + 1
    /\ need' = need \cup {"stream"} \cup (value \cap {"inner"})
    /\ value' = value \ {"inner"}
    /\ nextItem' = "error"
    /\ pc' = "inner"
    /\ UNCHANGED <<limit, state, cell, last, notified, done, setVars, baseArmed, unused,
                   innerVars, ret, wakerVars>>

BaseEnd ==
    /\ BasePolled
    /\ base = "ready" /\ base' = "ended"
    /\ done' = TRUE
    /\ UNCHANGED <<limit, state, cell, last, notified, pollVars, setVars, baseArmed,
                   unused, errors, innerVars, ret, wakerVars>>

BasePending ==
    /\ BasePolled
    /\ base = "pending"
    /\ baseArmed' = TRUE
    /\ pc' = "inner"
    /\ UNCHANGED <<limit, state, cell, last, notified, value, need, nextItem, done, setVars,
                   base, unused, errors, innerVars, ret, wakerVars>>

InnerSkipped ==
    /\ pc = "inner"
    /\ "inner" \notin value
    /\ pc' = "finish"
    /\ UNCHANGED <<limit, state, cell, last, notified, value, need, nextItem, done, setVars,
                   baseVars, innerVars, ret, wakerVars>>

InnerRegister ==
    /\ pc = "inner"
    /\ "inner" \in value
    /\ registered' = TRUE
    /\ pc' = "set"
    /\ UNCHANGED <<limit, state, cell, last, notified, value, need, nextItem, done, bucket,
                   ready, baseVars, innerVars, ret, wakerVars>>

\* The set polls a woken inner stream, through its EitherStream, and it is ready.
InnerAnswers(s) == pc = "set" /\ s \in ready /\ inner[s] = "ready"

\* Its item is taken and the rest of it is pushed again, ...
InnerItem(s) ==
    /\ InnerAnswers(s) /\ left[s] > 0
    /\ left' = [left EXCEPT ![s] = @ - 1]
    /\ \E r \in {"pending", "ready"} : inner' = [inner EXCEPT ![s] = r]
    /\ nextItem' = s
    /\ need' = need \cup {"inner"}
    /\ pc' = "finish"
    /\ UNCHANGED <<limit, state, cell, last, notified, value, done, setVars, baseVars,
                   armed, panics, ret, wakerVars>>

\* Mutant of InnerEnd: the ended stream stays in the ready-to-run queue.
InnerEndStaysQueued(s) ==
    /\ InnerAnswers(s) /\ left[s] = 0
    /\ bucket' = bucket \ {s}
    /\ need' = need \cup {"inner"}
    /\ pc' = "finish"
    /\ UNCHANGED <<limit, state, cell, last, notified, value, nextItem, done, ready, registered,
                   baseVars, innerVars, ret, wakerVars>>

\* ... or it has ended, ...
InnerEnd(s) ==
    /\ InnerAnswers(s) /\ left[s] = 0
    /\ bucket' = bucket \ {s}
    /\ ready' = ready \ {s}
    /\ need' = need \cup {"inner"}
    /\ pc' = "finish"
    /\ UNCHANGED <<limit, state, cell, last, notified, value, nextItem, done, registered,
                   baseVars, innerVars, ret, wakerVars>>

\* ... or it waits, and the set goes on or gives way.
InnerPending(s) ==
    /\ pc = "set"
    /\ s \in ready
    /\ inner[s] = "pending"
    /\ armed' = [armed EXCEPT ![s] = TRUE]
    /\ ready' = ready \ {s}
    /\ \/ UNCHANGED <<state, pc>>
       \/ state' = state \cup {"inner"} /\ pc' = "finish"
    /\ UNCHANGED <<limit, cell, last, notified, value, need, nextItem, done, bucket,
                   registered, baseVars, inner, left, panics, ret, wakerVars>>

InnerNone ==
    /\ pc = "set"
    /\ ready = {}
    /\ pc' = "finish"
    /\ UNCHANGED <<limit, state, cell, last, notified, value, need, nextItem, done, setVars,
                   baseVars, innerVars, ret, wakerVars>>

\* An enqueue is under way: the set answers "pending" and wakes itself.
InnerInconsistent ==
    /\ pc = "set"
    /\ \E w \in Wakers : wpc[w] = "enqueue"
    /\ state' = state \cup {"inner"}
    /\ pc' = "finish"
    /\ UNCHANGED <<limit, cell, last, notified, value, need, nextItem, done, setVars,
                   baseVars, innerVars, ret, wakerVars>>

\* There is more to do, and the limit allows it.
ForceWake == ("stream" \in need /\ ~Exceeded) \/ "inner" \in need

\* Mutant of Stopped: what wakers asked for during the poll is overwritten.
StoppedForgets == need \cup (IF ForceWake THEN {"woken"} ELSE {})

\* The state stop_polling leaves: to be woken too if wakers asked during the poll.
Stopped ==
    LET asked == state \cap NeedToPollAll IN
    need \cup asked \cup (IF ForceWake \/ asked # {} THEN {"woken"} ELSE {})

Kind == CASE nextItem # NoStream                           -> "Item"
          [] nextItem = NoStream /\ done /\ bucket = {}    -> "End"
          [] nextItem = NoStream /\ ~(done /\ bucket = {}) -> "Pending"

Finish ==
    /\ pc = "finish"
    /\ state' = Stopped
    /\ ret' = [kind |-> Kind, item |-> nextItem]
    /\ notified' = [notified EXCEPT ![last] = @ \/ (Kind = "Pending" /\ "woken" \in Stopped)]
    /\ pc' = "idle" /\ value' = {} /\ need' = {} /\ nextItem' = NoStream
    /\ UNCHANGED <<limit, cell, last, done, setVars, baseVars, innerVars, wakerVars>>

\* Mutant of Panic: the bomb is not there.
PanicNoReset ==
    /\ panics < MaxPanics
    /\ panics' = panics + 1
    /\ \/ BasePolled /\ UNCHANGED <<bucket, ready>>
       \/ /\ pc = "set"
          /\ \E s \in ready : bucket' = bucket \ {s} /\ ready' = ready \ {s}
    /\ ret' = [kind |-> "Panic", item |-> NoStream]
    /\ pc' = "idle" /\ value' = {} /\ need' = {} /\ nextItem' = NoStream
    /\ UNCHANGED <<limit, state, cell, last, notified, done, registered, baseVars, inner, left,
                   armed, wakerVars>>

\* A stream panics; an inner one is gone.  The bomb resets the state.
Panic ==
    /\ panics < MaxPanics
    /\ panics' = panics + 1
    /\ \/ BasePolled /\ UNCHANGED <<bucket, ready>>
       \/ /\ pc = "set"
          /\ \E s \in ready : bucket' = bucket \ {s} /\ ready' = ready \ {s}
    /\ state' = NeedToPollAll
    /\ ret' = [kind |-> "Panic", item |-> NoStream]
    /\ pc' = "idle" /\ value' = {} /\ need' = {} /\ nextItem' = NoStream
    /\ UNCHANGED <<limit, cell, last, notified, done, registered, baseVars, inner, left,
                   armed, wakerVars>>

\* is_terminated, through the fuse around the base stream.
IsTerminated == base = "ended" /\ bucket = {}

-----------------------------------------------------------------------------

InnerStep ==
    \/ InnerSkipped \/ InnerRegister \/ InnerNone \/ InnerInconsistent
    \/ \E s \in Streams : InnerItem(s) \/ InnerEnd(s) \/ InnerPending(s)

PollStep ==
    \/ StartPolling \/ ReplaceWaker
    \/ BaseSkipped \/ BaseError \/ BaseEnd \/ BasePending
    \/ \E s \in Streams : BaseStream(s)
    \/ InnerStep
    \/ Finish

Next ==
    \/ \E c \in Consumers : Poll(c)
    \/ PollStep
    \/ Panic
    \/ \E w \in Wakers : Waker(w) \/ BaseReady(w) \/ SpuriousWake(w)
    \/ \E s \in Streams, w \in Wakers : InnerReady(s, w)

Spec == Init /\ [][Next]_vars

\* A consumer polls when it was woken, the last one also after every answer but
\* "pending" and the end.
PollAgain(c) == Poll(c) /\ (notified[c] \/ (c = last /\ ret.kind \in {"Item", "Panic"}))

FirstPoll == last = NoConsumer /\ \E c \in Consumers : Poll(c)

\* Threads inside a call keep running, consumers poll when they should, and the
\* streams get ready in the end, whatever other wake-ups occupy the threads.
FairSpec ==
    /\ Spec
    /\ WF_vars(PollStep) /\ WF_vars(FirstPoll)
    /\ \A c \in Consumers : WF_vars(PollAgain(c))
    /\ \A w \in Wakers : WF_vars(Waker(w))
    /\ SF_vars(\E w \in Wakers : BaseReady(w))
    /\ \A s \in Streams : SF_vars(\E w \in Wakers : InnerReady(s, w))

-----------------------------------------------------------------------------
(* Properties *)

TypeOK ==
    /\ limit \in Limits
    /\ state \subseteq {"inner", "stream", "polling", "waking", "woken"}
    /\ cell \in Consumers \cup {NoConsumer} /\ last \in Consumers \cup {NoConsumer}
    /\ notified \in [Consumers -> BOOLEAN]
    /\ pc \in {"idle", "start", "replace", "base", "inner", "set", "finish"}
    /\ value \subseteq NeedToPollAll /\ need \subseteq NeedToPollAll
    /\ nextItem \in Streams \cup {"error", NoStream}
    /\ done \in BOOLEAN /\ registered \in BOOLEAN
    /\ bucket \subseteq Streams /\ ready \subseteq bucket /\ unused \subseteq Streams
    /\ base \in {"pending", "ready", "ended"} /\ baseArmed \in BOOLEAN
    /\ errors \in 0 .. MaxErrors /\ panics \in 0 .. MaxPanics
    /\ inner \in [Streams -> {"pending", "ready"}] /\ left \in [Streams -> 0 .. MaxItems]
    /\ armed \in [Streams -> BOOLEAN]
    /\ ret \in [kind: {"None", "Item", "End", "Pending", "Panic"},
                item: Streams \cup {"error", NoStream}]
    /\ wpc \in [Wakers -> {"idle", "enqueue", "take", "start", "read", "stop", "wake"}]
    /\ wflag \in [Wakers -> NeedToPollAll]
    /\ wstream \in [Wakers -> Streams \cup {NoStream}]
    /\ wcell \in [Wakers -> Consumers \cup {NoConsumer}]

\* The wakers' cells are never read while poll_next replaces them, and are
\* filled when they are read (the safety comments of replace_waker and
\* wake_by_ref).
CellExclusive ==
    \A w \in Wakers : wpc[w] = "read" => pc # "replace" /\ cell # NoConsumer

\* The debug_assert of stop_waking: until the bomb is dropped nobody else has
\* ended the waking phase, polls, or wakes as well.
StopWakingAssert ==
    /\ \A w \in Wakers : wpc[w] \in {"read", "stop"} =>
          state \cap {"woken", "polling", "waking"} = {"waking"}
    /\ \A v, w \in Wakers : wpc[v] \in {"read", "stop"} /\ wpc[w] \in {"read", "stop"} => v = w

\* Something to do for the next poll.
Work == ready # {} \/ (base = "ready" /\ ~Exceeded)

\* Thread w will wake the consumer that polled last.
OnItsWay(w) ==
    \/ wpc[w] = "take" /\ registered /\ state \cap {"woken", "waking"} = {}
    \/ wpc[w] = "start" /\ state \cap {"woken", "waking"} = {}
    \/ wpc[w] = "read"
    \/ wpc[w] \in {"stop", "wake"} /\ wcell[w] = last

\* No wake-up is lost between two polls, whichever of the two wakers is used in
\* which phase and whichever task polled last (SharedPollState, poll_next).
NoLostWakeup ==
    pc = "idle" /\ ret.kind = "Pending" /\ Work =>
        notified[last] \/ \E w \in Wakers : OnItsWay(w)

\* The bucket never holds more inner streams than the limit (is_exceeded_limit,
\* although a stream with an item is pushed again unchecked).
AtMostLimit == limit > 0 => Cardinality(bucket) <= limit

\* The item a poll has taken is the one it returns; another one is never taken
\* on top of it (the flow controller's Return, poll_next).
ItemKept ==
    [][nextItem # NoStream /\ nextItem' # nextItem
          => nextItem' = NoStream /\ ret' = [kind |-> "Item", item |-> nextItem]]_vars

\* The loop around start_polling ends, although wakers go on waking.
SpinEnds == pc = "start" ~> pc # "start"

\* The stream ends once the base stream and the inner streams do, whatever
\* errors, panics and limits come in between, and is_terminated says so from then on.
EndReached == <>[](ret.kind = "End" /\ IsTerminated)
=============================================================================
