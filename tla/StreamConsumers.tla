---------------------------- MODULE StreamConsumers ----------------------------
(***************************************************************************)
(* The futures and the reader of try_stream/ext that use a stream up:      *)
(* Init makes one of them over a source, a sink or a user's future, and    *)
(* what all of them promise is stated once.                                *)
(***************************************************************************)
EXTENDS TryForward, TryFolds, IntoAsyncRead

ASSUME ConsumersAssumption ==
    Adaptors \subseteq {"TryForward", "TryAll", "TryAny", "TryCollect", "TryConcat", "IntoAsyncRead"}

VARIABLE
    over     \* history: what is_terminated said when it was last polled

vars == <<setup, sourceVars, pc, notified, ret, forwardVars, foldVars, readVars, over>>

IsTerminated ==
    CASE adaptor = "TryForward" -> ForwardTerminated
      [] adaptor = "TryAll" -> TryAllTerminated
      [] adaptor = "TryAny" -> TryAnyTerminated
      [] adaptor = "TryCollect" -> TryCollectTerminated
      [] adaptor = "TryConcat" -> TryConcatTerminated
      [] adaptor = "IntoAsyncRead" -> FALSE

Init ==
    /\ SourceInit /\ ForwardInit /\ FoldInit /\ ReadInit
    /\ size = 0
    /\ over = FALSE

\* A future is polled; nothing keeps the caller from doing so too often.
Poll ==
    /\ adaptor # "IntoAsyncRead"
    /\ CallPoll
    /\ over' = IsTerminated
    /\ UNCHANGED <<forwardVars, foldVars, readVars>>

\* The reader is called with a buffer of some size, or for its own buffer.
Reader(o, r) ==
    /\ adaptor = "IntoAsyncRead"
    /\ Call(o, r)
    /\ UNCHANGED <<forwardVars, foldVars, over>>

ReaderConsumes(n) == Consume(n) /\ UNCHANGED <<forwardVars, foldVars, over>>

PartyWakes(party) == Wakes(party) /\ UNCHANGED <<forwardVars, foldVars, readVars, over>>

Step ==
    /\ \/ ForwardStep /\ UNCHANGED <<foldVars, readVars>>
       \/ FoldStep /\ UNCHANGED <<forwardVars, readVars>>
       \/ ReadStep /\ UNCHANGED <<forwardVars, foldVars>>
    /\ UNCHANGED <<setup, notified, over>>

Next ==
    \/ Poll
    \/ \E r \in Sizes : Reader("read", r)
    \/ Reader("fill", 0)
    \/ \E n \in Sizes : ReaderConsumes(n)
    \/ Step
    \/ PartyWakes("source") \/ PartyWakes("future") \/ PartyWakes("sink")

Spec == Init /\ [][Next]_vars

\* A future is polled once, and again when it has woken its task; a reader goes
\* on reading.
Again == notified \/ ret # "Pending"
PollAgain == Poll /\ (notified \/ ret = "None")
ReadOn == Again /\ \E r \in Sizes \ {0} : Reader("read", r)

\* poll runs to its end; source, sink and futures wake the task they have made
\* wait, and in the end answer with something else than "pending".
FairSpec ==
    /\ Spec
    /\ WF_vars(PollAgain) /\ SF_vars(ReadOn) /\ WF_vars(Step)
    /\ WF_vars(PartyWakes("source")) /\ WF_vars(PartyWakes("future"))
    /\ WF_vars(PartyWakes("sink"))
    /\ SF_vars(Step /\ <<left, ended>>' # <<left, ended>>)
    /\ SF_vars(Step /\ fut /\ ~fut')
    /\ SF_vars(Step /\ tried' # tried)
    /\ SF_vars(Step /\ sink # "closed" /\ sink' = "closed")

-----------------------------------------------------------------------------
(* What each of them makes of the entries given *)

IsOk(i) == given[i].kind = "Ok"

\* s lists the items given, each once and in order.
Lists(s) ==
    /\ \A i, j \in DOMAIN s : i < j => s[i] < s[j]
    /\ ToSet(s) = {i \in DOMAIN given : IsOk(i)}

ForwardRight ==
    /\ Lists([k \in DOMAIN tried |-> tried[k].item] \o buffered)
    /\ sink # "open" => ended /\ buffered = <<>>
    /\ ret = "Ok" => sink = "closed" /\ flushed = Len(tried)

\* All entries but the last have gone through with the verdict `goOn`.
FoldedRight(goOn, atOnce, atEnd) ==
    LET Passed(i) == IsOk(i) /\ given[i].verdict = goOn
        n == Len(given)
    IN  /\ \A i \in 1 .. n - 1 : Passed(i)
        /\ ret = atEnd => ended /\ \A i \in DOMAIN given : Passed(i)
        /\ ret = atOnce => n > 0 /\ IsOk(n) /\ ~Passed(n) /\ ~fut
        /\ ret = "Err" => n > 0 /\ ~IsOk(n)

\* s lists items given, in order, none twice, and all since the last error.
ListsSinceError(s) ==
    /\ \A i, j \in DOMAIN s : i < j => s[i] < s[j]
    /\ \A i \in ToSet(s) : i \in DOMAIN given /\ IsOk(i)
    /\ \A i \in DOMAIN given : (\A j \in DOMAIN given : j >= i => IsOk(j)) => i \in ToSet(s)

GatheredRight ==
    /\ IF adaptor = "TryCollect" THEN ListsSinceError(result \o accum) ELSE Lists(result \o accum)
    /\ ret = "Ok" => ended /\ accum = <<>>

\* The bytes of all chunks, and the order they come in.
AllBytes == UNION {{i} \X (1 .. lengths[i]) : i \in DOMAIN lengths}
Before(b, c) == b[1] < c[1] \/ (b[1] = c[1] /\ b[2] < c[2])

\* The bytes read, then those of the current chunk still to be read.
Stream == read \o (IF reading = "Ready" THEN Available ELSE <<>>)

ReadRight ==
    /\ \A j, k \in DOMAIN Stream : j < k => Before(Stream[j], Stream[k])
    /\ ToSet(Stream) = AllBytes
    /\ reading = "Eof" => ended \/ ~IsOk(Len(given))
    /\ \A i \in 1 .. Len(given) - 1 : IsOk(i)
    /\ pc = "idle" /\ ret = "Ok" /\ got = <<>> /\ (op = "fill" \/ room > 0) => reading = "Eof"
    /\ lent > 0 => reading = "Ready" /\ lent = Len(Available)
    /\ ret # "Panic"

Blocked == ret = "Pending" /\ pc = "idle" /\ ~notified

-----------------------------------------------------------------------------
(* Properties *)

TypeOK ==
    /\ SourceTypeOK
    /\ pc \in {"idle", "poll", "stream", "close", "flush"}
    /\ ret \in {"None", "Pending", "Ok", "Err", "True", "False", "Panic"}
    /\ buffered \in Seq(1 .. MaxAnswers) /\ Len(buffered) <= 1
    /\ tried \in Seq([item : 1 .. MaxAnswers, ok : BOOLEAN])
    /\ flushed \in 0 .. Len(tried) /\ sink \in {"open", "closing", "closed"}
    /\ fut \in BOOLEAN /\ done \in BOOLEAN
    /\ accum \in Seq(1 .. MaxAnswers) /\ result \in Seq(1 .. MaxAnswers)
    /\ reading \in {"Ready", "PendingChunk", "Eof"}
    /\ lengths \in Seq(Sizes \cup {0}) /\ lent \in Nat
    /\ chunk_start \in 0 .. IF reading = "Ready" THEN lengths[Chunk] - 1 ELSE 0
    /\ op \in {"read", "fill"} /\ room \in Sizes \cup {0}
    /\ over \in BOOLEAN

\* What was delivered is what the source gave: the sink gets every item once and
\* in order and is closed and flushed after the last; try_all and try_any decide
\* at the first entry that decides and not later; a collection has every item, that
\* of try_collect those since the last error (the code keeps the ones before it,
\* the documentation says they are dropped);
\* the reader returns every byte once and in order, an empty read means the end,
\* and the slice lent can be consumed; a poll panics only, and always, when
\* is_terminated said before that there was nothing left to poll for
\* (all poll functions).
DeliveredRight ==
    /\ CASE adaptor = "TryForward" -> ForwardRight
         [] adaptor = "TryAll" -> FoldedRight("keep", "False", "True")
         [] adaptor = "TryAny" -> FoldedRight("drop", "True", "False")
         [] adaptor \in {"TryCollect", "TryConcat"} -> GatheredRight
         [] adaptor = "IntoAsyncRead" -> ReadRight
    /\ pc = "idle" /\ adaptor \in {"TryForward", "TryAll", "TryAny"} => (over <=> ret = "Panic")

\* After "pending" the party that is waited for holds the task's waker; and
\* nothing that was sent waits for a flush nobody will ask for.
PendingHasWaker ==
    Blocked =>
        CASE fut -> "future" \in waiting
          [] buffered # <<>> \/ sink = "closing" -> "sink" \in waiting
          [] OTHER -> /\ "source" \in waiting
                      /\ flushed = Len(tried) \/ "sink" \in waiting

\* Over a source, a sink and futures that answer in the end, every future has a
\* result, and the reader reaches the end of the file.
Completes ==
    <>(IF adaptor = "IntoAsyncRead" THEN reading = "Eof"
                                    ELSE ret \in {"Ok", "Err", "True", "False"})
=============================================================================
