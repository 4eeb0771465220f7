---------------------------- MODULE StreamAdaptors ----------------------------
(***************************************************************************)
(* The stream adaptors of try_stream/ext over one source and one consumer: *)
(* Init makes one of them, and what all of them promise is stated once.    *)
(***************************************************************************)
EXTENDS ItemAdaptors, ChunkAdaptors, TryBuffered, TryFlatten

VARIABLE
    promise  \* history: what size_hint (for the upper bound: with no error stashed),
             \* added to the entries out, and is_terminated said when poll_next was
             \* last called

vars == <<setup, sourceVars, pc, notified, ret, outVars, itemVars, chunkVars,
          bufferVars, next, promise>>

\* is_terminated, where the adaptor is a FusedStream.
IsTerminated ==
    CASE adaptor = "AndThen" -> AndThenTerminated
      [] adaptor = "OrElse" -> OrElseTerminated
      [] adaptor = "TryFilter" -> TryFilterTerminated
      [] adaptor = "TryFilterMap" -> TryFilterMapTerminated
      [] adaptor = "TryTakeWhile" -> TryTakeWhileTerminated
      [] adaptor = "TrySkipWhile" -> TrySkipWhileTerminated
      [] adaptor = "TryUnfold" -> TryUnfoldTerminated
      [] adaptor = "TryChunks" -> TryChunksTerminated
      [] adaptor = "TryReadyChunks" -> TryReadyChunksTerminated
      [] adaptor = "TryBuffered" -> BufferedTerminated
      [] adaptor = "TryFlatten" -> TryFlattenTerminated
      [] adaptor \in {"ErrInto", "TryBufferUnordered"} -> FALSE
      [] OTHER -> SourceTerminated

SizeHint ==
    CASE adaptor = "AndThen" -> AndThenHint
      [] adaptor = "OrElse" -> OrElseHint
      [] adaptor = "TryFilter" -> TryFilterHint
      [] adaptor = "TryFilterMap" -> TryFilterMapHint
      [] adaptor = "TryTakeWhile" -> TryTakeWhileHint
      [] adaptor = "TrySkipWhile" -> TrySkipWhileHint
      [] adaptor = "TryChunks" -> TryChunksHint
      [] adaptor = "TryReadyChunks" -> TryReadyChunksHint
      [] adaptor \in {"MapOk", "MapErr", "InspectOk", "InspectErr", "IntoStream"} -> Exactly(left)
      [] OTHER -> Unknown

Init ==
    /\ SourceInit /\ ItemInit /\ ChunkInit /\ BufferInit /\ FlattenInit
    /\ out = <<>> /\ delivered = <<>>
    /\ size \in IF Buffered THEN Sizes ELSE IF Chunked THEN Sizes \ {0} ELSE {0}
    /\ promise = [lower |-> 0, upper |-> {}, over |-> FALSE]

\* Mutant of PollNext: a slot is reserved by an unchecked subtraction.
PollNextLenMinusOne ==
    /\ CallPoll
    /\ len' = Len(inProgress) - 1
    /\ UNCHANGED <<outVars, itemVars, chunkVars, inProgress, watched, next, promise>>

\* The consumer calls poll_next.
PollNext ==
    /\ CallPoll
    /\ len' = Len(inProgress)
    /\ promise' = [lower |-> Len(out) + SizeHint.lower,
                   upper |-> IF stash = <<>> THEN {Len(out) + n : n \in SizeHint.upper}
                                             ELSE promise.upper,
                   over  |-> IsTerminated \/ ret = "End"]
    /\ UNCHANGED <<outVars, itemVars, chunkVars, inProgress, watched, next>>

PartyWakes(party) ==
    /\ Wakes(party)
    /\ UNCHANGED <<outVars, itemVars, chunkVars, bufferVars, next, promise>>

ItemPart == ItemStep /\ UNCHANGED <<chunkVars, bufferVars, next>>
ChunkPart == ChunkStep /\ UNCHANGED <<itemVars, bufferVars, next>>
BufferPart == BufferStep /\ UNCHANGED <<itemVars, chunkVars, next>>
FlattenPart == FlattenStep /\ UNCHANGED <<itemVars, chunkVars, bufferVars>>

Step ==
    /\ ItemPart \/ ChunkPart \/ BufferPart \/ FlattenPart
    /\ UNCHANGED <<setup, promise>>

FutureCompletes == \E i \in 1 .. MaxAnswers :
    i \in DOMAIN given /\ Complete(i) /\ UNCHANGED <<itemVars, chunkVars, next, promise>>

Next ==
    \/ PollNext
    \/ Step
    \/ PartyWakes("source") \/ PartyWakes("future") \/ PartyWakes("inner")
    \/ FutureCompletes

Spec == Init /\ [][Next]_vars

\* The consumer polls on after an item, and when it is woken.
PollAgain == PollNext /\ (notified \/ ret \in {"None", "Item"})

\* What leaves an entry behind: a future that is done, an inner stream that
\* answers, a result that the buffer hands out; and the buffer's own end, since
\* what made it give way does not go on for ever.
Settles ==
    /\ Step
    /\ \/ fut /\ ~fut'
       \/ next # 0 /\ (next' = 0 \/ left' # left)
       \/ pc = "take" /\ (inProgress # inProgress' \/ ret' = "End")

\* poll_next runs to its end; futures and inner streams that were polled wake
\* the consumer and are done in the end; the source may stay pending for ever.
FairSpec ==
    /\ Spec
    /\ WF_vars(PollAgain) /\ WF_vars(Step)
    /\ WF_vars(PartyWakes("future")) /\ WF_vars(PartyWakes("inner"))
    /\ WF_vars(FutureCompletes)
    /\ SF_vars(Settles)

-----------------------------------------------------------------------------
(* What comes out, said of the entries the source has given *)

IsErr(i) == given[i].kind = "Err"
IsOk(i) == ~IsErr(i)
Verdict(i) == given[i].verdict

\* try_skip_while passes everything from the first entry that is not skipped.
SkippingEndedBefore(i) == \E j \in 1 .. i - 1 : IsErr(j) \/ Verdict(j) \in {"keep", "err"}

\* Entry i comes out, now or later.
Comes(i) ==
    CASE adaptor = "TryFlatten" -> given[i].kind # "Stream"
      [] adaptor = "TrySkipWhile" -> Verdict(i) # "drop" \/ SkippingEndedBefore(i)
      [] OTHER -> Verdict(i) # "drop"

\* Entry i comes out as Ok.
ComesOk(i) ==
    IF adaptor = "OrElse" THEN IsOk(i) \/ Verdict(i) = "keep"
                          ELSE IsOk(i) /\ Verdict(i) # "err"

\* Given, but not out yet: in the future, in the chunk, behind it.
Held == IF fut /\ adaptor # "TryUnfold" THEN <<Len(given)>> ELSE items \o stash

\* Strictly rising where P holds.
Rising(s, P(_)) == \A i, j \in DOMAIN s : i < j /\ P(s[i]) /\ P(s[j]) => s[i] < s[j]

\* s lists the entries for which P holds, each once, in the order given.
Lists(s, P(_)) == Rising(s, LAMBDA i : TRUE) /\ ToSet(s) = {i \in DOMAIN given : P(i)}

\* What the queue of a buffer has handed out, then what it holds, oldest first.
ThroughQueue == delivered \o inProgress

InOrder ==
    IF Buffered
    THEN /\ IsInjective(ThroughQueue) /\ ToSet(ThroughQueue) = DOMAIN given
         /\ \A i \in ToSet(inProgress) : IsOk(i)
         /\ Rising(delivered, IsErr)
         /\ adaptor = "TryBuffered" => Rising(ThroughQueue, IsOk)
    ELSE Lists(delivered \o Held, Comes)

\* The user's function is called with entry i.
Calls(i) ==
    CASE adaptor \in {"AndThen", "TryFilter", "TryFilterMap", "TryTakeWhile", "MapOk", "InspectOk"} ->
            IsOk(i)
      [] adaptor \in {"OrElse", "MapErr", "InspectErr", "ErrInto"} -> IsErr(i)
      [] adaptor = "TrySkipWhile" -> IsOk(i) /\ ~SkippingEndedBefore(i)
      [] OTHER -> FALSE

Blocked == ret = "Pending" /\ pc = "idle" /\ ~notified

Holds(i) == Contains(Held, i) \/ InQueue(i) \/ next = i

-----------------------------------------------------------------------------
(* Properties *)

TypeOK ==
    /\ SourceTypeOK
    /\ pc \in {"idle", "poll", "take"}
    /\ ret \in {"None", "Item", "Pending", "End"}
    /\ out \in Seq([items : Seq(1 .. MaxAnswers), ok : BOOLEAN])
    /\ delivered \in Seq(1 .. MaxAnswers)
    /\ called \in Seq(1 .. MaxAnswers)
    /\ fut \in BOOLEAN /\ done \in BOOLEAN /\ state \in BOOLEAN
    /\ item \in Seq(1 .. MaxAnswers) /\ Len(item) <= 1
    /\ items \in Seq(1 .. MaxAnswers) /\ stash \in Seq(1 .. MaxAnswers) /\ Len(stash) <= 1
    /\ inProgress \in Seq(1 .. MaxAnswers) /\ watched \subseteq 1 .. MaxAnswers
    /\ len \in 0 .. MaxAnswers /\ next \in 0 .. MaxAnswers
    /\ promise \in [lower : Nat, upper : SUBSET (0 .. MaxAnswers), over : BOOLEAN]

\* Whatever polls, wake-ups and pending answers come in between, the entries
\* come out as the adaptor says: each once, in the order given (a buffered
\* future in its queue's), with the right sign, chunks of at most the capacity,
\* nothing of an inner stream after its error; and the user's function was
\* called once for each entry it is for (all poll_next functions).
OutputRight ==
    /\ InOrder
    /\ Lists(called, Calls)
    /\ \A k \in DOMAIN out :
          /\ \A e \in ToSet(out[k].items) : out[k].ok = ComesOk(e)
          /\ Len(out[k].items) \in 1 .. IF Chunked /\ out[k].ok THEN size ELSE 1
    /\ \A i, j \in DOMAIN given : i < j /\ IsErr(i) /\ given[i].of # 0 => given[j].of # given[i].of

\* After "pending" somebody holds the consumer's waker and will use it: the
\* party the adaptor waits for, and no item waits that could have come out (of
\* try_chunks nothing is said here: it flushes its chunk, but its documentation,
\* unlike that of try_ready_chunks, has it wait for the source).
PendingHasWaker ==
    Blocked =>
        /\ adaptor # "TryChunks" => items = <<>>
        /\ stash = <<>>
        /\ \/ fut /\ adaptor # "TryUnfold" /\ "future" \in waiting
           \/ next # 0 /\ "inner" \in waiting
           \/ (~fut \/ adaptor = "TryUnfold") /\ next = 0 /\ inProgress = <<>> /\ "source" \in waiting
           \/ /\ inProgress # <<>>
              /\ \A k \in DOMAIN inProgress :
                    (adaptor = "TryBuffered" => k = 1) =>
                        inProgress[k] \in watched /\ ~Completed(inProgress[k])
              /\ size = 0 /\ ~ended => "source" \in waiting

\* Once is_terminated holds, or "none" was answered, nothing but "none" is
\* answered, whoever polls on; a buffer may put it off and wakes the consumer then.
EndIsFinal ==
    pc = "idle" /\ promise.over =>
        \/ ret = "End"
        \/ Buffered /\ ret = "Pending" /\ notified

\* What size_hint has promised is kept: at least as many entries come out as its
\* lower bound said, no more than its upper bound said, and from one call to the
\* next neither bound of the entries out and to come gets weaker.  An upper bound
\* said while a chunk adaptor has an error stashed is not among them: size_hint does
\* not count the error, so that one answer more comes than it says.
HintsHold ==
    pc = "idle" =>
        /\ Len(out) + SizeHint.lower >= promise.lower
        /\ \A m \in promise.upper :
              /\ Len(out) <= m
              /\ \A n \in SizeHint.upper : Len(out) + n <= m

\* An entry or an inner stream the adaptor holds leaves it in the end, though
\* the source may stay pending for ever; the chunk of try_chunks may wait for it.
AllYielded == \A i \in 1 .. MaxAnswers :
    Holds(i) /\ ~(adaptor = "TryChunks" /\ Contains(items, i)) ~> ~Holds(i)

\* The stream ends after its source.
EndReached == ended ~> ret = "End"

\* try_stream/ext/mod.rs, try_buffered and try_buffer_unordered: "This adaptor
\* will buffer up to `n` futures".
AtMostMax == Buffered /\ size > 0 => Len(inProgress) <= size
=============================================================================
