------------------------ MODULE StreamAdaptorsProofs ------------------------
(***************************************************************************)
(* Proofs about StreamAdaptors, for any choice of the adaptors, any        *)
(* capacities and limits, and any number of entries.                       *)
(***************************************************************************)
EXTENDS StreamAdaptors, TryStreamSourceProofs

(* The inductive invariant *)

\* The adaptors that ask a future of the user's, keep the item meanwhile, stop
\* asking; those whose size_hint is exact, or has an upper bound at all.
Asking == {"AndThen", "OrElse", "TryFilter", "TryFilterMap", "TryTakeWhile", "TrySkipWhile"}
Keeping == {"TryFilter", "TryTakeWhile", "TrySkipWhile"}
While == {"TryTakeWhile", "TrySkipWhile"}
Exact == {"AndThen", "OrElse", "MapOk", "MapErr", "InspectOk", "InspectErr", "IntoStream"}
Bounded == Asking \cup Exact \cup {"TryChunks", "TryReadyChunks"}

Asks == fut /\ adaptor \in Asking

\* Which variables an adaptor uses, and what its fields say of one another.
Shape ==
    /\ ended => left = 0
    /\ terminated <=> ended /\ adaptor \in Fused
    /\ fut => adaptor \in Asking \cup {"TryUnfold"}
    /\ item = IF fut /\ adaptor \in Keeping THEN <<Len(given)>> ELSE <<>>
    /\ Asks => Len(given) > 0 /\ ~done
    /\ done => adaptor \in While
    /\ state => adaptor = "TryUnfold"
    /\ adaptor # "TryFlatten" => next = 0

BufferShape ==
    /\ ~Chunked => items = <<>> /\ stash = <<>>
    /\ Chunked => size > 0 /\ Len(items) < size
    /\ items # <<>> => pc = "poll" /\ stash = <<>> /\ ~ended
    /\ stash # <<>> => ~ended
    /\ ~Buffered => inProgress = <<>> /\ pc # "take"
    /\ Buffered => Len(delivered) + Len(inProgress) = Len(given)
    /\ pc # "idle" => len <= Len(inProgress)

\* What is known of the entries given, when it is.
Verdicts ==
    /\ Asks => given[Len(given)].verdict = "none" /\ (IsErr(Len(given)) <=> adaptor = "OrElse")
    /\ adaptor \notin Asking /\ ~Buffered => \A i \in DOMAIN given : Verdict(i) = "none"
    /\ Buffered => \A i \in DOMAIN given : Verdict(i) # "drop"
    /\ adaptor = "TrySkipWhile" =>
          IF done THEN left = 0 \/ SkippingEndedBefore(Len(given) + 1)
                  ELSE ~SkippingEndedBefore(Len(given) + 1)
    /\ \A i \in ToSet(items) : IsOk(i)
    /\ \A i \in ToSet(stash) : IsErr(i)

\* Inner streams: an entry is of an earlier one, none follows an error of its own.
StreamsRight ==
    /\ \A i \in DOMAIN given : given[i].of < i
    /\ next \in 0 .. Len(given)
    /\ next # 0 => \A i \in DOMAIN given : given[i].of = next => IsOk(i)
    /\ \A i, j \in DOMAIN given : i < j /\ IsErr(i) /\ given[i].of # 0 => given[j].of # given[i].of

\* The answers are made of what was delivered.
AnswersRight ==
    \A k \in DOMAIN out :
        /\ ToSet(out[k].items) \subseteq ToSet(delivered)
        /\ \A e \in ToSet(out[k].items) : out[k].ok = ComesOk(e)
        /\ Len(out[k].items) \in 1 .. IF Chunked /\ out[k].ok THEN size ELSE 1

\* Before the queue is asked the source has been, unless the limit forbids it.
QueueAsked ==
    pc = "take" /\ (size = 0 \/ inProgress = <<>>) /\ ~ended => "source" \in waiting \/ notified

\* The adaptor can answer nothing but "none" any more.
Over ==
    CASE adaptor = "TryUnfold" -> ~state /\ ~fut
      [] adaptor = "TryTakeWhile" -> done \/ (~fut /\ SourceTerminated)
      [] Chunked -> terminated
      [] Buffered -> terminated /\ inProgress = <<>>
      [] OTHER -> ~fut /\ next = 0 /\ SourceTerminated

OverKept ==
    /\ ret = "End" => Over
    /\ pc # "idle" /\ promise.over => Over
    /\ EndIsFinal

\* How many answers are to come, at least and at most, also while poll_next runs.
Least == IF Chunked THEN (left + Len(items)) \div size
         ELSE IF adaptor \in Exact THEN left + Pending ELSE 0
Most == IF Chunked THEN left + Len(stash) + (IF items = <<>> THEN 0 ELSE 1)
        ELSE IF adaptor = "TryTakeWhile" /\ done THEN 0 ELSE left + Pending

HintsKept ==
    /\ Len(out) + Least >= promise.lower
    /\ adaptor \in Bounded =>
          /\ Len(out) + Most <= MaxAnswers
          /\ \A m \in promise.upper : Len(out) + Most <= m
    /\ adaptor \notin Bounded => promise.upper = {}

\* The user's function was called once for each entry it is for, in their order.
CalledRight == Lists(called, Calls)

\* All of it: inductive.
AdaptorInv ==
    /\ TypeOK /\ Shape /\ BufferShape /\ Verdicts /\ StreamsRight
    /\ InOrder /\ CalledRight /\ AnswersRight
    /\ PendingHasWaker /\ QueueAsked
    /\ OverKept /\ HintsKept
-----------------------------------------------------------------------------
(* What an adaptor that treats one item at a time can do, whichever it is *)

\* The function is called with an entry of this kind.
Function(kind) ==
    \/ kind = "Ok" /\ adaptor \in {"MapOk", "InspectOk"}
    \/ kind = "Err" /\ adaptor \in {"MapErr", "InspectErr", "ErrInto"}

Awaits == Asks /\ AwaitsFuture

\* The future's result makes the item come out, ...
Decides(ok) ==
    /\ Asks
    /\ Finishes(IF ok THEN "keep" ELSE "err") /\ Emit(<<Len(given)>>, ok)
    /\ item' = <<>>
    /\ done' = IF adaptor = "TrySkipWhile" \/ (adaptor = "TryTakeWhile" /\ ~ok) THEN TRUE ELSE FALSE

\* ... or not, ...
Drops ==
    /\ Asks /\ adaptor \in {"TryFilter", "TryFilterMap", "TrySkipWhile"}
    /\ Finishes("drop") /\ GoOn
    /\ item' = <<>> /\ UNCHANGED done

\* ... or ends the stream.
Stops ==
    /\ Asks /\ adaptor = "TryTakeWhile"
    /\ Finishes("drop") /\ Answer("End")
    /\ item' = <<>> /\ done' = TRUE

\* A future is made for an entry.
Begins(kind) ==
    /\ adaptor \in Asking /\ ~fut /\ ~done /\ (kind = "Err" <=> adaptor = "OrElse")
    /\ Starts(kind)
    /\ item' = IF adaptor \in Keeping THEN <<Next1>> ELSE <<>>
    /\ UNCHANGED <<done, state>>

\* An entry comes out as it is, or mapped.
Passes(kind) ==
    /\ ~Asks
    /\ adaptor \in Asking => (kind = "Ok" <=> adaptor = "OrElse") \/ (adaptor = "TrySkipWhile" /\ done)
    /\ adaptor = "TryTakeWhile" => ~done
    /\ adaptor = "TryUnfold" => state \/ fut
    /\ PassItem(kind)
    /\ called' = IF Function(kind) THEN Append(called, Next1) ELSE called
    /\ fut' = FALSE /\ UNCHANGED item
    /\ done' = IF adaptor \in While THEN TRUE ELSE FALSE
    /\ state' = IF adaptor = "TryUnfold" /\ kind = "Ok" THEN TRUE ELSE FALSE

\* The source ends, or is pending.
Closes ==
    /\ ~Asks /\ PassEnd
    /\ fut' = FALSE /\ state' = FALSE /\ UNCHANGED <<called, item>>
    /\ done' = IF adaptor \in While THEN TRUE ELSE FALSE

Idles ==
    /\ ~Asks /\ (adaptor = "TryTakeWhile" => ~done)
    /\ adaptor = "TryUnfold" => state \/ fut
    /\ PassPending
    /\ fut' = IF adaptor = "TryUnfold" THEN TRUE ELSE FALSE
    /\ state' = FALSE /\ UNCHANGED <<called, item, done>>

\* There is nothing to ask any more.
Rests ==
    /\ (adaptor = "TryTakeWhile" /\ done) \/ (adaptor = "TryUnfold" /\ ~state /\ ~fut)
    /\ Answer("End") /\ UNCHANGED <<sourceVars, itemVars>>

Move ==
    \/ Awaits \/ Drops \/ Stops \/ Closes \/ Idles \/ Rests
    \/ \E ok \in BOOLEAN : Decides(ok)
    \/ \E kind \in {"Ok", "Err"} : Begins(kind) \/ Passes(kind)

\* What the source answers is passed on, and no variable of the adaptor changes.
LEMMA PassMoves ==
    ASSUME TypeOK, Shape, ~fut, adaptor \notin While \cup {"TryUnfold"}, NEW kind \in {"Ok", "Err"},
           adaptor \in Asking => (kind = "Ok" <=> adaptor = "OrElse"), ~Function(kind),
           PassItem(kind) \/ PassRest, UNCHANGED itemVars
    PROVE  Move
  <1> USE DEF TypeOK, Shape, Asks, While, itemVars
  <1>1. CASE PassItem(kind)
    <2>1. Passes(kind)
      BY <1>1 DEF Passes
    <2> QED BY <2>1 DEF Move
  <1>2. CASE PassEnd
    <2>1. Closes
      BY <1>2 DEF Closes
    <2> QED BY <2>1 DEF Move
  <1>3. CASE PassPending
    <2>1. Idles
      BY <1>3 DEF Idles
    <2> QED BY <2>1 DEF Move
  <1> QED BY <1>1, <1>2, <1>3 DEF PassRest

\* and_then and or_else are such adaptors, ...
LEMMA ThroughFutureMoves ==
    ASSUME TypeOK, Shape,
           NEW kind \in {"Ok", "Err"}, NEW other \in {"Ok", "Err"}, ThroughFuture(kind, other),
           adaptor \in {"AndThen", "OrElse"}, kind # other, other = "Ok" <=> adaptor = "OrElse"
    PROVE  Move
  <1> USE DEF TypeOK, Shape, Asks, Asking, Keeping, While
  <1>1. CASE fut /\ AwaitsFuture
    BY <1>1 DEF Move, Awaits
  <1>2. ASSUME fut, NEW ok \in BOOLEAN, Finishes(IF ok THEN "keep" ELSE "err"),
               Emit(<<Len(given)>>, ok), UNCHANGED <<item, done>>
        PROVE  Move
    <2>1. Decides(ok)
      BY <1>2 DEF Decides
    <2> QED BY <2>1 DEF Move
  <1>3. CASE ~fut /\ Starts(kind) /\ UNCHANGED <<item, done, state>>
    <2>1. Begins(kind)
      BY <1>3 DEF Begins
    <2> QED BY <2>1 DEF Move
  <1>4. CASE ~fut /\ (PassItem(other) \/ PassRest) /\ UNCHANGED itemVars
    <2>1. ~Function(other)
      BY DEF Function
    <2> QED BY <1>4, <2>1, PassMoves
  <1> QED BY <1>1, <1>2, <1>3, <1>4 DEF ThroughFuture

\* ... try_filter and try_filter_map, ...
LEMMA TryFilterMoves ==
    ASSUME TypeOK, Shape, TryFilter \/ TryFilterMap
    PROVE  Move
  <1> USE DEF TypeOK, Shape, Asks, Asking, Keeping, While
  <1>1. CASE fut /\ AwaitsFuture
    BY <1>1 DEF Move, Awaits, TryFilter, TryFilterMap
  <1>2. ASSUME fut, Finishes("keep"), item' = <<>>, UNCHANGED done, Emit(<<Len(given)>>, TRUE) PROVE Move
    <2>1. Decides(TRUE)
      BY <1>2 DEF Decides, TryFilter, TryFilterMap
    <2> QED BY <2>1 DEF Move
  <1>3. ASSUME fut, Finishes("err"), item' = <<>>, UNCHANGED done, Emit(<<Len(given)>>, FALSE) PROVE Move
    <2>1. Decides(FALSE)
      BY <1>3 DEF Decides, TryFilter, TryFilterMap
    <2> QED BY <2>1 DEF Move
  <1>4. ASSUME fut, Finishes("drop"), GoOn, item' = <<>>, UNCHANGED done PROVE Move
    BY <1>4 DEF Move, Drops, TryFilter, TryFilterMap
  <1>5. ASSUME ~fut, Starts("Ok"), item' = (IF adaptor \in Keeping THEN <<Next1>> ELSE <<>>),
               UNCHANGED <<done, state>>
        PROVE  Move
    <2>1. Begins("Ok")
      BY <1>5 DEF Begins, TryFilter, TryFilterMap
    <2> QED BY <2>1 DEF Move
  <1>6. CASE ~fut /\ (PassItem("Err") \/ PassRest) /\ UNCHANGED itemVars
    <2>1. ~Function("Err") /\ adaptor \in {"TryFilter", "TryFilterMap"}
      BY DEF Function, TryFilter, TryFilterMap
    <2> QED BY <1>6, <2>1, PassMoves
  <1>7. CASE TryFilter
    <2>1. fut => EmitPending = Emit(<<Len(given)>>, TRUE)
      BY <1>7 DEF TryFilter, EmitPending
    <2> QED BY <1>1, <1>2, <1>4, <1>5, <1>6, <1>7, <2>1 DEF TryFilter
  <1>8. CASE TryFilterMap
    BY <1>1, <1>2, <1>3, <1>4, <1>5, <1>6, <1>8 DEF TryFilterMap
  <1> QED BY <1>7, <1>8

\* ... try_take_while and try_skip_while as long as they ask, ...
LEMMA AskFirstMoves ==
    ASSUME TypeOK, Shape, adaptor \in While, ~done,
           AskFirst(IF adaptor = "TrySkipWhile" THEN "keep" ELSE "drop")
    PROVE  Move
  <1> USE DEF TypeOK, Shape, Asks, Asking, Keeping, While
  <1>1. CASE fut /\ AwaitsFuture
    BY <1>1 DEF Move, Awaits
  <1>2. CASE fut /\ Finishes("err") /\ item' = <<>> /\ done' = TRUE /\ Emit(<<Len(given)>>, FALSE)
    <2>1. Decides(FALSE)
      BY <1>2 DEF Decides
    <2> QED BY <2>1 DEF Move
  <1>3. CASE /\ fut /\ Finishes("keep") /\ item' = <<>> /\ EmitPending
             /\ done' = ((IF adaptor = "TrySkipWhile" THEN "keep" ELSE "drop") = "keep")
    <2>1. Emit(<<Len(given)>>, TRUE)
      BY <1>3 DEF EmitPending
    <2>2. Decides(TRUE)
      BY <1>3, <2>1 DEF Decides
    <2> QED BY <2>2 DEF Move
  <1>4. CASE ~fut /\ Starts("Ok") /\ item' = <<Next1>> /\ UNCHANGED <<done, state>>
    <2>1. Begins("Ok")
      BY <1>4 DEF Begins
    <2> QED BY <2>1 DEF Move
  <1>5. CASE ~fut /\ PassItem("Err") /\ done' = TRUE /\ UNCHANGED <<called, fut, item, state>>
    <2>1. Passes("Err")
      BY <1>5 DEF Passes, Function
    <2> QED BY <2>1 DEF Move
  <1>6. CASE ~fut /\ PassEnd /\ done' = TRUE /\ UNCHANGED <<called, fut, item, state>>
    <2>1. Closes
      BY <1>6 DEF Closes
    <2> QED BY <2>1 DEF Move
  <1>7. CASE ~fut /\ PassPending /\ UNCHANGED itemVars
    <2>1. Idles
      BY <1>7 DEF Idles, itemVars
    <2> QED BY <2>1 DEF Move
  <1> QED BY <1>1, <1>2, <1>3, <1>4, <1>5, <1>6, <1>7 DEF AskFirst

\* ... and afterwards, ...
LEMMA WhileMoves ==
    ASSUME TypeOK, Shape, TryTakeWhile \/ TrySkipWhile
    PROVE  Move
  <1> USE DEF TypeOK, Shape, Asks, Asking, Keeping, While
  <1>1. CASE ~done /\ AskFirst(IF adaptor = "TrySkipWhile" THEN "keep" ELSE "drop")
    <2>1. adaptor \in While
      BY DEF TryTakeWhile, TrySkipWhile
    <2> QED BY <1>1, <2>1, AskFirstMoves
  <1>2. CASE TryTakeWhile /\ done /\ Answer("End") /\ UNCHANGED <<sourceVars, itemVars>>
    BY <1>2 DEF Move, Rests, TryTakeWhile
  <1>3. CASE TryTakeWhile /\ fut /\ Finishes("drop") /\ item' = <<>> /\ done' = TRUE /\ Answer("End")
    BY <1>3 DEF Move, Stops, TryTakeWhile
  <1>4. CASE TrySkipWhile /\ done /\ PassOn /\ UNCHANGED itemVars
    <2> USE <1>4 DEF TrySkipWhile, itemVars
    <2>1. ASSUME NEW kind \in {"Ok", "Err"}, PassItem(kind) PROVE Move
      <3>1. Passes(kind)
        BY <2>1 DEF Passes, Function
      <3> QED BY <3>1 DEF Move
    <2>2. CASE PassEnd
      <3>1. Closes
        BY <2>2 DEF Closes
      <3> QED BY <3>1 DEF Move
    <2>3. CASE PassPending
      <3>1. Idles
        BY <2>3 DEF Idles
      <3> QED BY <3>1 DEF Move
    <2> QED BY <2>1, <2>2, <2>3 DEF PassOn, PassRest
  <1>5. CASE TrySkipWhile /\ fut /\ Finishes("drop") /\ item' = <<>> /\ GoOn /\ UNCHANGED done
    BY <1>5 DEF Move, Drops, TrySkipWhile
  <1>6. CASE TryTakeWhile
    BY <1>1, <1>2, <1>3, <1>6 DEF TryTakeWhile
  <1>7. CASE TrySkipWhile
    BY <1>1, <1>4, <1>5, <1>7 DEF TrySkipWhile
  <1> QED BY <1>6, <1>7

\* ... try_unfold, ...
LEMMA TryUnfoldMoves ==
    ASSUME TypeOK, Shape, TryUnfold
    PROVE  Move
  <1> USE DEF TypeOK, Shape, Asks, Asking, Keeping, While, TryUnfold
  <1>1. CASE ~state /\ ~fut /\ Answer("End") /\ UNCHANGED <<sourceVars, itemVars>>
    BY <1>1 DEF Move, Rests
  <1>2. CASE (state \/ fut) /\ UNCHANGED <<called, item, done>>
    <2>1. CASE PassItem("Ok") /\ state' = TRUE /\ fut' = FALSE
      <3>1. Passes("Ok")
        BY <1>2, <2>1 DEF Passes, Function
      <3> QED BY <3>1 DEF Move
    <2>2. CASE PassItem("Err") /\ state' = FALSE /\ fut' = FALSE
      <3>1. Passes("Err")
        BY <1>2, <2>2 DEF Passes, Function
      <3> QED BY <3>1 DEF Move
    <2>3. CASE PassEnd /\ state' = FALSE /\ fut' = FALSE
      <3>1. Closes
        BY <1>2, <2>3 DEF Closes
      <3> QED BY <3>1 DEF Move
    <2>4. CASE PassPending /\ state' = FALSE /\ fut' = TRUE
      <3>1. Idles
        BY <1>2, <2>4 DEF Idles
      <3> QED BY <3>1 DEF Move
    <2>5. ~(~state /\ ~fut)
      BY <1>2
    <2> QED BY <2>1, <2>2, <2>3, <2>4, <2>5
  <1> QED BY <1>1, <1>2

\* ... the mapping adaptors, ...
LEMMA MappedMoves ==
    ASSUME TypeOK, Shape, NEW kind \in {"Ok", "Err"}, Mapped(kind),
           adaptor \in {"MapOk", "MapErr", "ErrInto", "InspectOk", "InspectErr"},
           \A k \in {"Ok", "Err"} : Function(k) <=> k = kind
    PROVE  Move
  <1> USE DEF TypeOK, Shape, Asks, Asking, Keeping, While
  <1>1. ASSUME NEW k \in {"Ok", "Err"}, PassItem(k),
               called' = IF k = kind THEN Append(called, Next1) ELSE called,
               UNCHANGED <<fut, item, done, state>>
        PROVE  Move
    <2>1. Passes(k)
      BY <1>1 DEF Passes
    <2> QED BY <2>1 DEF Move
  <1>2. CASE PassEnd /\ UNCHANGED itemVars
    <2>1. Closes
      BY <1>2 DEF Closes, itemVars
    <2> QED BY <2>1 DEF Move
  <1>3. CASE PassPending /\ UNCHANGED itemVars
    <2>1. Idles
      BY <1>3 DEF Idles, itemVars
    <2> QED BY <2>1 DEF Move
  <1> QED BY <1>1, <1>2, <1>3 DEF Mapped, PassRest

\* ... so every step of theirs is a move.
LEMMA ItemMoves ==
    ASSUME TypeOK, Shape, ItemStep
    PROVE  Move
  <1>1. CASE AndThen
    BY <1>1, ThroughFutureMoves DEF AndThen
  <1>2. CASE OrElse
    BY <1>2, ThroughFutureMoves DEF OrElse
  <1>3. CASE TryFilter \/ TryFilterMap
    BY <1>3, TryFilterMoves
  <1>4. CASE TryTakeWhile \/ TrySkipWhile
    BY <1>4, WhileMoves
  <1>5. CASE TryUnfold
    BY <1>5, TryUnfoldMoves
  <1>6. CASE MapOk \/ InspectOk
    <2>1. /\ \A k \in {"Ok", "Err"} : Function(k) <=> k = "Ok"
          /\ Mapped("Ok")
          /\ adaptor \in {"MapOk", "MapErr", "ErrInto", "InspectOk", "InspectErr"}
      BY <1>6 DEF Function, MapOk, InspectOk
    <2> QED BY <2>1, MappedMoves
  <1>7. CASE MapErr \/ ErrInto \/ InspectErr
    <2>1. /\ \A k \in {"Ok", "Err"} : Function(k) <=> k = "Err"
          /\ Mapped("Err")
          /\ adaptor \in {"MapOk", "MapErr", "ErrInto", "InspectOk", "InspectErr"}
      BY <1>7 DEF Function, MapErr, ErrInto, InspectErr
    <2> QED BY <2>1, MappedMoves
  <1>8. CASE IntoStream \/ TryNext
    <2>1. /\ PassOn /\ UNCHANGED itemVars /\ ~fut
          /\ adaptor \notin Asking \cup While \cup {"TryUnfold"}
          /\ \A k \in {"Ok", "Err"} : ~Function(k)
      BY <1>8 DEF IntoStream, TryNext, Function, Shape, Asking, While
    <2> QED BY <2>1, PassMoves DEF PassOn
  <1> QED BY <1>1, <1>2, <1>3, <1>4, <1>5, <1>6, <1>7, <1>8 DEF ItemStep

-----------------------------------------------------------------------------
(* The steps *)

\* What the steps of the four kinds of adaptors leave alone.
ItemFrame ==
    /\ pc = "poll" /\ ~Chunked /\ ~Buffered /\ adaptor # "TryFlatten"
    /\ UNCHANGED <<setup, notified, promise, chunkVars, bufferVars, next>>
ChunkFrame ==
    /\ pc = "poll" /\ Chunked
    /\ UNCHANGED <<setup, notified, promise, itemVars, bufferVars, next>>
FillFrame ==
    /\ pc = "poll" /\ Buffered
    /\ UNCHANGED <<setup, notified, promise, itemVars, chunkVars, next>>
TakeFrame ==
    /\ pc = "take" /\ Buffered
    /\ UNCHANGED <<setup, promise, itemVars, chunkVars, next>>
FlattenFrame ==
    /\ pc = "poll" /\ adaptor = "TryFlatten"
    /\ UNCHANGED <<setup, notified, promise, itemVars, chunkVars, bufferVars>>

\* What a promise can be.
Promises == [lower : Nat, upper : SUBSET (0 .. MaxAnswers), over : BOOLEAN]

Completes(i) == Complete(i) /\ UNCHANGED <<itemVars, chunkVars, next, promise>>

\* Every step is one of these.
LEMMA StepCases ==
    ASSUME TypeOK, Shape, [Next]_vars
    PROVE  \/ ItemFrame /\ Move
           \/ ChunkFrame /\ (TakeStash \/ (stash = <<>> /\ (Collect \/ OnError \/ OnEnd \/ OnPending)))
           \/ FillFrame /\ (FillOk \/ FillErr \/ FillStops)
           \/ TakeFrame /\ (TakePending \/ TakeNone \/ \E k \in DOMAIN inProgress : TakeItem(k))
           \/ FlattenFrame /\ (InnerItem \/ InnerError \/ InnerEnd \/ InnerPending \/ OuterStream \/ OuterRest)
           \/ PollNext
           \/ \E party \in Parties : PartyWakes(party)
           \/ \E i \in DOMAIN given : Completes(i)
           \/ UNCHANGED vars
  <1>1. CASE Step /\ ItemPart
    <2>1. Move
      BY <1>1, ItemMoves DEF ItemPart
    <2>2. ItemFrame
      BY <1>1 DEF Step, ItemPart, ItemStep, ItemFrame, Chunked, Buffered, AndThen, OrElse, TryFilter,
         TryFilterMap, TryTakeWhile, TrySkipWhile, TryUnfold, MapOk, MapErr, ErrInto, InspectOk,
         InspectErr, IntoStream, TryNext, setup, chunkVars, bufferVars
    <2> QED BY <2>1, <2>2
  <1>2. CASE Step /\ ChunkPart
    BY <1>2 DEF Step, ChunkPart, ChunkStep, ChunkFrame, TryChunks, TryReadyChunks, Turn, Chunked
  <1>3. CASE Step /\ BufferPart
    <2>1. UNCHANGED <<setup, promise, itemVars, chunkVars, next>> /\ Buffered
      BY <1>3 DEF Step, BufferPart, BufferStep
    <2>2. CASE pc = "poll" /\ (FillOk \/ FillErr \/ FillStops) /\ UNCHANGED notified
      BY <2>1, <2>2 DEF FillFrame
    <2>3. CASE pc = "take" /\ (TakePending \/ TakeNone \/ \E k \in DOMAIN inProgress : TakeItem(k))
      BY <2>1, <2>3 DEF TakeFrame
    <2> QED BY <1>3, <2>2, <2>3 DEF BufferPart, BufferStep
  <1>4. CASE Step /\ FlattenPart
    BY <1>4 DEF Step, FlattenPart, FlattenStep, FlattenFrame
  <1>5. CASE FutureCompletes
    BY <1>5 DEF FutureCompletes, Completes
  <1>6. CASE PartyWakes("source") \/ PartyWakes("future") \/ PartyWakes("inner")
    BY <1>6 DEF Parties
  <1> QED BY <1>1, <1>2, <1>3, <1>4, <1>5, <1>6 DEF Next, Step

-----------------------------------------------------------------------------
(* Answers *)

\* One answer more.
LEMMA EmitFacts ==
    ASSUME out \in Seq([items : Seq(1 .. MaxAnswers), ok : BOOLEAN]), delivered \in Seq(1 .. MaxAnswers),
           NEW es \in Seq(1 .. MaxAnswers), NEW ok \in BOOLEAN, Emit(es, ok)
    PROVE  /\ out' \in Seq([items : Seq(1 .. MaxAnswers), ok : BOOLEAN])
           /\ delivered' \in Seq(1 .. MaxAnswers)
           /\ Len(out') = Len(out) + 1 /\ Len(out) \in Nat
           /\ DOMAIN out' = DOMAIN out \cup {Len(out) + 1} /\ DOMAIN out = 1 .. Len(out)
           /\ \A k \in DOMAIN out : out'[k] = out[k]
           /\ out'[Len(out) + 1] = [items |-> es, ok |-> ok]
           /\ Len(delivered') = Len(delivered) + Len(es)
  <1>1. /\ out' = Append(out, [items |-> es, ok |-> ok])
        /\ delivered' = delivered \o es
        /\ [items |-> es, ok |-> ok] \in [items : Seq(1 .. MaxAnswers), ok : BOOLEAN]
    BY DEF Emit
  <1>2. /\ delivered' \in Seq(1 .. MaxAnswers)
        /\ Len(delivered') = Len(delivered) + Len(es)
    BY <1>1
  <1>3. ASSUME NEW S, out \in Seq(S), NEW e \in S, out' = Append(out, e)
        PROVE  /\ out' \in Seq(S)
               /\ Len(out') = Len(out) + 1 /\ Len(out) \in Nat
               /\ DOMAIN out' = DOMAIN out \cup {Len(out) + 1} /\ DOMAIN out = 1 .. Len(out)
               /\ \A k \in DOMAIN out : out'[k] = out[k]
               /\ out'[Len(out) + 1] = e
    BY <1>3
  <1> QED BY <1>1, <1>2, <1>3

\* A verdict is all that a buffered future changes too, and it never drops its item.
LEMMA CompleteJudges ==
    ASSUME SourceTypeOK, NEW i \in DOMAIN given, Complete(i)
    PROVE  \E verdict \in {"keep", "err"} : Judges(i, verdict)
  <1>1. UNCHANGED <<left, ended, terminated, waiting>>
    BY DEF Complete
  <1>2. Len(given) \in Nat
    BY DEF SourceTypeOK
  <1>3. PICK verdict \in {"keep", "err"} : given' = [given EXCEPT ![i].verdict = verdict]
    BY DEF Complete
  <1>4. Judges(i, verdict)
    BY <1>1, <1>2, <1>3, VerdictFacts DEF Judges
  <1> QED BY <1>4

\* The end is seen only when nothing is left, and blows the fuse where there is one.
LEMMA EndsFacts ==
    ASSUME SourceTypeOK, Shape, Ends
    PROVE  /\ ended' /\ left = 0 /\ (terminated' <=> adaptor \in Fused)
           /\ UNCHANGED <<left, given, waiting>>
  BY DEF Ends, Shape, sourceVars, SourceTypeOK

-----------------------------------------------------------------------------
(* Types and shapes *)

\* The source and the consumer.
LEMMA SourceTypeStep ==
    ASSUME TypeOK, Shape, StreamsRight, [Next]_vars
    PROVE  SourceTypeOK'
  <1> USE SourceAssumption DEF Gives, PassItem, PassEnd, PassPending, PassRest, Starts, Finishes,
          AwaitsFuture, FuturePends, Pends
  <1>0. /\ SourceTypeOK /\ notified \in BOOLEAN
        /\ next \in 0 .. MaxAnswers
        /\ Asks => Len(given) > 0
    BY DEF TypeOK, SourceTypeOK, Shape
  <1>1. CASE ItemFrame /\ Awaits
    BY <1>0, <1>1, WaitsType DEF ItemFrame, Awaits, Parties
  <1>2. ASSUME NEW ok \in BOOLEAN, ItemFrame, Decides(ok)
        PROVE  SourceTypeOK'
    BY <1>0, <1>2, ResolvesType DEF ItemFrame, Decides, Asks
  <1>3. CASE ItemFrame /\ Drops
    BY <1>0, <1>3, ResolvesType DEF ItemFrame, Drops, Asks
  <1>4. CASE ItemFrame /\ Stops
    BY <1>0, <1>4, ResolvesType DEF ItemFrame, Stops, Asks
  <1>5. ASSUME NEW kind \in {"Ok", "Err"}, ItemFrame, Begins(kind)
        PROVE  SourceTypeOK'
    BY <1>0, <1>5, GivenType DEF ItemFrame, Begins
  <1>6. ASSUME NEW kind \in {"Ok", "Err"}, ItemFrame, Passes(kind)
        PROVE  SourceTypeOK'
    BY <1>0, <1>6, GivenType DEF ItemFrame, Passes
  <1>7. CASE ItemFrame /\ Closes
    BY <1>0, <1>7, EndsType DEF ItemFrame, Closes
  <1>8. CASE ItemFrame /\ Idles
    BY <1>0, <1>8, WaitsType DEF ItemFrame, Idles, Parties
  <1>9. CASE ItemFrame /\ Rests
    BY <1>0, <1>9, SameType DEF ItemFrame, Rests
  <1>10. CASE ChunkFrame /\ TakeStash
    BY <1>0, <1>10, SameType DEF ChunkFrame, TakeStash
  <1>11. CASE ChunkFrame /\ stash = <<>> /\ Collect
    BY <1>0, <1>11, GivenType DEF ChunkFrame, Collect
  <1>12. CASE ChunkFrame /\ stash = <<>> /\ OnError
    BY <1>0, <1>12, GivenType DEF ChunkFrame, OnError
  <1>13. CASE ChunkFrame /\ stash = <<>> /\ OnEnd
    BY <1>0, <1>13, EndsType DEF ChunkFrame, OnEnd
  <1>14. CASE ChunkFrame /\ stash = <<>> /\ OnPending
    BY <1>0, <1>14, WaitsType DEF ChunkFrame, OnPending, Parties
  <1>15. CASE FillFrame /\ FillOk
    BY <1>0, <1>15, GivenType DEF FillFrame, FillOk
  <1>16. CASE FillFrame /\ FillErr
    BY <1>0, <1>16, GivenType DEF FillFrame, FillErr
  <1>17. CASE FillFrame /\ FillStops
    BY <1>0, <1>17, EndsType, WaitsType, SameType DEF FillFrame, FillStops, Parties
  <1>18. CASE TakeFrame /\ TakePending
    BY <1>0, <1>18, SameType DEF TakeFrame, TakePending
  <1>19. CASE TakeFrame /\ TakeNone
    BY <1>0, <1>19, SameType DEF TakeFrame, TakeNone
  <1>20. ASSUME NEW k \in DOMAIN inProgress, TakeFrame, TakeItem(k)
        PROVE  SourceTypeOK'
    BY <1>0, <1>20, SameType DEF TakeFrame, TakeItem
  <1>21. CASE FlattenFrame /\ InnerItem
    BY <1>0, <1>21, GivenType DEF FlattenFrame, InnerItem, InnerGives
  <1>22. CASE FlattenFrame /\ InnerError
    BY <1>0, <1>22, GivenType DEF FlattenFrame, InnerError, InnerGives
  <1>23. CASE FlattenFrame /\ InnerEnd
    BY <1>0, <1>23, SameType DEF FlattenFrame, InnerEnd
  <1>24. CASE FlattenFrame /\ InnerPending
    BY <1>0, <1>24, WaitsType DEF FlattenFrame, InnerPending, Parties
  <1>25. CASE FlattenFrame /\ OuterStream
    BY <1>0, <1>25, GivenType DEF FlattenFrame, OuterStream
  <1>26. CASE FlattenFrame /\ OuterRest
    BY <1>0, <1>26, GivenType, EndsType, WaitsType DEF FlattenFrame, OuterRest, Parties
  <1>27. CASE PollNext
    BY <1>0, <1>27, SameType DEF PollNext, CallPoll
  <1>28. ASSUME NEW party \in Parties, PartyWakes(party)
        PROVE  SourceTypeOK'
    BY <1>0, <1>28 DEF PartyWakes, Wakes, SourceTypeOK, setup
  <1>29. ASSUME NEW i \in DOMAIN given, Completes(i)
        PROVE  SourceTypeOK'
    <2>1. PICK verdict \in {"keep", "err"} : given' = [given EXCEPT ![i].verdict = verdict]
      BY <1>0, <1>29 DEF Completes, Complete
    <2>2. given' \in Seq(Answers) /\ Len(given') = Len(given)
      BY <1>0, <2>1, VerdictFacts
    <2>3. notified' \in BOOLEAN /\ UNCHANGED <<setup, left, ended, terminated, waiting>>
      BY <1>0, <1>29 DEF Completes, Complete, SourceTypeOK
    <2> QED BY <1>0, <2>2, <2>3 DEF SourceTypeOK, Answers, setup
  <1>30. CASE UNCHANGED vars
    BY <1>0, <1>30, SameType DEF vars
  <1> QED
    BY <1>1, <1>2, <1>3, <1>4, <1>5, <1>6, <1>7, <1>8, <1>9, <1>10, <1>11, <1>12,
       <1>13, <1>14, <1>15, <1>16, <1>17, <1>18, <1>19, <1>20, <1>21, <1>22, <1>23,
       <1>24, <1>25, <1>26, <1>27, <1>28, <1>29, <1>30, StepCases DEF Move

AnswersTyped ==
    /\ pc \in {"idle", "poll", "take"} /\ ret \in {"None", "Item", "Pending", "End"}
    /\ out \in Seq([items : Seq(1 .. MaxAnswers), ok : BOOLEAN])
    /\ delivered \in Seq(1 .. MaxAnswers)

\* Numbers of entries.
LEMMA Indices ==
    ASSUME TypeOK, Shape
    PROVE  /\ Len(given) \in 0 .. MaxAnswers
           /\ \A k \in DOMAIN inProgress : inProgress[k] \in 1 .. MaxAnswers
           /\ left > 0 => Next1 \in 1 .. MaxAnswers /\ Len(given) + 1 \in 1 .. MaxAnswers
           /\ Asks => Len(given) \in 1 .. MaxAnswers
  <1>1. inProgress \in Seq(1 .. MaxAnswers)
    BY DEF TypeOK
  <1>2. \A k \in DOMAIN inProgress : inProgress[k] \in 1 .. MaxAnswers
    BY <1>1, Element
  <1> QED BY <1>2, SourceAssumption DEF TypeOK, SourceTypeOK, Shape, Next1

\* The answers.
LEMMA AnswersTypeStep ==
    ASSUME TypeOK, Shape, [Next]_vars
    PROVE  AnswersTyped'
  <1> USE DEF AnswersTyped
  <1>0. /\ AnswersTyped
        /\ items \in Seq(1 .. MaxAnswers) /\ stash \in Seq(1 .. MaxAnswers)
        /\ inProgress \in Seq(1 .. MaxAnswers)
        /\ left > 0 => Next1 \in 1 .. MaxAnswers
        /\ Asks => Len(given) \in 1 .. MaxAnswers
        /\ \A k \in DOMAIN inProgress : inProgress[k] \in 1 .. MaxAnswers
    BY Indices DEF TypeOK
  <1>1. CASE ItemFrame /\ Awaits
    BY <1>0, <1>1 DEF ItemFrame, Awaits, AwaitsFuture, Answer, Return, outVars
  <1>2. ASSUME NEW ok \in BOOLEAN, ItemFrame, Decides(ok)
        PROVE  AnswersTyped'
    BY <1>0, <1>2, EmitFacts DEF ItemFrame, Decides, Return, Emit
  <1>3. CASE ItemFrame /\ Drops
    BY <1>0, <1>3 DEF ItemFrame, Drops, Answer, GoOn, Return, Loop, outVars
  <1>4. CASE ItemFrame /\ Stops
    BY <1>0, <1>4 DEF ItemFrame, Stops, Answer, GoOn, Return, Loop, outVars
  <1>5. ASSUME NEW kind \in {"Ok", "Err"}, ItemFrame, Begins(kind)
        PROVE  AnswersTyped'
    BY <1>0, <1>5 DEF ItemFrame, Begins, Starts, GoOn, Loop, outVars
  <1>6. ASSUME NEW kind \in {"Ok", "Err"}, ItemFrame, Passes(kind)
        PROVE  AnswersTyped'
    BY <1>0, <1>6, EmitFacts DEF ItemFrame, Passes, PassItem, Gives, Given, Return, Emit
  <1>7. CASE ItemFrame /\ Closes
    BY <1>0, <1>7 DEF ItemFrame, Closes, PassEnd, Answer, Return, outVars
  <1>8. CASE ItemFrame /\ Idles
    BY <1>0, <1>8 DEF ItemFrame, Idles, PassPending, Answer, Return, outVars
  <1>9. CASE ItemFrame /\ Rests
    BY <1>0, <1>9 DEF ItemFrame, Rests, Answer, GoOn, Return, Loop, outVars
  <1>10. CASE ChunkFrame /\ TakeStash
    BY <1>0, <1>10, EmitFacts DEF ChunkFrame, TakeStash, Return, Emit
  <1>11. CASE ChunkFrame /\ stash = <<>> /\ Collect
    <2>1. Append(items, Next1) \in Seq(1 .. MaxAnswers)
      BY <1>0, <1>11 DEF Collect, Gives, Given
    <2>2. CASE Emit(Append(items, Next1), TRUE)
      BY <1>0, <2>1, <2>2, EmitFacts DEF Emit, Return
    <2>3. CASE GoOn
      BY <1>0, <2>3 DEF GoOn, Loop, outVars
    <2> QED BY <1>0, <1>11, <2>2, <2>3 DEF Collect
  <1>12. CASE ChunkFrame /\ stash = <<>> /\ OnError
    <2>1. CASE items = <<>> /\ Emit(<<Next1>>, FALSE)
      BY <1>0, <1>12, <2>1, EmitFacts DEF OnError, Gives, Given, Emit, Return
    <2>2. CASE Flush
      BY <1>0, <2>2, EmitFacts DEF Flush, Emit, Return
    <2> QED BY <1>0, <1>12, <2>1, <2>2 DEF OnError
  <1>13. CASE ChunkFrame /\ stash = <<>> /\ OnEnd
    BY <1>0, <1>13, EmitFacts DEF ChunkFrame, OnEnd, Flush, Emit, Answer, Return, outVars
  <1>14. CASE ChunkFrame /\ stash = <<>> /\ OnPending
    BY <1>0, <1>14, EmitFacts DEF ChunkFrame, OnPending, Flush, Emit, Answer, Return, outVars
  <1>15. CASE FillFrame /\ FillOk
    BY <1>0, <1>15 DEF FillFrame, FillOk, Answer, GoOn, Return, Loop, outVars
  <1>16. CASE FillFrame /\ FillErr
    BY <1>0, <1>16, EmitFacts DEF FillFrame, FillErr, Gives, Given, Emit, Return
  <1>17. CASE FillFrame /\ FillStops
    BY <1>0, <1>17 DEF FillFrame, FillStops, ToTake, outVars
  <1>18. CASE TakeFrame /\ TakePending
    BY <1>0, <1>18 DEF TakeFrame, TakePending, Answer, GoOn, Return, Loop, outVars
  <1>19. CASE TakeFrame /\ TakeNone
    BY <1>0, <1>19 DEF TakeFrame, TakeNone, Answer, GoOn, Return, Loop, outVars
  <1>20. ASSUME NEW k \in DOMAIN inProgress, TakeFrame, TakeItem(k)
        PROVE  AnswersTyped'
    <2>0. inProgress[k] \in 1 .. MaxAnswers
      BY <1>0
    <2>1. <<inProgress[k]>> \in Seq(1 .. MaxAnswers)
      BY <1>0, <2>0
    <2>2. PICK ok \in BOOLEAN : Emit(<<inProgress[k]>>, ok)
      BY <1>0, <1>20 DEF TakeItem
    <2> QED BY <1>0, <2>1, <2>2, EmitFacts DEF Emit, Return
  <1>21. CASE FlattenFrame /\ InnerItem
    BY <1>0, <1>21, EmitFacts DEF FlattenFrame, InnerItem, InnerGives, Given, Emit, Return
  <1>22. CASE FlattenFrame /\ InnerError
    BY <1>0, <1>22, EmitFacts DEF FlattenFrame, InnerError, InnerGives, Given, Emit, Return
  <1>23. CASE FlattenFrame /\ InnerEnd
    BY <1>0, <1>23 DEF FlattenFrame, InnerEnd, Answer, GoOn, Return, Loop, outVars
  <1>24. CASE FlattenFrame /\ InnerPending
    BY <1>0, <1>24 DEF FlattenFrame, InnerPending, Answer, GoOn, Return, Loop, outVars
  <1>25. CASE FlattenFrame /\ OuterStream
    BY <1>0, <1>25 DEF FlattenFrame, OuterStream, Answer, GoOn, Return, Loop, outVars
  <1>26. CASE FlattenFrame /\ OuterRest
    <2>1. CASE PassItem("Err")
      BY <1>0, <2>1, EmitFacts DEF PassItem, Gives, Given, Emit, Return
    <2>2. CASE PassRest
      BY <1>0, <2>2 DEF PassRest, PassEnd, PassPending, Answer, Return, outVars
    <2> QED BY <1>0, <1>26, <2>1, <2>2 DEF OuterRest
  <1>27. CASE PollNext
    BY <1>0, <1>27 DEF PollNext, CallPoll, outVars
  <1>28. ASSUME NEW party \in Parties, PartyWakes(party)
        PROVE  AnswersTyped'
    BY <1>0, <1>28 DEF PartyWakes, Wakes, outVars
  <1>29. ASSUME NEW i \in DOMAIN given, Completes(i)
        PROVE  AnswersTyped'
    BY <1>0, <1>29 DEF Completes, Complete, outVars
  <1>30. CASE UNCHANGED vars
    BY <1>0, <1>30 DEF vars, outVars
  <1> QED
    BY <1>1, <1>2, <1>3, <1>4, <1>5, <1>6, <1>7, <1>8, <1>9, <1>10, <1>11, <1>12,
       <1>13, <1>14, <1>15, <1>16, <1>17, <1>18, <1>19, <1>20, <1>21, <1>22, <1>23,
       <1>24, <1>25, <1>26, <1>27, <1>28, <1>29, <1>30, StepCases DEF Move

ItemTyped ==
    /\ called \in Seq(1 .. MaxAnswers)
    /\ fut \in BOOLEAN /\ done \in BOOLEAN /\ state \in BOOLEAN
    /\ item \in Seq(1 .. MaxAnswers) /\ Len(item) <= 1

\* The variables of the adaptors that treat one item at a time.
LEMMA ItemTypeStep ==
    ASSUME TypeOK, Shape, [Next]_vars
    PROVE  ItemTyped'
  <1> USE SourceAssumption DEF ItemTyped
  <1>0. /\ ItemTyped
        /\ left > 0 => Next1 \in 1 .. MaxAnswers
        /\ <<>> \in Seq(1 .. MaxAnswers) /\ Len(<<>>) = 0
    BY Indices, Empty DEF TypeOK
  <1>1. CASE ItemFrame /\ Awaits
    BY <1>0, <1>1 DEF ItemFrame, Awaits, AwaitsFuture, itemVars
  <1>2. ASSUME NEW ok \in BOOLEAN, ItemFrame, Decides(ok)
        PROVE  ItemTyped'
    <2>1. item' \in Seq(1 .. MaxAnswers) /\ Len(item') <= 1
      BY <1>0, <1>2 DEF Decides
    <2> QED BY <1>0, <1>2, <2>1 DEF Decides, Finishes
  <1>3. CASE ItemFrame /\ Drops
    <2>1. item' \in Seq(1 .. MaxAnswers) /\ Len(item') <= 1
      BY <1>0, <1>3 DEF Drops
    <2> QED BY <1>0, <1>3, <2>1 DEF Drops, Finishes
  <1>4. CASE ItemFrame /\ Stops
    <2>1. item' \in Seq(1 .. MaxAnswers) /\ Len(item') <= 1
      BY <1>0, <1>4 DEF Stops
    <2> QED BY <1>0, <1>4, <2>1 DEF Stops, Finishes
  <1>5. ASSUME NEW kind \in {"Ok", "Err"}, ItemFrame, Begins(kind)
        PROVE  ItemTyped'
    <2>1. Next1 \in 1 .. MaxAnswers /\ called' = Append(called, Next1) /\ fut' = TRUE
      BY <1>0, <1>5 DEF Begins, Starts, Gives, Given
    <2>2. called' \in Seq(1 .. MaxAnswers)
      BY <1>0, <2>1, Glued, Appends
    <2>4. item' \in Seq(1 .. MaxAnswers) /\ Len(item') <= 1
      <3>1. item' = <<>> \/ item' = <<Next1>>
        BY <1>0, <1>5 DEF Begins
      <3> QED BY <1>0, <2>1, <3>1, AtMostOne
    <2> QED BY <1>0, <1>5, <2>1, <2>2, <2>4 DEF Begins
  <1>6. ASSUME NEW kind \in {"Ok", "Err"}, ItemFrame, Passes(kind)
        PROVE  ItemTyped'
    <2>1. Next1 \in 1 .. MaxAnswers
      BY <1>0, <1>6 DEF Passes, PassItem, Gives, Given
    <2>2. Append(called, Next1) \in Seq(1 .. MaxAnswers)
      BY <1>0, <2>1, Appends
    <2> QED BY <1>0, <1>6, <2>2 DEF Passes
  <1>7. CASE ItemFrame /\ Closes
    BY <1>0, <1>7 DEF ItemFrame, Closes, itemVars
  <1>8. CASE ItemFrame /\ Idles
    BY <1>0, <1>8 DEF ItemFrame, Idles, itemVars
  <1>9. CASE ItemFrame /\ Rests
    BY <1>0, <1>9 DEF ItemFrame, Rests, itemVars
  <1>10. CASE ChunkFrame /\ TakeStash
    BY <1>0, <1>10 DEF ChunkFrame, TakeStash, itemVars
  <1>11. CASE ChunkFrame /\ stash = <<>> /\ Collect
    BY <1>0, <1>11 DEF ChunkFrame, Collect, itemVars
  <1>12. CASE ChunkFrame /\ stash = <<>> /\ OnError
    BY <1>0, <1>12 DEF ChunkFrame, OnError, itemVars
  <1>13. CASE ChunkFrame /\ stash = <<>> /\ OnEnd
    BY <1>0, <1>13 DEF ChunkFrame, OnEnd, itemVars
  <1>14. CASE ChunkFrame /\ stash = <<>> /\ OnPending
    BY <1>0, <1>14 DEF ChunkFrame, OnPending, itemVars
  <1>15. CASE FillFrame /\ FillOk
    BY <1>0, <1>15 DEF FillFrame, FillOk, itemVars
  <1>16. CASE FillFrame /\ FillErr
    BY <1>0, <1>16 DEF FillFrame, FillErr, itemVars
  <1>17. CASE FillFrame /\ FillStops
    BY <1>0, <1>17 DEF FillFrame, FillStops, itemVars
  <1>18. CASE TakeFrame /\ TakePending
    BY <1>0, <1>18 DEF TakeFrame, TakePending, itemVars
  <1>19. CASE TakeFrame /\ TakeNone
    BY <1>0, <1>19 DEF TakeFrame, TakeNone, itemVars
  <1>20. ASSUME NEW k \in DOMAIN inProgress, TakeFrame, TakeItem(k)
        PROVE  ItemTyped'
    BY <1>0, <1>20 DEF TakeFrame, TakeItem, itemVars
  <1>21. CASE FlattenFrame /\ InnerItem
    BY <1>0, <1>21 DEF FlattenFrame, InnerItem, itemVars
  <1>22. CASE FlattenFrame /\ InnerError
    BY <1>0, <1>22 DEF FlattenFrame, InnerError, itemVars
  <1>23. CASE FlattenFrame /\ InnerEnd
    BY <1>0, <1>23 DEF FlattenFrame, InnerEnd, itemVars
  <1>24. CASE FlattenFrame /\ InnerPending
    BY <1>0, <1>24 DEF FlattenFrame, InnerPending, itemVars
  <1>25. CASE FlattenFrame /\ OuterStream
    BY <1>0, <1>25 DEF FlattenFrame, OuterStream, itemVars
  <1>26. CASE FlattenFrame /\ OuterRest
    BY <1>0, <1>26 DEF FlattenFrame, OuterRest, itemVars
  <1>27. CASE PollNext
    BY <1>0, <1>27 DEF PollNext, itemVars
  <1>28. ASSUME NEW party \in Parties, PartyWakes(party)
        PROVE  ItemTyped'
    BY <1>0, <1>28 DEF PartyWakes, itemVars
  <1>29. ASSUME NEW i \in DOMAIN given, Completes(i)
        PROVE  ItemTyped'
    BY <1>0, <1>29 DEF Completes, itemVars
  <1>30. CASE UNCHANGED vars
    BY <1>0, <1>30 DEF vars, itemVars
  <1> QED
    BY <1>1, <1>2, <1>3, <1>4, <1>5, <1>6, <1>7, <1>8, <1>9, <1>10, <1>11, <1>12,
       <1>13, <1>14, <1>15, <1>16, <1>17, <1>18, <1>19, <1>20, <1>21, <1>22, <1>23,
       <1>24, <1>25, <1>26, <1>27, <1>28, <1>29, <1>30, StepCases DEF Move

BufferTyped ==
    /\ items \in Seq(1 .. MaxAnswers) /\ stash \in Seq(1 .. MaxAnswers) /\ Len(stash) <= 1
    /\ inProgress \in Seq(1 .. MaxAnswers) /\ watched \subseteq 1 .. MaxAnswers
    /\ len \in 0 .. MaxAnswers /\ next \in 0 .. MaxAnswers

\* Those of the adaptors that keep several entries, or an inner stream.
LEMMA BufferTypeStep ==
    ASSUME TypeOK, Shape, BufferShape, [Next]_vars
    PROVE  BufferTyped'
  <1> USE SourceAssumption DEF BufferTyped
  <1>0. /\ BufferTyped
        /\ left > 0 => Next1 \in 1 .. MaxAnswers
        /\ Len(inProgress) \in 0 .. MaxAnswers
        /\ \A k \in DOMAIN inProgress : inProgress[k] \in 1 .. MaxAnswers
    BY Indices, SourceAssumption DEF TypeOK, BufferShape
  <1>1. CASE ItemFrame /\ Awaits
    BY <1>0, <1>1 DEF ItemFrame, Awaits, chunkVars, bufferVars
  <1>2. ASSUME NEW ok \in BOOLEAN, ItemFrame, Decides(ok)
        PROVE  BufferTyped'
    BY <1>0, <1>2 DEF ItemFrame, Decides, chunkVars, bufferVars
  <1>3. CASE ItemFrame /\ Drops
    BY <1>0, <1>3 DEF ItemFrame, Drops, chunkVars, bufferVars
  <1>4. CASE ItemFrame /\ Stops
    BY <1>0, <1>4 DEF ItemFrame, Stops, chunkVars, bufferVars
  <1>5. ASSUME NEW kind \in {"Ok", "Err"}, ItemFrame, Begins(kind)
        PROVE  BufferTyped'
    BY <1>0, <1>5 DEF ItemFrame, Begins, chunkVars, bufferVars
  <1>6. ASSUME NEW kind \in {"Ok", "Err"}, ItemFrame, Passes(kind)
        PROVE  BufferTyped'
    BY <1>0, <1>6 DEF ItemFrame, Passes, chunkVars, bufferVars
  <1>7. CASE ItemFrame /\ Closes
    BY <1>0, <1>7 DEF ItemFrame, Closes, chunkVars, bufferVars
  <1>8. CASE ItemFrame /\ Idles
    BY <1>0, <1>8 DEF ItemFrame, Idles, chunkVars, bufferVars
  <1>9. CASE ItemFrame /\ Rests
    BY <1>0, <1>9 DEF ItemFrame, Rests, chunkVars, bufferVars
  <1>10. CASE ChunkFrame /\ TakeStash
    BY <1>0, <1>10 DEF ChunkFrame, TakeStash, chunkVars, bufferVars
  <1>11. CASE ChunkFrame /\ stash = <<>> /\ Collect
    <2>1. Append(items, Next1) \in Seq(1 .. MaxAnswers) /\ <<>> \in Seq(1 .. MaxAnswers)
      BY <1>0, <1>11, Appends DEF Collect, Gives, Given
    <2> QED BY <1>0, <1>11, <2>1 DEF ChunkFrame, Collect, bufferVars
  <1>12. CASE ChunkFrame /\ stash = <<>> /\ OnError
    <2>1. Next1 \in 1 .. MaxAnswers
      BY <1>0, <1>12 DEF OnError, Gives, Given
    <2>3. items' \in Seq(1 .. MaxAnswers) /\ stash' \in Seq(1 .. MaxAnswers) /\ Len(stash') <= 1
      <3>1. items' = <<>> /\ (stash' = <<>> \/ stash' = <<Next1>>)
        BY <1>0, <1>12 DEF OnError, Flush, chunkVars
      <3>2. items' \in Seq(1 .. MaxAnswers)
        BY <1>0, <2>1, <3>1, AtMostOne
      <3>3. stash' \in Seq(1 .. MaxAnswers) /\ Len(stash') <= 1
        BY <1>0, <2>1, <3>1, AtMostOne
      <3> QED BY <1>0, <3>2, <3>3
    <2> QED BY <1>0, <1>12, <2>3 DEF ChunkFrame, bufferVars
  <1>13. CASE ChunkFrame /\ stash = <<>> /\ OnEnd
    BY <1>0, <1>13 DEF ChunkFrame, OnEnd, Flush, bufferVars
  <1>14. CASE ChunkFrame /\ stash = <<>> /\ OnPending
    BY <1>0, <1>14 DEF ChunkFrame, OnPending, Flush, bufferVars
  <1>15. CASE FillFrame /\ FillOk
    BY <1>0, <1>15 DEF FillFrame, FillOk, Gives, Given, chunkVars
  <1>16. CASE FillFrame /\ FillErr
    BY <1>0, <1>16 DEF FillFrame, FillErr, chunkVars, bufferVars
  <1>17. CASE FillFrame /\ FillStops
    BY <1>0, <1>17 DEF FillFrame, FillStops, ToTake, chunkVars, bufferVars
  <1>18. CASE TakeFrame /\ TakePending
    <2>1. watched' \subseteq 1 .. MaxAnswers
      BY <1>0, <1>18 DEF TakePending, ToSet
    <2> QED BY <1>0, <1>18, <2>1 DEF TakeFrame, TakePending, chunkVars
  <1>19. CASE TakeFrame /\ TakeNone
    BY <1>0, <1>19 DEF TakeFrame, TakeNone, chunkVars, bufferVars
  <1>20. ASSUME NEW k \in DOMAIN inProgress, TakeFrame, TakeItem(k)
        PROVE  BufferTyped'
    <2>1. inProgress' \in Seq(1 .. MaxAnswers)
      BY <1>0, <1>20, Removed DEF TakeItem
    <2> QED BY <1>0, <1>20, <2>1 DEF TakeFrame, TakeItem, chunkVars
  <1>21. CASE FlattenFrame /\ InnerItem
    BY <1>0, <1>21 DEF FlattenFrame, InnerItem, chunkVars, bufferVars, InnerGives
  <1>22. CASE FlattenFrame /\ InnerError
    BY <1>0, <1>22 DEF FlattenFrame, InnerError, chunkVars, bufferVars
  <1>23. CASE FlattenFrame /\ InnerEnd
    BY <1>0, <1>23 DEF FlattenFrame, InnerEnd, chunkVars, bufferVars
  <1>24. CASE FlattenFrame /\ InnerPending
    BY <1>0, <1>24 DEF FlattenFrame, InnerPending, chunkVars, bufferVars
  <1>25. CASE FlattenFrame /\ OuterStream
    BY <1>0, <1>25 DEF FlattenFrame, OuterStream, Gives, Given, chunkVars, bufferVars
  <1>26. CASE FlattenFrame /\ OuterRest
    BY <1>0, <1>26 DEF FlattenFrame, OuterRest, chunkVars, bufferVars
  <1>27. CASE PollNext
    BY <1>0, <1>27 DEF PollNext, chunkVars
  <1>28. ASSUME NEW party \in Parties, PartyWakes(party)
        PROVE  BufferTyped'
    BY <1>0, <1>28 DEF PartyWakes, chunkVars, bufferVars
  <1>29. ASSUME NEW i \in DOMAIN given, Completes(i)
        PROVE  BufferTyped'
    BY <1>0, <1>29 DEF Completes, Complete, chunkVars, bufferVars
  <1>30. CASE UNCHANGED vars
    BY <1>0, <1>30 DEF vars, chunkVars, bufferVars
  <1> QED
    BY <1>1, <1>2, <1>3, <1>4, <1>5, <1>6, <1>7, <1>8, <1>9, <1>10, <1>11, <1>12,
       <1>13, <1>14, <1>15, <1>16, <1>17, <1>18, <1>19, <1>20, <1>21, <1>22, <1>23,
       <1>24, <1>25, <1>26, <1>27, <1>28, <1>29, <1>30, StepCases DEF Move

\* Every variable but the history of the promises.
LEMMA TypeStep ==
    ASSUME TypeOK, Shape, BufferShape, StreamsRight, [Next]_vars, promise' \in Promises
    PROVE  TypeOK'
  BY SourceTypeStep, AnswersTypeStep, ItemTypeStep, BufferTypeStep
     DEF TypeOK, AnswersTyped, ItemTyped, BufferTyped, Promises

\* How the fields go together.
LEMMA ShapeStep ==
    ASSUME TypeOK, Shape, StreamsRight, [Next]_vars
    PROVE  Shape'
  <1> USE SourceAssumption DEF Shape, Asks, Asking, Keeping, While, Fused
  <1>0. /\ SourceTypeOK /\ left \in Nat /\ Len(given) \in Nat
        /\ next \in 0 .. MaxAnswers
        /\ fut \in BOOLEAN /\ done \in BOOLEAN /\ state \in BOOLEAN /\ ended \in BOOLEAN /\ terminated \in BOOLEAN
    BY DEF TypeOK, SourceTypeOK
  <1>1. CASE ItemFrame /\ Awaits
    BY <1>0, <1>1 DEF ItemFrame, Awaits, AwaitsFuture, FuturePends, Waits, itemVars, setup
  <1>2. ASSUME NEW ok \in BOOLEAN, ItemFrame, Decides(ok)
        PROVE  Shape'
    BY <1>0, <1>2, ResolvesJudges DEF ItemFrame, Decides, Finishes, Judges, setup
  <1>3. CASE ItemFrame /\ Drops
    BY <1>0, <1>3, ResolvesJudges DEF ItemFrame, Drops, Finishes, Judges, setup
  <1>4. CASE ItemFrame /\ Stops
    BY <1>0, <1>4, ResolvesJudges DEF ItemFrame, Stops, Finishes, Judges, setup
  <1>5. ASSUME NEW kind \in {"Ok", "Err"}, ItemFrame, Begins(kind)
        PROVE  Shape'
    BY <1>0, <1>5, GivesGrows DEF ItemFrame, Begins, Starts, Grows, setup
  <1>6. ASSUME NEW kind \in {"Ok", "Err"}, ItemFrame, Passes(kind)
        PROVE  Shape'
    BY <1>0, <1>6, GivesGrows DEF ItemFrame, Passes, PassItem, Grows, setup, itemVars
  <1>7. CASE ItemFrame /\ Closes
    BY <1>0, <1>7, EndsFacts DEF ItemFrame, Closes, PassEnd, setup
  <1>8. CASE ItemFrame /\ Idles
    BY <1>0, <1>8 DEF ItemFrame, Idles, PassPending, Pends, Waits, setup, sourceVars
  <1>9. CASE ItemFrame /\ Rests
    BY <1>0, <1>9 DEF ItemFrame, Rests, setup, sourceVars, itemVars
  <1>10. CASE ChunkFrame /\ TakeStash
    BY <1>0, <1>10 DEF ChunkFrame, TakeStash, setup, sourceVars, itemVars
  <1>11. CASE ChunkFrame /\ stash = <<>> /\ Collect
    BY <1>0, <1>11, GivesGrows DEF ChunkFrame, Collect, Grows, setup, itemVars, Chunked
  <1>12. CASE ChunkFrame /\ stash = <<>> /\ OnError
    BY <1>0, <1>12, GivesGrows DEF ChunkFrame, OnError, Grows, setup, itemVars, Chunked
  <1>13. CASE ChunkFrame /\ stash = <<>> /\ OnEnd
    BY <1>0, <1>13, EndsFacts DEF ChunkFrame, OnEnd, Chunked, setup, itemVars
  <1>14. CASE ChunkFrame /\ stash = <<>> /\ OnPending
    BY <1>0, <1>14 DEF ChunkFrame, OnPending, Pends, Waits, setup, itemVars
  <1>15. CASE FillFrame /\ FillOk
    BY <1>0, <1>15, GivesGrows DEF FillFrame, FillOk, Grows, setup, itemVars, Buffered
  <1>16. CASE FillFrame /\ FillErr
    BY <1>0, <1>16, GivesGrows DEF FillFrame, FillErr, Grows, setup, itemVars, Buffered
  <1>17. CASE FillFrame /\ FillStops
    BY <1>0, <1>17, EndsFacts DEF FillFrame, FillStops, Pends, Waits, setup, sourceVars, itemVars
  <1>18. CASE TakeFrame /\ TakePending
    BY <1>0, <1>18 DEF TakeFrame, TakePending, setup, sourceVars, itemVars
  <1>19. CASE TakeFrame /\ TakeNone
    BY <1>0, <1>19 DEF TakeFrame, TakeNone, setup, sourceVars, itemVars
  <1>20. ASSUME NEW k \in DOMAIN inProgress, TakeFrame, TakeItem(k)
        PROVE  Shape'
    BY <1>0, <1>20 DEF TakeFrame, TakeItem, setup, sourceVars, itemVars
  <1>21. CASE FlattenFrame /\ InnerItem
    BY <1>0, <1>21, GivenGrows DEF FlattenFrame, InnerItem, InnerGives, Grows, setup, itemVars
  <1>22. CASE FlattenFrame /\ InnerError
    BY <1>0, <1>22, GivenGrows DEF FlattenFrame, InnerError, InnerGives, Grows, setup, itemVars
  <1>23. CASE FlattenFrame /\ InnerEnd
    BY <1>0, <1>23 DEF FlattenFrame, InnerEnd, setup, sourceVars, itemVars
  <1>24. CASE FlattenFrame /\ InnerPending
    BY <1>0, <1>24 DEF FlattenFrame, InnerPending, Waits, setup, itemVars
  <1>25. CASE FlattenFrame /\ OuterStream
    BY <1>0, <1>25, GivesGrows DEF FlattenFrame, OuterStream, Grows, setup, itemVars
  <1>26. CASE FlattenFrame /\ OuterRest
    BY <1>0, <1>26, GivesGrows, EndsFacts DEF FlattenFrame, OuterRest, PassItem, PassRest, PassEnd, PassPending, Pends, Waits, Grows, setup, sourceVars, itemVars
  <1>27. CASE PollNext
    BY <1>0, <1>27 DEF PollNext, CallPoll, setup, sourceVars, itemVars
  <1>28. ASSUME NEW party \in Parties, PartyWakes(party)
        PROVE  Shape'
    BY <1>0, <1>28 DEF PartyWakes, Wakes, setup, itemVars
  <1>29. ASSUME NEW i \in DOMAIN given, Completes(i)
        PROVE  Shape'
    BY <1>0, <1>29, CompleteJudges DEF Completes, Complete, Judges, setup, itemVars
  <1>30. CASE UNCHANGED vars
    BY <1>0, <1>30 DEF vars, setup, sourceVars, itemVars
  <1> QED
    BY <1>1, <1>2, <1>3, <1>4, <1>5, <1>6, <1>7, <1>8, <1>9, <1>10, <1>11, <1>12,
       <1>13, <1>14, <1>15, <1>16, <1>17, <1>18, <1>19, <1>20, <1>21, <1>22, <1>23,
       <1>24, <1>25, <1>26, <1>27, <1>28, <1>29, <1>30, StepCases DEF Move

\* What the buffers hold.
LEMMA BufferShapeStep ==
    ASSUME TypeOK, Shape, BufferShape, [Next]_vars
    PROVE  BufferShape'
  <1> USE SourceAssumption DEF Chunked, Buffered, Asks
  <1>a. /\ SourceTypeOK /\ left \in Nat /\ Len(given) \in Nat /\ size \in Nat /\ ended \in BOOLEAN
        /\ next \in 0 .. MaxAnswers
    BY DEF TypeOK, SourceTypeOK
  <1>b. BufferTyped /\ AnswersTyped /\ (Asks => Len(given) > 0)
    BY DEF TypeOK, BufferTyped, AnswersTyped, Shape
  <1>c. Len(items) \in Nat /\ Len(stash) \in Nat /\ Len(inProgress) \in Nat /\ Len(delivered) \in Nat
    BY <1>b DEF BufferTyped, AnswersTyped
  <1>0. /\ SourceTypeOK /\ left \in Nat /\ Len(given) \in Nat /\ size \in Nat /\ ended \in BOOLEAN
        /\ next \in 0 .. MaxAnswers
        /\ BufferTyped /\ AnswersTyped /\ (Asks => Len(given) > 0)
        /\ Len(items) \in Nat /\ Len(stash) \in Nat /\ Len(inProgress) \in Nat /\ Len(delivered) \in Nat
        /\ \A k \in DOMAIN inProgress : inProgress[k] \in 1 .. MaxAnswers
        /\ (left > 0 => Next1 \in 1 .. MaxAnswers) /\ (ended => left = 0)
    BY <1>a, <1>b, <1>c, Indices DEF Shape
  <1>1. CASE ItemFrame /\ Awaits
    BY <1>0, <1>1 DEF ItemFrame, Awaits, AwaitsFuture, FuturePends, Waits, Answer, Return, BufferShape, chunkVars, bufferVars, setup, outVars
  <1>2. ASSUME NEW ok \in BOOLEAN, ItemFrame, Decides(ok)
        PROVE  BufferShape'
    BY <1>0, <1>2, ResolvesJudges, EmitFacts DEF ItemFrame, Decides, Finishes, Judges, Emit, Return, BufferShape, chunkVars, bufferVars, setup, outVars
  <1>3. CASE ItemFrame /\ Drops
    BY <1>0, <1>3, ResolvesJudges DEF ItemFrame, Drops, Finishes, Judges, GoOn, Loop, BufferShape, chunkVars, bufferVars, setup, outVars
  <1>4. CASE ItemFrame /\ Stops
    BY <1>0, <1>4, ResolvesJudges DEF ItemFrame, Stops, Finishes, Judges, Answer, Return, BufferShape, chunkVars, bufferVars, setup, outVars
  <1>5. ASSUME NEW kind \in {"Ok", "Err"}, ItemFrame, Begins(kind)
        PROVE  BufferShape'
    BY <1>0, <1>5, GivesGrows DEF ItemFrame, Begins, Starts, Grows, GoOn, Loop, BufferShape, chunkVars, bufferVars, setup, outVars
  <1>6. ASSUME NEW kind \in {"Ok", "Err"}, ItemFrame, Passes(kind)
        PROVE  BufferShape'
    BY <1>0, <1>6, GivesGrows, EmitFacts DEF ItemFrame, Passes, PassItem, Grows, Emit, Return, BufferShape, chunkVars, bufferVars, setup, outVars
  <1>7. CASE ItemFrame /\ Closes
    BY <1>0, <1>7, EndsFacts DEF ItemFrame, Closes, PassEnd, Answer, Return, BufferShape, chunkVars, bufferVars, setup, outVars
  <1>8. CASE ItemFrame /\ Idles
    BY <1>0, <1>8 DEF ItemFrame, Idles, PassPending, Pends, Waits, Answer, Return, BufferShape, chunkVars, bufferVars, setup, outVars
  <1>9. CASE ItemFrame /\ Rests
    BY <1>0, <1>9 DEF ItemFrame, Rests, Answer, GoOn, Return, Loop, sourceVars, BufferShape, chunkVars, bufferVars, setup, outVars
  <1>10. CASE ChunkFrame /\ TakeStash
    BY <1>0, <1>10 DEF ChunkFrame, TakeStash, Emit, Return, BufferShape, chunkVars, bufferVars, setup, outVars
  <1>11. CASE ChunkFrame /\ stash = <<>> /\ Collect
    <2>0. Grows("Ok", 0)
      BY <1>0, <1>11, GivesGrows DEF Collect
    <2>1. ~ended /\ Next1 \in 1 .. MaxAnswers
      BY <1>0, <2>0 DEF Grows
    <2>2. Len(Append(items, Next1)) = Len(items) + 1
      BY <1>0, <2>1, Appends DEF BufferTyped
    <2>3. CASE Emit(Append(items, Next1), TRUE) /\ items' = <<>>
      BY <1>0, <1>11, <2>0, <2>1, <2>3 DEF ChunkFrame, Collect, Grows, Emit, Return, setup, bufferVars, BufferShape
    <2>4. CASE GoOn /\ items' = Append(items, Next1) /\ ~(Len(Append(items, Next1)) >= size)
      <3>1. /\ UNCHANGED <<adaptor, size, pc, stash, ended, inProgress, len>> /\ Chunked /\ pc = "poll"
            /\ stash = <<>> /\ Len(items') = Len(items) + 1 /\ Len(items') < size
        BY <1>0, <1>11, <2>0, <2>2, <2>4 DEF ChunkFrame, Collect, Grows, GoOn, Loop, setup, bufferVars
      <3> QED BY <1>0, <2>1, <3>1 DEF BufferShape
    <2> QED BY <1>0, <1>11, <2>3, <2>4 DEF Collect
  <1>12. CASE ChunkFrame /\ stash = <<>> /\ OnError
    <2>0. Grows("Err", 0)
      BY <1>0, <1>12, GivesGrows DEF OnError
    <2>1. ~ended
      BY <1>0, <2>0 DEF Grows
    <2> QED BY <1>0, <1>12, <2>0, <2>1 DEF ChunkFrame, OnError, Grows, Flush, Emit, Return, setup, chunkVars, bufferVars, BufferShape
  <1>13. CASE ChunkFrame /\ stash = <<>> /\ OnEnd
    BY <1>0, <1>13, EndsFacts DEF ChunkFrame, OnEnd, Flush, Emit, Answer, Return, BufferShape, chunkVars, bufferVars, setup, outVars
  <1>14. CASE ChunkFrame /\ stash = <<>> /\ OnPending
    BY <1>0, <1>14 DEF ChunkFrame, OnPending, Pends, Waits, Flush, Emit, Answer, Return, BufferShape, chunkVars, bufferVars, setup, outVars
  <1>15. CASE FillFrame /\ FillOk
    <2>0. Grows("Ok", 0)
      BY <1>0, <1>15, GivesGrows DEF FillOk
    <2>1. Len(inProgress') = Len(inProgress) + 1
      <3>1. Next1 \in 1 .. MaxAnswers /\ inProgress' = Append(inProgress, Next1)
        BY <1>0, <1>15, <2>0 DEF FillOk, Grows
      <3> QED BY <1>0, <3>1, Appends DEF BufferTyped
    <2>2. /\ UNCHANGED <<adaptor, size, pc, items, stash, ended, delivered, len>> /\ Buffered
          /\ Len(given') = Len(given) + 1 /\ pc = "poll" /\ len \in Nat
      BY <1>0, <1>15, <2>0 DEF FillFrame, FillOk, Grows, GoOn, Loop, setup, chunkVars, outVars, BufferTyped
    <2> QED BY <1>0, <2>1, <2>2 DEF BufferShape
  <1>16. CASE FillFrame /\ FillErr
    <2>0. Grows("Err", 0)
      BY <1>0, <1>16, GivesGrows DEF FillErr
    <2>1. Len(delivered') = Len(delivered) + 1
      <3>1. Next1 \in 1 .. MaxAnswers /\ delivered' = delivered \o <<Next1>>
        BY <1>0, <1>16, <2>0 DEF FillErr, Grows, Emit
      <3> QED BY <1>0, <3>1, Appends DEF AnswersTyped
    <2>2. /\ UNCHANGED <<adaptor, size, items, stash, ended, inProgress>> /\ Buffered
          /\ Len(given') = Len(given) + 1 /\ pc' = "idle"
      BY <1>0, <1>16, <2>0 DEF FillFrame, FillErr, Grows, Emit, Return, setup, chunkVars, bufferVars
    <2> QED BY <1>0, <2>1, <2>2 DEF BufferShape
  <1>17. CASE FillFrame /\ FillStops
    BY <1>0, <1>17, EndsFacts DEF FillFrame, FillStops, Pends, Waits, ToTake, sourceVars, BufferShape, chunkVars, bufferVars, setup, outVars
  <1>18. CASE TakeFrame /\ TakePending
    BY <1>0, <1>18 DEF TakeFrame, TakePending, Answer, GoOn, Return, Loop, sourceVars, BufferShape, chunkVars, bufferVars, setup, outVars
  <1>19. CASE TakeFrame /\ TakeNone
    BY <1>0, <1>19 DEF TakeFrame, TakeNone, Answer, GoOn, Return, Loop, sourceVars, BufferShape, chunkVars, bufferVars, setup, outVars
  <1>20. ASSUME NEW k \in DOMAIN inProgress, TakeFrame, TakeItem(k)
        PROVE  BufferShape'
    <2>1. Len(delivered') = Len(delivered) + 1
      BY <1>0, <1>20, Appends DEF TakeItem, AnswersTyped, Emit
    <2>2. Len(inProgress') = Len(inProgress) - 1
      <3>1. inProgress' = RemoveAt(inProgress, k)
        BY <1>0, <1>20 DEF TakeItem
      <3> QED BY <1>0, <3>1, Removed DEF BufferTyped
    <2>3. /\ UNCHANGED <<adaptor, size, items, stash, ended, given>> /\ Buffered /\ pc' = "idle"
      BY <1>0, <1>20 DEF TakeFrame, TakeItem, Emit, Return, setup, chunkVars, sourceVars
    <2> QED BY <1>0, <2>1, <2>2, <2>3 DEF BufferShape
  <1>21. CASE FlattenFrame /\ InnerItem
    BY <1>0, <1>21, GivenGrows DEF FlattenFrame, InnerItem, InnerGives, Grows, Emit, Return, BufferShape, chunkVars, bufferVars, setup, outVars
  <1>22. CASE FlattenFrame /\ InnerError
    BY <1>0, <1>22, GivenGrows DEF FlattenFrame, InnerError, InnerGives, Grows, Emit, Return, BufferShape, chunkVars, bufferVars, setup, outVars
  <1>23. CASE FlattenFrame /\ InnerEnd
    BY <1>0, <1>23 DEF FlattenFrame, InnerEnd, Answer, GoOn, Return, Loop, sourceVars, BufferShape, chunkVars, bufferVars, setup, outVars
  <1>24. CASE FlattenFrame /\ InnerPending
    BY <1>0, <1>24 DEF FlattenFrame, InnerPending, Waits, Answer, Return, BufferShape, chunkVars, bufferVars, setup, outVars
  <1>25. CASE FlattenFrame /\ OuterStream
    BY <1>0, <1>25, GivesGrows DEF FlattenFrame, OuterStream, Grows, GoOn, Loop, BufferShape, chunkVars, bufferVars, setup, outVars
  <1>26. CASE FlattenFrame /\ OuterRest
    BY <1>0, <1>26, GivesGrows, EndsFacts DEF FlattenFrame, OuterRest, PassItem, PassRest, PassEnd, PassPending, Pends, Waits, Grows, Emit, Answer, Return, BufferShape, chunkVars, bufferVars, setup, outVars
  <1>27. CASE PollNext
    BY <1>0, <1>27 DEF PollNext, CallPoll, sourceVars, BufferShape, chunkVars, bufferVars, setup, outVars
  <1>28. ASSUME NEW party \in Parties, PartyWakes(party)
        PROVE  BufferShape'
    BY <1>0, <1>28 DEF PartyWakes, Wakes, BufferShape, chunkVars, bufferVars, setup, outVars
  <1>29. ASSUME NEW i \in DOMAIN given, Completes(i)
        PROVE  BufferShape'
    BY <1>0, <1>29, CompleteJudges DEF Completes, Complete, Judges, BufferShape, chunkVars, bufferVars, setup, outVars
  <1>30. CASE UNCHANGED vars
    BY <1>0, <1>30 DEF vars, Answer, GoOn, Return, Loop, sourceVars, BufferShape, chunkVars, bufferVars, setup, outVars
  <1> QED
    BY <1>1, <1>2, <1>3, <1>4, <1>5, <1>6, <1>7, <1>8, <1>9, <1>10, <1>11, <1>12,
       <1>13, <1>14, <1>15, <1>16, <1>17, <1>18, <1>19, <1>20, <1>21, <1>22, <1>23,
       <1>24, <1>25, <1>26, <1>27, <1>28, <1>29, <1>30, StepCases DEF Move

-----------------------------------------------------------------------------
(* Lists of entries *)

Ordered(s) == \A i, j \in DOMAIN s : i < j => s[i] < s[j]

Coming == {i \in DOMAIN given : Comes(i)}
Calling == {i \in DOMAIN given : Calls(i)}

\* To list each once, in the order given, is to be ordered and to list them all.
LEMMA ListsOrdered ==
    ASSUME NEW s
    PROVE  /\ Lists(s, Comes) <=> Ordered(s) /\ ToSet(s) = Coming
           /\ Lists(s, Calls) <=> Ordered(s) /\ ToSet(s) = Calling
  <1>1. Rising(s, LAMBDA i : TRUE) <=> Ordered(s)
    BY Zenon DEF Rising, Ordered
  <1> QED BY <1>1, Zenon DEF Lists, Coming, Calling

\* An entry more at the end, which is later than the others.
LEMMA OrderedOneMore ==
    ASSUME NEW n \in Nat, NEW s \in Seq(Nat), Ordered(s), \A i \in ToSet(s) : i <= n
    PROVE  Ordered(s \o <<n + 1>>) /\ ToSet(s \o <<n + 1>>) = ToSet(s) \cup {n + 1}
  <1>2. ToSet(s \o <<n + 1>>) = ToSet(s) \cup {n + 1}
    BY Appends
  <1>3. /\ Len(s \o <<n + 1>>) = Len(s) + 1 /\ s \o <<n + 1>> \in Seq(Nat)
        /\ \A i \in DOMAIN s : (s \o <<n + 1>>)[i] = s[i]
        /\ (s \o <<n + 1>>)[Len(s) + 1] = n + 1
    BY Appends
  <1>4. \A i \in DOMAIN s : s[i] <= n /\ s[i] \in Nat
    BY DEF ToSet
  <1>5. ASSUME NEW i \in DOMAIN (s \o <<n + 1>>), NEW j \in DOMAIN (s \o <<n + 1>>), i < j
        PROVE  (s \o <<n + 1>>)[i] < (s \o <<n + 1>>)[j]
    <2>1. i \in 1 .. Len(s) + 1 /\ j \in 1 .. Len(s) + 1 /\ DOMAIN s = 1 .. Len(s) /\ Len(s) \in Nat
      BY <1>3
    <2>2. i \in DOMAIN s
      BY <1>5, <2>1
    <2>3. CASE j \in DOMAIN s
      BY <1>3, <1>5, <2>2, <2>3 DEF Ordered
    <2>4. CASE j = Len(s) + 1
      BY <1>3, <1>4, <2>2, <2>4
    <2> QED BY <2>1, <2>3, <2>4
  <1> QED BY <1>2, <1>5 DEF Ordered

\* The last one is taken away.
LEMMA OrderedOneLess ==
    ASSUME NEW n \in Nat, NEW s \in Seq(Nat), Ordered(s \o <<n>>)
    PROVE  Ordered(s) /\ ToSet(s) = ToSet(s \o <<n>>) \ {n} /\ n \notin ToSet(s)
  <1>2. ToSet(s \o <<n>>) = ToSet(s) \cup {n}
    BY Appends
  <1>3. /\ Len(s \o <<n>>) = Len(s) + 1 /\ s \o <<n>> \in Seq(Nat)
        /\ \A i \in DOMAIN s : (s \o <<n>>)[i] = s[i]
        /\ (s \o <<n>>)[Len(s) + 1] = n
    BY Appends
  <1>4. DOMAIN s = 1 .. Len(s) /\ Len(s) \in Nat /\ DOMAIN (s \o <<n>>) = 1 .. Len(s) + 1
    BY <1>3
  <1>5. ASSUME NEW i \in DOMAIN s PROVE s[i] < n
    <2>1. i < Len(s) + 1 /\ i \in DOMAIN (s \o <<n>>) /\ Len(s) + 1 \in DOMAIN (s \o <<n>>)
      BY <1>4
    <2>2. (s \o <<n>>)[i] < (s \o <<n>>)[Len(s) + 1]
      BY <2>1 DEF Ordered
    <2> QED BY <1>3, <2>2
  <1>6. n \notin ToSet(s)
    BY <1>5 DEF ToSet
  <1>7. Ordered(s)
    BY <1>3, <1>4 DEF Ordered
  <1> QED BY <1>2, <1>6, <1>7

-----------------------------------------------------------------------------
(* What is said of the entries *)

\* Of the earlier entries the same is said, whatever comes after them.
LEMMA EntriesGrow ==
    ASSUME NEW kind, NEW of, Grows(kind, of), UNCHANGED adaptor
    PROVE  /\ \A i \in DOMAIN given : /\ IsErr(i)' <=> IsErr(i)
                                      /\ Verdict(i)' = Verdict(i)
                                      /\ Comes(i)' <=> Comes(i)
                                      /\ ComesOk(i)' <=> ComesOk(i)
                                      /\ Calls(i)' <=> Calls(i)
           /\ \A i \in 1 .. Next1 : SkippingEndedBefore(i)' <=> SkippingEndedBefore(i)
           /\ \A n : n = Next1 =>
                 /\ (IsErr(n)' <=> kind = "Err") /\ Verdict(n)' = "none"
                 /\ SkippingEndedBefore(n + 1)' <=> SkippingEndedBefore(n) \/ kind = "Err"
  <1>1. \A i \in DOMAIN given : (IsErr(i)' <=> IsErr(i)) /\ Verdict(i)' = Verdict(i) /\ given'[i] = given[i]
    BY DEF Grows, IsErr, Verdict
  <1>2. \A n : n = Next1 => (IsErr(n)' <=> kind = "Err") /\ Verdict(n)' = "none"
    BY DEF Grows, IsErr, Verdict
  <1>3. /\ Next1 = Len(given) + 1 /\ Len(given) \in Nat /\ DOMAIN given = 1 .. Len(given)
    BY DEF Grows
  <1>4. \A i \in 1 .. Next1 : SkippingEndedBefore(i)' <=> SkippingEndedBefore(i)
    <2>1. \A i \in 1 .. Next1 : \A j \in 1 .. i - 1 : j \in DOMAIN given
      BY <1>3
    <2> QED BY <1>1, <2>1 DEF SkippingEndedBefore
  <1>5. ASSUME NEW n, n = Next1
        PROVE  SkippingEndedBefore(n + 1)' <=> SkippingEndedBefore(n) \/ kind = "Err"
    <2>1. \A j : j \in 1 .. (n + 1) - 1 <=> j \in 1 .. n - 1 \/ j = n
      BY <1>3, <1>5
    <2>2. \A j \in 1 .. n - 1 : j \in DOMAIN given
      BY <1>3, <1>5
    <2> QED BY <1>1, <1>2, <1>5, <2>1, <2>2 DEF SkippingEndedBefore
  <1>6. \A i \in DOMAIN given : i \in 1 .. Next1
    BY <1>3
  <1>7. \A i \in DOMAIN given : (Comes(i)' <=> Comes(i)) /\ (ComesOk(i)' <=> ComesOk(i)) /\ (Calls(i)' <=> Calls(i))
    BY <1>1, <1>4, <1>6 DEF Comes, ComesOk, Calls, IsOk
  <1> QED BY <1>1, <1>2, <1>4, <1>5, <1>7

\* When an entry is judged, the same is said of the others.
LEMMA EntriesJudged ==
    ASSUME NEW n, NEW verdict, Judges(n, verdict), UNCHANGED adaptor,
           adaptor = "TrySkipWhile" => n = Len(given)
    PROVE  /\ \A i \in DOMAIN given : /\ IsErr(i)' <=> IsErr(i)
                                      /\ Calls(i)' <=> Calls(i)
           /\ \A i \in DOMAIN given \ {n} : /\ Verdict(i)' = Verdict(i)
                                            /\ Comes(i)' <=> Comes(i)
                                            /\ ComesOk(i)' <=> ComesOk(i)
           /\ n = Len(given) => \A i \in 1 .. Len(given) : SkippingEndedBefore(i)' <=> SkippingEndedBefore(i)
           /\ Verdict(n)' = verdict
           /\ n = Len(given) =>
                 (SkippingEndedBefore(n + 1)' <=>
                    SkippingEndedBefore(n) \/ IsErr(n) \/ verdict \in {"keep", "err"})
  <1>1. /\ \A i \in DOMAIN given : IsErr(i)' <=> IsErr(i)
        /\ \A i \in DOMAIN given \ {n} : Verdict(i)' = Verdict(i)
        /\ Verdict(n)' = verdict
    BY DEF Judges, IsErr, Verdict
  <1>2. Len(given) \in Nat /\ DOMAIN given = 1 .. Len(given) /\ n \in DOMAIN given
    BY DEF Judges
  <1>3. ASSUME n = Len(given), NEW i \in 1 .. Len(given)
        PROVE  SkippingEndedBefore(i)' <=> SkippingEndedBefore(i)
    <2>1. ASSUME NEW j \in 1 .. i - 1 PROVE j \in DOMAIN given \ {n}
      <3>1. i \in Nat /\ i <= Len(given) /\ j \in Nat /\ 1 <= j /\ j <= i - 1
        BY <1>2, <1>3
      <3>2. j \in 1 .. Len(given)
        BY <1>2, <3>1
      <3>3. j < Len(given)
        BY <1>2, <3>1
      <3>4. j # Len(given)
        <4>1. Len(given) \in Nat /\ j \in Nat
          BY <1>2, <3>1
        <4> QED BY <3>3, <4>1
      <3> QED BY <1>2, <1>3, <3>2, <3>4
    <2> QED BY <1>1, <2>1 DEF SkippingEndedBefore
  <1>4. ASSUME n = Len(given)
        PROVE  SkippingEndedBefore(n + 1)' <=> SkippingEndedBefore(n) \/ IsErr(n) \/ verdict \in {"keep", "err"}
    <2>1. \A j : j \in 1 .. (n + 1) - 1 <=> j \in 1 .. n - 1 \/ j = n
      BY <1>2, <1>4
    <2>2. ASSUME NEW j \in 1 .. n - 1 PROVE j \in DOMAIN given \ {n}
      <3>1. j \in 1 .. Len(given) - 1
        BY <1>4
      <3>2. j \in 1 .. Len(given) /\ j < Len(given)
        BY <1>2, <3>1
      <3>3. j # Len(given)
        <4>1. Len(given) \in Nat /\ j \in Nat
          BY <1>2, <3>1
        <4> QED BY <3>2, <4>1
      <3> QED BY <1>2, <1>4, <3>2, <3>3
    <2> QED BY <1>1, <1>2, <2>1, <2>2 DEF SkippingEndedBefore
  <1>5. \A i \in DOMAIN given : Calls(i)' <=> Calls(i)
    BY <1>1, <1>2, <1>3 DEF Calls, IsOk
  <1>6. \A i \in DOMAIN given : given'[i].kind = given[i].kind
    BY DEF Judges
  <1>7. \A i \in DOMAIN given \ {n} : (Comes(i)' <=> Comes(i)) /\ (ComesOk(i)' <=> ComesOk(i))
    BY <1>1, <1>2, <1>3, <1>6 DEF Comes, ComesOk, IsOk
  <1> QED BY <1>1, <1>3, <1>4, <1>5, <1>7

\* Nothing is said of them when they stay.
LEMMA EntriesSame ==
    ASSUME UNCHANGED <<given, adaptor>>
    PROVE  /\ Coming' = Coming /\ Calling' = Calling
           /\ \A i : /\ IsErr(i)' <=> IsErr(i)
                     /\ Verdict(i)' = Verdict(i)
                     /\ ComesOk(i)' <=> ComesOk(i)
                     /\ SkippingEndedBefore(i)' <=> SkippingEndedBefore(i)
  BY DEF Coming, Calling, Comes, Calls, ComesOk, IsOk, IsErr, Verdict, SkippingEndedBefore

-----------------------------------------------------------------------------
(* Inner streams *)

\* Of an inner stream, nothing follows its error: an entry more, ...
LEMMA StreamsGrow ==
    ASSUME StreamsRight, NEW kind, NEW of, Grows(kind, of), next \in Nat,
           of = 0 \/ (of = next /\ next # 0),
           \/ next' = next /\ (kind # "Err" \/ of = 0)
           \/ next' = 0
           \/ next' = Next1 /\ of = 0 /\ kind = "Stream"
    PROVE  StreamsRight'
  <1> DEFINE n == Len(given) + 1
  <1>1. /\ n \in Nat /\ n # 0 /\ n = Next1 /\ DOMAIN given = 1 .. n - 1 /\ DOMAIN given' = 1 .. n
        /\ Len(given') = n /\ next < n
    BY DEF Grows, StreamsRight
  <1>2. /\ \A i \in DOMAIN given : given'[i] = given[i]
        /\ given'[n].kind = kind /\ given'[n].of = of
        /\ \A i \in DOMAIN given : given[i].of < i
        /\ next # 0 => \A i \in DOMAIN given : given[i].of = next => given[i].kind # "Err"
        /\ \A i, j \in DOMAIN given : i < j /\ given[i].kind = "Err" /\ given[i].of # 0 => given[j].of # given[i].of
    BY <1>1 DEF Grows, StreamsRight, IsErr, IsOk
  <1> HIDE DEF n
  <1>3. \A i \in DOMAIN given' : (i \in DOMAIN given /\ i < n) \/ i = n
    BY <1>1
  <1>4. \A i \in DOMAIN given' : given'[i].of < i
    BY <1>1, <1>2, <1>3
  <1>5. next' \in 0 .. Len(given')
    BY <1>1
  <1>6. next' # 0 => \A i \in DOMAIN given' : given'[i].of = next' => given'[i].kind # "Err"
    <2>1. CASE next' = next
      BY <1>1, <1>2, <1>3, <2>1
    <2>2. CASE next' = n /\ of = 0
      BY <1>1, <1>2, <1>3, <2>2
    <2> QED BY <1>1, <2>1, <2>2
  <1>7. \A i, j \in DOMAIN given' : i < j /\ given'[i].kind = "Err" /\ given'[i].of # 0 => given'[j].of # given'[i].of
    <2>1. ASSUME NEW i \in DOMAIN given', NEW j \in DOMAIN given', i < j, given'[i].kind = "Err", given'[i].of # 0
          PROVE  given'[j].of # given'[i].of
      <3>1. i \in DOMAIN given
        BY <1>1, <2>1
      <3>2. CASE j \in DOMAIN given
        BY <1>2, <2>1, <3>1, <3>2
      <3>3. CASE j = n
        BY <1>2, <2>1, <3>1, <3>3
      <3> QED BY <1>3, <3>2, <3>3
    <2> QED BY <2>1
  <1> QED BY <1>4, <1>5, <1>6, <1>7 DEF StreamsRight, IsErr, IsOk

\* ... a verdict more, ...
LEMMA StreamsJudged ==
    ASSUME StreamsRight, NEW i, NEW verdict, Judges(i, verdict), UNCHANGED next
    PROVE  StreamsRight'
  BY DEF StreamsRight, Judges, IsErr, IsOk

\* ... and the inner stream left.
LEMMA StreamsSame ==
    ASSUME StreamsRight, UNCHANGED given, next' \in {0, next}, Len(given) \in Nat
    PROVE  StreamsRight'
  BY DEF StreamsRight, IsErr, IsOk

\* An inner stream ends with its error.
LEMMA StreamsStep ==
    ASSUME TypeOK, Shape, StreamsRight, [Next]_vars
    PROVE  StreamsRight'
  <1>0. /\ SourceTypeOK /\ next \in 0 .. MaxAnswers /\ next \in Nat /\ Len(given) \in Nat
        /\ Asks => Len(given) > 0
    BY SourceAssumption DEF TypeOK, SourceTypeOK, Shape
  <1>1. CASE ItemFrame /\ Awaits
    <2>1. UNCHANGED <<given, next>>
      BY <1>0, <1>1 DEF ItemFrame, Awaits, AwaitsFuture, FuturePends, Waits
    <2> QED BY <1>0, <2>1, StreamsSame
  <1>2. ASSUME NEW ok \in BOOLEAN, ItemFrame, Decides(ok)
        PROVE  StreamsRight'
    <2>1. Judges(Len(given), IF ok THEN "keep" ELSE "err") /\ UNCHANGED next
      BY <1>0, <1>2, ResolvesJudges DEF ItemFrame, Decides, Finishes
    <2> QED BY <1>0, <2>1, StreamsJudged
  <1>3. CASE ItemFrame /\ Drops
    <2>1. Judges(Len(given), "drop") /\ UNCHANGED next
      BY <1>0, <1>3, ResolvesJudges DEF ItemFrame, Drops, Finishes
    <2> QED BY <1>0, <2>1, StreamsJudged
  <1>4. CASE ItemFrame /\ Stops
    <2>1. Judges(Len(given), "drop") /\ UNCHANGED next
      BY <1>0, <1>4, ResolvesJudges DEF ItemFrame, Stops, Finishes
    <2> QED BY <1>0, <2>1, StreamsJudged
  <1>5. ASSUME NEW kind \in {"Ok", "Err"}, ItemFrame, Begins(kind)
        PROVE  StreamsRight'
    <2>1. Grows(kind, 0) /\ UNCHANGED next
      BY <1>0, <1>5, GivesGrows DEF ItemFrame, Begins, Starts
    <2> QED BY <1>0, <2>1, StreamsGrow
  <1>6. ASSUME NEW kind \in {"Ok", "Err"}, ItemFrame, Passes(kind)
        PROVE  StreamsRight'
    <2>1. Grows(kind, 0) /\ UNCHANGED next
      BY <1>0, <1>6, GivesGrows DEF ItemFrame, Passes, PassItem
    <2> QED BY <1>0, <2>1, StreamsGrow
  <1>7. CASE ItemFrame /\ Closes
    <2>1. UNCHANGED <<given, next>>
      BY <1>0, <1>7, EndsFacts DEF ItemFrame, Closes, PassEnd
    <2> QED BY <1>0, <2>1, StreamsSame
  <1>8. CASE ItemFrame /\ Idles
    <2>1. UNCHANGED <<given, next>>
      BY <1>0, <1>8 DEF ItemFrame, Idles, PassPending, Pends, Waits
    <2> QED BY <1>0, <2>1, StreamsSame
  <1>9. CASE ItemFrame /\ Rests
    <2>1. UNCHANGED <<given, next>>
      BY <1>0, <1>9 DEF ItemFrame, Rests, sourceVars
    <2> QED BY <1>0, <2>1, StreamsSame
  <1>10. CASE ChunkFrame /\ TakeStash
    <2>1. UNCHANGED <<given, next>>
      BY <1>0, <1>10 DEF ChunkFrame, TakeStash, sourceVars
    <2> QED BY <1>0, <2>1, StreamsSame
  <1>11. CASE ChunkFrame /\ stash = <<>> /\ Collect
    <2>1. Grows("Ok", 0) /\ UNCHANGED next
      BY <1>0, <1>11, GivesGrows DEF ChunkFrame, Collect
    <2> QED BY <1>0, <2>1, StreamsGrow
  <1>12. CASE ChunkFrame /\ stash = <<>> /\ OnError
    <2>1. Grows("Err", 0) /\ UNCHANGED next
      BY <1>0, <1>12, GivesGrows DEF ChunkFrame, OnError
    <2> QED BY <1>0, <2>1, StreamsGrow
  <1>13. CASE ChunkFrame /\ stash = <<>> /\ OnEnd
    <2>1. UNCHANGED <<given, next>>
      BY <1>0, <1>13, EndsFacts DEF ChunkFrame, OnEnd
    <2> QED BY <1>0, <2>1, StreamsSame
  <1>14. CASE ChunkFrame /\ stash = <<>> /\ OnPending
    <2>1. UNCHANGED <<given, next>>
      BY <1>0, <1>14 DEF ChunkFrame, OnPending, Pends, Waits
    <2> QED BY <1>0, <2>1, StreamsSame
  <1>15. CASE FillFrame /\ FillOk
    <2>1. Grows("Ok", 0) /\ UNCHANGED next
      BY <1>0, <1>15, GivesGrows DEF FillFrame, FillOk
    <2> QED BY <1>0, <2>1, StreamsGrow
  <1>16. CASE FillFrame /\ FillErr
    <2>1. Grows("Err", 0) /\ UNCHANGED next
      BY <1>0, <1>16, GivesGrows DEF FillFrame, FillErr
    <2> QED BY <1>0, <2>1, StreamsGrow
  <1>17. CASE FillFrame /\ FillStops
    <2>1. UNCHANGED <<given, next>>
      BY <1>0, <1>17, EndsFacts DEF FillFrame, FillStops, Pends, Waits, sourceVars
    <2> QED BY <1>0, <2>1, StreamsSame
  <1>18. CASE TakeFrame /\ TakePending
    <2>1. UNCHANGED <<given, next>>
      BY <1>0, <1>18 DEF TakeFrame, TakePending, sourceVars
    <2> QED BY <1>0, <2>1, StreamsSame
  <1>19. CASE TakeFrame /\ TakeNone
    <2>1. UNCHANGED <<given, next>>
      BY <1>0, <1>19 DEF TakeFrame, TakeNone, sourceVars
    <2> QED BY <1>0, <2>1, StreamsSame
  <1>20. ASSUME NEW k \in DOMAIN inProgress, TakeFrame, TakeItem(k)
        PROVE  StreamsRight'
    <2>1. UNCHANGED <<given, next>>
      BY <1>0, <1>20 DEF TakeFrame, TakeItem, sourceVars
    <2> QED BY <1>0, <2>1, StreamsSame
  <1>21. CASE FlattenFrame /\ InnerItem
    <2>1. Grows("Ok", next) /\ UNCHANGED next /\ next # 0
      BY <1>0, <1>21, GivenGrows DEF FlattenFrame, InnerItem, InnerGives
    <2> QED BY <1>0, <2>1, StreamsGrow
  <1>22. CASE FlattenFrame /\ InnerError
    <2>1. Grows("Err", next) /\ next' = 0 /\ next # 0
      BY <1>0, <1>22, GivenGrows DEF FlattenFrame, InnerError, InnerGives
    <2> QED BY <1>0, <2>1, StreamsGrow
  <1>23. CASE FlattenFrame /\ InnerEnd
    <2>1. UNCHANGED given /\ next' = 0
      BY <1>0, <1>23 DEF FlattenFrame, InnerEnd, sourceVars
    <2> QED BY <1>0, <2>1, StreamsSame
  <1>24. CASE FlattenFrame /\ InnerPending
    <2>1. UNCHANGED <<given, next>>
      BY <1>0, <1>24 DEF FlattenFrame, InnerPending, Waits
    <2> QED BY <1>0, <2>1, StreamsSame
  <1>25. CASE FlattenFrame /\ OuterStream
    <2>1. Grows("Stream", 0) /\ next = 0 /\ next' = Next1
      BY <1>0, <1>25, GivesGrows DEF FlattenFrame, OuterStream
    <2> QED BY <1>0, <2>1, StreamsGrow
  <1>26. CASE FlattenFrame /\ OuterRest
    <2>1. CASE PassItem("Err")
      <3>1. Grows("Err", 0) /\ UNCHANGED next
        BY <1>0, <1>26, <2>1, GivesGrows DEF OuterRest, PassItem
      <3> QED BY <1>0, <3>1, StreamsGrow
    <2>2. CASE PassRest
      <3>1. UNCHANGED <<given, next>>
        BY <1>0, <1>26, <2>2, EndsFacts DEF OuterRest, PassRest, PassEnd, PassPending, Pends, Waits
      <3> QED BY <1>0, <3>1, StreamsSame
    <2> QED BY <1>0, <1>26, <2>1, <2>2 DEF OuterRest
  <1>27. CASE PollNext
    <2>1. UNCHANGED <<given, next>>
      BY <1>0, <1>27 DEF PollNext, CallPoll, sourceVars
    <2> QED BY <1>0, <2>1, StreamsSame
  <1>28. ASSUME NEW party \in Parties, PartyWakes(party)
        PROVE  StreamsRight'
    <2>1. UNCHANGED <<given, next>>
      BY <1>0, <1>28 DEF PartyWakes, Wakes
    <2> QED BY <1>0, <2>1, StreamsSame
  <1>29. ASSUME NEW i \in DOMAIN given, Completes(i)
        PROVE  StreamsRight'
    <2>1. UNCHANGED next /\ \E verdict \in {"keep", "err"} : Judges(i, verdict)
      BY <1>0, <1>29, CompleteJudges DEF Completes
    <2> QED BY <1>0, <2>1, StreamsJudged
  <1>30. CASE UNCHANGED vars
    <2>1. UNCHANGED <<given, next>>
      BY <1>0, <1>30 DEF vars, sourceVars
    <2> QED BY <1>0, <2>1, StreamsSame
  <1> QED
    BY <1>1, <1>2, <1>3, <1>4, <1>5, <1>6, <1>7, <1>8, <1>9, <1>10, <1>11, <1>12,
       <1>13, <1>14, <1>15, <1>16, <1>17, <1>18, <1>19, <1>20, <1>21, <1>22, <1>23,
       <1>24, <1>25, <1>26, <1>27, <1>28, <1>29, <1>30, StepCases DEF Move

-----------------------------------------------------------------------------
(* Verdicts *)

\* What is delivered and held has been given.
LEMMA HeldGiven ==
    ASSUME TypeOK, Shape, BufferShape, InOrder
    PROVE  /\ ToSet(items) \subseteq DOMAIN given /\ ToSet(stash) \subseteq DOMAIN given
           /\ ToSet(delivered) \subseteq DOMAIN given
           /\ Buffered => ToSet(inProgress) \subseteq DOMAIN given
           /\ Held \in Seq(1 .. MaxAnswers)
  <1>1. Held \in Seq(1 .. MaxAnswers)
    <2>1. CASE fut /\ adaptor # "TryUnfold"
      <3>1. Len(given) \in 1 .. MaxAnswers
        BY <2>1, Indices DEF Shape, Asks
      <3> QED BY <2>1, <3>1, Short DEF Held
    <2>2. CASE ~(fut /\ adaptor # "TryUnfold")
      <3>1. Held = items \o stash
        BY <2>2 DEF Held
      <3> QED BY <3>1, Glued DEF TypeOK
    <2> QED BY <2>1, <2>2
  <1>2. CASE ~Buffered
    <2>0. delivered \in Seq(1 .. MaxAnswers)
      BY DEF TypeOK
    <2>a. ToSet(delivered \o Held) = ToSet(delivered) \cup ToSet(Held)
      BY <1>1, <2>0, Glued
    <2>b. ToSet(delivered \o Held) = Coming
      BY <1>2, ListsOrdered DEF InOrder
    <2>1. ToSet(delivered) \cup ToSet(Held) \subseteq DOMAIN given
      BY <2>a, <2>b DEF Coming
    <2>2. CASE Chunked
      <3>1. Held = items \o stash
        BY <2>2 DEF Shape, Asking, Chunked, Held
      <3>2. ToSet(Held) = ToSet(items) \cup ToSet(stash)
        BY <3>1, Glued DEF TypeOK
      <3> QED BY <1>1, <1>2, <2>1, <3>2
    <2>3. CASE ~Chunked
      <3>1. items = <<>> /\ stash = <<>>
        BY <2>3 DEF BufferShape
      <3> QED BY <1>1, <1>2, <2>1, <3>1, Empty
    <2> QED BY <2>2, <2>3
  <1>3. CASE Buffered
    <2>1. ToSet(delivered) \cup ToSet(inProgress) = DOMAIN given
      <3>1. delivered \in Seq(1 .. MaxAnswers) /\ inProgress \in Seq(1 .. MaxAnswers)
        BY DEF TypeOK
      <3>2. ToSet(delivered \o inProgress) = ToSet(delivered) \cup ToSet(inProgress)
        BY <3>1, Glued
      <3> QED BY <1>3, <3>2 DEF InOrder, ThroughQueue
    <2>2. items = <<>> /\ stash = <<>>
      BY <1>3 DEF BufferShape, Buffered, Chunked
    <2> QED BY <1>1, <2>1, <2>2, Empty
  <1> QED BY <1>2, <1>3

\* What the queue holds it lists.
LEMMA NotInQueue ==
    ASSUME NEW i, InQueue(i)
    PROVE  i \in ToSet(inProgress) /\ inProgress # <<>>
  BY DEF InQueue, Contains, ToSet

\* A new entry has no verdict, and does not change the others', ...
LEMMA VerdictsGrow ==
    ASSUME Verdicts, NEW kind, NEW of, Grows(kind, of), UNCHANGED adaptor,
           ToSet(items) \subseteq DOMAIN given, ToSet(stash) \subseteq DOMAIN given,
           left \in Nat,
           Asks' => (kind = "Err" <=> adaptor = "OrElse"),
           adaptor = "TrySkipWhile" => IF done' THEN done \/ kind = "Err" ELSE ~done /\ kind # "Err",
           ToSet(items') \subseteq ToSet(items) \cup (IF kind = "Err" THEN {} ELSE {Next1}),
           ToSet(stash') \subseteq ToSet(stash) \cup (IF kind = "Err" THEN {Next1} ELSE {})
    PROVE  Verdicts'
  <1>0. PICK n : n = Len(given) + 1
    OBVIOUS
  <1>1. n = Next1 /\ DOMAIN given' = DOMAIN given \cup {n} /\ Len(given') = n /\ left # 0
    BY <1>0 DEF Grows
  <1>2. /\ \A i \in DOMAIN given : (IsErr(i)' <=> IsErr(i)) /\ Verdict(i)' = Verdict(i)
        /\ (IsErr(n)' <=> kind = "Err") /\ Verdict(n)' = "none"
        /\ SkippingEndedBefore(n + 1)' <=> SkippingEndedBefore(n) \/ kind = "Err"
    BY <1>1, EntriesGrow
  <1>3. Asks' => (given[Len(given)].verdict = "none" /\ (IsErr(Len(given)) <=> adaptor = "OrElse"))'
    BY <1>1, <1>2 DEF IsErr, Verdict
  <1>4. (adaptor = "TrySkipWhile" =>
          IF done THEN left = 0 \/ SkippingEndedBefore(Len(given) + 1)
                  ELSE ~SkippingEndedBefore(Len(given) + 1))'
    <2>1. SkippingEndedBefore(Len(given) + 1)' <=> SkippingEndedBefore(n + 1)'
      BY <1>1 DEF SkippingEndedBefore
    <2> QED BY <1>0, <1>1, <1>2, <2>1 DEF Verdicts
  <1>5. /\ (adaptor \notin Asking /\ ~Buffered => \A i \in DOMAIN given : Verdict(i) = "none")'
        /\ (Buffered => \A i \in DOMAIN given : Verdict(i) # "drop")'
    BY <1>1, <1>2 DEF Verdicts, Buffered
  <1>6. (\A i \in ToSet(items) : IsOk(i))' /\ (\A i \in ToSet(stash) : IsErr(i))'
    BY <1>1, <1>2 DEF Verdicts, IsOk
  <1> QED BY <1>3, <1>4, <1>5, <1>6 DEF Verdicts

\* ... the last entry's future decides on that entry alone, ...
LEMMA VerdictsJudged ==
    ASSUME Shape, Verdicts, NEW verdict, Judges(Len(given), verdict), UNCHANGED adaptor, Asks, ~Asks',
           UNCHANGED <<items, stash>>,
           ToSet(items) \subseteq DOMAIN given, ToSet(stash) \subseteq DOMAIN given,
           adaptor = "TrySkipWhile" => IF done' THEN verdict \in {"keep", "err"} ELSE verdict = "drop"
    PROVE  Verdicts'
  <1>0. PICK n : n = Len(given)
    OBVIOUS
  <1>1. Len(given') = n /\ adaptor \in Asking /\ ~Buffered /\ ~Buffered' /\ ~done
    BY <1>0 DEF Judges, Asks, Asking, Buffered, Shape
  <1>2. /\ \A i \in DOMAIN given : IsErr(i)' <=> IsErr(i)
        /\ adaptor = "TrySkipWhile" =>
              (SkippingEndedBefore(n + 1)' <=>
                 SkippingEndedBefore(n) \/ IsErr(n) \/ verdict \in {"keep", "err"})
    BY <1>0, EntriesJudged
  <1>3. (adaptor = "TrySkipWhile" =>
          IF done THEN left = 0 \/ SkippingEndedBefore(Len(given) + 1)
                  ELSE ~SkippingEndedBefore(Len(given) + 1))'
    <2>1. SkippingEndedBefore(Len(given) + 1)' <=> SkippingEndedBefore(n + 1)'
      BY <1>1 DEF SkippingEndedBefore
    <2>2. adaptor = "TrySkipWhile" => ~IsErr(n) /\ ~SkippingEndedBefore(n + 1)
      BY <1>0, <1>1 DEF Verdicts
    <2>3. SkippingEndedBefore(n) => SkippingEndedBefore(n + 1)
      BY <1>0 DEF SkippingEndedBefore, Judges
    <2> QED BY <1>2, <2>1, <2>2, <2>3
  <1>4. (\A i \in ToSet(items) : IsOk(i))' /\ (\A i \in ToSet(stash) : IsErr(i))'
    BY <1>2 DEF Verdicts, IsOk
  <1> QED BY <1>1, <1>3, <1>4 DEF Verdicts

\* ... a buffered future on its own, ...
LEMMA VerdictsCompleted ==
    ASSUME Verdicts, NEW n, NEW verdict \in {"keep", "err"}, Judges(n, verdict), UNCHANGED adaptor,
           Buffered, UNCHANGED <<items, stash>>,
           ToSet(items) \subseteq DOMAIN given, ToSet(stash) \subseteq DOMAIN given
    PROVE  Verdicts'
  <1>1. /\ \A i \in DOMAIN given : IsErr(i)' <=> IsErr(i)
        /\ \A i \in DOMAIN given \ {n} : Verdict(i)' = Verdict(i)
        /\ Verdict(n)' = verdict /\ DOMAIN given' = DOMAIN given
    BY EntriesJudged DEF Judges, Buffered
  <1>2. adaptor \notin Asking /\ Buffered' /\ ~Asks' /\ adaptor # "TrySkipWhile"
    BY DEF Buffered, Asking, Asks
  <1>3. (\A i \in DOMAIN given : Verdict(i) # "drop")'
    BY <1>1 DEF Verdicts
  <1>4. (\A i \in ToSet(items) : IsOk(i))' /\ (\A i \in ToSet(stash) : IsErr(i))'
    BY <1>1 DEF Verdicts, IsOk
  <1> QED BY <1>2, <1>3, <1>4 DEF Verdicts

\* ... and nothing else decides.
LEMMA VerdictsSame ==
    ASSUME Verdicts, UNCHANGED <<given, adaptor, left>>, Asks' => Asks,
           ToSet(items') \subseteq ToSet(items), ToSet(stash') \subseteq ToSet(stash),
           adaptor = "TrySkipWhile" => (done' <=> done) \/ (left = 0 /\ done')
    PROVE  Verdicts'
  BY EntriesSame DEF Verdicts, Buffered, IsOk, IsErr, Verdict, SkippingEndedBefore

\* What the function's futures have decided.
LEMMA VerdictsStep ==
    ASSUME TypeOK, Shape, BufferShape, Verdicts, InOrder, [Next]_vars
    PROVE  Verdicts'
  <1>a. SourceTypeOK /\ BufferTyped /\ Len(given) \in Nat /\ left \in Nat /\ next \in 0 .. MaxAnswers
    BY DEF TypeOK, SourceTypeOK, BufferTyped
  <1>b. left > 0 => Next1 \in 1 .. MaxAnswers
    BY Indices
  <1>c. ToSet(items) \subseteq DOMAIN given /\ ToSet(stash) \subseteq DOMAIN given
    BY HeldGiven
  <1>d. Asks => Len(given) > 0
    BY DEF Shape
  <1>0. /\ SourceTypeOK /\ next \in 0 .. MaxAnswers /\ Verdicts /\ BufferTyped /\ left \in Nat
        /\ left > 0 => Next1 \in 1 .. MaxAnswers
        /\ ToSet(items) \subseteq DOMAIN given /\ ToSet(stash) \subseteq DOMAIN given
        /\ Asks => Len(given) > 0
    BY <1>a, <1>b, <1>c, <1>d
  <1>1. CASE ItemFrame /\ Awaits
    <2>1. UNCHANGED <<given, adaptor, left, items, stash, done>> /\ Asks' = Asks
      BY <1>0, <1>1 DEF ItemFrame, Awaits, Asks, setup, itemVars, chunkVars, AwaitsFuture, FuturePends, Waits
    <2> QED BY <1>0, <2>1, VerdictsSame
  <1>2. ASSUME NEW ok \in BOOLEAN, ItemFrame, Decides(ok)
        PROVE  Verdicts'
    <2>1. Judges(Len(given), IF ok THEN "keep" ELSE "err") /\ UNCHANGED adaptor /\ ~Asks' /\ Asks
      BY <1>0, <1>2, ResolvesJudges DEF ItemFrame, Decides, Finishes, setup, Asks
    <2>2. UNCHANGED <<items, stash>>
      BY <1>0, <1>2 DEF ItemFrame, Decides, chunkVars
    <2>3. adaptor = "TrySkipWhile" => done'
      BY <1>0, <1>2 DEF ItemFrame, Decides, Asks, Shape
    <2> QED BY <1>0, <2>1, <2>2, <2>3, VerdictsJudged
  <1>3. CASE ItemFrame /\ Drops
    <2>1. Judges(Len(given), "drop") /\ UNCHANGED adaptor /\ ~Asks' /\ Asks
      BY <1>0, <1>3, ResolvesJudges DEF ItemFrame, Drops, Finishes, setup, Asks
    <2>2. UNCHANGED <<items, stash>>
      BY <1>0, <1>3 DEF ItemFrame, Drops, chunkVars
    <2>3. adaptor = "TrySkipWhile" => ~done'
      BY <1>0, <1>3 DEF ItemFrame, Drops, Asks, Shape
    <2> QED BY <1>0, <2>1, <2>2, <2>3, VerdictsJudged
  <1>4. CASE ItemFrame /\ Stops
    <2>1. Judges(Len(given), "drop") /\ UNCHANGED adaptor /\ ~Asks' /\ Asks
      BY <1>0, <1>4, ResolvesJudges DEF ItemFrame, Stops, Finishes, setup, Asks
    <2>2. UNCHANGED <<items, stash>>
      BY <1>0, <1>4 DEF ItemFrame, Stops, chunkVars
    <2>3. adaptor = "TrySkipWhile" => FALSE
      BY <1>0, <1>4 DEF ItemFrame, Stops, Asks, Shape
    <2> QED BY <1>0, <2>1, <2>2, <2>3, VerdictsJudged
  <1>5. ASSUME NEW kind \in {"Ok", "Err"}, ItemFrame, Begins(kind)
        PROVE  Verdicts'
    <2>1. Grows(kind, 0) /\ UNCHANGED adaptor
      BY <1>0, <1>5, GivesGrows DEF ItemFrame, Begins, setup, Starts, Asks
    <2>2. Asks' => (kind = "Err" <=> adaptor = "OrElse")
      BY <1>0, <1>5 DEF ItemFrame, Begins, Asks, itemVars, setup, Shape, Asking, Starts, Asks
    <2>3. adaptor = "TrySkipWhile" => IF done' THEN done \/ kind = "Err" ELSE ~done /\ kind # "Err"
      BY <1>0, <1>5 DEF ItemFrame, Begins, Asking, While, itemVars, Shape, Starts, Asks
    <2>4. UNCHANGED <<items, stash>>
      BY <1>0, <1>5 DEF ItemFrame, Begins, chunkVars
    <2> QED BY <1>0, <2>1, <2>2, <2>3, <2>4, VerdictsGrow
  <1>6. ASSUME NEW kind \in {"Ok", "Err"}, ItemFrame, Passes(kind)
        PROVE  Verdicts'
    <2>1. Grows(kind, 0) /\ UNCHANGED adaptor
      BY <1>0, <1>6, GivesGrows DEF ItemFrame, Passes, setup, PassItem, Asks
    <2>2. Asks' => (kind = "Err" <=> adaptor = "OrElse")
      BY <1>0, <1>6 DEF ItemFrame, Passes, Asks, itemVars, setup, Shape, Asking, PassItem, Asks
    <2>3. adaptor = "TrySkipWhile" => IF done' THEN done \/ kind = "Err" ELSE ~done /\ kind # "Err"
      BY <1>0, <1>6 DEF ItemFrame, Passes, Asking, While, itemVars, Shape, PassItem, Asks
    <2>4. UNCHANGED <<items, stash>>
      BY <1>0, <1>6 DEF ItemFrame, Passes, chunkVars
    <2> QED BY <1>0, <2>1, <2>2, <2>3, <2>4, VerdictsGrow
  <1>7. CASE ItemFrame /\ Closes
    <2>1. UNCHANGED <<given, adaptor, left>> /\ ~Asks' /\ left = 0
      BY <1>0, <1>7, EndsFacts DEF ItemFrame, Closes, PassEnd, Asks, setup
    <2>2. adaptor = "TrySkipWhile" => done'
      BY <1>0, <1>7 DEF Closes, While
    <2>3. UNCHANGED <<items, stash>>
      BY <1>0, <1>7 DEF ItemFrame, chunkVars
    <2> QED BY <1>0, <2>1, <2>2, <2>3, VerdictsSame
  <1>8. CASE ItemFrame /\ Idles
    <2>1. UNCHANGED <<given, adaptor, left, items, stash, done>> /\ ~Asks'
      BY <1>0, <1>8 DEF ItemFrame, Idles, PassPending, Pends, Waits, Asks, Asking, setup, chunkVars
    <2> QED BY <1>0, <2>1, VerdictsSame
  <1>9. CASE ItemFrame /\ Rests
    <2>1. UNCHANGED <<given, adaptor, left, items, stash, done>> /\ Asks' = Asks
      BY <1>0, <1>9 DEF ItemFrame, Rests, Asks, setup, itemVars, chunkVars, sourceVars
    <2> QED BY <1>0, <2>1, VerdictsSame
  <1>10. CASE ChunkFrame /\ TakeStash
    <2>1. UNCHANGED <<given, adaptor, left, items, done>> /\ stash' = <<>> /\ Asks' = Asks
      BY <1>0, <1>10 DEF ChunkFrame, TakeStash, Asks, setup, itemVars, sourceVars
    <2> QED BY <1>0, <2>1, VerdictsSame, Empty
  <1>11. CASE ChunkFrame /\ stash = <<>> /\ Collect
    <2>1. Grows("Ok", 0) /\ UNCHANGED adaptor /\ adaptor \notin Asking /\ ~Asks'
      BY <1>0, <1>11, GivesGrows DEF ChunkFrame, Collect, Asks, Asking, Chunked, Buffered, setup, itemVars
    <2>2. adaptor # "TrySkipWhile"
      BY <1>0, <2>1 DEF Asking
    <2>3. UNCHANGED stash /\ (items' = <<>> \/ items' = Append(items, Next1))
      BY <1>0, <1>11 DEF Collect
    <2>4. Next1 \in 1 .. MaxAnswers
      BY <1>0, <2>1 DEF Grows
    <2>5. ToSet(items') \subseteq ToSet(items) \cup {Next1}
      <3>1. ToSet(<<>>) = {}
        BY Empty
      <3>2. ToSet(Append(items, Next1)) = ToSet(items) \cup {Next1}
        <4>1. items \in Seq(1 .. MaxAnswers)
          BY DEF TypeOK
        <4>2. ASSUME NEW S, items \in Seq(S), Next1 \in S
              PROVE  ToSet(Append(items, Next1)) = ToSet(items) \cup {Next1}
          BY <1>0, <4>2, SetOfAppend
        <4> QED BY <1>0, <2>4, <4>1, <4>2
      <3> QED BY <1>0, <2>3, <3>1, <3>2
    <2> QED BY <1>0, <2>1, <2>2, <2>3, <2>5, VerdictsGrow
  <1>12. CASE ChunkFrame /\ stash = <<>> /\ OnError
    <2>1. Grows("Err", 0) /\ UNCHANGED adaptor /\ adaptor \notin Asking /\ ~Asks'
      BY <1>0, <1>12, GivesGrows DEF ChunkFrame, OnError, Asks, Asking, Chunked, Buffered, setup, itemVars
    <2>2. adaptor # "TrySkipWhile"
      BY <1>0, <2>1 DEF Asking
    <2>3. (items' = items \/ items' = <<>>) /\ (stash' = stash \/ stash' = <<Next1>>)
      BY <1>0, <1>12 DEF OnError, Flush, chunkVars
    <2>4. ToSet(stash') \subseteq ToSet(stash) \cup {Next1} /\ ToSet(items') \subseteq ToSet(items)
      BY <1>0, <2>3, Empty, Short
    <2> QED BY <1>0, <2>1, <2>2, <2>4, VerdictsGrow
  <1>13. CASE ChunkFrame /\ stash = <<>> /\ OnEnd
    <2>1. UNCHANGED <<given, adaptor, left>> /\ Asks' = Asks /\ UNCHANGED done
      BY <1>0, <1>13, EndsFacts DEF ChunkFrame, OnEnd, Asks, setup, itemVars
    <2>2. ToSet(items') \subseteq ToSet(items) /\ UNCHANGED stash
      BY <1>0, <1>13, Empty DEF ChunkFrame, OnEnd, Flush
    <2> QED BY <1>0, <2>1, <2>2, VerdictsSame
  <1>14. CASE ChunkFrame /\ stash = <<>> /\ OnPending
    <2>1. UNCHANGED <<given, adaptor, left>> /\ Asks' = Asks /\ UNCHANGED done
      BY <1>0, <1>14 DEF ChunkFrame, OnPending, Asks, setup, itemVars, Pends, Waits
    <2>2. ToSet(items') \subseteq ToSet(items) /\ UNCHANGED stash
      BY <1>0, <1>14, Empty DEF ChunkFrame, OnPending, Flush
    <2> QED BY <1>0, <2>1, <2>2, VerdictsSame
  <1>15. CASE FillFrame /\ FillOk
    <2>1. Grows("Ok", 0) /\ UNCHANGED adaptor /\ adaptor \notin Asking /\ ~Asks'
      BY <1>0, <1>15, GivesGrows DEF FillFrame, FillOk, Asks, Asking, Chunked, Buffered, setup, itemVars
    <2>2. adaptor # "TrySkipWhile"
      BY <1>0, <2>1 DEF Asking
    <2>3. UNCHANGED <<items, stash>>
      BY <1>0, <1>15 DEF FillFrame, FillOk, chunkVars
    <2> QED BY <1>0, <2>1, <2>2, <2>3, VerdictsGrow
  <1>16. CASE FillFrame /\ FillErr
    <2>1. Grows("Err", 0) /\ UNCHANGED adaptor /\ adaptor \notin Asking /\ ~Asks'
      BY <1>0, <1>16, GivesGrows DEF FillFrame, FillErr, Asks, Asking, Chunked, Buffered, setup, itemVars
    <2>2. adaptor # "TrySkipWhile"
      BY <1>0, <2>1 DEF Asking
    <2>3. UNCHANGED <<items, stash>>
      BY <1>0, <1>16 DEF FillFrame, FillErr, chunkVars
    <2> QED BY <1>0, <2>1, <2>2, <2>3, VerdictsGrow
  <1>17. CASE FillFrame /\ FillStops
    <2>1. UNCHANGED <<given, adaptor, left, items, stash, done>> /\ Asks' = Asks
      BY <1>0, <1>17, EndsFacts DEF FillFrame, FillStops, Asks, setup, itemVars, chunkVars, Pends, Waits, sourceVars
    <2> QED BY <1>0, <2>1, VerdictsSame
  <1>18. CASE TakeFrame /\ TakePending
    <2>1. UNCHANGED <<given, adaptor, left, items, stash, done>> /\ Asks' = Asks
      BY <1>0, <1>18 DEF TakeFrame, TakePending, Asks, setup, itemVars, chunkVars, sourceVars
    <2> QED BY <1>0, <2>1, VerdictsSame
  <1>19. CASE TakeFrame /\ TakeNone
    <2>1. UNCHANGED <<given, adaptor, left, items, stash, done>> /\ Asks' = Asks
      BY <1>0, <1>19 DEF TakeFrame, TakeNone, Asks, setup, itemVars, chunkVars, sourceVars
    <2> QED BY <1>0, <2>1, VerdictsSame
  <1>20. ASSUME NEW k \in DOMAIN inProgress, TakeFrame, TakeItem(k)
        PROVE  Verdicts'
    <2>1. UNCHANGED <<given, adaptor, left, items, stash, done>> /\ Asks' = Asks
      BY <1>0, <1>20 DEF TakeFrame, TakeItem, Asks, setup, itemVars, chunkVars, sourceVars
    <2> QED BY <1>0, <2>1, VerdictsSame
  <1>21. CASE FlattenFrame /\ InnerItem
    <2>1. Grows("Ok", next) /\ UNCHANGED adaptor /\ adaptor \notin Asking /\ ~Asks'
      BY <1>0, <1>21, GivenGrows DEF FlattenFrame, InnerItem, Asks, Asking, Chunked, Buffered, setup, itemVars, InnerGives
    <2>2. adaptor # "TrySkipWhile"
      BY <1>0, <2>1 DEF Asking
    <2>3. UNCHANGED <<items, stash>>
      BY <1>0, <1>21 DEF FlattenFrame, InnerItem, chunkVars
    <2> QED BY <1>0, <2>1, <2>2, <2>3, VerdictsGrow
  <1>22. CASE FlattenFrame /\ InnerError
    <2>1. Grows("Err", next) /\ UNCHANGED adaptor /\ adaptor \notin Asking /\ ~Asks'
      BY <1>0, <1>22, GivenGrows DEF FlattenFrame, InnerError, Asks, Asking, Chunked, Buffered, setup, itemVars, InnerGives
    <2>2. adaptor # "TrySkipWhile"
      BY <1>0, <2>1 DEF Asking
    <2>3. UNCHANGED <<items, stash>>
      BY <1>0, <1>22 DEF FlattenFrame, InnerError, chunkVars
    <2> QED BY <1>0, <2>1, <2>2, <2>3, VerdictsGrow
  <1>23. CASE FlattenFrame /\ InnerEnd
    <2>1. UNCHANGED <<given, adaptor, left, items, stash, done>> /\ Asks' = Asks
      BY <1>0, <1>23 DEF FlattenFrame, InnerEnd, Asks, setup, itemVars, chunkVars, sourceVars
    <2> QED BY <1>0, <2>1, VerdictsSame
  <1>24. CASE FlattenFrame /\ InnerPending
    <2>1. UNCHANGED <<given, adaptor, left, items, stash, done>> /\ Asks' = Asks
      BY <1>0, <1>24 DEF FlattenFrame, InnerPending, Asks, setup, itemVars, chunkVars, Waits
    <2> QED BY <1>0, <2>1, VerdictsSame
  <1>25. CASE FlattenFrame /\ OuterStream
    <2>1. Grows("Stream", 0) /\ UNCHANGED adaptor /\ adaptor \notin Asking /\ ~Asks'
      BY <1>0, <1>25, GivesGrows DEF FlattenFrame, OuterStream, Asks, Asking, Chunked, Buffered, setup, itemVars
    <2>2. adaptor # "TrySkipWhile"
      BY <1>0, <2>1 DEF Asking
    <2>3. UNCHANGED <<items, stash>>
      BY <1>0, <1>25 DEF FlattenFrame, OuterStream, chunkVars
    <2> QED BY <1>0, <2>1, <2>2, <2>3, VerdictsGrow
  <1>26. CASE FlattenFrame /\ OuterRest
    <2>1. CASE PassItem("Err")
      <3>1. Grows("Err", 0) /\ UNCHANGED <<adaptor, items, stash>> /\ adaptor \notin Asking /\ ~Asks'
        BY <1>0, <1>26, <2>1, GivesGrows DEF FlattenFrame, OuterRest, PassItem, Asks, Asking, setup, itemVars, chunkVars
      <3>2. adaptor # "TrySkipWhile"
        BY <1>0, <3>1 DEF Asking
      <3> QED BY <1>0, <3>1, <3>2, VerdictsGrow
    <2>2. CASE PassRest
      <3>1. UNCHANGED <<given, adaptor, left, items, stash, done>> /\ Asks' = Asks
        BY <1>0, <1>26, <2>2, EndsFacts DEF FlattenFrame, OuterRest, PassRest, PassEnd, PassPending, Pends, Waits, Asks, setup,
           itemVars, chunkVars
      <3> QED BY <1>0, <3>1, VerdictsSame
    <2> QED BY <1>0, <1>26, <2>1, <2>2 DEF OuterRest
  <1>27. CASE PollNext
    <2>1. UNCHANGED <<given, adaptor, left, items, stash, done>> /\ Asks' = Asks
      BY <1>0, <1>27 DEF PollNext, Asks, setup, itemVars, chunkVars, CallPoll, sourceVars
    <2> QED BY <1>0, <2>1, VerdictsSame
  <1>28. ASSUME NEW party \in Parties, PartyWakes(party)
        PROVE  Verdicts'
    <2>1. UNCHANGED <<given, adaptor, left, items, stash, done>> /\ Asks' = Asks
      BY <1>0, <1>28 DEF PartyWakes, Asks, setup, itemVars, chunkVars, Wakes
    <2> QED BY <1>0, <2>1, VerdictsSame
  <1>29. ASSUME NEW i \in DOMAIN given, Completes(i)
        PROVE  Verdicts'
    <2>1. PICK verdict \in {"keep", "err"} : Judges(i, verdict)
      BY <1>0, <1>29, CompleteJudges DEF Completes
    <2>2. UNCHANGED <<adaptor, left, items, stash, done>> /\ Asks' = (fut /\ adaptor \in Asking) /\ InQueue(i)
      BY <1>0, <1>29 DEF Completes, Complete, Asks, setup, itemVars, chunkVars
    <2>3. Buffered
      BY <1>0, <2>2, NotInQueue DEF BufferShape
    <2> QED BY <1>0, <2>1, <2>2, <2>3, VerdictsCompleted
  <1>30. CASE UNCHANGED vars
    <2>1. UNCHANGED <<given, adaptor, left, items, stash, done>> /\ Asks' = Asks
      BY <1>0, <1>30 DEF vars, Asks, setup, itemVars, chunkVars, sourceVars
    <2> QED BY <1>0, <2>1, VerdictsSame
  <1> QED
    BY <1>1, <1>2, <1>3, <1>4, <1>5, <1>6, <1>7, <1>8, <1>9, <1>10, <1>11, <1>12,
       <1>13, <1>14, <1>15, <1>16, <1>17, <1>18, <1>19, <1>20, <1>21, <1>22, <1>23,
       <1>24, <1>25, <1>26, <1>27, <1>28, <1>29, <1>30, StepCases DEF Move

-----------------------------------------------------------------------------
(* The order of the entries *)

\* What has come out and what is held, where nothing is buffered.
Line == delivered \o Held

LineRight == Ordered(Line) /\ ToSet(Line) = Coming
CallsRight == Ordered(called) /\ ToSet(called) = Calling

\* In the form the steps are proved in, now and in the next state.
LEMMA OrderedLists ==
    /\ (~Buffered => (InOrder <=> LineRight)) /\ (~Buffered => (InOrder <=> LineRight))'
    /\ (Lists(called, Calls) <=> CallsRight) /\ (Lists(called, Calls) <=> CallsRight)'
  <1>1. (~Buffered => (InOrder <=> LineRight)) /\ (Lists(called, Calls) <=> CallsRight)
    BY ListsOrdered, Zenon DEF InOrder, LineRight, Line, CallsRight
  <1>2. (~Buffered => (InOrder <=> LineRight))'
    <2>1. Rising(delivered \o Held, LAMBDA i : TRUE)' <=> Ordered(delivered \o Held)'
      BY Zenon DEF Rising, Ordered
    <2>2. Lists(delivered \o Held, Comes)' <=> Ordered(delivered \o Held)' /\ ToSet(delivered \o Held)' = Coming'
      BY <2>1, Zenon DEF Lists, Coming
    <2> QED BY <2>2, Zenon DEF InOrder, LineRight, Line
  <1>3. (Lists(called, Calls) <=> CallsRight)'
    <2>1. Rising(called, LAMBDA i : TRUE)' <=> Ordered(called)'
      BY Zenon DEF Rising, Ordered
    <2> QED BY <2>1, Zenon DEF Lists, Calling, CallsRight
  <1> QED BY <1>1, <1>2, <1>3

\* An entry more, and what it makes of the two lists.
LEMMA SetsGrow ==
    ASSUME NEW kind, NEW of, Grows(kind, of), UNCHANGED adaptor, NEW n, n = Next1
    PROVE  /\ Coming' = Coming \cup (IF Comes(n)' THEN {n} ELSE {})
           /\ Calling' = Calling \cup (IF Calls(n)' THEN {n} ELSE {})
           /\ n \in Nat /\ n = Len(given) + 1
           /\ \A i \in Coming \cup Calling : i \in Nat /\ i <= Len(given)
  <1>1. /\ DOMAIN given' = DOMAIN given \cup {n} /\ n \in Nat /\ n = Len(given) + 1
        /\ DOMAIN given = 1 .. Len(given) /\ Len(given) \in Nat
    BY DEF Grows
  <1>2. \A i \in DOMAIN given : (Comes(i)' <=> Comes(i)) /\ (Calls(i)' <=> Calls(i))
    BY EntriesGrow
  <1>3. /\ Coming' = {i \in DOMAIN given' : Comes(i)'}
        /\ Calling' = {i \in DOMAIN given' : Calls(i)'}
    BY Zenon DEF Coming, Calling
  <1>4. /\ Coming = {i \in DOMAIN given : Comes(i)}
        /\ Calling = {i \in DOMAIN given : Calls(i)}
    BY DEF Coming, Calling
  <1>5. Coming' = Coming \cup (IF Comes(n)' THEN {n} ELSE {})
    BY <1>1, <1>2, <1>3, <1>4, Zenon
  <1>6. Calling' = Calling \cup (IF Calls(n)' THEN {n} ELSE {})
    BY <1>1, <1>2, <1>3, <1>4, Zenon
  <1> QED BY <1>1, <1>4, <1>5, <1>6

\* An entry more that comes out, ...
LEMMA LineGrows ==
    ASSUME LineRight, Line \in Seq(Nat), NEW kind, NEW of, Grows(kind, of), UNCHANGED adaptor,
           NEW n, n = Next1, Comes(n)', Line' = Line \o <<n>>
    PROVE  LineRight'
  <1>1. /\ Coming' = Coming \cup {n} /\ n = Len(given) + 1 /\ n \in Nat /\ Len(given) \in Nat
        /\ \A i \in Coming : i <= Len(given)
    BY SetsGrow DEF Grows
  <1>2. Ordered(Line) /\ ToSet(Line) = Coming
    BY DEF LineRight
  <1>3. Ordered(Line \o <<n>>) /\ ToSet(Line \o <<n>>) = ToSet(Line) \cup {n}
    BY <1>1, <1>2, OrderedOneMore
  <1>4. Ordered(Line') /\ ToSet(Line') = Coming'
    BY <1>1, <1>2, <1>3
  <1> QED BY <1>4 DEF LineRight, Ordered, ToSet

\* ... or does not.
LEMMA LineSkips ==
    ASSUME LineRight, NEW kind, NEW of, Grows(kind, of), UNCHANGED adaptor,
           NEW n, n = Next1, ~Comes(n)', Line' = Line
    PROVE  LineRight'
  BY SetsGrow DEF LineRight, Ordered, ToSet

\* The last entry is judged: it comes out after all, ...
LEMMA LineJudged ==
    ASSUME LineRight, NEW verdict, verdict # "drop", Judges(Len(given), verdict), UNCHANGED adaptor,
           Asks, Len(given) \in ToSet(Line), Line' = Line
    PROVE  LineRight'
  <1>1. PICK n : n = Len(given)
    OBVIOUS
  <1>2. /\ \A i \in DOMAIN given \ {n} : Comes(i)' <=> Comes(i)
        /\ Verdict(n)' = verdict /\ n \in DOMAIN given /\ DOMAIN given' = DOMAIN given
    BY <1>1, EntriesJudged DEF Judges
  <1>3. Comes(n)
    BY <1>1 DEF LineRight, Coming
  <1>4. Comes(n)'
    BY <1>2 DEF Comes, Asks, Asking
  <1>5. Coming' = Coming
    BY <1>2, <1>3, <1>4 DEF Coming
  <1> QED BY <1>5 DEF LineRight, Ordered, ToSet

\* ... or not.
LEMMA LineDropped ==
    ASSUME LineRight, Judges(Len(given), "drop"), UNCHANGED adaptor, Asks,
           adaptor = "TrySkipWhile" => ~SkippingEndedBefore(Len(given)),
           NEW s \in Seq(Nat), Line = s \o <<Len(given)>>, Line' = s
    PROVE  LineRight'
  <1>1. PICK n : n = Len(given)
    OBVIOUS
  <1>2. /\ \A i \in DOMAIN given \ {n} : Comes(i)' <=> Comes(i)
        /\ Verdict(n)' = "drop" /\ n \in DOMAIN given /\ DOMAIN given' = DOMAIN given
        /\ adaptor = "TrySkipWhile" => ~SkippingEndedBefore(n)'
        /\ n \in Nat
    <2>1. n \in 1 .. Len(given)
      BY <1>1 DEF Judges
    <2> QED BY <1>1, <2>1, EntriesJudged DEF Judges
  <1>3. ~Comes(n)'
    BY <1>2 DEF Comes, Asks, Asking
  <1>4. Coming' = Coming \ {n}
    BY <1>2, <1>3 DEF Coming
  <1>5. Ordered(s) /\ ToSet(s) = ToSet(s \o <<n>>) \ {n}
    BY <1>1, <1>2, OrderedOneLess DEF LineRight
  <1>6. Ordered(Line') /\ ToSet(Line') = Coming'
    BY <1>1, <1>4, <1>5 DEF LineRight
  <1> QED BY <1>6 DEF LineRight, Ordered, ToSet

\* The line is as it was where nothing of it changes.
LEMMA LineSame ==
    ASSUME LineRight, UNCHANGED <<given, adaptor>>, Line' = Line
    PROVE  LineRight'
  BY EntriesSame DEF LineRight, Ordered, ToSet

\* An entry that is being given comes out, unless it is an inner stream.
LEMMA NewComes ==
    ASSUME NEW kind, NEW of, Grows(kind, of), UNCHANGED adaptor, NEW n, n = Next1
    PROVE  Comes(n)' <=> (adaptor = "TryFlatten" => kind # "Stream")
  <1>1. given'[n].kind = kind /\ Verdict(n)' = "none"
    BY DEF Grows, Verdict
  <1> QED BY <1>1 DEF Comes

\* What is delivered and what is held, with one more at the end.
LEMMA Joined ==
    ASSUME NEW S, NEW d \in Seq(S), NEW h \in Seq(S)
    PROVE  /\ d \o <<>> = d /\ <<>> \o h = h /\ (d \o h) \o <<>> = d \o h /\ <<>> \o <<>> = <<>>
           /\ \A e \in S : /\ (d \o h) \o <<e>> = d \o Append(h, e)
                           /\ (d \o <<e>>) \o <<>> = d \o <<e>>
  <1>1. d \o <<>> = d /\ <<>> \o h = h /\ d \o h \in Seq(S) /\ <<>> \o <<>> = <<>>
    OBVIOUS
  <1>2. (d \o h) \o <<>> = d \o h
    BY <1>1
  <1>3. ASSUME NEW e \in S
        PROVE  (d \o h) \o <<e>> = d \o Append(h, e) /\ (d \o <<e>>) \o <<>> = d \o <<e>>
    <2>1. PICK one \in Seq(S) : one = <<e>>
      BY Short
    <2>2. Append(h, e) = h \o one /\ d \o one \in Seq(S)
      BY <2>1
    <2>3. (d \o h) \o one = d \o (h \o one) /\ (d \o one) \o <<>> = d \o one
      BY <2>2, ConcatAssociative, ConcatEmptySeq
    <2> QED BY <2>1, <2>2, <2>3
  <1> QED BY <1>1, <1>2, <1>3

\* The last one is listed.
LEMMA LastOne ==
    ASSUME NEW S, NEW s \in Seq(S), NEW e \in S
    PROVE  e \in ToSet(s \o <<e>>) /\ (s \o <<e>>) \o <<>> = s \o <<e>>
  BY Appends, Joined

\* A chunk comes out, grows, comes out before an error; an error alone.
LEMMA Chunk ==
    ASSUME NEW S, NEW d \in Seq(S), NEW h \in Seq(S), NEW e \in S
    PROVE  /\ (d \o Append(h, e)) \o (<<>> \o <<>>) = (d \o (h \o <<>>)) \o <<e>>
           /\ d \o (Append(h, e) \o <<>>) = (d \o (h \o <<>>)) \o <<e>>
           /\ (d \o h) \o (<<>> \o <<e>>) = (d \o (h \o <<>>)) \o <<e>>
           /\ (d \o <<e>>) \o (<<>> \o <<>>) = (d \o (<<>> \o <<>>)) \o <<e>>
  <1>0. PICK one \in Seq(S) : one = <<e>>
    BY Short
  <1>1. one = <<e>> /\ Append(h, e) = h \o one
    BY <1>0
  <1>2. /\ d \o <<>> = d /\ h \o <<>> = h /\ <<>> \o one = one /\ <<>> \o <<>> = <<>>
        /\ h \o one \in Seq(S) /\ d \o one \in Seq(S)
    OBVIOUS
  <1>3. (d \o (h \o one)) \o <<>> = d \o (h \o one) /\ (h \o one) \o <<>> = h \o one
        /\ (d \o one) \o <<>> = d \o one
    BY <1>2, ConcatProperties, ConcatEmptySeq
  <1>4. (d \o h) \o one = d \o (h \o one)
    BY ConcatAssociative
  <1> QED BY <1>1, <1>2, <1>3, <1>4

\* The line is a sequence of indices.
LEMMA LineTyped ==
    ASSUME TypeOK, Shape
    PROVE  Line \in Seq(Nat) /\ delivered \in Seq(Nat)
  <1>1. \A s \in Seq(1 .. MaxAnswers) : s \in Seq(Nat)
    BY SourceAssumption
  <1>2. delivered \in Seq(1 .. MaxAnswers) /\ items \in Seq(1 .. MaxAnswers) /\ stash \in Seq(1 .. MaxAnswers)
    BY DEF TypeOK
  <1>3. Held \in Seq(1 .. MaxAnswers)
    <2>1. CASE fut /\ adaptor # "TryUnfold"
      <3>1. Len(given) \in 1 .. MaxAnswers
        BY <2>1, Indices DEF Shape, Asks
      <3> QED BY <2>1, <3>1, Short DEF Held
    <2>2. CASE ~(fut /\ adaptor # "TryUnfold")
      <3>1. Held = items \o stash
        BY <2>2 DEF Held
      <3> QED BY <1>2, <3>1, Glued
    <2> QED BY <2>1, <2>2
  <1>4. Line \in Seq(1 .. MaxAnswers)
    BY <1>2, <1>3, Glued DEF Line
  <1> QED BY <1>1, <1>2, <1>4

\* The entry just given joins the end of the line.
LEMMA LineMore ==
    ASSUME LineRight, Line \in Seq(Nat), NEW kind, NEW of, Grows(kind, of), UNCHANGED adaptor,
           Line' = Line \o <<Next1>>, adaptor # "TryFlatten" \/ kind # "Stream"
    PROVE  LineRight'
  <1>1. PICK n : n = Next1
    OBVIOUS
  <1>2. Comes(n)'
    BY <1>1, NewComes
  <1> QED BY <1>1, <1>2, LineGrows

\* Where nothing is buffered, the entries come out in the order given.
LEMMA LineStep ==
    ASSUME TypeOK, Shape, BufferShape, Verdicts, LineRight, ~Buffered, [Next]_vars
    PROVE  LineRight'
  <1>a. /\ SourceTypeOK /\ next \in 0 .. MaxAnswers /\ next \in Nat /\ left \in Nat /\ Len(given) \in Nat
        /\ delivered \in Seq(1 .. MaxAnswers) /\ items \in Seq(1 .. MaxAnswers)
        /\ stash \in Seq(1 .. MaxAnswers)
    BY SourceAssumption DEF TypeOK, SourceTypeOK
  <1>b. Line \in Seq(Nat) /\ delivered \in Seq(Nat)
    BY LineTyped
  <1>0. /\ SourceTypeOK /\ next \in 0 .. MaxAnswers /\ left \in Nat /\ Len(given) \in Nat
        /\ LineRight /\ Line \in Seq(Nat) /\ delivered \in Seq(Nat)
        /\ delivered \in Seq(1 .. MaxAnswers) /\ items \in Seq(1 .. MaxAnswers)
        /\ stash \in Seq(1 .. MaxAnswers)
        /\ left > 0 => Next1 \in 1 .. MaxAnswers
        /\ Asks => Len(given) > 0 /\ Len(given) \in 1 .. MaxAnswers
        /\ ~Chunked => items = <<>> /\ stash = <<>>
    BY <1>a, <1>b, Indices DEF Shape, BufferShape
  <1>1. CASE ItemFrame /\ Awaits
    <2>1. UNCHANGED <<given, adaptor, delivered, fut, items, stash>>
      BY <1>0, <1>1 DEF ItemFrame, Awaits, setup, outVars, itemVars, chunkVars, AwaitsFuture, FuturePends, Waits, Answer
    <2>2. UNCHANGED Line
      BY <1>0, <2>1 DEF Line, Held
    <2> QED BY <1>0, <2>1, <2>2, LineSame
  <1>2. ASSUME NEW ok \in BOOLEAN, ItemFrame, Decides(ok)
        PROVE  LineRight'
    <2>1. /\ Judges(Len(given), IF ok THEN "keep" ELSE "err") /\ UNCHANGED <<adaptor, items, stash>>
          /\ Asks /\ ~fut' /\ delivered' = delivered \o <<Len(given)>>
      BY <1>0, <1>2, ResolvesJudges DEF ItemFrame, Decides, Finishes, Emit, setup, chunkVars
    <2>2. Line = delivered \o <<Len(given)>> /\ Line' = (delivered \o <<Len(given)>>) \o <<>>
      BY <1>0, <1>2, <2>1 DEF ItemFrame, Line, Held, Asks, Asking
    <2>3. Len(given) \in 1 .. MaxAnswers
      BY <1>0, <2>1
    <2>4. UNCHANGED Line /\ Len(given) \in ToSet(Line)
      BY <1>0, <2>2, <2>3, LastOne
    <2> QED BY <1>0, <2>1, <2>4, LineJudged
  <1>3. CASE ItemFrame /\ Drops
    <2>1. /\ Judges(Len(given), "drop") /\ UNCHANGED <<adaptor, items, stash, delivered>>
          /\ Asks /\ ~fut'
      BY <1>0, <1>3, ResolvesJudges DEF ItemFrame, Drops, Finishes, GoOn, Answer, outVars, setup, chunkVars
    <2>2. Line = delivered \o <<Len(given)>> /\ Line' = delivered \o <<>>
      BY <1>0, <1>3, <2>1 DEF ItemFrame, Line, Held, Asks, Asking
    <2>3. Line' = delivered /\ delivered \in Seq(Nat)
      BY <1>0, <2>2, Joined
    <2>4. adaptor = "TrySkipWhile" => ~SkippingEndedBefore(Len(given))
      BY <1>0, <2>1 DEF Verdicts, Shape, SkippingEndedBefore, Judges
    <2> QED BY <1>0, <2>1, <2>2, <2>3, <2>4, LineDropped
  <1>4. CASE ItemFrame /\ Stops
    <2>1. /\ Judges(Len(given), "drop") /\ UNCHANGED <<adaptor, items, stash, delivered>>
          /\ Asks /\ ~fut'
      BY <1>0, <1>4, ResolvesJudges DEF ItemFrame, Stops, Finishes, GoOn, Answer, outVars, setup, chunkVars
    <2>2. Line = delivered \o <<Len(given)>> /\ Line' = delivered \o <<>>
      BY <1>0, <1>4, <2>1 DEF ItemFrame, Line, Held, Asks, Asking
    <2>3. Line' = delivered /\ delivered \in Seq(Nat)
      BY <1>0, <2>2, Joined
    <2>4. adaptor = "TrySkipWhile" => ~SkippingEndedBefore(Len(given))
      BY <1>0, <2>1 DEF Verdicts, Shape, SkippingEndedBefore, Judges
    <2> QED BY <1>0, <2>1, <2>2, <2>3, <2>4, LineDropped
  <1>5. ASSUME NEW kind \in {"Ok", "Err"}, ItemFrame, Begins(kind)
        PROVE  LineRight'
    <2>1. /\ Grows(kind, 0) /\ UNCHANGED adaptor /\ Next1 \in 1 .. MaxAnswers
          /\ UNCHANGED <<delivered, items, stash>> /\ fut' /\ ~fut /\ adaptor \in Asking
      BY <1>0, <1>5, GivesGrows DEF ItemFrame, Begins, setup, Starts, GoOn, outVars, Gives, Given, chunkVars
    <2>2. Line = delivered \o <<>> /\ Line' = delivered \o <<Next1>>
      BY <1>0, <1>5, <2>1 DEF ItemFrame, Line, Held, Grows, Asks, Asking
    <2>3. Line' = Line \o <<Next1>>
      BY <1>0, <2>1, <2>2, Joined
    <2>4. adaptor # "TryFlatten" \/ kind # "Stream"
      BY <1>0, <1>5 DEF ItemFrame, Chunked, Buffered
    <2> QED BY <1>0, <2>1, <2>3, <2>4, LineMore
  <1>6. ASSUME NEW kind \in {"Ok", "Err"}, ItemFrame, Passes(kind)
        PROVE  LineRight'
    <2>1. /\ Grows(kind, 0) /\ UNCHANGED adaptor /\ Next1 \in 1 .. MaxAnswers
          /\ UNCHANGED <<items, stash>> /\ delivered' = delivered \o <<Next1>> /\ ~fut' /\ (fut => adaptor = "TryUnfold")
      BY <1>0, <1>6, GivesGrows DEF ItemFrame, Passes, setup, PassItem, Gives, Given, Emit, chunkVars, Asks, Shape
    <2>2. Line = delivered \o <<>> /\ Line' = (delivered \o <<Next1>>) \o <<>>
      BY <1>0, <1>6, <2>1 DEF ItemFrame, Line, Held
    <2>3. Line' = Line \o <<Next1>>
      BY <1>0, <2>1, <2>2, Joined
    <2>4. adaptor # "TryFlatten" \/ kind # "Stream"
      BY <1>0, <1>6 DEF ItemFrame, Chunked, Buffered
    <2> QED BY <1>0, <2>1, <2>3, <2>4, LineMore
  <1>7. CASE ItemFrame /\ Closes
    <2>1. UNCHANGED <<given, adaptor, delivered, items, stash>> /\ ~fut' /\ (fut => adaptor = "TryUnfold")
      BY <1>0, <1>7, EndsFacts DEF ItemFrame, Closes, PassEnd, Answer, Asks, Shape, setup, outVars, chunkVars
    <2>2. UNCHANGED Line
      BY <1>0, <2>1 DEF Line, Held
    <2> QED BY <1>0, <2>1, <2>2, LineSame
  <1>8. CASE ItemFrame /\ Idles
    <2>1. /\ UNCHANGED <<given, adaptor, delivered, items, stash>>
          /\ fut => adaptor = "TryUnfold"
          /\ fut' => adaptor = "TryUnfold"
      BY <1>0, <1>8 DEF ItemFrame, Idles, PassPending, Pends, Waits, Answer, Asks, Shape, setup, outVars, chunkVars
    <2>2. UNCHANGED Line
      BY <1>0, <2>1 DEF Line, Held
    <2> QED BY <1>0, <2>1, <2>2, LineSame
  <1>9. CASE ItemFrame /\ Rests
    <2>1. UNCHANGED <<given, adaptor, delivered, fut, items, stash>>
      BY <1>0, <1>9 DEF ItemFrame, Rests, setup, outVars, itemVars, chunkVars, Answer, sourceVars
    <2>2. UNCHANGED Line
      BY <1>0, <2>1 DEF Line, Held
    <2> QED BY <1>0, <2>1, <2>2, LineSame
  <1>10. CASE ChunkFrame /\ TakeStash
    <2>1. /\ UNCHANGED <<given, adaptor, fut, items>> /\ items = <<>> /\ stash' = <<>>
          /\ delivered' = delivered \o stash /\ (fut => adaptor = "TryUnfold")
      BY <1>0, <1>10 DEF ChunkFrame, TakeStash, Emit, BufferShape, Shape, Chunked, Asking, setup, sourceVars, itemVars
    <2>2. Line = delivered \o (<<>> \o stash) /\ Line' = (delivered \o stash) \o (<<>> \o <<>>)
      BY <1>0, <2>1 DEF Line, Held
    <2>3. UNCHANGED Line
      BY <1>0, <2>2, Joined
    <2> QED BY <1>0, <2>1, <2>3, LineSame
  <1>11. CASE ChunkFrame /\ stash = <<>> /\ Collect
    <2>1. /\ Grows("Ok", 0) /\ UNCHANGED <<adaptor, fut>> /\ stash = <<>> /\ stash' = <<>>
          /\ Next1 \in 1 .. MaxAnswers /\ ~fut
      BY <1>0, <1>11, GivesGrows DEF ChunkFrame, Collect, Shape, Chunked, Asking, setup, itemVars, Gives, Given
    <2>2. Line = delivered \o (items \o <<>>)
      BY <1>0, <2>1 DEF Line, Held
    <2>c. /\ (delivered \o Append(items, Next1)) \o (<<>> \o <<>>) = (delivered \o (items \o <<>>)) \o <<Next1>>
          /\ delivered \o (Append(items, Next1) \o <<>>) = (delivered \o (items \o <<>>)) \o <<Next1>>
          /\ (delivered \o items) \o (<<>> \o <<Next1>>) = (delivered \o (items \o <<>>)) \o <<Next1>>
          /\ (delivered \o <<Next1>>) \o (<<>> \o <<>>) = (delivered \o (<<>> \o <<>>)) \o <<Next1>>
      <3>1. delivered \in Seq(1 .. MaxAnswers) /\ items \in Seq(1 .. MaxAnswers) /\ Next1 \in 1 .. MaxAnswers
        BY <1>0, <2>1
      <3> QED BY <3>1, Chunk, Zenon
    <2>3. ASSUME Emit(Append(items, Next1), TRUE) /\ items' = <<>>
          PROVE  Line' = Line \o <<Next1>>
      <3>1. Line' = (delivered \o Append(items, Next1)) \o (<<>> \o <<>>)
        BY <1>0, <2>1, <2>3 DEF Line, Held, Emit
      <3> QED BY <1>0, <2>2, <2>c, <3>1, Zenon
    <2>4. ASSUME GoOn /\ items' = Append(items, Next1)
          PROVE  Line' = Line \o <<Next1>>
      <3>1. Line' = delivered \o (Append(items, Next1) \o <<>>)
        BY <1>0, <2>1, <2>4 DEF Line, Held, GoOn, outVars
      <3> QED BY <1>0, <2>2, <2>c, <3>1, Zenon
    <2>5. Line' = Line \o <<Next1>>
      BY <1>0, <1>11, <2>3, <2>4, Zenon DEF Collect
    <2>6. adaptor # "TryFlatten"
      BY <1>0, <1>11 DEF ChunkFrame, Chunked
    <2> QED BY <1>0, <2>1, <2>5, <2>6, LineMore
  <1>12. CASE ChunkFrame /\ stash = <<>> /\ OnError
    <2>1. /\ Grows("Err", 0) /\ UNCHANGED <<adaptor, fut>> /\ stash = <<>>
          /\ Next1 \in 1 .. MaxAnswers /\ ~fut
      BY <1>0, <1>12, GivesGrows DEF ChunkFrame, OnError, Shape, Chunked, Asking, setup, itemVars, Gives, Given
    <2>2. Line = delivered \o (items \o <<>>)
      BY <1>0, <2>1 DEF Line, Held
    <2>c. /\ (delivered \o Append(items, Next1)) \o (<<>> \o <<>>) = (delivered \o (items \o <<>>)) \o <<Next1>>
          /\ delivered \o (Append(items, Next1) \o <<>>) = (delivered \o (items \o <<>>)) \o <<Next1>>
          /\ (delivered \o items) \o (<<>> \o <<Next1>>) = (delivered \o (items \o <<>>)) \o <<Next1>>
          /\ (delivered \o <<Next1>>) \o (<<>> \o <<>>) = (delivered \o (<<>> \o <<>>)) \o <<Next1>>
      <3>1. delivered \in Seq(1 .. MaxAnswers) /\ items \in Seq(1 .. MaxAnswers) /\ Next1 \in 1 .. MaxAnswers
        BY <1>0, <2>1
      <3> QED BY <3>1, Chunk, Zenon
    <2>3. ASSUME items = <<>> /\ Emit(<<Next1>>, FALSE) /\ UNCHANGED chunkVars
          PROVE  Line' = Line \o <<Next1>>
      <3>1. Line' = (delivered \o <<Next1>>) \o (<<>> \o <<>>)
        BY <1>0, <2>1, <2>3 DEF Line, Held, Emit, chunkVars
      <3> QED BY <1>0, <2>2, <2>3, <2>c, <3>1, Zenon
    <2>4. ASSUME Flush /\ stash' = <<Next1>>
          PROVE  Line' = Line \o <<Next1>>
      <3>1. Line' = (delivered \o items) \o (<<>> \o <<Next1>>)
        BY <1>0, <2>1, <2>4 DEF Line, Held, Flush, Emit
      <3> QED BY <1>0, <2>2, <2>c, <3>1, Zenon
    <2>5. Line' = Line \o <<Next1>>
      BY <1>0, <1>12, <2>3, <2>4, Zenon DEF OnError
    <2>6. adaptor # "TryFlatten"
      BY <1>0, <1>12 DEF ChunkFrame, Chunked
    <2> QED BY <1>0, <2>1, <2>5, <2>6, LineMore
  <1>13. CASE ChunkFrame /\ stash = <<>> /\ OnEnd
    <2>1. UNCHANGED <<given, adaptor, fut>> /\ stash = <<>> /\ stash' = <<>> /\ ~fut
      BY <1>0, <1>13, EndsFacts DEF ChunkFrame, OnEnd, Shape, Chunked, Asking, setup, itemVars
    <2>2. Line = delivered \o (items \o <<>>) /\ Line' = delivered' \o (items' \o <<>>)
      BY <1>0, <2>1 DEF Line, Held
    <2>3. CASE UNCHANGED <<delivered, items>>
      BY <1>0, <2>1, <2>2, <2>3, LineSame
    <2>4. CASE delivered' = delivered \o items /\ items' = <<>>
      <3>1. UNCHANGED Line
        BY <1>0, <2>2, <2>4, Joined
      <3> QED BY <1>0, <2>1, <3>1, LineSame
    <2> QED BY <1>0, <1>13, <2>3, <2>4 DEF OnEnd, Flush, Emit, Answer, outVars
  <1>14. CASE ChunkFrame /\ stash = <<>> /\ OnPending
    <2>1. UNCHANGED <<given, adaptor, fut>> /\ stash = <<>> /\ stash' = <<>> /\ ~fut
      BY <1>0, <1>14 DEF ChunkFrame, OnPending, Shape, Chunked, Asking, setup, itemVars, Pends, Waits
    <2>2. Line = delivered \o (items \o <<>>) /\ Line' = delivered' \o (items' \o <<>>)
      BY <1>0, <2>1 DEF Line, Held
    <2>3. CASE UNCHANGED <<delivered, items>>
      BY <1>0, <2>1, <2>2, <2>3, LineSame
    <2>4. CASE delivered' = delivered \o items /\ items' = <<>>
      <3>1. UNCHANGED Line
        BY <1>0, <2>2, <2>4, Joined
      <3> QED BY <1>0, <2>1, <3>1, LineSame
    <2> QED BY <1>0, <1>14, <2>3, <2>4 DEF OnPending, Flush, Emit, Answer, outVars
  <1>15. CASE FillFrame /\ FillOk
    BY <1>0, <1>15 DEF FillFrame
  <1>16. CASE FillFrame /\ FillErr
    BY <1>0, <1>16 DEF FillFrame
  <1>17. CASE FillFrame /\ FillStops
    BY <1>0, <1>17 DEF FillFrame
  <1>18. CASE TakeFrame /\ TakePending
    BY <1>0, <1>18 DEF TakeFrame
  <1>19. CASE TakeFrame /\ TakeNone
    BY <1>0, <1>19 DEF TakeFrame
  <1>20. ASSUME NEW k \in DOMAIN inProgress, TakeFrame, TakeItem(k)
        PROVE  LineRight'
    BY <1>0, <1>20 DEF TakeFrame
  <1>21. CASE FlattenFrame /\ InnerItem
    <2>1. /\ Grows("Ok", next) /\ UNCHANGED <<adaptor, fut, items, stash>> /\ Next1 \in 1 .. MaxAnswers
          /\ delivered' = delivered \o <<Next1>> /\ ~fut /\ items = <<>> /\ stash = <<>>
      BY <1>0, <1>21, GivenGrows DEF FlattenFrame, InnerItem, InnerGives, Given, Emit, Shape, Chunked, Asking, setup, itemVars, chunkVars
    <2>2. Line = delivered \o <<>> /\ Line' = (delivered \o <<Next1>>) \o <<>>
      BY <1>0, <2>1 DEF Line, Held
    <2>3. Line' = Line \o <<Next1>>
      BY <1>0, <2>1, <2>2, Joined
    <2> QED BY <1>0, <2>1, <2>3, LineMore
  <1>22. CASE FlattenFrame /\ InnerError
    <2>1. /\ Grows("Err", next) /\ UNCHANGED <<adaptor, fut, items, stash>> /\ Next1 \in 1 .. MaxAnswers
          /\ delivered' = delivered \o <<Next1>> /\ ~fut /\ items = <<>> /\ stash = <<>>
      BY <1>0, <1>22, GivenGrows DEF FlattenFrame, InnerError, InnerGives, Given, Emit, Shape, Chunked, Asking, setup, itemVars, chunkVars
    <2>2. Line = delivered \o <<>> /\ Line' = (delivered \o <<Next1>>) \o <<>>
      BY <1>0, <2>1 DEF Line, Held
    <2>3. Line' = Line \o <<Next1>>
      BY <1>0, <2>1, <2>2, Joined
    <2> QED BY <1>0, <2>1, <2>3, LineMore
  <1>23. CASE FlattenFrame /\ InnerEnd
    <2>1. UNCHANGED <<given, adaptor, delivered, fut, items, stash>>
      BY <1>0, <1>23 DEF FlattenFrame, InnerEnd, setup, outVars, itemVars, chunkVars, GoOn, sourceVars
    <2>2. UNCHANGED Line
      BY <1>0, <2>1 DEF Line, Held
    <2> QED BY <1>0, <2>1, <2>2, LineSame
  <1>24. CASE FlattenFrame /\ InnerPending
    <2>1. UNCHANGED <<given, adaptor, delivered, fut, items, stash>>
      BY <1>0, <1>24 DEF FlattenFrame, InnerPending, setup, outVars, itemVars, chunkVars, Waits, Answer
    <2>2. UNCHANGED Line
      BY <1>0, <2>1 DEF Line, Held
    <2> QED BY <1>0, <2>1, <2>2, LineSame
  <1>25. CASE FlattenFrame /\ OuterStream
    <2>1. Grows("Stream", 0) /\ UNCHANGED <<adaptor, fut, items, stash, delivered>> /\ ~fut
      BY <1>0, <1>25, GivesGrows DEF FlattenFrame, OuterStream, GoOn, Shape, Chunked, Asking, setup, outVars, itemVars, chunkVars
    <2>2. UNCHANGED Line
      BY <1>0, <2>1 DEF Line, Held
    <2>3. PICK n : n = Next1
      OBVIOUS
    <2>4. ~Comes(n)'
      BY <1>0, <1>25, <2>1, <2>3, NewComes DEF FlattenFrame
    <2> QED BY <1>0, <2>1, <2>2, <2>3, <2>4, LineSkips
  <1>26. CASE FlattenFrame /\ OuterRest
    <2>1. CASE PassItem("Err")
      <3>1. /\ Grows("Err", 0) /\ UNCHANGED <<adaptor, fut, items, stash>> /\ Next1 \in 1 .. MaxAnswers
            /\ delivered' = delivered \o <<Next1>> /\ ~fut /\ items = <<>> /\ stash = <<>>
        BY <1>0, <1>26, <2>1, GivesGrows DEF FlattenFrame, OuterRest, PassItem, Gives, Given, Emit, Shape, Asking, setup, itemVars, chunkVars, Chunked
      <3>2. Line = delivered \o <<>> /\ Line' = (delivered \o <<Next1>>) \o <<>>
        BY <1>0, <3>1 DEF Line, Held
      <3>3. Line' = Line \o <<Next1>>
        BY <1>0, <3>1, <3>2, Joined
      <3> QED BY <1>0, <3>1, <3>3, LineMore
    <2>2. CASE PassRest
      <3>1. UNCHANGED <<given, adaptor, delivered, fut, items, stash>>
        BY <1>0, <1>26, <2>2, EndsFacts DEF FlattenFrame, OuterRest, PassRest, PassEnd, PassPending, Pends, Waits, Answer, setup,
           outVars, itemVars, chunkVars
      <3>2. UNCHANGED Line
        BY <1>0, <3>1 DEF Line, Held
      <3> QED BY <1>0, <3>1, <3>2, LineSame
    <2> QED BY <1>0, <1>26, <2>1, <2>2 DEF OuterRest
  <1>27. CASE PollNext
    <2>1. UNCHANGED <<given, adaptor, delivered, fut, items, stash>>
      BY <1>0, <1>27 DEF PollNext, setup, outVars, itemVars, chunkVars, CallPoll, sourceVars
    <2>2. UNCHANGED Line
      BY <1>0, <2>1 DEF Line, Held
    <2> QED BY <1>0, <2>1, <2>2, LineSame
  <1>28. ASSUME NEW party \in Parties, PartyWakes(party)
        PROVE  LineRight'
    <2>1. UNCHANGED <<given, adaptor, delivered, fut, items, stash>>
      BY <1>0, <1>28 DEF PartyWakes, setup, outVars, itemVars, chunkVars, Wakes
    <2>2. UNCHANGED Line
      BY <1>0, <2>1 DEF Line, Held
    <2> QED BY <1>0, <2>1, <2>2, LineSame
  <1>29. ASSUME NEW i \in DOMAIN given, Completes(i)
        PROVE  LineRight'
    <2>1. InQueue(i)
      BY <1>0, <1>29 DEF Completes, Complete
    <2> QED BY <1>0, <2>1, NotInQueue DEF BufferShape
  <1>30. CASE UNCHANGED vars
    <2>1. UNCHANGED <<given, adaptor, delivered, fut, items, stash>>
      BY <1>0, <1>30 DEF vars, setup, outVars, itemVars, chunkVars, sourceVars
    <2>2. UNCHANGED Line
      BY <1>0, <2>1 DEF Line, Held
    <2> QED BY <1>0, <2>1, <2>2, LineSame
  <1> QED
    BY <1>1, <1>2, <1>3, <1>4, <1>5, <1>6, <1>7, <1>8, <1>9, <1>10, <1>11, <1>12,
       <1>13, <1>14, <1>15, <1>16, <1>17, <1>18, <1>19, <1>20, <1>21, <1>22, <1>23,
       <1>24, <1>25, <1>26, <1>27, <1>28, <1>29, <1>30, StepCases DEF Move

-----------------------------------------------------------------------------
(* The calls of the user's function *)

\* The next entry, of this kind, is one the function is called with.
CallsOne(kind) ==
    CASE adaptor \in {"AndThen", "TryFilter", "TryFilterMap", "TryTakeWhile", "MapOk", "InspectOk"} ->
            kind # "Err"
      [] adaptor \in {"OrElse", "MapErr", "InspectErr", "ErrInto"} -> kind = "Err"
      [] adaptor = "TrySkipWhile" -> kind # "Err" /\ ~SkippingEndedBefore(Len(given) + 1)
      [] OTHER -> FALSE

\* Whether the function is called with an entry being given shows at once, ...
LEMMA NewCalls ==
    ASSUME NEW kind, NEW of, Grows(kind, of), UNCHANGED adaptor, NEW n, n = Next1
    PROVE  Calls(n)' <=> CallsOne(kind)
  <1>1. IsErr(n)' <=> kind = "Err"
    BY EntriesGrow
  <1>2. n \in 1 .. Next1 /\ n = Len(given) + 1
    BY DEF Grows
  <1>3. SkippingEndedBefore(n)' <=> SkippingEndedBefore(n)
    BY <1>2, EntriesGrow
  <1> QED BY <1>1, <1>2, <1>3 DEF Calls, CallsOne, IsOk

\* The function is called with the next entry, ...
LEMMA CallsMore ==
    ASSUME CallsRight, called \in Seq(Nat), NEW kind, NEW of, Grows(kind, of), UNCHANGED adaptor,
           called' = Append(called, Next1), CallsOne(kind)
    PROVE  CallsRight'
  <1>1. PICK n : n = Next1
    OBVIOUS
  <1>2. /\ Calling' = Calling \cup {n} /\ n = Len(given) + 1 /\ n \in Nat /\ Len(given) \in Nat
        /\ \A i \in Calling : i <= Len(given)
    BY <1>1, SetsGrow, NewCalls DEF Grows
  <1>3. Ordered(called) /\ ToSet(called) = Calling
    BY DEF CallsRight
  <1>4. Ordered(called \o <<n>>) /\ ToSet(called \o <<n>>) = ToSet(called) \cup {n}
    BY <1>2, <1>3, OrderedOneMore
  <1>5. called' = called \o <<n>>
    BY <1>1, <1>2, Appends
  <1>6. Ordered(called') /\ ToSet(called') = Calling'
    BY <1>2, <1>3, <1>4, <1>5
  <1> QED BY <1>6 DEF CallsRight, Ordered, ToSet

\* ... or it is not.
LEMMA CallsNoMore ==
    ASSUME CallsRight, NEW kind, NEW of, Grows(kind, of), UNCHANGED <<adaptor, called>>, ~CallsOne(kind)
    PROVE  CallsRight'
  <1>1. PICK n : n = Next1
    OBVIOUS
  <1>2. Calling' = Calling
    BY <1>1, SetsGrow, NewCalls
  <1> QED BY <1>2 DEF CallsRight, Ordered, ToSet

\* ... no verdict changes it, ...
LEMMA CallsJudged ==
    ASSUME CallsRight, NEW i, NEW verdict, Judges(i, verdict), UNCHANGED <<adaptor, called>>,
           adaptor = "TrySkipWhile" => i = Len(given)
    PROVE  CallsRight'
  <1>1. \A j \in DOMAIN given : Calls(j)' <=> Calls(j)
    BY EntriesJudged
  <1>2. DOMAIN given' = DOMAIN given
    BY DEF Judges
  <1>3. Calling' = Calling
    BY <1>1, <1>2 DEF Calling
  <1> QED BY <1>3 DEF CallsRight, Ordered, ToSet

\* ... and nothing else does.
LEMMA CallsSame ==
    ASSUME CallsRight, UNCHANGED <<given, adaptor, called>>
    PROVE  CallsRight'
  BY EntriesSame DEF CallsRight, Ordered, ToSet

\* The function is called once for each entry it is for, in the order given.
LEMMA CallsStep ==
    ASSUME TypeOK, Shape, BufferShape, Verdicts, CallsRight, [Next]_vars
    PROVE  CallsRight'
  <1>a. SourceTypeOK /\ next \in 0 .. MaxAnswers /\ next \in Nat /\ left \in Nat /\ Len(given) \in Nat
    BY SourceAssumption DEF TypeOK, SourceTypeOK
  <1>b. called \in Seq(Nat)
    <2>1. \A s \in Seq(1 .. MaxAnswers) : s \in Seq(Nat)
      BY SourceAssumption
    <2> QED BY <2>1 DEF TypeOK
  <1>0. /\ SourceTypeOK /\ next \in 0 .. MaxAnswers /\ left \in Nat /\ Len(given) \in Nat
        /\ CallsRight /\ called \in Seq(Nat)
        /\ Asks => Len(given) > 0
    BY <1>a, <1>b DEF Shape
  <1>1. CASE ItemFrame /\ Awaits
    <2>1. UNCHANGED <<given, adaptor, called>>
      BY <1>0, <1>1 DEF ItemFrame, Awaits, setup, itemVars, AwaitsFuture, FuturePends, Waits
    <2> QED BY <1>0, <2>1, CallsSame
  <1>2. ASSUME NEW ok \in BOOLEAN, ItemFrame, Decides(ok)
        PROVE  CallsRight'
    <2>1. Judges(Len(given), IF ok THEN "keep" ELSE "err") /\ UNCHANGED <<adaptor, called>>
      BY <1>0, <1>2, ResolvesJudges DEF ItemFrame, Decides, Finishes, setup
    <2> QED BY <1>0, <2>1, CallsJudged
  <1>3. CASE ItemFrame /\ Drops
    <2>1. Judges(Len(given), "drop") /\ UNCHANGED <<adaptor, called>>
      BY <1>0, <1>3, ResolvesJudges DEF ItemFrame, Drops, Finishes, setup
    <2> QED BY <1>0, <2>1, CallsJudged
  <1>4. CASE ItemFrame /\ Stops
    <2>1. Judges(Len(given), "drop") /\ UNCHANGED <<adaptor, called>>
      BY <1>0, <1>4, ResolvesJudges DEF ItemFrame, Stops, Finishes, setup
    <2> QED BY <1>0, <2>1, CallsJudged
  <1>5. ASSUME NEW kind \in {"Ok", "Err"}, ItemFrame, Begins(kind)
        PROVE  CallsRight'
    <2>1. Grows(kind, 0) /\ UNCHANGED adaptor /\ called' = Append(called, Next1)
      BY <1>0, <1>5, GivesGrows DEF ItemFrame, Begins, setup, Starts
    <2>2. adaptor \in Asking /\ ~done /\ (kind = "Err" <=> adaptor = "OrElse")
      BY <1>0, <1>5 DEF Begins
    <2>3. adaptor = "TrySkipWhile" => ~SkippingEndedBefore(Len(given) + 1)
      BY <1>0, <2>2 DEF Verdicts
    <2>4. CallsOne(kind)
      BY <1>0, <2>2, <2>3 DEF CallsOne, Asking
    <2> QED BY <1>0, <2>1, <2>4, CallsMore
  <1>6. ASSUME NEW kind \in {"Ok", "Err"}, ItemFrame, Passes(kind)
        PROVE  CallsRight'
    <2>1. /\ Grows(kind, 0) /\ UNCHANGED adaptor
          /\ called' = IF Function(kind) THEN Append(called, Next1) ELSE called
      BY <1>0, <1>6, GivesGrows DEF ItemFrame, Passes, setup, PassItem
    <2>2. /\ adaptor \in Asking => (kind = "Ok" <=> adaptor = "OrElse") \/ (adaptor = "TrySkipWhile" /\ done)
          /\ kind = "Err" <=> kind # "Ok"
      BY <1>0, <1>6 DEF Passes
    <2>3. adaptor = "TrySkipWhile" /\ done => SkippingEndedBefore(Len(given) + 1)
      BY <1>0, <2>1 DEF Verdicts, Grows
    <2>4. CallsOne(kind) <=> Function(kind)
      BY <1>0, <2>2, <2>3 DEF CallsOne, Asking, Function
    <2> QED BY <1>0, <2>1, <2>4, CallsMore, CallsNoMore
  <1>7. CASE ItemFrame /\ Closes
    <2>1. UNCHANGED <<given, adaptor, called>>
      BY <1>0, <1>7, EndsFacts DEF ItemFrame, Closes, setup, itemVars, PassEnd
    <2> QED BY <1>0, <2>1, CallsSame
  <1>8. CASE ItemFrame /\ Idles
    <2>1. UNCHANGED <<given, adaptor, called>>
      BY <1>0, <1>8 DEF ItemFrame, Idles, setup, itemVars, PassPending, Pends, Waits
    <2> QED BY <1>0, <2>1, CallsSame
  <1>9. CASE ItemFrame /\ Rests
    <2>1. UNCHANGED <<given, adaptor, called>>
      BY <1>0, <1>9 DEF ItemFrame, Rests, setup, itemVars, sourceVars
    <2> QED BY <1>0, <2>1, CallsSame
  <1>10. CASE ChunkFrame /\ TakeStash
    <2>1. UNCHANGED <<given, adaptor, called>>
      BY <1>0, <1>10 DEF ChunkFrame, TakeStash, setup, itemVars, sourceVars
    <2> QED BY <1>0, <2>1, CallsSame
  <1>11. CASE ChunkFrame /\ stash = <<>> /\ Collect
    <2>1. Grows("Ok", 0) /\ UNCHANGED <<adaptor, called>> /\ adaptor \in {"TryFlatten", "TryChunks", "TryReadyChunks", "TryBuffered", "TryBufferUnordered"}
      BY <1>0, <1>11, GivesGrows DEF ChunkFrame, Collect, setup, itemVars, Chunked, Buffered
    <2>2. ~CallsOne("Ok")
      BY <1>0, <2>1 DEF CallsOne
    <2> QED BY <1>0, <2>1, <2>2, CallsNoMore
  <1>12. CASE ChunkFrame /\ stash = <<>> /\ OnError
    <2>1. Grows("Err", 0) /\ UNCHANGED <<adaptor, called>> /\ adaptor \in {"TryFlatten", "TryChunks", "TryReadyChunks", "TryBuffered", "TryBufferUnordered"}
      BY <1>0, <1>12, GivesGrows DEF ChunkFrame, OnError, setup, itemVars, Chunked, Buffered
    <2>2. ~CallsOne("Err")
      BY <1>0, <2>1 DEF CallsOne
    <2> QED BY <1>0, <2>1, <2>2, CallsNoMore
  <1>13. CASE ChunkFrame /\ stash = <<>> /\ OnEnd
    <2>1. UNCHANGED <<given, adaptor, called>>
      BY <1>0, <1>13, EndsFacts DEF ChunkFrame, OnEnd, setup, itemVars
    <2> QED BY <1>0, <2>1, CallsSame
  <1>14. CASE ChunkFrame /\ stash = <<>> /\ OnPending
    <2>1. UNCHANGED <<given, adaptor, called>>
      BY <1>0, <1>14 DEF ChunkFrame, OnPending, setup, itemVars, Pends, Waits
    <2> QED BY <1>0, <2>1, CallsSame
  <1>15. CASE FillFrame /\ FillOk
    <2>1. Grows("Ok", 0) /\ UNCHANGED <<adaptor, called>> /\ adaptor \in {"TryFlatten", "TryChunks", "TryReadyChunks", "TryBuffered", "TryBufferUnordered"}
      BY <1>0, <1>15, GivesGrows DEF FillFrame, FillOk, setup, itemVars, Chunked, Buffered
    <2>2. ~CallsOne("Ok")
      BY <1>0, <2>1 DEF CallsOne
    <2> QED BY <1>0, <2>1, <2>2, CallsNoMore
  <1>16. CASE FillFrame /\ FillErr
    <2>1. Grows("Err", 0) /\ UNCHANGED <<adaptor, called>> /\ adaptor \in {"TryFlatten", "TryChunks", "TryReadyChunks", "TryBuffered", "TryBufferUnordered"}
      BY <1>0, <1>16, GivesGrows DEF FillFrame, FillErr, setup, itemVars, Chunked, Buffered
    <2>2. ~CallsOne("Err")
      BY <1>0, <2>1 DEF CallsOne
    <2> QED BY <1>0, <2>1, <2>2, CallsNoMore
  <1>17. CASE FillFrame /\ FillStops
    <2>1. UNCHANGED <<given, adaptor, called>>
      BY <1>0, <1>17, EndsFacts DEF FillFrame, FillStops, setup, itemVars, Pends, Waits, sourceVars
    <2> QED BY <1>0, <2>1, CallsSame
  <1>18. CASE TakeFrame /\ TakePending
    <2>1. UNCHANGED <<given, adaptor, called>>
      BY <1>0, <1>18 DEF TakeFrame, TakePending, setup, itemVars, sourceVars
    <2> QED BY <1>0, <2>1, CallsSame
  <1>19. CASE TakeFrame /\ TakeNone
    <2>1. UNCHANGED <<given, adaptor, called>>
      BY <1>0, <1>19 DEF TakeFrame, TakeNone, setup, itemVars, sourceVars
    <2> QED BY <1>0, <2>1, CallsSame
  <1>20. ASSUME NEW k \in DOMAIN inProgress, TakeFrame, TakeItem(k)
        PROVE  CallsRight'
    <2>1. UNCHANGED <<given, adaptor, called>>
      BY <1>0, <1>20 DEF TakeFrame, TakeItem, setup, itemVars, sourceVars
    <2> QED BY <1>0, <2>1, CallsSame
  <1>21. CASE FlattenFrame /\ InnerItem
    <2>1. Grows("Ok", next) /\ UNCHANGED <<adaptor, called>> /\ adaptor \in {"TryFlatten", "TryChunks", "TryReadyChunks", "TryBuffered", "TryBufferUnordered"}
      BY <1>0, <1>21, GivenGrows DEF FlattenFrame, InnerItem, setup, itemVars, Chunked, Buffered, InnerGives
    <2>2. ~CallsOne("Ok")
      BY <1>0, <2>1 DEF CallsOne
    <2> QED BY <1>0, <2>1, <2>2, CallsNoMore
  <1>22. CASE FlattenFrame /\ InnerError
    <2>1. Grows("Err", next) /\ UNCHANGED <<adaptor, called>> /\ adaptor \in {"TryFlatten", "TryChunks", "TryReadyChunks", "TryBuffered", "TryBufferUnordered"}
      BY <1>0, <1>22, GivenGrows DEF FlattenFrame, InnerError, setup, itemVars, Chunked, Buffered, InnerGives
    <2>2. ~CallsOne("Err")
      BY <1>0, <2>1 DEF CallsOne
    <2> QED BY <1>0, <2>1, <2>2, CallsNoMore
  <1>23. CASE FlattenFrame /\ InnerEnd
    <2>1. UNCHANGED <<given, adaptor, called>>
      BY <1>0, <1>23 DEF FlattenFrame, InnerEnd, setup, itemVars, sourceVars
    <2> QED BY <1>0, <2>1, CallsSame
  <1>24. CASE FlattenFrame /\ InnerPending
    <2>1. UNCHANGED <<given, adaptor, called>>
      BY <1>0, <1>24 DEF FlattenFrame, InnerPending, setup, itemVars, Waits
    <2> QED BY <1>0, <2>1, CallsSame
  <1>25. CASE FlattenFrame /\ OuterStream
    <2>1. Grows("Stream", 0) /\ UNCHANGED <<adaptor, called>> /\ adaptor \in {"TryFlatten", "TryChunks", "TryReadyChunks", "TryBuffered", "TryBufferUnordered"}
      BY <1>0, <1>25, GivesGrows DEF FlattenFrame, OuterStream, setup, itemVars, Chunked, Buffered
    <2>2. ~CallsOne("Stream")
      BY <1>0, <2>1 DEF CallsOne
    <2> QED BY <1>0, <2>1, <2>2, CallsNoMore
  <1>26. CASE FlattenFrame /\ OuterRest
    <2>1. CASE PassItem("Err")
      <3>1. Grows("Err", 0) /\ UNCHANGED <<adaptor, called>> /\ adaptor = "TryFlatten"
        BY <1>0, <1>26, <2>1, GivesGrows DEF FlattenFrame, PassItem, setup, itemVars
      <3>2. ~CallsOne("Err")
        BY <1>0, <3>1 DEF CallsOne
      <3> QED BY <1>0, <3>1, <3>2, CallsNoMore
    <2>2. CASE PassRest
      <3>1. UNCHANGED <<given, adaptor, called>>
        BY <1>0, <1>26, <2>2, EndsFacts DEF FlattenFrame, PassRest, PassEnd, PassPending, Pends, Waits, setup, itemVars
      <3> QED BY <1>0, <3>1, CallsSame
    <2> QED BY <1>0, <1>26, <2>1, <2>2 DEF OuterRest
  <1>27. CASE PollNext
    <2>1. UNCHANGED <<given, adaptor, called>>
      BY <1>0, <1>27 DEF PollNext, setup, itemVars, CallPoll, sourceVars
    <2> QED BY <1>0, <2>1, CallsSame
  <1>28. ASSUME NEW party \in Parties, PartyWakes(party)
        PROVE  CallsRight'
    <2>1. UNCHANGED <<given, adaptor, called>>
      BY <1>0, <1>28 DEF PartyWakes, setup, itemVars, Wakes
    <2> QED BY <1>0, <2>1, CallsSame
  <1>29. ASSUME NEW i \in DOMAIN given, Completes(i)
        PROVE  CallsRight'
    <2>1. PICK verdict \in {"keep", "err"} : Judges(i, verdict)
      BY <1>0, <1>29, CompleteJudges DEF Completes
    <2>2. UNCHANGED <<adaptor, called>> /\ adaptor # "TrySkipWhile"
      <3>1. InQueue(i)
        BY <1>0, <1>29 DEF Completes, Complete
      <3>2. Buffered
        BY <1>0, <3>1, NotInQueue DEF BufferShape
      <3> QED BY <1>0, <1>29, <3>2 DEF Completes, Complete, setup, itemVars, Buffered
    <2> QED BY <1>0, <2>1, <2>2, CallsJudged
  <1>30. CASE UNCHANGED vars
    <2>1. UNCHANGED <<given, adaptor, called>>
      BY <1>0, <1>30 DEF vars, setup, itemVars, sourceVars
    <2> QED BY <1>0, <2>1, CallsSame
  <1> QED
    BY <1>1, <1>2, <1>3, <1>4, <1>5, <1>6, <1>7, <1>8, <1>9, <1>10, <1>11, <1>12,
       <1>13, <1>14, <1>15, <1>16, <1>17, <1>18, <1>19, <1>20, <1>21, <1>22, <1>23,
       <1>24, <1>25, <1>26, <1>27, <1>28, <1>29, <1>30, StepCases DEF Move

-----------------------------------------------------------------------------
(* The order in a buffer *)

\* Every element is followed by those only that R allows after it.
After(s, R) == \A i, j \in DOMAIN s : i < j => s[j] \in R[s[i]]

Others == [a \in Nat |-> Nat \ {a}]
LaterIn(P) == [a \in Nat |-> {b \in Nat : a \in P /\ b \in P => a < b}]

\* What a queue q is after d has come out, if g are the entries given, E the
\* errors among them.
QueueRight(d, q, g, E, ordered) ==
    /\ After(d \o q, Others) /\ ToSet(d \o q) = g
    /\ ToSet(q) \cap E = {}
    /\ After(d, LaterIn(E))
    /\ ordered => After(d \o q, LaterIn(Nat \ E))

Errors == {i \in DOMAIN given : IsErr(i)}

\* Two sequences, one after the other.
LEMMA AfterGlued ==
    ASSUME NEW S, NEW s \in Seq(S), NEW t \in Seq(S), NEW R
    PROVE  After(s \o t, R) <=>
              After(s, R) /\ After(t, R) /\ \A x \in ToSet(s), y \in ToSet(t) : y \in R[x]
  <1>1. /\ s \o t \in Seq(S) /\ Len(s \o t) = Len(s) + Len(t)
        /\ \A i \in DOMAIN s : (s \o t)[i] = s[i]
        /\ \A i \in DOMAIN t : (s \o t)[Len(s) + i] = t[i]
    BY Glued
  <1>2. /\ DOMAIN (s \o t) = 1 .. Len(s) + Len(t)
        /\ DOMAIN s = 1 .. Len(s) /\ Len(s) \in Nat
        /\ DOMAIN t = 1 .. Len(t) /\ Len(t) \in Nat
    BY <1>1
  <1>3. ASSUME After(s \o t, R)
        PROVE  After(s, R) /\ After(t, R) /\ \A x \in ToSet(s), y \in ToSet(t) : y \in R[x]
    <2>1. After(s, R)
      BY <1>1, <1>2, <1>3 DEF After
    <2>2. ASSUME NEW i \in DOMAIN t, NEW j \in DOMAIN t, i < j PROVE t[j] \in R[t[i]]
      <3>1. Len(s) + i \in DOMAIN (s \o t) /\ Len(s) + j \in DOMAIN (s \o t) /\ Len(s) + i < Len(s) + j
        BY <1>2, <2>2
      <3>2. (s \o t)[Len(s) + j] \in R[(s \o t)[Len(s) + i]]
        BY <1>3, <3>1 DEF After
      <3> QED BY <1>1, <3>2
    <2>3. ASSUME NEW i \in DOMAIN s, NEW j \in DOMAIN t PROVE t[j] \in R[s[i]]
      <3>1. i \in DOMAIN (s \o t) /\ Len(s) + j \in DOMAIN (s \o t) /\ i < Len(s) + j
        BY <1>2
      <3>2. (s \o t)[Len(s) + j] \in R[(s \o t)[i]]
        BY <1>3, <3>1 DEF After
      <3> QED BY <1>1, <3>2
    <2> QED BY <2>1, <2>2, <2>3 DEF After, ToSet
  <1>4. ASSUME After(s, R), After(t, R), \A x \in ToSet(s), y \in ToSet(t) : y \in R[x],
               NEW i \in DOMAIN (s \o t), NEW j \in DOMAIN (s \o t), i < j
        PROVE  (s \o t)[j] \in R[(s \o t)[i]]
    <2>1. CASE i \in DOMAIN s /\ j \in DOMAIN s
      BY <1>1, <1>4, <2>1 DEF After
    <2>2. CASE i \in DOMAIN s /\ j \notin DOMAIN s
      <3>1. j - Len(s) \in DOMAIN t /\ Len(s) + (j - Len(s)) = j
        BY <1>2, <2>2
      <3>2. (s \o t)[j] = t[j - Len(s)] /\ (s \o t)[i] = s[i]
        BY <1>1, <2>2, <3>1
      <3> QED BY <1>4, <2>2, <3>1, <3>2 DEF ToSet
    <2>3. CASE i \notin DOMAIN s
      <3>1. /\ i - Len(s) \in DOMAIN t /\ Len(s) + (i - Len(s)) = i
            /\ j - Len(s) \in DOMAIN t /\ Len(s) + (j - Len(s)) = j
            /\ i - Len(s) < j - Len(s)
        BY <1>2, <1>4, <2>3
      <3>2. (s \o t)[j] = t[j - Len(s)] /\ (s \o t)[i] = t[i - Len(s)]
        BY <1>1, <3>1
      <3> QED BY <1>4, <3>1, <3>2 DEF After
    <2> QED BY <2>1, <2>2, <2>3
  <1>5. ASSUME After(s, R), After(t, R), \A x \in ToSet(s), y \in ToSet(t) : y \in R[x]
        PROVE  After(s \o t, R)
    BY <1>4, <1>5 DEF After
  <1> QED BY <1>3, <1>5

\* One element more.
LEMMA AfterOne ==
    ASSUME NEW S, NEW s \in Seq(S), NEW e \in S, NEW R
    PROVE  After(s \o <<e>>, R) <=> After(s, R) /\ \A x \in ToSet(s) : e \in R[x]
  <1>1. PICK one \in Seq(S) : one = <<e>> /\ ToSet(one) = {e} /\ Len(one) = 1
    BY Short
  <1>2. After(one, R)
    BY <1>1 DEF After
  <1> QED BY <1>1, <1>2, AfterGlued

\* Leaving one place out.
LEMMA Shifted ==
    ASSUME NEW n \in Nat, NEW k \in 1 .. n, NEW i \in 1 .. n - 1, NEW j \in 1 .. n - 1, i < j
    PROVE  /\ (IF i < k THEN i ELSE i + 1) \in 1 .. n
           /\ (IF j < k THEN j ELSE j + 1) \in 1 .. n
           /\ (IF i < k THEN i ELSE i + 1) < (IF j < k THEN j ELSE j + 1)
  OBVIOUS

\* One element less.
LEMMA AfterRemoved ==
    ASSUME NEW q \in Seq(Nat), NEW k \in DOMAIN q, NEW R, After(q, R)
    PROVE  /\ After(RemoveAt(q, k), R)
           /\ ToSet(q) = ToSet(RemoveAt(q, k)) \cup {q[k]}
           /\ R = Others => q[k] \notin ToSet(RemoveAt(q, k))
  <1>1. PICK r \in Seq(Nat) : r = RemoveAt(q, k)
    BY Removed
  <1>2. /\ Len(r) = Len(q) - 1
        /\ \A i \in 1 .. Len(q) - 1 : r[i] = IF i < k THEN q[i] ELSE q[i + 1]
    BY <1>1, Removed
  <1>3. /\ DOMAIN r = 1 .. Len(q) - 1 /\ DOMAIN q = 1 .. Len(q) /\ Len(q) \in Nat
        /\ k \in 1 .. Len(q)
    BY <1>2
  <1>4. After(r, R)
    <2>1. ASSUME NEW i \in DOMAIN r, NEW j \in DOMAIN r, i < j PROVE r[j] \in R[r[i]]
      <3> DEFINE a == IF i < k THEN i ELSE i + 1
                 b == IF j < k THEN j ELSE j + 1
      <3>0. i \in 1 .. Len(q) - 1 /\ j \in 1 .. Len(q) - 1
        BY <1>3
      <3>1. a \in DOMAIN q /\ b \in DOMAIN q /\ a < b
        <4>1. a \in 1 .. Len(q) /\ b \in 1 .. Len(q) /\ a < b
          BY <1>3, <2>1, <3>0, Shifted
        <4> QED BY <1>3, <4>1
      <3>2. r[i] = q[a] /\ r[j] = q[b]
        BY <1>2, <1>3
      <3> HIDE DEF a, b
      <3> QED BY <3>1, <3>2 DEF After
    <2> QED BY <2>1 DEF After
  <1>5. ASSUME NEW i \in DOMAIN r PROVE \E a \in DOMAIN q : a # k /\ r[i] = q[a]
    <2>1. CASE i < k
      <3>1. i \in DOMAIN q /\ i # k
        BY <1>3, <2>1
      <3> QED BY <1>2, <1>3, <2>1, <3>1
    <2>2. CASE ~(i < k)
      <3>1. i + 1 \in DOMAIN q /\ i + 1 # k
        BY <1>3, <2>2
      <3> QED BY <1>2, <1>3, <2>2, <3>1
    <2> QED BY <2>1, <2>2
  <1>6. ASSUME NEW a \in DOMAIN q, a # k PROVE q[a] \in ToSet(r)
    <2>1. CASE a < k
      <3>1. a \in 1 .. Len(q) - 1 /\ r[a] = q[a]
        BY <1>2, <1>3, <2>1
      <3> QED BY <1>3, <3>1 DEF ToSet
    <2>2. CASE ~(a < k)
      <3>1. a - 1 \in 1 .. Len(q) - 1 /\ ~(a - 1 < k) /\ (a - 1) + 1 = a
        BY <1>3, <1>6, <2>2
      <3>2. r[a - 1] = q[a]
        BY <1>2, <3>1
      <3> QED BY <1>3, <3>1, <3>2 DEF ToSet
    <2> QED BY <2>1, <2>2
  <1>7. ToSet(q) = ToSet(r) \cup {q[k]}
    <2>1. ToSet(r) \cup {q[k]} \subseteq ToSet(q)
      BY <1>5 DEF ToSet
    <2>2. ToSet(q) \subseteq ToSet(r) \cup {q[k]}
      BY <1>6, Zenon DEF ToSet
    <2> QED BY <2>1, <2>2
  <1>8. ASSUME R = Others, NEW a \in DOMAIN q, a # k PROVE q[a] # q[k]
    <2>1. q[a] \in Nat /\ q[k] \in Nat
      BY Element
    <2>2. CASE a < k
      BY <1>8, <2>1, <2>2 DEF After, Others
    <2>3. CASE k < a
      BY <1>8, <2>1, <2>3 DEF After, Others
    <2> QED BY <1>3, <1>8, <2>2, <2>3
  <1> QED BY <1>1, <1>4, <1>5, <1>7, <1>8 DEF ToSet

\* An entry goes to the queue, ...
LEMMA QueueFilled ==
    ASSUME NEW d \in Seq(Nat), NEW q \in Seq(Nat), NEW g, NEW E, NEW ordered \in BOOLEAN,
           QueueRight(d, q, g, E, ordered), NEW n \in Nat, \A i \in g : i \in Nat /\ i < n, n \notin E
    PROVE  QueueRight(d, Append(q, n), g \cup {n}, E, ordered)
  <1>1. /\ d \o q \in Seq(Nat) /\ ToSet(d \o q) = g
        /\ \A x \in g : x \in Nat /\ x < n
    BY DEF QueueRight
  <1>2. /\ d \o Append(q, n) = (d \o q) \o <<n>>
        /\ ToSet((d \o q) \o <<n>>) = g \cup {n}
        /\ ToSet(Append(q, n)) = ToSet(q) \cup {n}
    <2>1. d \o Append(q, n) = (d \o q) \o <<n>>
      BY Joined
    <2>a. PICK t \in Seq(Nat) : t = d \o q
      BY <1>1
    <2>2. ToSet(t \o <<n>>) = ToSet(t) \cup {n}
      BY Appends
    <2>3. ToSet(Append(q, n)) = ToSet(q) \cup {n}
      BY SetOfAppend
    <2> QED BY <1>1, <2>1, <2>a, <2>2, <2>3
  <1>3. \A x \in g : n \in Others[x]
    BY <1>1 DEF Others
  <1>4. \A x \in g : n \in LaterIn(Nat \ E)[x]
    BY <1>1 DEF LaterIn
  <1>5. After((d \o q) \o <<n>>, Others)
    BY <1>1, <1>3, AfterOne DEF QueueRight
  <1>6. ordered => After((d \o q) \o <<n>>, LaterIn(Nat \ E))
    BY <1>1, <1>4, AfterOne DEF QueueRight
  <1> QED BY <1>2, <1>5, <1>6 DEF QueueRight

\* ... an error comes out past it, ...
LEMMA QueuePassed ==
    ASSUME NEW d \in Seq(Nat), NEW q \in Seq(Nat), NEW g, NEW E \in SUBSET g, NEW ordered \in BOOLEAN,
           QueueRight(d, q, g, E, ordered), NEW n \in Nat, \A i \in g : i \in Nat /\ i < n
    PROVE  QueueRight(d \o <<n>>, q, g \cup {n}, E \cup {n}, ordered)
  <1>1. /\ d \o <<n>> \in Seq(Nat) /\ ToSet(d \o <<n>>) = ToSet(d) \cup {n}
        /\ ToSet(d \o q) = ToSet(d) \cup ToSet(q)
        /\ ToSet((d \o <<n>>) \o q) = ToSet(d) \cup {n} \cup ToSet(q)
    <2>1. d \o <<n>> \in Seq(Nat) /\ ToSet(d \o <<n>>) = ToSet(d) \cup {n}
      BY Appends
    <2>2. ToSet(d \o q) = ToSet(d) \cup ToSet(q)
      BY Glued
    <2>3. PICK t \in Seq(Nat) : t = d \o <<n>>
      BY <2>1
    <2>4. ToSet(t \o q) = ToSet(t) \cup ToSet(q)
      BY Glued
    <2> QED BY <2>1, <2>2, <2>3, <2>4
  <1>2. \A x \in ToSet(d) \cup ToSet(q) : x \in Nat /\ x < n /\ x # n
    BY <1>1 DEF QueueRight
  <1>3. /\ After(d, Others) /\ After(q, Others) /\ \A x \in ToSet(d), y \in ToSet(q) : y \in Others[x]
        /\ After(d, LaterIn(E))
        /\ ordered => /\ After(d, LaterIn(Nat \ E)) /\ After(q, LaterIn(Nat \ E))
                      /\ \A x \in ToSet(d), y \in ToSet(q) : y \in LaterIn(Nat \ E)[x]
    BY AfterGlued DEF QueueRight
  <1>4. After((d \o <<n>>) \o q, Others)
    <2>1. \A x \in ToSet(d) : n \in Others[x]
      BY <1>2 DEF Others
    <2>2. \A y \in ToSet(q) : y \in Others[n]
      BY <1>2 DEF Others
    <2>3. After(d \o <<n>>, Others)
      BY <1>3, <2>1, AfterOne
    <2> QED BY <1>1, <1>3, <2>2, <2>3, AfterGlued
  <1>5. After(d \o <<n>>, LaterIn(E \cup {n}))
    <2>1. \A x \in Nat : LaterIn(E)[x] \subseteq Nat
      BY DEF LaterIn
    <2>2. \A x \in ToSet(d), y \in ToSet(d) : y \in LaterIn(E)[x] => y \in LaterIn(E \cup {n})[x]
      BY <1>2 DEF LaterIn
    <2>3. \A x \in ToSet(d) : n \in LaterIn(E \cup {n})[x]
      BY <1>2 DEF LaterIn
    <2>4. After(d, LaterIn(E \cup {n}))
      BY <1>3, <2>2 DEF After, ToSet
    <2> QED BY <2>3, <2>4, AfterOne
  <1>6. ordered => After((d \o <<n>>) \o q, LaterIn(Nat \ (E \cup {n})))
    <2>1. \A x, y \in ToSet(d) \cup ToSet(q) :
             y \in LaterIn(Nat \ E)[x] => y \in LaterIn(Nat \ (E \cup {n}))[x]
      BY <1>2 DEF LaterIn
    <2>2. /\ \A x \in ToSet(d) : n \in LaterIn(Nat \ (E \cup {n}))[x]
          /\ \A y \in ToSet(q) : y \in LaterIn(Nat \ (E \cup {n}))[n]
      BY <1>2 DEF LaterIn
    <2>3. ordered => After(d, LaterIn(Nat \ (E \cup {n}))) /\ After(q, LaterIn(Nat \ (E \cup {n})))
      BY <1>3, <2>1 DEF After, ToSet
    <2>4. ordered => After(d \o <<n>>, LaterIn(Nat \ (E \cup {n})))
      BY <2>2, <2>3, AfterOne
    <2> QED BY <1>1, <1>3, <2>1, <2>2, <2>3, <2>4, AfterGlued
  <1>7. ToSet(q) \cap (E \cup {n}) = {}
    BY <1>2 DEF QueueRight
  <1> QED BY <1>1, <1>4, <1>5, <1>6, <1>7 DEF QueueRight

\* One element goes over from a sequence to the one before it.
LEMMA Regrouped ==
    ASSUME NEW s \in Seq(Nat), NEW e \in Nat, NEW t \in Seq(Nat)
    PROVE  (s \o <<e>>) \o t = s \o (<<e>> \o t)
  OBVIOUS

\* ... a result comes out of it.
LEMMA QueueTaken ==
    ASSUME NEW d \in Seq(Nat), NEW q \in Seq(Nat), NEW g, NEW E \in SUBSET g, NEW ordered \in BOOLEAN,
           QueueRight(d, q, g, E, ordered), NEW k \in DOMAIN q, ordered => k = 1
    PROVE  QueueRight(d \o <<q[k]>>, RemoveAt(q, k), g, E, ordered)
  <1>1. PICK e \in Nat : e = q[k]
    BY Element
  <1>2. PICK r \in Seq(Nat) : r = RemoveAt(q, k) /\ (k = 1 => q = <<e>> \o r)
    <2>1. RemoveAt(q, k) \in Seq(Nat) /\ (k = 1 => q = <<q[1]>> \o RemoveAt(q, k))
      BY Removed
    <2> QED BY <1>1, <2>1
  <1>3. PICK one \in Seq(Nat) : one = <<e>> /\ ToSet(one) = {e}
    BY <1>1, Short
  <1>4. /\ After(d, Others) /\ After(q, Others) /\ \A x \in ToSet(d), y \in ToSet(q) : y \in Others[x]
        /\ ToSet(d \o q) = ToSet(d) \cup ToSet(q)
    BY AfterGlued, Glued DEF QueueRight
  <1>5. After(r, Others) /\ ToSet(q) = ToSet(r) \cup {e} /\ e \notin ToSet(r)
    BY <1>1, <1>2, <1>4, AfterRemoved
  <1>6. /\ d \o one \in Seq(Nat) /\ ToSet(d \o one) = ToSet(d) \cup {e}
        /\ ToSet((d \o one) \o r) = ToSet(d) \cup {e} \cup ToSet(r)
        /\ (d \o one) \o r = d \o (one \o r)
    <2>a. d \o one \in Seq(Nat)
      OBVIOUS
    <2>b. ToSet(d \o one) = ToSet(d) \cup ToSet(one)
      BY Glued
    <2>1. PICK t \in Seq(Nat) : t = d \o one /\ ToSet(t) = ToSet(d) \cup ToSet(one)
      BY <2>a, <2>b
    <2>2. ToSet(t \o r) = ToSet(t) \cup ToSet(r)
      BY Glued
    <2>3. (d \o <<e>>) \o r = d \o (<<e>> \o r)
      <3>1. e \in Nat /\ r \in Seq(Nat)
        BY <1>1, <1>2
      <3> QED BY <3>1, Regrouped, Zenon
    <2> QED BY <1>3, <2>1, <2>2, <2>3
  <1>7. After((d \o one) \o r, Others)
    <2>1. \A y \in ToSet(r) : y \in Others[e]
      <3>1. \A y \in ToSet(r) : y \in Nat /\ y # e
        BY <1>5 DEF ToSet
      <3> QED BY <3>1 DEF Others
    <2>2. After(d \o one, Others)
      BY <1>3, <1>4, <1>5, AfterOne
    <2>3. PICK t \in Seq(Nat) : t = d \o one /\ ToSet(t) = ToSet(d) \cup {e}
      BY <1>6
    <2>4. \A x \in ToSet(t), y \in ToSet(r) : y \in Others[x]
      BY <1>4, <1>5, <2>1, <2>3
    <2>5. After(t \o r, Others)
      BY <1>5, <2>2, <2>3, <2>4, AfterGlued
    <2> QED BY <2>3, <2>5
  <1>8. After(d \o one, LaterIn(E))
    <2>1. e \notin E
      BY <1>5 DEF QueueRight
    <2>2. \A x \in ToSet(d) : x \in Nat
      BY DEF ToSet
    <2>3. \A x \in ToSet(d) : e \in LaterIn(E)[x]
      BY <2>1, <2>2 DEF LaterIn
    <2> QED BY <1>3, <2>3, AfterOne DEF QueueRight
  <1>9. ordered => After((d \o one) \o r, LaterIn(Nat \ E))
    BY <1>2, <1>3, <1>6 DEF QueueRight
  <1>10. QueueRight(d \o one, r, g, E, ordered)
    BY <1>4, <1>5, <1>6, <1>7, <1>8, <1>9 DEF QueueRight
  <1> QED BY <1>1, <1>2, <1>3, <1>10

\* After, in the words of InOrder.
LEMMA AfterIs ==
    ASSUME NEW s \in Seq(Nat), NEW P
    PROVE  /\ After(s, Others) <=> IsInjective(s)
           /\ After(s, LaterIn(P)) <=>
                 \A i, j \in DOMAIN s : i < j /\ s[i] \in P /\ s[j] \in P => s[i] < s[j]
  <1>1. /\ \A i \in DOMAIN s : s[i] \in Nat
        /\ \A i, j \in DOMAIN s : i = j \/ i < j \/ j < i
    BY Element
  <1>2. \A i, j \in DOMAIN s : s[j] \in Others[s[i]] <=> s[i] # s[j]
    BY <1>1 DEF Others
  <1>3. After(s, Others) <=> \A i, j \in DOMAIN s : i < j => s[i] # s[j]
    BY <1>2 DEF After
  <1>4. \A i, j \in DOMAIN s :
           s[j] \in LaterIn(P)[s[i]] <=> (s[i] \in P /\ s[j] \in P => s[i] < s[j])
    BY <1>1 DEF LaterIn
  <1>5. After(s, LaterIn(P)) <=>
           \A i, j \in DOMAIN s : i < j => (s[i] \in P /\ s[j] \in P => s[i] < s[j])
    BY <1>4 DEF After
  <1>6. (\A i, j \in DOMAIN s : i < j => s[i] # s[j]) <=> IsInjective(s)
    <2>1. ASSUME \A i, j \in DOMAIN s : i < j => s[i] # s[j], NEW i \in DOMAIN s, NEW j \in DOMAIN s,
                 s[i] = s[j]
          PROVE  i = j
      BY <1>1, <2>1
    <2>2. ASSUME IsInjective(s), NEW i \in DOMAIN s, NEW j \in DOMAIN s, i < j
          PROVE  s[i] # s[j]
      <3>1. i # j
        BY <2>2
      <3> QED BY <2>2, <3>1 DEF IsInjective
    <2> QED BY <2>1, <2>2 DEF IsInjective
  <1> QED BY <1>3, <1>5, <1>6

\* InOrder, where a buffer is used.
BufferRight == QueueRight(delivered, inProgress, DOMAIN given, Errors, adaptor = "TryBuffered")

\* In the form the steps are proved in, ...
LEMMA BufferOrder ==
    ASSUME delivered \in Seq(Nat), inProgress \in Seq(Nat), DOMAIN given \subseteq Nat, Buffered
    PROVE  InOrder <=> BufferRight
  <1>1. PICK d \in Seq(Nat), q \in Seq(Nat), s \in Seq(Nat) :
           d = delivered /\ q = inProgress /\ s = ThroughQueue /\ s = d \o q
    BY Glued DEF ThroughQueue
  <1>2. /\ ToSet(d) \subseteq ToSet(s) /\ ToSet(q) \subseteq ToSet(s)
    BY <1>1, Glued
  <1>3. ASSUME ToSet(s) = DOMAIN given
        PROVE  InOrder <=> BufferRight
    <2>1. /\ \A i \in DOMAIN s : s[i] \in DOMAIN given /\ s[i] \in Nat
          /\ \A i \in DOMAIN d : d[i] \in DOMAIN given
          /\ \A i \in ToSet(q) : i \in DOMAIN given
      BY <1>2, <1>3, Element DEF ToSet
    <2>2. \A i \in DOMAIN given : (i \in Errors <=> IsErr(i)) /\ (i \in Nat \ Errors <=> IsOk(i))
      BY DEF Errors, IsOk
    <2>3. Rising(delivered, IsErr) <=> After(d, LaterIn(Errors))
      BY <1>1, <2>1, <2>2, AfterIs DEF Rising
    <2>4. Rising(ThroughQueue, IsOk) <=> After(s, LaterIn(Nat \ Errors))
      <3>1. After(s, LaterIn(Nat \ Errors)) <=>
               \A i, j \in DOMAIN s : i < j /\ s[i] \in Nat \ Errors /\ s[j] \in Nat \ Errors => s[i] < s[j]
        BY <1>1, AfterIs
      <3>2. \A i \in DOMAIN s : s[i] \in Nat \ Errors <=> IsOk(s[i])
        BY <2>1, <2>2
      <3>3. Rising(ThroughQueue, IsOk) <=> \A i, j \in DOMAIN s : i < j /\ IsOk(s[i]) /\ IsOk(s[j]) => s[i] < s[j]
        BY <1>1, Zenon DEF Rising
      <3> QED BY <3>1, <3>2, <3>3, Zenon
    <2>5. IsInjective(ThroughQueue) <=> After(s, Others)
      BY <1>1, AfterIs
    <2>6. (\A i \in ToSet(inProgress) : IsOk(i)) <=> ToSet(q) \cap Errors = {}
      BY <1>1, <2>1, <2>2
    <2> QED BY <1>1, <1>3, <2>3, <2>4, <2>5, <2>6 DEF InOrder, BufferRight, QueueRight
  <1> QED BY <1>1, <1>3 DEF InOrder, BufferRight, QueueRight

\* ... and in the next state.
LEMMA BufferOrderNext ==
    ASSUME delivered' \in Seq(Nat), inProgress' \in Seq(Nat), DOMAIN given' \subseteq Nat, Buffered'
    PROVE  InOrder' <=> BufferRight'
  <1>1. PICK d \in Seq(Nat), q \in Seq(Nat), s \in Seq(Nat) :
           d = delivered' /\ q = inProgress' /\ s = ThroughQueue' /\ s = d \o q
    BY Glued DEF ThroughQueue
  <1>2. /\ ToSet(d) \subseteq ToSet(s) /\ ToSet(q) \subseteq ToSet(s)
    BY <1>1, Glued
  <1>3. ASSUME ToSet(s) = DOMAIN given'
        PROVE  InOrder' <=> BufferRight'
    <2>1. /\ \A i \in DOMAIN s : s[i] \in DOMAIN given' /\ s[i] \in Nat
          /\ \A i \in DOMAIN d : d[i] \in DOMAIN given'
          /\ \A i \in ToSet(q) : i \in DOMAIN given'
      BY <1>2, <1>3, Element DEF ToSet
    <2>2. \A i \in DOMAIN given' : (i \in Errors' <=> IsErr(i)') /\ (i \in Nat \ Errors' <=> IsOk(i)')
      BY DEF Errors, IsOk
    <2>3. Rising(delivered, IsErr)' <=> After(d, LaterIn(Errors'))
      BY <1>1, <2>1, <2>2, AfterIs DEF Rising
    <2>4. Rising(ThroughQueue, IsOk)' <=> After(s, LaterIn(Nat \ Errors'))
      <3>1. After(s, LaterIn(Nat \ Errors')) <=>
               \A i, j \in DOMAIN s : i < j /\ s[i] \in Nat \ Errors' /\ s[j] \in Nat \ Errors' => s[i] < s[j]
        BY <1>1, AfterIs
      <3>2. \A i \in DOMAIN s : s[i] \in Nat \ Errors' <=> IsOk(s[i])'
        BY <2>1, <2>2
      <3>3. Rising(ThroughQueue, IsOk)' <=> \A i, j \in DOMAIN s : i < j /\ IsOk(s[i])' /\ IsOk(s[j])' => s[i] < s[j]
        BY <1>1, Zenon DEF Rising
      <3> QED BY <3>1, <3>2, <3>3, Zenon
    <2>5. IsInjective(ThroughQueue)' <=> After(s, Others)
      BY <1>1, AfterIs
    <2>6. (\A i \in ToSet(inProgress) : IsOk(i))' <=> ToSet(q) \cap Errors' = {}
      BY <1>1, <2>1, <2>2
    <2> QED BY <1>1, <1>3, <2>3, <2>4, <2>5, <2>6 DEF InOrder, BufferRight, QueueRight
  <1> QED BY <1>1, <1>3 DEF InOrder, BufferRight, QueueRight

\* An entry more is one error more, or none.
LEMMA ErrorsGrow ==
    ASSUME NEW kind, NEW of, Grows(kind, of), UNCHANGED adaptor, NEW n, n = Next1
    PROVE  /\ Errors' = IF kind = "Err" THEN Errors \cup {n} ELSE Errors
           /\ DOMAIN given' = DOMAIN given \cup {n}
  <1>1. DOMAIN given' = DOMAIN given \cup {n} /\ n \notin DOMAIN given
    BY DEF Grows
  <1>2. (\A i \in DOMAIN given : IsErr(i)' <=> IsErr(i)) /\ (IsErr(n)' <=> kind = "Err")
    BY EntriesGrow
  <1> QED BY <1>1, <1>2 DEF Errors

\* The queue is in order where nothing of it changes.
LEMMA BufferSame ==
    ASSUME BufferRight, UNCHANGED <<given, adaptor, delivered, inProgress>>
    PROVE  BufferRight'
  <1>1. Errors' = Errors
    BY DEF Errors, IsErr
  <1> QED BY <1>1, Zenon DEF BufferRight

\* A buffer hands out each entry once, in its queue's order.
LEMMA BufferStep1 ==
    ASSUME TypeOK, Shape, BufferRight, Buffered, [Next]_vars
    PROVE  BufferRight'
  <1>a. /\ SourceTypeOK /\ next \in 0 .. MaxAnswers /\ Len(given) \in Nat
        /\ DOMAIN given = 1 .. Len(given)
    BY SourceAssumption DEF TypeOK, SourceTypeOK
  <1>b. delivered \in Seq(Nat) /\ inProgress \in Seq(Nat)
    <2>1. \A s \in Seq(1 .. MaxAnswers) : s \in Seq(Nat)
      BY SourceAssumption
    <2> QED BY <2>1 DEF TypeOK
  <1>c. Errors \subseteq DOMAIN given
    BY DEF Errors
  <1>0. /\ SourceTypeOK /\ next \in 0 .. MaxAnswers /\ Len(given) \in Nat
        /\ DOMAIN given = 1 .. Len(given) /\ Buffered /\ BufferRight
        /\ delivered \in Seq(Nat) /\ inProgress \in Seq(Nat) /\ Errors \subseteq DOMAIN given
    BY <1>a, <1>b, <1>c
  <1>1. CASE ItemFrame /\ Awaits
    BY <1>0, <1>1 DEF ItemFrame
  <1>2. ASSUME NEW ok \in BOOLEAN, ItemFrame, Decides(ok)
        PROVE  BufferRight'
    BY <1>0, <1>2 DEF ItemFrame
  <1>3. CASE ItemFrame /\ Drops
    BY <1>0, <1>3 DEF ItemFrame
  <1>4. CASE ItemFrame /\ Stops
    BY <1>0, <1>4 DEF ItemFrame
  <1>5. ASSUME NEW kind \in {"Ok", "Err"}, ItemFrame, Begins(kind)
        PROVE  BufferRight'
    BY <1>0, <1>5 DEF ItemFrame
  <1>6. ASSUME NEW kind \in {"Ok", "Err"}, ItemFrame, Passes(kind)
        PROVE  BufferRight'
    BY <1>0, <1>6 DEF ItemFrame
  <1>7. CASE ItemFrame /\ Closes
    BY <1>0, <1>7 DEF ItemFrame
  <1>8. CASE ItemFrame /\ Idles
    BY <1>0, <1>8 DEF ItemFrame
  <1>9. CASE ItemFrame /\ Rests
    BY <1>0, <1>9 DEF ItemFrame
  <1>10. CASE ChunkFrame /\ TakeStash
    BY <1>0, <1>10 DEF ChunkFrame, Chunked, Buffered
  <1>11. CASE ChunkFrame /\ stash = <<>> /\ Collect
    BY <1>0, <1>11 DEF ChunkFrame, Chunked, Buffered
  <1>12. CASE ChunkFrame /\ stash = <<>> /\ OnError
    BY <1>0, <1>12 DEF ChunkFrame, Chunked, Buffered
  <1>13. CASE ChunkFrame /\ stash = <<>> /\ OnEnd
    BY <1>0, <1>13 DEF ChunkFrame, Chunked, Buffered
  <1>14. CASE ChunkFrame /\ stash = <<>> /\ OnPending
    BY <1>0, <1>14 DEF ChunkFrame, Chunked, Buffered
  <1>15. CASE FillFrame /\ FillOk
    <2>1. /\ Grows("Ok", 0) /\ UNCHANGED <<adaptor, delivered>> /\ inProgress' = Append(inProgress, Next1)
      BY <1>0, <1>15, GivesGrows DEF FillFrame, FillOk, GoOn, setup, outVars
    <2>2. PICK n \in Nat : n = Next1 /\ n \notin Errors /\ \A i \in DOMAIN given : i \in Nat /\ i < n
      BY <1>0, <2>1 DEF Grows, Errors
    <2>e. /\ Errors' = IF "Ok" = "Err" THEN Errors \cup {n} ELSE Errors
          /\ DOMAIN given' = DOMAIN given \cup {n}
      BY <1>0, <2>1, <2>2, ErrorsGrow, Zenon
    <2>3. Errors' = Errors /\ DOMAIN given' = DOMAIN given \cup {n}
      BY <1>0, <2>e
    <2>4. QueueRight(delivered, Append(inProgress, n), DOMAIN given \cup {n}, Errors, adaptor = "TryBuffered")
      BY <1>0, <2>2, QueueFilled DEF BufferRight
    <2> QED BY <1>0, <2>1, <2>2, <2>3, <2>4, Zenon DEF BufferRight
  <1>16. CASE FillFrame /\ FillErr
    <2>1. /\ Grows("Err", 0) /\ UNCHANGED <<adaptor, inProgress>> /\ delivered' = delivered \o <<Next1>>
      BY <1>0, <1>16, GivesGrows DEF FillFrame, FillErr, Emit, setup, bufferVars
    <2>2. PICK n \in Nat : n = Next1 /\ \A i \in DOMAIN given : i \in Nat /\ i < n
      BY <1>0, <2>1 DEF Grows
    <2>3. Errors' = Errors \cup {n} /\ DOMAIN given' = DOMAIN given \cup {n}
      BY <1>0, <2>1, <2>2, ErrorsGrow
    <2>4. QueueRight(delivered \o <<n>>, inProgress, DOMAIN given \cup {n}, Errors \cup {n}, adaptor = "TryBuffered")
      BY <1>0, <2>2, QueuePassed DEF BufferRight
    <2> QED BY <1>0, <2>1, <2>2, <2>3, <2>4, Zenon DEF BufferRight
  <1>17. CASE FillFrame /\ FillStops
    <2>1. UNCHANGED <<given, adaptor, delivered, inProgress>>
      BY <1>0, <1>17, EndsFacts DEF FillFrame, FillStops, setup, outVars, bufferVars, Pends, Waits, sourceVars, ToTake
    <2> QED BY <1>0, <2>1, BufferSame
  <1>18. CASE TakeFrame /\ TakePending
    <2>1. UNCHANGED <<given, adaptor, delivered, inProgress>>
      BY <1>0, <1>18 DEF TakeFrame, TakePending, setup, outVars, bufferVars, sourceVars, Answer
    <2> QED BY <1>0, <2>1, BufferSame
  <1>19. CASE TakeFrame /\ TakeNone
    <2>1. UNCHANGED <<given, adaptor, delivered, inProgress>>
      BY <1>0, <1>19 DEF TakeFrame, TakeNone, setup, outVars, bufferVars, sourceVars, Answer
    <2> QED BY <1>0, <2>1, BufferSame
  <1>20. ASSUME NEW k \in DOMAIN inProgress, TakeFrame, TakeItem(k)
        PROVE  BufferRight'
    <2>1. /\ UNCHANGED <<given, adaptor>> /\ inProgress' = RemoveAt(inProgress, k)
          /\ delivered' = delivered \o <<inProgress[k]>> /\ (adaptor = "TryBuffered" => k = 1)
      BY <1>0, <1>20 DEF TakeFrame, TakeItem, Available, Emit, setup, sourceVars
    <2>2. Errors' = Errors /\ DOMAIN given' = DOMAIN given
      BY <1>0, <2>1 DEF Errors, IsErr
    <2>3. QueueRight(delivered \o <<inProgress[k]>>, RemoveAt(inProgress, k), DOMAIN given, Errors,
                     adaptor = "TryBuffered")
      BY <1>0, <1>20, <2>1, QueueTaken DEF BufferRight
    <2> QED BY <1>0, <2>1, <2>2, <2>3, Zenon DEF BufferRight
  <1>21. CASE FlattenFrame /\ InnerItem
    BY <1>0, <1>21 DEF FlattenFrame, Buffered
  <1>22. CASE FlattenFrame /\ InnerError
    BY <1>0, <1>22 DEF FlattenFrame, Buffered
  <1>23. CASE FlattenFrame /\ InnerEnd
    BY <1>0, <1>23 DEF FlattenFrame, Buffered
  <1>24. CASE FlattenFrame /\ InnerPending
    BY <1>0, <1>24 DEF FlattenFrame, Buffered
  <1>25. CASE FlattenFrame /\ OuterStream
    BY <1>0, <1>25 DEF FlattenFrame, Buffered
  <1>26. CASE FlattenFrame /\ OuterRest
    BY <1>0, <1>26 DEF FlattenFrame, Buffered
  <1>27. CASE PollNext
    <2>1. UNCHANGED <<given, adaptor, delivered, inProgress>>
      BY <1>0, <1>27 DEF PollNext, setup, outVars, bufferVars, CallPoll, sourceVars
    <2> QED BY <1>0, <2>1, BufferSame
  <1>28. ASSUME NEW party \in Parties, PartyWakes(party)
        PROVE  BufferRight'
    <2>1. UNCHANGED <<given, adaptor, delivered, inProgress>>
      BY <1>0, <1>28 DEF PartyWakes, setup, outVars, bufferVars, Wakes
    <2> QED BY <1>0, <2>1, BufferSame
  <1>29. ASSUME NEW i \in DOMAIN given, Completes(i)
        PROVE  BufferRight'
    <2>1. PICK verdict \in {"keep", "err"} : Judges(i, verdict)
      BY <1>0, <1>29, CompleteJudges DEF Completes
    <2>2. UNCHANGED <<adaptor, delivered, inProgress>>
      BY <1>0, <1>29 DEF Completes, Complete, setup, outVars, bufferVars
    <2>3. Errors' = Errors /\ DOMAIN given' = DOMAIN given
      BY <1>0, <2>1 DEF Judges, Errors, IsErr
    <2> QED BY <1>0, <2>2, <2>3, Zenon DEF BufferRight
  <1>30. CASE UNCHANGED vars
    <2>1. UNCHANGED <<given, adaptor, delivered, inProgress>>
      BY <1>0, <1>30 DEF vars, setup, outVars, bufferVars, sourceVars
    <2> QED BY <1>0, <2>1, BufferSame
  <1> QED
    BY <1>1, <1>2, <1>3, <1>4, <1>5, <1>6, <1>7, <1>8, <1>9, <1>10, <1>11, <1>12,
       <1>13, <1>14, <1>15, <1>16, <1>17, <1>18, <1>19, <1>20, <1>21, <1>22, <1>23,
       <1>24, <1>25, <1>26, <1>27, <1>28, <1>29, <1>30, StepCases DEF Move

\* Together.
LEMMA InOrderStep ==
    ASSUME TypeOK, Shape, BufferShape, Verdicts, InOrder, [Next]_vars, TypeOK'
    PROVE  InOrder'
  <1>1. UNCHANGED adaptor
    <2> USE DEF setup
    <2>1. CASE Step
      BY <2>1 DEF Step
    <2>2. CASE PollNext
      BY <2>2 DEF PollNext, CallPoll
    <2>3. CASE \E party \in Parties : PartyWakes(party)
      BY <2>3 DEF PartyWakes, Wakes
    <2>4. CASE FutureCompletes
      BY <2>4 DEF FutureCompletes, Complete
    <2>5. CASE UNCHANGED vars
      BY <2>5 DEF vars
    <2> QED BY <2>1, <2>2, <2>3, <2>4, <2>5 DEF Next, Parties
  <1>2. Buffered' <=> Buffered
    BY <1>1 DEF Buffered
  <1>3. CASE ~Buffered
    <2>1. LineRight
      BY <1>3, OrderedLists
    <2>2. LineRight'
      BY <1>3, <2>1, LineStep
    <2> QED BY <1>2, <1>3, <2>2, OrderedLists
  <1>4. CASE Buffered
    <2>1. \A s \in Seq(1 .. MaxAnswers) : s \in Seq(Nat)
      BY SourceAssumption
    <2>2. /\ delivered \in Seq(Nat) /\ inProgress \in Seq(Nat)
          /\ delivered' \in Seq(Nat) /\ inProgress' \in Seq(Nat)
      BY <2>1 DEF TypeOK
    <2>3. DOMAIN given \subseteq Nat /\ DOMAIN given' \subseteq Nat
      <3>1. \A S : \A s \in Seq(S) : DOMAIN s \subseteq Nat
        OBVIOUS
      <3>2. given \in Seq(Answers) /\ given' \in Seq(Answers)
        BY DEF TypeOK, SourceTypeOK, Answers
      <3> QED BY <3>1, <3>2, Zenon
    <2>4. BufferRight
      BY <1>4, <2>2, <2>3, BufferOrder
    <2>5. BufferRight'
      BY <1>4, <2>4, BufferStep1
    <2> QED BY <1>2, <1>4, <2>2, <2>3, <2>5, BufferOrderNext
  <1> QED BY <1>3, <1>4

-----------------------------------------------------------------------------
(* The answers *)

\* What the adaptor still decides about has not come out.
LEMMA Undelivered ==
    ASSUME TypeOK, Shape, BufferShape, InOrder
    PROVE  /\ Asks => Len(given) \notin ToSet(delivered)
           /\ Buffered => ToSet(delivered) \cap ToSet(inProgress) = {}
  <1>1. \A s \in Seq(1 .. MaxAnswers) : s \in Seq(Nat)
    BY SourceAssumption
  <1>2. delivered \in Seq(Nat) /\ inProgress \in Seq(Nat)
    BY <1>1 DEF TypeOK
  <1>3. ASSUME Asks PROVE Len(given) \notin ToSet(delivered)
    <2>1. ~Buffered /\ Held = <<Len(given)>> /\ Len(given) \in Nat
      BY <1>3 DEF Asks, Asking, Buffered, Held, Shape, TypeOK, SourceTypeOK
    <2>2. Ordered(delivered \o <<Len(given)>>)
      BY <2>1, OrderedLists DEF LineRight, Line
    <2> QED BY <1>2, <2>1, <2>2, OrderedOneLess
  <1>4. ASSUME Buffered PROVE ToSet(delivered) \cap ToSet(inProgress) = {}
    <2>1. DOMAIN given \subseteq Nat
      BY DEF TypeOK, SourceTypeOK
    <2>2. After(delivered \o inProgress, Others)
      BY <1>2, <1>4, <2>1, BufferOrder DEF BufferRight, QueueRight
    <2>3. \A x \in ToSet(delivered), y \in ToSet(inProgress) : y \in Others[x]
      BY <1>2, <2>2, AfterGlued
    <2>4. \A x \in ToSet(delivered) : x \in Nat
      BY <1>2 DEF ToSet
    <2> QED BY <2>3, <2>4 DEF Others
  <1> QED BY <1>3, <1>4

\* An entry that has just come.
LEMMA NewComesOk ==
    ASSUME NEW kind, NEW of, Grows(kind, of), UNCHANGED adaptor, NEW n, n = Next1
    PROVE  ComesOk(n)' <=> kind # "Err"
  <1>1. (IsErr(n)' <=> kind = "Err") /\ Verdict(n)' = "none"
    BY EntriesGrow
  <1> QED BY <1>1 DEF ComesOk, IsOk

\* The chunk is one of items.
LEMMA HeldOk ==
    ASSUME TypeOK, Shape, BufferShape, InOrder, Verdicts, Chunked
    PROVE  \A e \in ToSet(items) : ComesOk(e) /\ e \in DOMAIN given
  <1>1. ToSet(items) \subseteq DOMAIN given
    BY HeldGiven
  <1>2. adaptor \notin Asking /\ ~Buffered /\ adaptor # "OrElse"
    BY DEF Chunked, Asking, Buffered
  <1> QED BY <1>1, <1>2 DEF Verdicts, ComesOk

\* The answers stay, ...
LEMMA AnswersKept ==
    ASSUME AnswersRight, UNCHANGED <<adaptor, size, out, delivered>>,
           \A e \in ToSet(delivered) : ComesOk(e)' <=> ComesOk(e)
    PROVE  AnswersRight'
  <1>1. Chunked' <=> Chunked
    BY DEF Chunked
  <1>2. ASSUME NEW k \in DOMAIN out, NEW e \in ToSet(out[k].items)
        PROVE  out[k].ok = ComesOk(e)'
    <2>1. (ComesOk(e)' <=> ComesOk(e)) /\ out[k].ok = ComesOk(e)
      BY DEF AnswersRight
    <2>2. ComesOk(e)' = ComesOk(e)
      BY <2>1 DEF ComesOk
    <2> QED BY <2>1, <2>2
  <1>3. ToSet(delivered)' = ToSet(delivered) /\ \A k \in DOMAIN out : ToSet(out[k].items)' = ToSet(out[k].items)
    BY DEF ToSet
  <1> QED BY <1>1, <1>2, <1>3 DEF AnswersRight

\* The answers stay right where nothing of them changes, ...
LEMMA AnswersSame ==
    ASSUME AnswersRight, UNCHANGED <<given, adaptor, size, out, delivered>>
    PROVE  AnswersRight'
  BY EntriesSame, AnswersKept

\* ... and when an entry more is given, which is in none of them.
LEMMA AnswersGrown ==
    ASSUME AnswersRight, NEW kind, NEW of, Grows(kind, of), UNCHANGED <<adaptor, size, out, delivered>>,
           ToSet(delivered) \subseteq DOMAIN given
    PROVE  AnswersRight'
  BY EntriesGrow, AnswersKept

\* ... or there is one more.
LEMMA AnswersMore ==
    ASSUME TypeOK, AnswersRight, UNCHANGED <<adaptor, size>>,
           NEW es \in Seq(1 .. MaxAnswers), NEW ok \in BOOLEAN, Emit(es, ok),
           \A e \in ToSet(delivered) : ComesOk(e)' <=> ComesOk(e),
           \A e \in ToSet(es) : ComesOk(e)' <=> ok,
           Len(es) \in 1 .. IF Chunked /\ ok THEN size ELSE 1
    PROVE  AnswersRight'
  <1>1. Chunked' <=> Chunked
    BY DEF Chunked
  <1>2. /\ DOMAIN out' = DOMAIN out \cup {Len(out) + 1}
        /\ \A k \in DOMAIN out : out'[k] = out[k]
        /\ out'[Len(out) + 1] = [items |-> es, ok |-> ok]
    BY EmitFacts DEF TypeOK
  <1>3. ToSet(delivered') = ToSet(delivered) \cup ToSet(es)
    BY Glued DEF Emit, TypeOK
  <1>4. ASSUME NEW k \in DOMAIN out'
        PROVE  /\ ToSet(out'[k].items) \subseteq ToSet(delivered')
               /\ \A e \in ToSet(out'[k].items) : out'[k].ok = ComesOk(e)'
               /\ Len(out'[k].items) \in 1 .. IF Chunked' /\ out'[k].ok THEN size' ELSE 1
    <2>1. CASE k \in DOMAIN out
      <3>1. out'[k] = out[k]
        BY <1>2, <2>1
      <3>2. /\ ToSet(out[k].items) \subseteq ToSet(delivered)
            /\ \A e \in ToSet(out[k].items) : out[k].ok = ComesOk(e)
            /\ Len(out[k].items) \in 1 .. IF Chunked /\ out[k].ok THEN size ELSE 1
        BY <2>1 DEF AnswersRight
      <3>3. ASSUME NEW e \in ToSet(out[k].items) PROVE out[k].ok = ComesOk(e)'
        <4>1. ComesOk(e)' <=> ComesOk(e)
          BY <3>2
        <4>2. ComesOk(e)' = ComesOk(e)
          BY <4>1 DEF ComesOk
        <4> QED BY <3>2, <4>2
      <3> QED BY <1>1, <1>3, <3>1, <3>2, <3>3
    <2>2. CASE k = Len(out) + 1
      <3>1. out'[k].items = es /\ out'[k].ok = ok
        BY <1>2, <2>2
      <3>2. ASSUME NEW e \in ToSet(es) PROVE ok = ComesOk(e)'
        <4>1. ComesOk(e)' <=> ok
          OBVIOUS
        <4> QED BY <4>1 DEF ComesOk
      <3> QED BY <1>1, <1>3, <3>1, <3>2
    <2> QED BY <1>2, <2>1, <2>2
  <1> QED BY <1>4 DEF AnswersRight, ToSet

\* It is one entry, ...
LEMMA AnswersOne ==
    ASSUME TypeOK, AnswersRight, UNCHANGED <<adaptor, size>>,
           NEW e \in 1 .. MaxAnswers, NEW ok \in BOOLEAN, Emit(<<e>>, ok),
           \A i \in ToSet(delivered) : ComesOk(i)' <=> ComesOk(i), ComesOk(e)' <=> ok,
           BufferShape
    PROVE  AnswersRight'
  <1>1. PICK es \in Seq(1 .. MaxAnswers) : es = <<e>> /\ Len(es) = 1 /\ ToSet(es) = {e}
    BY Short
  <1>2. Chunked => size > 0 /\ size \in Nat
    BY SourceAssumption DEF BufferShape, TypeOK, SourceTypeOK
  <1>3. Len(es) \in 1 .. IF Chunked /\ ok THEN size ELSE 1
    BY <1>1, <1>2
  <1> QED BY <1>1, <1>3, AnswersMore

\* ... one that has just come, ...
LEMMA AnswersNew ==
    ASSUME TypeOK, Shape, BufferShape, AnswersRight, UNCHANGED <<adaptor, size>>,
           NEW kind \in {"Ok", "Err"}, NEW of, Grows(kind, of), Emit(<<Next1>>, kind = "Ok"),
           ToSet(delivered) \subseteq DOMAIN given
    PROVE  AnswersRight'
  <1>1. PICK n \in 1 .. MaxAnswers : n = Next1
    BY Indices DEF Grows
  <1>2. ComesOk(n)' <=> kind = "Ok"
    BY <1>1, NewComesOk
  <1>3. \A e \in ToSet(delivered) : ComesOk(e)' <=> ComesOk(e)
    BY EntriesGrow
  <1>4. PICK ok \in BOOLEAN : ok = (kind = "Ok")
    OBVIOUS
  <1> QED BY <1>1, <1>2, <1>3, <1>4, AnswersOne

\* ... or the chunk.
LEMMA AnswersFlushed ==
    ASSUME TypeOK, Shape, BufferShape, InOrder, Verdicts, AnswersRight, UNCHANGED <<adaptor, size>>,
           Chunked, items # <<>>, Emit(items, TRUE),
           \A e \in DOMAIN given : ComesOk(e)' <=> ComesOk(e)
    PROVE  AnswersRight'
  <1>1. \A e \in ToSet(items) : ComesOk(e)'
    BY HeldOk
  <1>2. \A e \in ToSet(delivered) : ComesOk(e)' <=> ComesOk(e)
    BY HeldGiven
  <1>3. items \in Seq(1 .. MaxAnswers)
    BY DEF TypeOK
  <1>4. size \in Nat /\ Len(items) < size
    BY SourceAssumption DEF BufferShape, TypeOK, SourceTypeOK
  <1>5. Len(items) \in 1 .. size
    BY <1>3, <1>4
  <1> QED BY <1>1, <1>2, <1>3, <1>5, AnswersMore

\* Each answer is made of entries of its sign, and not longer than it may be.
LEMMA AnswersStep ==
    ASSUME TypeOK, Shape, BufferShape, Verdicts, InOrder, AnswersRight, [Next]_vars
    PROVE  AnswersRight'
  <1>a. /\ SourceTypeOK /\ next \in 0 .. MaxAnswers /\ left \in Nat /\ Len(given) \in Nat /\ size \in Nat
        /\ items \in Seq(1 .. MaxAnswers) /\ stash \in Seq(1 .. MaxAnswers) /\ Len(items) \in Nat
    BY SourceAssumption DEF TypeOK, SourceTypeOK
  <1>b. /\ ToSet(delivered) \subseteq DOMAIN given
        /\ Asks => Len(given) \notin ToSet(delivered)
    BY HeldGiven, Undelivered
  <1>0. /\ SourceTypeOK /\ next \in 0 .. MaxAnswers /\ left \in Nat /\ Len(given) \in Nat /\ size \in Nat
        /\ items \in Seq(1 .. MaxAnswers) /\ stash \in Seq(1 .. MaxAnswers) /\ Len(items) \in Nat
        /\ ToSet(delivered) \subseteq DOMAIN given
        /\ Asks => Len(given) \notin ToSet(delivered)
        /\ left > 0 => Next1 \in 1 .. MaxAnswers
        /\ Asks => Len(given) > 0 /\ Len(given) \in 1 .. MaxAnswers
    BY <1>a, <1>b, Indices DEF Shape
  <1>1. CASE ItemFrame /\ Awaits
    <2>1. UNCHANGED <<given, adaptor, size, out, delivered>>
      BY <1>0, <1>1 DEF ItemFrame, Awaits, setup, outVars, sourceVars, AwaitsFuture, FuturePends, Waits, Answer
    <2> QED BY <1>0, <2>1, AnswersSame
  <1>2. ASSUME NEW ok \in BOOLEAN, ItemFrame, Decides(ok)
        PROVE  AnswersRight'
    <2>1. /\ Judges(Len(given), IF ok THEN "keep" ELSE "err") /\ UNCHANGED <<adaptor, size>> /\ Asks
          /\ Emit(<<Len(given)>>, ok)
      BY <1>0, <1>2, ResolvesJudges DEF ItemFrame, Decides, Finishes, setup
    <2>2. PICK n : n = Len(given)
      OBVIOUS
    <2>3. /\ Verdict(n)' = (IF ok THEN "keep" ELSE "err") /\ (IsErr(n)' <=> IsErr(n)) /\ n \in DOMAIN given
          /\ IsErr(n) <=> adaptor = "OrElse"
      BY <1>0, <2>1, <2>2, EntriesJudged DEF Judges, Verdicts
    <2>4. ComesOk(n)' <=> ok
      BY <1>0, <2>1, <2>3 DEF ComesOk, IsOk
    <2>5. \A e \in ToSet(delivered) : ComesOk(e)' <=> ComesOk(e)
      BY <1>0, <2>1, <2>2, EntriesJudged
    <2>6. Len(given) \in 1 .. MaxAnswers
      BY <1>0, <2>1
    <2> QED BY <1>0, <2>1, <2>2, <2>4, <2>5, <2>6, AnswersOne
  <1>3. CASE ItemFrame /\ Drops
    <2>1. Judges(Len(given), "drop") /\ UNCHANGED <<adaptor, size, out, delivered>> /\ Asks
      BY <1>0, <1>3, ResolvesJudges DEF ItemFrame, Drops, Finishes, GoOn, Answer, outVars, setup
    <2>2. \A e \in ToSet(delivered) : ComesOk(e)' <=> ComesOk(e)
      BY <1>0, <2>1, EntriesJudged
    <2> QED BY <1>0, <2>1, <2>2, AnswersKept
  <1>4. CASE ItemFrame /\ Stops
    <2>1. Judges(Len(given), "drop") /\ UNCHANGED <<adaptor, size, out, delivered>> /\ Asks
      BY <1>0, <1>4, ResolvesJudges DEF ItemFrame, Stops, Finishes, GoOn, Answer, outVars, setup
    <2>2. \A e \in ToSet(delivered) : ComesOk(e)' <=> ComesOk(e)
      BY <1>0, <2>1, EntriesJudged
    <2> QED BY <1>0, <2>1, <2>2, AnswersKept
  <1>5. ASSUME NEW kind \in {"Ok", "Err"}, ItemFrame, Begins(kind)
        PROVE  AnswersRight'
    <2>1. Grows(kind, 0) /\ UNCHANGED <<adaptor, size, out, delivered>>
      BY <1>0, <1>5, GivesGrows DEF ItemFrame, Begins, Starts, GoOn, outVars, setup
    <2> QED BY <1>0, <2>1, AnswersGrown
  <1>6. ASSUME NEW kind \in {"Ok", "Err"}, ItemFrame, Passes(kind)
        PROVE  AnswersRight'
    <2>1. Grows(kind, 0) /\ UNCHANGED <<adaptor, size>> /\ Emit(<<Next1>>, kind = "Ok")
      BY <1>0, <1>6, GivesGrows DEF ItemFrame, Passes, setup, PassItem
    <2> QED BY <1>0, <2>1, AnswersNew
  <1>7. CASE ItemFrame /\ Closes
    <2>1. UNCHANGED <<given, adaptor, size, out, delivered>>
      BY <1>0, <1>7, EndsFacts DEF ItemFrame, Closes, setup, outVars, sourceVars, PassEnd, Answer
    <2> QED BY <1>0, <2>1, AnswersSame
  <1>8. CASE ItemFrame /\ Idles
    <2>1. UNCHANGED <<given, adaptor, size, out, delivered>>
      BY <1>0, <1>8 DEF ItemFrame, Idles, setup, outVars, sourceVars, PassPending, Pends, Waits, Answer
    <2> QED BY <1>0, <2>1, AnswersSame
  <1>9. CASE ItemFrame /\ Rests
    <2>1. UNCHANGED <<given, adaptor, size, out, delivered>>
      BY <1>0, <1>9 DEF ItemFrame, Rests, setup, outVars, sourceVars, Answer
    <2> QED BY <1>0, <2>1, AnswersSame
  <1>10. CASE ChunkFrame /\ TakeStash
    <2>1. UNCHANGED <<given, adaptor, size>> /\ Emit(stash, FALSE) /\ stash # <<>> /\ Len(stash) <= 1 /\ Chunked
      BY <1>0, <1>10 DEF ChunkFrame, TakeStash, setup, sourceVars, TypeOK
    <2>2. Len(stash) \in 1 .. 1
      <3>1. Len(stash) > 0 /\ Len(stash) \in Nat
        BY <1>0, <2>1, NotEmpty
      <3>2. \A n \in Nat : n > 0 /\ n <= 1 => n \in 1 .. 1
        OBVIOUS
      <3> QED BY <1>0, <2>1, <3>1, <3>2, Zenon
    <2>3. \A e \in ToSet(stash) : ~ComesOk(e)'
      BY <1>0, <2>1, EntriesSame DEF Verdicts, ComesOk, IsOk, Chunked
    <2>4. \A e \in ToSet(delivered) : ComesOk(e)' <=> ComesOk(e)
      BY <1>0, <2>1, EntriesSame
    <2> QED BY <1>0, <2>1, <2>2, <2>3, <2>4, AnswersMore
  <1>11. CASE ChunkFrame /\ stash = <<>> /\ Collect
    <2>1. Grows("Ok", 0) /\ UNCHANGED <<adaptor, size>> /\ Chunked /\ Next1 \in 1 .. MaxAnswers
      BY <1>0, <1>11, GivesGrows DEF ChunkFrame, Collect, setup, Gives, Given
    <2>2. CASE GoOn
      <3>1. UNCHANGED <<out, delivered>>
        BY <1>0, <2>2 DEF GoOn, outVars
      <3> QED BY <1>0, <2>1, <3>1, AnswersGrown
    <2>3. CASE Emit(Append(items, Next1), TRUE)
      <3>1. PICK n \in 1 .. MaxAnswers : n = Next1
        BY <1>0, <2>1
      <3>2. /\ Append(items, n) \in Seq(1 .. MaxAnswers) /\ Len(Append(items, n)) = Len(items) + 1
            /\ ToSet(Append(items, n)) = ToSet(items) \cup {n}
        <4>1. Append(items, n) \in Seq(1 .. MaxAnswers)
          BY <1>0, <3>1
        <4>2. Len(Append(items, n)) = Len(items) + 1
          BY <1>0, <3>1
        <4>3. ToSet(Append(items, n)) = ToSet(items) \cup {n}
          <5>1. ASSUME NEW S, items \in Seq(S), n \in S
                PROVE  ToSet(Append(items, n)) = ToSet(items) \cup {n}
            BY <1>0, <5>1, SetOfAppend
          <5> QED BY <1>0, <3>1, <5>1
        <4> QED BY <1>0, <4>1, <4>2, <4>3
      <3>3. Len(Append(items, n)) \in 1 .. size
        BY <1>0, <2>1, <3>2 DEF BufferShape
      <3>4. \A e \in ToSet(items) : ComesOk(e) /\ e \in DOMAIN given
        BY <1>0, <2>1, HeldOk
      <3>5. \A e \in DOMAIN given : ComesOk(e)' <=> ComesOk(e)
        BY <1>0, <2>1, EntriesGrow
      <3>6. ComesOk(n)'
        BY <1>0, <2>1, <3>1, NewComesOk
      <3>7. \A e \in ToSet(Append(items, n)) : ComesOk(e)'
        BY <1>0, <3>2, <3>4, <3>5, <3>6
      <3> QED BY <1>0, <2>1, <2>3, <3>1, <3>2, <3>3, <3>5, <3>7, AnswersMore
    <2> QED BY <1>0, <1>11, <2>2, <2>3 DEF Collect
  <1>12. CASE ChunkFrame /\ stash = <<>> /\ OnError
    <2>1. Grows("Err", 0) /\ UNCHANGED <<adaptor, size>> /\ Chunked
      BY <1>0, <1>12, GivesGrows DEF ChunkFrame, OnError, setup
    <2>2. CASE Emit(<<Next1>>, FALSE)
      <3>1. Emit(<<Next1>>, "Err" = "Ok")
        BY <1>0, <2>2, "Err" # "Ok"
      <3> QED BY <1>0, <2>1, <3>1, AnswersNew
    <2>3. CASE items # <<>> /\ Emit(items, TRUE)
      <3>1. \A e \in DOMAIN given : ComesOk(e)' <=> ComesOk(e)
        BY <1>0, <2>1, EntriesGrow
      <3> QED BY <1>0, <2>1, <2>3, <3>1, AnswersFlushed
    <2> QED BY <1>0, <1>12, <2>2, <2>3 DEF OnError, Flush
  <1>13. CASE ChunkFrame /\ stash = <<>> /\ OnEnd
    <2>1. UNCHANGED <<given, adaptor, size>> /\ Chunked
      BY <1>0, <1>13, EndsFacts DEF ChunkFrame, OnEnd, setup
    <2>2. CASE UNCHANGED <<out, delivered>>
      BY <1>0, <2>1, <2>2, AnswersSame
    <2>3. CASE items # <<>> /\ Emit(items, TRUE)
      <3>1. \A e \in DOMAIN given : ComesOk(e)' <=> ComesOk(e)
        BY <1>0, <2>1, EntriesSame
      <3> QED BY <1>0, <2>1, <2>3, <3>1, AnswersFlushed
    <2> QED BY <1>0, <1>13, <2>2, <2>3 DEF OnEnd, Flush, Answer, outVars
  <1>14. CASE ChunkFrame /\ stash = <<>> /\ OnPending
    <2>1. UNCHANGED <<given, adaptor, size>> /\ Chunked
      BY <1>0, <1>14 DEF ChunkFrame, OnPending, setup, Pends, Waits
    <2>2. CASE UNCHANGED <<out, delivered>>
      BY <1>0, <2>1, <2>2, AnswersSame
    <2>3. CASE items # <<>> /\ Emit(items, TRUE)
      <3>1. \A e \in DOMAIN given : ComesOk(e)' <=> ComesOk(e)
        BY <1>0, <2>1, EntriesSame
      <3> QED BY <1>0, <2>1, <2>3, <3>1, AnswersFlushed
    <2> QED BY <1>0, <1>14, <2>2, <2>3 DEF OnPending, Flush, Answer, outVars
  <1>15. CASE FillFrame /\ FillOk
    <2>1. Grows("Ok", 0) /\ UNCHANGED <<adaptor, size, out, delivered>>
      BY <1>0, <1>15, GivesGrows DEF FillFrame, FillOk, GoOn, outVars, setup
    <2> QED BY <1>0, <2>1, AnswersGrown
  <1>16. CASE FillFrame /\ FillErr
    <2>1. Grows("Err", 0) /\ UNCHANGED <<adaptor, size>> /\ Emit(<<Next1>>, "Err" = "Ok")
      BY <1>0, <1>16, GivesGrows DEF FillFrame, FillErr, setup
    <2> QED BY <1>0, <2>1, AnswersNew
  <1>17. CASE FillFrame /\ FillStops
    <2>1. UNCHANGED <<given, adaptor, size, out, delivered>>
      BY <1>0, <1>17, EndsFacts DEF FillFrame, FillStops, setup, outVars, sourceVars, Pends, Waits, ToTake
    <2> QED BY <1>0, <2>1, AnswersSame
  <1>18. CASE TakeFrame /\ TakePending
    <2>1. UNCHANGED <<given, adaptor, size, out, delivered>>
      BY <1>0, <1>18 DEF TakeFrame, TakePending, setup, outVars, sourceVars, Answer
    <2> QED BY <1>0, <2>1, AnswersSame
  <1>19. CASE TakeFrame /\ TakeNone
    <2>1. UNCHANGED <<given, adaptor, size, out, delivered>>
      BY <1>0, <1>19 DEF TakeFrame, TakeNone, setup, outVars, sourceVars, Answer
    <2> QED BY <1>0, <2>1, AnswersSame
  <1>20. ASSUME NEW k \in DOMAIN inProgress, TakeFrame, TakeItem(k)
        PROVE  AnswersRight'
    <2>1. /\ UNCHANGED <<given, adaptor, size>> /\ Emit(<<inProgress[k]>>, given[inProgress[k]].verdict = "keep")
          /\ Buffered /\ Completed(inProgress[k])
      BY <1>0, <1>20 DEF TakeFrame, TakeItem, Available, setup, sourceVars
    <2>2. PICK e \in 1 .. MaxAnswers : e = inProgress[k] /\ e \in ToSet(inProgress)
      BY <1>0, <1>20, Indices DEF ToSet
    <2>3. /\ IsOk(e) /\ e \in DOMAIN given /\ Verdict(e) \in {"none", "keep", "drop", "err"}
          /\ Verdict(e) # "drop" /\ Verdict(e) # "none"
      <3>1. e \in DOMAIN given /\ IsOk(e)
        BY <1>0, <2>1, <2>2, HeldGiven DEF InOrder
      <3>2. given \in Seq(Answers)
        BY <1>0 DEF SourceTypeOK, Answers
      <3>3. given[e] \in Answers
        BY <1>0, <3>1, <3>2, Element
      <3> QED BY <1>0, <2>1, <2>2, <3>1, <3>3 DEF Verdicts, Verdict, Completed, Answers
    <2>4. ComesOk(e) <=> given[e].verdict = "keep"
      BY <1>0, <2>1, <2>3 DEF ComesOk, Buffered, Verdict
    <2>5. (\A i \in ToSet(delivered) : ComesOk(i)' <=> ComesOk(i)) /\ (ComesOk(e)' <=> ComesOk(e))
      BY <1>0, <2>1, EntriesSame
    <2> QED BY <1>0, <2>1, <2>2, <2>4, <2>5, AnswersOne
  <1>21. CASE FlattenFrame /\ InnerItem
    <2>1. Grows("Ok", next) /\ UNCHANGED <<adaptor, size>> /\ Emit(<<Next1>>, "Ok" = "Ok")
      BY <1>0, <1>21, GivenGrows DEF FlattenFrame, InnerItem, setup, InnerGives
    <2> QED BY <1>0, <2>1, AnswersNew
  <1>22. CASE FlattenFrame /\ InnerError
    <2>1. Grows("Err", next) /\ UNCHANGED <<adaptor, size>> /\ Emit(<<Next1>>, "Err" = "Ok")
      BY <1>0, <1>22, GivenGrows DEF FlattenFrame, InnerError, setup, InnerGives
    <2> QED BY <1>0, <2>1, AnswersNew
  <1>23. CASE FlattenFrame /\ InnerEnd
    <2>1. UNCHANGED <<given, adaptor, size, out, delivered>>
      BY <1>0, <1>23 DEF FlattenFrame, InnerEnd, setup, outVars, sourceVars, GoOn
    <2> QED BY <1>0, <2>1, AnswersSame
  <1>24. CASE FlattenFrame /\ InnerPending
    <2>1. UNCHANGED <<given, adaptor, size, out, delivered>>
      BY <1>0, <1>24 DEF FlattenFrame, InnerPending, setup, outVars, sourceVars, Waits, Answer
    <2> QED BY <1>0, <2>1, AnswersSame
  <1>25. CASE FlattenFrame /\ OuterStream
    <2>1. Grows("Stream", 0) /\ UNCHANGED <<adaptor, size, out, delivered>>
      BY <1>0, <1>25, GivesGrows DEF FlattenFrame, OuterStream, GoOn, outVars, setup
    <2> QED BY <1>0, <2>1, AnswersGrown
  <1>26. CASE FlattenFrame /\ OuterRest
    <2>1. CASE PassItem("Err")
      <3>1. Grows("Err", 0) /\ UNCHANGED <<adaptor, size>> /\ Emit(<<Next1>>, "Err" = "Ok")
        BY <1>0, <1>26, <2>1, GivesGrows DEF FlattenFrame, PassItem, setup
      <3> QED BY <1>0, <3>1, AnswersNew
    <2>2. CASE PassRest
      <3>1. UNCHANGED <<given, adaptor, size, out, delivered>>
        BY <1>0, <1>26, <2>2, EndsFacts DEF FlattenFrame, PassRest, PassEnd, PassPending, Pends, Waits, Answer, setup, outVars
      <3> QED BY <1>0, <3>1, AnswersSame
    <2> QED BY <1>0, <1>26, <2>1, <2>2 DEF OuterRest
  <1>27. CASE PollNext
    <2>1. UNCHANGED <<given, adaptor, size, out, delivered>>
      BY <1>0, <1>27 DEF PollNext, setup, outVars, sourceVars, CallPoll
    <2> QED BY <1>0, <2>1, AnswersSame
  <1>28. ASSUME NEW party \in Parties, PartyWakes(party)
        PROVE  AnswersRight'
    <2>1. UNCHANGED <<given, adaptor, size, out, delivered>>
      BY <1>0, <1>28 DEF PartyWakes, setup, outVars, sourceVars, Wakes
    <2> QED BY <1>0, <2>1, AnswersSame
  <1>29. ASSUME NEW i \in DOMAIN given, Completes(i)
        PROVE  AnswersRight'
    <2>1. PICK verdict \in {"keep", "err"} : Judges(i, verdict)
      BY <1>0, <1>29, CompleteJudges DEF Completes
    <2>2. InQueue(i) /\ UNCHANGED <<adaptor, size, out, delivered>>
      BY <1>0, <1>29 DEF Completes, Complete, setup, outVars
    <2>3. i \in ToSet(inProgress) /\ Buffered
      BY <1>0, <2>2, NotInQueue DEF BufferShape
    <2>4. i \notin ToSet(delivered) /\ adaptor # "TrySkipWhile"
      BY <1>0, <2>3, Undelivered DEF Buffered
    <2>5. \A e \in ToSet(delivered) : ComesOk(e)' <=> ComesOk(e)
      BY <1>0, <2>1, <2>2, <2>4, EntriesJudged
    <2> QED BY <1>0, <2>1, <2>2, <2>5, AnswersKept
  <1>30. CASE UNCHANGED vars
    <2>1. UNCHANGED <<given, adaptor, size, out, delivered>>
      BY <1>0, <1>30 DEF vars, setup, outVars, sourceVars
    <2> QED BY <1>0, <2>1, AnswersSame
  <1> QED
    BY <1>1, <1>2, <1>3, <1>4, <1>5, <1>6, <1>7, <1>8, <1>9, <1>10, <1>11, <1>12,
       <1>13, <1>14, <1>15, <1>16, <1>17, <1>18, <1>19, <1>20, <1>21, <1>22, <1>23,
       <1>24, <1>25, <1>26, <1>27, <1>28, <1>29, <1>30, StepCases DEF Move

-----------------------------------------------------------------------------
(* Wake-ups *)

\* The queue is asked when the source has been.
LEMMA AskedStep ==
    ASSUME TypeOK, Shape, BufferShape, QueueAsked, [Next]_vars
    PROVE  QueueAsked'
  <1>a. SourceTypeOK /\ size \in Nat /\ len \in Nat
    BY SourceAssumption DEF TypeOK, SourceTypeOK
  <1>b. inProgress = <<>> => Len(inProgress) = 0
    OBVIOUS
  <1>0. SourceTypeOK /\ size \in Nat /\ len \in Nat /\ (inProgress = <<>> => Len(inProgress) = 0)
    BY <1>a, <1>b
  <1>1. CASE ItemFrame /\ Awaits
    BY <1>0, <1>1 DEF ItemFrame, Awaits, Emit, Answer, GoOn, Return, Loop, AwaitsFuture, QueueAsked
  <1>2. ASSUME NEW ok \in BOOLEAN, ItemFrame, Decides(ok)
        PROVE  QueueAsked'
    BY <1>0, <1>2 DEF ItemFrame, Decides, Emit, Answer, GoOn, Return, Loop, QueueAsked
  <1>3. CASE ItemFrame /\ Drops
    BY <1>0, <1>3 DEF ItemFrame, Drops, Emit, Answer, GoOn, Return, Loop, QueueAsked
  <1>4. CASE ItemFrame /\ Stops
    BY <1>0, <1>4 DEF ItemFrame, Stops, Emit, Answer, GoOn, Return, Loop, QueueAsked
  <1>5. ASSUME NEW kind \in {"Ok", "Err"}, ItemFrame, Begins(kind)
        PROVE  QueueAsked'
    BY <1>0, <1>5 DEF ItemFrame, Begins, Emit, Answer, GoOn, Return, Loop, Starts, QueueAsked
  <1>6. ASSUME NEW kind \in {"Ok", "Err"}, ItemFrame, Passes(kind)
        PROVE  QueueAsked'
    BY <1>0, <1>6 DEF ItemFrame, Passes, Emit, Answer, GoOn, Return, Loop, PassItem, QueueAsked
  <1>7. CASE ItemFrame /\ Closes
    BY <1>0, <1>7 DEF ItemFrame, Closes, Emit, Answer, GoOn, Return, Loop, PassEnd, QueueAsked
  <1>8. CASE ItemFrame /\ Idles
    BY <1>0, <1>8 DEF ItemFrame, Idles, Emit, Answer, GoOn, Return, Loop, PassPending, QueueAsked
  <1>9. CASE ItemFrame /\ Rests
    BY <1>0, <1>9 DEF ItemFrame, Rests, Emit, Answer, GoOn, Return, Loop, QueueAsked
  <1>10. CASE ChunkFrame /\ TakeStash
    BY <1>0, <1>10 DEF ChunkFrame, TakeStash, Emit, Answer, GoOn, Return, Loop, QueueAsked
  <1>11. CASE ChunkFrame /\ stash = <<>> /\ Collect
    BY <1>0, <1>11 DEF ChunkFrame, Collect, Emit, Answer, GoOn, Return, Loop, QueueAsked
  <1>12. CASE ChunkFrame /\ stash = <<>> /\ OnError
    BY <1>0, <1>12 DEF ChunkFrame, OnError, Emit, Answer, GoOn, Return, Loop, Flush, QueueAsked
  <1>13. CASE ChunkFrame /\ stash = <<>> /\ OnEnd
    BY <1>0, <1>13 DEF ChunkFrame, OnEnd, Emit, Answer, GoOn, Return, Loop, Flush, QueueAsked
  <1>14. CASE ChunkFrame /\ stash = <<>> /\ OnPending
    BY <1>0, <1>14 DEF ChunkFrame, OnPending, Emit, Answer, GoOn, Return, Loop, Flush, QueueAsked
  <1>15. CASE FillFrame /\ FillOk
    BY <1>0, <1>15 DEF FillFrame, FillOk, Emit, Answer, GoOn, Return, Loop, QueueAsked
  <1>16. CASE FillFrame /\ FillErr
    BY <1>0, <1>16 DEF FillFrame, FillErr, Emit, Answer, GoOn, Return, Loop, QueueAsked
  <1>17. CASE FillFrame /\ FillStops
    <2>1. CASE Ends
      BY <1>0, <1>17, <2>1, EndsFacts DEF QueueAsked
    <2>2. CASE Pends
      BY <1>0, <1>17, <2>2 DEF Pends, Waits, QueueAsked
    <2>3. CASE ~Below
      <3>1. size # 0 /\ ~(len < size) /\ len <= Len(inProgress) /\ UNCHANGED <<size, inProgress>>
        BY <1>0, <1>17, <2>3 DEF FillFrame, FillStops, ToTake, setup, bufferVars, Below, BufferShape
      <3>2. inProgress # <<>>
        BY <1>0, <3>1
      <3> QED BY <1>0, <3>1, <3>2 DEF QueueAsked
    <2> QED BY <1>0, <1>17, <2>1, <2>2, <2>3 DEF FillStops
  <1>18. CASE TakeFrame /\ TakePending
    BY <1>0, <1>18 DEF TakeFrame, TakePending, Emit, Answer, GoOn, Return, Loop, QueueAsked
  <1>19. CASE TakeFrame /\ TakeNone
    BY <1>0, <1>19 DEF TakeFrame, TakeNone, Emit, Answer, GoOn, Return, Loop, QueueAsked
  <1>20. ASSUME NEW k \in DOMAIN inProgress, TakeFrame, TakeItem(k)
        PROVE  QueueAsked'
    BY <1>0, <1>20 DEF TakeFrame, TakeItem, Emit, Answer, GoOn, Return, Loop, QueueAsked
  <1>21. CASE FlattenFrame /\ InnerItem
    BY <1>0, <1>21 DEF FlattenFrame, InnerItem, Emit, Answer, GoOn, Return, Loop, InnerGives, QueueAsked
  <1>22. CASE FlattenFrame /\ InnerError
    BY <1>0, <1>22 DEF FlattenFrame, InnerError, Emit, Answer, GoOn, Return, Loop, InnerGives, QueueAsked
  <1>23. CASE FlattenFrame /\ InnerEnd
    BY <1>0, <1>23 DEF FlattenFrame, InnerEnd, Emit, Answer, GoOn, Return, Loop, QueueAsked
  <1>24. CASE FlattenFrame /\ InnerPending
    BY <1>0, <1>24 DEF FlattenFrame, InnerPending, Emit, Answer, GoOn, Return, Loop, QueueAsked
  <1>25. CASE FlattenFrame /\ OuterStream
    BY <1>0, <1>25 DEF FlattenFrame, OuterStream, Emit, Answer, GoOn, Return, Loop, QueueAsked
  <1>26. CASE FlattenFrame /\ OuterRest
    BY <1>0, <1>26 DEF FlattenFrame, OuterRest, Emit, Answer, GoOn, Return, Loop, PassItem, PassRest, PassEnd, PassPending, QueueAsked
  <1>27. CASE PollNext
    BY <1>0, <1>27 DEF PollNext, Emit, Answer, GoOn, Return, Loop, CallPoll, QueueAsked
  <1>28. ASSUME NEW party \in Parties, PartyWakes(party)
        PROVE  QueueAsked'
    BY <1>0, <1>28 DEF PartyWakes, Wakes, QueueAsked
  <1>29. ASSUME NEW i \in DOMAIN given, Completes(i)
        PROVE  QueueAsked'
    BY <1>0, <1>29 DEF Completes, Complete, setup, bufferVars, QueueAsked
  <1>30. CASE UNCHANGED vars
    BY <1>0, <1>30 DEF vars, setup, sourceVars, bufferVars, QueueAsked
  <1> QED
    BY <1>1, <1>2, <1>3, <1>4, <1>5, <1>6, <1>7, <1>8, <1>9, <1>10, <1>11, <1>12,
       <1>13, <1>14, <1>15, <1>16, <1>17, <1>18, <1>19, <1>20, <1>21, <1>22, <1>23,
       <1>24, <1>25, <1>26, <1>27, <1>28, <1>29, <1>30, StepCases DEF Move

\* Who waits is woken.
LEMMA WakerStep ==
    ASSUME TypeOK, Shape, BufferShape, InOrder, QueueAsked, PendingHasWaker, [Next]_vars
    PROVE  PendingHasWaker'
  <1>0. SourceTypeOK
    BY DEF TypeOK
  <1>1. CASE ItemFrame /\ Awaits
    <2>1. fut' /\ adaptor' # "TryUnfold" /\ "future" \in waiting' /\ items' = <<>> /\ stash' = <<>>
      BY <1>0, <1>1 DEF ItemFrame, Awaits, AwaitsFuture, FuturePends, Waits, itemVars, chunkVars, setup, Asks, Asking,
         BufferShape
    <2> QED BY <1>0, <2>1 DEF PendingHasWaker
  <1>2. ASSUME NEW ok \in BOOLEAN, ItemFrame, Decides(ok)
        PROVE  PendingHasWaker'
    BY <1>0, <1>2 DEF ItemFrame, Decides, Emit, Answer, GoOn, Return, Loop, PendingHasWaker, Blocked
  <1>3. CASE ItemFrame /\ Drops
    BY <1>0, <1>3 DEF ItemFrame, Drops, Emit, Answer, GoOn, Return, Loop, PendingHasWaker, Blocked
  <1>4. CASE ItemFrame /\ Stops
    BY <1>0, <1>4 DEF ItemFrame, Stops, Emit, Answer, GoOn, Return, Loop, PendingHasWaker, Blocked
  <1>5. ASSUME NEW kind \in {"Ok", "Err"}, ItemFrame, Begins(kind)
        PROVE  PendingHasWaker'
    BY <1>0, <1>5 DEF ItemFrame, Begins, Emit, Answer, GoOn, Return, Loop, Starts, PendingHasWaker, Blocked
  <1>6. ASSUME NEW kind \in {"Ok", "Err"}, ItemFrame, Passes(kind)
        PROVE  PendingHasWaker'
    BY <1>0, <1>6 DEF ItemFrame, Passes, Emit, Answer, GoOn, Return, Loop, PassItem, PendingHasWaker, Blocked
  <1>7. CASE ItemFrame /\ Closes
    BY <1>0, <1>7 DEF ItemFrame, Closes, Emit, Answer, GoOn, Return, Loop, PassEnd, PendingHasWaker, Blocked
  <1>8. CASE ItemFrame /\ Idles
    <2>1. /\ (fut' => adaptor' = "TryUnfold") /\ next' = 0 /\ inProgress' = <<>> /\ "source" \in waiting'
          /\ items' = <<>> /\ stash' = <<>>
      BY <1>0, <1>8 DEF ItemFrame, Idles, PassPending, Pends, Waits, bufferVars, chunkVars, setup, Shape, BufferShape
    <2> QED BY <1>0, <2>1 DEF PendingHasWaker
  <1>9. CASE ItemFrame /\ Rests
    BY <1>0, <1>9 DEF ItemFrame, Rests, Emit, Answer, GoOn, Return, Loop, PendingHasWaker, Blocked
  <1>10. CASE ChunkFrame /\ TakeStash
    BY <1>0, <1>10 DEF ChunkFrame, TakeStash, Emit, Answer, GoOn, Return, Loop, PendingHasWaker, Blocked
  <1>11. CASE ChunkFrame /\ stash = <<>> /\ Collect
    BY <1>0, <1>11 DEF ChunkFrame, Collect, Emit, Answer, GoOn, Return, Loop, PendingHasWaker, Blocked
  <1>12. CASE ChunkFrame /\ stash = <<>> /\ OnError
    BY <1>0, <1>12 DEF ChunkFrame, OnError, Emit, Answer, GoOn, Return, Loop, Flush, PendingHasWaker, Blocked
  <1>13. CASE ChunkFrame /\ stash = <<>> /\ OnEnd
    BY <1>0, <1>13 DEF ChunkFrame, OnEnd, Emit, Answer, GoOn, Return, Loop, Flush, PendingHasWaker, Blocked
  <1>14. CASE ChunkFrame /\ stash = <<>> /\ OnPending
    <2>1. CASE items # <<>>
      BY <1>0, <1>14, <2>1 DEF OnPending, Flush, Emit, Return, PendingHasWaker, Blocked
    <2>2. CASE items = <<>>
      <3>1. ~fut' /\ next' = 0 /\ inProgress' = <<>> /\ "source" \in waiting' /\ items' = <<>> /\ stash' = <<>>
        BY <1>0, <1>14, <2>2 DEF ChunkFrame, OnPending, Pends, Waits, itemVars, bufferVars, setup, Shape, BufferShape,
           Chunked, Buffered, Asking
      <3> QED BY <1>0, <3>1 DEF PendingHasWaker
    <2> QED BY <1>0, <2>1, <2>2
  <1>15. CASE FillFrame /\ FillOk
    BY <1>0, <1>15 DEF FillFrame, FillOk, Emit, Answer, GoOn, Return, Loop, PendingHasWaker, Blocked
  <1>16. CASE FillFrame /\ FillErr
    BY <1>0, <1>16 DEF FillFrame, FillErr, Emit, Answer, GoOn, Return, Loop, PendingHasWaker, Blocked
  <1>17. CASE FillFrame /\ FillStops
    BY <1>0, <1>17 DEF FillFrame, FillStops, Emit, Answer, GoOn, Return, Loop, ToTake, PendingHasWaker, Blocked
  <1>18. CASE TakeFrame /\ TakePending
    <2>1. items' = <<>> /\ stash' = <<>> /\ UNCHANGED <<adaptor, size, ended, waiting, given, inProgress>>
      BY <1>0, <1>18 DEF TakeFrame, TakePending, chunkVars, setup, sourceVars, BufferShape, Chunked, Buffered
    <2>2. ASSUME ~notified'
          PROVE  /\ ~notified /\ inProgress # <<>>
                 /\ \A k \in DOMAIN inProgress : ~Available(k)
                 /\ \A k \in DOMAIN inProgress : inProgress[k] \in watched'
      BY <1>0, <1>18, <2>2 DEF TakePending, ToSet
    <2>3. ASSUME ~notified'
          PROVE  /\ \A k \in DOMAIN inProgress' : (adaptor' = "TryBuffered" => k = 1) =>
                        inProgress'[k] \in watched' /\ ~Completed(inProgress[k])'
                 /\ size' = 0 /\ ~ended' => "source" \in waiting'
      BY <1>0, <1>18, <2>1, <2>2, <2>3 DEF TakeFrame, Available, Completed, QueueAsked
    <2> QED BY <1>0, <2>1, <2>2, <2>3 DEF PendingHasWaker, Blocked
  <1>19. CASE TakeFrame /\ TakeNone
    <2>1. CASE terminated
      BY <1>0, <1>19, <2>1 DEF TakeNone, FuseTerminated, Answer, Return, PendingHasWaker, Blocked
    <2>2. CASE ~terminated
      <3>1. ~ended /\ ~fut /\ next = 0 /\ items = <<>> /\ stash = <<>>
        BY <1>0, <1>19, <2>2 DEF TakeFrame, Shape, BufferShape, Chunked, Buffered, Asking, Fused
      <3>2. ("source" \in waiting \/ notified) /\ inProgress = <<>>
        BY <1>0, <1>19, <3>1 DEF TakeFrame, TakeNone, QueueAsked
      <3>3. UNCHANGED <<adaptor, fut, next, items, stash, inProgress, waiting, notified>>
        BY <1>0, <1>19 DEF TakeFrame, TakeNone, setup, sourceVars, itemVars, chunkVars, bufferVars
      <3> QED BY <1>0, <3>1, <3>2, <3>3 DEF PendingHasWaker, Blocked
    <2> QED BY <1>0, <2>1, <2>2
  <1>20. ASSUME NEW k \in DOMAIN inProgress, TakeFrame, TakeItem(k)
        PROVE  PendingHasWaker'
    BY <1>0, <1>20 DEF TakeFrame, TakeItem, Emit, Answer, GoOn, Return, Loop, PendingHasWaker, Blocked
  <1>21. CASE FlattenFrame /\ InnerItem
    BY <1>0, <1>21 DEF FlattenFrame, InnerItem, Emit, Answer, GoOn, Return, Loop, InnerGives, PendingHasWaker, Blocked
  <1>22. CASE FlattenFrame /\ InnerError
    BY <1>0, <1>22 DEF FlattenFrame, InnerError, Emit, Answer, GoOn, Return, Loop, InnerGives, PendingHasWaker, Blocked
  <1>23. CASE FlattenFrame /\ InnerEnd
    BY <1>0, <1>23 DEF FlattenFrame, InnerEnd, Emit, Answer, GoOn, Return, Loop, PendingHasWaker, Blocked
  <1>24. CASE FlattenFrame /\ InnerPending
    <2>1. next' # 0 /\ "inner" \in waiting' /\ items' = <<>> /\ stash' = <<>>
      BY <1>0, <1>24 DEF FlattenFrame, InnerPending, Waits, chunkVars, BufferShape, Chunked
    <2> QED BY <1>0, <2>1 DEF PendingHasWaker
  <1>25. CASE FlattenFrame /\ OuterStream
    BY <1>0, <1>25 DEF FlattenFrame, OuterStream, Emit, Answer, GoOn, Return, Loop, PendingHasWaker, Blocked
  <1>26. CASE FlattenFrame /\ OuterRest
    <2>1. CASE PassItem("Err") \/ PassEnd
      BY <1>0, <1>26, <2>1 DEF PassItem, PassEnd, Emit, Answer, Return, PendingHasWaker, Blocked
    <2>2. CASE PassPending
      <3>1. ~fut' /\ next' = 0 /\ inProgress' = <<>> /\ "source" \in waiting' /\ items' = <<>> /\ stash' = <<>>
        BY <1>0, <1>26, <2>2 DEF FlattenFrame, OuterRest, PassPending, Pends, Waits, itemVars, bufferVars, chunkVars,
           setup, Shape, BufferShape, Chunked, Buffered, Asking
      <3> QED BY <1>0, <3>1 DEF PendingHasWaker
    <2> QED BY <1>0, <1>26, <2>1, <2>2 DEF OuterRest, PassRest
  <1>27. CASE PollNext
    BY <1>0, <1>27 DEF PollNext, Emit, Answer, GoOn, Return, Loop, CallPoll, PendingHasWaker, Blocked
  <1>28. ASSUME NEW party \in Parties, PartyWakes(party)
        PROVE  PendingHasWaker'
    BY <1>0, <1>28 DEF PartyWakes, Emit, Answer, GoOn, Return, Loop, Wakes, PendingHasWaker, Blocked
  <1>29. ASSUME NEW i \in DOMAIN given, Completes(i)
        PROVE  PendingHasWaker'
    <2>1. PICK verdict \in {"keep", "err"} : Judges(i, verdict)
      BY <1>0, <1>29, CompleteJudges DEF Completes
    <2>2. /\ InQueue(i) /\ notified' = (notified \/ i \in watched)
          /\ UNCHANGED <<adaptor, size, ended, waiting, pc, ret, fut, next, items, stash, inProgress, watched>>
      BY <1>0, <1>29 DEF Completes, Complete, setup, itemVars, chunkVars, bufferVars
    <2>3. Buffered /\ inProgress # <<>>
      BY <1>0, <2>2, NotInQueue DEF BufferShape
    <2>4. ~(fut /\ adaptor # "TryUnfold") /\ next = 0
      BY <1>0, <2>3 DEF Shape, Asking, Buffered
    <2>5. ASSUME Blocked'
          PROVE  /\ adaptor # "TryChunks" => items = <<>>
                 /\ stash = <<>> /\ i \notin watched
                 /\ \A k \in DOMAIN inProgress :
                       (adaptor = "TryBuffered" => k = 1) =>
                           inProgress[k] \in watched /\ ~Completed(inProgress[k])
                 /\ size = 0 /\ ~ended => "source" \in waiting
      BY <1>0, <2>2, <2>3, <2>4, <2>5 DEF PendingHasWaker, Blocked
    <2>6. ASSUME Blocked', NEW k \in DOMAIN inProgress, adaptor = "TryBuffered" => k = 1
          PROVE  inProgress[k] \in watched /\ ~Completed(inProgress[k])'
      <3>1. inProgress[k] \in watched /\ ~Completed(inProgress[k]) /\ inProgress[k] # i
        BY <1>0, <2>5, <2>6
      <3>2. ToSet(inProgress) \subseteq DOMAIN given
        BY <1>0, <2>3, HeldGiven
      <3>3. inProgress[k] \in DOMAIN given
        BY <1>0, <3>2 DEF ToSet
      <3>4. given'[inProgress[k]] = given[inProgress[k]] /\ inProgress'[k] = inProgress[k]
        BY <1>0, <2>1, <2>2, <3>1, <3>3 DEF Judges
      <3> QED BY <1>0, <3>1, <3>4 DEF Completed
    <2> QED BY <1>0, <2>2, <2>3, <2>5, <2>6, Zenon DEF PendingHasWaker
  <1>30. CASE UNCHANGED vars
    BY <1>0, <1>30 DEF vars, setup, sourceVars, itemVars, chunkVars, bufferVars, PendingHasWaker, Blocked, Completed
  <1> QED
    BY <1>1, <1>2, <1>3, <1>4, <1>5, <1>6, <1>7, <1>8, <1>9, <1>10, <1>11, <1>12,
       <1>13, <1>14, <1>15, <1>16, <1>17, <1>18, <1>19, <1>20, <1>21, <1>22, <1>23,
       <1>24, <1>25, <1>26, <1>27, <1>28, <1>29, <1>30, StepCases DEF Move

-----------------------------------------------------------------------------
(* The end *)

Final == ret = "End" \/ (Buffered /\ ret = "Pending" /\ notified)

\* When is_terminated holds, the adaptor has nothing left.
LEMMA TerminatedOver ==
    ASSUME TypeOK, Shape, BufferShape, IsTerminated
    PROVE  Over
  <1> USE DEF Over, Shape, Asking, Keeping, Chunked, Buffered, SourceTerminated
  <1>1. CASE adaptor \in {"AndThen", "OrElse", "TryFilter", "TryFilterMap", "TrySkipWhile"}
    <2>1. ~fut /\ SourceTerminated
      BY <1>1 DEF IsTerminated, AndThenTerminated, OrElseTerminated, TryFilterTerminated,
         TryFilterMapTerminated, TrySkipWhileTerminated
    <2> QED BY <1>1, <2>1
  <1>2. CASE adaptor = "TryTakeWhile"
    BY <1>2 DEF IsTerminated, TryTakeWhileTerminated
  <1>3. CASE adaptor = "TryUnfold"
    BY <1>3 DEF IsTerminated, TryUnfoldTerminated
  <1>4. CASE Chunked
    BY <1>4 DEF IsTerminated, TryChunksTerminated, TryReadyChunksTerminated, FuseTerminated
  <1>5. CASE Buffered
    BY <1>5 DEF IsTerminated, BufferedTerminated, FuseTerminated
  <1>6. CASE adaptor = "TryFlatten"
    BY <1>6 DEF IsTerminated, TryFlattenTerminated
  <1>7. CASE /\ adaptor \notin {"AndThen", "OrElse", "TryFilter", "TryFilterMap", "TrySkipWhile",
                                "TryTakeWhile", "TryUnfold", "TryFlatten"}
             /\ ~Chunked /\ ~Buffered
    BY <1>7 DEF IsTerminated
  <1> QED BY <1>1, <1>2, <1>3, <1>4, <1>5, <1>6, <1>7

\* What is over stays so, and what poll_next answers then is final.
LEMMA OverStays ==
    ASSUME TypeOK, Shape, BufferShape, Over, [Next]_vars
    PROVE  Over' /\ (pc # "idle" /\ pc' = "idle" => Final')
  <1> USE DEF Final
  <1>0. SourceTypeOK /\ left \in Nat /\ ended \in BOOLEAN
    BY SourceAssumption DEF TypeOK, SourceTypeOK
  <1>1. CASE ItemFrame /\ Awaits
    BY <1>0, <1>1 DEF ItemFrame, Awaits, Asks, Asking, Fused, Chunked, Buffered, Shape, Over, SourceTerminated
  <1>2. ASSUME NEW ok \in BOOLEAN, ItemFrame, Decides(ok)
        PROVE  Over' /\ (pc # "idle" /\ pc' = "idle" => Final')
    BY <1>0, <1>2 DEF ItemFrame, Decides, Asks, Asking, Fused, Chunked, Buffered, Shape, Over, SourceTerminated
  <1>3. CASE ItemFrame /\ Drops
    BY <1>0, <1>3 DEF ItemFrame, Drops, Asks, Asking, Fused, Chunked, Buffered, Shape, Over, SourceTerminated
  <1>4. CASE ItemFrame /\ Stops
    BY <1>0, <1>4 DEF ItemFrame, Stops, Asks, Asking, Fused, Chunked, Buffered, Shape, Over, SourceTerminated
  <1>5. ASSUME NEW kind \in {"Ok", "Err"}, ItemFrame, Begins(kind)
        PROVE  Over' /\ (pc # "idle" /\ pc' = "idle" => Final')
    BY <1>0, <1>5 DEF ItemFrame, Begins, Starts, PassItem, Gives, Given, Asks, Asking, Fused, Chunked, Buffered, Shape, Over, SourceTerminated
  <1>6. ASSUME NEW kind \in {"Ok", "Err"}, ItemFrame, Passes(kind)
        PROVE  Over' /\ (pc # "idle" /\ pc' = "idle" => Final')
    BY <1>0, <1>6 DEF ItemFrame, Passes, Starts, PassItem, Gives, Given, Asks, Asking, Fused, Chunked, Buffered, Shape, Over, SourceTerminated
  <1>7. CASE ItemFrame /\ Closes
    BY <1>0, <1>7, EndsFacts DEF ItemFrame, Closes, PassEnd, Answer, Return, setup, Asks, Asking, Fused, Chunked, Buffered, Shape, Over, SourceTerminated
  <1>8. CASE ItemFrame /\ Idles
    BY <1>0, <1>8 DEF ItemFrame, Idles, PassPending, Pends, Asks, Asking, Fused, Chunked, Buffered, Shape, Over, SourceTerminated
  <1>9. CASE ItemFrame /\ Rests
    BY <1>0, <1>9 DEF ItemFrame, Rests, Answer, Return, setup, sourceVars, itemVars, Asks, Asking, Fused, Chunked, Buffered, Shape, Over, SourceTerminated
  <1>10. CASE ChunkFrame /\ TakeStash
    BY <1>0, <1>10 DEF ChunkFrame, TakeStash, BufferShape, Asks, Asking, Fused, Chunked, Buffered, Shape, Over, SourceTerminated
  <1>11. CASE ChunkFrame /\ stash = <<>> /\ Collect
    BY <1>0, <1>11 DEF ChunkFrame, Collect, Gives, Asks, Asking, Fused, Chunked, Buffered, Shape, Over, SourceTerminated
  <1>12. CASE ChunkFrame /\ stash = <<>> /\ OnError
    BY <1>0, <1>12 DEF ChunkFrame, OnError, Gives, Asks, Asking, Fused, Chunked, Buffered, Shape, Over, SourceTerminated
  <1>13. CASE ChunkFrame /\ stash = <<>> /\ OnEnd
    BY <1>0, <1>13, EndsFacts DEF ChunkFrame, OnEnd, Answer, Return, setup, BufferShape, Asks, Asking, Fused, Chunked, Buffered, Shape, Over, SourceTerminated
  <1>14. CASE ChunkFrame /\ stash = <<>> /\ OnPending
    BY <1>0, <1>14 DEF ChunkFrame, OnPending, Pends, Asks, Asking, Fused, Chunked, Buffered, Shape, Over, SourceTerminated
  <1>15. CASE FillFrame /\ FillOk
    BY <1>0, <1>15 DEF FillFrame, FillOk, Gives, Asks, Asking, Fused, Chunked, Buffered, Shape, Over, SourceTerminated
  <1>16. CASE FillFrame /\ FillErr
    BY <1>0, <1>16 DEF FillFrame, FillErr, Gives, Asks, Asking, Fused, Chunked, Buffered, Shape, Over, SourceTerminated
  <1>17. CASE FillFrame /\ FillStops
    <2>1. terminated /\ ended /\ inProgress = <<>> /\ pc' = "take" /\ UNCHANGED <<adaptor, inProgress>>
      BY <1>0, <1>17 DEF FillFrame, FillStops, ToTake, setup, bufferVars, Asks, Asking, Fused, Chunked, Buffered, Shape, Over, SourceTerminated
    <2>2. terminated'
      BY <1>0, <1>17, <2>1 DEF FillStops, Ends, Pends, sourceVars, SourceTerminated
    <2> QED BY <1>0, <1>17, <2>1, <2>2 DEF FillFrame, Chunked, Buffered, Over
  <1>18. CASE TakeFrame /\ TakePending
    BY <1>0, <1>18 DEF TakeFrame, TakePending, Answer, Return, setup, sourceVars, Asks, Asking, Fused, Chunked, Buffered, Shape, Over, SourceTerminated
  <1>19. CASE TakeFrame /\ TakeNone
    BY <1>0, <1>19 DEF TakeFrame, TakeNone, FuseTerminated, Answer, Return, setup, sourceVars, bufferVars, Asks, Asking, Fused, Chunked, Buffered, Shape, Over, SourceTerminated
  <1>20. ASSUME NEW k \in DOMAIN inProgress, TakeFrame, TakeItem(k)
        PROVE  Over' /\ (pc # "idle" /\ pc' = "idle" => Final')
    BY <1>0, <1>20 DEF TakeFrame, TakeItem, Asks, Asking, Fused, Chunked, Buffered, Shape, Over, SourceTerminated
  <1>21. CASE FlattenFrame /\ InnerItem
    BY <1>0, <1>21 DEF FlattenFrame, InnerItem, InnerGives, Asks, Asking, Fused, Chunked, Buffered, Shape, Over, SourceTerminated
  <1>22. CASE FlattenFrame /\ InnerError
    BY <1>0, <1>22 DEF FlattenFrame, InnerError, InnerGives, Asks, Asking, Fused, Chunked, Buffered, Shape, Over, SourceTerminated
  <1>23. CASE FlattenFrame /\ InnerEnd
    BY <1>0, <1>23 DEF FlattenFrame, InnerEnd, InnerGives, Asks, Asking, Fused, Chunked, Buffered, Shape, Over, SourceTerminated
  <1>24. CASE FlattenFrame /\ InnerPending
    BY <1>0, <1>24 DEF FlattenFrame, InnerPending, InnerGives, Asks, Asking, Fused, Chunked, Buffered, Shape, Over, SourceTerminated
  <1>25. CASE FlattenFrame /\ OuterStream
    BY <1>0, <1>25 DEF FlattenFrame, OuterStream, Gives, Given, Asks, Asking, Fused, Chunked, Buffered, Shape, Over, SourceTerminated
  <1>26. CASE FlattenFrame /\ OuterRest
    <2>1. CASE PassItem("Err")
      BY <1>0, <1>26, <2>1 DEF FlattenFrame, PassItem, Gives, Given, Asks, Asking, Fused, Chunked, Buffered, Shape, Over, SourceTerminated
    <2>2. CASE PassEnd
      BY <1>0, <1>26, <2>2, EndsFacts DEF FlattenFrame, OuterRest, PassEnd, Answer, Return, setup, itemVars, Asks, Asking, Fused, Chunked, Buffered, Shape, Over, SourceTerminated
    <2>3. CASE PassPending
      BY <1>0, <1>26, <2>3 DEF FlattenFrame, PassPending, Pends, Asks, Asking, Fused, Chunked, Buffered, Shape, Over, SourceTerminated
    <2> QED BY <1>0, <1>26, <2>1, <2>2, <2>3 DEF OuterRest, PassRest
  <1>27. CASE PollNext
    BY <1>0, <1>27 DEF PollNext, CallPoll, setup, sourceVars, itemVars, Asks, Asking, Fused, Chunked, Buffered, Shape, Over, SourceTerminated
  <1>28. ASSUME NEW party \in Parties, PartyWakes(party)
        PROVE  Over' /\ (pc # "idle" /\ pc' = "idle" => Final')
    BY <1>0, <1>28 DEF PartyWakes, Wakes, setup, itemVars, bufferVars, Asks, Asking, Fused, Chunked, Buffered, Shape, Over, SourceTerminated
  <1>29. ASSUME NEW i \in DOMAIN given, Completes(i)
        PROVE  Over' /\ (pc # "idle" /\ pc' = "idle" => Final')
    BY <1>0, <1>29 DEF Completes, Complete, setup, itemVars, bufferVars, Asks, Asking, Fused, Chunked, Buffered, Shape, Over, SourceTerminated
  <1>30. CASE UNCHANGED vars
    BY <1>0, <1>30 DEF vars, setup, sourceVars, itemVars, bufferVars, Asks, Asking, Fused, Chunked, Buffered, Shape, Over, SourceTerminated
  <1> QED
    BY <1>1, <1>2, <1>3, <1>4, <1>5, <1>6, <1>7, <1>8, <1>9, <1>10, <1>11, <1>12,
       <1>13, <1>14, <1>15, <1>16, <1>17, <1>18, <1>19, <1>20, <1>21, <1>22, <1>23,
       <1>24, <1>25, <1>26, <1>27, <1>28, <1>29, <1>30, StepCases DEF Move

\* "None" is answered when all is over.
LEMMA EndOver ==
    ASSUME TypeOK, Shape, BufferShape, [Next]_vars
    PROVE  ret' = "End" => ret = "End" \/ Over'
  <1>0. SourceTypeOK /\ left \in Nat /\ ended \in BOOLEAN
    BY SourceAssumption DEF TypeOK, SourceTypeOK
  <1>1. CASE ItemFrame /\ Awaits
    BY <1>0, <1>1 DEF ItemFrame, Awaits, Emit, Answer, GoOn, Return, Loop, AwaitsFuture
  <1>2. ASSUME NEW ok \in BOOLEAN, ItemFrame, Decides(ok)
        PROVE  ret' = "End" => ret = "End" \/ Over'
    BY <1>0, <1>2 DEF ItemFrame, Decides, Emit, Answer, GoOn, Return, Loop
  <1>3. CASE ItemFrame /\ Drops
    BY <1>0, <1>3 DEF ItemFrame, Drops, Emit, Answer, GoOn, Return, Loop
  <1>4. CASE ItemFrame /\ Stops
    BY <1>0, <1>4 DEF ItemFrame, Stops, Finishes, setup, Asks, Asking, Fused, Chunked, Buffered, Shape, Over, SourceTerminated
  <1>5. ASSUME NEW kind \in {"Ok", "Err"}, ItemFrame, Begins(kind)
        PROVE  ret' = "End" => ret = "End" \/ Over'
    BY <1>0, <1>5 DEF ItemFrame, Begins, Emit, Answer, GoOn, Return, Loop, Starts
  <1>6. ASSUME NEW kind \in {"Ok", "Err"}, ItemFrame, Passes(kind)
        PROVE  ret' = "End" => ret = "End" \/ Over'
    BY <1>0, <1>6 DEF ItemFrame, Passes, Emit, Answer, GoOn, Return, Loop, PassItem
  <1>7. CASE ItemFrame /\ Closes
    BY <1>0, <1>7, EndsFacts DEF ItemFrame, Closes, PassEnd, Answer, Return, setup, Asks, Asking, Fused, Chunked, Buffered, Shape, Over, SourceTerminated
  <1>8. CASE ItemFrame /\ Idles
    BY <1>0, <1>8 DEF ItemFrame, Idles, Emit, Answer, GoOn, Return, Loop, PassPending
  <1>9. CASE ItemFrame /\ Rests
    BY <1>0, <1>9 DEF ItemFrame, Rests, Answer, Return, setup, sourceVars, itemVars, Asks, Asking, Fused, Chunked, Buffered, Shape, Over, SourceTerminated
  <1>10. CASE ChunkFrame /\ TakeStash
    BY <1>0, <1>10 DEF ChunkFrame, TakeStash, Emit, Answer, GoOn, Return, Loop
  <1>11. CASE ChunkFrame /\ stash = <<>> /\ Collect
    BY <1>0, <1>11 DEF ChunkFrame, Collect, Emit, Answer, GoOn, Return, Loop
  <1>12. CASE ChunkFrame /\ stash = <<>> /\ OnError
    BY <1>0, <1>12 DEF ChunkFrame, OnError, Emit, Answer, GoOn, Return, Loop, Flush
  <1>13. CASE ChunkFrame /\ stash = <<>> /\ OnEnd
    <2>1. CASE items = <<>>
      BY <1>0, <1>13, <2>1, EndsFacts DEF ChunkFrame, OnEnd, Answer, Return, setup, Asks, Asking, Fused, Chunked, Buffered, Shape, Over, SourceTerminated
    <2>2. CASE items # <<>>
      BY <1>0, <1>13, <2>2 DEF OnEnd, Flush, Emit, Return
    <2> QED BY <1>0, <2>1, <2>2
  <1>14. CASE ChunkFrame /\ stash = <<>> /\ OnPending
    BY <1>0, <1>14 DEF ChunkFrame, OnPending, Emit, Answer, GoOn, Return, Loop, Flush
  <1>15. CASE FillFrame /\ FillOk
    BY <1>0, <1>15 DEF FillFrame, FillOk, Emit, Answer, GoOn, Return, Loop
  <1>16. CASE FillFrame /\ FillErr
    BY <1>0, <1>16 DEF FillFrame, FillErr, Emit, Answer, GoOn, Return, Loop
  <1>17. CASE FillFrame /\ FillStops
    BY <1>0, <1>17 DEF FillFrame, FillStops, Emit, Answer, GoOn, Return, Loop, ToTake
  <1>18. CASE TakeFrame /\ TakePending
    BY <1>0, <1>18 DEF TakeFrame, TakePending, Emit, Answer, GoOn, Return, Loop
  <1>19. CASE TakeFrame /\ TakeNone
    BY <1>0, <1>19 DEF TakeFrame, TakeNone, FuseTerminated, Answer, Return, setup, sourceVars, bufferVars, Asks, Asking, Fused, Chunked, Buffered, Shape, Over, SourceTerminated
  <1>20. ASSUME NEW k \in DOMAIN inProgress, TakeFrame, TakeItem(k)
        PROVE  ret' = "End" => ret = "End" \/ Over'
    BY <1>0, <1>20 DEF TakeFrame, TakeItem, Emit, Answer, GoOn, Return, Loop
  <1>21. CASE FlattenFrame /\ InnerItem
    BY <1>0, <1>21 DEF FlattenFrame, InnerItem, Emit, Answer, GoOn, Return, Loop, InnerGives
  <1>22. CASE FlattenFrame /\ InnerError
    BY <1>0, <1>22 DEF FlattenFrame, InnerError, Emit, Answer, GoOn, Return, Loop, InnerGives
  <1>23. CASE FlattenFrame /\ InnerEnd
    BY <1>0, <1>23 DEF FlattenFrame, InnerEnd, Emit, Answer, GoOn, Return, Loop
  <1>24. CASE FlattenFrame /\ InnerPending
    BY <1>0, <1>24 DEF FlattenFrame, InnerPending, Emit, Answer, GoOn, Return, Loop
  <1>25. CASE FlattenFrame /\ OuterStream
    BY <1>0, <1>25 DEF FlattenFrame, OuterStream, Emit, Answer, GoOn, Return, Loop
  <1>26. CASE FlattenFrame /\ OuterRest
    <2>1. CASE PassItem("Err") \/ PassPending
      BY <1>0, <1>26, <2>1 DEF PassItem, PassPending, Emit, Answer, Return
    <2>2. CASE PassEnd
      BY <1>0, <1>26, <2>2, EndsFacts DEF FlattenFrame, OuterRest, PassEnd, Answer, Return, setup, itemVars, Asks, Asking, Fused, Chunked, Buffered, Shape, Over, SourceTerminated
    <2> QED BY <1>0, <1>26, <2>1, <2>2 DEF OuterRest, PassRest
  <1>27. CASE PollNext
    BY <1>0, <1>27 DEF PollNext, Emit, Answer, GoOn, Return, Loop, CallPoll
  <1>28. ASSUME NEW party \in Parties, PartyWakes(party)
        PROVE  ret' = "End" => ret = "End" \/ Over'
    BY <1>0, <1>28 DEF PartyWakes, Emit, Answer, GoOn, Return, Loop, Wakes
  <1>29. ASSUME NEW i \in DOMAIN given, Completes(i)
        PROVE  ret' = "End" => ret = "End" \/ Over'
    BY <1>0, <1>29 DEF Completes, Emit, Answer, GoOn, Return, Loop, Complete
  <1>30. CASE UNCHANGED vars
    BY <1>0, <1>30 DEF vars, Emit, Answer, GoOn, Return, Loop, setup
  <1> QED
    BY <1>1, <1>2, <1>3, <1>4, <1>5, <1>6, <1>7, <1>8, <1>9, <1>10, <1>11, <1>12,
       <1>13, <1>14, <1>15, <1>16, <1>17, <1>18, <1>19, <1>20, <1>21, <1>22, <1>23,
       <1>24, <1>25, <1>26, <1>27, <1>28, <1>29, <1>30, StepCases DEF Move

\* Between two calls of poll_next, what was said is remembered.
LEMMA PromiseStays ==
    ASSUME [Next]_vars, ~PollNext
    PROVE  promise' = promise /\ (pc = "idle" => UNCHANGED <<pc, ret, adaptor>> /\ (notified => notified'))
  <1>1. CASE Step
    <2>1. pc # "idle"
      BY <1>1 DEF Step, ItemPart, ItemStep, ChunkPart, ChunkStep, BufferPart, BufferStep, FlattenPart, FlattenStep
    <2> QED BY <1>1, <2>1 DEF Step
  <1>2. CASE PartyWakes("source") \/ PartyWakes("future") \/ PartyWakes("inner")
    BY <1>2 DEF PartyWakes, Wakes, setup
  <1>3. CASE FutureCompletes
    BY <1>3 DEF FutureCompletes, Complete, setup
  <1>4. CASE UNCHANGED vars
    BY <1>4 DEF vars, setup
  <1> QED BY <1>1, <1>2, <1>3, <1>4 DEF Next

\* After is_terminated and after "none", nothing but "none".
LEMMA OverKeptStep ==
    ASSUME TypeOK, Shape, BufferShape, OverKept, [Next]_vars
    PROVE  OverKept'
  <1>1. ret' = "End" => Over'
    BY EndOver, OverStays DEF OverKept
  <1>2. CASE PollNext
    <2>1. pc' = "poll" /\ (promise'.over <=> IsTerminated \/ ret = "End")
      BY <1>2 DEF PollNext, CallPoll
    <2>2. promise'.over => Over
      BY <2>1, TerminatedOver DEF OverKept
    <2>3. promise'.over => Over'
      BY <2>2, OverStays
    <2> QED BY <1>1, <2>1, <2>3 DEF OverKept, EndIsFinal
  <1>3. CASE ~PollNext
    <2>1. promise' = promise /\ (pc = "idle" => UNCHANGED <<pc, ret, adaptor>> /\ (notified => notified'))
      BY <1>3, PromiseStays
    <2>2. CASE pc = "idle"
      <3>1. EndIsFinal'
        BY <2>1, <2>2 DEF OverKept, EndIsFinal, Buffered
      <3> QED BY <1>1, <2>1, <2>2, <3>1 DEF OverKept
    <2>3. CASE pc # "idle"
      <3>1. promise.over => Over' /\ (pc' = "idle" => Final')
        BY <2>3, OverStays DEF OverKept
      <3> QED BY <1>1, <2>1, <3>1 DEF OverKept, EndIsFinal, Final
    <2> QED BY <2>2, <2>3
  <1> QED BY <1>2, <1>3

-----------------------------------------------------------------------------
(* size_hint *)

\* Division by a capacity is monotonic, ...
LEMMA DivisionRises ==
    ASSUME NEW s \in Nat, s > 0, NEW x \in Nat, NEW y \in Nat, y <= x
    PROVE  y \div s <= x \div s /\ y \div s \in Nat
  OBVIOUS

\* ... and a full chunk more makes it one more.
LEMMA DivisionNext ==
    ASSUME NEW s \in Nat, s > 0, NEW x \in Nat
    PROVE  (x + s) \div s = x \div s + 1
  OBVIOUS

\* An entry of s less makes one chunk less, at most.
LEMMA Division ==
    ASSUME NEW s \in Nat, s > 0, NEW x \in Nat, NEW y \in Nat, y <= x + s
    PROVE  y \div s <= x \div s + 1 /\ x \div s \in Nat /\ y \div s \in Nat
  <1>1. PICK z \in Nat : z = x + s
    OBVIOUS
  <1>2. y \div s <= z \div s
    BY <1>1, DivisionRises
  <1>3. z \div s = x \div s + 1
    BY <1>1, DivisionNext
  <1> QED BY <1>2, <1>3, DivisionRises

\* No step makes the answers to come fewer than was promised, or more.
HintsMove ==
    /\ Len(out) + Least <= Len(out') + Least'
    /\ adaptor \in Bounded => Len(out') + Most' <= Len(out) + Most

\* An answer with a chunk is one answer more, ...
LEMMA EmitTyped ==
    ASSUME TypeOK, NEW es \in Seq(1 .. MaxAnswers), NEW ok \in BOOLEAN, Emit(es, ok)
    PROVE  Len(out') = Len(out) + 1
  BY EmitFacts DEF TypeOK

\* ... and so is one with an item.
LEMMA EmitOne ==
    ASSUME TypeOK, NEW e \in 1 .. MaxAnswers, NEW ok \in BOOLEAN, Emit(<<e>>, ok)
    PROVE  Len(out') = Len(out) + 1
  <1>1. PICK es \in Seq(1 .. MaxAnswers) : es = <<e>>
    BY Short
  <1> QED BY <1>1, EmitTyped

\* Every step keeps to that.
LEMMA HintsMoveStep ==
    ASSUME TypeOK, Shape, BufferShape, [Next]_vars
    PROVE  HintsMove
  <1>a. /\ SourceTypeOK /\ next \in 0 .. MaxAnswers /\ left \in Nat /\ Len(given) \in Nat /\ size \in Nat
        /\ items \in Seq(1 .. MaxAnswers) /\ stash \in Seq(1 .. MaxAnswers) /\ Len(items) \in Nat /\ Len(stash) \in Nat
        /\ Len(out) \in Nat /\ fut \in BOOLEAN /\ done \in BOOLEAN
    BY SourceAssumption DEF TypeOK, SourceTypeOK
  <1>b. Chunked => left \div size \in Nat /\ (left + Len(items)) \div size \in Nat
    <2>1. Chunked => size > 0
      BY DEF BufferShape
    <2>2. left + Len(items) \in Nat
      BY <1>a
    <2> QED BY <1>a, <2>1, <2>2, DivisionRises
  <1>0. /\ TypeOK /\ SourceTypeOK /\ next \in 0 .. MaxAnswers /\ left \in Nat /\ Len(given) \in Nat /\ size \in Nat
        /\ items \in Seq(1 .. MaxAnswers) /\ stash \in Seq(1 .. MaxAnswers) /\ Len(items) \in Nat /\ Len(stash) \in Nat
        /\ Len(out) \in Nat /\ fut \in BOOLEAN /\ done \in BOOLEAN
        /\ left > 0 => Next1 \in 1 .. MaxAnswers
        /\ Asks => Len(given) > 0 /\ Len(given) \in 1 .. MaxAnswers
        /\ \A k \in DOMAIN inProgress : inProgress[k] \in 1 .. MaxAnswers
        /\ Chunked => left \div size \in Nat /\ (left + Len(items)) \div size \in Nat
    BY <1>a, <1>b, Indices DEF Shape
  <1>1. CASE ItemFrame /\ Awaits
    BY <1>0, <1>1 DEF ItemFrame, Awaits, AwaitsFuture, FuturePends, Waits, Answer, outVars, itemVars, chunkVars, setup, HintsMove, Least, Most, Pending, Exact, Bounded, Asking, Chunked, Buffered
  <1>2. ASSUME NEW ok \in BOOLEAN, ItemFrame, Decides(ok)
        PROVE  HintsMove
    <2>1. /\ Len(out') = Len(out) + 1 /\ UNCHANGED <<adaptor, size, left, items, stash>> /\ fut /\ ~fut' /\ ~done
          /\ ~Chunked
      BY <1>0, <1>2, ResolvesJudges, EmitOne DEF ItemFrame, Decides, Finishes, Judges, setup, chunkVars, Asks, Shape
    <2> QED BY <1>0, <1>2, <2>1 DEF HintsMove, Least, Most, Pending, Exact, Bounded, Asking, Chunked, Buffered
  <1>3. CASE ItemFrame /\ Drops
    <2>1. /\ UNCHANGED <<adaptor, size, left, items, stash, out>> /\ fut /\ ~fut' /\ ~done /\ ~Chunked
          /\ adaptor \in {"TryFilter", "TryFilterMap", "TrySkipWhile", "TryTakeWhile"}
      BY <1>0, <1>3, ResolvesJudges DEF ItemFrame, Drops, Finishes, Judges, GoOn, Answer, outVars, setup, chunkVars, Asks, Shape
    <2> QED BY <1>0, <1>3, <2>1 DEF HintsMove, Least, Most, Pending, Exact, Bounded, Asking, Chunked, Buffered
  <1>4. CASE ItemFrame /\ Stops
    <2>1. /\ UNCHANGED <<adaptor, size, left, items, stash, out>> /\ fut /\ ~fut' /\ ~done /\ ~Chunked
          /\ adaptor \in {"TryFilter", "TryFilterMap", "TrySkipWhile", "TryTakeWhile"}
      BY <1>0, <1>4, ResolvesJudges DEF ItemFrame, Stops, Finishes, Judges, GoOn, Answer, outVars, setup, chunkVars, Asks, Shape
    <2> QED BY <1>0, <1>4, <2>1 DEF HintsMove, Least, Most, Pending, Exact, Bounded, Asking, Chunked, Buffered
  <1>5. ASSUME NEW kind \in {"Ok", "Err"}, ItemFrame, Begins(kind)
        PROVE  HintsMove
    <2>1. /\ UNCHANGED <<adaptor, size, items, stash, out, done>> /\ ~fut /\ fut' /\ ~Chunked
          /\ left > 0 /\ left' = left - 1
      BY <1>0, <1>5, GivesGrows DEF ItemFrame, Begins, Starts, Grows, GoOn, outVars, setup, chunkVars
    <2> QED BY <1>0, <1>5, <2>1 DEF HintsMove, Least, Most, Pending, Exact, Bounded, Asking, Chunked, Buffered
  <1>6. ASSUME NEW kind \in {"Ok", "Err"}, ItemFrame, Passes(kind)
        PROVE  HintsMove
    <2>1. /\ Len(out') = Len(out) + 1 /\ UNCHANGED <<adaptor, size, items, stash>> /\ ~fut' /\ ~Chunked
          /\ left > 0 /\ left' = left - 1 /\ (fut => adaptor = "TryUnfold")
          /\ (adaptor = "TryTakeWhile" => ~done)
      BY <1>0, <1>6, GivesGrows, EmitOne DEF ItemFrame, Passes, PassItem, Grows, setup, chunkVars, Asks, Shape
    <2> QED BY <1>0, <1>6, <2>1 DEF HintsMove, Least, Most, Pending, Exact, Bounded, Asking, Chunked, Buffered
  <1>7. CASE ItemFrame /\ Closes
    <2>1. /\ UNCHANGED <<adaptor, size, left, items, stash, out>> /\ ~Chunked /\ left = 0
          /\ ~fut' /\ (fut => adaptor = "TryUnfold")
      BY <1>0, <1>7, EndsFacts DEF ItemFrame, Closes, PassEnd, Answer, outVars, setup, chunkVars, Asks, Shape
    <2> QED BY <1>0, <1>7, <2>1 DEF HintsMove, Least, Most, Pending, Exact, Bounded, Asking, Chunked, Buffered
  <1>8. CASE ItemFrame /\ Idles
    <2>1. /\ UNCHANGED <<adaptor, size, left, items, stash, out, done>> /\ ~Chunked
          /\ (fut' => adaptor = "TryUnfold") /\ (fut => adaptor = "TryUnfold")
      BY <1>0, <1>8 DEF ItemFrame, Idles, PassPending, Pends, Waits, Answer, outVars, setup, chunkVars, itemVars, Asks, Shape
    <2> QED BY <1>0, <1>8, <2>1 DEF HintsMove, Least, Most, Pending, Exact, Bounded, Asking, Chunked, Buffered
  <1>9. CASE ItemFrame /\ Rests
    BY <1>0, <1>9 DEF ItemFrame, Rests, Answer, outVars, sourceVars, itemVars, chunkVars, setup, HintsMove, Least, Most, Pending, Exact, Bounded, Asking, Chunked, Buffered
  <1>10. CASE ChunkFrame /\ TakeStash
    <2>1. /\ Len(out') = Len(out) + 1 /\ UNCHANGED <<adaptor, size, left, items, done>> /\ Chunked
          /\ stash # <<>> /\ stash' = <<>>
      BY <1>0, <1>10, EmitTyped DEF ChunkFrame, TakeStash, sourceVars, itemVars, setup
    <2>2. Len(stash) > 0 /\ Len(stash') = 0 /\ items = <<>>
      BY <1>0, <2>1, NotEmpty DEF BufferShape
    <2> QED BY <1>0, <1>10, <2>1, <2>2 DEF HintsMove, Least, Most, Pending, Exact, Bounded, Asking, Chunked, Buffered
  <1>11. CASE ChunkFrame /\ stash = <<>> /\ Collect
    <2>1. /\ Grows("Ok", 0) /\ UNCHANGED <<adaptor, size, stash>> /\ Chunked
          /\ Next1 \in 1 .. MaxAnswers /\ Append(items, Next1) \in Seq(1 .. MaxAnswers)
      BY <1>0, <1>11, GivesGrows DEF ChunkFrame, Collect, setup, Gives, Given
    <2>2. Len(Append(items, Next1)) = Len(items) + 1
      BY <1>0, <2>1
    <2>3. left > 0 /\ left' = left - 1 /\ left' \in Nat /\ Chunked'
      BY <1>0, <2>1 DEF Grows, Chunked
    <2>4. CASE Emit(Append(items, Next1), TRUE) /\ items' = <<>> /\ Len(items) + 1 >= size
      <3>1. Len(out') = Len(out) + 1
        <4>1. PICK es \in Seq(1 .. MaxAnswers) : es = Append(items, Next1)
          BY <1>0, <2>1
        <4> QED BY <1>0, <2>4, <4>1, EmitTyped
      <3>2. /\ (left + Len(items)) \div size <= left' \div size + 1 /\ left' \div size \in Nat
            /\ (left + Len(items)) \div size \in Nat
        <4>1. left + Len(items) \in Nat /\ left + Len(items) <= left' + size /\ size > 0
          <5>1. size > 0 /\ Len(items) < size
            BY <1>0, <2>1 DEF BufferShape
          <5> QED BY <1>0, <2>3, <5>1
        <4> QED BY <1>0, <2>3, <4>1, Division
      <3>3. Len(items') = 0
        BY <1>0, <2>4
      <3>4. Least = (left + Len(items)) \div size /\ Least' = left' \div size
        BY <1>0, <2>1, <2>3, <3>3 DEF Least
      <3>5. Len(out') + Most' <= Len(out) + Most
        BY <1>0, <2>1, <2>3, <2>4, <3>1, <3>3 DEF Most
      <3> QED BY <1>0, <3>1, <3>2, <3>4, <3>5 DEF HintsMove
    <2>5. CASE GoOn /\ items' = Append(items, Next1)
      <3>1. UNCHANGED out /\ left' + Len(items') = left + Len(items)
        BY <1>0, <2>2, <2>3, <2>5 DEF GoOn, outVars
      <3>2. items' # <<>>
        BY <1>0, <2>2, <2>5
      <3>3. Len(items') \in Nat /\ Len(items) \in Nat
        BY <1>0, <2>1, <2>5
      <3>4. Least' = Least
        BY <1>0, <2>1, <2>3, <3>1 DEF Least
      <3>5. Most' <= Most
        <4>1. Most' = left' + Len(stash) + 1
          BY <1>0, <2>1, <2>3, <3>2 DEF Most
        <4> QED BY <1>0, <2>1, <2>3, <4>1 DEF Most
      <3>6. Least \in Nat /\ Most \in Nat /\ Most' \in Nat
        BY <1>0, <2>1, <2>3, <3>2 DEF Least, Most
      <3> QED BY <1>0, <3>1, <3>4, <3>5, <3>6 DEF HintsMove
    <2> QED BY <1>0, <1>11, <2>2, <2>4, <2>5 DEF Collect
  <1>12. CASE ChunkFrame /\ stash = <<>> /\ OnError
    <2>1. Grows("Err", 0) /\ UNCHANGED <<adaptor, size>> /\ Chunked /\ Next1 \in 1 .. MaxAnswers
      BY <1>0, <1>12, GivesGrows DEF ChunkFrame, OnError, setup, Gives, Given
    <2>2. left > 0 /\ left' = left - 1 /\ Chunked'
      BY <1>0, <2>1 DEF Grows, Chunked
    <2>3. left' \in Nat /\ size > 0 /\ Len(items) < size
      BY <1>0, <2>1, <2>2 DEF BufferShape
    <2>4. /\ (left + Len(items)) \div size <= left' \div size + 1 /\ left' \div size \in Nat
          /\ (left + Len(items)) \div size \in Nat
      <3>1. left + Len(items) \in Nat /\ left + Len(items) <= left' + size
        BY <1>0, <2>2, <2>3
      <3> QED BY <1>0, <2>2, <2>3, <3>1, Division
    <2>5. CASE items = <<>> /\ Emit(<<Next1>>, FALSE) /\ UNCHANGED chunkVars
      <3>1. Len(out') = Len(out) + 1
        BY <1>0, <2>1, <2>5, EmitOne
      <3> QED BY <1>0, <2>1, <2>2, <2>3, <2>4, <2>5, <3>1 DEF HintsMove, Least, Most, chunkVars
    <2>6. CASE items # <<>> /\ Emit(items, TRUE) /\ items' = <<>> /\ stash' = <<Next1>>
      <3>1. Len(out') = Len(out) + 1 /\ stash = <<>> /\ Len(stash') = 1 /\ Len(items') = 0
        BY <1>0, <1>12, <2>1, <2>6, EmitTyped
      <3> QED BY <1>0, <2>1, <2>2, <2>3, <2>4, <2>6, <3>1 DEF HintsMove, Least, Most
    <2> QED BY <1>0, <1>12, <2>5, <2>6 DEF OnError, Flush
  <1>13. CASE ChunkFrame /\ stash = <<>> /\ OnEnd
    <2>1. UNCHANGED <<adaptor, size, left, stash>> /\ Chunked /\ Chunked'
      BY <1>0, <1>13, EndsFacts DEF ChunkFrame, OnEnd, setup, Chunked
    <2>2. CASE UNCHANGED <<out, items>>
      BY <1>0, <2>1, <2>2 DEF HintsMove, Least, Most
    <2>3. CASE items # <<>> /\ Emit(items, TRUE) /\ items' = <<>>
      <3>1. Len(out') = Len(out) + 1 /\ Len(items') = 0
        BY <1>0, <2>3, EmitTyped
      <3>2. /\ (left + Len(items)) \div size <= left \div size + 1 /\ left \div size \in Nat
            /\ (left + Len(items)) \div size \in Nat
        <4>1. left + Len(items) \in Nat /\ left + Len(items) <= left + size /\ size > 0
          BY <1>0, <2>1 DEF BufferShape
        <4> QED BY <1>0, <4>1, Division
      <3> QED BY <1>0, <2>1, <2>3, <3>1, <3>2 DEF HintsMove, Least, Most
    <2> QED BY <1>0, <1>13, <2>2, <2>3 DEF OnEnd, Flush, Answer, outVars
  <1>14. CASE ChunkFrame /\ stash = <<>> /\ OnPending
    <2>1. UNCHANGED <<adaptor, size, left, stash>> /\ Chunked /\ Chunked'
      BY <1>0, <1>14 DEF ChunkFrame, OnPending, setup, Chunked, Pends, Waits
    <2>2. CASE UNCHANGED <<out, items>>
      BY <1>0, <2>1, <2>2 DEF HintsMove, Least, Most
    <2>3. CASE items # <<>> /\ Emit(items, TRUE) /\ items' = <<>>
      <3>1. Len(out') = Len(out) + 1 /\ Len(items') = 0
        BY <1>0, <2>3, EmitTyped
      <3>2. /\ (left + Len(items)) \div size <= left \div size + 1 /\ left \div size \in Nat
            /\ (left + Len(items)) \div size \in Nat
        <4>1. left + Len(items) \in Nat /\ left + Len(items) <= left + size /\ size > 0
          BY <1>0, <2>1 DEF BufferShape
        <4> QED BY <1>0, <4>1, Division
      <3> QED BY <1>0, <2>1, <2>3, <3>1, <3>2 DEF HintsMove, Least, Most
    <2> QED BY <1>0, <1>14, <2>2, <2>3 DEF OnPending, Flush, Answer, outVars
  <1>15. CASE FillFrame /\ FillOk
    <2>1. UNCHANGED <<adaptor, out>> /\ Least = 0 /\ Least' = 0 /\ adaptor \notin Bounded
      BY <1>0, <1>15 DEF FillFrame, FillOk, setup, outVars, Least, Exact, Bounded, Asking, Chunked, Buffered, GoOn
    <2> QED BY <1>0, <1>15, <2>1 DEF HintsMove
  <1>16. CASE FillFrame /\ FillErr
    <2>1. UNCHANGED adaptor /\ Len(out') = Len(out) + 1 /\ Least = 0 /\ Least' = 0 /\ adaptor \notin Bounded
      BY <1>0, <1>16, EmitOne DEF FillFrame, FillErr, setup, Least, Exact, Bounded, Asking, Chunked, Buffered, Gives, Given
    <2> QED BY <1>0, <1>16, <2>1 DEF HintsMove
  <1>17. CASE FillFrame /\ FillStops
    <2>1. UNCHANGED <<adaptor, out>> /\ Least = 0 /\ Least' = 0 /\ adaptor \notin Bounded
      BY <1>0, <1>17 DEF FillFrame, FillStops, setup, outVars, Least, Exact, Bounded, Asking, Chunked, Buffered, ToTake
    <2> QED BY <1>0, <1>17, <2>1 DEF HintsMove
  <1>18. CASE TakeFrame /\ TakePending
    <2>1. UNCHANGED <<adaptor, out>> /\ Least = 0 /\ Least' = 0 /\ adaptor \notin Bounded
      BY <1>0, <1>18 DEF TakeFrame, TakePending, setup, outVars, Least, Exact, Bounded, Asking, Chunked, Buffered, Answer
    <2> QED BY <1>0, <1>18, <2>1 DEF HintsMove
  <1>19. CASE TakeFrame /\ TakeNone
    <2>1. UNCHANGED <<adaptor, out>> /\ Least = 0 /\ Least' = 0 /\ adaptor \notin Bounded
      BY <1>0, <1>19 DEF TakeFrame, TakeNone, setup, outVars, Least, Exact, Bounded, Asking, Chunked, Buffered, Answer
    <2> QED BY <1>0, <1>19, <2>1 DEF HintsMove
  <1>20. ASSUME NEW k \in DOMAIN inProgress, TakeFrame, TakeItem(k)
        PROVE  HintsMove
    <2>1. UNCHANGED adaptor /\ Len(out') = Len(out) + 1 /\ Least = 0 /\ Least' = 0 /\ adaptor \notin Bounded
      BY <1>0, <1>20, EmitOne DEF TakeFrame, TakeItem, setup, Least, Exact, Bounded, Asking, Chunked, Buffered
    <2> QED BY <1>0, <1>20, <2>1 DEF HintsMove
  <1>21. CASE FlattenFrame /\ InnerItem
    <2>1. UNCHANGED adaptor /\ Len(out') = Len(out) + 1 /\ Least = 0 /\ Least' = 0 /\ adaptor \notin Bounded
      BY <1>0, <1>21, EmitOne DEF FlattenFrame, InnerItem, setup, Least, Exact, Bounded, Asking, Chunked, Buffered, InnerGives, Given
    <2> QED BY <1>0, <1>21, <2>1 DEF HintsMove
  <1>22. CASE FlattenFrame /\ InnerError
    <2>1. UNCHANGED adaptor /\ Len(out') = Len(out) + 1 /\ Least = 0 /\ Least' = 0 /\ adaptor \notin Bounded
      BY <1>0, <1>22, EmitOne DEF FlattenFrame, InnerError, setup, Least, Exact, Bounded, Asking, Chunked, Buffered, InnerGives, Given
    <2> QED BY <1>0, <1>22, <2>1 DEF HintsMove
  <1>23. CASE FlattenFrame /\ InnerEnd
    <2>1. UNCHANGED <<adaptor, out>> /\ Least = 0 /\ Least' = 0 /\ adaptor \notin Bounded
      BY <1>0, <1>23 DEF FlattenFrame, InnerEnd, setup, outVars, Least, Exact, Bounded, Asking, Chunked, Buffered, GoOn
    <2> QED BY <1>0, <1>23, <2>1 DEF HintsMove
  <1>24. CASE FlattenFrame /\ InnerPending
    <2>1. UNCHANGED <<adaptor, out>> /\ Least = 0 /\ Least' = 0 /\ adaptor \notin Bounded
      BY <1>0, <1>24 DEF FlattenFrame, InnerPending, setup, outVars, Least, Exact, Bounded, Asking, Chunked, Buffered, Answer
    <2> QED BY <1>0, <1>24, <2>1 DEF HintsMove
  <1>25. CASE FlattenFrame /\ OuterStream
    <2>1. UNCHANGED <<adaptor, out>> /\ Least = 0 /\ Least' = 0 /\ adaptor \notin Bounded
      BY <1>0, <1>25 DEF FlattenFrame, OuterStream, setup, outVars, Least, Exact, Bounded, Asking, Chunked, Buffered, GoOn
    <2> QED BY <1>0, <1>25, <2>1 DEF HintsMove
  <1>26. CASE FlattenFrame /\ OuterRest
    <2>1. UNCHANGED adaptor /\ Least = 0 /\ Least' = 0 /\ adaptor \notin Bounded
      BY <1>0, <1>26 DEF FlattenFrame, setup, Least, Exact, Bounded, Asking, Chunked
    <2>2. CASE PassItem("Err")
      <3>1. Len(out') = Len(out) + 1
        BY <1>0, <2>2, EmitOne DEF PassItem, Gives, Given
      <3> QED BY <1>0, <2>1, <3>1 DEF HintsMove
    <2>3. CASE PassRest
      <3>1. UNCHANGED out
        BY <1>0, <2>3 DEF PassRest, PassEnd, PassPending, Answer, outVars
      <3> QED BY <1>0, <2>1, <3>1 DEF HintsMove
    <2> QED BY <1>0, <1>26, <2>2, <2>3 DEF OuterRest
  <1>27. CASE PollNext
    <2>1. UNCHANGED <<adaptor, size, left, items, stash, out, fut, done>>
      BY <1>0, <1>27 DEF PollNext, setup, sourceVars, chunkVars, itemVars, outVars, CallPoll
    <2> QED BY <1>0, <2>1 DEF HintsMove, Least, Most, Pending, Exact, Bounded, Asking, Chunked, Buffered
  <1>28. ASSUME NEW party \in Parties, PartyWakes(party)
        PROVE  HintsMove
    <2>1. UNCHANGED <<adaptor, size, left, items, stash, out, fut, done>>
      BY <1>0, <1>28 DEF PartyWakes, setup, sourceVars, chunkVars, itemVars, outVars, Wakes
    <2> QED BY <1>0, <2>1 DEF HintsMove, Least, Most, Pending, Exact, Bounded, Asking, Chunked, Buffered
  <1>29. ASSUME NEW i \in DOMAIN given, Completes(i)
        PROVE  HintsMove
    <2>1. UNCHANGED <<adaptor, size, left, items, stash, out, fut, done>>
      BY <1>0, <1>29 DEF Completes, setup, sourceVars, chunkVars, itemVars, outVars, Complete
    <2> QED BY <1>0, <2>1 DEF HintsMove, Least, Most, Pending, Exact, Bounded, Asking, Chunked, Buffered
  <1>30. CASE UNCHANGED vars
    <2>1. UNCHANGED <<adaptor, size, left, items, stash, out, fut, done>>
      BY <1>0, <1>30 DEF vars, setup, sourceVars, chunkVars, itemVars, outVars
    <2> QED BY <1>0, <2>1 DEF HintsMove, Least, Most, Pending, Exact, Bounded, Asking, Chunked, Buffered
  <1> QED
    BY <1>1, <1>2, <1>3, <1>4, <1>5, <1>6, <1>7, <1>8, <1>9, <1>10, <1>11, <1>12,
       <1>13, <1>14, <1>15, <1>16, <1>17, <1>18, <1>19, <1>20, <1>21, <1>22, <1>23,
       <1>24, <1>25, <1>26, <1>27, <1>28, <1>29, <1>30, StepCases DEF Move

\* How many are to come is a number.
LEMMA Counted ==
    ASSUME TypeOK, BufferShape
    PROVE  /\ Least \in Nat /\ Most \in Nat /\ Len(out) \in Nat /\ left \in Nat /\ Pending \in Nat
           /\ Len(stash) \in Nat
  <1>1. left \in Nat /\ size \in Nat /\ Len(items) \in Nat /\ Len(stash) \in Nat /\ Len(out) \in Nat /\ Pending \in Nat
    BY SourceAssumption DEF TypeOK, SourceTypeOK, Pending
  <1>2. Chunked => size > 0
    BY DEF BufferShape
  <1>3. ASSUME Chunked PROVE (left + Len(items)) \div size \in Nat
    <2>1. left + Len(items) \in Nat
      BY <1>1
    <2> QED BY <1>1, <1>2, <1>3, <2>1, DivisionRises
  <1>4. Least \in Nat
    BY <1>1, <1>3 DEF Least
  <1>5. Most \in Nat
    BY <1>1 DEF Most
  <1> QED BY <1>1, <1>4, <1>5

\* The same without hypotheses of its own, to be said of the next state.
LEMMA CountedNow == TypeOK /\ BufferShape => Least \in Nat /\ Most \in Nat /\ Len(out) \in Nat
  BY Counted

\* Between two calls size_hint says just how many are to come.
LEMMA HintIs ==
    ASSUME TypeOK, Shape, BufferShape, pc = "idle"
    PROVE  /\ SizeHint.lower = Least
           /\ SizeHint.upper = IF adaptor \in Bounded THEN {Most - Len(stash)} ELSE {}
  <1>0. /\ left \in Nat /\ Len(stash) \in Nat /\ items = <<>> /\ Len(items) = 0
        /\ left + Len(items) = left /\ left + Len(stash) - Len(stash) = left /\ left + 0 = left
    <2>1. left \in Nat /\ Len(stash) \in Nat
      BY Counted
    <2>2. items = <<>>
      BY DEF BufferShape
    <2> QED BY <2>1, <2>2
  <1>1. ~Chunked => stash = <<>> /\ Len(stash) = 0 /\ Most - Len(stash) = Most
    <2>1. ~Chunked => stash = <<>>
      BY DEF BufferShape
    <2>2. Most \in Nat
      BY Counted
    <2> QED BY <2>1, <2>2
  <1>2. CASE adaptor \in {"AndThen", "OrElse", "TryFilterMap"}
    BY <1>0, <1>1, <1>2 DEF SizeHint, AndThenHint, OrElseHint, TryFilterMapHint, Exactly, AtMost,
       Least, Most, Chunked, Exact, Bounded, Asking
  <1>3. CASE adaptor \in Keeping
    <2>1. Len(item) = Pending
      BY <1>3 DEF Shape, Pending, Keeping, Asking
    <2> QED BY <1>0, <1>1, <1>3, <2>1 DEF SizeHint, TryFilterHint, TryTakeWhileHint, TrySkipWhileHint, AtMost,
       Least, Most, Chunked, Exact, Bounded, Asking, Keeping
  <1>4. CASE Chunked
    <2>1. Most - Len(stash) = left
      BY <1>0, <1>4 DEF Most
    <2>2. adaptor \in Bounded /\ adaptor \in {"TryChunks", "TryReadyChunks"}
      BY <1>4 DEF Chunked, Bounded
    <2>3. left \div size \in Nat /\ left \div size + 0 = left \div size
      BY <1>0, <1>4, Counted DEF Least
    <2>4. Least = left \div size
      BY <1>0, <1>4 DEF Least
    <2>5. SizeHint.lower = left \div size /\ SizeHint.upper = {left}
      <3>1. CASE adaptor = "TryChunks"
        <4>1. SizeHint = [lower |-> left \div size + 0, upper |-> {left + 0}]
          BY <1>0, <3>1 DEF SizeHint, TryChunksHint
        <4> QED BY <1>0, <2>3, <4>1
      <3>2. CASE adaptor = "TryReadyChunks"
        BY <3>2 DEF SizeHint, TryReadyChunksHint
      <3> QED BY <2>2, <3>1, <3>2
    <2> QED BY <2>1, <2>2, <2>4, <2>5
  <1>5. CASE adaptor \in {"MapOk", "MapErr", "InspectOk", "InspectErr", "IntoStream"}
    <2>1. Pending = 0
      BY <1>5 DEF Pending, Shape, Asking
    <2> QED BY <1>0, <1>1, <1>5, <2>1 DEF SizeHint, Exactly, Least, Most, Chunked, Exact, Bounded, Asking
  <1>6. CASE /\ adaptor \notin {"AndThen", "OrElse", "TryFilterMap", "MapOk", "MapErr", "InspectOk",
                                "InspectErr", "IntoStream"} \cup Keeping
             /\ ~Chunked
    BY <1>6 DEF SizeHint, Unknown, Least, Chunked, Exact, Bounded, Asking, Keeping
  <1> QED BY <1>2, <1>3, <1>4, <1>5, <1>6

\* What size_hint says when poll_next is called can be remembered.
LEMMA PromiseTyped ==
    ASSUME TypeOK, Shape, BufferShape, HintsKept, [Next]_vars
    PROVE  promise' \in Promises
  <1>1. CASE PollNext
    <2>1. pc = "idle" /\ promise' = [lower |-> Len(out) + SizeHint.lower,
                                     upper |-> IF stash = <<>> THEN {Len(out) + n : n \in SizeHint.upper}
                                                               ELSE promise.upper,
                                     over  |-> IsTerminated \/ ret = "End"]
      BY <1>1 DEF PollNext, CallPoll
    <2>2. Len(out) + SizeHint.lower \in Nat
      BY <2>1, HintIs, Counted
    <2>3. ASSUME NEW n \in SizeHint.upper PROVE Len(out) + n \in 0 .. MaxAnswers
      <3>1. adaptor \in Bounded /\ n = Most - Len(stash)
        BY <2>1, <2>3, HintIs
      <3>2. Len(out) + Most <= MaxAnswers
        BY <3>1 DEF HintsKept
      <3>3. /\ Len(out) \in Nat /\ Most \in Nat /\ Len(stash) \in Nat /\ MaxAnswers \in Nat
            /\ Most - Len(stash) \in Nat
        <4>1. Most >= Len(stash)
          <5>1. CASE Chunked
            BY <5>1, Counted DEF Most
          <5>2. CASE ~Chunked
            BY <5>2, Counted DEF BufferShape
          <5> QED BY <5>1, <5>2
        <4> QED BY <4>1, Counted, SourceAssumption
      <3> QED BY <3>1, <3>2, <3>3
    <2>4. /\ {Len(out) + n : n \in SizeHint.upper} \in SUBSET (0 .. MaxAnswers)
          /\ promise.upper \in SUBSET (0 .. MaxAnswers)
      BY <2>3 DEF TypeOK
    <2>5. (IsTerminated \/ ret = "End") \in BOOLEAN
      OBVIOUS
    <2> QED BY <2>1, <2>2, <2>4, <2>5 DEF Promises
  <1>2. CASE ~PollNext
    BY <1>2, PromiseStays DEF TypeOK, Promises
  <1> QED BY <1>1, <1>2

\* No step changes the adaptor.
LEMMA SetupStays ==
    ASSUME [Next]_vars
    PROVE  UNCHANGED setup
  <1>1. CASE PollNext
    BY <1>1 DEF PollNext, CallPoll
  <1>2. CASE Step
    BY <1>2 DEF Step
  <1>3. CASE PartyWakes("source") \/ PartyWakes("future") \/ PartyWakes("inner")
    BY <1>3 DEF PartyWakes, Wakes
  <1>4. CASE FutureCompletes
    BY <1>4 DEF FutureCompletes, Complete
  <1>5. CASE UNCHANGED vars
    BY <1>5 DEF vars
  <1> QED BY <1>1, <1>2, <1>3, <1>4, <1>5 DEF Next

\* Both bounds of what is out and to come hold until the next call.
LEMMA HintsKeptStep ==
    ASSUME TypeOK, Shape, BufferShape, HintsKept, [Next]_vars, TypeOK', BufferShape'
    PROVE  HintsKept'
  <1>1. HintsMove /\ adaptor' = adaptor
    BY HintsMoveStep, SetupStays DEF setup
  <1>2. /\ Least \in Nat /\ Least' \in Nat /\ Most \in Nat /\ Most' \in Nat
        /\ Len(out) \in Nat /\ Len(out') \in Nat /\ Len(stash) \in Nat /\ MaxAnswers \in Nat
    <2>1. (Least \in Nat /\ Most \in Nat /\ Len(out) \in Nat)'
      BY CountedNow, PTL
    <2> QED BY <2>1, Counted, SourceAssumption
  <1>3. adaptor \in Bounded => Len(out') + Most' <= MaxAnswers
    BY <1>1, <1>2 DEF HintsKept, HintsMove
  <1>4. CASE PollNext
    <2>1. /\ pc = "idle" /\ promise'.lower = Len(out) + SizeHint.lower
          /\ promise'.upper = IF stash = <<>> THEN {Len(out) + n : n \in SizeHint.upper} ELSE promise.upper
      BY <1>4 DEF PollNext, CallPoll
    <2>2. Len(out') + Least' >= promise'.lower
      BY <1>1, <1>2, <2>1, HintIs DEF HintsMove
    <2>3. ASSUME adaptor \in Bounded, NEW m \in promise'.upper PROVE Len(out') + Most' <= m
      <3>1. CASE stash = <<>>
        <4>1. PICK n \in SizeHint.upper : m = Len(out) + n
          BY <2>1, <2>3, <3>1
        <4>2. n = Most - Len(stash) /\ Len(stash) = 0
          BY <2>1, <2>3, <3>1, <4>1, HintIs
        <4>3. m = Len(out) + Most
          BY <1>2, <4>1, <4>2
        <4> QED BY <1>1, <1>2, <2>3, <4>3 DEF HintsMove
      <3>2. CASE stash # <<>>
        <4>1. m \in promise.upper
          BY <2>1, <2>3, <3>2
        <4>2. m \in Nat /\ Len(out) + Most <= m
          BY <2>3, <4>1, SourceAssumption DEF TypeOK, HintsKept
        <4> QED BY <1>1, <1>2, <2>3, <4>2 DEF HintsMove
      <3> QED BY <3>1, <3>2
    <2>4. adaptor \notin Bounded => promise'.upper = {}
      BY <2>1, HintIs DEF HintsKept
    <2> QED BY <1>1, <1>3, <2>2, <2>3, <2>4 DEF HintsKept, Bounded, Asking, Exact
  <1>5. CASE ~PollNext
    <2>1. promise' = promise
      BY <1>5, PromiseStays
    <2>2. promise.lower \in Nat /\ \A m \in promise.upper : m \in Nat
      BY SourceAssumption DEF TypeOK
    <2>3. Len(out') + Least' >= promise.lower
      BY <1>1, <1>2, <2>2 DEF HintsKept, HintsMove
    <2>4. ASSUME adaptor \in Bounded, NEW m \in promise.upper PROVE Len(out') + Most' <= m
      BY <1>1, <1>2, <2>2, <2>4 DEF HintsKept, HintsMove
    <2> QED BY <1>1, <1>3, <2>1, <2>3, <2>4 DEF HintsKept, Bounded, Asking, Exact
  <1> QED BY <1>4, <1>5

\* What was said of the answers is so whenever poll_next is not running.
LEMMA HintsOfKept ==
    ASSUME TypeOK, Shape, BufferShape, HintsKept
    PROVE  HintsHold
  <1> SUFFICES ASSUME pc = "idle" PROVE HintsHold
    BY DEF HintsHold
  <1>1. Len(out) + SizeHint.lower >= promise.lower
    BY HintIs DEF HintsKept
  <1>2. ASSUME NEW n \in SizeHint.upper, NEW m \in promise.upper
        PROVE  Len(out) + n <= m
    <2>1. adaptor \in Bounded /\ n = Most - Len(stash)
      BY <1>2, HintIs
    <2>2. Len(out) + Most <= m
      BY <1>2, <2>1 DEF HintsKept
    <2>3. m \in Nat
      BY SourceAssumption DEF TypeOK
    <2> QED BY <2>1, <2>2, <2>3, Counted
  <1>3. ASSUME NEW m \in promise.upper
        PROVE  Len(out) <= m
    <2>1. adaptor \in Bounded
      BY <1>3 DEF HintsKept
    <2>2. Len(out) + Most <= m
      BY <1>3, <2>1 DEF HintsKept
    <2>3. m \in Nat
      BY SourceAssumption DEF TypeOK
    <2> QED BY <2>2, <2>3, Counted
  <1> QED BY <1>1, <1>2, <1>3 DEF HintsHold

-----------------------------------------------------------------------------
(* The theorems *)

\* At first nothing is given, so nothing is out or called.
LEMMA InitLists ==
    ASSUME Init
    PROVE  InOrder /\ CalledRight
  <1>1. /\ delivered = <<>> /\ Held = <<>> /\ inProgress = <<>> /\ called = <<>> /\ given = <<>>
        /\ DOMAIN given = {}
    BY DEF Init, SourceInit, ItemInit, ChunkInit, BufferInit, Held
  <1>2. <<>> \o <<>> = <<>> /\ DOMAIN <<>> = {} /\ ToSet(<<>>) = {}
    BY DEF ToSet
  <1>3. CalledRight
    BY <1>1, <1>2 DEF CalledRight, Lists, Rising
  <1>4. ~Buffered => InOrder
    BY <1>1, <1>2 DEF InOrder, Lists, Rising
  <1>5. Buffered => InOrder
    BY <1>1, <1>2 DEF InOrder, ThroughQueue, IsInjective, Rising
  <1> QED BY <1>3, <1>4, <1>5

\* The invariant holds at first, ...
LEMMA InitInv == Init => AdaptorInv
  <1> SUFFICES ASSUME Init PROVE AdaptorInv
    OBVIOUS
  <1> USE SourceAssumption DEF Init, SourceInit, ItemInit, ChunkInit, BufferInit, FlattenInit
  <1>1. TypeOK
    <2>0. \A S : <<>> \in Seq(S) /\ Len(<<>>) = 0
      BY Empty
    <2>1. SourceTypeOK
      <3>1. given \in Seq(Answers) /\ Len(given) = 0 /\ left \in 0 .. MaxAnswers /\ Len(given) + left <= MaxAnswers
        BY <2>0
      <3>2. size \in Sizes \cup {0} /\ early \in BOOLEAN /\ waiting \subseteq Parties
        OBVIOUS
      <3> QED BY <3>1, <3>2 DEF SourceTypeOK, Answers
    <2>2. promise \in Promises
      BY DEF Promises
    <2>3. /\ out \in Seq([items : Seq(1 .. MaxAnswers), ok : BOOLEAN]) /\ delivered \in Seq(1 .. MaxAnswers)
          /\ called \in Seq(1 .. MaxAnswers) /\ item \in Seq(1 .. MaxAnswers) /\ Len(item) <= 1
          /\ items \in Seq(1 .. MaxAnswers) /\ stash \in Seq(1 .. MaxAnswers) /\ Len(stash) <= 1
          /\ inProgress \in Seq(1 .. MaxAnswers)
      BY <2>0
    <2>4. /\ pc = "idle" /\ ret = "None" /\ fut = FALSE /\ done = FALSE /\ state \in BOOLEAN
          /\ watched = {} /\ len \in 0 .. MaxAnswers /\ next \in 0 .. MaxAnswers
      OBVIOUS
    <2> HIDE DEF Init, SourceInit, ItemInit, ChunkInit, BufferInit, FlattenInit
    <2> QED BY <2>1, <2>2, <2>3, <2>4 DEF TypeOK, Promises
  <1>2. Shape
    BY DEF Shape, Asks, Asking, Keeping, While
  <1>3. BufferShape
    BY DEF BufferShape, Chunked, Buffered
  <1>4. Verdicts
    BY DEF Verdicts, Asks, ToSet, SkippingEndedBefore
  <1>5. StreamsRight
    BY DEF StreamsRight
  <1>6. InOrder /\ CalledRight
    BY InitLists
  <1>7. AnswersRight
    BY DEF AnswersRight
  <1>8. PendingHasWaker /\ QueueAsked
    BY DEF PendingHasWaker, QueueAsked, Blocked
  <1>9. OverKept
    BY DEF OverKept, EndIsFinal
  <1>10. HintsKept
    <2>1. Len(out) = 0 /\ stash = <<>> /\ Len(stash) = 0 /\ items = <<>> /\ left \in 0 .. MaxAnswers /\ Pending = 0
      BY DEF Pending
    <2>2. adaptor \in Bounded => Len(out) + Most <= MaxAnswers
      BY <2>1 DEF Most
    <2>3. Len(out) + Least >= 0
      BY <1>1, <1>3, <2>1, Counted
    <2> QED BY <2>2, <2>3 DEF HintsKept
  <1> QED BY <1>1, <1>2, <1>3, <1>4, <1>5, <1>6, <1>7, <1>8, <1>9, <1>10 DEF AdaptorInv

\* ... and every step keeps it.
LEMMA StepInv == AdaptorInv /\ [Next]_vars => AdaptorInv'
  <1> SUFFICES ASSUME AdaptorInv, [Next]_vars PROVE AdaptorInv'
    OBVIOUS
  <1>0. /\ TypeOK /\ Shape /\ BufferShape /\ Verdicts /\ StreamsRight /\ InOrder /\ CalledRight
        /\ AnswersRight /\ PendingHasWaker /\ QueueAsked /\ OverKept /\ HintsKept
    BY DEF AdaptorInv
  <1>1. TypeOK'
    BY <1>0, PromiseTyped, TypeStep
  <1>2. Shape'
    BY <1>0, ShapeStep
  <1>3. BufferShape'
    BY <1>0, BufferShapeStep
  <1>4. Verdicts'
    BY <1>0, VerdictsStep
  <1>5. StreamsRight'
    BY <1>0, StreamsStep
  <1>6. InOrder'
    BY <1>0, <1>1, InOrderStep
  <1>7. CalledRight'
    BY <1>0, OrderedLists, CallsStep DEF CalledRight
  <1>8. AnswersRight'
    BY <1>0, AnswersStep
  <1>9. QueueAsked'
    BY <1>0, AskedStep
  <1>10. PendingHasWaker'
    BY <1>0, WakerStep
  <1>11. OverKept'
    BY <1>0, OverKeptStep
  <1>12. HintsKept'
    BY <1>0, <1>1, <1>3, HintsKeptStep
  <1> QED BY <1>1, <1>2, <1>3, <1>4, <1>5, <1>6, <1>7, <1>8, <1>9, <1>10, <1>11, <1>12 DEF AdaptorInv

\* Whatever the source, the futures, the wake-ups and the consumer do, the
\* variables of the adaptor that Init made fit together: what it holds is what
\* the source has given and nobody has got yet, each field says of the others
\* what poll_next relies on, and what was promised is still to come.
THEOREM AdaptorsCorrect == Spec => []AdaptorInv
  BY InitInv, StepInv, PTL DEF Spec

\* The variables of every adaptor stay in their types: no counter of a buffer or
\* of size_hint runs below zero, one pending item and one stashed error at most.
THEOREM TypeCorrect == Spec => []TypeOK
  <1>1. AdaptorInv => TypeOK
    BY DEF AdaptorInv
  <1> QED BY <1>1, AdaptorsCorrect, PTL

\* poll_next of every adaptor hands out what the source gave as the adaptor
\* says: nothing lost, nothing twice, nothing out of order, with the right sign,
\* in chunks of the capacity, and the user's function is called once for each
\* entry it is for.
THEOREM OutputStaysRight == Spec => []OutputRight
  <1>1. AdaptorInv => OutputRight
    BY DEF AdaptorInv, OutputRight, CalledRight, AnswersRight, StreamsRight
  <1> QED BY <1>1, AdaptorsCorrect, PTL

\* When poll_next has answered "pending", the future, inner stream, queue or
\* source it waits for holds the waker, and nothing is kept back that could
\* have come out: no wake-up is lost.
THEOREM WakersHeld == Spec => []PendingHasWaker
  <1>1. AdaptorInv => PendingHasWaker
    BY DEF AdaptorInv
  <1> QED BY <1>1, AdaptorsCorrect, PTL

\* After "none", or once is_terminated was true, poll_next answers "none" to
\* whoever polls on, except a buffer that gives way to the executor first.
THEOREM EndStaysFinal == Spec => []EndIsFinal
  <1>1. AdaptorInv => EndIsFinal
    BY DEF AdaptorInv, OverKept
  <1> QED BY <1>1, AdaptorsCorrect, PTL

\* What size_hint of an adaptor says between two calls of poll_next is kept by
\* every later answer: as many entries come as the lower bound said, and no more
\* than the upper bound said, unless it was said while try_chunks or
\* try_ready_chunks had an error stashed: that bound leaves the error out.
THEOREM HintsStayTrue == Spec => []HintsHold
  <1>1. AdaptorInv => HintsHold
    BY HintsOfKept DEF AdaptorInv
  <1> QED BY <1>1, AdaptorsCorrect, PTL
=============================================================================
