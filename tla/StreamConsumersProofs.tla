------------------------ MODULE StreamConsumersProofs ------------------------
(***************************************************************************)
(* Proofs about StreamConsumers, for any choice of the consumers, any      *)
(* sizes of chunks and buffers, and any number of entries.                 *)
(***************************************************************************)
EXTENDS StreamConsumers, TryStreamSourceProofs

(* The inductive invariant *)

\* The futures that decide, those that collect, and those that panic when they are polled too often.
Folding == {"TryAll", "TryAny"}
Gathering == {"TryCollect", "TryConcat"}
Guarded == {"TryForward", "TryAll", "TryAny"}

\* What try_all and try_any go on after, and answer at once and at the end.
GoesOn == IF adaptor = "TryAll" THEN "keep" ELSE "drop"
AtOnce == IF adaptor = "TryAll" THEN "False" ELSE "True"
AtEnd == IF adaptor = "TryAll" THEN "True" ELSE "False"

\* The source, and which variables are not used.
Shape ==
    /\ ended => left = 0
    /\ terminated <=> ended /\ adaptor = "TryForward"
    /\ pc \in {"stream", "close", "flush"} => adaptor = "TryForward"
    /\ adaptor # "TryForward" => buffered = <<>> /\ sink = "open" /\ flushed = 0 /\ tried = <<>>
    /\ adaptor \notin Folding => ~fut /\ ~done
    /\ adaptor = "IntoAsyncRead" => Len(lengths) = Len(given)
    /\ adaptor # "IntoAsyncRead" => reading # "Ready" /\ lent = 0

\* Where try_forward's poll is, and what it has in hand there.
ForwardShape ==
    /\ sink # "open" => ended /\ buffered = <<>>
    /\ pc \in {"stream", "close", "flush"} => buffered = <<>> /\ sink # "closed"
    /\ pc = "close" => ended
    /\ pc = "flush" => sink = "open" /\ ("source" \in waiting \/ notified)
    /\ adaptor = "TryForward" /\ ret = "Ok" => sink = "closed" /\ flushed = Len(tried)

\* While there is no decision, all entries have gone through but the one whose
\* future is asked.
FoldShape ==
    adaptor \in Folding =>
        /\ ~done => ret \in {"None", "Pending"}
        /\ fut => /\ ~done /\ Len(given) > 0
                  /\ given[Len(given)].kind = "Ok" /\ given[Len(given)].verdict = "none"
        /\ \A i \in DOMAIN given :
              (i = Len(given) /\ (fut \/ done)) \/ (IsOk(i) /\ given[i].verdict = GoesOn)
        /\ FoldedRight(GoesOn, AtOnce, AtEnd)

\* The chunk that is read is the last, and not read to its end.
ReadShape ==
    adaptor = "IntoAsyncRead" =>
        /\ reading = "Ready" => Len(lengths) > 0
        /\ reading # "Eof" => ~ended /\ \A i \in DOMAIN given : IsOk(i)
        /\ pc # "idle" => got = <<>> /\ lent = 0
        /\ read \in Seq(Nat \X Nat)
        /\ ReadRight

\* While poll runs, what is_terminated said at its start is still so.
OverKept ==
    adaptor \in Guarded =>
        /\ pc # "idle" => (over <=> IsTerminated)
        /\ pc = "idle" => (over <=> ret = "Panic")

\* No collection loses an item, as the code has it: an error drops none.
AllGathered ==
    /\ Lists(result \o accum)
    /\ ret = "Ok" => ended /\ accum = <<>>

\* The inductive invariant.
ConsumerInv ==
    /\ TypeOK /\ Shape /\ ForwardShape /\ FoldShape /\ ReadShape /\ OverKept
    /\ adaptor = "TryForward" => ForwardRight
    /\ adaptor \in Gathering => AllGathered
    /\ PendingHasWaker
-----------------------------------------------------------------------------
(* The items given, and lists of them *)

\* A list of items in the order they were given in, and the items there are.
Ordered(s) == \A i, j \in DOMAIN s : i < j => s[i] < s[j]

OkItems == {i \in DOMAIN given : IsOk(i)}

\* An entry more is an item more, or an error, ...
LEMMA OkMore ==
    ASSUME NEW kind, Grows(kind, 0)
    PROVE  /\ OkItems' = IF kind = "Ok" THEN OkItems \cup {Next1} ELSE OkItems
           /\ \A i \in OkItems : i \in Nat /\ i < Next1
           /\ Next1 \in Nat
  <1> USE DEF OkItems, IsOk, Grows
  <1>1. \A i \in OkItems : i \in Nat /\ i < Next1
    OBVIOUS
  <1>2. \A i : i \in OkItems' <=> i \in OkItems \/ (i = Next1 /\ kind = "Ok")
    OBVIOUS
  <1> QED BY <1>1, <1>2

\* ... and a verdict changes nothing of that.
LEMMA OkJudged ==
    ASSUME NEW verdict, NEW i, Judges(i, verdict)
    PROVE  OkItems' = OkItems
  BY DEF OkItems, IsOk, Judges

\* The next item goes to the end of the list.
LEMMA OrderedMore ==
    ASSUME NEW s \in Seq(Nat), Ordered(s), NEW n \in Nat, \A i \in ToSet(s) : i < n
    PROVE  Ordered(s \o <<n>>) /\ ToSet(s \o <<n>>) = ToSet(s) \cup {n} /\ s \o <<n>> \in Seq(Nat)
  <1>1. /\ s \o <<n>> \in Seq(Nat) /\ Len(s \o <<n>>) = Len(s) + 1 /\ (s \o <<n>>)[Len(s) + 1] = n
        /\ \A i \in DOMAIN s : (s \o <<n>>)[i] = s[i]
        /\ ToSet(s \o <<n>>) = ToSet(s) \cup {n}
    BY Appends
  <1>2. DOMAIN (s \o <<n>>) = 1 .. Len(s) + 1 /\ DOMAIN s = 1 .. Len(s) /\ Len(s) \in Nat
    BY <1>1
  <1>3. \A i \in DOMAIN s : s[i] \in ToSet(s)
    BY DEF ToSet
  <1> QED BY <1>1, <1>2, <1>3 DEF Ordered

-----------------------------------------------------------------------------
(* The parts of the type invariant, and the source *)

\* The variables of try_forward, of the folding futures, of the reader, and of poll.
ForwardTyped ==
    /\ buffered \in Seq(1 .. MaxAnswers) /\ Len(buffered) <= 1
    /\ tried \in Seq([item : 1 .. MaxAnswers, ok : BOOLEAN])
    /\ flushed \in 0 .. Len(tried) /\ sink \in {"open", "closing", "closed"}

FoldTyped ==
    /\ fut \in BOOLEAN /\ done \in BOOLEAN
    /\ accum \in Seq(1 .. MaxAnswers) /\ result \in Seq(1 .. MaxAnswers)

ReadTyped ==
    /\ reading \in {"Ready", "PendingChunk", "Eof"}
    /\ lengths \in Seq(Sizes \cup {0}) /\ lent \in Nat
    /\ chunk_start \in 0 .. IF reading = "Ready" THEN lengths[Chunk] - 1 ELSE 0
    /\ op \in {"read", "fill"} /\ room \in Sizes \cup {0}

PollTyped ==
    /\ pc \in {"idle", "poll", "stream", "close", "flush"}
    /\ ret \in {"None", "Pending", "Ok", "Err", "True", "False", "Panic"}
    /\ over \in BOOLEAN

\* The type invariant is made of these.
LEMMA Typed ==
    /\ TypeOK <=> SourceTypeOK /\ ForwardTyped /\ FoldTyped /\ ReadTyped /\ PollTyped
    /\ TypeOK' <=> SourceTypeOK' /\ ForwardTyped' /\ FoldTyped' /\ ReadTyped' /\ PollTyped'
  BY Zenon DEF TypeOK, ForwardTyped, FoldTyped, ReadTyped, PollTyped

\* What a step of poll does to the source.
SourceMoves ==
    \/ UNCHANGED sourceVars
    \/ Waits("source") \/ Waits("sink") \/ Waits("future")
    \/ \E kind \in {"Ok", "Err"} : Gives(kind)
    \/ Ends
    \/ \E verdict \in {"keep", "drop"} : Len(given) > 0 /\ Resolves(verdict)

\* The source ends when nothing is left, and is fused only by try_forward.
SourceShape ==
    /\ ended => left = 0
    /\ terminated <=> ended /\ adaptor = "TryForward"

\* The source keeps to that.
LEMMA SourceMove ==
    ASSUME SourceTypeOK, SourceShape, adaptor \in Adaptors, SourceMoves, UNCHANGED setup, notified' \in BOOLEAN
    PROVE  SourceTypeOK' /\ SourceShape' /\ (ended => ended')
  <1> USE DEF SourceShape, setup, Parties
  <1>0. adaptor \in Fused <=> adaptor = "TryForward"
    BY ConsumersAssumption DEF Fused
  <1>1. CASE UNCHANGED sourceVars
    BY <1>1, SameType DEF sourceVars
  <1>2. CASE Waits("source") \/ Waits("sink") \/ Waits("future")
    <2>1. SourceTypeOK'
      BY <1>2, WaitsType
    <2> QED BY <1>2, <2>1 DEF Waits
  <1>3. ASSUME NEW kind \in {"Ok", "Err"}, Gives(kind) PROVE SourceTypeOK' /\ SourceShape' /\ (ended => ended')
    <2>1. SourceTypeOK'
      BY <1>3, GivenType, SourceAssumption DEF Gives
    <2> QED BY <1>3, <2>1 DEF Gives, Given
  <1>4. CASE Ends
    <2>1. SourceTypeOK'
      BY <1>4, EndsType
    <2> QED BY <1>0, <1>4, <2>1 DEF Ends, sourceVars
  <1>5. ASSUME NEW verdict \in {"keep", "drop"}, Len(given) > 0, Resolves(verdict)
        PROVE  SourceTypeOK' /\ SourceShape' /\ (ended => ended')
    <2>1. SourceTypeOK'
      BY <1>5, ResolvesType
    <2> QED BY <1>5, <2>1 DEF Resolves
  <1> QED BY <1>1, <1>2, <1>3, <1>4, <1>5 DEF SourceMoves

-----------------------------------------------------------------------------
(* try_forward *)

\* The items start_send was called with.
Sent == [k \in DOMAIN tried |-> tried[k].item]

\* What a step of try_forward leaves alone.
ForwardFrame ==
    /\ adaptor = "TryForward"
    /\ UNCHANGED <<setup, notified, over, foldVars, readVars>>

\* Its items are numbers.
LEMMA SentTyped ==
    ASSUME ForwardTyped
    PROVE  Sent \in Seq(Nat) /\ Len(Sent) = Len(tried) /\ Sent \o buffered \in Seq(Nat)
  <1>0. tried \in Seq([item : 1 .. MaxAnswers, ok : BOOLEAN])
    BY DEF ForwardTyped
  <1>1. /\ DOMAIN tried = 1 .. Len(tried) /\ Len(tried) \in Nat
        /\ \A k \in DOMAIN tried : tried[k].item \in 1 .. MaxAnswers
    <2>1. \A k \in DOMAIN tried : tried[k] \in [item : 1 .. MaxAnswers, ok : BOOLEAN]
      BY <1>0, Element
    <2>2. \A S : tried \in Seq(S) => DOMAIN tried = 1 .. Len(tried) /\ Len(tried) \in Nat
      OBVIOUS
    <2> QED BY <1>0, <2>1, <2>2
  <1>2. Sent \in Seq(Nat) /\ Len(Sent) = Len(tried)
    BY <1>1 DEF Sent
  <1>3. buffered \in Seq(Nat)
    BY SourceAssumption DEF ForwardTyped
  <1> QED BY <1>2, <1>3

\* What is buffered is one item.
LEMMA Single ==
    ASSUME NEW S, NEW s \in Seq(S), s # <<>>, Len(s) <= 1
    PROVE  Head(s) \in S /\ s = <<Head(s)>> /\ Len(s) = 1
  <1>1. \A n \in Nat : n > 0 /\ n <= 1 => n = 1
    OBVIOUS
  <1>2. Len(s) = 1
    BY <1>1, NotEmpty
  <1>3. Head(s) \in S /\ Head(s) = s[1] /\ DOMAIN s = 1 .. 1
    BY <1>2
  <1>4. DOMAIN <<Head(s)>> = 1 .. 1 /\ <<Head(s)>>[1] = s[1] /\ <<Head(s)>> \in Seq(S)
    BY <1>3
  <1>5. s = <<Head(s)>>
    BY <1>2, <1>3, <1>4
  <1> QED BY <1>2, <1>3, <1>5

\* start_send: the buffered item is sent.
LEMMA SendMoves ==
    ASSUME ForwardTyped, buffered # <<>>, NEW ok \in BOOLEAN,
           tried' = Append(tried, [item |-> Head(buffered), ok |-> ok])
    PROVE  /\ tried' \in Seq([item : 1 .. MaxAnswers, ok : BOOLEAN]) /\ Len(tried') = Len(tried) + 1
           /\ Sent' = Sent \o buffered /\ Sent \o buffered \in Seq(Nat)
  <1>1. Head(buffered) \in 1 .. MaxAnswers /\ buffered = <<Head(buffered)>>
    <2>1. buffered \in Seq(1 .. MaxAnswers) /\ Len(buffered) <= 1
      BY DEF ForwardTyped
    <2> QED BY <2>1, Single
  <1>2. /\ tried' \in Seq([item : 1 .. MaxAnswers, ok : BOOLEAN]) /\ Len(tried') = Len(tried) + 1
        /\ \A k \in DOMAIN tried : tried'[k] = tried[k]
        /\ tried'[Len(tried) + 1].item = Head(buffered)
        /\ DOMAIN tried' = 1 .. Len(tried) + 1 /\ DOMAIN tried = 1 .. Len(tried) /\ Len(tried) \in Nat
    <2>1. PICK e \in [item : 1 .. MaxAnswers, ok : BOOLEAN] : e = [item |-> Head(buffered), ok |-> ok]
      BY <1>1
    <2>2. tried' = Append(tried, e) /\ e.item = Head(buffered)
      BY <2>1
    <2> QED BY <2>1, <2>2 DEF ForwardTyped
  <1>3. /\ Sent \in Seq(Nat) /\ Len(Sent) = Len(tried) /\ Head(buffered) \in Nat
        /\ Sent \o buffered \in Seq(Nat)
    BY <1>1, SentTyped, SourceAssumption
  <1>4. Sent' \in Seq(Nat) /\ Len(Sent') = Len(tried) + 1
    <2>1. \A k \in DOMAIN tried' : tried'[k].item \in Nat
      <3>1. \A k \in DOMAIN tried' : tried'[k] \in [item : 1 .. MaxAnswers, ok : BOOLEAN]
        BY <1>2, Element
      <3> QED BY <3>1, SourceAssumption
    <2> QED BY <1>2, <2>1 DEF Sent
  <1>5. Sent' = Append(Sent, Head(buffered))
    <2>1. \A k \in 1 .. Len(tried) : Sent'[k] = Sent[k]
      BY <1>2 DEF Sent
    <2>2. Sent'[Len(tried) + 1] = Head(buffered)
      BY <1>2 DEF Sent
    <2> QED BY <1>3, <1>4, <2>1, <2>2
  <1>6. Append(Sent, Head(buffered)) = Sent \o <<Head(buffered)>>
    BY <1>3, Appends
  <1> QED BY <1>1, <1>2, <1>3, <1>5, <1>6, Zenon

\* What the sink is given and what waits for it, in the form the steps are proved in.
ForwardLists == Ordered(Sent \o buffered) /\ ToSet(Sent \o buffered) = OkItems

\* The invariant as far as try_forward is concerned.
ForwardPart ==
    /\ SourceTypeOK /\ SourceShape /\ ForwardTyped /\ PollTyped
    /\ ForwardShape /\ ForwardLists
    /\ OverKept /\ PendingHasWaker /\ adaptor = "TryForward" /\ fut = FALSE /\ adaptor \in Adaptors

\* Every step of try_forward's poll keeps its part of the invariant.
LEMMA ForwardMoves ==
    ASSUME ForwardPart, ForwardStep, ForwardFrame
    PROVE  ForwardPart'
  <1> USE DEF ForwardPart, ForwardFrame, setup, foldVars, readVars, forwardVars
  <1>0. notified \in BOOLEAN /\ Len(tried) \in Nat /\ ended \in BOOLEAN /\ (ended => left = 0 /\ terminated)
    BY DEF SourceTypeOK, ForwardTyped, SourceShape
  <1>1. CASE ForwardPanics
    <2>1. SourceTypeOK' /\ SourceShape'
      BY <1>0, <1>1, SourceMove DEF ForwardPanics, SourceMoves
    <2>2. /\ UNCHANGED <<given, waiting, ended, buffered, tried, flushed, sink, over, notified>>
          /\ sink = "closed" /\ pc = "poll" /\ pc' = "idle" /\ ret' = "Panic"
      BY <1>1 DEF ForwardPanics, Return, sourceVars
    <2>3. ForwardTyped' /\ PollTyped' /\ ForwardShape'
      BY <2>2 DEF ForwardTyped, PollTyped, ForwardShape
    <2>4. ForwardLists'
      BY <2>2 DEF ForwardLists, Sent, OkItems, IsOk
    <2>5. OverKept' /\ PendingHasWaker'
      BY <2>2 DEF OverKept, Guarded, IsTerminated, ForwardTerminated, PendingHasWaker, Blocked
    <2> QED BY <2>1, <2>3, <2>4, <2>5
  <1>2. CASE SendBuffered
    <2>1. SourceTypeOK' /\ SourceShape' /\ UNCHANGED <<given, ended>>
      <3>1. SourceMoves
        BY <1>2 DEF SendBuffered, SinkReady, SinkError, SinkPending, SourceMoves
      <3> QED BY <1>0, <1>2, <3>1, SourceMove DEF SendBuffered, SinkReady, SinkError, SinkPending, sourceVars, Waits
    <2>2. pc = "poll" /\ buffered # <<>> /\ UNCHANGED <<flushed, sink, over, notified>> /\ sink = "open"
      BY <1>2 DEF SendBuffered, ForwardShape
    <2>3. ASSUME NEW ok \in BOOLEAN, SinkReady, tried' = Append(tried, [item |-> Head(buffered), ok |-> ok]),
                 IF ok THEN GoTo("stream") ELSE Return("Err"), buffered' = <<>>
          PROVE  ForwardPart'
      <3>1. /\ tried' \in Seq([item : 1 .. MaxAnswers, ok : BOOLEAN]) /\ Len(tried') = Len(tried) + 1
            /\ Sent' = Sent \o buffered /\ Sent \o buffered \in Seq(Nat)
        BY <2>2, <2>3, SendMoves
      <3>2. ForwardTyped' /\ PollTyped'
        BY <1>0, <2>2, <2>3, <3>1 DEF ForwardTyped, PollTyped, GoTo, Return
      <3>3. ForwardShape'
        BY <2>2, <2>3 DEF ForwardShape, GoTo, Return
      <3>4. ForwardLists'
        <4>1. Sent' \o buffered' = Sent \o buffered
          BY <2>3, <3>1
        <4> QED BY <2>1, <4>1 DEF ForwardLists, OkItems, IsOk
      <3>5. OverKept' /\ PendingHasWaker'
        BY <2>2, <2>3 DEF OverKept, Guarded, IsTerminated, ForwardTerminated, PendingHasWaker, Blocked, GoTo, Return
      <3> QED BY <2>1, <3>2, <3>3, <3>4, <3>5
    <2>4. CASE (SinkError \/ SinkPending) /\ UNCHANGED <<buffered, tried>>
      <3>1. ForwardTyped' /\ PollTyped' /\ ForwardShape'
        BY <2>1, <2>2, <2>4 DEF ForwardTyped, PollTyped, ForwardShape, SinkError, SinkPending, Return
      <3>2. ForwardLists'
        BY <2>1, <2>4 DEF ForwardLists, Sent, OkItems, IsOk
      <3>3. OverKept' /\ PendingHasWaker'
        BY <2>2, <2>4 DEF OverKept, Guarded, IsTerminated, ForwardTerminated, PendingHasWaker, Blocked,
           SinkError, SinkPending, Return, Waits
      <3> QED BY <2>1, <3>1, <3>2, <3>3
    <2> QED BY <1>2, <2>3, <2>4 DEF SendBuffered
  <1>3. CASE PollStream
    <2>1. /\ sink # "closed" /\ buffered = <<>> /\ UNCHANGED <<tried, flushed, sink, over, notified>>
          /\ pc \in {"stream", "poll"} /\ over = FALSE
      BY <1>3 DEF PollStream, ForwardShape, OverKept, Guarded, IsTerminated, ForwardTerminated, PollTyped
    <2>2. SourceTypeOK' /\ SourceShape' /\ (ended => ended')
      <3>1. SourceMoves
        BY <1>3 DEF PollStream, SourceMoves, Pends
      <3> QED BY <1>0, <3>1, SourceMove
    <2>3. CASE Gives("Ok") /\ buffered' = <<Next1>> /\ GoTo("poll")
      <3>1. Grows("Ok", 0) /\ ~terminated /\ Next1 \in 1 .. MaxAnswers
        <4>1. Given("Ok", 0) /\ ~terminated /\ 0 \in 0 .. MaxAnswers
          BY <2>3, SourceAssumption DEF Gives
        <4> QED BY <4>1, GivenGrows, GivenFacts
      <3>2. sink = "open"
        BY <1>0, <2>1, <3>1 DEF ForwardShape, ForwardTyped
      <3>3. ForwardTyped' /\ PollTyped'
        BY <2>1, <2>3, <3>1 DEF ForwardTyped, PollTyped, GoTo
      <3>4. ForwardShape' /\ OverKept' /\ PendingHasWaker'
        BY <2>1, <2>3, <3>2 DEF ForwardShape, OverKept, Guarded, IsTerminated, ForwardTerminated,
           PendingHasWaker, Blocked, GoTo
      <3>5. ForwardLists'
        <4>1. Sent' = Sent /\ Sent \in Seq(Nat) /\ Sent \o buffered = Sent
          BY <2>1, SentTyped DEF Sent
        <4>2. Ordered(Sent) /\ ToSet(Sent) = OkItems
          BY <4>1 DEF ForwardLists
        <4>3. Sent' \o buffered' = Sent \o <<Next1>>
          BY <2>3, <4>1
        <4>4. OkItems' = OkItems \cup {Next1} /\ Next1 \in Nat /\ \A i \in OkItems : i < Next1
          BY <3>1, OkMore
        <4>5. Ordered(Sent \o <<Next1>>) /\ ToSet(Sent \o <<Next1>>) = OkItems \cup {Next1}
          BY <4>1, <4>2, <4>4, OrderedMore
        <4> QED BY <4>3, <4>4, <4>5 DEF ForwardLists, Ordered
      <3> QED BY <2>2, <3>3, <3>4, <3>5
    <2>4. CASE Gives("Err") /\ Return("Err") /\ UNCHANGED buffered
      <3>1. Grows("Err", 0) /\ ~terminated
        BY <2>4, GivesGrows
      <3>2. sink = "open"
        BY <1>0, <2>1, <3>1 DEF ForwardShape, ForwardTyped
      <3>3. ForwardTyped' /\ PollTyped'
        BY <2>1, <2>4 DEF ForwardTyped, PollTyped, Return
      <3>4. ForwardShape' /\ OverKept' /\ PendingHasWaker'
        BY <2>1, <2>4, <3>2 DEF ForwardShape, OverKept, Guarded, IsTerminated, ForwardTerminated,
           PendingHasWaker, Blocked, Return
      <3>5. ForwardLists'
        BY <2>1, <2>4, <3>1, OkMore DEF ForwardLists, Sent
      <3> QED BY <2>2, <3>3, <3>4, <3>5
    <2>5. CASE Ends /\ GoTo("close") /\ UNCHANGED buffered
      <3>1. ended' /\ UNCHANGED given
        BY <2>5 DEF Ends, sourceVars, SourceShape
      <3>2. ForwardTyped' /\ PollTyped'
        BY <2>1, <2>5 DEF ForwardTyped, PollTyped, GoTo
      <3>3. ForwardShape' /\ OverKept' /\ PendingHasWaker'
        BY <2>1, <2>5, <3>1 DEF ForwardShape, OverKept, Guarded, IsTerminated, ForwardTerminated,
           PendingHasWaker, Blocked, GoTo
      <3>4. ForwardLists'
        BY <2>1, <2>5, <3>1 DEF ForwardLists, Sent, OkItems, IsOk
      <3> QED BY <2>2, <3>2, <3>3, <3>4
    <2>6. CASE Pends /\ GoTo("flush") /\ UNCHANGED buffered
      <3>1. UNCHANGED <<given, ended>> /\ ~ended /\ "source" \in waiting'
        BY <2>6 DEF Pends, Waits, SourceTerminated
      <3>2. sink = "open"
        BY <3>1 DEF ForwardShape
      <3>3. ForwardTyped' /\ PollTyped'
        BY <2>1, <2>6 DEF ForwardTyped, PollTyped, GoTo
      <3>4. ForwardShape' /\ OverKept' /\ PendingHasWaker'
        BY <2>1, <2>6, <3>1, <3>2 DEF ForwardShape, OverKept, Guarded, IsTerminated, ForwardTerminated,
           PendingHasWaker, Blocked, GoTo
      <3>5. ForwardLists'
        BY <2>1, <2>6, <3>1 DEF ForwardLists, Sent, OkItems, IsOk
      <3> QED BY <2>2, <3>3, <3>4, <3>5
    <2> QED BY <1>3, <2>3, <2>4, <2>5, <2>6 DEF PollStream
  <1>4. CASE Close
    <2>1. SourceTypeOK' /\ SourceShape' /\ UNCHANGED <<given, ended>>
      <3>1. SourceMoves
        BY <1>4 DEF Close, SinkReady, SinkError, SinkPending, SourceMoves
      <3> QED BY <1>0, <1>4, <3>1, SourceMove DEF Close, SinkReady, SinkError, SinkPending, sourceVars, Waits
    <2>2. pc = "close" /\ buffered = <<>> /\ sink # "closed" /\ ended /\ over = FALSE /\ UNCHANGED <<buffered, tried, over, notified>>
      BY <1>4 DEF Close, ForwardShape, OverKept, Guarded, IsTerminated, ForwardTerminated, PollTyped
    <2>3. ForwardTyped' /\ PollTyped'
      BY <1>0, <1>4, <2>2 DEF Close, ForwardTyped, PollTyped, SinkError, SinkPending, Return
    <2>4. ForwardShape'
      BY <1>4, <2>1, <2>2 DEF Close, ForwardShape, SinkError, SinkPending, Return
    <2>5. OverKept' /\ PendingHasWaker'
      BY <1>4, <2>2 DEF Close, OverKept, Guarded, IsTerminated, ForwardTerminated,
           PendingHasWaker, Blocked, SinkError, SinkPending, Return, Waits
    <2>6. ForwardLists'
      BY <2>1, <2>2 DEF ForwardLists, Sent, OkItems, IsOk
    <2> QED BY <2>1, <2>3, <2>4, <2>5, <2>6
  <1>5. CASE Flush
    <2>1. SourceTypeOK' /\ SourceShape' /\ UNCHANGED <<given, ended>> /\ ("source" \in waiting => "source" \in waiting')
      <3>1. SourceMoves
        BY <1>5 DEF Flush, SinkReady, SinkError, SinkPending, SourceMoves
      <3> QED BY <1>0, <1>5, <3>1, SourceMove DEF Flush, SinkReady, SinkError, SinkPending, sourceVars, Waits
    <2>2. /\ pc = "flush" /\ buffered = <<>> /\ sink = "open" /\ ("source" \in waiting \/ notified)
          /\ over = FALSE /\ UNCHANGED <<buffered, tried, sink, over, notified>>
      BY <1>5 DEF Flush, ForwardShape, OverKept, Guarded, IsTerminated, ForwardTerminated, PollTyped
    <2>3. ForwardTyped' /\ PollTyped'
      BY <1>0, <1>5, <2>2 DEF Flush, ForwardTyped, PollTyped, SinkError, SinkPending, Return
    <2>4. ForwardShape'
      BY <1>5, <2>1, <2>2 DEF Flush, ForwardShape, SinkError, SinkPending, Return
    <2>5. OverKept' /\ PendingHasWaker'
      BY <1>5, <2>1, <2>2 DEF Flush, OverKept, Guarded, IsTerminated, ForwardTerminated,
           PendingHasWaker, Blocked, SinkError, SinkPending, Return, Waits
    <2>6. ForwardLists'
      BY <2>1, <2>2 DEF ForwardLists, Sent, OkItems, IsOk
    <2> QED BY <2>1, <2>3, <2>4, <2>5, <2>6
  <1> QED BY <1>1, <1>2, <1>3, <1>4, <1>5 DEF ForwardStep

-----------------------------------------------------------------------------
(* try_all, try_any *)

\* What a step of the two leaves alone.
FoldFrame ==
    /\ adaptor \in Folding
    /\ UNCHANGED <<setup, notified, over, forwardVars, readVars>>

\* The invariant as far as they are concerned.
FoldPart ==
    /\ SourceTypeOK /\ SourceShape /\ FoldTyped /\ PollTyped
    /\ FoldShape /\ OverKept /\ PendingHasWaker
    /\ adaptor \in Folding /\ adaptor \in Adaptors
    /\ buffered = <<>> /\ sink = "open" /\ flushed = 0 /\ tried = <<>>
    /\ pc \in {"idle", "poll"}

\* One turn of the loop of the two, in the same words.
LEMMA FoldMoves ==
    ASSUME FoldPart, pc = "poll", FoldFrame,
           Decide(IF adaptor = "TryAll" THEN "drop" ELSE "keep", GoesOn, AtOnce, AtEnd)
    PROVE  FoldPart'
  <1> USE DEF FoldPart, FoldFrame, setup, readVars, forwardVars, Folding
  <1> DEFINE stop == IF adaptor = "TryAll" THEN "drop" ELSE "keep"
  <1>0. /\ notified \in BOOLEAN /\ ended \in BOOLEAN /\ (ended => left = 0)
        /\ stop \in {"keep", "drop"} /\ GoesOn \in {"keep", "drop"} /\ stop # GoesOn
        /\ AtOnce \in {"True", "False"} /\ AtEnd \in {"True", "False"} /\ AtOnce # AtEnd
        /\ UNCHANGED <<GoesOn, AtOnce, AtEnd>>
        /\ (over <=> done /\ ~fut)
        /\ DOMAIN given = 1 .. Len(given) /\ Len(given) \in Nat
    <2>1. DOMAIN given = 1 .. Len(given) /\ Len(given) \in Nat
      BY DEF SourceTypeOK
    <2> QED BY <2>1 DEF SourceTypeOK, SourceShape, GoesOn, AtOnce, AtEnd, OverKept, Guarded, IsTerminated, TryAllTerminated, TryAnyTerminated
  <1>s. ASSUME SourceMoves PROVE SourceTypeOK' /\ SourceShape' /\ (ended => ended')
    BY <1>0, <1>s, SourceMove
  <1>1. CASE done /\ ~fut /\ Return("Panic") /\ UNCHANGED <<sourceVars, foldVars>>
    <2>1. SourceTypeOK' /\ SourceShape'
      BY <1>1, <1>s DEF SourceMoves
    <2>2. FoldTyped' /\ PollTyped' /\ pc' \in {"idle", "poll"}
      BY <1>1 DEF FoldTyped, PollTyped, Return, foldVars
    <2>3. FoldShape'
      BY <1>0, <1>1 DEF FoldShape, FoldedRight, Return, foldVars, sourceVars, IsOk
    <2>4. OverKept' /\ PendingHasWaker'
      BY <1>0, <1>1 DEF OverKept, Guarded, Return, PendingHasWaker, Blocked
    <2> QED BY <2>1, <2>2, <2>3, <2>4
  <1>2. CASE fut /\ FuturePends /\ Return("Pending") /\ UNCHANGED <<fut, done, accum, result>>
    <2>1. SourceTypeOK' /\ SourceShape'
      BY <1>2, <1>s DEF SourceMoves, FuturePends
    <2>2. FoldTyped' /\ PollTyped' /\ pc' \in {"idle", "poll"}
      BY <1>2 DEF FoldTyped, PollTyped, Return
    <2>3. FoldShape'
      BY <1>0, <1>2 DEF FoldShape, FoldedRight, Return, FuturePends, Waits, IsOk
    <2>4. OverKept' /\ PendingHasWaker'
      BY <1>0, <1>2 DEF OverKept, Guarded, Return, PendingHasWaker, Blocked, FuturePends, Waits
    <2> QED BY <2>1, <2>2, <2>3, <2>4
  <1>3. ASSUME fut, NEW verdict \in {"keep", "drop"}, Resolves(verdict), fut' = FALSE, UNCHANGED <<accum, result>>,
               \/ verdict = GoesOn /\ Loop /\ UNCHANGED done
               \/ verdict = stop /\ Return(AtOnce) /\ done' = TRUE
        PROVE  FoldPart'
    <2>0. /\ ~done /\ Len(given) > 0 /\ given[Len(given)].kind = "Ok"
          /\ \A i \in DOMAIN given : i # Len(given) => IsOk(i) /\ given[i].verdict = GoesOn
      BY <1>0, <1>3 DEF FoldShape
    <2>1. SourceTypeOK' /\ SourceShape'
      BY <1>3, <1>s, <2>0 DEF SourceMoves
    <2>2. FoldTyped' /\ PollTyped' /\ pc' \in {"idle", "poll"}
      BY <1>0, <1>3 DEF FoldTyped, PollTyped, Return, Loop
    <2>3. Judges(Len(given), verdict)
      BY <1>3, <2>0, ResolvesJudges
    <2>4. CASE verdict = GoesOn /\ Loop /\ UNCHANGED done
      <3>1. \A i \in DOMAIN given' : given'[i].kind = "Ok" /\ given'[i].verdict = GoesOn
        BY <2>0, <2>3, <2>4 DEF Judges, IsOk
      <3>2. ret' \in {"None", "Pending"} /\ ~done' /\ ~fut'
        BY <1>3, <2>0, <2>4 DEF Loop, FoldShape
      <3>3. FoldShape'
        BY <1>0, <3>1, <3>2 DEF FoldShape, FoldedRight, IsOk
      <3>4. OverKept' /\ PendingHasWaker'
        BY <1>0, <1>3, <2>0, <2>4 DEF OverKept, Guarded, Loop, PendingHasWaker, Blocked, IsTerminated, TryAllTerminated, TryAnyTerminated
      <3> QED BY <2>1, <2>2, <3>3, <3>4
    <2>5. CASE verdict = stop /\ Return(AtOnce) /\ done' = TRUE
      <3>1. /\ Len(given') = Len(given) /\ DOMAIN given' = 1 .. Len(given')
            /\ given'[Len(given')].kind = "Ok" /\ given'[Len(given')].verdict = stop
            /\ \A i \in DOMAIN given' : i # Len(given') => given'[i].kind = "Ok" /\ given'[i].verdict = GoesOn
        BY <2>0, <2>3, <2>5 DEF Judges, IsOk
      <3>2. ret' = AtOnce /\ done' /\ ~fut'
        BY <1>3, <2>5 DEF Return
      <3>3. FoldShape'
        BY <1>0, <2>0, <3>1, <3>2 DEF FoldShape, FoldedRight, IsOk
      <3>4. OverKept' /\ PendingHasWaker'
        BY <1>0, <1>3, <2>0, <2>5 DEF OverKept, Guarded, Return, PendingHasWaker, Blocked
      <3> QED BY <2>1, <2>2, <3>3, <3>4
    <2> QED BY <1>3, <2>4, <2>5
  <1>4. CASE ~fut /\ ~done /\ Gives("Ok") /\ Loop /\ fut' = TRUE /\ UNCHANGED <<done, accum, result>>
    <2>0. \A i \in DOMAIN given : IsOk(i) /\ given[i].verdict = GoesOn
      BY <1>4 DEF FoldShape
    <2>1. SourceTypeOK' /\ SourceShape'
      BY <1>4, <1>s DEF SourceMoves
    <2>2. FoldTyped' /\ PollTyped' /\ pc' \in {"idle", "poll"}
      BY <1>4 DEF FoldTyped, PollTyped, Loop
    <2>3. Grows("Ok", 0)
      BY <1>4, GivesGrows
    <2>4. /\ Len(given') > 0 /\ DOMAIN given' = 1 .. Len(given')
          /\ given'[Len(given')].kind = "Ok" /\ given'[Len(given')].verdict = "none"
          /\ \A i \in DOMAIN given' : i # Len(given') => given'[i].kind = "Ok" /\ given'[i].verdict = GoesOn
      BY <2>0, <2>3 DEF Grows, IsOk
    <2>5. ret' \in {"None", "Pending"} /\ ~done' /\ fut'
      BY <1>4 DEF Loop, FoldShape
    <2>6. FoldShape'
      BY <1>0, <2>4, <2>5 DEF FoldShape, FoldedRight, IsOk
    <2>7. OverKept' /\ PendingHasWaker'
      BY <1>0, <1>4 DEF OverKept, Guarded, Loop, PendingHasWaker, Blocked, IsTerminated, TryAllTerminated, TryAnyTerminated
    <2> QED BY <2>1, <2>2, <2>6, <2>7
  <1>5. CASE ~fut /\ ~done /\ Gives("Err") /\ Return("Err") /\ done' = TRUE /\ UNCHANGED <<fut, accum, result>>
    <2>0. \A i \in DOMAIN given : IsOk(i) /\ given[i].verdict = GoesOn
      BY <1>5 DEF FoldShape
    <2>1. SourceTypeOK' /\ SourceShape'
      BY <1>5, <1>s DEF SourceMoves
    <2>2. FoldTyped' /\ PollTyped' /\ pc' \in {"idle", "poll"}
      BY <1>5 DEF FoldTyped, PollTyped, Return
    <2>3. Grows("Err", 0)
      BY <1>5, GivesGrows
    <2>4. /\ Len(given') > 0 /\ DOMAIN given' = 1 .. Len(given')
          /\ given'[Len(given')].kind = "Err"
          /\ \A i \in DOMAIN given' : i # Len(given') => given'[i].kind = "Ok" /\ given'[i].verdict = GoesOn
      BY <2>0, <2>3 DEF Grows, IsOk
    <2>5. ret' = "Err" /\ done' /\ ~fut'
      BY <1>5 DEF Return
    <2>6. FoldShape'
      BY <1>0, <2>4, <2>5 DEF FoldShape, FoldedRight, IsOk
    <2>7. OverKept' /\ PendingHasWaker'
      BY <1>0, <1>5 DEF OverKept, Guarded, Return, PendingHasWaker, Blocked
    <2> QED BY <2>1, <2>2, <2>6, <2>7
  <1>6. CASE ~fut /\ ~done /\ Ends /\ Return(AtEnd) /\ done' = TRUE /\ UNCHANGED <<fut, accum, result>>
    <2>0. \A i \in DOMAIN given : given[i].kind = "Ok" /\ given[i].verdict = GoesOn
      BY <1>6 DEF FoldShape, IsOk
    <2>1. SourceTypeOK' /\ SourceShape'
      BY <1>6, <1>s DEF SourceMoves
    <2>2. FoldTyped' /\ PollTyped' /\ pc' \in {"idle", "poll"}
      BY <1>0, <1>6 DEF FoldTyped, PollTyped, Return
    <2>3. ended' /\ UNCHANGED given
      BY <1>6 DEF Ends, sourceVars, SourceShape
    <2>5. ret' = AtEnd /\ done' /\ ~fut'
      BY <1>6 DEF Return
    <2>6. FoldShape'
      BY <1>0, <2>0, <2>3, <2>5 DEF FoldShape, FoldedRight, IsOk
    <2>7. OverKept' /\ PendingHasWaker'
      BY <1>0, <1>6 DEF OverKept, Guarded, Return, PendingHasWaker, Blocked
    <2> QED BY <2>1, <2>2, <2>6, <2>7
  <1>7. CASE ~fut /\ ~done /\ Pends /\ Return("Pending") /\ UNCHANGED <<fut, done, accum, result>>
    <2>0. \A i \in DOMAIN given : given[i].kind = "Ok" /\ given[i].verdict = GoesOn
      BY <1>7 DEF FoldShape, IsOk
    <2>1. SourceTypeOK' /\ SourceShape'
      BY <1>7, <1>s DEF SourceMoves, Pends
    <2>2. FoldTyped' /\ PollTyped' /\ pc' \in {"idle", "poll"}
      BY <1>7 DEF FoldTyped, PollTyped, Return
    <2>3. UNCHANGED <<given, ended>> /\ "source" \in waiting' /\ ret' = "Pending" /\ ~done' /\ ~fut'
      BY <1>7 DEF Pends, Waits, Return
    <2>6. FoldShape'
      BY <1>0, <2>0, <2>3 DEF FoldShape, FoldedRight, IsOk
    <2>7. OverKept' /\ PendingHasWaker'
      BY <1>0, <1>7, <2>3 DEF OverKept, Guarded, Return, PendingHasWaker, Blocked
    <2> QED BY <2>1, <2>2, <2>6, <2>7
  <1> QED
    <2>1. /\ Decide(stop, GoesOn, AtOnce, AtEnd)
      BY DEF GoesOn
    <2> QED BY <1>0, <1>1, <1>2, <1>3, <1>4, <1>5, <1>6, <1>7, <2>1 DEF Decide

-----------------------------------------------------------------------------
(* try_collect, try_concat *)

\* What a step of the two leaves alone.
GatherFrame ==
    /\ adaptor \in Gathering
    /\ UNCHANGED <<setup, notified, over, forwardVars, readVars>>

\* The collections, in the form the steps are proved in.
GatherShape ==
    /\ Ordered(result \o accum) /\ ToSet(result \o accum) = OkItems
    /\ ret = "Ok" => ended /\ accum = <<>>

\* The invariant as far as they are concerned.
GatherPart ==
    /\ SourceTypeOK /\ SourceShape /\ FoldTyped /\ PollTyped
    /\ GatherShape /\ PendingHasWaker
    /\ adaptor \in Gathering /\ adaptor \in Adaptors /\ ~fut /\ ~done
    /\ buffered = <<>> /\ sink = "open" /\ flushed = 0 /\ tried = <<>>
    /\ pc \in {"idle", "poll"}

\* The result takes the whole collection.
LEMMA CollectionMoves ==
    ASSUME NEW S, NEW r \in Seq(S), NEW a \in Seq(S)
    PROVE  /\ (r \o a) \o <<>> = r \o a /\ r \o a \in Seq(S)
           /\ \A e \in S : r \o Append(a, e) = (r \o a) \o <<e>>
  <1>1. (r \o a) \o <<>> = r \o a /\ r \o a \in Seq(S)
    OBVIOUS
  <1>2. ASSUME NEW e \in S PROVE r \o Append(a, e) = (r \o a) \o <<e>>
    <2>1. Append(a, e) = a \o <<e>> /\ <<e>> \in Seq(S)
      BY Appends, Short
    <2>2. r \o (a \o <<e>>) = (r \o a) \o <<e>>
      BY <2>1, ConcatAssociative
    <2> QED BY <2>1, <2>2
  <1> QED BY <1>1, <1>2

\* Every step of the two keeps that.
LEMMA GatherMoves ==
    ASSUME GatherPart, pc = "poll", GatherFrame, Gather
    PROVE  GatherPart'
  <1> USE DEF GatherPart, GatherFrame, setup, readVars, forwardVars, Gathering
  <1>0. /\ notified \in BOOLEAN /\ ended \in BOOLEAN /\ (ended => left = 0) /\ UNCHANGED <<fut, done>>
        /\ accum \in Seq(1 .. MaxAnswers) /\ result \in Seq(1 .. MaxAnswers)
    BY DEF SourceTypeOK, SourceShape, FoldTyped, Gather
  <1>l. accum \in Seq(Nat) /\ result \in Seq(Nat)
    BY <1>0, SourceAssumption
  <1>s. ASSUME SourceMoves PROVE SourceTypeOK' /\ SourceShape' /\ (ended => ended')
    BY <1>0, <1>s, SourceMove
  <1>1. CASE Gives("Ok") /\ Loop /\ accum' = Append(accum, Next1) /\ UNCHANGED result
    <2>1. SourceTypeOK' /\ SourceShape'
      BY <1>1, <1>s DEF SourceMoves
    <2>2. Grows("Ok", 0) /\ Next1 \in 1 .. MaxAnswers
      <3>1. Given("Ok", 0) /\ 0 \in 0 .. MaxAnswers
        BY <1>1, SourceAssumption DEF Gives
      <3> QED BY <3>1, GivenGrows, GivenFacts
    <2>3. FoldTyped' /\ PollTyped' /\ pc' \in {"idle", "poll"}
      BY <1>0, <1>1, <2>2 DEF FoldTyped, PollTyped, Loop
    <2>4. GatherShape'
      <3>1. OkItems' = OkItems \cup {Next1} /\ Next1 \in Nat /\ \A i \in OkItems : i < Next1
        BY <2>2, OkMore
      <3>2. result' \o accum' = (result \o accum) \o <<Next1>> /\ result \o accum \in Seq(Nat)
        BY <1>1, <1>l, <3>1, CollectionMoves
      <3>3. Ordered((result \o accum) \o <<Next1>>) /\ ToSet((result \o accum) \o <<Next1>>) = OkItems \cup {Next1}
        BY <3>1, <3>2, OrderedMore DEF GatherShape
      <3>4. ret' # "Ok"
        BY <1>0, <1>1, <2>2 DEF Loop, GatherShape, Grows
      <3> QED BY <3>1, <3>2, <3>3, <3>4 DEF GatherShape, Ordered
    <2>5. PendingHasWaker'
      BY <1>1 DEF PendingHasWaker, Blocked, Loop
    <2> QED BY <1>0, <2>1, <2>3, <2>4, <2>5
  <1>2. CASE Gives("Err") /\ Return("Err") /\ UNCHANGED <<accum, result>>
    <2>1. SourceTypeOK' /\ SourceShape'
      BY <1>2, <1>s DEF SourceMoves
    <2>2. Grows("Err", 0)
      BY <1>2, GivesGrows
    <2>3. FoldTyped' /\ PollTyped' /\ pc' \in {"idle", "poll"}
      BY <1>0, <1>2 DEF FoldTyped, PollTyped, Return
    <2>4. GatherShape'
      BY <1>2, <2>2, OkMore DEF GatherShape, Return
    <2>5. PendingHasWaker'
      BY <1>2 DEF PendingHasWaker, Blocked, Return
    <2> QED BY <1>0, <2>1, <2>3, <2>4, <2>5
  <1>3. CASE Ends /\ Return("Ok") /\ result' = result \o accum /\ accum' = <<>>
    <2>1. SourceTypeOK' /\ SourceShape'
      BY <1>3, <1>s DEF SourceMoves
    <2>2. ended' /\ UNCHANGED given
      BY <1>3 DEF Ends, sourceVars, SourceShape
    <2>3. FoldTyped' /\ PollTyped' /\ pc' \in {"idle", "poll"}
      BY <1>0, <1>3, CollectionMoves DEF FoldTyped, PollTyped, Return
    <2>4. GatherShape'
      <3>1. result' \o accum' = result \o accum
        BY <1>3, <1>l, CollectionMoves
      <3> QED BY <1>3, <2>2, <3>1 DEF GatherShape, OkItems, IsOk
    <2>5. PendingHasWaker'
      BY <1>3 DEF PendingHasWaker, Blocked, Return
    <2> QED BY <1>0, <2>1, <2>3, <2>4, <2>5
  <1>4. CASE Pends /\ Return("Pending") /\ UNCHANGED <<accum, result>>
    <2>1. SourceTypeOK' /\ SourceShape'
      BY <1>4, <1>s DEF SourceMoves, Pends
    <2>2. UNCHANGED <<given, ended>> /\ "source" \in waiting' /\ ret' = "Pending"
      BY <1>4 DEF Pends, Waits, Return
    <2>3. FoldTyped' /\ PollTyped' /\ pc' \in {"idle", "poll"}
      BY <1>0, <1>4 DEF FoldTyped, PollTyped, Return
    <2>4. GatherShape'
      BY <1>4, <2>2 DEF GatherShape, OkItems, IsOk
    <2>5. PendingHasWaker'
      BY <1>0, <1>4, <2>2 DEF PendingHasWaker, Blocked
    <2> QED BY <1>0, <2>1, <2>3, <2>4, <2>5
  <1> QED BY <1>1, <1>2, <1>3, <1>4 DEF Gather

-----------------------------------------------------------------------------
(* into_async_read: the bytes of the chunks *)

\* A byte is the number of its chunk and its place there.
Byte == Nat \X Nat

\* In the order of the chunks and of the places in them.
BytesOrdered(s) == \A j, k \in DOMAIN s : j < k => Before(s[j], s[k])

\* A stretch of a chunk, ...
LEMMA Stretch ==
    ASSUME NEW i \in Nat, NEW a \in Nat, NEW c \in Nat, a <= c
    PROVE  /\ Bytes(i, a, c) \in Seq(Byte) /\ Len(Bytes(i, a, c)) = c - a
           /\ BytesOrdered(Bytes(i, a, c))
           /\ ToSet(Bytes(i, a, c)) = {i} \X (a + 1 .. c)
  <1>1. c - a \in Nat /\ DOMAIN Bytes(i, a, c) = 1 .. c - a
    BY DEF Bytes
  <1>2. \A k \in 1 .. c - a : Bytes(i, a, c)[k] = <<i, a + k>> /\ <<i, a + k>> \in Byte
    BY DEF Bytes, Byte
  <1>3. Bytes(i, a, c) \in Seq(Byte) /\ Len(Bytes(i, a, c)) = c - a
    <2>1. Bytes(i, a, c) \in [1 .. c - a -> Byte]
      BY <1>1, <1>2 DEF Bytes
    <2> QED BY <1>1, <2>1
  <1>4. BytesOrdered(Bytes(i, a, c))
    <2>1. ASSUME NEW j \in 1 .. c - a, NEW k \in 1 .. c - a, j < k
          PROVE  Before(<<i, a + j>>, <<i, a + k>>)
      <3>1. a + j < a + k
        BY <1>1, <2>1
      <3> QED BY <3>1 DEF Before
    <2> QED BY <1>1, <1>2, <2>1 DEF BytesOrdered
  <1>5. ToSet(Bytes(i, a, c)) = {i} \X (a + 1 .. c)
    <2>1. ASSUME NEW b \in ToSet(Bytes(i, a, c)) PROVE b \in {i} \X (a + 1 .. c)
      <3>1. PICK k \in 1 .. c - a : b = <<i, a + k>>
        BY <1>1, <1>2, <2>1 DEF ToSet
      <3>2. a + k \in a + 1 .. c
        BY <1>1, <3>1
      <3> QED BY <3>1, <3>2
    <2>2. ASSUME NEW b \in {i} \X (a + 1 .. c) PROVE b \in ToSet(Bytes(i, a, c))
      <3>1. PICK m \in a + 1 .. c : b = <<i, m>>
        BY <2>2
      <3>2. m - a \in 1 .. c - a /\ a + (m - a) = m
        BY <1>1, <3>1
      <3>3. Bytes(i, a, c)[m - a] = b
        BY <1>2, <3>1, <3>2
      <3> QED BY <1>1, <3>2, <3>3 DEF ToSet
    <2> QED BY <2>1, <2>2
  <1> QED BY <1>3, <1>4, <1>5

\* ... and its first bytes and those behind them.
Splits(i, a, c, n) ==
    /\ SubSeq(Bytes(i, a, c), 1, n) = Bytes(i, a, a + n)
    /\ Bytes(i, a, a + n) \o Bytes(i, a + n, c) = Bytes(i, a, c)

\* A stretch splits anywhere.
LEMMA StretchSplit ==
    ASSUME NEW i \in Nat, NEW a \in Nat, NEW c \in Nat, NEW n \in Nat, a + n <= c
    PROVE  Splits(i, a, c, n)
  <1>0. a + n \in Nat /\ a <= a + n /\ a <= c /\ c - a \in Nat /\ n <= c - a /\ (a + n) - a = n
        /\ n + (c - (a + n)) = c - a
    OBVIOUS
  <1>1. /\ Bytes(i, a, c) \in Seq(Byte) /\ Len(Bytes(i, a, c)) = c - a
        /\ \A k \in 1 .. c - a : Bytes(i, a, c)[k] = <<i, a + k>>
    BY <1>0, Stretch DEF Bytes
  <1>2. /\ Bytes(i, a, a + n) \in Seq(Byte) /\ Len(Bytes(i, a, a + n)) = n
        /\ \A k \in 1 .. n : Bytes(i, a, a + n)[k] = <<i, a + k>>
    BY <1>0, Stretch DEF Bytes
  <1>3. /\ Bytes(i, a + n, c) \in Seq(Byte) /\ Len(Bytes(i, a + n, c)) = c - (a + n)
        /\ \A k \in 1 .. c - (a + n) : Bytes(i, a + n, c)[k] = <<i, a + n + k>>
    BY <1>0, Stretch DEF Bytes
  <1>4. SubSeq(Bytes(i, a, c), 1, n) = Bytes(i, a, a + n)
    <2>1. /\ SubSeq(Bytes(i, a, c), 1, n) \in Seq(Byte) /\ Len(SubSeq(Bytes(i, a, c), 1, n)) = n
          /\ \A k \in 1 .. n : SubSeq(Bytes(i, a, c), 1, n)[k] = Bytes(i, a, c)[k]
      BY <1>0, <1>1
    <2>2. \A k \in 1 .. n : SubSeq(Bytes(i, a, c), 1, n)[k] = Bytes(i, a, a + n)[k]
      <3>1. ASSUME NEW k \in 1 .. n PROVE k \in 1 .. c - a
        BY <1>0, <3>1
      <3> QED BY <1>1, <1>2, <2>1, <3>1
    <2> QED BY <1>2, <2>1, <2>2
  <1>5. Bytes(i, a, a + n) \o Bytes(i, a + n, c) = Bytes(i, a, c)
    <2> DEFINE s == Bytes(i, a, a + n) \o Bytes(i, a + n, c)
    <2>1. /\ s \in Seq(Byte) /\ Len(s) = c - a
          /\ \A k \in 1 .. n : s[k] = Bytes(i, a, a + n)[k]
          /\ \A k \in 1 .. c - (a + n) : s[n + k] = Bytes(i, a + n, c)[k]
      <3>1. ASSUME NEW x \in Seq(Byte), NEW y \in Seq(Byte)
            PROVE  /\ x \o y \in Seq(Byte) /\ Len(x \o y) = Len(x) + Len(y)
                   /\ \A k \in 1 .. Len(x) : (x \o y)[k] = x[k]
                   /\ \A k \in 1 .. Len(y) : (x \o y)[Len(x) + k] = y[k]
        OBVIOUS
      <3>2. n + (c - (a + n)) = c - a
        BY <1>0
      <3>3. PICK x \in Seq(Byte) : x = Bytes(i, a, a + n)
        BY <1>2
      <3>4. PICK y \in Seq(Byte) : y = Bytes(i, a + n, c)
        BY <1>3
      <3>5. Len(x) = n /\ Len(y) = c - (a + n) /\ s = x \o y
        BY <1>2, <1>3, <3>3, <3>4
      <3>6. /\ x \o y \in Seq(Byte) /\ Len(x \o y) = n + (c - (a + n))
            /\ \A k \in 1 .. n : (x \o y)[k] = x[k]
            /\ \A k \in 1 .. c - (a + n) : (x \o y)[n + k] = y[k]
        <4>1. /\ x \o y \in Seq(Byte) /\ Len(x \o y) = Len(x) + Len(y)
              /\ \A k \in 1 .. Len(x) : (x \o y)[k] = x[k]
              /\ \A k \in 1 .. Len(y) : (x \o y)[Len(x) + k] = y[k]
          BY <3>1
        <4> QED BY <3>5, <4>1
      <3> HIDE DEF s
      <3> QED BY <3>2, <3>3, <3>4, <3>5, <3>6
    <2>2. ASSUME NEW k \in 1 .. c - a PROVE s[k] = <<i, a + k>>
      <3>1. CASE k <= n
        BY <1>2, <2>1, <3>1
      <3>2. CASE k > n
        <4>1. k - n \in 1 .. c - (a + n) /\ n + (k - n) = k /\ a + n + (k - n) = a + k
          BY <1>0, <3>2
        <4> QED BY <1>3, <2>1, <4>1
      <3>3. k <= n \/ k > n
        BY <2>2
      <3> QED BY <3>1, <3>2, <3>3
    <2>3. \A k \in 1 .. c - a : s[k] = Bytes(i, a, c)[k]
      BY <1>1, <2>2
    <2> HIDE DEF s
    <2>4. s = Bytes(i, a, c)
      BY <1>1, <2>1, <2>3
    <2> QED BY <2>4 DEF s
  <1> QED BY <1>4, <1>5 DEF Splits

\* Bytes of later chunks go behind.
LEMMA BytesJoined ==
    ASSUME NEW s \in Seq(Byte), NEW t \in Seq(Byte), BytesOrdered(s), BytesOrdered(t),
           \A b \in ToSet(s), c \in ToSet(t) : Before(b, c)
    PROVE  BytesOrdered(s \o t) /\ ToSet(s \o t) = ToSet(s) \cup ToSet(t)
  <1>1. /\ s \o t \in Seq(Byte) /\ Len(s \o t) = Len(s) + Len(t)
        /\ \A i \in DOMAIN s : (s \o t)[i] = s[i]
        /\ \A i \in DOMAIN t : (s \o t)[Len(s) + i] = t[i]
        /\ ToSet(s \o t) = ToSet(s) \cup ToSet(t)
    BY Glued
  <1>2. /\ Len(s) \in Nat /\ Len(t) \in Nat /\ DOMAIN s = 1 .. Len(s) /\ DOMAIN t = 1 .. Len(t)
        /\ DOMAIN (s \o t) = 1 .. Len(s) + Len(t)
    BY <1>1
  <1>3. ASSUME NEW j \in DOMAIN (s \o t), NEW k \in DOMAIN (s \o t), j < k
        PROVE  Before((s \o t)[j], (s \o t)[k])
    <2>1. CASE k <= Len(s)
      <3>1. j \in DOMAIN s /\ k \in DOMAIN s
        BY <1>2, <1>3, <2>1
      <3> QED BY <1>1, <1>3, <3>1 DEF BytesOrdered
    <2>2. CASE j > Len(s)
      <3>1. /\ j - Len(s) \in DOMAIN t /\ k - Len(s) \in DOMAIN t /\ j - Len(s) < k - Len(s)
            /\ Len(s) + (j - Len(s)) = j /\ Len(s) + (k - Len(s)) = k
        BY <1>2, <1>3, <2>2
      <3>2. (s \o t)[j] = t[j - Len(s)] /\ (s \o t)[k] = t[k - Len(s)]
        BY <1>1, <3>1
      <3> QED BY <3>1, <3>2 DEF BytesOrdered
    <2>3. CASE j <= Len(s) /\ k > Len(s)
      <3>1. j \in DOMAIN s /\ k - Len(s) \in DOMAIN t /\ Len(s) + (k - Len(s)) = k
        BY <1>2, <1>3, <2>3
      <3>2. (s \o t)[j] = s[j] /\ (s \o t)[k] = t[k - Len(s)]
        BY <1>1, <3>1
      <3>3. s[j] \in ToSet(s) /\ t[k - Len(s)] \in ToSet(t)
        BY <3>1 DEF ToSet
      <3> QED BY <3>2, <3>3
    <2> QED BY <1>2, <1>3, <2>1, <2>2, <2>3
  <1> QED BY <1>1, <1>3 DEF BytesOrdered

\* What is in hand of the chunk that is read.
LEMMA InHand ==
    ASSUME ReadTyped, reading = "Ready", Len(lengths) > 0
    PROVE  /\ Chunk \in Nat /\ chunk_start \in Nat /\ lengths[Chunk] \in Nat /\ chunk_start < lengths[Chunk]
           /\ Available \in Seq(Byte) /\ Len(Available) = lengths[Chunk] - chunk_start
           /\ BytesOrdered(Available)
  <1>1. lengths \in Seq(Nat)
    <2>1. lengths \in Seq(Sizes \cup {0}) /\ Sizes \cup {0} \subseteq Nat
      BY SourceAssumption DEF ReadTyped
    <2> QED BY <2>1
  <1>2. Chunk \in Nat /\ Chunk \in DOMAIN lengths /\ lengths[Chunk] \in Nat
    BY <1>1, Element DEF Chunk
  <1>3. chunk_start \in 0 .. lengths[Chunk] - 1
    BY DEF ReadTyped
  <1>4. chunk_start \in Nat /\ chunk_start < lengths[Chunk] /\ chunk_start <= lengths[Chunk]
    BY <1>2, <1>3
  <1> QED BY <1>2, <1>4, Stretch DEF Available

\* The first bytes of a stretch go to those before, and the rest stays behind them.
Moves(r, i, a, c, n) ==
    /\ Len(SubSeq(Bytes(i, a, c), 1, n)) = n
    /\ r \o SubSeq(Bytes(i, a, c), 1, n) \in Seq(Byte)
    /\ (r \o SubSeq(Bytes(i, a, c), 1, n)) \o Bytes(i, a + n, c) = r \o Bytes(i, a, c)
    /\ Len(Bytes(i, a + n, c)) = (c - a) - n
    /\ a + n = c => SubSeq(Bytes(i, a, c), 1, n) = Bytes(i, a, c)

\* So it is for any stretch and any bytes before it.
LEMMA StretchTaken ==
    ASSUME NEW i \in Nat, NEW a \in Nat, NEW c \in Nat, NEW n \in Nat, a + n <= c, NEW r \in Seq(Byte)
    PROVE  Moves(r, i, a, c, n)
  <1>1. a + n \in Nat /\ (a + n) - a = n /\ a <= a + n /\ c - (a + n) = (c - a) - n
    OBVIOUS
  <1>2. /\ SubSeq(Bytes(i, a, c), 1, n) = Bytes(i, a, a + n)
        /\ Bytes(i, a, a + n) \o Bytes(i, a + n, c) = Bytes(i, a, c)
    <2>1. Splits(i, a, c, n)
      BY StretchSplit, Zenon
    <2> QED BY <2>1 DEF Splits
  <1>3. /\ Bytes(i, a, a + n) \in Seq(Byte) /\ Len(Bytes(i, a, a + n)) = n
        /\ Bytes(i, a + n, c) \in Seq(Byte) /\ Len(Bytes(i, a + n, c)) = c - (a + n)
    BY <1>1, Stretch
  <1>4. r \o Bytes(i, a, a + n) \in Seq(Byte)
    BY <1>3, Glued
  <1>5. (r \o Bytes(i, a, a + n)) \o Bytes(i, a + n, c) = r \o (Bytes(i, a, a + n) \o Bytes(i, a + n, c))
    BY <1>3, ConcatAssociative
  <1> QED BY <1>1, <1>2, <1>3, <1>4, <1>5 DEF Moves

\* Bytes that are taken of the chunk in hand ...
Takes(n) ==
    /\ n <= Len(Available)
    /\ read' = read \o SubSeq(Available, 1, n)
    /\ Advance(n)
    /\ UNCHANGED lengths

\* ... are in the stream as before.
LEMMA AdvanceMoves ==
    ASSUME ReadTyped, reading = "Ready", Len(lengths) > 0, read \in Seq(Byte), NEW n \in Nat, Takes(n)
    PROVE  /\ read' \in Seq(Byte) /\ Stream' = Stream
           /\ Len(SubSeq(Available, 1, n)) = n
           /\ reading' \in {"Ready", "PendingChunk"}
           /\ chunk_start' \in 0 .. IF reading' = "Ready" THEN lengths'[Chunk'] - 1 ELSE 0
           /\ reading' = "Ready" => Len(Available') = Len(Available) - n
           /\ reading' # "Ready" => n = Len(Available)
  <1>0. PICK i \in Nat, a \in Nat, c \in Nat :
            /\ i = Chunk /\ a = chunk_start /\ c = lengths[Chunk] /\ a < c
            /\ Available = Bytes(i, a, c) /\ Len(Available) = c - a
    BY InHand DEF Available
  <1>1. i \in Nat /\ a \in Nat /\ c \in Nat /\ a + n <= c
    BY <1>0 DEF Takes
  <1>2. /\ Len(SubSeq(Bytes(i, a, c), 1, n)) = n
        /\ read \o SubSeq(Bytes(i, a, c), 1, n) \in Seq(Byte)
        /\ (read \o SubSeq(Bytes(i, a, c), 1, n)) \o Bytes(i, a + n, c) = read \o Bytes(i, a, c)
        /\ Len(Bytes(i, a + n, c)) = (c - a) - n
        /\ a + n = c => SubSeq(Bytes(i, a, c), 1, n) = Bytes(i, a, c)
    <2>1. Moves(read, i, a, c, n)
      BY <1>1, StretchTaken, Zenon
    <2> QED BY <2>1, Zenon DEF Moves
  <1>3. /\ Len(SubSeq(Available, 1, n)) = n
        /\ read \o SubSeq(Available, 1, n) \in Seq(Byte)
        /\ (read \o SubSeq(Available, 1, n)) \o Bytes(i, a + n, c) = read \o Available
        /\ a + n = c => SubSeq(Available, 1, n) = Available
    BY <1>0, <1>2, Zenon
  <1>4. read' = read \o SubSeq(Available, 1, n)
    BY DEF Takes
  <1>5. read' \in Seq(Byte)
    BY <1>3, <1>4, Zenon
  <1>6. CASE a + n >= c
    <2>1. a + n = c /\ n = c - a
      BY <1>1, <1>6
    <2>2. reading' = "PendingChunk" /\ chunk_start' = 0
      <3>1. chunk_start + n >= lengths[Chunk]
        BY <1>0, <1>6
      <3> QED BY <3>1 DEF Takes, Advance
    <2>3. Stream' = read' \o <<>> /\ Stream = read \o Available
      BY <2>2 DEF Stream
    <2>4. read' \o <<>> = read'
      BY <1>5, Glued
    <2>5. read' = read \o Available
      BY <1>3, <1>4, <2>1, Zenon
    <2>6. Stream' = Stream
      BY <2>3, <2>4, <2>5, Zenon
    <2>7. n = Len(Available)
      BY <1>0, <2>1
    <2> QED BY <1>3, <1>5, <2>2, <2>6, <2>7
  <1>7. CASE ~(a + n >= c)
    <2>1. chunk_start' = a + n /\ reading' = "Ready" /\ UNCHANGED lengths
      <3>1. ~(chunk_start + n >= lengths[Chunk])
        BY <1>0, <1>7
      <3> QED BY <1>0, <3>1 DEF Takes, Advance
    <2>2. Available' = Bytes(i, a + n, c) /\ lengths'[Chunk'] = c
      BY <1>0, <2>1 DEF Available, Chunk
    <2>3. Stream' = read' \o Available' /\ Stream = read \o Available
      BY <2>1 DEF Stream
    <2>4. Stream' = Stream
      BY <1>3, <1>4, <2>2, <2>3, Zenon
    <2>5. a + n \in 0 .. c - 1 /\ n <= c - a
      BY <1>1, <1>7
    <2>6. Len(Available') = Len(Available) - n
      BY <1>0, <1>2, <2>2
    <2> QED BY <1>3, <1>5, <2>1, <2>2, <2>4, <2>5, <2>6
  <1> QED BY <1>6, <1>7

\* A chunk more: its bytes come behind all others.
LEMMA ChunkMoves ==
    ASSUME lengths \in Seq(Nat), NEW n \in Nat, lengths' = Append(lengths, n)
    PROVE  /\ lengths' \in Seq(Nat) /\ Len(lengths') = Len(lengths) + 1 /\ lengths'[Len(lengths')] = n
           /\ AllBytes' = AllBytes \cup ({Len(lengths')} \X (1 .. n))
           /\ \A b \in AllBytes, e \in {Len(lengths')} \X (1 .. n) : Before(b, e)
  <1> DEFINE m == Len(lengths) + 1
  <1>1. /\ lengths' \in Seq(Nat) /\ Len(lengths') = m /\ lengths'[m] = n /\ m \in Nat
        /\ DOMAIN lengths = 1 .. Len(lengths) /\ DOMAIN lengths' = 1 .. m
        /\ \A i \in DOMAIN lengths : lengths'[i] = lengths[i]
    OBVIOUS
  <1>2. DOMAIN lengths' = DOMAIN lengths \cup {m} /\ \A i \in DOMAIN lengths : i < m
    BY <1>1
  <1>3. \A b : b \in AllBytes <=> \E i \in DOMAIN lengths : b \in {i} \X (1 .. lengths[i])
    BY DEF AllBytes
  <1>4. \A b : b \in AllBytes' <=> \E i \in DOMAIN lengths' : b \in {i} \X (1 .. lengths'[i])
    BY DEF AllBytes
  <1>5. \A b : b \in AllBytes' <=> b \in AllBytes \/ b \in {m} \X (1 .. n)
    BY <1>1, <1>2, <1>3, <1>4, Zenon
  <1>6. ASSUME NEW b \in AllBytes, NEW e \in {m} \X (1 .. n) PROVE Before(b, e)
    <2>1. PICK i \in DOMAIN lengths : b \in {i} \X (1 .. lengths[i])
      BY <1>3
    <2>2. b[1] = i /\ e[1] = m
      BY <2>1
    <2> QED BY <1>2, <2>2 DEF Before
  <1> QED BY <1>1, <1>5, <1>6

\* What a step of the reader leaves alone.
ReadFrame ==
    /\ adaptor = "IntoAsyncRead"
    /\ UNCHANGED <<setup, notified, over, forwardVars, foldVars>>

\* The bytes read and in hand are all there are, in order.
StreamRight == read \in Seq(Byte) /\ BytesOrdered(Stream) /\ ToSet(Stream) = AllBytes

\* What the caller is told and lent.
AnswerRight ==
    /\ pc # "idle" => got = <<>> /\ lent = 0
    /\ pc = "idle" /\ ret = "Ok" /\ got = <<>> /\ (op = "fill" \/ room > 0) => reading = "Eof"
    /\ lent > 0 => reading = "Ready" /\ lent = Len(Available)
    /\ ret # "Panic"

\* The source, as the state of the reader tells of it.
ChunksRight ==
    /\ Len(lengths) = Len(given)
    /\ reading = "Ready" => Len(lengths) > 0
    /\ reading # "Eof" => ~ended /\ \A i \in DOMAIN given : IsOk(i)
    /\ reading = "Eof" => ended \/ ~IsOk(Len(given))
    /\ \A i \in 1 .. Len(given) - 1 : IsOk(i)

\* The invariant as far as the reader is concerned.
ReadPart ==
    /\ SourceTypeOK /\ SourceShape /\ ReadTyped /\ PollTyped
    /\ ChunksRight /\ StreamRight /\ AnswerRight /\ PendingHasWaker
    /\ adaptor = "IntoAsyncRead" /\ adaptor \in Adaptors /\ ~fut /\ ~done
    /\ buffered = <<>> /\ sink = "open" /\ flushed = 0 /\ tried = <<>>
    /\ pc \in {"idle", "poll"}

\* poll_read takes bytes of the chunk in hand, or none if there is no room.
LEMMA ReadChunkMoves ==
    ASSUME ReadPart, pc = "poll", ReadFrame, ReadChunk
    PROVE  ReadPart'
  <1> USE DEF ReadPart, ReadFrame
  <1>1. /\ reading = "Ready" /\ op = "read" /\ Len(lengths) > 0 /\ lent = 0 /\ ret' = "Ok" /\ pc' = "idle"
        /\ UNCHANGED <<lengths, op, room, lent>> /\ UNCHANGED sourceVars
    BY DEF ReadChunk, ChunksRight, AnswerRight, Return
  <1>2. PICK n : /\ n = IF room < Len(Available) THEN room ELSE Len(Available)
                 /\ got' = SubSeq(Available, 1, n) /\ read' = read \o got' /\ Advance(n)
    BY DEF ReadChunk
  <1>3. n \in Nat /\ n <= Len(Available) /\ (room > 0 => n > 0) /\ room \in Nat
    <2>1. Len(Available) \in Nat /\ Len(Available) > 0
      BY <1>1, InHand
    <2>2. room \in Nat
      BY SourceAssumption DEF ReadTyped
    <2> QED BY <1>2, <2>1, <2>2
  <1>4. Takes(n)
    BY <1>1, <1>2, <1>3 DEF Takes
  <1>5. /\ read' \in Seq(Byte) /\ Stream' = Stream
        /\ Len(SubSeq(Available, 1, n)) = n
        /\ reading' \in {"Ready", "PendingChunk"}
        /\ chunk_start' \in 0 .. IF reading' = "Ready" THEN lengths'[Chunk'] - 1 ELSE 0
    BY <1>1, <1>3, <1>4, AdvanceMoves DEF StreamRight
  <1>6. SourceTypeOK' /\ SourceShape'
    <2>1. notified' \in BOOLEAN
      BY DEF SourceTypeOK
    <2> QED BY <1>1, <2>1, SourceMove DEF SourceMoves
  <1>7. ReadTyped' /\ PollTyped'
    BY <1>1, <1>5 DEF ReadTyped, PollTyped
  <1>8. StreamRight'
    BY <1>1, <1>5 DEF StreamRight, BytesOrdered, AllBytes
  <1>9. ChunksRight'
    BY <1>1, <1>5 DEF ChunksRight, sourceVars, IsOk
  <1>10. AnswerRight'
    <2>1. room > 0 => got' # <<>>
      BY <1>2, <1>3, <1>5
    <2> QED BY <1>1, <2>1 DEF AnswerRight
  <1>11. PendingHasWaker'
    BY <1>1 DEF PendingHasWaker, Blocked
  <1> QED BY <1>1, <1>6, <1>7, <1>8, <1>9, <1>10, <1>11 DEF setup, forwardVars, foldVars

\* poll_fill_buf lends them.
LEMMA FillChunkMoves ==
    ASSUME ReadPart, pc = "poll", ReadFrame, FillChunk
    PROVE  ReadPart'
  <1> USE DEF ReadPart, ReadFrame
  <1>1. /\ reading = "Ready" /\ Len(lengths) > 0 /\ ret' = "Ok" /\ pc' = "idle"
        /\ got' = Available /\ lent' = Len(Available)
        /\ UNCHANGED <<reading, chunk_start, lengths, op, room, read>> /\ UNCHANGED sourceVars
    BY DEF FillChunk, ChunksRight, Return
  <1>2. Len(Available) \in Nat /\ Len(Available) > 0 /\ Available # <<>>
    BY <1>1, InHand
  <1>3. Available' = Available /\ Stream' = Stream
    BY <1>1 DEF Available, Chunk, Stream
  <1>6. SourceTypeOK' /\ SourceShape'
    <2>1. notified' \in BOOLEAN
      BY DEF SourceTypeOK
    <2> QED BY <1>1, <2>1, SourceMove DEF SourceMoves
  <1>7. ReadTyped' /\ PollTyped'
    BY <1>1, <1>2 DEF ReadTyped, PollTyped, Chunk
  <1>8. StreamRight'
    BY <1>1, <1>3 DEF StreamRight, BytesOrdered, AllBytes
  <1>9. ChunksRight'
    BY <1>1 DEF ChunksRight, sourceVars, IsOk
  <1>10. AnswerRight'
    BY <1>1, <1>2, <1>3 DEF AnswerRight
  <1>11. PendingHasWaker'
    BY <1>1 DEF PendingHasWaker, Blocked
  <1> QED BY <1>1, <1>6, <1>7, <1>8, <1>9, <1>10, <1>11 DEF setup, forwardVars, foldVars

\* At the end of the file nothing moves.
LEMMA AtEofMoves ==
    ASSUME ReadPart, pc = "poll", ReadFrame, AtEof
    PROVE  ReadPart'
  <1> USE DEF ReadPart, ReadFrame
  <1>1. /\ reading = "Eof" /\ ret' = "Ok" /\ pc' = "idle" /\ lent = 0
        /\ UNCHANGED <<reading, chunk_start, lengths, op, room, got, read, lent>> /\ UNCHANGED sourceVars
    BY DEF AtEof, Return, readVars, AnswerRight
  <1>3. Stream' = Stream
    BY <1>1 DEF Available, Chunk, Stream
  <1>6. SourceTypeOK' /\ SourceShape'
    <2>1. notified' \in BOOLEAN
      BY DEF SourceTypeOK
    <2> QED BY <1>1, <2>1, SourceMove DEF SourceMoves
  <1>7. ReadTyped' /\ PollTyped'
    BY <1>1 DEF ReadTyped, PollTyped, Chunk
  <1>8. StreamRight'
    BY <1>1, <1>3 DEF StreamRight, BytesOrdered, AllBytes
  <1>9. ChunksRight'
    BY <1>1 DEF ChunksRight, sourceVars, IsOk
  <1>10. AnswerRight'
    BY <1>1 DEF AnswerRight
  <1>11. PendingHasWaker'
    BY <1>1 DEF PendingHasWaker, Blocked
  <1> QED BY <1>1, <1>6, <1>7, <1>8, <1>9, <1>10, <1>11 DEF setup, forwardVars, foldVars

\* The bytes of a new chunk go behind those read.
LEMMA StreamMoves ==
    ASSUME StreamRight, ReadTyped, reading = "PendingChunk", NEW n \in Nat, lengths' = Append(lengths, n),
           UNCHANGED <<read, chunk_start>>, reading' = IF n > 0 THEN "Ready" ELSE "PendingChunk"
    PROVE  StreamRight' /\ (n > 0 => lengths'[Chunk'] = n) /\ chunk_start = 0
  <1>1. chunk_start = 0
    BY DEF ReadTyped
  <1>2. lengths \in Seq(Nat)
    <2>1. lengths \in Seq(Sizes \cup {0}) /\ Sizes \cup {0} \subseteq Nat
      BY SourceAssumption DEF ReadTyped
    <2> QED BY <2>1
  <1>3. /\ Len(lengths') \in Nat /\ lengths'[Len(lengths')] = n
        /\ AllBytes' = AllBytes \cup ({Len(lengths')} \X (1 .. n))
        /\ \A b \in AllBytes, e \in {Len(lengths')} \X (1 .. n) : Before(b, e)
    BY <1>2, ChunkMoves
  <1>4. read \in Seq(Byte) /\ BytesOrdered(read) /\ ToSet(read) = AllBytes
    <2>1. Stream = read \o <<>> /\ read \in Seq(Byte)
      BY DEF Stream, StreamRight
    <2>2. Stream = read
      BY <2>1, Glued
    <2> QED BY <2>1, <2>2 DEF StreamRight
  <1>5. CASE n > 0
    <2>0. PICK m \in Nat : m = Len(lengths')
      BY <1>3
    <2> DEFINE t == Bytes(m, 0, n)
    <2>1. t \in Seq(Byte) /\ BytesOrdered(t) /\ ToSet(t) = {Len(lengths')} \X (1 .. n)
      <3>1. 0 <= n /\ 0 \in Nat /\ 0 + 1 = 1
        OBVIOUS
      <3>2. t \in Seq(Byte) /\ BytesOrdered(t) /\ ToSet(t) = {m} \X (0 + 1 .. n)
        BY <2>0, <3>1, Stretch, Zenon
      <3> QED BY <2>0, <3>1, <3>2
    <2>2. Stream' = read \o t
      BY <1>1, <1>3, <1>5, <2>0 DEF Stream, Available, Chunk
    <2>3. BytesOrdered(read \o t) /\ ToSet(read \o t) = ToSet(read) \cup ToSet(t)
      BY <1>3, <1>4, <2>1, BytesJoined
    <2> HIDE DEF t
    <2>4. StreamRight'
      <3>1. BytesOrdered(Stream') /\ ToSet(Stream') = AllBytes' /\ read' \in Seq(Byte)
        BY <1>3, <1>4, <2>1, <2>2, <2>3
      <3> QED BY <3>1 DEF StreamRight, BytesOrdered
    <2> QED BY <1>1, <1>3, <2>4 DEF Chunk
  <1>6. CASE ~(n > 0)
    <2>1. Stream' = read \o <<>> /\ n = 0
      BY <1>6 DEF Stream
    <2>2. read \o <<>> = read
      BY <1>4, Glued
    <2>3. AllBytes' = AllBytes
      BY <1>3, <2>1
    <2>4. StreamRight'
      <3>1. BytesOrdered(Stream') /\ ToSet(Stream') = AllBytes' /\ read' \in Seq(Byte)
        BY <1>4, <2>1, <2>2, <2>3
      <3> QED BY <3>1 DEF StreamRight, BytesOrdered
    <2> QED BY <1>1, <1>6, <2>4
  <1> QED BY <1>5, <1>6

\* The stream is asked for a chunk.
LEMMA NextChunkMoves ==
    ASSUME ReadPart, pc = "poll", ReadFrame, NextChunk
    PROVE  ReadPart'
  <1> USE DEF ReadPart, ReadFrame
  <1>0. /\ notified' \in BOOLEAN /\ reading = "PendingChunk" /\ got = <<>> /\ lent = 0 /\ chunk_start = 0
        /\ UNCHANGED <<chunk_start, op, room, got, read, lent>>
        /\ ~ended /\ \A i \in DOMAIN given : IsOk(i)
    BY DEF SourceTypeOK, NextChunk, AnswerRight, ReadTyped, ChunksRight
  <1>s. ASSUME SourceMoves PROVE SourceTypeOK' /\ SourceShape'
    BY <1>0, <1>s, SourceMove
  <1>l. lengths \in Seq(Sizes \cup {0}) /\ Sizes \cup {0} \subseteq Nat
    BY SourceAssumption DEF ReadTyped
  <1>f. UNCHANGED <<adaptor, fut, done, buffered, sink, flushed, tried>>
    BY DEF setup, foldVars, forwardVars
  <1>1. ASSUME Gives("Ok"), NEW n \in Sizes \cup {0}, lengths' = Append(lengths, n),
               reading' = IF n > 0 THEN "Ready" ELSE "PendingChunk", Loop
        PROVE  ReadPart'
    <2>1. SourceTypeOK' /\ SourceShape'
      BY <1>1, <1>s DEF SourceMoves
    <2>2. n \in Nat /\ lengths' \in Seq(Sizes \cup {0}) /\ Len(lengths') = Len(lengths) + 1 /\ Len(lengths) \in Nat
      BY <1>1, <1>l
    <2>3. StreamRight' /\ (n > 0 => lengths'[Chunk'] = n)
      BY <1>0, <1>1, <2>2, StreamMoves
    <2>4. Grows("Ok", 0)
      BY <1>1, GivesGrows
    <2>5. 0 \in 0 .. IF reading' = "Ready" THEN lengths'[Chunk'] - 1 ELSE 0
      <3>1. n \in Nat /\ (reading' = "Ready" => n > 0 /\ lengths'[Chunk'] = n)
        BY <1>1, <2>2, <2>3
      <3>2. \A k \in Nat : k > 0 => 0 \in 0 .. k - 1
        OBVIOUS
      <3>3. 0 \in 0 .. 0
        OBVIOUS
      <3> QED BY <3>1, <3>2, <3>3
    <2>6. ReadTyped' /\ PollTyped'
      BY <1>0, <1>1, <2>2, <2>5 DEF ReadTyped, PollTyped, Loop
    <2>7. ChunksRight'
      <3>1. /\ Len(lengths') = Len(given') /\ Len(lengths') > 0 /\ ~ended' /\ reading' # "Eof"
            /\ DOMAIN given' = 1 .. Len(given')
            /\ \A i \in DOMAIN given' : given'[i].kind = "Ok"
        BY <1>0, <1>1, <2>2, <2>4 DEF Grows, ChunksRight, IsOk
      <3>2. \A i \in 1 .. Len(given') - 1 : i \in DOMAIN given'
        BY <2>4, <3>1 DEF Grows
      <3> QED BY <3>1, <3>2 DEF ChunksRight, IsOk
    <2>8. AnswerRight' /\ PendingHasWaker'
      BY <1>0, <1>1 DEF AnswerRight, Loop, PendingHasWaker, Blocked
    <2> QED BY <1>1, <1>f, <2>1, <2>3, <2>6, <2>7, <2>8 DEF Loop
  <1>2. CASE Gives("Err") /\ lengths' = Append(lengths, 0) /\ reading' = "Eof" /\ Return("Err")
    <2>1. SourceTypeOK' /\ SourceShape'
      BY <1>2, <1>s DEF SourceMoves
    <2>2. lengths' \in Seq(Sizes \cup {0}) /\ Len(lengths') = Len(lengths) + 1 /\ Len(lengths) \in Nat
      BY <1>2, <1>l
    <2>3. StreamRight'
      <3>1. lengths \in Seq(Nat) /\ 0 \in Nat
        BY <1>l
      <3>2. AllBytes' = AllBytes \cup ({Len(lengths')} \X (1 .. 0))
        BY <1>2, <3>1, ChunkMoves
      <3>3. AllBytes' = AllBytes
        BY <3>2
      <3>4. Stream' = Stream
        BY <1>0, <1>2 DEF Stream
      <3> QED BY <1>0, <3>3, <3>4 DEF StreamRight, BytesOrdered
    <2>4. Grows("Err", 0)
      BY <1>2, GivesGrows
    <2>6. ReadTyped' /\ PollTyped'
      BY <1>0, <1>2, <2>2 DEF ReadTyped, PollTyped, Return
    <2>7. ChunksRight'
      <3>1. /\ Len(lengths') = Len(given') /\ reading' = "Eof" /\ Len(given') \in Nat
            /\ given'[Len(given')].kind = "Err"
            /\ \A i \in 1 .. Len(given') - 1 : given'[i].kind = "Ok"
        BY <1>0, <1>2, <2>2, <2>4 DEF Grows, ChunksRight, IsOk
      <3> QED BY <3>1 DEF ChunksRight, IsOk
    <2>8. AnswerRight' /\ PendingHasWaker'
      BY <1>0, <1>2 DEF AnswerRight, Return, PendingHasWaker, Blocked
    <2> QED BY <1>2, <1>f, <2>1, <2>3, <2>6, <2>7, <2>8 DEF Return
  <1>3. CASE Ends /\ reading' = "Eof" /\ Return("Ok") /\ UNCHANGED lengths
    <2>1. SourceTypeOK' /\ SourceShape'
      BY <1>3, <1>s DEF SourceMoves
    <2>2. ended' /\ UNCHANGED given
      BY <1>3 DEF Ends, sourceVars, SourceShape
    <2>3. StreamRight'
      <3>1. Stream' = Stream /\ AllBytes' = AllBytes
        BY <1>0, <1>3 DEF Stream, AllBytes
      <3> QED BY <1>0, <3>1 DEF StreamRight, BytesOrdered
    <2>6. ReadTyped' /\ PollTyped'
      BY <1>0, <1>3 DEF ReadTyped, PollTyped, Return
    <2>7. ChunksRight'
      BY <1>3, <2>2 DEF ChunksRight, IsOk
    <2>8. AnswerRight' /\ PendingHasWaker'
      BY <1>0, <1>3 DEF AnswerRight, Return, PendingHasWaker, Blocked
    <2> QED BY <1>3, <1>f, <2>1, <2>3, <2>6, <2>7, <2>8 DEF Return
  <1>4. CASE Pends /\ Return("Pending") /\ UNCHANGED <<reading, lengths>>
    <2>1. SourceTypeOK' /\ SourceShape'
      BY <1>4, <1>s DEF SourceMoves, Pends
    <2>2. UNCHANGED <<given, ended>> /\ "source" \in waiting'
      BY <1>4 DEF Pends, Waits
    <2>3. StreamRight'
      <3>1. Stream' = Stream /\ AllBytes' = AllBytes
        BY <1>0, <1>4 DEF Stream, AllBytes
      <3> QED BY <1>0, <3>1 DEF StreamRight, BytesOrdered
    <2>6. ReadTyped' /\ PollTyped'
      BY <1>0, <1>4 DEF ReadTyped, PollTyped, Return
    <2>7. ChunksRight'
      BY <1>4, <2>2 DEF ChunksRight, IsOk
    <2>8. AnswerRight' /\ PendingHasWaker'
      BY <1>0, <1>4, <1>f, <2>2 DEF AnswerRight, Return, PendingHasWaker, Blocked
    <2> QED BY <1>4, <1>f, <2>1, <2>3, <2>6, <2>7, <2>8 DEF Return
  <1> QED BY <1>1, <1>2, <1>3, <1>4 DEF NextChunk

\* The caller consumes bytes of the slice lent, which is all that is in hand.
LEMMA ConsumeMoves ==
    ASSUME ReadPart, NEW n \in Nat, Consume(n), UNCHANGED <<forwardVars, foldVars, over>>
    PROVE  ReadPart'
  <1> USE DEF ReadPart
  <1>1. /\ pc = "idle" /\ n >= 1 /\ n <= lent /\ lent' = lent - n /\ lent \in Nat /\ reading = "Ready"
        /\ lent = Len(Available) /\ Len(lengths) > 0
        /\ UNCHANGED <<notified, lengths, op, room, got, pc>> /\ UNCHANGED setup /\ UNCHANGED sourceVars
    BY DEF Consume, ReadTyped, AnswerRight, ChunksRight
  <1>2. read' = read \o SubSeq(Available, 1, n) /\ Advance(n) /\ UNCHANGED ret
    <2>1. /\ chunk_start \in Nat /\ lengths[Chunk] \in Nat
          /\ Len(Available) = lengths[Chunk] - chunk_start
      BY <1>1, InHand
    <2>2. chunk_start + n <= lengths[Chunk]
      BY <1>1, <2>1
    <2> QED BY <1>1, <2>2 DEF Consume
  <1>3. Takes(n)
    BY <1>1, <1>2 DEF Takes
  <1>5. /\ read' \in Seq(Byte) /\ Stream' = Stream
        /\ reading' \in {"Ready", "PendingChunk"}
        /\ chunk_start' \in 0 .. IF reading' = "Ready" THEN lengths'[Chunk'] - 1 ELSE 0
        /\ reading' = "Ready" => Len(Available') = Len(Available) - n
        /\ reading' # "Ready" => n = Len(Available)
    BY <1>1, <1>3, AdvanceMoves DEF StreamRight
  <1>6. SourceTypeOK' /\ SourceShape'
    <2>1. notified' \in BOOLEAN
      BY <1>1 DEF SourceTypeOK
    <2> QED BY <1>1, <2>1, SourceMove DEF SourceMoves
  <1>7. ReadTyped' /\ PollTyped'
    <2>1. lent' \in Nat
      BY <1>1
    <2> QED BY <1>1, <1>2, <1>5, <2>1 DEF ReadTyped, PollTyped
  <1>8. StreamRight'
    BY <1>1, <1>5 DEF StreamRight, BytesOrdered, AllBytes
  <1>9. ChunksRight'
    BY <1>1, <1>5 DEF ChunksRight, sourceVars, IsOk
  <1>10. AnswerRight'
    <2>1. lent' > 0 => reading' = "Ready" /\ lent' = Len(Available')
      BY <1>1, <1>5
    <2>2. pc' = "idle" /\ ret' = "Ok" /\ got' = <<>> /\ (op' = "fill" \/ room' > 0) => FALSE
      BY <1>1, <1>2 DEF AnswerRight
    <2> QED BY <1>1, <1>2, <2>1, <2>2 DEF AnswerRight
  <1>11. PendingHasWaker'
    BY <1>1, <1>2 DEF PendingHasWaker, Blocked, foldVars, forwardVars, sourceVars
  <1> QED BY <1>1, <1>6, <1>7, <1>8, <1>9, <1>10, <1>11 DEF setup, forwardVars, foldVars

\* The reader is called.
LEMMA CallMoves ==
    ASSUME ReadPart, NEW o \in {"read", "fill"}, NEW r \in Sizes \cup {0}, Call(o, r),
           UNCHANGED <<forwardVars, foldVars, over>>
    PROVE  ReadPart'
  <1> USE DEF ReadPart
  <1>1. /\ pc' = "poll" /\ notified' = FALSE /\ op' = o /\ room' = r /\ got' = <<>> /\ lent' = 0
        /\ UNCHANGED <<reading, chunk_start, lengths, read, ret>> /\ UNCHANGED setup /\ UNCHANGED sourceVars
    BY DEF Call, CallPoll
  <1>2. SourceTypeOK' /\ SourceShape'
    BY <1>1, SourceMove DEF SourceMoves
  <1>3. ReadTyped' /\ PollTyped'
    BY <1>1 DEF ReadTyped, PollTyped, Chunk
  <1>4. StreamRight'
    <2>1. Stream' = Stream /\ AllBytes' = AllBytes
      BY <1>1 DEF Stream, Available, Chunk, AllBytes
    <2> QED BY <1>1, <2>1 DEF StreamRight, BytesOrdered
  <1>5. ChunksRight'
    BY <1>1 DEF ChunksRight, sourceVars, IsOk
  <1>6. AnswerRight' /\ PendingHasWaker'
    BY <1>1 DEF AnswerRight, PendingHasWaker, Blocked
  <1> QED BY <1>1, <1>2, <1>3, <1>4, <1>5, <1>6 DEF setup, forwardVars, foldVars

-----------------------------------------------------------------------------
(* The invariant, for each kind of consumer *)

\* A list of the items given is one that has them in order.
LEMMA ListsThem == \A s : Lists(s) <=> Ordered(s) /\ ToSet(s) = OkItems
  BY DEF Lists, Ordered, OkItems

\* The reader's variables, where there is no reader.
NotReading == ReadTyped /\ reading # "Ready" /\ lent = 0

\* try_forward,
LEMMA Forwarding ==
    adaptor = "TryForward" =>
        (ConsumerInv <=> ForwardPart /\ FoldTyped /\ ~done /\ NotReading)
  <1>1. SUFFICES ASSUME adaptor = "TryForward"
                 PROVE  ConsumerInv <=> ForwardPart /\ FoldTyped /\ ~done /\ NotReading
    OBVIOUS
  <1>2. ForwardRight <=> /\ ForwardLists
                         /\ sink # "open" => ended /\ buffered = <<>>
                         /\ ret = "Ok" => sink = "closed" /\ flushed = Len(tried)
    BY ListsThem DEF ForwardRight, ForwardLists, Sent
  <1>3. ASSUME ConsumerInv PROVE ForwardPart /\ FoldTyped /\ ~done /\ NotReading
    <2>1. SourceTypeOK /\ ForwardTyped /\ FoldTyped /\ ReadTyped /\ PollTyped
      BY <1>3, Typed DEF ConsumerInv
    <2>2. SourceShape /\ adaptor \in Adaptors
      BY <1>3, <2>1 DEF ConsumerInv, Shape, SourceShape, SourceTypeOK
    <2>3. ~fut /\ ~done /\ reading # "Ready" /\ lent = 0
      BY <1>1, <1>3 DEF ConsumerInv, Shape, Folding
    <2>4. ForwardLists /\ ForwardShape /\ OverKept /\ PendingHasWaker
      BY <1>1, <1>2, <1>3 DEF ConsumerInv
    <2>5. fut = FALSE
      BY <2>1, <2>3 DEF FoldTyped
    <2> QED BY <1>1, <2>1, <2>2, <2>3, <2>4, <2>5 DEF ForwardPart, NotReading
  <1>4. ASSUME ForwardPart, FoldTyped, ~done, NotReading PROVE ConsumerInv
    <2>1. TypeOK
      BY <1>4, Typed DEF ForwardPart, NotReading
    <2>2. Shape
      BY <1>1, <1>4 DEF ForwardPart, NotReading, Shape, SourceShape, Folding
    <2>3. FoldShape /\ ReadShape
      BY <1>1 DEF FoldShape, ReadShape, Folding
    <2>4. ForwardRight
      BY <1>1, <1>2, <1>4 DEF ForwardPart, ForwardShape
    <2> QED BY <1>1, <1>4, <2>1, <2>2, <2>3, <2>4 DEF ForwardPart, ConsumerInv, Gathering
  <1> QED BY <1>3, <1>4

\* Nothing is sent by the others.
LEMMA NothingSent ==
    buffered = <<>> /\ sink = "open" /\ flushed = 0 /\ tried = <<>> => ForwardTyped
  <1>1. <<>> \in Seq(1 .. MaxAnswers) /\ Len(<<>>) = 0
    BY Empty
  <1>2. <<>> \in Seq([item : 1 .. MaxAnswers, ok : BOOLEAN])
    BY Empty
  <1>3. 0 \in 0 .. 0 /\ 0 <= 1
    OBVIOUS
  <1> QED BY <1>1, <1>2, <1>3 DEF ForwardTyped

\* try_all and try_any,
LEMMA FoldingThem ==
    adaptor \in Folding => (ConsumerInv <=> FoldPart /\ NotReading)
  <1>1. SUFFICES ASSUME adaptor \in Folding PROVE ConsumerInv <=> FoldPart /\ NotReading
    OBVIOUS
  <1>2. adaptor # "TryForward" /\ adaptor # "IntoAsyncRead" /\ adaptor \notin Gathering
    BY <1>1 DEF Folding, Gathering
  <1>3. ASSUME ConsumerInv PROVE FoldPart /\ NotReading
    <2>1. SourceTypeOK /\ FoldTyped /\ ReadTyped /\ PollTyped
      BY <1>3, Typed DEF ConsumerInv
    <2>2. SourceShape /\ adaptor \in Adaptors
      BY <1>3, <2>1 DEF ConsumerInv, Shape, SourceShape, SourceTypeOK
    <2>3. /\ reading # "Ready" /\ lent = 0 /\ buffered = <<>> /\ sink = "open" /\ flushed = 0 /\ tried = <<>>
          /\ pc \in {"idle", "poll"}
      BY <1>2, <1>3, <2>1 DEF ConsumerInv, Shape, PollTyped
    <2>4. FoldShape /\ OverKept /\ PendingHasWaker
      BY <1>3 DEF ConsumerInv
    <2> QED BY <1>1, <2>1, <2>2, <2>3, <2>4 DEF FoldPart, NotReading
  <1>4. ASSUME FoldPart, NotReading PROVE ConsumerInv
    <2>1. TypeOK
      BY <1>4, Typed, NothingSent DEF FoldPart, NotReading
    <2>2. Shape
      BY <1>1, <1>2, <1>4 DEF FoldPart, NotReading, Shape, SourceShape
    <2>3. ForwardShape /\ ReadShape
      BY <1>2, <1>4 DEF FoldPart, ForwardShape, ReadShape
    <2> QED BY <1>2, <1>4, <2>1, <2>2, <2>3 DEF FoldPart, ConsumerInv
  <1> QED BY <1>3, <1>4

\* try_collect and try_concat,
LEMMA GatheringThem ==
    adaptor \in Gathering => (ConsumerInv <=> GatherPart /\ NotReading)
  <1>1. SUFFICES ASSUME adaptor \in Gathering PROVE ConsumerInv <=> GatherPart /\ NotReading
    OBVIOUS
  <1>2. adaptor # "TryForward" /\ adaptor # "IntoAsyncRead" /\ adaptor \notin Folding /\ adaptor \notin Guarded
    BY <1>1 DEF Folding, Gathering, Guarded
  <1>3. AllGathered <=> GatherShape
    BY ListsThem DEF AllGathered, GatherShape
  <1>4. ASSUME ConsumerInv PROVE GatherPart /\ NotReading
    <2>1. SourceTypeOK /\ FoldTyped /\ ReadTyped /\ PollTyped
      BY <1>4, Typed DEF ConsumerInv
    <2>2. SourceShape /\ adaptor \in Adaptors
      BY <1>4, <2>1 DEF ConsumerInv, Shape, SourceShape, SourceTypeOK
    <2>3. /\ reading # "Ready" /\ lent = 0 /\ buffered = <<>> /\ sink = "open" /\ flushed = 0 /\ tried = <<>>
          /\ pc \in {"idle", "poll"} /\ ~fut /\ ~done
      BY <1>2, <1>4, <2>1 DEF ConsumerInv, Shape, PollTyped
    <2>4. GatherShape /\ PendingHasWaker
      BY <1>1, <1>3, <1>4 DEF ConsumerInv
    <2> QED BY <1>1, <2>1, <2>2, <2>3, <2>4 DEF GatherPart, NotReading
  <1>5. ASSUME GatherPart, NotReading PROVE ConsumerInv
    <2>1. TypeOK
      BY <1>5, Typed, NothingSent DEF GatherPart, NotReading
    <2>2. Shape
      BY <1>2, <1>5 DEF GatherPart, NotReading, Shape, SourceShape
    <2>3. ForwardShape /\ ReadShape /\ FoldShape /\ OverKept
      BY <1>2, <1>5 DEF GatherPart, ForwardShape, ReadShape, FoldShape, OverKept
    <2> QED BY <1>2, <1>3, <1>5, <2>1, <2>2, <2>3 DEF GatherPart, ConsumerInv
  <1> QED BY <1>4, <1>5

\* and into_async_read.
LEMMA Reading ==
    adaptor = "IntoAsyncRead" => (ConsumerInv <=> ReadPart /\ FoldTyped)
  <1>1. SUFFICES ASSUME adaptor = "IntoAsyncRead" PROVE ConsumerInv <=> ReadPart /\ FoldTyped
    OBVIOUS
  <1>2. adaptor \notin Gathering /\ adaptor \notin Folding /\ adaptor \notin Guarded
    BY <1>1 DEF Folding, Gathering, Guarded
  <1>3. ReadShape /\ Len(lengths) = Len(given) <=> ChunksRight /\ StreamRight /\ AnswerRight
    <2>1. ReadRight <=>
            /\ BytesOrdered(Stream) /\ ToSet(Stream) = AllBytes
            /\ reading = "Eof" => ended \/ ~IsOk(Len(given))
            /\ \A i \in 1 .. Len(given) - 1 : IsOk(i)
            /\ pc = "idle" /\ ret = "Ok" /\ got = <<>> /\ (op = "fill" \/ room > 0) => reading = "Eof"
            /\ lent > 0 => reading = "Ready" /\ lent = Len(Available)
            /\ ret # "Panic"
      BY Zenon DEF ReadRight, BytesOrdered
    <2> QED BY <1>1, <2>1, Zenon DEF ReadShape, ChunksRight, StreamRight, AnswerRight, Byte
  <1>4. ASSUME ConsumerInv PROVE ReadPart /\ FoldTyped
    <2>1. SourceTypeOK /\ FoldTyped /\ ReadTyped /\ PollTyped
      BY <1>4, Typed DEF ConsumerInv
    <2>2. SourceShape /\ adaptor \in Adaptors
      BY <1>4, <2>1 DEF ConsumerInv, Shape, SourceShape, SourceTypeOK
    <2>3. /\ buffered = <<>> /\ sink = "open" /\ flushed = 0 /\ tried = <<>>
          /\ pc \in {"idle", "poll"} /\ ~fut /\ ~done /\ Len(lengths) = Len(given)
      BY <1>1, <1>2, <1>4, <2>1 DEF ConsumerInv, Shape, PollTyped
    <2>4. ChunksRight /\ StreamRight /\ AnswerRight /\ PendingHasWaker
      BY <1>3, <1>4, <2>3 DEF ConsumerInv
    <2> QED BY <1>1, <2>1, <2>2, <2>3, <2>4 DEF ReadPart
  <1>5. ASSUME ReadPart, FoldTyped PROVE ConsumerInv
    <2>1. TypeOK
      BY <1>5, Typed, NothingSent DEF ReadPart
    <2>2. Shape
      BY <1>1, <1>2, <1>5 DEF ReadPart, Shape, SourceShape, ChunksRight
    <2>3. ForwardShape /\ ReadShape /\ FoldShape /\ OverKept
      BY <1>1, <1>2, <1>3, <1>5 DEF ReadPart, ForwardShape, FoldShape, OverKept
    <2> QED BY <1>1, <1>2, <1>5, <2>1, <2>2, <2>3 DEF ReadPart, ConsumerInv
  <1> QED BY <1>4, <1>5

\* The same of the state after a step.
LEMMA ReadingThen == adaptor' = "IntoAsyncRead" => (ConsumerInv' <=> ReadPart' /\ FoldTyped')
  <1>1. (adaptor = "IntoAsyncRead" => (ConsumerInv <=> ReadPart /\ FoldTyped))'
    BY Reading, PTL
  <1> QED BY <1>1

-----------------------------------------------------------------------------
(* The invariant holds at first, and every step keeps it *)

\* Every consumer is of one of the four kinds.
LEMMA FourKinds ==
    SourceTypeOK => adaptor \in Adaptors /\ (\/ adaptor = "TryForward" \/ adaptor \in Folding
                                             \/ adaptor \in Gathering \/ adaptor = "IntoAsyncRead")
  BY ConsumersAssumption DEF SourceTypeOK, Folding, Gathering

\* The invariant holds at first, ...
LEMMA ConsumersInit == Init => ConsumerInv
  <1> SUFFICES ASSUME Init PROVE ConsumerInv
    OBVIOUS
  <1>1. /\ adaptor \in Adaptors /\ size = 0 /\ early \in BOOLEAN /\ left \in 0 .. MaxAnswers /\ given = <<>>
        /\ ended = FALSE /\ terminated = FALSE /\ waiting = {} /\ pc = "idle" /\ notified = FALSE /\ ret = "None"
        /\ buffered = <<>> /\ tried = <<>> /\ flushed = 0 /\ sink = "open"
        /\ fut = FALSE /\ done = FALSE /\ accum = <<>> /\ result = <<>>
        /\ reading = "PendingChunk" /\ chunk_start = 0 /\ lengths = <<>> /\ op = "read" /\ room = 0
        /\ got = <<>> /\ read = <<>> /\ lent = 0 /\ over = FALSE
    BY DEF Init, SourceInit, ForwardInit, FoldInit, ReadInit
  <1>2. SourceTypeOK
    <2>1. <<>> \in Seq(Answers) /\ Len(<<>>) = 0
      BY Empty
    <2>2. Len(given) + left <= MaxAnswers
      BY <1>1, <2>1, SourceAssumption
    <2> QED BY <1>1, <2>1, <2>2 DEF SourceTypeOK, Answers
  <1>3. FoldTyped /\ ReadTyped /\ PollTyped /\ ForwardTyped
    <2>1. <<>> \in Seq(1 .. MaxAnswers) /\ <<>> \in Seq(Sizes \cup {0})
      BY Empty
    <2>2. FoldTyped
      BY <1>1, <2>1 DEF FoldTyped
    <2>3. ReadTyped
      BY <1>1, <2>1 DEF ReadTyped
    <2>4. PollTyped
      BY <1>1 DEF PollTyped
    <2> QED BY <1>1, <2>2, <2>3, <2>4, NothingSent
  <1>4. SourceShape /\ NotReading /\ PendingHasWaker /\ OkItems = {} /\ DOMAIN given = {} /\ Len(given) = 0
    <2>1. Len(<<>>) = 0 /\ DOMAIN <<>> = {}
      OBVIOUS
    <2> QED BY <1>1, <1>3, <2>1 DEF SourceShape, NotReading, PendingHasWaker, Blocked, OkItems
  <1>5. /\ <<>> \o <<>> = <<>> /\ ToSet(<<>>) = {} /\ DOMAIN <<>> = {} /\ Ordered(<<>>) /\ BytesOrdered(<<>>)
        /\ <<>> \in Seq(Byte)
    BY DEF ToSet, Ordered, BytesOrdered
  <1>6. CASE adaptor = "TryForward"
    <2>1. Sent \o buffered = <<>>
      <3>1. Sent \in Seq(Nat) /\ Len(Sent) = 0
        BY <1>1, <1>3, SentTyped
      <3>2. Sent = <<>>
        BY <3>1
      <3> QED BY <1>1, <1>5, <3>2
    <2>2. ForwardLists /\ ForwardShape /\ OverKept
      BY <1>1, <1>4, <1>5, <2>1 DEF ForwardLists, ForwardShape, OverKept
    <2> QED BY <1>1, <1>2, <1>3, <1>4, <1>6, <2>2, Forwarding DEF ForwardPart
  <1>7. CASE adaptor \in Folding
    <2>1. FoldShape /\ OverKept
      <3>1. \A i \in 1 .. 0 - 1 : FALSE
        OBVIOUS
      <3> QED BY <1>1, <1>4, <3>1 DEF FoldShape, FoldedRight, OverKept, AtOnce, AtEnd
    <2> QED BY <1>1, <1>2, <1>3, <1>4, <1>7, <2>1, FoldingThem DEF FoldPart
  <1>8. CASE adaptor \in Gathering
    BY <1>1, <1>2, <1>3, <1>4, <1>5, <1>8, GatheringThem DEF GatherPart, GatherShape
  <1>9. CASE adaptor = "IntoAsyncRead"
    <2>1. StreamRight
      <3>1. Stream = <<>> /\ AllBytes = {}
        BY <1>1, <1>5 DEF Stream, AllBytes
      <3> QED BY <1>1, <1>5, <3>1 DEF StreamRight
    <2>2. ChunksRight
      <3>1. \A i \in 1 .. 0 - 1 : FALSE
        OBVIOUS
      <3> QED BY <1>1, <1>4, <3>1 DEF ChunksRight
    <2>3. AnswerRight
      BY <1>1 DEF AnswerRight
    <2> QED BY <1>1, <1>2, <1>3, <1>4, <1>9, <2>1, <2>2, <2>3, Reading DEF ReadPart
  <1> QED BY <1>2, <1>6, <1>7, <1>8, <1>9, FourKinds

\* A future is polled, whatever it has answered before.
LEMMA PollMoves ==
    ASSUME ConsumerInv, Poll
    PROVE  ConsumerInv'
  <1>1. /\ adaptor # "IntoAsyncRead" /\ pc = "idle" /\ pc' = "poll" /\ notified' = FALSE
        /\ over' = IsTerminated /\ UNCHANGED setup /\ UNCHANGED sourceVars /\ UNCHANGED ret
        /\ UNCHANGED forwardVars /\ UNCHANGED foldVars /\ UNCHANGED readVars
    BY DEF Poll, CallPoll
  <1>2. SourceTypeOK /\ ForwardTyped /\ FoldTyped /\ ReadTyped /\ PollTyped
    BY Typed DEF ConsumerInv
  <1>3. SourceTypeOK'
    BY <1>1, <1>2, SameType
  <1>4. ForwardTyped' /\ FoldTyped' /\ ReadTyped'
    BY <1>1, <1>2 DEF ForwardTyped, FoldTyped, ReadTyped, Chunk, forwardVars, foldVars, readVars
  <1>5. IsTerminated' = IsTerminated /\ IsTerminated \in BOOLEAN
    <2>1. adaptor \in {"TryForward", "TryAll", "TryAny", "TryCollect", "TryConcat"}
      BY <1>1, <1>2, ConsumersAssumption DEF SourceTypeOK
    <2>2. IsTerminated \in BOOLEAN
      BY <2>1 DEF IsTerminated, ForwardTerminated, TryAllTerminated, TryAnyTerminated, TryCollectTerminated,
         TryConcatTerminated, SourceTerminated
    <2>3. IsTerminated' = IsTerminated
      BY <1>1, <2>1 DEF IsTerminated, ForwardTerminated, TryAllTerminated, TryAnyTerminated, TryCollectTerminated,
         TryConcatTerminated, SourceTerminated, setup, sourceVars, forwardVars, foldVars
    <2> QED BY <2>2, <2>3
  <1>6. PollTyped'
    BY <1>1, <1>2, <1>5 DEF PollTyped
  <1>7. Shape' /\ ForwardShape'
    BY <1>1 DEF ConsumerInv, Shape, ForwardShape, setup, sourceVars, forwardVars, foldVars, readVars
  <1>8. FoldShape'
    BY <1>1 DEF ConsumerInv, FoldShape, FoldedRight, IsOk, GoesOn, AtOnce, AtEnd, setup, sourceVars, foldVars
  <1>9. ReadShape' /\ OverKept' /\ PendingHasWaker'
    BY <1>1, <1>5 DEF ConsumerInv, ReadShape, OverKept, PendingHasWaker, Blocked, setup
  <1>10. adaptor = "TryForward" => ForwardRight'
    BY <1>1 DEF ConsumerInv, ForwardRight, Lists, IsOk, setup, sourceVars, forwardVars
  <1>11. adaptor \in Gathering => AllGathered'
    BY <1>1 DEF ConsumerInv, AllGathered, Lists, IsOk, setup, sourceVars, foldVars
  <1> QED BY <1>1, <1>3, <1>4, <1>6, <1>7, <1>8, <1>9, <1>10, <1>11, Typed DEF ConsumerInv, setup

\* A party wakes the task.
LEMMA WakesMoves ==
    ASSUME ConsumerInv, NEW party, PartyWakes(party)
    PROVE  ConsumerInv'
  <1>1. /\ waiting' = waiting \ {party} /\ notified' = TRUE
        /\ UNCHANGED setup /\ UNCHANGED <<left, given, ended, terminated, pc, ret, over>>
        /\ UNCHANGED forwardVars /\ UNCHANGED foldVars /\ UNCHANGED readVars
    BY DEF PartyWakes, Wakes
  <1>2. SourceTypeOK /\ ForwardTyped /\ FoldTyped /\ ReadTyped /\ PollTyped
    BY Typed DEF ConsumerInv
  <1>3. SourceTypeOK'
    BY <1>1, <1>2 DEF SourceTypeOK, setup
  <1>4. ForwardTyped' /\ FoldTyped' /\ ReadTyped' /\ PollTyped'
    BY <1>1, <1>2 DEF ForwardTyped, FoldTyped, ReadTyped, PollTyped, Chunk, forwardVars, foldVars, readVars
  <1>5. adaptor \in Guarded => IsTerminated' = IsTerminated
    BY <1>1 DEF Guarded, IsTerminated, ForwardTerminated, TryAllTerminated, TryAnyTerminated, setup, forwardVars, foldVars
  <1>7. Shape' /\ ForwardShape'
    BY <1>1 DEF ConsumerInv, Shape, ForwardShape, setup, forwardVars, foldVars, readVars
  <1>8. FoldShape'
    BY <1>1 DEF ConsumerInv, FoldShape, FoldedRight, IsOk, GoesOn, AtOnce, AtEnd, setup, foldVars
  <1>9. OverKept' /\ PendingHasWaker'
    BY <1>1, <1>5 DEF ConsumerInv, OverKept, PendingHasWaker, Blocked, setup
  <1>10. ReadShape'
    <2>1. Stream' = Stream /\ Available' = Available /\ AllBytes' = AllBytes
      BY <1>1 DEF Stream, Available, Chunk, AllBytes, readVars
    <2> QED BY <1>1, <2>1 DEF ConsumerInv, ReadShape, ReadRight, IsOk, setup, readVars
  <1>11. adaptor = "TryForward" => ForwardRight'
    BY <1>1 DEF ConsumerInv, ForwardRight, Lists, IsOk, setup, forwardVars
  <1>12. adaptor \in Gathering => AllGathered'
    BY <1>1 DEF ConsumerInv, AllGathered, Lists, IsOk, setup, foldVars
  <1> QED BY <1>1, <1>3, <1>4, <1>7, <1>8, <1>9, <1>10, <1>11, <1>12, Typed DEF ConsumerInv, setup

\* Nothing moves.
LEMMA NothingMoves ==
    ASSUME ConsumerInv, UNCHANGED vars
    PROVE  ConsumerInv'
  <1>1. /\ UNCHANGED setup /\ UNCHANGED sourceVars /\ UNCHANGED <<pc, notified, ret, over>>
        /\ UNCHANGED forwardVars /\ UNCHANGED foldVars /\ UNCHANGED readVars
    BY DEF vars
  <1>2. SourceTypeOK /\ ForwardTyped /\ FoldTyped /\ ReadTyped /\ PollTyped
    BY Typed DEF ConsumerInv
  <1>3. SourceTypeOK'
    <2>1. notified' \in BOOLEAN
      BY <1>1, <1>2 DEF SourceTypeOK
    <2> QED BY <1>1, <1>2, <2>1, SameType
  <1>4. ForwardTyped' /\ FoldTyped' /\ ReadTyped' /\ PollTyped'
    BY <1>1, <1>2 DEF ForwardTyped, FoldTyped, ReadTyped, PollTyped, Chunk, forwardVars, foldVars, readVars
  <1>5. adaptor \in Guarded => IsTerminated' = IsTerminated
    BY <1>1 DEF Guarded, IsTerminated, ForwardTerminated, TryAllTerminated, TryAnyTerminated, setup, forwardVars, foldVars
  <1>7. Shape' /\ ForwardShape'
    BY <1>1 DEF ConsumerInv, Shape, ForwardShape, setup, sourceVars, forwardVars, foldVars, readVars
  <1>8. FoldShape'
    BY <1>1 DEF ConsumerInv, FoldShape, FoldedRight, IsOk, GoesOn, AtOnce, AtEnd, setup, sourceVars, foldVars
  <1>9. OverKept' /\ PendingHasWaker'
    BY <1>1, <1>5 DEF ConsumerInv, OverKept, PendingHasWaker, Blocked, setup, sourceVars, forwardVars, foldVars
  <1>10. ReadShape'
    <2>1. Stream' = Stream /\ Available' = Available /\ AllBytes' = AllBytes
      BY <1>1 DEF Stream, Available, Chunk, AllBytes, readVars
    <2> QED BY <1>1, <2>1 DEF ConsumerInv, ReadShape, ReadRight, IsOk, setup, sourceVars, readVars
  <1>11. adaptor = "TryForward" => ForwardRight'
    BY <1>1 DEF ConsumerInv, ForwardRight, Lists, IsOk, setup, sourceVars, forwardVars
  <1>12. adaptor \in Gathering => AllGathered'
    BY <1>1 DEF ConsumerInv, AllGathered, Lists, IsOk, setup, sourceVars, foldVars
  <1> QED BY <1>1, <1>3, <1>4, <1>7, <1>8, <1>9, <1>10, <1>11, <1>12, Typed DEF ConsumerInv, setup

\* One step of poll, for each kind.
LEMMA StepMoves ==
    ASSUME ConsumerInv, Step
    PROVE  ConsumerInv'
  <1>1. UNCHANGED setup /\ UNCHANGED <<notified, over>> /\ UNCHANGED adaptor
    BY DEF Step, setup
  <1>2. \/ ForwardStep /\ UNCHANGED foldVars /\ UNCHANGED readVars
        \/ FoldStep /\ UNCHANGED forwardVars /\ UNCHANGED readVars
        \/ ReadStep /\ UNCHANGED forwardVars /\ UNCHANGED foldVars
    BY DEF Step
  <1>3. UNCHANGED readVars /\ NotReading => NotReading'
    BY DEF NotReading, ReadTyped, Chunk, readVars
  <1>4. UNCHANGED foldVars /\ FoldTyped => FoldTyped'
    BY DEF FoldTyped, foldVars
  <1>5. CASE adaptor = "TryForward"
    <2>1. ForwardStep /\ UNCHANGED foldVars /\ UNCHANGED readVars
      BY <1>2, <1>5 DEF FoldStep, ReadStep, TryAll, TryAny, TryCollect, TryConcat
    <2>2. ForwardPart /\ FoldTyped /\ ~done /\ NotReading
      BY <1>5, Forwarding
    <2>3. ForwardFrame
      BY <1>1, <1>5, <2>1 DEF ForwardFrame
    <2>4. ForwardPart'
      BY <2>1, <2>2, <2>3, ForwardMoves
    <2>5. (ForwardPart /\ FoldTyped /\ ~done /\ NotReading)'
      BY <1>3, <1>4, <2>1, <2>2, <2>4 DEF foldVars
    <2>6. (adaptor = "TryForward" => (ConsumerInv <=> ForwardPart /\ FoldTyped /\ ~done /\ NotReading))'
      BY Forwarding, PTL
    <2> QED BY <1>1, <1>5, <2>5, <2>6
  <1>6. CASE adaptor \in Folding
    <2>1. FoldStep /\ (TryAll \/ TryAny) /\ UNCHANGED forwardVars /\ UNCHANGED readVars /\ pc = "poll"
      BY <1>2, <1>6 DEF ForwardStep, FoldStep, ReadStep, TryCollect, TryConcat, Folding
    <2>2. FoldPart /\ NotReading
      BY <1>6, FoldingThem
    <2>3. FoldFrame
      BY <1>1, <1>6, <2>1 DEF FoldFrame
    <2>4. Decide(IF adaptor = "TryAll" THEN "drop" ELSE "keep", GoesOn, AtOnce, AtEnd)
      BY <1>6, <2>1 DEF TryAll, TryAny, GoesOn, AtOnce, AtEnd
    <2>5. FoldPart'
      BY <2>1, <2>2, <2>3, <2>4, FoldMoves
    <2>6. (FoldPart /\ NotReading)'
      BY <1>3, <2>1, <2>2, <2>5
    <2>7. (adaptor \in Folding => (ConsumerInv <=> FoldPart /\ NotReading))'
      BY FoldingThem, PTL
    <2> QED BY <1>1, <1>6, <2>6, <2>7 DEF Folding
  <1>7. CASE adaptor \in Gathering
    <2>1. FoldStep /\ Gather /\ UNCHANGED forwardVars /\ UNCHANGED readVars /\ pc = "poll"
      BY <1>2, <1>7 DEF ForwardStep, FoldStep, ReadStep, TryAll, TryAny, TryCollect, TryConcat, Gathering
    <2>2. GatherPart /\ NotReading
      BY <1>7, GatheringThem
    <2>3. GatherFrame
      BY <1>1, <1>7, <2>1 DEF GatherFrame
    <2>5. GatherPart'
      BY <2>1, <2>2, <2>3, GatherMoves
    <2>6. (GatherPart /\ NotReading)'
      BY <1>3, <2>1, <2>2, <2>5
    <2>7. (adaptor \in Gathering => (ConsumerInv <=> GatherPart /\ NotReading))'
      BY GatheringThem, PTL
    <2> QED BY <1>1, <1>7, <2>6, <2>7 DEF Gathering
  <1>8. CASE adaptor = "IntoAsyncRead"
    <2>1. ReadStep /\ UNCHANGED forwardVars /\ UNCHANGED foldVars /\ pc = "poll"
      BY <1>2, <1>8 DEF ForwardStep, FoldStep, ReadStep, TryAll, TryAny, TryCollect, TryConcat
    <2>2. ReadPart /\ FoldTyped
      BY <1>8, Reading
    <2>3. ReadFrame
      BY <1>1, <1>8, <2>1 DEF ReadFrame
    <2>4. ReadPart'
      BY <2>1, <2>2, <2>3, ReadChunkMoves, FillChunkMoves, NextChunkMoves, AtEofMoves DEF ReadStep
    <2>5. (ReadPart /\ FoldTyped)'
      BY <1>4, <2>1, <2>2, <2>4
    <2> QED BY <1>1, <1>8, <2>5, ReadingThen
  <1>9. SourceTypeOK
    BY DEF ConsumerInv, TypeOK
  <1> QED BY <1>5, <1>6, <1>7, <1>8, <1>9, FourKinds

\* A call to the reader, or what its caller consumes.
LEMMA CallerMoves ==
    ASSUME ConsumerInv,
           \/ \E o \in {"read", "fill"}, r \in Sizes \cup {0} : Reader(o, r)
           \/ \E n \in Sizes : ReaderConsumes(n)
    PROVE  ConsumerInv'
  <1>1. UNCHANGED setup /\ UNCHANGED adaptor /\ UNCHANGED forwardVars /\ UNCHANGED foldVars /\ UNCHANGED over
    BY DEF Reader, Call, CallPoll, ReaderConsumes, Consume, setup
  <1>2. adaptor = "IntoAsyncRead"
    <2>1. CASE \E n \in Sizes : ReaderConsumes(n)
      <3>1. PICK n \in Sizes : n \in 1 .. lent
        BY <2>1 DEF ReaderConsumes, Consume
      <3>2. lent # 0
        BY <3>1
      <3> QED BY <3>2 DEF ConsumerInv, Shape
    <2> QED BY <2>1 DEF Reader
  <1>3. ReadPart /\ FoldTyped
    BY <1>2, Reading
  <1>4. CASE \E o \in {"read", "fill"}, r \in Sizes \cup {0} : Reader(o, r)
    <2>1. PICK o \in {"read", "fill"}, r \in Sizes \cup {0} : Reader(o, r)
      BY <1>4
    <2>2. ReadPart'
      BY <1>1, <1>3, <2>1, CallMoves DEF Reader
    <2> QED BY <1>1, <1>2, <1>3, <2>2, ReadingThen DEF FoldTyped, foldVars
  <1>5. CASE \E n \in Sizes : ReaderConsumes(n)
    <2>1. PICK n \in Sizes : ReaderConsumes(n)
      BY <1>5
    <2>2. n \in Nat
      BY SourceAssumption
    <2>3. ReadPart'
      BY <1>1, <1>3, <2>1, <2>2, ConsumeMoves DEF ReaderConsumes
    <2> QED BY <1>1, <1>2, <1>3, <2>3, ReadingThen DEF FoldTyped, foldVars
  <1> QED BY <1>4, <1>5

\* ... and after every step.
LEMMA ConsumersStep == ConsumerInv /\ [Next]_vars => ConsumerInv'
  <1> SUFFICES ASSUME ConsumerInv, [Next]_vars PROVE ConsumerInv'
    OBVIOUS
  <1>1. CASE Poll
    BY <1>1, PollMoves
  <1>2. CASE (\E r \in Sizes : Reader("read", r)) \/ Reader("fill", 0) \/ \E n \in Sizes : ReaderConsumes(n)
    BY <1>2, CallerMoves
  <1>3. CASE Step
    BY <1>3, StepMoves
  <1>4. CASE PartyWakes("source") \/ PartyWakes("future") \/ PartyWakes("sink")
    BY <1>4, WakesMoves
  <1>5. CASE UNCHANGED vars
    BY <1>5, NothingMoves
  <1> QED BY <1>1, <1>2, <1>3, <1>4, <1>5 DEF Next

-----------------------------------------------------------------------------
(* The theorems *)

\* The consumers never leave their inductive invariant: where poll is, what is in
\* hand and what was delivered agree with the entries the source has given (all
\* poll functions).
THEOREM ConsumersCorrect == Spec => []ConsumerInv
  BY ConsumersInit, ConsumersStep, PTL DEF Spec

\* Every variable keeps its type: no more than one item waits for the sink, no
\* more is flushed than was sent, and the place in a chunk lies within it
\* (try_forward, into_async_read).
THEOREM TypeCorrect == Spec => []TypeOK
  <1>1. ConsumerInv => TypeOK
    BY DEF ConsumerInv
  <1> QED BY <1>1, ConsumersCorrect, PTL

\* What was delivered is what the source gave: in the sink, in the verdict of
\* try_all and try_any, in the collection, and byte by byte from the reader; and
\* a poll panics when, and only when, is_terminated had said there was nothing
\* left to poll for (all poll functions).
THEOREM DeliveredStaysRight == Spec => []DeliveredRight
  <1>1. ConsumerInv => DeliveredRight
    <2> SUFFICES ASSUME ConsumerInv PROVE DeliveredRight
      OBVIOUS
    <2>1. SourceTypeOK
      BY DEF ConsumerInv, TypeOK
    <2>2. pc = "idle" /\ adaptor \in {"TryForward", "TryAll", "TryAny"} => (over <=> ret = "Panic")
      BY DEF ConsumerInv, OverKept, Guarded
    <2>3. CASE adaptor = "TryForward"
      BY <2>2, <2>3 DEF ConsumerInv, DeliveredRight
    <2>4. CASE adaptor = "TryAll"
      BY <2>2, <2>4 DEF ConsumerInv, FoldShape, DeliveredRight, Folding, GoesOn, AtOnce, AtEnd
    <2>5. CASE adaptor = "TryAny"
      BY <2>2, <2>5 DEF ConsumerInv, FoldShape, DeliveredRight, Folding, GoesOn, AtOnce, AtEnd
    <2>6. CASE adaptor \in {"TryCollect", "TryConcat"}
      <3>1. AllGathered
        BY <2>6 DEF ConsumerInv, Gathering
      <3>2. Lists(result \o accum) => ListsSinceError(result \o accum)
        BY DEF Lists, ListsSinceError
      <3>3. GatheredRight
        BY <3>1, <3>2 DEF AllGathered, GatheredRight
      <3> QED BY <2>2, <2>6, <3>3 DEF DeliveredRight
    <2>7. CASE adaptor = "IntoAsyncRead"
      BY <2>2, <2>7 DEF ConsumerInv, ReadShape, DeliveredRight
    <2> QED BY <2>1, <2>3, <2>4, <2>5, <2>6, <2>7, FourKinds DEF Folding, Gathering
  <1> QED BY <1>1, ConsumersCorrect, PTL

\* A poll that has answered "pending" has left the task's waker with the party it
\* waits for, and try_forward leaves nothing it has sent to a flush nobody will
\* ask for (all poll functions).
THEOREM WakersHeld == Spec => []PendingHasWaker
  <1>1. ConsumerInv => PendingHasWaker
    BY DEF ConsumerInv
  <1> QED BY <1>1, ConsumersCorrect, PTL
=============================================================================
