----------------------- MODULE FlattenUnorderedProofs -----------------------
(***************************************************************************)
(* Proofs about FlattenUnordered, for any number of inner streams, waker   *)
(* threads and consumers, and any bounds.                                  *)
(***************************************************************************)
EXTENDS FlattenUnordered, FiniteSetTheorems, TLAPS

\* An inner stream that waits to be polled is in one place: it holds its
\* task's waker, or a thread is enqueueing it, or it is ready.
Places ==
    /\ \A s \in Streams : armed[s] => s \in bucket \ ready
    /\ \A w \in Wakers : wpc[w] = "enqueue" =>
          /\ wstream[w] \in bucket \ ready
          /\ ~armed[wstream[w]]
          /\ \A v \in Wakers : wpc[v] = "enqueue" /\ wstream[v] = wstream[w] => v = w
    /\ bucket \cap unused = {}

\* The POLLING bit is set while poll_next is past start_polling.
PollingPhase == "polling" \in state <=> pc \in {"replace", "base", "inner", "set", "finish"}

\* Until the cells are filled nobody holds a wrapped waker.
Unarmed ==
    cell = NoConsumer =>
        /\ pc \in {"idle", "start", "replace"}
        /\ ~baseArmed /\ ~registered
        /\ \A s \in Streams : ~armed[s]
        /\ \A w \in Wakers : wpc[w] = "idle"

PollerKnown == pc # "idle" => last \in Consumers

\* Once poll_next has taken an item, it takes no other.
ItemTaken == nextItem # NoStream => pc = "finish" \/ (pc = "inner" /\ "inner" \notin value)

LimitKept == IsFiniteSet(bucket) /\ AtMostLimit

\* The inductive invariant.
PhasesInv ==
    /\ TypeOK /\ Places
    /\ PollingPhase /\ StopWakingAssert
    /\ Unarmed /\ PollerKnown
    /\ ItemTaken
    /\ LimitKept

-----------------------------------------------------------------------------
LEMMA InitPhases == Init => PhasesInv
  <1> SUFFICES ASSUME Init PROVE PhasesInv
    OBVIOUS
  <1> USE FlattenAssumption DEF Init
  <1>1. TypeOK
    <2>1. /\ limit \in Limits /\ base \in {"pending", "ready", "ended"}
          /\ inner \in [Streams -> {"pending", "ready"}]
      OBVIOUS
    <2>2. errors \in 0 .. MaxErrors /\ panics \in 0 .. MaxPanics /\ left \in [Streams -> 0 .. MaxItems]
      OBVIOUS
    <2> QED BY <2>1, <2>2 DEF TypeOK, NeedToPollAll
  <1>2. Places /\ PollingPhase /\ StopWakingAssert /\ Unarmed /\ PollerKnown /\ ItemTaken
    BY DEF Places, PollingPhase, StopWakingAssert, Unarmed, PollerKnown, ItemTaken
  <1>3. LimitKept
    BY FS_EmptySet DEF LimitKept, AtMostLimit
  <1> QED BY <1>1, <1>2, <1>3 DEF PhasesInv

\* Types, where Places says that only a stream of the set is enqueued.
LEMMA TypeStep ==
    ASSUME TypeOK, Places, [Next]_vars
    PROVE  TypeOK'
  <1> USE FlattenAssumption DEF TypeOK, NeedToPollAll, pollVars, setVars, baseVars, innerVars, wakerVars
  <1>1. ASSUME NEW w \in Wakers, BaseReady(w) PROVE TypeOK'
    <2>1. /\ wpc' \in [Wakers -> {"idle", "enqueue", "take", "start", "read", "stop", "wake"}]
          /\ wflag' \in [Wakers -> {"inner", "stream"}]
      <3>1. CASE baseArmed
        BY <1>1, <3>1 DEF BaseReady, CallWake
      <3>2. CASE ~baseArmed
        BY <1>1, <3>2 DEF BaseReady
      <3> QED BY <3>1, <3>2
    <2>2. /\ base' = "ready" /\ baseArmed' \in BOOLEAN
          /\ UNCHANGED <<limit, state, cell, last, notified, pollVars, done, setVars, unused,
                         errors, innerVars, ret, wstream, wcell>>
      BY <1>1, Zenon DEF BaseReady
    <2> QED BY <2>1, <2>2
  <1>2. ASSUME NEW w \in Wakers, SpuriousWake(w) PROVE TypeOK'
    BY <1>2 DEF SpuriousWake, CallWake
  <1>3. ASSUME NEW w \in Wakers, Enqueue(w) PROVE TypeOK'
    BY <1>3 DEF Enqueue, Places
  <1>4. ASSUME NEW w \in Wakers, TakeRegistered(w) PROVE TypeOK'
    <2>1. /\ wpc' \in [Wakers -> {"idle", "enqueue", "take", "start", "read", "stop", "wake"}]
          /\ wflag' \in [Wakers -> {"inner", "stream"}]
      <3>1. CASE registered
        BY <1>4, <3>1 DEF TakeRegistered, CallWake
      <3>2. CASE ~registered
        BY <1>4, <3>2 DEF TakeRegistered
      <3> QED BY <3>1, <3>2
    <2>2. /\ registered' \in BOOLEAN
          /\ UNCHANGED <<limit, state, cell, last, notified, pollVars, done, bucket, ready,
                         baseVars, innerVars, ret, wstream, wcell>>
      BY <1>4, Zenon DEF TakeRegistered
    <2> QED BY <2>1, <2>2
  <1>5. ASSUME NEW w \in Wakers, StartWaking(w) PROVE TypeOK'
    <2>1. /\ wpc' \in [Wakers -> {"idle", "enqueue", "take", "start", "read", "stop", "wake"}]
          /\ state' \subseteq {"inner", "stream", "polling", "waking", "woken"}
      BY <1>5 DEF StartWaking
    <2> QED BY <1>5, <2>1 DEF StartWaking
  <1>6. ASSUME NEW w \in Wakers, ReadCell(w) PROVE TypeOK'
    BY <1>6 DEF ReadCell
  <1>7. ASSUME NEW w \in Wakers, StopWaking(w) PROVE TypeOK'
    BY <1>7 DEF StopWaking
  <1>8. ASSUME NEW w \in Wakers, WakeConsumer(w) PROVE TypeOK'
    <2>1. notified' \in [Consumers -> BOOLEAN]
      BY <1>8, Zenon DEF WakeConsumer
    <2>2. /\ wpc' \in [Wakers -> {"idle", "enqueue", "take", "start", "read", "stop", "wake"}]
          /\ wcell' \in [Wakers -> Consumers \cup {NoConsumer}]
      BY <1>8 DEF WakeConsumer
    <2> QED BY <1>8, <2>1, <2>2 DEF WakeConsumer
  <1>9. ASSUME NEW s \in Streams, NEW w \in Wakers, InnerReady(s, w) PROVE TypeOK'
    BY <1>9 DEF InnerReady
  <1>10. ASSUME NEW c \in Consumers, Poll(c) PROVE TypeOK'
    BY <1>10 DEF Poll
  <1>11. CASE StartPolling
    BY <1>11 DEF StartPolling
  <1>12. CASE ReplaceWaker
    BY <1>12 DEF ReplaceWaker
  <1>13. CASE BaseSkipped
    BY <1>13 DEF BaseSkipped, Exceeded
  <1>14. ASSUME NEW s \in Streams, BaseStream(s) PROVE TypeOK'
    BY <1>14 DEF BaseStream, BaseAnswers, BasePolled, Exceeded
  <1>15. CASE BaseError
    BY <1>15 DEF BaseError, BaseAnswers, BasePolled, Exceeded
  <1>16. CASE BaseEnd
    BY <1>16 DEF BaseEnd, BasePolled
  <1>17. CASE BasePending
    BY <1>17 DEF BasePending, BasePolled
  <1>18. CASE InnerSkipped
    BY <1>18 DEF InnerSkipped
  <1>19. CASE InnerRegister
    BY <1>19 DEF InnerRegister
  <1>20. ASSUME NEW s \in Streams, InnerItem(s) PROVE TypeOK'
    BY <1>20 DEF InnerItem, InnerAnswers
  <1>21. ASSUME NEW s \in Streams, InnerEnd(s) PROVE TypeOK'
    BY <1>21 DEF InnerEnd, InnerAnswers
  <1>22. ASSUME NEW s \in Streams, InnerPending(s) PROVE TypeOK'
    <2>1. /\ state' \subseteq {"inner", "stream", "polling", "waking", "woken"}
          /\ pc' \in {"idle", "start", "replace", "base", "inner", "set", "finish"}
          /\ armed' \in [Streams -> BOOLEAN]
      BY <1>22 DEF InnerPending
    <2> QED BY <1>22, <2>1 DEF InnerPending
  <1>23. CASE InnerNone
    BY <1>23 DEF InnerNone
  <1>24. CASE InnerInconsistent
    BY <1>24 DEF InnerInconsistent
  <1>25. CASE Finish
    BY <1>25 DEF Finish, Stopped, ForceWake, Exceeded, Kind
  <1>26. CASE Panic
    BY <1>26 DEF Panic, BasePolled
  <1>27. CASE UNCHANGED vars
    BY <1>27 DEF vars
  <1> QED BY <1>1, <1>2, <1>3, <1>4, <1>5, <1>6, <1>7, <1>8, <1>9, <1>10, <1>11,
           <1>12, <1>13, <1>14, <1>15, <1>16, <1>17, <1>18, <1>19, <1>20, <1>21,
           <1>22, <1>23, <1>24, <1>25, <1>26, <1>27 DEF Next, PollStep, InnerStep,
           Waker

\* The places of the inner streams.
LEMMA PlacesStep ==
    ASSUME TypeOK, Places, [Next]_vars
    PROVE  Places'
  <1> USE FlattenAssumption DEF TypeOK, Places, pollVars, setVars, baseVars, innerVars, wakerVars
  <1>1. ASSUME NEW w \in Wakers, BaseReady(w) PROVE Places'
    BY <1>1 DEF BaseReady, CallWake
  <1>2. ASSUME NEW w \in Wakers, SpuriousWake(w) PROVE Places'
    BY <1>2 DEF SpuriousWake, CallWake
  <1>3. ASSUME NEW w \in Wakers, Enqueue(w) PROVE Places'
    BY <1>3 DEF Enqueue
  <1>4. ASSUME NEW w \in Wakers, TakeRegistered(w) PROVE Places'
    BY <1>4 DEF TakeRegistered, CallWake
  <1>5. ASSUME NEW w \in Wakers, StartWaking(w) PROVE Places'
    BY <1>5 DEF StartWaking
  <1>6. ASSUME NEW w \in Wakers, ReadCell(w) PROVE Places'
    BY <1>6 DEF ReadCell
  <1>7. ASSUME NEW w \in Wakers, StopWaking(w) PROVE Places'
    BY <1>7 DEF StopWaking
  <1>8. ASSUME NEW w \in Wakers, WakeConsumer(w) PROVE Places'
    BY <1>8 DEF WakeConsumer
  <1>9. ASSUME NEW s \in Streams, NEW w \in Wakers, InnerReady(s, w) PROVE Places'
    BY <1>9 DEF InnerReady
  <1>10. ASSUME NEW c \in Consumers, Poll(c) PROVE Places'
    BY <1>10 DEF Poll
  <1>11. CASE StartPolling
    BY <1>11 DEF StartPolling
  <1>12. CASE ReplaceWaker
    BY <1>12 DEF ReplaceWaker
  <1>13. CASE BaseSkipped
    BY <1>13 DEF BaseSkipped, Exceeded
  <1>14. ASSUME NEW s \in Streams, BaseStream(s) PROVE Places'
    BY <1>14 DEF BaseStream, BaseAnswers, BasePolled, Exceeded
  <1>15. CASE BaseError
    BY <1>15 DEF BaseError, BaseAnswers, BasePolled, Exceeded
  <1>16. CASE BaseEnd
    BY <1>16 DEF BaseEnd, BasePolled
  <1>17. CASE BasePending
    BY <1>17 DEF BasePending, BasePolled
  <1>18. CASE InnerSkipped
    BY <1>18 DEF InnerSkipped
  <1>19. CASE InnerRegister
    BY <1>19 DEF InnerRegister
  <1>20. ASSUME NEW s \in Streams, InnerItem(s) PROVE Places'
    BY <1>20 DEF InnerItem, InnerAnswers
  <1>21. ASSUME NEW s \in Streams, InnerEnd(s) PROVE Places'
    BY <1>21 DEF InnerEnd, InnerAnswers
  <1>22. ASSUME NEW s \in Streams, InnerPending(s) PROVE Places'
    BY <1>22 DEF InnerPending
  <1>23. CASE InnerNone
    BY <1>23 DEF InnerNone
  <1>24. CASE InnerInconsistent
    BY <1>24 DEF InnerInconsistent
  <1>25. CASE Finish
    BY <1>25 DEF Finish, Stopped, ForceWake, Exceeded, Kind
  <1>26. CASE Panic
    BY <1>26 DEF Panic, BasePolled
  <1>27. CASE UNCHANGED vars
    BY <1>27 DEF vars
  <1> QED BY <1>1, <1>2, <1>3, <1>4, <1>5, <1>6, <1>7, <1>8, <1>9, <1>10, <1>11,
           <1>12, <1>13, <1>14, <1>15, <1>16, <1>17, <1>18, <1>19, <1>20, <1>21,
           <1>22, <1>23, <1>24, <1>25, <1>26, <1>27 DEF Next, PollStep, InnerStep,
           Waker

\* The phases: POLLING and WAKING exclude each other, and there is one waker at most.
LEMMA PhaseStep ==
    ASSUME TypeOK, PollingPhase, StopWakingAssert, [Next]_vars
    PROVE  PollingPhase' /\ StopWakingAssert'
  <1> USE FlattenAssumption DEF TypeOK, NeedToPollAll, PollingPhase, StopWakingAssert,
          pollVars, setVars, baseVars, innerVars, wakerVars
  <1>1. ASSUME NEW w \in Wakers, BaseReady(w) PROVE PollingPhase' /\ StopWakingAssert'
    BY <1>1 DEF BaseReady, CallWake
  <1>2. ASSUME NEW w \in Wakers, SpuriousWake(w) PROVE PollingPhase' /\ StopWakingAssert'
    BY <1>2 DEF SpuriousWake, CallWake
  <1>3. ASSUME NEW w \in Wakers, Enqueue(w) PROVE PollingPhase' /\ StopWakingAssert'
    BY <1>3 DEF Enqueue
  <1>4. ASSUME NEW w \in Wakers, TakeRegistered(w) PROVE PollingPhase' /\ StopWakingAssert'
    BY <1>4 DEF TakeRegistered, CallWake
  <1>5. ASSUME NEW w \in Wakers, StartWaking(w) PROVE PollingPhase' /\ StopWakingAssert'
    BY <1>5 DEF StartWaking
  <1>6. ASSUME NEW w \in Wakers, ReadCell(w) PROVE PollingPhase' /\ StopWakingAssert'
    BY <1>6 DEF ReadCell
  <1>7. ASSUME NEW w \in Wakers, StopWaking(w) PROVE PollingPhase' /\ StopWakingAssert'
    BY <1>7 DEF StopWaking
  <1>8. ASSUME NEW w \in Wakers, WakeConsumer(w) PROVE PollingPhase' /\ StopWakingAssert'
    BY <1>8 DEF WakeConsumer
  <1>9. ASSUME NEW s \in Streams, NEW w \in Wakers, InnerReady(s, w) PROVE PollingPhase' /\ StopWakingAssert'
    BY <1>9 DEF InnerReady
  <1>10. ASSUME NEW c \in Consumers, Poll(c) PROVE PollingPhase' /\ StopWakingAssert'
    BY <1>10 DEF Poll
  <1>11. CASE StartPolling
    BY <1>11 DEF StartPolling
  <1>12. CASE ReplaceWaker
    BY <1>12 DEF ReplaceWaker
  <1>13. CASE BaseSkipped
    BY <1>13 DEF BaseSkipped, Exceeded
  <1>14. ASSUME NEW s \in Streams, BaseStream(s) PROVE PollingPhase' /\ StopWakingAssert'
    BY <1>14 DEF BaseStream, BaseAnswers, BasePolled, Exceeded
  <1>15. CASE BaseError
    BY <1>15 DEF BaseError, BaseAnswers, BasePolled, Exceeded
  <1>16. CASE BaseEnd
    BY <1>16 DEF BaseEnd, BasePolled
  <1>17. CASE BasePending
    BY <1>17 DEF BasePending, BasePolled
  <1>18. CASE InnerSkipped
    BY <1>18 DEF InnerSkipped
  <1>19. CASE InnerRegister
    BY <1>19 DEF InnerRegister
  <1>20. ASSUME NEW s \in Streams, InnerItem(s) PROVE PollingPhase' /\ StopWakingAssert'
    BY <1>20 DEF InnerItem, InnerAnswers
  <1>21. ASSUME NEW s \in Streams, InnerEnd(s) PROVE PollingPhase' /\ StopWakingAssert'
    BY <1>21 DEF InnerEnd, InnerAnswers
  <1>22. ASSUME NEW s \in Streams, InnerPending(s) PROVE PollingPhase' /\ StopWakingAssert'
    BY <1>22 DEF InnerPending
  <1>23. CASE InnerNone
    BY <1>23 DEF InnerNone
  <1>24. CASE InnerInconsistent
    BY <1>24 DEF InnerInconsistent
  <1>25. CASE Finish
    BY <1>25 DEF Finish, Stopped, ForceWake, Exceeded, Kind
  <1>26. CASE Panic
    BY <1>26 DEF Panic, BasePolled
  <1>27. CASE UNCHANGED vars
    BY <1>27 DEF vars
  <1> QED BY <1>1, <1>2, <1>3, <1>4, <1>5, <1>6, <1>7, <1>8, <1>9, <1>10, <1>11,
           <1>12, <1>13, <1>14, <1>15, <1>16, <1>17, <1>18, <1>19, <1>20, <1>21,
           <1>22, <1>23, <1>24, <1>25, <1>26, <1>27 DEF Next, PollStep, InnerStep,
           Waker

\* The cells are filled before anybody can read them.
LEMMA UnarmedStep ==
    ASSUME TypeOK, Unarmed, PollerKnown, [Next]_vars
    PROVE  Unarmed' /\ PollerKnown'
  <1> USE FlattenAssumption DEF TypeOK, Unarmed, PollerKnown, pollVars, setVars, baseVars, innerVars, wakerVars
  <1>1. ASSUME NEW w \in Wakers, BaseReady(w) PROVE Unarmed' /\ PollerKnown'
    BY <1>1 DEF BaseReady, CallWake
  <1>2. ASSUME NEW w \in Wakers, SpuriousWake(w) PROVE Unarmed' /\ PollerKnown'
    BY <1>2 DEF SpuriousWake, CallWake
  <1>3. ASSUME NEW w \in Wakers, Enqueue(w) PROVE Unarmed' /\ PollerKnown'
    BY <1>3 DEF Enqueue
  <1>4. ASSUME NEW w \in Wakers, TakeRegistered(w) PROVE Unarmed' /\ PollerKnown'
    BY <1>4 DEF TakeRegistered, CallWake
  <1>5. ASSUME NEW w \in Wakers, StartWaking(w) PROVE Unarmed' /\ PollerKnown'
    BY <1>5 DEF StartWaking
  <1>6. ASSUME NEW w \in Wakers, ReadCell(w) PROVE Unarmed' /\ PollerKnown'
    BY <1>6 DEF ReadCell
  <1>7. ASSUME NEW w \in Wakers, StopWaking(w) PROVE Unarmed' /\ PollerKnown'
    BY <1>7 DEF StopWaking
  <1>8. ASSUME NEW w \in Wakers, WakeConsumer(w) PROVE Unarmed' /\ PollerKnown'
    BY <1>8 DEF WakeConsumer
  <1>9. ASSUME NEW s \in Streams, NEW w \in Wakers, InnerReady(s, w) PROVE Unarmed' /\ PollerKnown'
    BY <1>9 DEF InnerReady
  <1>10. ASSUME NEW c \in Consumers, Poll(c) PROVE Unarmed' /\ PollerKnown'
    BY <1>10 DEF Poll
  <1>11. CASE StartPolling
    BY <1>11 DEF StartPolling
  <1>12. CASE ReplaceWaker
    BY <1>12 DEF ReplaceWaker
  <1>13. CASE BaseSkipped
    BY <1>13 DEF BaseSkipped, Exceeded
  <1>14. ASSUME NEW s \in Streams, BaseStream(s) PROVE Unarmed' /\ PollerKnown'
    BY <1>14 DEF BaseStream, BaseAnswers, BasePolled, Exceeded
  <1>15. CASE BaseError
    BY <1>15 DEF BaseError, BaseAnswers, BasePolled, Exceeded
  <1>16. CASE BaseEnd
    BY <1>16 DEF BaseEnd, BasePolled
  <1>17. CASE BasePending
    BY <1>17 DEF BasePending, BasePolled
  <1>18. CASE InnerSkipped
    BY <1>18 DEF InnerSkipped
  <1>19. CASE InnerRegister
    BY <1>19 DEF InnerRegister
  <1>20. ASSUME NEW s \in Streams, InnerItem(s) PROVE Unarmed' /\ PollerKnown'
    BY <1>20 DEF InnerItem, InnerAnswers
  <1>21. ASSUME NEW s \in Streams, InnerEnd(s) PROVE Unarmed' /\ PollerKnown'
    BY <1>21 DEF InnerEnd, InnerAnswers
  <1>22. ASSUME NEW s \in Streams, InnerPending(s) PROVE Unarmed' /\ PollerKnown'
    BY <1>22 DEF InnerPending
  <1>23. CASE InnerNone
    BY <1>23 DEF InnerNone
  <1>24. CASE InnerInconsistent
    BY <1>24 DEF InnerInconsistent
  <1>25. CASE Finish
    BY <1>25 DEF Finish, Stopped, ForceWake, Exceeded, Kind
  <1>26. CASE Panic
    BY <1>26 DEF Panic, BasePolled
  <1>27. CASE UNCHANGED vars
    BY <1>27 DEF vars
  <1> QED BY <1>1, <1>2, <1>3, <1>4, <1>5, <1>6, <1>7, <1>8, <1>9, <1>10, <1>11,
           <1>12, <1>13, <1>14, <1>15, <1>16, <1>17, <1>18, <1>19, <1>20, <1>21,
           <1>22, <1>23, <1>24, <1>25, <1>26, <1>27 DEF Next, PollStep, InnerStep,
           Waker

\* An item taken is kept.
LEMMA ItemStep ==
    ASSUME TypeOK, ItemTaken, [Next]_vars
    PROVE  ItemTaken'
  <1> USE FlattenAssumption DEF TypeOK, ItemTaken, pollVars, setVars, baseVars, innerVars, wakerVars
  <1>1. ASSUME NEW w \in Wakers, BaseReady(w) PROVE ItemTaken'
    BY <1>1 DEF BaseReady, CallWake
  <1>2. ASSUME NEW w \in Wakers, SpuriousWake(w) PROVE ItemTaken'
    BY <1>2 DEF SpuriousWake, CallWake
  <1>3. ASSUME NEW w \in Wakers, Enqueue(w) PROVE ItemTaken'
    BY <1>3 DEF Enqueue
  <1>4. ASSUME NEW w \in Wakers, TakeRegistered(w) PROVE ItemTaken'
    BY <1>4 DEF TakeRegistered, CallWake
  <1>5. ASSUME NEW w \in Wakers, StartWaking(w) PROVE ItemTaken'
    BY <1>5 DEF StartWaking
  <1>6. ASSUME NEW w \in Wakers, ReadCell(w) PROVE ItemTaken'
    BY <1>6 DEF ReadCell
  <1>7. ASSUME NEW w \in Wakers, StopWaking(w) PROVE ItemTaken'
    BY <1>7 DEF StopWaking
  <1>8. ASSUME NEW w \in Wakers, WakeConsumer(w) PROVE ItemTaken'
    BY <1>8 DEF WakeConsumer
  <1>9. ASSUME NEW s \in Streams, NEW w \in Wakers, InnerReady(s, w) PROVE ItemTaken'
    BY <1>9 DEF InnerReady
  <1>10. ASSUME NEW c \in Consumers, Poll(c) PROVE ItemTaken'
    BY <1>10 DEF Poll
  <1>11. CASE StartPolling
    BY <1>11 DEF StartPolling
  <1>12. CASE ReplaceWaker
    BY <1>12 DEF ReplaceWaker
  <1>13. CASE BaseSkipped
    BY <1>13 DEF BaseSkipped, Exceeded
  <1>14. ASSUME NEW s \in Streams, BaseStream(s) PROVE ItemTaken'
    BY <1>14 DEF BaseStream, BaseAnswers, BasePolled, Exceeded
  <1>15. CASE BaseError
    BY <1>15 DEF BaseError, BaseAnswers, BasePolled, Exceeded
  <1>16. CASE BaseEnd
    BY <1>16 DEF BaseEnd, BasePolled
  <1>17. CASE BasePending
    BY <1>17 DEF BasePending, BasePolled
  <1>18. CASE InnerSkipped
    BY <1>18 DEF InnerSkipped
  <1>19. CASE InnerRegister
    BY <1>19 DEF InnerRegister
  <1>20. ASSUME NEW s \in Streams, InnerItem(s) PROVE ItemTaken'
    BY <1>20 DEF InnerItem, InnerAnswers
  <1>21. ASSUME NEW s \in Streams, InnerEnd(s) PROVE ItemTaken'
    BY <1>21 DEF InnerEnd, InnerAnswers
  <1>22. ASSUME NEW s \in Streams, InnerPending(s) PROVE ItemTaken'
    BY <1>22 DEF InnerPending
  <1>23. CASE InnerNone
    BY <1>23 DEF InnerNone
  <1>24. CASE InnerInconsistent
    BY <1>24 DEF InnerInconsistent
  <1>25. CASE Finish
    BY <1>25 DEF Finish, Stopped, ForceWake, Exceeded, Kind
  <1>26. CASE Panic
    BY <1>26 DEF Panic, BasePolled
  <1>27. CASE UNCHANGED vars
    BY <1>27 DEF vars
  <1> QED BY <1>1, <1>2, <1>3, <1>4, <1>5, <1>6, <1>7, <1>8, <1>9, <1>10, <1>11,
           <1>12, <1>13, <1>14, <1>15, <1>16, <1>17, <1>18, <1>19, <1>20, <1>21,
           <1>22, <1>23, <1>24, <1>25, <1>26, <1>27 DEF Next, PollStep, InnerStep,
           Waker

\* A stream that leaves the bucket does not break the limit.
LEMMA BucketShrinks ==
    ASSUME TypeOK, LimitKept, limit' = limit, NEW s, bucket' = bucket \ {s}
    PROVE  LimitKept'
  <1> USE FlattenAssumption DEF TypeOK, LimitKept, AtMostLimit
  <1>1. IsFiniteSet(bucket') /\ Cardinality(bucket) \in Nat
    BY FS_RemoveElement, FS_CardinalityType
  <1>2. Cardinality(bucket') \in Nat
    BY <1>1, FS_CardinalityType
  <1>3. Cardinality(bucket') <= Cardinality(bucket)
    BY <1>1, FS_RemoveElement
  <1> QED BY <1>1, <1>2, <1>3

\* The limit on inner streams.
LEMMA LimitStep ==
    ASSUME TypeOK, LimitKept, [Next]_vars
    PROVE  LimitKept'
  <1> USE FlattenAssumption DEF TypeOK, LimitKept, AtMostLimit, pollVars, setVars, baseVars, innerVars, wakerVars
  <1>1. ASSUME NEW w \in Wakers, BaseReady(w) PROVE LimitKept'
    BY <1>1 DEF BaseReady, CallWake
  <1>2. ASSUME NEW w \in Wakers, SpuriousWake(w) PROVE LimitKept'
    BY <1>2 DEF SpuriousWake, CallWake
  <1>3. ASSUME NEW w \in Wakers, Enqueue(w) PROVE LimitKept'
    BY <1>3 DEF Enqueue
  <1>4. ASSUME NEW w \in Wakers, TakeRegistered(w) PROVE LimitKept'
    BY <1>4 DEF TakeRegistered, CallWake
  <1>5. ASSUME NEW w \in Wakers, StartWaking(w) PROVE LimitKept'
    BY <1>5 DEF StartWaking
  <1>6. ASSUME NEW w \in Wakers, ReadCell(w) PROVE LimitKept'
    BY <1>6 DEF ReadCell
  <1>7. ASSUME NEW w \in Wakers, StopWaking(w) PROVE LimitKept'
    BY <1>7 DEF StopWaking
  <1>8. ASSUME NEW w \in Wakers, WakeConsumer(w) PROVE LimitKept'
    BY <1>8 DEF WakeConsumer
  <1>9. ASSUME NEW s \in Streams, NEW w \in Wakers, InnerReady(s, w) PROVE LimitKept'
    BY <1>9 DEF InnerReady
  <1>10. ASSUME NEW c \in Consumers, Poll(c) PROVE LimitKept'
    BY <1>10 DEF Poll
  <1>11. CASE StartPolling
    BY <1>11 DEF StartPolling
  <1>12. CASE ReplaceWaker
    BY <1>12 DEF ReplaceWaker
  <1>13. CASE BaseSkipped
    BY <1>13 DEF BaseSkipped, Exceeded
  <1>14. ASSUME NEW s \in Streams, BaseStream(s) PROVE LimitKept'
    <2>1. limit \in Nat /\ limit' = limit /\ bucket' = bucket \cup {s}
      BY <1>14 DEF BaseStream
    <2>2. ~(limit > 0 /\ Cardinality(bucket) >= limit)
      BY <1>14 DEF BaseStream, BaseAnswers, BasePolled, Exceeded
    <2>3. IsFiniteSet(bucket') /\ Cardinality(bucket) \in Nat
      BY <2>1, FS_AddElement, FS_CardinalityType
    <2>4. Cardinality(bucket') <= Cardinality(bucket) + 1
      BY <2>1, <2>3, FS_AddElement
    <2>5. Cardinality(bucket') \in Nat
      BY <2>3, FS_CardinalityType
    <2> QED BY <2>1, <2>2, <2>3, <2>4, <2>5
  <1>15. CASE BaseError
    BY <1>15 DEF BaseError, BaseAnswers, BasePolled, Exceeded
  <1>16. CASE BaseEnd
    BY <1>16 DEF BaseEnd, BasePolled
  <1>17. CASE BasePending
    BY <1>17 DEF BasePending, BasePolled
  <1>18. CASE InnerSkipped
    BY <1>18 DEF InnerSkipped
  <1>19. CASE InnerRegister
    BY <1>19 DEF InnerRegister
  <1>20. ASSUME NEW s \in Streams, InnerItem(s) PROVE LimitKept'
    BY <1>20 DEF InnerItem, InnerAnswers
  <1>21. ASSUME NEW s \in Streams, InnerEnd(s) PROVE LimitKept'
    <2>1. limit' = limit /\ bucket' = bucket \ {s}
      BY <1>21 DEF InnerEnd
    <2> QED BY <2>1, BucketShrinks
  <1>22. ASSUME NEW s \in Streams, InnerPending(s) PROVE LimitKept'
    BY <1>22 DEF InnerPending
  <1>23. CASE InnerNone
    BY <1>23 DEF InnerNone
  <1>24. CASE InnerInconsistent
    BY <1>24 DEF InnerInconsistent
  <1>25. CASE Finish
    BY <1>25 DEF Finish, Stopped, ForceWake, Exceeded, Kind
  <1>26. CASE Panic
    <2>1. limit' = limit /\ (bucket' = bucket \/ \E s \in Streams : bucket' = bucket \ {s})
      BY <1>26 DEF Panic
    <2>2. CASE bucket' = bucket
      BY <2>1, <2>2
    <2>3. CASE \E s \in Streams : bucket' = bucket \ {s}
      BY <2>1, <2>3, BucketShrinks
    <2> QED BY <2>1, <2>2, <2>3
  <1>27. CASE UNCHANGED vars
    BY <1>27 DEF vars
  <1> QED BY <1>1, <1>2, <1>3, <1>4, <1>5, <1>6, <1>7, <1>8, <1>9, <1>10, <1>11,
           <1>12, <1>13, <1>14, <1>15, <1>16, <1>17, <1>18, <1>19, <1>20, <1>21,
           <1>22, <1>23, <1>24, <1>25, <1>26, <1>27 DEF Next, PollStep, InnerStep,
           Waker

-----------------------------------------------------------------------------
(* The wake-ups *)

\* From the moment the cells are filled until the next poll they hold the waker
\* of the consumer that polled last.
CellLast == pc \in {"idle", "base", "inner", "set", "finish"} => cell = last

\* A waker in the waking phase uses what the cell holds, and the phase lasts as
\* long as it.
WakingHeld ==
    /\ \A w \in Wakers : wpc[w] = "stop" => wcell[w] = cell
    /\ "waking" \in state => \E w \in Wakers : wpc[w] \in {"read", "stop"}

\* Whoever is "woken" between two polls has been, or is about to be.
WokenTold ==
    pc = "idle" /\ ret.kind = "Pending" /\ "woken" \in state =>
        notified[last] \/ \E w \in Wakers : wpc[w] = "wake" /\ wcell[w] = last

\* A flag that asks for more than the limit forbids comes with "woken" or "waking".
FlagTold ==
    /\ pc = "idle" /\ ret.kind = "Pending"
    /\ ("stream" \in state /\ ~Exceeded) \/ "inner" \in state
    => state \cap {"woken", "waking"} # {}

\* poll_next's locals are only used while it runs.
LocalsUnused ==
    /\ pc \in {"idle", "start"} => value = {}
    /\ pc \in {"idle", "start", "replace"} => need = {}

\* Somewhere it is recorded that streams of this kind are to be polled.
Asked(flag, phases) ==
    \/ flag \in state \/ flag \in need
    \/ pc \in phases /\ flag \in value
    \/ \E w \in Wakers : wpc[w] = "start" /\ wflag[w] = flag

\* The base stream has ended, holds a waker, or is to be polled.
BaseCovered ==
    /\ base = "ended" <=> done
    /\ baseArmed => base = "pending"
    /\ base = "ended" \/ baseArmed \/ Asked("stream", {"replace", "base"})

\* The set of the inner streams is empty, holds a waker, or is to be polled; and
\* if a stream is ready somebody knows.
InnerCovered ==
    /\ bucket = {} \/ registered \/ Asked("inner", {"replace", "base", "inner"})
    /\ ready = {} \/ pc = "set" \/ Asked("inner", {"replace", "base", "inner"})
          \/ \E w \in Wakers : wpc[w] = "take" /\ registered

\* The inductive invariant of the wake-ups.
WakingInv ==
    /\ PhasesInv
    /\ CellLast /\ WakingHeld /\ WokenTold
    /\ LocalsUnused /\ FlagTold
    /\ BaseCovered /\ InnerCovered

-----------------------------------------------------------------------------
\* The initial states have nobody to wake.
LEMMA InitWaking == Init => WakingInv
  <1> SUFFICES ASSUME Init PROVE WakingInv
    OBVIOUS
  <1>1. PhasesInv
    BY InitPhases
  <1>2. CellLast /\ WakingHeld /\ WokenTold /\ LocalsUnused /\ FlagTold /\ BaseCovered /\ InnerCovered
    BY FlattenAssumption DEF Init, CellLast, WakingHeld, WokenTold, LocalsUnused, FlagTold,
       BaseCovered, InnerCovered, Asked
  <1> QED BY <1>1, <1>2 DEF WakingInv

\* The cell, and who reads it.
LEMMA CellStep ==
    ASSUME TypeOK, PollingPhase, StopWakingAssert, CellLast, WakingHeld, [Next]_vars
    PROVE  CellLast' /\ WakingHeld'
  <1> USE FlattenAssumption DEF TypeOK, NeedToPollAll, PollingPhase, StopWakingAssert,
          CellLast, WakingHeld, pollVars, setVars, baseVars, innerVars, wakerVars
  <1>1. ASSUME NEW w \in Wakers, BaseReady(w) PROVE CellLast' /\ WakingHeld'
    BY <1>1 DEF BaseReady, CallWake
  <1>2. ASSUME NEW w \in Wakers, SpuriousWake(w) PROVE CellLast' /\ WakingHeld'
    BY <1>2 DEF SpuriousWake, CallWake
  <1>3. ASSUME NEW w \in Wakers, Enqueue(w) PROVE CellLast' /\ WakingHeld'
    BY <1>3 DEF Enqueue
  <1>4. ASSUME NEW w \in Wakers, TakeRegistered(w) PROVE CellLast' /\ WakingHeld'
    BY <1>4 DEF TakeRegistered, CallWake
  <1>5. ASSUME NEW w \in Wakers, StartWaking(w) PROVE CellLast' /\ WakingHeld'
    BY <1>5 DEF StartWaking
  <1>6. ASSUME NEW w \in Wakers, ReadCell(w) PROVE CellLast' /\ WakingHeld'
    BY <1>6 DEF ReadCell
  <1>7. ASSUME NEW w \in Wakers, StopWaking(w) PROVE CellLast' /\ WakingHeld'
    BY <1>7 DEF StopWaking
  <1>8. ASSUME NEW w \in Wakers, WakeConsumer(w) PROVE CellLast' /\ WakingHeld'
    BY <1>8 DEF WakeConsumer
  <1>9. ASSUME NEW s \in Streams, NEW w \in Wakers, InnerReady(s, w) PROVE CellLast' /\ WakingHeld'
    BY <1>9 DEF InnerReady
  <1>10. ASSUME NEW c \in Consumers, Poll(c) PROVE CellLast' /\ WakingHeld'
    BY <1>10 DEF Poll
  <1>11. CASE StartPolling
    BY <1>11 DEF StartPolling
  <1>12. CASE ReplaceWaker
    BY <1>12 DEF ReplaceWaker
  <1>13. CASE BaseSkipped
    BY <1>13 DEF BaseSkipped, Exceeded
  <1>14. ASSUME NEW s \in Streams, BaseStream(s) PROVE CellLast' /\ WakingHeld'
    BY <1>14 DEF BaseStream, BaseAnswers, BasePolled, Exceeded
  <1>15. CASE BaseError
    BY <1>15 DEF BaseError, BaseAnswers, BasePolled, Exceeded
  <1>16. CASE BaseEnd
    BY <1>16 DEF BaseEnd, BasePolled
  <1>17. CASE BasePending
    BY <1>17 DEF BasePending, BasePolled
  <1>18. CASE InnerSkipped
    BY <1>18 DEF InnerSkipped
  <1>19. CASE InnerRegister
    BY <1>19 DEF InnerRegister
  <1>20. ASSUME NEW s \in Streams, InnerItem(s) PROVE CellLast' /\ WakingHeld'
    BY <1>20 DEF InnerItem, InnerAnswers
  <1>21. ASSUME NEW s \in Streams, InnerEnd(s) PROVE CellLast' /\ WakingHeld'
    BY <1>21 DEF InnerEnd, InnerAnswers
  <1>22. ASSUME NEW s \in Streams, InnerPending(s) PROVE CellLast' /\ WakingHeld'
    BY <1>22 DEF InnerPending
  <1>23. CASE InnerNone
    BY <1>23 DEF InnerNone
  <1>24. CASE InnerInconsistent
    BY <1>24 DEF InnerInconsistent
  <1>25. CASE Finish
    BY <1>25 DEF Finish, Stopped, ForceWake, Exceeded, Kind
  <1>26. CASE Panic
    BY <1>26 DEF Panic, BasePolled
  <1>27. CASE UNCHANGED vars
    BY <1>27 DEF vars
  <1> QED BY <1>1, <1>2, <1>3, <1>4, <1>5, <1>6, <1>7, <1>8, <1>9, <1>10, <1>11,
           <1>12, <1>13, <1>14, <1>15, <1>16, <1>17, <1>18, <1>19, <1>20, <1>21,
           <1>22, <1>23, <1>24, <1>25, <1>26, <1>27 DEF Next, PollStep, InnerStep,
           Waker

\* What "woken" and the flags say between two polls.
LEMMA ToldStep ==
    ASSUME TypeOK, PollingPhase, Unarmed, PollerKnown, CellLast, WakingHeld, WokenTold, FlagTold,
           LocalsUnused, [Next]_vars
    PROVE  WokenTold' /\ FlagTold'
  <1> USE FlattenAssumption DEF TypeOK, NeedToPollAll, PollingPhase, Unarmed, PollerKnown,
          CellLast, WakingHeld, WokenTold, FlagTold, LocalsUnused, Exceeded, pollVars, setVars, baseVars, innerVars, wakerVars
  <1>1. ASSUME NEW w \in Wakers, BaseReady(w) PROVE WokenTold' /\ FlagTold'
    BY <1>1 DEF BaseReady, CallWake
  <1>2. ASSUME NEW w \in Wakers, SpuriousWake(w) PROVE WokenTold' /\ FlagTold'
    BY <1>2 DEF SpuriousWake, CallWake
  <1>3. ASSUME NEW w \in Wakers, Enqueue(w) PROVE WokenTold' /\ FlagTold'
    BY <1>3 DEF Enqueue
  <1>4. ASSUME NEW w \in Wakers, TakeRegistered(w) PROVE WokenTold' /\ FlagTold'
    BY <1>4 DEF TakeRegistered, CallWake
  <1>5. ASSUME NEW w \in Wakers, StartWaking(w) PROVE WokenTold' /\ FlagTold'
    BY <1>5 DEF StartWaking
  <1>6. ASSUME NEW w \in Wakers, ReadCell(w) PROVE WokenTold' /\ FlagTold'
    BY <1>6 DEF ReadCell
  <1>7. ASSUME NEW w \in Wakers, StopWaking(w) PROVE WokenTold' /\ FlagTold'
    BY <1>7 DEF StopWaking
  <1>8. ASSUME NEW w \in Wakers, WakeConsumer(w) PROVE WokenTold' /\ FlagTold'
    BY <1>8 DEF WakeConsumer
  <1>9. ASSUME NEW s \in Streams, NEW w \in Wakers, InnerReady(s, w) PROVE WokenTold' /\ FlagTold'
    BY <1>9 DEF InnerReady
  <1>10. ASSUME NEW c \in Consumers, Poll(c) PROVE WokenTold' /\ FlagTold'
    BY <1>10 DEF Poll
  <1>11. CASE StartPolling
    BY <1>11 DEF StartPolling
  <1>12. CASE ReplaceWaker
    BY <1>12 DEF ReplaceWaker
  <1>13. CASE BaseSkipped
    BY <1>13 DEF BaseSkipped, Exceeded
  <1>14. ASSUME NEW s \in Streams, BaseStream(s) PROVE WokenTold' /\ FlagTold'
    BY <1>14 DEF BaseStream, BaseAnswers, BasePolled, Exceeded
  <1>15. CASE BaseError
    BY <1>15 DEF BaseError, BaseAnswers, BasePolled, Exceeded
  <1>16. CASE BaseEnd
    BY <1>16 DEF BaseEnd, BasePolled
  <1>17. CASE BasePending
    BY <1>17 DEF BasePending, BasePolled
  <1>18. CASE InnerSkipped
    BY <1>18 DEF InnerSkipped
  <1>19. CASE InnerRegister
    BY <1>19 DEF InnerRegister
  <1>20. ASSUME NEW s \in Streams, InnerItem(s) PROVE WokenTold' /\ FlagTold'
    BY <1>20 DEF InnerItem, InnerAnswers
  <1>21. ASSUME NEW s \in Streams, InnerEnd(s) PROVE WokenTold' /\ FlagTold'
    BY <1>21 DEF InnerEnd, InnerAnswers
  <1>22. ASSUME NEW s \in Streams, InnerPending(s) PROVE WokenTold' /\ FlagTold'
    BY <1>22 DEF InnerPending
  <1>23. CASE InnerNone
    BY <1>23 DEF InnerNone
  <1>24. CASE InnerInconsistent
    BY <1>24 DEF InnerInconsistent
  <1>25. CASE Finish
    BY <1>25 DEF Finish, Stopped, ForceWake, Exceeded, Kind
  <1>26. CASE Panic
    BY <1>26 DEF Panic, BasePolled
  <1>27. CASE UNCHANGED vars
    BY <1>27 DEF vars
  <1> QED BY <1>1, <1>2, <1>3, <1>4, <1>5, <1>6, <1>7, <1>8, <1>9, <1>10, <1>11,
           <1>12, <1>13, <1>14, <1>15, <1>16, <1>17, <1>18, <1>19, <1>20, <1>21,
           <1>22, <1>23, <1>24, <1>25, <1>26, <1>27 DEF Next, PollStep, InnerStep,
           Waker

\* What is to be polled stays on record.
LEMMA AskedStep ==
    ASSUME TypeOK, Places, LocalsUnused, BaseCovered, InnerCovered, [Next]_vars
    PROVE  LocalsUnused' /\ BaseCovered' /\ InnerCovered'
  <1> USE FlattenAssumption DEF TypeOK, NeedToPollAll, Places, LocalsUnused, BaseCovered, InnerCovered,
          Asked, pollVars, setVars, baseVars, innerVars, wakerVars
  <1>1. ASSUME NEW w \in Wakers, BaseReady(w) PROVE LocalsUnused' /\ BaseCovered' /\ InnerCovered'
    BY <1>1 DEF BaseReady, CallWake
  <1>2. ASSUME NEW w \in Wakers, SpuriousWake(w) PROVE LocalsUnused' /\ BaseCovered' /\ InnerCovered'
    BY <1>2 DEF SpuriousWake, CallWake
  <1>3. ASSUME NEW w \in Wakers, Enqueue(w) PROVE LocalsUnused' /\ BaseCovered' /\ InnerCovered'
    BY <1>3 DEF Enqueue
  <1>4. ASSUME NEW w \in Wakers, TakeRegistered(w) PROVE LocalsUnused' /\ BaseCovered' /\ InnerCovered'
    BY <1>4 DEF TakeRegistered, CallWake
  <1>5. ASSUME NEW w \in Wakers, StartWaking(w) PROVE LocalsUnused' /\ BaseCovered' /\ InnerCovered'
    BY <1>5 DEF StartWaking
  <1>6. ASSUME NEW w \in Wakers, ReadCell(w) PROVE LocalsUnused' /\ BaseCovered' /\ InnerCovered'
    BY <1>6 DEF ReadCell
  <1>7. ASSUME NEW w \in Wakers, StopWaking(w) PROVE LocalsUnused' /\ BaseCovered' /\ InnerCovered'
    BY <1>7 DEF StopWaking
  <1>8. ASSUME NEW w \in Wakers, WakeConsumer(w) PROVE LocalsUnused' /\ BaseCovered' /\ InnerCovered'
    BY <1>8 DEF WakeConsumer
  <1>9. ASSUME NEW s \in Streams, NEW w \in Wakers, InnerReady(s, w) PROVE LocalsUnused' /\ BaseCovered' /\ InnerCovered'
    BY <1>9 DEF InnerReady
  <1>10. ASSUME NEW c \in Consumers, Poll(c) PROVE LocalsUnused' /\ BaseCovered' /\ InnerCovered'
    BY <1>10 DEF Poll
  <1>11. CASE StartPolling
    BY <1>11 DEF StartPolling
  <1>12. CASE ReplaceWaker
    BY <1>12 DEF ReplaceWaker
  <1>13. CASE BaseSkipped
    BY <1>13 DEF BaseSkipped, Exceeded
  <1>14. ASSUME NEW s \in Streams, BaseStream(s) PROVE LocalsUnused' /\ BaseCovered' /\ InnerCovered'
    BY <1>14 DEF BaseStream, BaseAnswers, BasePolled, Exceeded
  <1>15. CASE BaseError
    BY <1>15 DEF BaseError, BaseAnswers, BasePolled, Exceeded
  <1>16. CASE BaseEnd
    BY <1>16 DEF BaseEnd, BasePolled
  <1>17. CASE BasePending
    BY <1>17 DEF BasePending, BasePolled
  <1>18. CASE InnerSkipped
    BY <1>18 DEF InnerSkipped
  <1>19. CASE InnerRegister
    BY <1>19 DEF InnerRegister
  <1>20. ASSUME NEW s \in Streams, InnerItem(s) PROVE LocalsUnused' /\ BaseCovered' /\ InnerCovered'
    BY <1>20 DEF InnerItem, InnerAnswers
  <1>21. ASSUME NEW s \in Streams, InnerEnd(s) PROVE LocalsUnused' /\ BaseCovered' /\ InnerCovered'
    BY <1>21 DEF InnerEnd, InnerAnswers
  <1>22. ASSUME NEW s \in Streams, InnerPending(s) PROVE LocalsUnused' /\ BaseCovered' /\ InnerCovered'
    BY <1>22 DEF InnerPending
  <1>23. CASE InnerNone
    BY <1>23 DEF InnerNone
  <1>24. CASE InnerInconsistent
    BY <1>24 DEF InnerInconsistent
  <1>25. CASE Finish
    BY <1>25 DEF Finish, Stopped, ForceWake, Exceeded, Kind
  <1>26. CASE Panic
    BY <1>26 DEF Panic, BasePolled
  <1>27. CASE UNCHANGED vars
    BY <1>27 DEF vars
  <1> QED BY <1>1, <1>2, <1>3, <1>4, <1>5, <1>6, <1>7, <1>8, <1>9, <1>10, <1>11,
           <1>12, <1>13, <1>14, <1>15, <1>16, <1>17, <1>18, <1>19, <1>20, <1>21,
           <1>22, <1>23, <1>24, <1>25, <1>26, <1>27 DEF Next, PollStep, InnerStep,
           Waker
-----------------------------------------------------------------------------
(* The results *)

\* The inductive invariant holds for ever (all of flatten_unordered.rs).
THEOREM PhasesCorrect == Spec => []PhasesInv
  <1>1. PhasesInv /\ [Next]_vars => PhasesInv'
    BY TypeStep, PlacesStep, PhaseStep, UnarmedStep, ItemStep, LimitStep DEF PhasesInv
  <1> QED BY <1>1, InitPhases, PTL DEF Spec

\* Every variable keeps its type; in particular the ready-to-run queue of the
\* inner set never holds a stream that has ended (poll_next, WrappedWaker).
THEOREM TypeCorrect == Spec => []TypeOK
  <1>1. PhasesInv => TypeOK
    BY DEF PhasesInv
  <1> QED BY <1>1, PhasesCorrect, PTL

\* A waker clones the cell only while poll_next does not replace it, and finds it
\* filled (replace_waker, wake_by_ref).
THEOREM CellsExclusive == Spec => []CellExclusive
  <1>1. PhasesInv => CellExclusive
    <2> SUFFICES ASSUME PhasesInv, NEW w \in Wakers, wpc[w] = "read"
                 PROVE  pc # "replace" /\ cell # NoConsumer
      BY DEF CellExclusive
    <2>1. pc # "replace"
      BY DEF PhasesInv, StopWakingAssert, PollingPhase
    <2>2. cell # NoConsumer
      BY DEF PhasesInv, Unarmed
    <2> QED BY <2>1, <2>2
  <1> QED BY <1>1, PhasesCorrect, PTL

\* The debug_assert of stop_waking never fails, and one waker at most is in the
\* waking phase (start_waking, stop_waking).
THEOREM OneWaker == Spec => []StopWakingAssert
  <1>1. PhasesInv => StopWakingAssert
    BY DEF PhasesInv
  <1> QED BY <1>1, PhasesCorrect, PTL

\* The limit on inner streams holds (is_exceeded_limit, poll_next).
THEOREM LimitHolds == Spec => []AtMostLimit
  <1>1. PhasesInv => AtMostLimit
    BY DEF PhasesInv, LimitKept
  <1> QED BY <1>1, PhasesCorrect, PTL

\* An item that poll_next has taken is what it returns (poll_next).
THEOREM ItemsKept == Spec => ItemKept
  <1>1. PhasesInv /\ [Next]_vars =>
           [nextItem # NoStream /\ nextItem' # nextItem
               => nextItem' = NoStream /\ ret' = [kind |-> "Item", item |-> nextItem]]_vars
    <2> SUFFICES ASSUME PhasesInv, [Next]_vars, nextItem # NoStream, nextItem' # nextItem
                 PROVE  nextItem' = NoStream /\ ret' = [kind |-> "Item", item |-> nextItem]
      OBVIOUS
    <2> USE DEF PhasesInv, TypeOK, ItemTaken, pollVars
    <2>1. ASSUME NEW w \in Wakers, BaseReady(w) PROVE FALSE
      BY <2>1 DEF BaseReady, CallWake
    <2>2. ASSUME NEW w \in Wakers, SpuriousWake(w) PROVE FALSE
      BY <2>2 DEF SpuriousWake, CallWake
    <2>3. ASSUME NEW w \in Wakers, Enqueue(w) PROVE FALSE
      BY <2>3 DEF Enqueue
    <2>4. ASSUME NEW w \in Wakers, TakeRegistered(w) PROVE FALSE
      BY <2>4 DEF TakeRegistered, CallWake
    <2>5. ASSUME NEW w \in Wakers, StartWaking(w) PROVE FALSE
      BY <2>5 DEF StartWaking
    <2>6. ASSUME NEW w \in Wakers, ReadCell(w) PROVE FALSE
      BY <2>6 DEF ReadCell
    <2>7. ASSUME NEW w \in Wakers, StopWaking(w) PROVE FALSE
      BY <2>7 DEF StopWaking
    <2>8. ASSUME NEW w \in Wakers, WakeConsumer(w) PROVE FALSE
      BY <2>8 DEF WakeConsumer
    <2>9. ASSUME NEW s \in Streams, NEW w \in Wakers, InnerReady(s, w) PROVE FALSE
      BY <2>9 DEF InnerReady
    <2>10. ASSUME NEW c \in Consumers, Poll(c) PROVE FALSE
      BY <2>10 DEF Poll
    <2>11. ASSUME StartPolling PROVE FALSE
      BY <2>11 DEF StartPolling
    <2>12. ASSUME ReplaceWaker PROVE FALSE
      BY <2>12 DEF ReplaceWaker
    <2>13. ASSUME BaseSkipped PROVE FALSE
      BY <2>13 DEF BaseSkipped, Exceeded
    <2>14. ASSUME NEW s \in Streams, BaseStream(s) PROVE FALSE
      BY <2>14 DEF BaseStream, BaseAnswers, BasePolled, Exceeded
    <2>15. ASSUME BaseError PROVE FALSE
      BY <2>15 DEF BaseError, BaseAnswers, BasePolled, Exceeded
    <2>16. ASSUME BaseEnd PROVE FALSE
      BY <2>16 DEF BaseEnd, BasePolled
    <2>17. ASSUME BasePending PROVE FALSE
      BY <2>17 DEF BasePending, BasePolled
    <2>18. ASSUME InnerSkipped PROVE FALSE
      BY <2>18 DEF InnerSkipped
    <2>19. ASSUME InnerRegister PROVE FALSE
      BY <2>19 DEF InnerRegister
    <2>20. ASSUME NEW s \in Streams, InnerItem(s) PROVE FALSE
      BY <2>20 DEF InnerItem, InnerAnswers
    <2>21. ASSUME NEW s \in Streams, InnerEnd(s) PROVE FALSE
      BY <2>21 DEF InnerEnd, InnerAnswers
    <2>22. ASSUME NEW s \in Streams, InnerPending(s) PROVE FALSE
      BY <2>22 DEF InnerPending
    <2>23. ASSUME InnerNone PROVE FALSE
      BY <2>23 DEF InnerNone
    <2>24. ASSUME InnerInconsistent PROVE FALSE
      BY <2>24 DEF InnerInconsistent
    <2>25. ASSUME Finish PROVE nextItem' = NoStream /\ ret' = [kind |-> "Item", item |-> nextItem]
      BY <2>25 DEF Finish, Kind
    <2>26. ASSUME Panic PROVE FALSE
      BY <2>26 DEF Panic, BasePolled
    <2>27. ASSUME UNCHANGED vars PROVE FALSE
      BY <2>27 DEF vars
    <2> QED BY <2>1, <2>2, <2>3, <2>4, <2>5, <2>6, <2>7, <2>8, <2>9, <2>10, <2>11,
             <2>12, <2>13, <2>14, <2>15, <2>16, <2>17, <2>18, <2>19, <2>20, <2>21,
             <2>22, <2>23, <2>24, <2>25, <2>26, <2>27 DEF Next, PollStep, InnerStep,
             Waker
  <1> QED BY <1>1, PhasesCorrect, PTL DEF Spec, ItemKept
\* The waking invariant holds for ever (SharedPollState, poll_next, wake_by_ref).
THEOREM WakingCorrect == Spec => []WakingInv
  <1>1. WakingInv /\ [Next]_vars => WakingInv'
    <2> SUFFICES ASSUME WakingInv, [Next]_vars PROVE WakingInv'
      OBVIOUS
    <2>1. PhasesInv'
      BY TypeStep, PlacesStep, PhaseStep, UnarmedStep, ItemStep, LimitStep DEF WakingInv, PhasesInv
    <2>2. CellLast' /\ WakingHeld'
      BY CellStep DEF WakingInv, PhasesInv
    <2>3. WokenTold' /\ FlagTold'
      BY ToldStep DEF WakingInv, PhasesInv
    <2>4. LocalsUnused' /\ BaseCovered' /\ InnerCovered'
      BY AskedStep DEF WakingInv, PhasesInv
    <2> QED BY <2>1, <2>2, <2>3, <2>4 DEF WakingInv
  <1> QED BY <1>1, InitWaking, PTL DEF Spec

\* No wake-up is lost between two polls, whichever threads are in whichever
\* phase of waking (SharedPollState, WrappedWaker, poll_next).
THEOREM WakeupsKept == Spec => []NoLostWakeup
  <1>1. WakingInv => NoLostWakeup
    <2> SUFFICES ASSUME WakingInv, pc = "idle", ret.kind = "Pending", Work
                 PROVE  notified[last] \/ \E w \in Wakers : OnItsWay(w)
      BY DEF NoLostWakeup
    <2> USE DEF WakingInv, PhasesInv
    <2>1. CASE "woken" \in state
      BY <2>1 DEF WokenTold, OnItsWay
    <2>2. CASE "waking" \in state
      BY <2>2 DEF WakingHeld, CellLast, OnItsWay
    <2>3. CASE state \cap {"woken", "waking"} = {}
      <3>1. /\ "inner" \notin state
            /\ "stream" \in state => Exceeded
            /\ need = {} /\ value = {}
        BY <2>3 DEF FlagTold, LocalsUnused
      <3>2. CASE ready # {}
        BY <2>3, <3>1, <3>2 DEF InnerCovered, Asked, OnItsWay
      <3>3. CASE base = "ready" /\ ~Exceeded
        BY <2>3, <3>1, <3>3 DEF BaseCovered, Asked, OnItsWay
      <3> QED BY <3>2, <3>3 DEF Work
    <2> QED BY <2>1, <2>2, <2>3
  <1> QED BY <1>1, WakingCorrect, PTL
=============================================================================
