------------------------ MODULE FuturesOrderedProofs ------------------------
(***************************************************************************)
(* Proofs about FuturesOrdered, for any set of futures: its inductive      *)
(* invariant, and that it implements OrderedQueue.                         *)
(***************************************************************************)
EXTENDS FuturesOrdered, FiniteSetTheorems, TLAPS

\* What makes the count of indices come out right: the two halves of the queue
\* are finite and apart.
Apart ==
    /\ IsFiniteSet(inProgress) /\ IsFiniteSet(outputs) /\ IsFiniteSet(lost)
    /\ inProgress \cap outputs = {}

\* A future is pushed once, and one that panicked is not held.
Once ==
    /\ \A e \in Held : e.data \notin unused \cup lost
    /\ lost \cap unused = {}

\* The inductive invariant.
OrderedInv == TypeOK /\ IndicesExact /\ Apart /\ Once

-----------------------------------------------------------------------------

LEMMA InitOrdered == Init => OrderedInv
  <1> SUFFICES ASSUME Init PROVE OrderedInv
    OBVIOUS
  <1> USE OrderedAssumption DEF Init
  <1>0. innerOver \in BOOLEAN /\ polling \in BOOLEAN
    BY Zenon
  <1>1. TypeOK
    BY <1>0 DEF TypeOK
  <1>3. Apart /\ Once
    BY FS_EmptySet DEF Apart, Once, Held
  <1>2. IndicesExact
    BY FS_EmptySet DEF IndicesExact, LenOf, Held
  <1> QED BY <1>1, <1>2, <1>3 DEF OrderedInv

\* Types, whichever step is taken.
LEMMA TypeStep ==
    ASSUME TypeOK, [Next]_vars
    PROVE  TypeOK'
  <1> USE OrderedAssumption DEF TypeOK, Answer
  <1>1. ASSUME NEW f \in Futures, PushBack(f) PROVE TypeOK'
    <2>1. innerOver' \in BOOLEAN
      BY <1>1, Zenon DEF PushBack
    <2> QED BY <1>1, <2>1 DEF PushBack, Entry
  <1>2. ASSUME NEW f \in Futures, PushFront(f) PROVE TypeOK'
    <2>1. innerOver' \in BOOLEAN
      BY <1>2, Zenon DEF PushFront
    <2> QED BY <1>2, <2>1 DEF PushFront, Entry
  <1>3. ASSUME NEW f \in Futures, Complete(f) PROVE TypeOK'
    BY <1>3 DEF Complete
  <1>4. CASE PollNext
    <2>1. polling' \in BOOLEAN
      BY <1>4, Zenon DEF PollNext
    <2>2. ASSUME NEW e \in outputs, outputs' = outputs \ {e},
                 nextOutgoing' = nextOutgoing + 1,
                 answer' = [kind |-> "Output", data |-> e.data]
          PROVE  TypeOK'
      <3>1. e.data \in Futures
        OBVIOUS
      <3> QED BY <1>4, <2>1, <2>2, <3>1 DEF PollNext
    <2>3. CASE UNCHANGED <<outputs, nextOutgoing, answer>>
      BY <1>4, <2>1, <2>3 DEF PollNext
    <2> QED BY <1>4, <2>2, <2>3, Zenon DEF PollNext
  <1>5. CASE InTurn
    <2>1. polling' \in BOOLEAN
      BY <1>5, Zenon DEF InTurn
    <2>2. PICK e \in inProgress : /\ inProgress' = inProgress \ {e}
                                  /\ nextOutgoing' = nextOutgoing + 1
                                  /\ answer' = [kind |-> "Output", data |-> e.data]
      BY <1>5, Zenon DEF InTurn
    <2>3. e.data \in Futures
      OBVIOUS
    <2> QED BY <1>5, <2>1, <2>2, <2>3 DEF InTurn
  <1>6. CASE TooEarly
    BY <1>6 DEF TooEarly
  <1>7. CASE OnPending
    BY <1>7 DEF OnPending
  <1>8. CASE OnNone
    BY <1>8 DEF OnNone
  <1>9. CASE OnPanic
    BY <1>9 DEF OnPanic
  <1>10. CASE UNCHANGED vars
    BY <1>10 DEF vars
  <1> QED BY <1>1, <1>2, <1>3, <1>4, <1>5, <1>6, <1>7, <1>8, <1>9, <1>10 DEF Next, PollStep

-----------------------------------------------------------------------------
(* The four ways the queue changes *)

\* A future that joins takes the index before or behind the others.
LEMMA Joins ==
    ASSUME OrderedInv, NEW f \in unused, NEW i \in {nextIncoming, nextOutgoing - 1},
           inProgress' = inProgress \cup {Entry(f, i)}, outputs' = outputs, lost' = lost,
           unused' = unused \ {f},
           nextIncoming' = (IF i = nextIncoming THEN nextIncoming + 1 ELSE nextIncoming),
           nextOutgoing' = (IF i = nextIncoming THEN nextOutgoing ELSE nextOutgoing - 1)
    PROVE  IndicesExact' /\ Apart' /\ Once'
  <1> USE DEF OrderedInv
  <1> DEFINE e == Entry(f, i)
  <1>0. /\ nextIncoming \in Int /\ nextOutgoing \in Int /\ f \in Futures /\ i \in Int
        /\ e \in [data : Futures, index : Int] /\ e.data = f /\ e.index = i
    BY DEF TypeOK, Entry
  <1>1. e \notin Held /\ \A d \in Held : d.data # f /\ d.index # i
    BY <1>0 DEF Once, IndicesExact
  <1>2. Held' = Held \cup {e}
    BY DEF Held
  <1>3. /\ IsFiniteSet(inProgress')
        /\ Cardinality(inProgress') = Cardinality(inProgress) + 1
        /\ Cardinality(inProgress) \in Nat
    BY <1>1, FS_AddElement, FS_CardinalityType DEF Apart, Held
  <1>4. Cardinality(outputs) \in Nat /\ Cardinality(lost) \in Nat
    BY FS_CardinalityType DEF Apart
  <1>5. (LenOf + Cardinality(lost) = nextIncoming - nextOutgoing)'
    BY <1>0, <1>3, <1>4 DEF IndicesExact, LenOf
  <1>6. nextOutgoing <= nextIncoming
    BY <1>0, <1>3, <1>4 DEF IndicesExact, LenOf
  <1>7. \A d \in Held' : d.index \in nextOutgoing' .. nextIncoming' - 1
    BY <1>0, <1>2, <1>6 DEF IndicesExact, TypeOK, Held
  <1>8. \A c, d \in Held' : c.index = d.index \/ c.data = d.data => c = d
    BY <1>0, <1>1, <1>2 DEF IndicesExact
  <1>9. Apart'
    BY <1>1, <1>3 DEF Apart, Held
  <1>10. Once'
    BY <1>0, <1>2 DEF Once
  <1> QED BY <1>5, <1>7, <1>8, <1>9, <1>10 DEF IndicesExact

\* What leaves in its turn moves the outgoing index by one.
LEMMA Leaves ==
    ASSUME OrderedInv, NEW e \in Held, e.index = nextOutgoing,
           inProgress' = inProgress \ {e}, outputs' = outputs \ {e}, lost' = lost,
           unused' = unused, nextIncoming' = nextIncoming, nextOutgoing' = nextOutgoing + 1
    PROVE  IndicesExact' /\ Apart' /\ Once'
  <1> USE DEF OrderedInv
  <1>0. nextIncoming \in Int /\ nextOutgoing \in Int /\ Held \subseteq [data : Futures, index : Int]
    BY DEF TypeOK, Held
  <1>1. Held' = Held \ {e}
    BY DEF Held
  <1>2. /\ IsFiniteSet(inProgress') /\ IsFiniteSet(outputs')
        /\ Cardinality(inProgress') + Cardinality(outputs')
              = Cardinality(inProgress) + Cardinality(outputs) - 1
    <2>1. CASE e \in inProgress
      <3>1. outputs' = outputs
        BY <2>1 DEF Apart
      <3>2. /\ IsFiniteSet(inProgress')
            /\ Cardinality(inProgress') = Cardinality(inProgress) - 1
        BY <2>1, FS_RemoveElement DEF Apart
      <3>3. Cardinality(inProgress) \in Nat /\ Cardinality(outputs) \in Nat
        BY FS_CardinalityType DEF Apart
      <3>4. IsFiniteSet(outputs') /\ Cardinality(outputs') = Cardinality(outputs)
        BY <3>1, Zenon DEF Apart
      <3> HIDE DEF OrderedInv
      <3> QED BY <3>2, <3>3, <3>4
    <2>2. CASE e \in outputs
      <3>1. inProgress' = inProgress
        BY <2>2 DEF Apart
      <3> QED BY <2>2, <3>1, FS_RemoveElement, FS_CardinalityType DEF Apart
    <2> QED BY <2>1, <2>2 DEF Held
  <1>3. /\ Cardinality(inProgress) \in Nat /\ Cardinality(outputs) \in Nat
        /\ Cardinality(inProgress') \in Nat /\ Cardinality(outputs') \in Nat
        /\ Cardinality(lost) \in Nat
    BY <1>2, FS_CardinalityType DEF Apart
  <1>4. (LenOf + Cardinality(lost) = nextIncoming - nextOutgoing)'
    BY <1>0, <1>2, <1>3 DEF IndicesExact, LenOf
  <1>5. \A d \in Held' : d.index \in nextOutgoing' .. nextIncoming' - 1
    BY <1>0, <1>1 DEF IndicesExact
  <1>6. \A c, d \in Held' : c.index = d.index \/ c.data = d.data => c = d
    BY <1>1 DEF IndicesExact
  <1>7. Apart' /\ Once'
    BY <1>1, <1>2 DEF Apart, Once
  <1> QED BY <1>4, <1>5, <1>6, <1>7 DEF IndicesExact

\* An output that comes too early changes sides.
LEMMA ChangesSides ==
    ASSUME OrderedInv, NEW e \in inProgress,
           inProgress' = inProgress \ {e}, outputs' = outputs \cup {e}, lost' = lost,
           unused' = unused, nextIncoming' = nextIncoming, nextOutgoing' = nextOutgoing
    PROVE  IndicesExact' /\ Apart' /\ Once'
  <1> USE DEF OrderedInv
  <1>1. Held' = Held
    BY DEF Held
  <1>2. e \notin outputs
    BY DEF Apart
  <1>3. /\ IsFiniteSet(inProgress') /\ IsFiniteSet(outputs')
        /\ Cardinality(inProgress') = Cardinality(inProgress) - 1
        /\ Cardinality(outputs') = Cardinality(outputs) + 1
        /\ Cardinality(inProgress) \in Nat /\ Cardinality(outputs) \in Nat
    BY <1>2, FS_RemoveElement, FS_AddElement, FS_CardinalityType DEF Apart
  <1>4. LenOf' = LenOf
    BY <1>3 DEF LenOf
  <1>5. Apart' /\ Once'
    BY <1>1, <1>3 DEF Apart, Once
  <1> QED BY <1>1, <1>4, <1>5 DEF IndicesExact

\* A future that panics leaves a gap.
LEMMA Vanishes ==
    ASSUME OrderedInv, NEW e \in inProgress,
           inProgress' = inProgress \ {e}, outputs' = outputs, lost' = lost \cup {e.data},
           unused' = unused, nextIncoming' = nextIncoming, nextOutgoing' = nextOutgoing
    PROVE  IndicesExact' /\ Apart' /\ Once'
  <1> USE DEF OrderedInv
  <1>1. Held' = Held \ {e} /\ e \in Held
    BY DEF Held, Apart
  <1>2. e.data \notin lost /\ e.data \notin unused
    BY <1>1 DEF Once
  <1>3. /\ IsFiniteSet(inProgress') /\ IsFiniteSet(lost')
        /\ Cardinality(inProgress') = Cardinality(inProgress) - 1
        /\ Cardinality(lost') = Cardinality(lost) + 1
    BY <1>2, FS_RemoveElement, FS_AddElement DEF Apart
  <1>4. /\ Cardinality(inProgress) \in Nat /\ Cardinality(outputs) \in Nat
        /\ Cardinality(lost) \in Nat
    BY FS_CardinalityType DEF Apart
  <1>5. (LenOf + Cardinality(lost) = nextIncoming - nextOutgoing)'
    BY <1>3, <1>4 DEF IndicesExact, LenOf
  <1>6. Apart'
    BY <1>3 DEF Apart
  <1>7. Once'
    BY <1>1, <1>2 DEF Once, IndicesExact
  <1> QED BY <1>1, <1>5, <1>6, <1>7 DEF IndicesExact

\* Nothing that counts changes.
LEMMA Same ==
    ASSUME OrderedInv,
           UNCHANGED <<inProgress, outputs, nextIncoming, nextOutgoing, unused, lost>>
    PROVE  IndicesExact' /\ Apart' /\ Once'
  <1>1. Held' = Held /\ LenOf' = LenOf
    BY DEF Held, LenOf
  <1> QED BY <1>1 DEF OrderedInv, IndicesExact, Apart, Once

-----------------------------------------------------------------------------

LEMMA OrderedStep ==
    ASSUME OrderedInv, [Next]_vars
    PROVE  OrderedInv'
  <1>0. TypeOK'
    BY TypeStep DEF OrderedInv
  <1> DEFINE Rest == IndicesExact' /\ Apart' /\ Once'
  <1> SUFFICES Rest
    BY <1>0 DEF OrderedInv
  <1>1. ASSUME NEW f \in Futures, PushBack(f) PROVE Rest
    BY <1>1, Joins DEF PushBack
  <1>2. ASSUME NEW f \in Futures, PushFront(f) PROVE Rest
    <2>1. nextOutgoing - 1 # nextIncoming
      BY FS_CardinalityType DEF OrderedInv, IndicesExact, LenOf, Apart, TypeOK
    <2> QED BY <1>2, <2>1, Joins DEF PushFront
  <1>3. CASE PollNext
    <2>0. UNCHANGED <<inProgress, nextIncoming, unused, lost>>
      BY <1>3, Zenon DEF PollNext
    <2>1. ASSUME NEW e \in outputs, e.index = nextOutgoing,
                 outputs' = outputs \ {e}, nextOutgoing' = nextOutgoing + 1
          PROVE  Rest
      <3>1. e \in Held /\ inProgress' = inProgress \ {e}
        BY <2>0 DEF OrderedInv, Apart, Held
      <3> QED BY <2>0, <2>1, <3>1, Leaves
    <2>2. CASE UNCHANGED <<outputs, nextOutgoing>>
      BY <2>0, <2>2, Same
    <2> QED BY <1>3, <2>1, <2>2, Zenon DEF PollNext
  <1>4. CASE InTurn
    <2>1. PICK e \in inProgress : /\ e.index = nextOutgoing
                                  /\ inProgress' = inProgress \ {e}
                                  /\ nextOutgoing' = nextOutgoing + 1
      BY <1>4, Zenon DEF InTurn
    <2>2. UNCHANGED <<outputs, nextIncoming, unused, lost>>
      BY <1>4, Zenon DEF InTurn
    <2>3. e \in Held /\ outputs' = outputs \ {e}
      BY <2>2 DEF OrderedInv, Apart, Held
    <2> QED BY <2>1, <2>2, <2>3, Leaves
  <1>5. CASE TooEarly
    <2>1. PICK e \in inProgress : /\ inProgress' = inProgress \ {e}
                                  /\ outputs' = outputs \cup {e}
      BY <1>5, Zenon DEF TooEarly
    <2>2. UNCHANGED <<nextIncoming, nextOutgoing, unused, lost>>
      BY <1>5, Zenon DEF TooEarly
    <2> QED BY <2>1, <2>2, ChangesSides
  <1>6. CASE OnPanic
    <2>1. PICK e \in inProgress : /\ inProgress' = inProgress \ {e}
                                  /\ lost' = lost \cup {e.data}
      BY <1>6, Zenon DEF OnPanic
    <2>2. UNCHANGED <<outputs, nextIncoming, nextOutgoing, unused>>
      BY <1>6, Zenon DEF OnPanic
    <2> QED BY <2>1, <2>2, Vanishes
  <1>7. CASE UNCHANGED <<inProgress, outputs, nextIncoming, nextOutgoing, unused, lost>>
    BY <1>7, Same
  <1> QED BY <1>0, <1>1, <1>2, <1>3, <1>4, <1>5, <1>6, <1>7
          DEF OrderedInv, Next, PollStep, Complete, OnPending, OnNone, vars

-----------------------------------------------------------------------------
(* The results *)

\* The inductive invariant holds for ever (all of futures_ordered.rs).
THEOREM OrderedCorrect == Spec => []OrderedInv
  <1>1. OrderedInv /\ [Next]_vars => OrderedInv'
    BY OrderedStep
  <1> QED BY <1>1, InitOrdered, PTL DEF Spec

\* Every variable keeps its type (all of futures_ordered.rs).
THEOREM TypeCorrect == Spec => []TypeOK
  <1>1. OrderedInv => TypeOK
    BY DEF OrderedInv
  <1> QED BY <1>1, OrderedCorrect, PTL

\* Whatever is pushed at either end, completes or panics, no two futures share
\* an index and no index is missing but a panic's (push_back, push_front,
\* poll_next, len).
THEOREM IndicesStayExact == Spec => []IndicesExact
  <1>1. OrderedInv => IndicesExact
    BY DEF OrderedInv
  <1> QED BY <1>1, OrderedCorrect, PTL

-----------------------------------------------------------------------------
(* FuturesOrdered implements OrderedQueue *)

\* What the answers rest on: the inner set is over only when it is empty; while
\* poll_next asks it, or it is over, no output is due; outputs are of futures
\* that have completed.
Settled ==
    /\ innerOver => inProgress = {}
    /\ polling \/ innerOver => \A e \in outputs : e.index # nextOutgoing
    /\ \A e \in outputs : e.data \in done

Entries == [data : Futures, index : Int]
Slots == Futures \cup {NoFuture}
Size == nextIncoming - nextOutgoing

-----------------------------------------------------------------------------
(* Settled is an invariant *)

LEMMA InitSettled == Init => Settled
  BY DEF Init, Settled

LEMMA SettledStep ==
    ASSUME OrderedInv, Settled, [Next]_vars
    PROVE  Settled'
  <1> USE DEF Settled
  <1>0. /\ nextOutgoing \in Int
        /\ \A e \in outputs : e.index \in Int
    BY DEF OrderedInv, TypeOK
  <1>1. ASSUME NEW f \in Futures, PushBack(f) PROVE Settled'
    BY <1>1 DEF PushBack
  <1>2. ASSUME NEW f \in Futures, PushFront(f) PROVE Settled'
    BY <1>2 DEF PushFront
  <1>3. ASSUME NEW f \in Futures, Complete(f) PROVE Settled'
    BY <1>3 DEF Complete
  <1>4. CASE PollNext
    <2>0. UNCHANGED <<inProgress, innerOver, done>>
      BY <1>4, Zenon DEF PollNext
    <2>1. ASSUME NEW e \in outputs, e.index = nextOutgoing, outputs' = outputs \ {e},
                 polling' = FALSE
          PROVE  Settled'
      <3>1. innerOver' = FALSE
        BY <2>0, <2>1 DEF OrderedInv, TypeOK
      <3> QED BY <2>0, <2>1, <3>1
    <2>2. ASSUME \A e \in outputs : Top(e) => e.index # nextOutgoing,
                 UNCHANGED <<outputs, nextOutgoing>>
          PROVE  Settled'
      <3>1. ASSUME NEW e \in outputs, e.index = nextOutgoing PROVE FALSE
        <4>1. \A d \in outputs : e.index <= d.index
          BY <1>0, <3>1 DEF OrderedInv, IndicesExact, Held, TypeOK
        <4> QED BY <2>2, <3>1, <4>1 DEF Top
      <3> QED BY <2>0, <2>2, <3>1
    <2> QED BY <1>4, <2>1, <2>2, Zenon DEF PollNext, Answer
  <1>5. CASE InTurn
    <2>1. inProgress # {} /\ polling' = FALSE /\ UNCHANGED <<innerOver, outputs, done>>
      BY <1>5, Zenon DEF InTurn, Answer
    <2> QED BY <2>1
  <1>6. CASE TooEarly
    <2>1. PICK e \in inProgress : /\ e.data \in done /\ e.index # nextOutgoing
                                  /\ outputs' = outputs \cup {e}
      BY <1>6, Zenon DEF TooEarly
    <2>2. UNCHANGED <<innerOver, nextOutgoing, polling, done>> /\ polling
      BY <1>6, Zenon DEF TooEarly
    <2> QED BY <2>1, <2>2
  <1>7. CASE OnPending
    BY <1>7 DEF OnPending, Answer
  <1>8. CASE OnNone
    BY <1>8 DEF OnNone, Answer
  <1>9. CASE OnPanic
    <2>1. inProgress # {} /\ polling' = FALSE
          /\ UNCHANGED <<innerOver, outputs, nextOutgoing, done>>
      BY <1>9, Zenon DEF OnPanic, Answer
    <2> QED BY <2>1
  <1>10. CASE UNCHANGED vars
    BY <1>10 DEF vars
  <1> QED BY <1>1, <1>2, <1>3, <1>4, <1>5, <1>6, <1>7, <1>8, <1>9, <1>10 DEF Next, PollStep

-----------------------------------------------------------------------------
(* What Slot finds *)

LEMMA SlotFinds ==
    ASSUME NEW H \in SUBSET Entries, \A c, d \in H : c.index = d.index => c = d
    PROVE  /\ \A e \in H : Slot(H, e.index) = e.data
           /\ \A k \in Int : (\A e \in H : e.index # k) => Slot(H, k) = NoFuture
           /\ \A k \in Int : Slot(H, k) \in Slots
           /\ \A k \in Int : Slot(H, k) # NoFuture => Entry(Slot(H, k), k) \in H
  <1>1. ASSUME NEW e \in H PROVE Slot(H, e.index) = e.data
    <2>1. e = Entry(e.data, e.index) /\ e.data \in Futures
      BY DEF Entries, Entry
    <2>2. \A f \in Futures : Entry(f, e.index) \in H => f = e.data
      <3> SUFFICES ASSUME NEW f \in Futures, Entry(f, e.index) \in H PROVE f = e.data
        OBVIOUS
      <3>1. Entry(f, e.index).index = e.index /\ Entry(f, e.index).data = f
        BY DEF Entry
      <3> QED BY <3>1
    <2>3. Slot(H, e.index) = CHOOSE f \in Futures : Entry(f, e.index) \in H
      BY DEF Slot
    <2> QED BY <2>1, <2>2, <2>3
  <1>2. ASSUME NEW k \in Int, \A e \in H : e.index # k PROVE Slot(H, k) = NoFuture
    BY <1>2 DEF Slot
  <1>3. ASSUME NEW k \in Int, NEW e \in H, e.index = k
        PROVE  Slot(H, k) \in Slots /\ Entry(Slot(H, k), k) \in H
    <2>1. e = Entry(e.data, k) /\ e.data \in Futures
      BY <1>3 DEF Entries, Entry
    <2> QED BY <1>1, <1>3, <2>1 DEF Slots
  <1> QED BY <1>1, <1>2, <1>3 DEF Slots

\* Where two sets hold the same, Slot finds the same.
LEMMA SlotSame ==
    ASSUME NEW H \in SUBSET Entries, \A c, d \in H : c.index = d.index => c = d,
           NEW G \in SUBSET Entries, \A c, d \in G : c.index = d.index => c = d,
           NEW k \in Int, \A e \in Entries : e.index = k => (e \in H <=> e \in G)
    PROVE  Slot(H, k) = Slot(G, k)
  <1>1. CASE \E e \in H : e.index = k
    BY <1>1, SlotFinds
  <1>2. CASE \A e \in H : e.index # k
    BY <1>2, SlotFinds
  <1> QED BY <1>1, <1>2

\* The facts of a state the steps below use.
OrderRight ==
    /\ Held \in SUBSET Entries
    /\ \A c, d \in Held : c.index = d.index => c = d
    /\ nextOutgoing \in Int /\ nextIncoming \in Int /\ Size \in Nat
    /\ Order \in Seq(Slots) /\ Len(Order) = Size
    /\ \A i \in 1 .. Size : Order[i] = Slot(Held, nextOutgoing + i - 1)

LEMMA OrderFacts == OrderedInv => OrderRight
  <1> SUFFICES ASSUME OrderedInv PROVE OrderRight
    OBVIOUS
  <1>1. /\ Held \in SUBSET Entries
        /\ \A c, d \in Held : c.index = d.index => c = d
        /\ nextOutgoing \in Int /\ nextIncoming \in Int
    BY DEF OrderedInv, TypeOK, IndicesExact, Held, Entries
  <1>2. Size \in Nat
    <2>1. /\ Cardinality(inProgress) \in Nat /\ Cardinality(outputs) \in Nat
          /\ Cardinality(lost) \in Nat
      BY FS_CardinalityType DEF OrderedInv, Apart
    <2> QED BY <2>1 DEF OrderedInv, IndicesExact, LenOf, Size
  <1>3. \A i \in 1 .. Size : Slot(Held, nextOutgoing + i - 1) \in Slots
    BY <1>1, <1>2, SlotFinds DEF Size
  <1>4. Order \in [1 .. Size -> Slots]
    BY <1>3 DEF Order, Size
  <1>5. Order \in Seq(Slots) /\ Len(Order) = Size
    BY <1>2, <1>4
  <1> QED BY <1>1, <1>2, <1>5 DEF Order, Size, OrderRight

LEMMA SameSeq ==
    ASSUME NEW S, NEW s \in Seq(S), NEW t \in Seq(S), Len(s) = Len(t),
           \A i \in 1 .. Len(s) : s[i] = t[i]
    PROVE  s = t
  OBVIOUS

\* They hold before and after a step.
LEMMA OrderFactsStep ==
    OrderedInv /\ [Next]_vars => OrderRight /\ OrderRight'
  <1>1. OrderedInv /\ [Next]_vars => OrderedInv'
    BY OrderedStep
  <1> QED BY <1>1, OrderFacts, PTL

-----------------------------------------------------------------------------
(* The steps *)

\* The queue keeps its slots while it holds the same.
LEMMA OrderSame ==
    ASSUME Held' = Held, nextOutgoing' = nextOutgoing, nextIncoming' = nextIncoming
    PROVE  Order' = Order
  BY DEF Order

\* Nothing in the slots: nothing is held.
LEMMA OrderEmpty ==
    ASSUME OrderedInv
    PROVE  (\A i \in DOMAIN Order : Order[i] = NoFuture) <=> Held = {}
  <1> USE OrderFacts DEF OrderRight
  <1>1. ASSUME NEW e \in Held PROVE \E i \in DOMAIN Order : Order[i] # NoFuture
    <2>1. e.index \in nextOutgoing .. nextIncoming - 1 /\ e.data \in Futures
      BY DEF OrderedInv, IndicesExact, Entries
    <2>2. e.index - nextOutgoing + 1 \in 1 .. Size
      BY <2>1 DEF Size
    <2>3. Order[e.index - nextOutgoing + 1] = Slot(Held, e.index)
      BY <2>1, <2>2
    <2>4. Order[e.index - nextOutgoing + 1] = e.data
      BY <2>3, SlotFinds
    <2> QED BY <2>1, <2>2, <2>4, OrderedAssumption
  <1>2. ASSUME Held = {}, NEW i \in DOMAIN Order PROVE Order[i] = NoFuture
    <2>1. i \in 1 .. Size
      OBVIOUS
    <2> QED BY <1>2, <2>1, SlotFinds
  <1> QED BY <1>1, <1>2

\* Append, prepend and Tail, element by element.
LEMMA AppendSeq ==
    ASSUME NEW S, NEW s \in Seq(S), NEW x \in S
    PROVE  /\ Append(s, x) \in Seq(S) /\ Len(Append(s, x)) = Len(s) + 1
           /\ \A i \in 1 .. Len(s) : Append(s, x)[i] = s[i]
           /\ Append(s, x)[Len(s) + 1] = x
  OBVIOUS

LEMMA PrependSeq ==
    ASSUME NEW S, NEW s \in Seq(S), NEW x \in S
    PROVE  /\ <<x>> \o s \in Seq(S) /\ Len(<<x>> \o s) = Len(s) + 1
           /\ \A i \in 1 .. Len(s) : (<<x>> \o s)[i + 1] = s[i]
           /\ (<<x>> \o s)[1] = x
  OBVIOUS

LEMMA TailSeq ==
    ASSUME NEW S, NEW s \in Seq(S), Len(s) > 0
    PROVE  /\ s # <<>> /\ Head(s) = s[1]
           /\ Tail(s) \in Seq(S) /\ Len(Tail(s)) = Len(s) - 1
           /\ \A i \in 1 .. Len(s) - 1 : Tail(s)[i] = s[i + 1]
  OBVIOUS

LEMMA BackStep ==
    ASSUME OrderedInv, [Next]_vars, NEW f \in Futures, PushBack(f)
    PROVE  Queue!AtBack(f)
  <1> USE OrderFactsStep DEF OrderRight
  <1> DEFINE e == Entry(f, nextIncoming)
  <1>1. /\ Held' = Held \cup {e} /\ e.index = nextIncoming /\ e.data = f
        /\ e \in Entries /\ e \in Held'
        /\ nextOutgoing' = nextOutgoing /\ nextIncoming' = nextIncoming + 1
    BY DEF PushBack, Held, Entry, Entries
  <1>2. Size' = Size + 1
    BY <1>1 DEF Size
  <1>3. /\ Append(Order, f) \in Seq(Slots) /\ Len(Append(Order, f)) = Size + 1
        /\ \A i \in 1 .. Size : Append(Order, f)[i] = Order[i]
        /\ Append(Order, f)[Size + 1] = f
    <2>1. f \in Slots /\ Order \in Seq(Slots) /\ Len(Order) = Size
      BY DEF Slots
    <2> HIDE OrderFactsStep
    <2> QED BY <2>1, AppendSeq
  <1>4. \A i \in 1 .. Size + 1 : Order'[i] = Append(Order, f)[i]
    <2> SUFFICES ASSUME NEW i \in 1 .. Size + 1 PROVE Order'[i] = Append(Order, f)[i]
      OBVIOUS
    <2>0. Order'[i] = Slot(Held', nextOutgoing + i - 1)
      BY <1>1, <1>2
    <2>1. CASE i = Size + 1
      <3>1. nextOutgoing + i - 1 = e.index
        BY <1>1, <2>1 DEF Size
      <3>2. Slot(Held', e.index) = f
        BY <1>1, SlotFinds
      <3> QED BY <2>0, <2>1, <3>1, <3>2, <1>3
    <2>2. CASE i \in 1 .. Size
      <3>1. nextOutgoing + i - 1 # nextIncoming /\ nextOutgoing + i - 1 \in Int
        BY <2>2 DEF Size
      <3>2. Slot(Held', nextOutgoing + i - 1) = Slot(Held, nextOutgoing + i - 1)
        BY <1>1, <3>1, SlotSame
      <3> QED BY <2>0, <2>2, <3>2, <1>3
    <2> QED BY <2>1, <2>2
  <1>5. Order' = Append(Order, f)
    BY <1>2, <1>3, <1>4, SameSeq
  <1>6. IsTerminated' = FALSE
    BY DEF PushBack, IsTerminated
  <1> QED BY <1>5, <1>6 DEF PushBack, Queue!AtBack

LEMMA FrontStep ==
    ASSUME OrderedInv, [Next]_vars, NEW f \in Futures, PushFront(f)
    PROVE  Queue!AtFront(f)
  <1> USE OrderFactsStep DEF OrderRight
  <1> DEFINE e == Entry(f, nextOutgoing - 1)
  <1>1. /\ Held' = Held \cup {e} /\ e.index = nextOutgoing - 1 /\ e.data = f
        /\ e \in Entries /\ e \in Held'
        /\ nextOutgoing' = nextOutgoing - 1 /\ nextIncoming' = nextIncoming
    BY DEF PushFront, Held, Entry, Entries
  <1>2. Size' = Size + 1
    BY <1>1 DEF Size
  <1>3. /\ <<f>> \o Order \in Seq(Slots) /\ Len(<<f>> \o Order) = Size + 1
        /\ \A i \in 1 .. Size : (<<f>> \o Order)[i + 1] = Order[i]
        /\ (<<f>> \o Order)[1] = f
    <2>1. f \in Slots /\ Order \in Seq(Slots) /\ Len(Order) = Size
      BY DEF Slots
    <2> HIDE OrderFactsStep
    <2> QED BY <2>1, PrependSeq
  <1>4. \A i \in 1 .. Size + 1 : Order'[i] = (<<f>> \o Order)[i]
    <2> SUFFICES ASSUME NEW i \in 1 .. Size + 1 PROVE Order'[i] = (<<f>> \o Order)[i]
      OBVIOUS
    <2>0. Order'[i] = Slot(Held', nextOutgoing + i - 2)
      <3>1. nextOutgoing' + i - 1 = nextOutgoing + i - 2
        BY <1>1
      <3>2. Order'[i] = Slot(Held', nextOutgoing' + i - 1)
        BY <1>2
      <3> QED BY <3>1, <3>2, Zenon
    <2>1. CASE i = 1
      <3>1. nextOutgoing + i - 2 = e.index
        BY <1>1, <2>1
      <3>2. Slot(Held', e.index) = f
        BY <1>1, SlotFinds
      <3> QED BY <2>0, <2>1, <3>1, <3>2, <1>3
    <2>2. CASE i - 1 \in 1 .. Size
      <3>1. nextOutgoing + i - 2 # nextOutgoing - 1 /\ nextOutgoing + i - 2 \in Int
        BY <2>2
      <3>2. Slot(Held', nextOutgoing + i - 2) = Slot(Held, nextOutgoing + i - 2)
        <4>1. /\ Held \in SUBSET Entries /\ Held' \in SUBSET Entries
              /\ \A c, d \in Held : c.index = d.index => c = d
              /\ \A c, d \in Held' : c.index = d.index => c = d
          OBVIOUS
        <4>2. \A d \in Entries : d.index = nextOutgoing + i - 2 => (d \in Held' <=> d \in Held)
          BY <1>1, <3>1
        <4> HIDE OrderFactsStep
        <4> QED BY <3>1, <4>1, <4>2, SlotSame
      <3>3. Order[i - 1] = Slot(Held, nextOutgoing + i - 2)
        <4>1. nextOutgoing + (i - 1) - 1 = nextOutgoing + i - 2
          OBVIOUS
        <4>2. Order[i - 1] = Slot(Held, nextOutgoing + (i - 1) - 1)
          BY <2>2
        <4> QED BY <4>1, <4>2, Zenon
      <3>4. (<<f>> \o Order)[i] = Order[i - 1]
        BY <1>3, <2>2
      <3> QED BY <2>0, <3>2, <3>3, <3>4
    <2> QED BY <2>1, <2>2
  <1>5. Order' = <<f>> \o Order
    BY <1>2, <1>3, <1>4, SameSeq
  <1>6. IsTerminated' = FALSE
    BY DEF PushFront, IsTerminated
  <1> QED BY <1>5, <1>6 DEF PushFront, Queue!AtFront

\* What leaves in its turn is the head of the queue.
LEMMA LeavingStep ==
    ASSUME OrderedInv, [Next]_vars, NEW e \in Held, e.index = nextOutgoing,
           Held' = Held \ {e}, nextOutgoing' = nextOutgoing + 1, nextIncoming' = nextIncoming
    PROVE  Order # <<>> /\ Head(Order) = e.data /\ Order' = Tail(Order)
  <1> USE OrderFactsStep DEF OrderRight
  <1>0. e.index \in nextOutgoing .. nextIncoming - 1 /\ e \in Entries
    BY DEF OrderedInv, IndicesExact
  <1>1. Size > 0 /\ Size' = Size - 1
    BY <1>0 DEF Size
  <1>2. /\ Order # <<>> /\ Head(Order) = Order[1]
        /\ Tail(Order) \in Seq(Slots) /\ Len(Tail(Order)) = Size - 1
        /\ \A i \in 1 .. Size - 1 : Tail(Order)[i] = Order[i + 1]
    <2>1. Order \in Seq(Slots) /\ Len(Order) = Size /\ Len(Order) > 0
      BY <1>1
    <2> HIDE OrderFactsStep
    <2> QED BY <2>1, TailSeq
  <1>3. Order[1] = e.data
    <2>1. Order[1] = Slot(Held, nextOutgoing)
      BY <1>1
    <2> QED BY <2>1, SlotFinds
  <1>4. \A i \in 1 .. Size - 1 : Order'[i] = Tail(Order)[i]
    <2> SUFFICES ASSUME NEW i \in 1 .. Size - 1 PROVE Order'[i] = Tail(Order)[i]
      OBVIOUS
    <2>0. i \in 1 .. Size' /\ i + 1 \in 1 .. Size /\ i \in Int
      BY <1>1
    <2>1. Order'[i] = Slot(Held', nextOutgoing + i)
      <3>1. nextOutgoing' + i - 1 = nextOutgoing + i
        BY <2>0
      <3>2. Order'[i] = Slot(Held', nextOutgoing' + i - 1)
        BY <2>0
      <3> QED BY <3>1, <3>2, Zenon
    <2>2. nextOutgoing + i # e.index /\ nextOutgoing + i \in Int
      BY <2>0
    <2>3. Slot(Held', nextOutgoing + i) = Slot(Held, nextOutgoing + i)
      <3>1. /\ Held \in SUBSET Entries /\ Held' \in SUBSET Entries
            /\ \A c, d \in Held : c.index = d.index => c = d
            /\ \A c, d \in Held' : c.index = d.index => c = d
        OBVIOUS
      <3>2. \A d \in Entries : d.index = nextOutgoing + i => (d \in Held' <=> d \in Held)
        BY <2>2
      <3> HIDE OrderFactsStep
      <3> QED BY <2>2, <3>1, <3>2, SlotSame
    <2>4. Order[i + 1] = Slot(Held, nextOutgoing + i)
      <3>1. nextOutgoing + (i + 1) - 1 = nextOutgoing + i
        BY <2>0
      <3>2. Order[i + 1] = Slot(Held, nextOutgoing + (i + 1) - 1)
        BY <2>0
      <3> QED BY <3>1, <3>2, Zenon
    <2> QED BY <1>2, <2>1, <2>3, <2>4
  <1>5. Order' = Tail(Order)
    BY <1>1, <1>2, <1>4, SameSeq
  <1> QED BY <1>2, <1>3, <1>5

LEMMA ExceptSeq ==
    ASSUME NEW S, NEW s \in Seq(S), NEW i \in 1 .. Len(s), NEW x \in S
    PROVE  /\ [s EXCEPT ![i] = x] \in Seq(S) /\ Len([s EXCEPT ![i] = x]) = Len(s)
           /\ \A j \in 1 .. Len(s) : [s EXCEPT ![i] = x][j] = (IF j = i THEN x ELSE s[j])
  OBVIOUS

\* A future that panics leaves a gap where it was.
LEMMA LosingStep ==
    ASSUME OrderedInv, [Next]_vars, NEW e \in Held,
           Held' = Held \ {e}, nextOutgoing' = nextOutgoing, nextIncoming' = nextIncoming
    PROVE  \E i \in DOMAIN Order :
              Order[i] = e.data /\ Order' = [Order EXCEPT ![i] = NoFuture]
  <1> USE OrderFactsStep DEF OrderRight
  <1> DEFINE k == e.index - nextOutgoing + 1
             gap == [Order EXCEPT ![k] = NoFuture]
  <1>0. e.index \in nextOutgoing .. nextIncoming - 1 /\ e \in Entries
    BY DEF OrderedInv, IndicesExact
  <1>1. k \in 1 .. Size /\ Size' = Size
    BY <1>0 DEF Size
  <1>2. Order \in Seq(Slots) /\ Len(Order) = Size /\ NoFuture \in Slots
    BY DEF Slots
  <1>3. /\ gap \in Seq(Slots) /\ Len(gap) = Size
        /\ \A j \in 1 .. Size : gap[j] = (IF j = k THEN NoFuture ELSE Order[j])
    <2> HIDE OrderFactsStep
    <2> QED BY <1>1, <1>2, ExceptSeq
  <1>4. Order[k] = e.data
    <2>1. nextOutgoing + k - 1 = e.index
      BY <1>0
    <2>2. Order[k] = Slot(Held, nextOutgoing + k - 1)
      BY <1>1
    <2>3. Slot(Held, e.index) = e.data
      BY SlotFinds
    <2> QED BY <2>1, <2>2, <2>3, Zenon
  <1>5. \A j \in 1 .. Size : Order'[j] = gap[j]
    <2> SUFFICES ASSUME NEW j \in 1 .. Size PROVE Order'[j] = gap[j]
      OBVIOUS
    <2>1. Order'[j] = Slot(Held', nextOutgoing + j - 1)
      BY <1>1
    <2>2. Order[j] = Slot(Held, nextOutgoing + j - 1)
      OBVIOUS
    <2>3. CASE j = k
      <3>1. nextOutgoing + j - 1 = e.index
        BY <1>0, <2>3
      <3>2. \A d \in Held' : d.index # e.index
        OBVIOUS
      <3>3. Slot(Held', e.index) = NoFuture
        <4>1. /\ Held' \in SUBSET Entries /\ e.index \in Int
              /\ \A c, d \in Held' : c.index = d.index => c = d
          BY <1>0
        <4> HIDE OrderFactsStep
        <4> QED BY <3>2, <4>1, SlotFinds
      <3> QED BY <1>3, <2>1, <2>3, <3>1, <3>3
    <2>4. CASE j # k
      <3>1. nextOutgoing + j - 1 # e.index /\ nextOutgoing + j - 1 \in Int
        BY <1>0, <2>4
      <3>2. Slot(Held', nextOutgoing + j - 1) = Slot(Held, nextOutgoing + j - 1)
        <4>1. /\ Held \in SUBSET Entries /\ Held' \in SUBSET Entries
              /\ \A c, d \in Held : c.index = d.index => c = d
              /\ \A c, d \in Held' : c.index = d.index => c = d
          OBVIOUS
        <4>2. \A d \in Entries : d.index = nextOutgoing + j - 1 => (d \in Held' <=> d \in Held)
          BY <3>1
        <4> HIDE OrderFactsStep
        <4> QED BY <3>1, <4>1, <4>2, SlotSame
      <3> QED BY <1>3, <2>1, <2>2, <2>4, <3>2
    <2> QED BY <2>3, <2>4
  <1>6. Order' = gap
    <2>1. Order' \in Seq(Slots) /\ Len(Order') = Size
      BY <1>1
    <2> HIDE OrderFactsStep DEF gap, OrderRight
    <2> QED BY <1>3, <1>5, <2>1, SameSeq
  <1>7. k \in DOMAIN Order
    BY <1>1, <1>2
  <1> QED BY <1>4, <1>6, <1>7

\* An output leaves, from the heap or straight from the inner set.
LEMMA YieldStep ==
    ASSUME OrderedInv, [Next]_vars, NEW e \in Held, e.index = nextOutgoing,
           Held' = Held \ {e}, nextOutgoing' = nextOutgoing + 1, nextIncoming' = nextIncoming,
           e.data \in done, Answer("Output", e.data), UNCHANGED <<unused, done>>,
           ~innerOver, ~innerOver'
    PROVE  Queue!Yield
  <1>1. Order # <<>> /\ Head(Order) = e.data /\ Order' = Tail(Order)
    BY LeavingStep
  <1>2. IsTerminated' = IsTerminated
    BY DEF IsTerminated
  <1> QED BY <1>1, <1>2 DEF Answer, Queue!Yield

\* The inner set has nothing left.
LEMMA EndStep ==
    ASSUME OrderedInv, Settled, [Next]_vars, OnNone
    PROVE  Queue!End
  <1> USE OrderFacts DEF OrderRight
  <1>1. /\ polling /\ Held = outputs /\ inProgress = {}
        /\ Held' = Held /\ nextOutgoing' = nextOutgoing /\ nextIncoming' = nextIncoming
    BY DEF OnNone, Held
  <1>2. Order' = Order
    BY <1>1, OrderSame
  <1>3. ASSUME Order # <<>> PROVE Head(Order) = NoFuture
    <2>1. Size # 0
      BY <1>3
    <2>2. 1 \in 1 .. Size /\ nextOutgoing + 1 - 1 = nextOutgoing
      BY <2>1
    <2>3. Head(Order) = Slot(Held, nextOutgoing)
      BY <1>3, <2>2
    <2>4. \A e \in Held : e.index # nextOutgoing
      BY <1>1 DEF Settled
    <2>5. Slot(Held, nextOutgoing) = NoFuture
      BY <2>4, SlotFinds
    <2> QED BY <2>3, <2>5
  <1>4. ASSUME NEW i \in DOMAIN Order PROVE Order[i] \in done \cup {NoFuture}
    <2>1. i \in 1 .. Size /\ nextOutgoing + i - 1 \in Int
      OBVIOUS
    <2>2. Order[i] = Slot(Held, nextOutgoing + i - 1)
      BY <2>1
    <2>3. Order[i] # NoFuture => Entry(Order[i], nextOutgoing + i - 1) \in Held
      BY <2>1, <2>2, SlotFinds
    <2>4. Entry(Order[i], nextOutgoing + i - 1).data = Order[i]
      BY DEF Entry
    <2> QED BY <1>1, <2>3, <2>4 DEF Settled
  <1>5. IsTerminated' <=> Held = {}
    BY <1>1 DEF OnNone, IsTerminated
  <1>6. IsTerminated' <=> \A i \in DOMAIN Order : Order[i] = NoFuture
    BY <1>5, OrderEmpty
  <1>7. IsTerminated' = \A i \in DOMAIN Order : Order[i] = NoFuture
    BY <1>6 DEF IsTerminated
  <1> QED BY <1>2, <1>3, <1>4, <1>7, Zenon DEF OnNone, Answer, Queue!End


-----------------------------------------------------------------------------
(* The refinement *)

LEMMA RefineInit == Init => Queue!QueueInit
  <1> SUFFICES ASSUME Init PROVE Queue!QueueInit
    OBVIOUS
  <1>1. nextIncoming - nextOutgoing = 0
    BY DEF Init
  <1>2. Order = <<>>
    BY <1>1 DEF Order
  <1>3. IsTerminated = FALSE
    BY DEF Init, IsTerminated
  <1> QED BY <1>2, <1>3, Zenon DEF Init, Queue!QueueInit

\* Steps that hold on to what they held.
LEMMA StutterStep ==
    ASSUME Held' = Held, nextOutgoing' = nextOutgoing, nextIncoming' = nextIncoming,
           UNCHANGED <<unused, done, answer>>, IsTerminated' = IsTerminated
    PROVE  UNCHANGED Queue!queueVars
  BY OrderSame DEF Queue!queueVars

LEMMA RefineStep ==
    ASSUME OrderedInv, Settled, [Next]_vars
    PROVE  [Queue!QueueNext]_(Queue!queueVars)
  <1> DEFINE Goal == [Queue!QueueNext]_(Queue!queueVars)
  <1>1. ASSUME NEW f \in Futures, PushBack(f) PROVE Goal
    BY <1>1, BackStep DEF Queue!QueueNext
  <1>2. ASSUME NEW f \in Futures, PushFront(f) PROVE Goal
    BY <1>2, FrontStep DEF Queue!QueueNext
  <1>3. ASSUME NEW f \in Futures, Complete(f) PROVE Goal
    <2>1. f \notin unused
      BY <1>3 DEF Complete, OrderedInv, Once, Held
    <2>2. Order' = Order /\ IsTerminated' = IsTerminated
      BY <1>3, OrderSame DEF Complete, Held, IsTerminated
    <2>3. Queue!Completes(f)
      BY <1>3, <2>1, <2>2 DEF Complete, Queue!Completes
    <2> QED BY <2>3 DEF Queue!QueueNext
  <1>4. CASE PollNext
    <2>0. UNCHANGED <<inProgress, innerOver, nextIncoming, unused, done>>
      BY <1>4, Zenon DEF PollNext
    <2>1. ASSUME NEW e \in outputs, e.index = nextOutgoing, outputs' = outputs \ {e},
                 nextOutgoing' = nextOutgoing + 1, Answer("Output", e.data)
          PROVE  Goal
      <3>1. e \in Held /\ Held' = Held \ {e}
        BY <2>0, <2>1 DEF OrderedInv, Apart, Held
      <3>2. e.data \in done /\ ~innerOver /\ ~innerOver'
        BY <2>0, <2>1 DEF Settled
      <3>3. Queue!Yield
        BY <2>0, <2>1, <3>1, <3>2, YieldStep
      <3> QED BY <3>3 DEF Queue!QueueNext
    <2>2. CASE UNCHANGED <<outputs, nextOutgoing, answer>>
      <3>1. Held' = Held /\ IsTerminated' = IsTerminated
        BY <2>0, <2>2 DEF Held, IsTerminated
      <3> QED BY <2>0, <2>2, <3>1, StutterStep
    <2> QED BY <1>4, <2>1, <2>2, Zenon DEF PollNext
  <1>5. CASE InTurn
    <2>1. PICK e \in inProgress : /\ e.data \in done /\ e.index = nextOutgoing
                                  /\ inProgress' = inProgress \ {e}
                                  /\ nextOutgoing' = nextOutgoing + 1
                                  /\ Answer("Output", e.data)
      BY <1>5, Zenon DEF InTurn
    <2>2. UNCHANGED <<innerOver, outputs, nextIncoming, unused, done>>
      BY <1>5, Zenon DEF InTurn
    <2>3. e \in Held /\ Held' = Held \ {e}
      BY <2>1, <2>2 DEF OrderedInv, Apart, Held
    <2>4. ~innerOver /\ ~innerOver'
      BY <2>2 DEF Settled
    <2>5. Queue!Yield
      BY <2>1, <2>2, <2>3, <2>4, YieldStep
    <2> QED BY <2>5 DEF Queue!QueueNext
  <1>6. CASE TooEarly
    <2>1. PICK e \in inProgress : /\ inProgress' = inProgress \ {e}
                                  /\ outputs' = outputs \cup {e}
      BY <1>6, Zenon DEF TooEarly
    <2>2. UNCHANGED <<innerOver, nextIncoming, nextOutgoing, unused, done, answer>>
      BY <1>6, Zenon DEF TooEarly
    <2>3. Held' = Held
      BY <2>1 DEF Held
    <2>4. IsTerminated' = IsTerminated
      BY <2>2 DEF IsTerminated, Settled
    <2> QED BY <2>2, <2>3, <2>4, StutterStep
  <1>7. CASE OnPending
    <2>1. UNCHANGED <<unused, done>> /\ Answer("Pending", NoFuture)
      BY <1>7 DEF OnPending
    <2>2. Order' = Order /\ IsTerminated' = IsTerminated
      BY <1>7, OrderSame DEF OnPending, Held, IsTerminated
    <2>3. Queue!Pend
      BY <2>1, <2>2 DEF Answer, Queue!Pend
    <2> QED BY <2>3 DEF Queue!QueueNext
  <1>8. CASE OnNone
    BY <1>8, EndStep DEF Queue!QueueNext
  <1>9. CASE OnPanic
    <2>1. PICK e \in inProgress : e.data \notin done /\ inProgress' = inProgress \ {e}
      BY <1>9, Zenon DEF OnPanic
    <2>2. UNCHANGED <<innerOver, outputs, nextIncoming, nextOutgoing, unused, done>>
          /\ Answer("None", NoFuture)
      BY <1>9, Zenon DEF OnPanic
    <2>3. e \in Held /\ Held' = Held \ {e} /\ e.data \in Futures
      BY <2>1, <2>2 DEF OrderedInv, TypeOK, Apart, Held
    <2>4. \E i \in DOMAIN Order :
             Order[i] = e.data /\ Order' = [Order EXCEPT ![i] = NoFuture]
      BY <2>2, <2>3, LosingStep
    <2>5. IsTerminated' = IsTerminated
      BY <2>2 DEF IsTerminated
    <2>6. Queue!Loses(e.data)
      BY <2>1, <2>2, <2>4, <2>5 DEF Answer, Queue!Loses
    <2> QED BY <2>3, <2>6 DEF Queue!QueueNext
  <1>10. CASE UNCHANGED vars
    <2>1. Held' = Held /\ IsTerminated' = IsTerminated
          /\ UNCHANGED <<nextIncoming, nextOutgoing, unused, done, answer>>
      BY <1>10 DEF vars, Held, IsTerminated
    <2> QED BY <2>1, StutterStep
  <1> QED BY <1>1, <1>2, <1>3, <1>4, <1>5, <1>6, <1>7, <1>8, <1>9, <1>10 DEF Next, PollStep

\* FuturesOrdered keeps the promise of OrderedQueue: whatever is pushed at either
\* end, completes or panics, outputs leave in queue order, nothing passes a gap,
\* and the end is announced only when nothing can leave any more (push_back,
\* push_front, poll_next, is_terminated).
THEOREM OrderedRefinesQueue == Spec => RefinesOrderedQueue
  <1>1. OrderedInv /\ Settled /\ [Next]_vars => Settled'
    BY SettledStep
  <1>2. OrderedInv /\ Settled /\ [Next]_vars => [Queue!QueueNext]_(Queue!queueVars)
    BY RefineStep
  <1> QED BY <1>1, <1>2, InitSettled, RefineInit, OrderedCorrect, PTL
          DEF Spec, RefinesOrderedQueue, Queue!QueueSpec
=============================================================================
