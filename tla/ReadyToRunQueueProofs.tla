------------------------ MODULE ReadyToRunQueueProofs ------------------------
(***************************************************************************)
(* Proofs about ReadyToRunQueue, for any number of tasks and threads: its  *)
(* inductive invariant, and that it implements TaskFifo.                   *)
(***************************************************************************)
EXTENDS ReadyToRunQueue, TLAPS

\* The elements and the length of a sequence with one more element.
LEMMA AppendFacts ==
    ASSUME NEW S, NEW s \in Seq(S), NEW e \in S
    PROVE  /\ Append(s, e) \in Seq(S)
           /\ Len(Append(s, e)) = Len(s) + 1
           /\ \A i \in 1 .. Len(s) : Append(s, e)[i] = s[i]
           /\ Append(s, e)[Len(s) + 1] = e
           /\ Len(s) \in Nat
  OBVIOUS

\* The elements and the length of a sequence without its first element.
LEMMA TailFacts ==
    ASSUME NEW S, NEW s \in Seq(S), Len(s) >= 1
    PROVE  /\ Tail(s) \in Seq(S)
           /\ Len(Tail(s)) = Len(s) - 1
           /\ \A i \in 1 .. Len(s) - 1 : Tail(s)[i] = s[i + 1]
           /\ Len(s) \in Nat
  OBVIOUS

\* What the chain looks like once its first node has been cut off.
TailShift(c) ==
    /\ c \in Seq(Nodes)
    /\ Len(c) = Len(chain) - 1
    /\ \A i \in 1 .. Len(chain) - 1 : c[i] = chain[i + 1]
    /\ Len(chain) \in Nat
    /\ Len(chain) > 1 /\ next[tail] = chain[2]

\* A tail with a successor can be cut off: the successor is the next node.
LEMMA ChainWithoutTail ==
    ASSUME QueueInv, next[tail] # Null
    PROVE  TailShift(Tail(chain))
  <1>1. Len(chain) > 1 /\ next[tail] = chain[2]
    BY QueueAssumption DEF QueueInv, ChainIntact, Nodes
  <1>2. chain \in Seq(Nodes) /\ Len(chain) >= 1
    BY DEF QueueInv, TypeOK, ChainIntact
  <1> QED BY <1>1, <1>2, TailFacts DEF TailShift

\* Cutting it off leaves every link that is still due behind the new tail.
LEMMA LinksBehindTail ==
    ASSUME QueueInv, next[tail] # Null,
           NEW q \in Threads, pc[q] = "link"
    PROVE  LET c == Tail(chain)
           IN  \E i \in 1 .. Len(c) - 1 :
                  /\ c[i] = prev[q] /\ c[i + 1] = node[q]
                  /\ next[c[i]] = Null
  <1> DEFINE c == Tail(chain)
  <1>1. TailShift(c)
    BY ChainWithoutTail
  <1>2. PICK i \in 1 .. Len(chain) - 1 :
           /\ chain[i] = prev[q] /\ chain[i + 1] = node[q]
           /\ next[chain[i]] = Null
    BY DEF QueueInv, EnqueueLocals
  <1>3. i # 1
    BY <1>2 DEF QueueInv, ChainIntact
  <1>4. /\ i - 1 \in 1 .. Len(c) - 1
        /\ c[i - 1] = chain[i] /\ c[(i - 1) + 1] = chain[i + 1]
    BY <1>1, <1>2, <1>3 DEF TailShift
  <1> QED BY <1>2, <1>4

\* The task that is handed out is queued, and out of the queue's and every
\* enqueuer's hands.
LEMMA HandedTaskIsOut ==
    ASSUME QueueInv, tail # Stub, next[tail] # Null
    PROVE  /\ tail \in Tasks /\ queued[tail]
           /\ \A i \in 1 .. Len(Tail(chain)) : Tail(chain)[i] # tail
           /\ \A p \in Threads : node[p] # tail
  <1> USE QueueAssumption DEF QueueInv
  <1>1. TailShift(Tail(chain))
    BY ChainWithoutTail
  <1>2. InChain(tail)
    BY <1>1 DEF InChain, ChainIntact, TailShift
  <1>3. tail \in Tasks /\ queued[tail]
    BY <1>2 DEF TypeOK, OneEnqueuer, Nodes
  <1>4. \A i \in 1 .. Len(Tail(chain)) : Tail(chain)[i] # tail
    BY <1>1 DEF ChainIntact, TailShift
  <1>5. ASSUME NEW p \in Threads, node[p] = tail PROVE FALSE
    <2>1. p # Owner /\ pc[p] = "link"
      BY <1>2, <1>3, <1>5 DEF TypeOK, OneEnqueuer, EnqueueLocals, Threads
    <2> QED BY <2>1, <1>5 DEF EnqueueLocals, ChainIntact, TypeOK
  <1> QED BY <1>3, <1>4, <1>5

\* The invariant holds initially.
LEMMA InvInit == Init => QueueInv
  <1> SUFFICES ASSUME Init PROVE QueueInv
    OBVIOUS
  <1> USE QueueAssumption DEF Init, Nodes, Threads
  <1>1. TypeOK
    BY DEF TypeOK, InChain, LinkDue, Linkers
  <1>2. ChainIntact
    BY DEF ChainIntact, InChain
  <1>3. StubOutsideWhenEnqueued
    BY DEF StubOutsideWhenEnqueued
  <1>4. OneEnqueuer
    BY DEF OneEnqueuer, InChain, LinkDue, Linkers
  <1>5. EnqueueLocals
    BY DEF EnqueueLocals, InChain, LinkDue, Linkers
  <1>6. DequeueLocals
    BY DEF DequeueLocals
  <1> QED BY <1>1, <1>2, <1>3, <1>4, <1>5, <1>6 DEF QueueInv

\* Every step of an enqueuer, of the owner, or of neither preserves it.
LEMMA InvStep == QueueInv /\ [Next]_vars => QueueInv'
  <1> SUFFICES ASSUME QueueInv, [Next]_vars PROVE QueueInv'
    OBVIOUS
  <1> USE QueueAssumption DEF QueueInv, Nodes, Threads
  <1>1. ASSUME NEW p \in Enqueuers, NEW t \in Tasks, Claim(p, t) PROVE QueueInv'
    <2> USE <1>1 DEF Claim, StartEnqueue
    <2>1. TypeOK'
      BY DEF TypeOK
    <2>2. ChainIntact'
      BY DEF ChainIntact, LinkDue
    <2>3. StubOutsideWhenEnqueued'
      BY DEF StubOutsideWhenEnqueued, InChain
    <2>4. OneEnqueuer'
      BY DEF TypeOK, OneEnqueuer, InChain
    <2>5. EnqueueLocals'
      BY DEF TypeOK, EnqueueLocals
    <2>6. DequeueLocals'
      BY DEF DequeueLocals, InChain, Linkers
    <2> QED BY <2>1, <2>2, <2>3, <2>4, <2>5, <2>6
  <1>2. ASSUME NEW p \in Threads, ClearNext(p) PROVE QueueInv'
    <2> USE <1>2 DEF ClearNext
    <2>1. TypeOK'
      BY DEF TypeOK
    <2>2. ChainIntact'
      BY DEF ChainIntact, StubOutsideWhenEnqueued, OneEnqueuer, EnqueueLocals, InChain, LinkDue
    <2>3. StubOutsideWhenEnqueued'
      BY DEF StubOutsideWhenEnqueued, InChain
    <2>4. OneEnqueuer'
      BY DEF OneEnqueuer, InChain
    <2>5. EnqueueLocals'
      BY DEF TypeOK, EnqueueLocals
    <2>6. DequeueLocals'
      BY DEF DequeueLocals, InChain, Linkers
    <2> QED BY <2>1, <2>2, <2>3, <2>4, <2>5, <2>6
  <1>3. ASSUME NEW p \in Threads, SwapHead(p) PROVE QueueInv'
    <2> USE <1>3 DEF SwapHead
    <2>a. node[p] \in Nodes
      BY DEF TypeOK, EnqueueLocals
    <2>b. /\ Len(chain') = Len(chain) + 1
          /\ \A i \in 1 .. Len(chain) : chain'[i] = chain[i]
          /\ chain'[Len(chain) + 1] = node[p]
          /\ chain' \in Seq(Nodes)
          /\ Len(chain) \in Nat
      BY <2>a, AppendFacts DEF TypeOK
    <2>1. TypeOK'
      BY <2>a, <2>b DEF TypeOK
    <2>2. ChainIntact'
      BY <2>a, <2>b DEF TypeOK, ChainIntact, StubOutsideWhenEnqueued, OneEnqueuer, EnqueueLocals, InChain, LinkDue
    <2>3. StubOutsideWhenEnqueued'
      BY <2>a, <2>b DEF TypeOK, StubOutsideWhenEnqueued, EnqueueLocals, InChain
    <2>4. OneEnqueuer'
      BY <2>a, <2>b DEF TypeOK, OneEnqueuer, InChain
    <2>5. EnqueueLocals'
      <3>1. ASSUME NEW q \in Threads, pc'[q] = "link"
            PROVE  \E i \in 1 .. Len(chain') - 1 :
                     /\ chain'[i] = prev'[q] /\ chain'[i + 1] = node'[q]
                     /\ next'[chain'[i]] = Null
        <4>1. CASE q = p
          <5>1. /\ chain'[Len(chain)] = prev'[q]
                /\ chain'[Len(chain) + 1] = node'[q]
                /\ next'[chain'[Len(chain)]] = Null
            BY <4>1, <2>b DEF TypeOK, ChainIntact
          <5>2. Len(chain) \in 1 .. Len(chain') - 1
            BY <2>b DEF ChainIntact
          <5> QED BY <5>1, <5>2
        <4>2. CASE q # p
          <5>1. PICK i \in 1 .. Len(chain) - 1 :
                   /\ chain[i] = prev[q] /\ chain[i + 1] = node[q]
                   /\ next[chain[i]] = Null
            BY <3>1, <4>2 DEF EnqueueLocals
          <5>2. /\ i \in 1 .. Len(chain') - 1
                /\ chain'[i] = chain[i] /\ chain'[i + 1] = chain[i + 1]
            BY <2>b
          <5> QED BY <5>1, <5>2, <4>2 DEF TypeOK
        <4> QED BY <4>1, <4>2
      <3>2. \A q \in Threads : pc'[q] = "swap" => next'[node'[q]] = Null
        BY DEF EnqueueLocals
      <3> QED BY <3>1, <3>2, <2>a DEF TypeOK, EnqueueLocals
    <2>6. DequeueLocals'
      BY <2>a, <2>b DEF EnqueueLocals, DequeueLocals, InChain, Linkers
    <2> QED BY <2>1, <2>2, <2>3, <2>4, <2>5, <2>6
  <1>4. ASSUME NEW p \in Threads, LinkPrev(p) PROVE QueueInv'
    <2> USE <1>4 DEF LinkPrev
    <2>a. PICK k \in 1 .. Len(chain) - 1 :
             /\ chain[k] = prev[p] /\ chain[k + 1] = node[p]
             /\ next[chain[k]] = Null
      BY DEF EnqueueLocals
    <2>b. /\ node[p] \in Nodes
          /\ next' = [next EXCEPT ![chain[k]] = chain[k + 1]]
          /\ \A i \in 1 .. Len(chain) : chain[i] \in Nodes
          /\ Len(chain) \in Nat
      BY <2>a DEF TypeOK
    <2>c. \A i \in 1 .. Len(chain) : i # k => next'[chain[i]] = next[chain[i]]
      BY <2>a, <2>b DEF ChainIntact
    <2>d. next'[chain[k]] = chain[k + 1]
      BY <2>a, <2>b DEF TypeOK
    <2>1. TypeOK'
      BY <2>a, <2>b DEF TypeOK
    <2>2. ChainIntact'
      <3>1. next'[head'] = Null
        BY <2>a, <2>b, <2>c DEF ChainIntact
      <3>2. ASSUME NEW i \in 1 .. Len(chain) - 1
            PROVE  \/ next'[chain[i]] = chain[i + 1]
                   \/ /\ next'[chain[i]] = Null
                      /\ \E q \in Threads : LinkDue(q, chain[i], chain[i + 1])'
        <4>1. CASE i = k
          BY <4>1, <2>d
        <4>2. CASE i # k /\ next[chain[i]] = chain[i + 1]
          BY <4>2, <2>b, <2>c
        <4>3. CASE i # k /\ next[chain[i]] = Null
                   /\ \E q \in Threads : LinkDue(q, chain[i], chain[i + 1])
          <5>1. PICK q \in Threads : LinkDue(q, chain[i], chain[i + 1])
            BY <4>3
          <5>2. q # p
            BY <5>1, <4>3, <2>a, <2>b DEF LinkDue, ChainIntact
          <5>3. LinkDue(q, chain[i], chain[i + 1])'
            BY <5>1, <5>2 DEF LinkDue
          <5> QED BY <5>3, <4>3, <2>b, <2>c
        <4> QED BY <4>1, <4>2, <4>3 DEF ChainIntact
      <3> QED BY <3>1, <3>2 DEF ChainIntact
    <2>3. StubOutsideWhenEnqueued'
      BY <2>a, <2>b DEF StubOutsideWhenEnqueued, InChain
    <2>4. OneEnqueuer'
      BY <2>a, <2>b DEF OneEnqueuer, InChain
    <2>5. EnqueueLocals'
      <3>1. ASSUME NEW q \in Threads, pc'[q] = "link"
            PROVE  \E i \in 1 .. Len(chain) - 1 :
                     /\ chain[i] = prev'[q] /\ chain[i + 1] = node'[q]
                     /\ next'[chain[i]] = Null
        <4>1. q # p /\ pc[q] = "link" /\ prev'[q] = prev[q] /\ node'[q] = node[q]
          BY <3>1 DEF TypeOK
        <4>2. PICK i \in 1 .. Len(chain) - 1 :
                 /\ chain[i] = prev[q] /\ chain[i + 1] = node[q]
                 /\ next[chain[i]] = Null
          BY <4>1 DEF EnqueueLocals
        <4>3. i # k
          BY <4>1, <4>2, <2>a, <2>b DEF OneEnqueuer
        <4> QED BY <4>1, <4>2, <4>3, <2>b, <2>c
      <3>2. \A q \in Threads : pc'[q] = "swap" => next'[node'[q]] = Null
        <4> SUFFICES ASSUME NEW q \in Threads, pc'[q] = "swap"
                     PROVE  next'[node'[q]] = Null
          OBVIOUS
        <4>1. q # p /\ pc[q] = "swap" /\ node'[q] = node[q]
          BY DEF TypeOK
        <4>2. node[q] # chain[k]
          BY <4>1, <2>b DEF OneEnqueuer, StubOutsideWhenEnqueued, InChain, EnqueueLocals
        <4> QED BY <4>1, <4>2, <2>b DEF EnqueueLocals, TypeOK
      <3> QED BY <3>1, <3>2 DEF TypeOK, EnqueueLocals
    <2>6. DequeueLocals'
      BY <2>a, <2>b DEF DequeueLocals, InChain, Linkers
    <2> QED BY <2>1, <2>2, <2>3, <2>4, <2>5, <2>6
  <1>5. ASSUME StartDequeue PROVE QueueInv'
    <2> USE <1>5 DEF StartDequeue
    <2>1. TypeOK'
      BY DEF TypeOK
    <2>2. ChainIntact'
      BY DEF ChainIntact, LinkDue
    <2>3. StubOutsideWhenEnqueued'
      BY DEF StubOutsideWhenEnqueued, InChain
    <2>4. OneEnqueuer'
      BY DEF OneEnqueuer, InChain
    <2>5. EnqueueLocals'
      BY DEF EnqueueLocals
    <2>6. DequeueLocals'
      BY DEF TypeOK, DequeueLocals, Linkers
    <2> QED BY <2>1, <2>2, <2>3, <2>4, <2>5, <2>6
  <1>6. ASSUME FirstEmpty PROVE QueueInv'
    <2> USE <1>6 DEF FirstEmpty, Answer, enqVars
    <2>1. TypeOK'
      BY DEF TypeOK
    <2>2. ChainIntact'
      BY DEF ChainIntact, LinkDue
    <2>3. StubOutsideWhenEnqueued'
      BY DEF StubOutsideWhenEnqueued, InChain
    <2>4. OneEnqueuer'
      BY DEF OneEnqueuer, InChain
    <2>5. EnqueueLocals'
      BY DEF EnqueueLocals
    <2>6. DequeueLocals'
      BY DEF DequeueLocals
    <2> QED BY <2>1, <2>2, <2>3, <2>4, <2>5, <2>6
  <1>7. ASSUME SkipStub PROVE QueueInv'
    <2> USE <1>7 DEF SkipStub
    <2>a. /\ chain' \in Seq(Nodes)
          /\ Len(chain') = Len(chain) - 1
          /\ \A i \in 1 .. Len(chain) - 1 : chain'[i] = chain[i + 1]
          /\ Len(chain) \in Nat
          /\ Len(chain) > 1 /\ tail' = chain[2]
      BY ChainWithoutTail DEF TailShift
    <2>1. TypeOK'
      BY <2>a DEF TypeOK
    <2>2. ChainIntact'
      BY <2>a DEF ChainIntact, LinkDue
    <2>3. StubOutsideWhenEnqueued'
      BY <2>a DEF StubOutsideWhenEnqueued, InChain
    <2>4. OneEnqueuer'
      BY <2>a DEF OneEnqueuer, InChain
    <2>5. EnqueueLocals'
      BY LinksBehindTail DEF EnqueueLocals
    <2>6. DequeueLocals'
      BY <2>a DEF ChainIntact, DequeueLocals, InChain, Linkers
    <2> QED BY <2>1, <2>2, <2>3, <2>4, <2>5, <2>6
  <1>8. ASSUME HandFirst PROVE QueueInv'
    <2> USE <1>8 DEF HandFirst, AtTask, Hand, Answer
    <2>a. /\ chain' \in Seq(Nodes)
          /\ Len(chain') = Len(chain) - 1
          /\ \A i \in 1 .. Len(chain) - 1 : chain'[i] = chain[i + 1]
          /\ Len(chain) \in Nat
          /\ Len(chain) > 1 /\ tail' = chain[2]
      BY ChainWithoutTail DEF TailShift
    <2>1. TypeOK'
      BY <2>a DEF TypeOK, DequeueLocals
    <2>2. ChainIntact'
      BY <2>a DEF ChainIntact, LinkDue
    <2>3. StubOutsideWhenEnqueued'
      BY <2>a DEF StubOutsideWhenEnqueued, InChain
    <2>4. OneEnqueuer'
      BY <2>a DEF OneEnqueuer, InChain
    <2>5. EnqueueLocals'
      BY LinksBehindTail DEF EnqueueLocals
    <2>b. tail # Stub
      BY DEF DequeueLocals
    <2>6. DequeueLocals'
      BY <2>b, HandedTaskIsOut DEF DequeueLocals, InChain
    <2> QED BY <2>1, <2>2, <2>3, <2>4, <2>5, <2>6
  <1>9. ASSUME NoSuccessor PROVE QueueInv'
    <2> USE <1>9 DEF NoSuccessor, AtTask, enqVars
    <2>1. TypeOK'
      BY DEF TypeOK
    <2>2. ChainIntact'
      BY DEF ChainIntact, LinkDue
    <2>3. StubOutsideWhenEnqueued'
      BY DEF StubOutsideWhenEnqueued, InChain
    <2>4. OneEnqueuer'
      BY DEF OneEnqueuer, InChain
    <2>5. EnqueueLocals'
      BY DEF EnqueueLocals
    <2>6. DequeueLocals'
      BY DEF TypeOK, ChainIntact, EnqueueLocals, DequeueLocals, LinkDue, Linkers
    <2> QED BY <2>1, <2>2, <2>3, <2>4, <2>5, <2>6
  <1>10. ASSUME HeadMoved PROVE QueueInv'
    <2> USE <1>10 DEF HeadMoved, Answer, enqVars
    <2>1. TypeOK'
      BY DEF TypeOK
    <2>2. ChainIntact'
      BY DEF ChainIntact, LinkDue
    <2>3. StubOutsideWhenEnqueued'
      BY DEF StubOutsideWhenEnqueued, InChain
    <2>4. OneEnqueuer'
      BY DEF OneEnqueuer, InChain
    <2>5. EnqueueLocals'
      BY DEF EnqueueLocals
    <2>6. DequeueLocals'
      BY DEF DequeueLocals
    <2> QED BY <2>1, <2>2, <2>3, <2>4, <2>5, <2>6
  <1>11. ASSUME EnqueueStub PROVE QueueInv'
    <2> USE <1>11 DEF EnqueueStub, StartEnqueue
    <2>1. TypeOK'
      BY DEF TypeOK
    <2>2. ChainIntact'
      BY DEF ChainIntact
    <2>3. StubOutsideWhenEnqueued'
      BY DEF ChainIntact, StubOutsideWhenEnqueued, DequeueLocals, InChain
    <2>4. OneEnqueuer'
      BY DEF OneEnqueuer, EnqueueLocals, InChain
    <2>5. EnqueueLocals'
      BY DEF TypeOK, EnqueueLocals
    <2>6. DequeueLocals'
      BY DEF TypeOK, DequeueLocals, Linkers
    <2> QED BY <2>1, <2>2, <2>3, <2>4, <2>5, <2>6
  <1>12. ASSUME HandLast PROVE QueueInv'
    <2> USE <1>12 DEF HandLast, Hand, Answer
    <2>a. /\ chain' \in Seq(Nodes)
          /\ Len(chain') = Len(chain) - 1
          /\ \A i \in 1 .. Len(chain) - 1 : chain'[i] = chain[i + 1]
          /\ Len(chain) \in Nat
          /\ Len(chain) > 1 /\ tail' = chain[2]
      BY ChainWithoutTail DEF TailShift
    <2>1. TypeOK'
      BY <2>a DEF TypeOK, DequeueLocals
    <2>2. ChainIntact'
      BY <2>a DEF ChainIntact, EnqueueLocals, LinkDue
    <2>3. StubOutsideWhenEnqueued'
      BY <2>a DEF StubOutsideWhenEnqueued
    <2>4. OneEnqueuer'
      BY <2>a DEF OneEnqueuer, InChain
    <2>5. EnqueueLocals'
      BY LinksBehindTail DEF EnqueueLocals
    <2>b. tail # Stub
      BY DEF DequeueLocals
    <2>6. DequeueLocals'
      BY <2>b, HandedTaskIsOut DEF DequeueLocals, InChain
    <2> QED BY <2>1, <2>2, <2>3, <2>4, <2>5, <2>6
  <1>13. ASSUME StillPending PROVE QueueInv'
    <2> USE <1>13 DEF StillPending, Answer, enqVars
    <2>1. TypeOK'
      BY DEF TypeOK
    <2>2. ChainIntact'
      BY DEF ChainIntact, LinkDue
    <2>3. StubOutsideWhenEnqueued'
      BY DEF StubOutsideWhenEnqueued
    <2>4. OneEnqueuer'
      BY DEF OneEnqueuer, InChain
    <2>5. EnqueueLocals'
      BY DEF EnqueueLocals
    <2>6. DequeueLocals'
      BY DEF DequeueLocals
    <2> QED BY <2>1, <2>2, <2>3, <2>4, <2>5, <2>6
  <1>14. ASSUME Unqueue PROVE QueueInv'
    <2> USE <1>14 DEF Unqueue, enqVars
    <2>1. TypeOK'
      BY DEF TypeOK
    <2>2. ChainIntact'
      BY DEF ChainIntact, LinkDue
    <2>3. StubOutsideWhenEnqueued'
      BY DEF StubOutsideWhenEnqueued, InChain
    <2>4. OneEnqueuer'
      BY DEF OneEnqueuer, DequeueLocals, InChain
    <2>5. EnqueueLocals'
      BY DEF EnqueueLocals
    <2>6. DequeueLocals'
      BY DEF DequeueLocals
    <2> QED BY <2>1, <2>2, <2>3, <2>4, <2>5, <2>6
  <1>15. CASE UNCHANGED vars
    BY <1>15 DEF vars, TypeOK, ChainIntact, StubOutsideWhenEnqueued, OneEnqueuer, EnqueueLocals, DequeueLocals, InChain, LinkDue, Linkers
  <1> QED
    BY <1>1, <1>2, <1>3, <1>4, <1>5, <1>6, <1>7, <1>8, <1>9, <1>10, <1>11, <1>12, <1>13, <1>14, <1>15 DEF Next, Enqueue, Dequeue

\* ReadyToRunQueue's invariant holds for any number of tasks and enqueuers
\* (enqueue and dequeue, ready_to_run_queue.rs).
THEOREM QueueCorrect == Spec => []QueueInv
  BY InvInit, InvStep, PTL DEF Spec

\* Every field and local keeps its type.
THEOREM TypeCorrect == Spec => []TypeOK
  <1>1. QueueInv => TypeOK
    BY DEF QueueInv
  <1> QED BY <1>1, QueueCorrect, PTL

\* No node swapped into the queue is ever lost from the chain (enqueue, dequeue).
THEOREM ChainStaysIntact == Spec => []ChainIntact
  <1>1. QueueInv => ChainIntact
    BY DEF QueueInv
  <1> QED BY <1>1, QueueCorrect, PTL

\* dequeue never enqueues the stub a second time.
THEOREM StubNeverTwice == Spec => []StubOutsideWhenEnqueued
  <1>1. QueueInv => StubOutsideWhenEnqueued
    BY DEF QueueInv
  <1> QED BY <1>1, QueueCorrect, PTL

\* No two threads ever write the link of the same node (Task::wake_by_ref).
THEOREM NoTwoEnqueuers == Spec => []OneEnqueuer
  <1>1. QueueInv => OneEnqueuer
    BY DEF QueueInv
  <1> QED BY <1>1, QueueCorrect, PTL

-----------------------------------------------------------------------------
(* ReadyToRunQueue implements TaskFifo *)

(***************************************************************************)
(* The tasks of a chain: what appending and removing nodes does to them.   *)
(***************************************************************************)

Distinct(s) == \A i, j \in 1 .. Len(s) : i # j => s[i] # s[j]

\* A function on 1 .. n is a sequence of length n.
LEMMA FcnIsSeq ==
    ASSUME NEW S, NEW n \in Nat, NEW f \in [1 .. n -> S]
    PROVE  f \in Seq(S) /\ Len(f) = n
  OBVIOUS

\* Two sequences with the same elements are the same sequence.
LEMMA SameSeq ==
    ASSUME NEW S, NEW s \in Seq(S), NEW t \in Seq(S), Len(s) = Len(t),
           \A i \in 1 .. Len(s) : s[i] = t[i]
    PROVE  s = t
  OBVIOUS

\* Without the stub, the chain itself.
LEMMA TasksOfNoStub ==
    ASSUME NEW s \in Seq(Nodes), \A k \in 1 .. Len(s) : s[k] # Stub
    PROVE  TasksOf(s) = s
  BY DEF TasksOf

\* With the stub at position k, one task less, the later ones moved up.
LEMMA TasksOfStub ==
    ASSUME NEW s \in Seq(Nodes), Distinct(s), NEW k \in 1 .. Len(s), s[k] = Stub
    PROVE  /\ TasksOf(s) \in Seq(Nodes)
           /\ Len(TasksOf(s)) = Len(s) - 1
           /\ \A i \in 1 .. Len(s) - 1 :
                 TasksOf(s)[i] = IF i < k THEN s[i] ELSE s[i + 1]
  <1> DEFINE f == [i \in 1 .. Len(s) - 1 |-> IF i < k THEN s[i] ELSE s[i + 1]]
  <1>1. (CHOOSE j \in 1 .. Len(s) : s[j] = Stub) = k
    BY DEF Distinct
  <1>2. TasksOf(s) = f
    BY <1>1 DEF TasksOf
  <1>3. f \in [1 .. Len(s) - 1 -> Nodes] /\ Len(s) - 1 \in Nat
    OBVIOUS
  <1> QED BY <1>2, <1>3, FcnIsSeq

\* What a caller sees of a chain is a sequence of its nodes.
LEMMA TasksOfType ==
    ASSUME NEW s \in Seq(Nodes), Distinct(s)
    PROVE  TasksOf(s) \in Seq(Nodes)
  BY TasksOfNoStub, TasksOfStub

\* A task swapped in becomes the youngest task.
LEMMA TasksOfAppend ==
    ASSUME NEW s \in Seq(Nodes), Distinct(s), NEW t \in Tasks,
           \A i \in 1 .. Len(s) : s[i] # t
    PROVE  TasksOf(Append(s, t)) = Append(TasksOf(s), t)
  <1> DEFINE a == Append(s, t)
  <1>1. /\ a \in Seq(Nodes) /\ Len(a) = Len(s) + 1 /\ Len(s) \in Nat
        /\ \A i \in 1 .. Len(s) : a[i] = s[i]
        /\ a[Len(s) + 1] = t /\ t # Stub
    BY AppendFacts, QueueAssumption DEF Nodes
  <1>2. CASE \A k \in 1 .. Len(s) : s[k] # Stub
    <2> HIDE DEF a
    <2>1. \A k \in 1 .. Len(a) : a[k] # Stub
      BY <1>1, <1>2
    <2>2. TasksOf(a) = a
      BY <1>1, <2>1, TasksOfNoStub
    <2>3. TasksOf(s) = s
      BY <1>2, TasksOfNoStub
    <2> QED BY <2>2, <2>3 DEF a
  <1>3. CASE \E k \in 1 .. Len(s) : s[k] = Stub
    <2>1. PICK k \in 1 .. Len(s) : s[k] = Stub
      BY <1>3
    <2>2. Distinct(a)
      BY <1>1 DEF Distinct
    <2>3. /\ TasksOf(s) \in Seq(Nodes)
          /\ Len(TasksOf(s)) = Len(s) - 1
          /\ \A i \in 1 .. Len(s) - 1 :
                TasksOf(s)[i] = IF i < k THEN s[i] ELSE s[i + 1]
      BY <2>1, TasksOfStub
    <2>4. /\ TasksOf(a) \in Seq(Nodes)
          /\ Len(TasksOf(a)) = Len(s)
          /\ \A i \in 1 .. Len(s) :
                TasksOf(a)[i] = IF i < k THEN a[i] ELSE a[i + 1]
      <3>1. k \in 1 .. Len(a) /\ a[k] = Stub
        BY <1>1, <2>1
      <3> HIDE DEF a
      <3>2. Len(a) - 1 = Len(s)
        BY <1>1
      <3>3. /\ TasksOf(a) \in Seq(Nodes)
            /\ Len(TasksOf(a)) = Len(a) - 1
            /\ \A i \in 1 .. Len(a) - 1 :
                  TasksOf(a)[i] = IF i < k THEN a[i] ELSE a[i + 1]
        BY <1>1, <2>2, <3>1, TasksOfStub
      <3> QED BY <3>2, <3>3
    <2>5. /\ Append(TasksOf(s), t) \in Seq(Nodes)
          /\ Len(Append(TasksOf(s), t)) = Len(s)
          /\ \A i \in 1 .. Len(s) - 1 : Append(TasksOf(s), t)[i] = TasksOf(s)[i]
          /\ Append(TasksOf(s), t)[Len(s)] = t
      <3>1. (Len(s) - 1) + 1 = Len(s)
        BY <1>1
      <3> QED BY <2>3, <3>1, AppendFacts DEF Nodes
    <2>6. ASSUME NEW i \in 1 .. Len(s)
          PROVE  TasksOf(a)[i] = Append(TasksOf(s), t)[i]
      <3>1. CASE i = Len(s)
        BY <3>1, <2>1, <2>4, <2>5, <1>1
      <3>2. CASE i # Len(s)
        BY <3>2, <2>1, <2>3, <2>4, <2>5, <1>1
      <3> QED BY <3>1, <3>2
    <2> HIDE DEF a
    <2>7. TasksOf(a) = Append(TasksOf(s), t)
      BY <2>4, <2>5, <2>6, SameSeq
    <2> QED BY <2>7 DEF a
  <1> QED BY <1>2, <1>3

\* The stub put back at the end is not seen.
LEMMA TasksOfAppendStub ==
    ASSUME NEW s \in Seq(Nodes), Distinct(s), \A i \in 1 .. Len(s) : s[i] # Stub
    PROVE  TasksOf(Append(s, Stub)) = TasksOf(s)
  <1> DEFINE a == Append(s, Stub)
  <1>1. /\ a \in Seq(Nodes) /\ Len(a) = Len(s) + 1 /\ Len(s) \in Nat
        /\ \A i \in 1 .. Len(s) : a[i] = s[i]
        /\ a[Len(s) + 1] = Stub
    BY AppendFacts DEF Nodes
  <1>2. Distinct(a) /\ Len(s) + 1 \in 1 .. Len(a)
    BY <1>1 DEF Distinct
  <1> HIDE DEF a
  <1>3. /\ TasksOf(a) \in Seq(Nodes)
        /\ Len(TasksOf(a)) = Len(a) - 1
        /\ \A i \in 1 .. Len(a) - 1 :
              TasksOf(a)[i] = IF i < Len(s) + 1 THEN a[i] ELSE a[i + 1]
    BY <1>1, <1>2, TasksOfStub
  <1>4. TasksOf(a) = s
    BY <1>1, <1>3, SameSeq
  <1> QED BY <1>4, TasksOfNoStub DEF a

\* The stub skipped at the front is not seen either.
LEMMA TasksOfTailStub ==
    ASSUME NEW s \in Seq(Nodes), Distinct(s), Len(s) >= 1, s[1] = Stub
    PROVE  TasksOf(Tail(s)) = TasksOf(s)
  <1>1. /\ Tail(s) \in Seq(Nodes) /\ Len(Tail(s)) = Len(s) - 1 /\ Len(s) \in Nat
        /\ \A i \in 1 .. Len(s) - 1 : Tail(s)[i] = s[i + 1]
    BY TailFacts
  <1>2. TasksOf(Tail(s)) = Tail(s)
    <2>1. \A k \in 1 .. Len(Tail(s)) : Tail(s)[k] # Stub
      BY <1>1 DEF Distinct
    <2> QED BY <1>1, <2>1, TasksOfNoStub
  <1>3. /\ TasksOf(s) \in Seq(Nodes)
        /\ Len(TasksOf(s)) = Len(s) - 1
        /\ \A i \in 1 .. Len(s) - 1 :
              TasksOf(s)[i] = IF i < 1 THEN s[i] ELSE s[i + 1]
    <2>1. 1 \in 1 .. Len(s)
      BY <1>1
    <2> QED BY <2>1, TasksOfStub
  <1>4. Tail(s) = TasksOf(s)
    BY <1>1, <1>3, SameSeq
  <1> QED BY <1>2, <1>4

\* A task at the front is the oldest task, and what remains is the rest.
LEMMA TasksOfTailTask ==
    ASSUME NEW s \in Seq(Nodes), Distinct(s), Len(s) >= 1, s[1] # Stub
    PROVE  /\ TasksOf(s) \in Seq(Nodes) /\ Len(TasksOf(s)) >= 1
           /\ TasksOf(s)[1] = s[1]
           /\ TasksOf(Tail(s)) = Tail(TasksOf(s))
  <1> DEFINE r == Tail(s)
  <1>1. /\ r \in Seq(Nodes) /\ Len(r) = Len(s) - 1 /\ Len(s) \in Nat
        /\ \A i \in 1 .. Len(s) - 1 : r[i] = s[i + 1]
    BY TailFacts
  <1>2. CASE \A k \in 1 .. Len(s) : s[k] # Stub
    <2> HIDE DEF r
    <2>1. \A k \in 1 .. Len(r) : r[k] # Stub
      BY <1>1, <1>2
    <2>2. TasksOf(r) = r
      BY <1>1, <2>1, TasksOfNoStub
    <2>3. TasksOf(s) = s
      BY <1>2, TasksOfNoStub
    <2> QED BY <1>1, <2>2, <2>3 DEF r
  <1>3. CASE \E k \in 1 .. Len(s) : s[k] = Stub
    <2>1. PICK k \in 1 .. Len(s) : s[k] = Stub
      BY <1>3
    <2>2. k > 1 /\ k - 1 \in 1 .. Len(r) /\ r[k - 1] = Stub /\ Distinct(r)
      BY <2>1, <1>1 DEF Distinct
    <2>3. /\ TasksOf(s) \in Seq(Nodes)
          /\ Len(TasksOf(s)) = Len(s) - 1
          /\ \A i \in 1 .. Len(s) - 1 :
                TasksOf(s)[i] = IF i < k THEN s[i] ELSE s[i + 1]
      BY <2>1, TasksOfStub
    <2> HIDE DEF r
    <2>4. /\ TasksOf(r) \in Seq(Nodes)
          /\ Len(TasksOf(r)) = Len(r) - 1
          /\ \A i \in 1 .. Len(r) - 1 :
                TasksOf(r)[i] = IF i < k - 1 THEN r[i] ELSE r[i + 1]
      BY <1>1, <2>2, TasksOfStub
    <2>5. /\ Tail(TasksOf(s)) \in Seq(Nodes)
          /\ Len(Tail(TasksOf(s))) = Len(s) - 2
          /\ \A i \in 1 .. Len(s) - 2 : Tail(TasksOf(s))[i] = TasksOf(s)[i + 1]
      BY <2>1, <2>2, <2>3, <1>1, TailFacts
    <2>6. TasksOf(r) = Tail(TasksOf(s))
      <3>1. Len(TasksOf(r)) = Len(Tail(TasksOf(s)))
        BY <1>1, <2>4, <2>5
      <3>2. ASSUME NEW i \in 1 .. Len(TasksOf(r))
            PROVE  TasksOf(r)[i] = Tail(TasksOf(s))[i]
        <4>1. /\ i \in 1 .. Len(r) - 1
              /\ i \in 1 .. Len(s) - 2
              /\ i + 1 \in 1 .. Len(s) - 1
              /\ i \in 1 .. Len(s) - 1
          BY <1>1, <2>4
        <4>2. TasksOf(r)[i] = IF i < k - 1 THEN r[i] ELSE r[i + 1]
          BY <2>4, <4>1
        <4>3. TasksOf(s)[i + 1] = IF i + 1 < k THEN s[i + 1] ELSE s[(i + 1) + 1]
          BY <2>3, <4>1
        <4>4. r[i] = s[i + 1] /\ r[i + 1] = s[(i + 1) + 1]
          BY <1>1, <4>1
        <4> QED BY <2>1, <2>5, <4>1, <4>2, <4>3, <4>4
      <3> QED BY <2>4, <2>5, <3>1, <3>2, SameSeq
    <2> QED BY <2>1, <2>2, <2>3, <2>6, <1>1 DEF r
  <1> QED BY <1>2, <1>3

(***************************************************************************)
(* Every step is a step of TaskFifo or leaves what its caller sees.        *)
(***************************************************************************)

FifoLinking == {node[p] : p \in Linkers \ {Owner}}

\* The queue that only holds its stub is the empty abstract queue.
LEMMA RefineInit == Init => Fifo!FifoInit
  <1> SUFFICES ASSUME Init PROVE Fifo!FifoInit
    OBVIOUS
  <1>1. TasksOf(<<Stub>>) = <<>>
    <2>1. <<Stub>> \in Seq(Nodes) /\ Len(<<Stub>>) = 1 /\ Distinct(<<Stub>>)
      BY DEF Nodes, Distinct
    <2>2. 1 \in 1 .. Len(<<Stub>>) /\ <<Stub>>[1] = Stub
      BY <2>1
    <2> DEFINE s == <<Stub>>
    <2> HIDE DEF s
    <2>3. TasksOf(s) \in Seq(Nodes) /\ Len(TasksOf(s)) = Len(s) - 1
      BY <2>1, <2>2, TasksOfStub DEF s
    <2>4. TasksOf(<<Stub>>) \in Seq(Nodes) /\ Len(TasksOf(<<Stub>>)) = 0
      BY <2>1, <2>3 DEF s
    <2> QED BY <2>4
  <1>2. Linkers = {}
    BY DEF Init, Linkers
  <1> QED BY <1>1, <1>2 DEF Init, Fifo!FifoInit

\* What the invariant says of the chain in the terms of the lemmas above.
LEMMA ChainFacts ==
    ASSUME QueueInv
    PROVE  /\ chain \in Seq(Nodes) /\ Len(chain) \in Nat /\ Len(chain) >= 1
           /\ Distinct(chain)
           /\ chain[1] = tail
           /\ \A p \in Linkers : node[p] \in Nodes
                /\ \E i \in 2 .. Len(chain) : chain[i] = node[p]
           /\ dpc # "stub" => Linkers \ {Owner} = Linkers
           /\ pc[Owner] = "idle" => Linkers \ {Owner} = Linkers
  <1> USE DEF QueueInv, TypeOK, Nodes, Threads, Linkers
  <1>1. ASSUME NEW p \in Linkers
        PROVE  node[p] \in Nodes /\ \E i \in 2 .. Len(chain) : chain[i] = node[p]
    <2>1. PICK i \in 1 .. Len(chain) - 1 : chain[i + 1] = node[p]
      BY DEF EnqueueLocals
    <2>2. i + 1 \in 2 .. Len(chain)
      OBVIOUS
    <2> QED BY <2>1, <2>2
  <1>2. dpc # "stub" => pc[Owner] = "idle"
    BY DEF EnqueueLocals
  <1>3. pc[Owner] = "idle" => Linkers \ {Owner} = Linkers
    OBVIOUS
  <1> QED BY <1>1, <1>2, <1>3 DEF ChainIntact, Distinct

\* A node without a stored successor is the last one, or its linker is pending
\* and, outside the owner's own enqueue, a waker's.
LEMMA PendingLinker ==
    ASSUME QueueInv, pc[Owner] = "idle", next[tail] = Null, Len(chain) > 1
    PROVE  chain[2] \in FifoLinking
  <1>1. 1 \in 1 .. Len(chain) - 1 /\ 1 + 1 = 2
    BY ChainFacts
  <1>2. chain[1] = tail /\ chain[2] \in Nodes /\ chain[2] # Null
    BY <1>1, ChainFacts, QueueAssumption DEF Nodes
  <1>3. \E p \in Threads : LinkDue(p, chain[1], chain[2])
    BY <1>1, <1>2 DEF QueueInv, ChainIntact
  <1> QED BY <1>3 DEF LinkDue, FifoLinking, Linkers

\* An enqueuer's swap and store are the abstract Swap and Link; clearing the
\* node's own link, and the owner putting back its stub, are not seen.
LEMMA RefineEnqueue ==
    ASSUME QueueInv, NEW p \in Threads, Enqueue(p)
    PROVE  Fifo!FifoNext \/ UNCHANGED Fifo!fifoVars
  <1> USE QueueAssumption DEF QueueInv, TypeOK, Nodes, Threads
  <1>1. CASE ClearNext(p)
    <2>1. FifoLinking' = FifoLinking
      BY <1>1 DEF ClearNext, FifoLinking, Linkers
    <2> QED BY <2>1, <1>1 DEF ClearNext, Fifo!fifoVars, FifoLinking
  <1>2. CASE SwapHead(p)
    <2>1. node[p] \in Nodes /\ \A i \in 1 .. Len(chain) : chain[i] # node[p]
      BY <1>2 DEF SwapHead, EnqueueLocals, OneEnqueuer, StubOutsideWhenEnqueued, InChain
    <2>2. CASE p = Owner
      <3>1. node[p] = Stub
        BY <1>2, <2>2 DEF SwapHead, EnqueueLocals
      <3>2. TasksOf(chain') = TasksOf(chain)
        BY <1>2, <2>1, <3>1, ChainFacts, TasksOfAppendStub DEF SwapHead
      <3>3. FifoLinking' = FifoLinking
        BY <1>2, <2>2 DEF SwapHead, FifoLinking, Linkers
      <3> QED BY <1>2, <2>2, <3>2, <3>3 DEF SwapHead, Fifo!fifoVars, FifoLinking
    <2>3. CASE p # Owner
      <3>1. node[p] \in Tasks
        BY <2>1, <2>3 DEF EnqueueLocals
      <3>2. TasksOf(chain') = Append(TasksOf(chain), node[p])
        BY <1>2, <2>1, <3>1, ChainFacts, TasksOfAppend DEF SwapHead
      <3>3. FifoLinking' = FifoLinking \cup {node[p]}
        BY <1>2, <2>3 DEF SwapHead, FifoLinking, Linkers
      <3>4. ~Fifo!Queued(node[p])
        <4>1. CASE \A k \in 1 .. Len(chain) : chain[k] # Stub
          BY <4>1, <2>1, TasksOfNoStub DEF Fifo!Queued
        <4>2. CASE \E k \in 1 .. Len(chain) : chain[k] = Stub
          <5>1. PICK k \in 1 .. Len(chain) : chain[k] = Stub
            BY <4>2
          <5>2. /\ Len(TasksOf(chain)) = Len(chain) - 1
                /\ \A i \in 1 .. Len(chain) - 1 :
                      TasksOf(chain)[i] = IF i < k THEN chain[i] ELSE chain[i + 1]
            BY <5>1, ChainFacts, TasksOfStub
          <5>3. ASSUME NEW i \in 1 .. Len(chain) - 1
                PROVE  TasksOf(chain)[i] # node[p]
            <6>1. i \in 1 .. Len(chain) /\ i + 1 \in 1 .. Len(chain)
              BY ChainFacts
            <6> QED BY <6>1, <5>2, <2>1
          <5> QED BY <5>2, <5>3 DEF Fifo!Queued
        <4> QED BY <4>1, <4>2
      <3>5. PICK t \in Tasks : t = node[p]
        BY <3>1
      <3>6. Fifo!Swap(t)
        BY <1>2, <2>3, <3>2, <3>3, <3>4, <3>5
        DEF SwapHead, Fifo!Swap, Fifo!Queued, FifoLinking
      <3> QED BY <3>6, Zenon DEF Fifo!FifoNext
    <2> QED BY <2>2, <2>3
  <1>3. CASE LinkPrev(p)
    <2>1. CASE p = Owner
      <3>1. FifoLinking' = FifoLinking
        BY <1>3, <2>1 DEF LinkPrev, FifoLinking, Linkers
      <3> QED BY <1>3, <3>1 DEF LinkPrev, Fifo!fifoVars, FifoLinking
    <2>2. CASE p # Owner
      <3>1. node[p] \in Tasks /\ node[p] \in FifoLinking
        BY <1>3, <2>2 DEF LinkPrev, EnqueueLocals, FifoLinking, Linkers
      <3>2. FifoLinking' = FifoLinking \ {node[p]}
        BY <1>3, <2>2 DEF LinkPrev, FifoLinking, Linkers, OneEnqueuer, EnqueueLocals
      <3>3. PICK t \in Tasks : t = node[p]
        BY <3>1
      <3>4. Fifo!Link(t)
        BY <1>3, <3>1, <3>2, <3>3 DEF LinkPrev, Fifo!Link, FifoLinking
      <3> QED BY <3>4, Zenon DEF Fifo!FifoNext
    <2> QED BY <2>1, <2>2
  <1> QED BY <1>1, <1>2, <1>3 DEF Enqueue

\* The task handed out is the oldest one, and no enqueue of it is pending.
LEMMA RefineHand ==
    ASSUME QueueInv, deq.busy, tail # Stub, Hand,
           UNCHANGED <<next, pc, node, prev>>
    PROVE  Fifo!Data
  <1>1. /\ TasksOf(chain) \in Seq(Nodes) /\ Len(TasksOf(chain)) >= 1
        /\ TasksOf(chain)[1] = tail
        /\ TasksOf(chain') = Tail(TasksOf(chain))
    BY ChainFacts, TasksOfTailTask DEF Hand
  <1>2. TasksOf(chain) # <<>> /\ Head(TasksOf(chain)) = tail
    BY <1>1
  <1>3. tail \notin FifoLinking
    <2> SUFFICES ASSUME NEW p \in Linkers, node[p] = tail PROVE FALSE
      BY DEF FifoLinking
    <2>1. PICK i \in 2 .. Len(chain) : chain[i] = chain[1]
      BY ChainFacts
    <2> QED BY <2>1, ChainFacts DEF Distinct
  <1>4. FifoLinking' = FifoLinking
    BY DEF FifoLinking, Linkers
  <1> QED BY <1>1, <1>2, <1>3, <1>4 DEF Hand, Answer, Fifo!Data, Fifo!Answer, FifoLinking

\* Each return of `dequeue` is an abstract answer allowed at that moment; its
\* inner steps are not seen.
LEMMA RefineDequeue ==
    ASSUME QueueInv, Dequeue
    PROVE  Fifo!FifoNext \/ UNCHANGED Fifo!fifoVars
  <1>0. /\ dpc # "idle" <=> deq.busy
        /\ dpc # "stub" => pc[Owner] = "idle"
        /\ AtTask => tail # Stub
        /\ dpc \in {"head", "stub"} => tail # Stub
    BY DEF QueueInv, TypeOK, DequeueLocals, EnqueueLocals, AtTask, Threads
  <1>1. CASE FirstEmpty
    <2>1. FifoLinking' = FifoLinking
      BY <1>1 DEF FirstEmpty, enqVars, FifoLinking, Linkers
    <2>2. TasksOf(chain) # <<>> => Head(TasksOf(chain)) \in FifoLinking
      <3>1. 1 \in 1 .. Len(chain) /\ chain[1] = Stub
        BY <1>1, ChainFacts DEF FirstEmpty
      <3>2. /\ TasksOf(chain) \in Seq(Nodes)
            /\ Len(TasksOf(chain)) = Len(chain) - 1
            /\ \A i \in 1 .. Len(chain) - 1 :
                  TasksOf(chain)[i] = IF i < 1 THEN chain[i] ELSE chain[i + 1]
        BY <3>1, ChainFacts, TasksOfStub
      <3>3. CASE Len(chain) > 1
        <4>1. TasksOf(chain)[1] = chain[2]
          BY <3>2, <3>3, ChainFacts
        <4>2. chain[2] \in FifoLinking
          BY <1>0, <1>1, <3>3, PendingLinker DEF FirstEmpty
        <4> QED BY <3>2, <4>1, <4>2
      <3>4. CASE Len(chain) = 1
        BY <3>2, <3>4
      <3>5. Len(chain) > 1 \/ Len(chain) = 1
        BY ChainFacts
      <3> QED BY <3>3, <3>4, <3>5
    <2>3. Fifo!Empty
      BY <1>0, <1>1, <2>1, <2>2
      DEF FirstEmpty, Answer, enqVars, Fifo!Empty, Fifo!Answer, FifoLinking
    <2> QED BY <2>3 DEF Fifo!FifoNext
  <1>2. CASE SkipStub
    <2>1. TasksOf(chain') = TasksOf(chain)
      BY <1>2, ChainFacts, TasksOfTailStub DEF SkipStub
    <2>2. FifoLinking' = FifoLinking
      BY <1>2 DEF SkipStub, FifoLinking, Linkers
    <2> QED BY <1>2, <2>1, <2>2 DEF SkipStub, Fifo!fifoVars, FifoLinking
  <1>3. CASE HandFirst \/ HandLast
    <2>1. Fifo!Data
      BY <1>0, <1>3, RefineHand DEF HandFirst, HandLast, AtTask
    <2> QED BY <2>1 DEF Fifo!FifoNext
  <1>4. CASE NoSuccessor
    <2>1. FifoLinking' = FifoLinking
      BY <1>4 DEF NoSuccessor, enqVars, FifoLinking, Linkers
    <2> QED BY <1>4, <2>1 DEF NoSuccessor, enqVars, Fifo!fifoVars, FifoLinking
  <1>5. CASE EnqueueStub
    <2>1. FifoLinking' = FifoLinking
      BY <1>0, <1>5 DEF EnqueueStub, StartEnqueue, FifoLinking, Linkers, QueueInv, TypeOK, Threads
    <2> QED BY <1>5, <2>1 DEF EnqueueStub, StartEnqueue, Fifo!fifoVars, FifoLinking
  <1>6. CASE HeadMoved \/ StillPending
    <2>1. FifoLinking' = FifoLinking
      BY <1>6 DEF HeadMoved, StillPending, enqVars, FifoLinking, Linkers
    <2>2. TasksOf(chain) # <<>>
      BY <1>0, <1>6, ChainFacts, TasksOfTailTask DEF HeadMoved, StillPending
    <2>3. deq.busy /\ deq.overlap
      <3>1. CASE HeadMoved
        BY <1>0, <3>1 DEF HeadMoved, QueueInv, DequeueLocals
      <3>2. CASE StillPending
        <4>1. Len(chain) > 1
          <5>1. InChain(Stub) /\ chain[1] # Stub
            BY <1>0, <3>2, ChainFacts DEF StillPending, QueueInv, DequeueLocals
          <5> QED BY <5>1, ChainFacts DEF InChain
        <4>2. FifoLinking # {}
          BY <3>2, <4>1, PendingLinker DEF StillPending
        <4> QED BY <1>0, <3>2, <4>2 DEF StillPending, FifoLinking, QueueInv, DequeueLocals
      <3> QED BY <1>6, <3>1, <3>2
    <2>4. Fifo!Inconsistent
      BY <1>6, <2>1, <2>2, <2>3
      DEF HeadMoved, StillPending, Answer, enqVars, Fifo!Inconsistent, Fifo!Answer, FifoLinking
    <2> QED BY <2>4 DEF Fifo!FifoNext
  <1> QED BY <1>1, <1>2, <1>3, <1>4, <1>5, <1>6 DEF Dequeue

\* Every step of the queue is a step of TaskFifo or is not seen.
LEMMA RefineStep == QueueInv /\ [Next]_vars => [Fifo!FifoNext]_Fifo!fifoVars
  <1> SUFFICES ASSUME QueueInv, [Next]_vars
               PROVE  Fifo!FifoNext \/ UNCHANGED Fifo!fifoVars
    OBVIOUS
  <1>1. ASSUME NEW p \in Enqueuers, NEW t \in Tasks, Claim(p, t)
        PROVE  UNCHANGED Fifo!fifoVars
    <2>1. FifoLinking' = FifoLinking
      BY <1>1 DEF Claim, StartEnqueue, FifoLinking, Linkers, QueueInv, TypeOK, Threads
    <2> QED BY <1>1, <2>1 DEF Claim, Fifo!fifoVars, FifoLinking
  <1>2. CASE StartDequeue
    <2>1. Linkers \ {Owner} = Linkers
      BY <1>2, ChainFacts DEF StartDequeue
    <2>2. FifoLinking' = FifoLinking /\ (FifoLinking = {} <=> Linkers = {})
      BY <1>2, <2>1 DEF StartDequeue, FifoLinking, Linkers
    <2>3. ~deq.busy
      BY <1>2 DEF StartDequeue, QueueInv, DequeueLocals
    <2>4. Fifo!Begin
      BY <1>2, <2>2, <2>3 DEF StartDequeue, Fifo!Begin, FifoLinking
    <2> QED BY <2>4 DEF Fifo!FifoNext
  <1>3. CASE Unqueue
    <2>1. FifoLinking' = FifoLinking
      BY <1>3 DEF Unqueue, enqVars, FifoLinking, Linkers
    <2>2. Fifo!Taken
      BY <1>3, <2>1 DEF Unqueue, enqVars, Fifo!Taken, FifoLinking
    <2> QED BY <2>2 DEF Fifo!FifoNext
  <1>4. CASE UNCHANGED vars
    <2>1. FifoLinking' = FifoLinking
      BY <1>4 DEF vars, FifoLinking, Linkers
    <2> QED BY <1>4, <2>1 DEF vars, Fifo!fifoVars, FifoLinking
  <1> QED BY <1>1, <1>2, <1>3, <1>4, RefineEnqueue, RefineDequeue DEF Next

\* ready_to_run_queue.rs is a first-in first-out queue whose answers to the
\* owner are those of TaskFifo, whatever the number of tasks and of threads.
THEOREM QueueRefinesTaskFifo == Spec => RefinesTaskFifo
  BY RefineInit, RefineStep, QueueCorrect, PTL DEF Spec, RefinesTaskFifo, Fifo!FifoSpec
=============================================================================
