-------------------------- MODULE AllTasksListProofs --------------------------
(***************************************************************************)
(* Proofs about AllTasksList, for any sets of tasks and of threads.  Tasks *)
(* are told apart by their depth: the number of tasks from them to the end *)
(* of the list.  A push leaves it alone, and it is what len_all counts.    *)
(***************************************************************************)
EXTENDS AllTasksList, TLAPS

\* The task at each depth of a list; behind the last there is none.
DepthsOf(s) == [d \in 0 .. Len(s) |-> IF d = 0 THEN Null ELSE s[Len(s) - d + 1]]

Size == Len(linked)
At == DepthsOf(linked)

\* Thread p is inside link with t; nobody sees yet what is behind t; t has not
\* been counted yet.
Linking(t) == \E p \in Threads : pc[p] \in {"linkLen", "linkNext", "linkPrev"} /\ task[p] = t
Hidden(t) == \E p \in Threads : pc[p] \in {"linkLen", "linkNext"} /\ task[p] = t
Uncounted(t) == \E p \in Threads : pc[p] = "linkLen" /\ task[p] = t

Inside(p) == pc[p] \in {"linkLen", "linkNext", "linkPrev"}

\* The list holds no task twice and begins at its head; while somebody has the
\* set to itself nobody is inside a call.
Shape ==
    /\ headAll = At[Size]
    /\ \A c, d \in 1 .. Size : At[c] = At[d] => c = d
    /\ phase # "set" => Exclusive

\* A thread inside link knows its task's successor, and has the task to itself.
Linkers ==
    /\ \A p \in Threads : Inside(p) => \E d \in 1 .. Size : task[p] = At[d] /\ old[p] = At[d - 1]
    /\ \A p, q \in Threads : Inside(p) /\ Inside(q) /\ task[p] = task[q] => p = q

\* A link is right from the moment on at which it is visible.
Links ==
    /\ \A d \in 1 .. Size : nextAll[At[d]] = IF Hidden(At[d]) THEN Pending ELSE At[d - 1]
    /\ \A d \in 1 .. Size - 1 : prevAll[At[d]] = IF Linking(At[d + 1]) THEN Null ELSE At[d + 1]
    /\ Size > 0 => prevAll[At[Size]] = Null
    /\ phase \in {"set", "mut"} =>
          \A t \in Tasks : Unlinked(t) => nextAll[t] = Pending /\ prevAll[t] = Null

\* A visible count is never too low, and exact for the head and for every task
\* from which another one is about to count.
Counts ==
    /\ \A d \in 1 .. Size : Spun(At[d]) => lenAll[At[d]] >= d
    /\ phase \in {"set", "mut"} => \A d \in 1 .. Size :
          Spun(At[d]) /\ (d < Size => Uncounted(At[d + 1])) => lenAll[At[d]] = d
    /\ \A p \in Threads, d \in 1 .. Size :
          pc[p] = "linkNext" /\ task[p] = At[d] => lenAll[At[d]] = d

\* What an iterator still has to yield is the list from some depth on.
Iterators ==
    \A p \in Threads : pc[p] \in {"iterLen", "iter"} =>
        /\ Len(rest[p]) <= Size
        /\ cursor[p] = At[Len(rest[p])]
        /\ \A d \in 1 .. Len(rest[p]) : rest[p][Len(rest[p]) - d + 1] = At[d]
        /\ pc[p] = "iter" => left[p] = Len(rest[p])
        /\ pc[p] = "iterLen" => /\ rest[p] # <<>>
                                /\ Spun(cursor[p]) => lenAll[cursor[p]] = Len(rest[p])

Lent ==
    /\ phase = "iter" => lentLen = Size
    /\ phase = "mut" => lentLen <= Size /\ lentTask = At[lentLen]

\* The inductive invariant.
ListInv == TypeOK /\ Shape /\ Linkers /\ Links /\ Counts /\ Iterators /\ Lent

-----------------------------------------------------------------------------
(* Depths *)

LEMMA DepthsKnown ==
    ASSUME NEW s \in Seq(Tasks)
    PROVE  /\ Len(s) \in Nat
           /\ DepthsOf(s) \in [0 .. Len(s) -> Tasks \cup {Null}]
           /\ DepthsOf(s)[0] = Null
           /\ \A d \in 1 .. Len(s) : DepthsOf(s)[d] \in Tasks /\ DepthsOf(s)[d] # Null
           /\ \A t : (\E i \in 1 .. Len(s) : s[i] = t) <=> \E d \in 1 .. Len(s) : DepthsOf(s)[d] = t
  <1> USE ListAssumption DEF DepthsOf
  <1>1. \A i \in 1 .. Len(s) : s[i] \in Tasks /\ Len(s) - i + 1 \in 1 .. Len(s)
    OBVIOUS
  <1>2. \A d \in 1 .. Len(s) : DepthsOf(s)[d] = s[Len(s) - d + 1]
    OBVIOUS
  <1>3. DepthsOf(s)[0] = Null
    OBVIOUS
  <1>4. DepthsOf(s) \in [0 .. Len(s) -> Tasks \cup {Null}]
    BY <1>1
  <1>5. ASSUME NEW t PROVE (\E i \in 1 .. Len(s) : s[i] = t) <=> \E d \in 1 .. Len(s) : DepthsOf(s)[d] = t
    <2>1. ASSUME NEW i \in 1 .. Len(s), s[i] = t PROVE \E d \in 1 .. Len(s) : DepthsOf(s)[d] = t
      <3>1. Len(s) - (Len(s) - i + 1) + 1 = i
        OBVIOUS
      <3> QED BY <1>1, <1>2, <2>1, <3>1
    <2>2. ASSUME NEW d \in 1 .. Len(s), DepthsOf(s)[d] = t PROVE \E i \in 1 .. Len(s) : s[i] = t
      BY <1>1, <1>2, <2>2
    <2> QED BY <2>1, <2>2
  <1> QED BY <1>1, <1>2, <1>3, <1>4, <1>5

LEMMA DepthsOfCons ==
    ASSUME NEW s \in Seq(Tasks), NEW t \in Tasks, NEW r, r = <<t>> \o s
    PROVE  /\ r \in Seq(Tasks) /\ Len(r) = Len(s) + 1
           /\ DepthsOf(r)[Len(s) + 1] = t
           /\ \A d \in 0 .. Len(s) : DepthsOf(r)[d] = DepthsOf(s)[d]
  <1>1. r \in Seq(Tasks) /\ Len(r) = Len(s) + 1 /\ r[1] = t
    OBVIOUS
  <1>2. \A i \in 1 .. Len(s) : r[i + 1] = s[i]
    OBVIOUS
  <1>3. ASSUME NEW d \in 1 .. Len(s) PROVE r[Len(r) - d + 1] = s[Len(s) - d + 1]
    <2>1. Len(s) - d + 1 \in 1 .. Len(s) /\ Len(r) - d + 1 = (Len(s) - d + 1) + 1
      BY <1>1
    <2> QED BY <1>2, <2>1
  <1> QED BY <1>1, <1>3 DEF DepthsOf

LEMMA DepthsOfTail ==
    ASSUME NEW s \in Seq(Tasks), s # <<>>, NEW r, r = Tail(s)
    PROVE  /\ r \in Seq(Tasks) /\ Len(r) = Len(s) - 1
           /\ \A d \in 0 .. Len(r) : DepthsOf(r)[d] = DepthsOf(s)[d]
  <1>1. r \in Seq(Tasks) /\ Len(r) = Len(s) - 1 /\ Len(s) \in Nat \ {0}
    OBVIOUS
  <1>2. \A i \in 1 .. Len(r) : r[i] = s[i + 1]
    OBVIOUS
  <1>3. ASSUME NEW d \in 1 .. Len(r) PROVE r[Len(r) - d + 1] = s[Len(s) - d + 1]
    <2>1. Len(r) - d + 1 \in 1 .. Len(r) /\ Len(s) - d + 1 = (Len(r) - d + 1) + 1
      BY <1>1
    <2> QED BY <1>2, <2>1
  <1> QED BY <1>1, <1>3 DEF DepthsOf

LEMMA DepthsOfRemoved ==
    ASSUME NEW s \in Seq(Tasks), NEW i \in 1 .. Len(s), NEW r, r = RemoveAt(s, i)
    PROVE  /\ r \in Seq(Tasks) /\ Len(r) = Len(s) - 1
           /\ \A d \in 0 .. Len(r) : DepthsOf(r)[d] = IF d < Len(s) - i + 1 THEN DepthsOf(s)[d]
                                                                           ELSE DepthsOf(s)[d + 1]
  <1> DEFINE a == SubSeq(s, 1, i - 1)
             b == SubSeq(s, i + 1, Len(s))
  <1>1. a \in Seq(Tasks) /\ Len(a) = i - 1 /\ \A j \in 1 .. Len(a) : a[j] = s[j]
    OBVIOUS
  <1>2. b \in Seq(Tasks) /\ Len(b) = Len(s) - i /\ \A j \in 1 .. Len(b) : b[j] = s[i + j]
    <2>1. b \in Seq(Tasks) /\ Len(b) = Len(s) - i
      OBVIOUS
    <2>2. \A j \in 1 .. Len(s) - i : b[j] = s[(i + 1) + j - 1]
      OBVIOUS
    <2>3. \A j \in 1 .. Len(s) - i : (i + 1) + j - 1 = i + j
      OBVIOUS
    <2> QED BY <2>1, <2>2, <2>3
  <1>3. r = a \o b
    BY DEF RemoveAt
  <1> HIDE DEF a, b
  <1>4. r \in Seq(Tasks) /\ Len(r) = Len(s) - 1
    <2>1. a \in Seq(Tasks) /\ b \in Seq(Tasks)
      BY <1>1, <1>2
    <2>2. r \in Seq(Tasks) /\ Len(r) = Len(a) + Len(b)
      BY <1>3, <2>1
    <2> QED BY <1>1, <1>2, <2>2
  <1>5. \A j \in 1 .. Len(r) : r[j] = IF j < i THEN s[j] ELSE s[j + 1]
    <2>1. \A j \in 1 .. Len(a) + Len(b) : r[j] = IF j <= Len(a) THEN a[j] ELSE b[j - Len(a)]
      BY <1>1, <1>2, <1>3
    <2>2. ASSUME NEW j \in 1 .. Len(r), j < i PROVE r[j] = s[j]
      BY <1>1, <1>2, <1>4, <2>1, <2>2
    <2>3. ASSUME NEW j \in 1 .. Len(r), ~(j < i) PROVE r[j] = s[j + 1]
      <3>1. j - Len(a) \in 1 .. Len(b) /\ i + (j - Len(a)) = j + 1 /\ ~(j <= Len(a))
        BY <1>1, <1>2, <1>4, <2>3
      <3>2. b[j - Len(a)] = s[j + 1]
        BY <1>2, <3>1
      <3>3. Len(r) = Len(a) + Len(b)
        BY <1>1, <1>2, <1>4
      <3> QED BY <2>1, <3>1, <3>2, <3>3
    <2> QED BY <2>2, <2>3
  <1>6. ASSUME NEW d \in 1 .. Len(r)
        PROVE  r[Len(r) - d + 1] = IF d < Len(s) - i + 1 THEN s[Len(s) - d + 1] ELSE s[Len(s) - d]
    <2>1. /\ Len(r) - d + 1 \in 1 .. Len(r) /\ Len(r) - d + 1 = Len(s) - d
          /\ (Len(r) - d + 1) + 1 = Len(s) - d + 1
          /\ d < Len(s) - i + 1 <=> ~(Len(r) - d + 1 < i)
      BY <1>4
    <2> QED BY <1>5, <2>1
  <1>7. ASSUME NEW d \in 0 .. Len(r), d # 0
        PROVE  DepthsOf(r)[d] = IF d < Len(s) - i + 1 THEN DepthsOf(s)[d] ELSE DepthsOf(s)[d + 1]
    <2>1. d \in 1 .. Len(r) /\ d \in 0 .. Len(s) /\ d + 1 \in 0 .. Len(s) /\ d + 1 # 0
          /\ Len(s) - (d + 1) + 1 = Len(s) - d
      BY <1>4, <1>7
    <2>2. DepthsOf(r)[d] = r[Len(r) - d + 1]
      BY <2>1 DEF DepthsOf
    <2>3. DepthsOf(s)[d] = s[Len(s) - d + 1] /\ DepthsOf(s)[d + 1] = s[Len(s) - d]
      BY <1>7, <2>1 DEF DepthsOf
    <2> QED BY <1>6, <2>1, <2>2, <2>3
  <1>8. DepthsOf(r)[0] = DepthsOf(s)[0] /\ 0 < Len(s) - i + 1
    BY DEF DepthsOf
  <1> QED BY <1>4, <1>7, <1>8

LEMMA Depths ==
    ASSUME TypeOK
    PROVE  /\ Size \in Nat /\ At[0] = Null
           /\ \A d \in 1 .. Size : At[d] \in Tasks /\ At[d] # Null
           /\ \A t : InList(t) <=> \E d \in 1 .. Size : At[d] = t
  <1>1. linked \in Seq(Tasks)
    BY DEF TypeOK
  <1> QED BY <1>1, DepthsKnown DEF Size, At, InList

-----------------------------------------------------------------------------
(* Where it starts, and what steps leave alone *)

LEMMA InitList == Init => ListInv
  <1> SUFFICES ASSUME Init PROVE ListInv
    OBVIOUS
  <1> USE ListAssumption DEF Init
  <1>1. TypeOK
    BY DEF TypeOK
  <1>2. Size = 0 /\ At[0] = Null /\ \A t : ~InList(t)
    BY DEF Size, At, DepthsOf, InList
  <1>3. Shape
    BY <1>2 DEF Shape
  <1>4. Linkers /\ Iterators /\ Lent
    BY DEF Linkers, Inside, Iterators, Lent
  <1>5. Links /\ Counts
    BY <1>2 DEF Links, Counts, Unlinked
  <1> QED BY <1>1, <1>3, <1>4, <1>5 DEF ListInv

\* Nobody is inside link while somebody has the set to itself.
LEMMA ExclusiveLinks ==
    ASSUME ListInv, Exclusive
    PROVE  /\ \A t : ~Hidden(t) /\ ~Linking(t) /\ ~Uncounted(t)
           /\ \A d \in 1 .. Size : nextAll[At[d]] = At[d - 1] /\ Spun(At[d])
           /\ \A d \in 1 .. Size - 1 : prevAll[At[d]] = At[d + 1]
  <1>1. \A t : ~Hidden(t) /\ ~Linking(t) /\ ~Uncounted(t)
    BY DEF Exclusive, Hidden, Linking, Uncounted
  <1>2. \A d \in 1 .. Size : nextAll[At[d]] = At[d - 1] /\ At[d - 1] # Pending
    <2>1. \A d \in 1 .. Size : nextAll[At[d]] = At[d - 1]
      BY <1>1 DEF ListInv, Links
    <2>2. Size \in Nat /\ At[0] = Null /\ \A d \in 1 .. Size : At[d] \in Tasks
      BY Depths DEF ListInv
    <2>3. \A d \in 1 .. Size : d - 1 = 0 \/ d - 1 \in 1 .. Size
      BY <2>2
    <2> QED BY <2>1, <2>2, <2>3, ListAssumption
  <1>3. \A d \in 1 .. Size - 1 : prevAll[At[d]] = At[d + 1]
    BY <1>1 DEF ListInv, Links
  <1> QED BY <1>1, <1>2, <1>3 DEF Spun

\* A step of an iterator leaves the list and everybody inside link alone.
LEMMA ListFrame ==
    ASSUME ListInv, UNCHANGED <<listVars, linkVars>>,
           \A p \in Threads : Inside(p) \/ Inside(p)' => pc'[p] = pc[p],
           phase' # "set" => Exclusive',
           phase' \in {"set", "mut"} => phase \in {"set", "mut"}
    PROVE  Shape' /\ Linkers' /\ Links' /\ Counts'
  <1>1. /\ headAll' = headAll /\ nextAll' = nextAll /\ prevAll' = prevAll /\ lenAll' = lenAll
        /\ linked' = linked /\ task' = task /\ old' = old
    BY DEF listVars, linkVars
  <1>2. Size' = Size /\ At' = At
    BY <1>1 DEF Size, At
  <1>3. \A p \in Threads : Inside(p)' <=> Inside(p)
    BY DEF Inside
  <1>4. \A t : /\ Hidden(t)' <=> Hidden(t)
               /\ Linking(t)' <=> Linking(t)
               /\ Uncounted(t)' <=> Uncounted(t)
               /\ Unlinked(t)' <=> Unlinked(t)
               /\ Spun(t)' <=> Spun(t)
    BY <1>1 DEF Inside, Hidden, Linking, Uncounted, Unlinked, InList, Spun
  <1>5. Shape'
    BY <1>1, <1>2 DEF ListInv, Shape
  <1>6. Linkers'
    BY <1>1, <1>2, <1>3 DEF ListInv, Linkers
  <1>7. Links'
    BY <1>1, <1>2, <1>4 DEF ListInv, Links
  <1>8. Counts'
    <2>1. \A p \in Threads : pc'[p] = "linkNext" => pc[p] = "linkNext"
      BY DEF Inside
    <2> QED BY <1>1, <1>2, <1>4, <2>1 DEF ListInv, Counts
  <1> QED BY <1>5, <1>6, <1>7, <1>8

\* What iterators see of the list stays, and they stay where they are.
LEMMA IteratorsFrame ==
    ASSUME ListInv, UNCHANGED iterVars,
           Size' \in Nat, Size' >= Size, \A d \in 0 .. Size : At'[d] = At[d],
           \A p \in Threads : pc'[p] \in {"iterLen", "iter"} => pc'[p] = pc[p],
           \A d \in 1 .. Size : nextAll'[At[d]] # Pending =>
               \/ Spun(At[d]) /\ lenAll'[At[d]] = lenAll[At[d]]
               \/ lenAll'[At[d]] = d
    PROVE  Iterators'
  <1>1. rest' = rest /\ left' = left /\ cursor' = cursor
    BY DEF iterVars
  <1> SUFFICES ASSUME NEW p \in Threads, pc'[p] \in {"iterLen", "iter"}
               PROVE  /\ Len(rest[p]) <= Size'
                      /\ cursor[p] = At'[Len(rest[p])]
                      /\ \A d \in 1 .. Len(rest[p]) : rest[p][Len(rest[p]) - d + 1] = At'[d]
                      /\ pc'[p] = "iter" => left[p] = Len(rest[p])
                      /\ pc'[p] = "iterLen" =>
                            /\ rest[p] # <<>>
                            /\ nextAll'[cursor[p]] # Pending => lenAll'[cursor[p]] = Len(rest[p])
    BY <1>1 DEF Iterators, Spun
  <1>2. pc[p] = pc'[p] /\ Size \in Nat /\ rest[p] \in Seq(Tasks) /\ Len(rest[p]) \in Nat
    BY Depths DEF ListInv, TypeOK
  <1>3. /\ Len(rest[p]) <= Size
        /\ cursor[p] = At[Len(rest[p])]
        /\ \A d \in 1 .. Len(rest[p]) : rest[p][Len(rest[p]) - d + 1] = At[d]
        /\ pc[p] = "iter" => left[p] = Len(rest[p])
        /\ pc[p] = "iterLen" => /\ rest[p] # <<>>
                                /\ Spun(cursor[p]) => lenAll[cursor[p]] = Len(rest[p])
    BY <1>2 DEF ListInv, Iterators
  <1>4. Len(rest[p]) \in 0 .. Size /\ \A d \in 1 .. Len(rest[p]) : d \in 0 .. Size
    BY <1>2, <1>3
  <1>5. CASE pc[p] = "iter"
    BY <1>2, <1>3, <1>4, <1>5
  <1>6. CASE pc[p] = "iterLen"
    <2>1. Len(rest[p]) \in 1 .. Size
      BY <1>2, <1>3, <1>6
    <2>2. nextAll'[cursor[p]] # Pending => lenAll'[cursor[p]] = Len(rest[p])
      BY <1>3, <1>6, <2>1
    <2> QED BY <1>2, <1>3, <1>4, <1>6, <2>2
  <1> QED BY <1>2, <1>5, <1>6

\* What an iterator that can go on knows.
LEMMA IterFacts ==
    ASSUME ListInv, NEW p \in Threads,
           pc[p] = "iterLen" \/ (pc[p] = "iter" /\ cursor[p] # Null)
    PROVE  /\ Len(rest[p]) \in 1 .. Size /\ rest[p] # <<>> /\ rest[p] \in Seq(Tasks)
           /\ cursor[p] = At[Len(rest[p])] /\ cursor[p] \in Tasks
           /\ pc[p] = "iter" => left[p] = Len(rest[p])
  <1>1. rest[p] \in Seq(Tasks) /\ Size \in Nat /\ At[0] = Null
    BY Depths DEF ListInv, TypeOK
  <1>2. /\ Len(rest[p]) <= Size /\ cursor[p] = At[Len(rest[p])]
        /\ pc[p] = "iter" => left[p] = Len(rest[p])
        /\ pc[p] = "iterLen" => rest[p] # <<>>
    BY DEF ListInv, Iterators
  <1>3. Len(rest[p]) \in 1 .. Size /\ rest[p] # <<>>
    BY <1>1, <1>2
  <1>4. cursor[p] \in Tasks
    BY <1>2, <1>3, Depths DEF ListInv
  <1> QED BY <1>1, <1>2, <1>3, <1>4

-----------------------------------------------------------------------------
(* unlink *)

\* Where t is, and what its neighbours and the new head are.
LEMMA Detached ==
    ASSUME ListInv, Exclusive, NEW t \in Tasks, InList(t), Detach(t)
    PROVE  \E c \in 1 .. Size :
              LET next == At[c - 1]
                  prev == IF c = Size THEN Null ELSE At[c + 1]
              IN  /\ At[c] = t
                  /\ linked' \in Seq(Tasks) /\ Size' = Size - 1
                  /\ \A d \in 0 .. Size - 1 : At'[d] = IF d < c THEN At[d] ELSE At[d + 1]
                  /\ headAll' = At'[Size - 1]
                  /\ nextAll' \in [Tasks -> Tasks \cup {Null, Pending}]
                  /\ prevAll' \in [Tasks -> Tasks \cup {Null}]
                  /\ lenAll' \in [Tasks -> Nat]
                  /\ nextAll'[t] = Pending /\ prevAll'[t] = Null
                  /\ \A u \in Tasks \ {t} :
                        /\ nextAll'[u] = IF u = prev THEN next ELSE nextAll[u]
                        /\ prevAll'[u] = IF u = next THEN prev ELSE prevAll[u]
                  /\ \A u \in Tasks :
                        lenAll'[u] = IF u = headAll' THEN lenAll[At[Size]] - 1 ELSE lenAll[u]
  <1>1. PICK i \in 1 .. Len(linked) : linked[i] = t /\ linked' = RemoveAt(linked, i)
    BY Zenon DEF Detach, LeavesList
  <1>2. linked \in Seq(Tasks) /\ Size = Len(linked) /\ Size \in Nat
    BY Depths DEF ListInv, TypeOK, Size
  <1> DEFINE c == Size - i + 1
  <1>3. c \in 1 .. Size /\ Size - c + 1 = i
    BY <1>2
  <1>4. At[c] = t
    BY <1>1, <1>2, <1>3 DEF At, DepthsOf
  <1>5. linked' \in Seq(Tasks) /\ Size' = Size - 1
    BY <1>1, <1>2, DepthsOfRemoved DEF Size
  <1>6. \A d \in 0 .. Size - 1 : At'[d] = IF d < c THEN At[d] ELSE At[d + 1]
    BY <1>1, <1>2, <1>5, DepthsOfRemoved DEF At, Size
  <1> HIDE DEF c
  <1>7. nextAll[t] = At[c - 1]
    BY <1>3, <1>4, ExclusiveLinks
  <1>8. prevAll[t] = IF c = Size THEN Null ELSE At[c + 1]
    <2>1. CASE c = Size
      BY <1>2, <1>3, <1>4, <2>1 DEF ListInv, Links
    <2>2. CASE c # Size
      <3>1. c \in 1 .. Size - 1
        BY <1>2, <1>3, <2>2
      <3> QED BY <1>4, <2>2, <3>1, ExclusiveLinks
    <2> QED BY <2>1, <2>2
  <1>9. headAll = At[Size]
    BY DEF ListInv, Shape
  <1>10. headAll' = At'[Size - 1]
    <2>1. headAll' = IF prevAll[t] = Null THEN nextAll[t] ELSE headAll
      BY Zenon DEF Detach
    <2>2. CASE c = Size
      <3>1. At'[Size - 1] = At[c - 1]
        BY <1>2, <1>3, <1>6, <2>2
      <3> QED BY <1>7, <1>8, <2>1, <2>2, <3>1
    <2>3. CASE c # Size
      <3>1. At'[Size - 1] = At[(Size - 1) + 1]
        BY <1>2, <1>3, <1>6, <2>3
      <3>2. At[c + 1] # Null
        <4>1. c + 1 \in 1 .. Size
          BY <1>2, <1>3, <2>3
        <4> QED BY <4>1, Depths DEF ListInv
      <3>3. (Size - 1) + 1 = Size
        BY <1>2
      <3> QED BY <1>8, <1>9, <2>1, <2>3, <3>1, <3>2, <3>3
    <2> QED BY <2>2, <2>3
  <1>11. headAll' = IF prevAll[t] = Null THEN nextAll[t] ELSE headAll
    BY Zenon DEF Detach
  <1>12. /\ nextAll' = [u \in Tasks |-> CASE u = t          -> Pending
                                         [] u = prevAll[t] -> nextAll[t]
                                         [] OTHER          -> nextAll[u]]
         /\ prevAll' = [u \in Tasks |-> CASE u = t          -> Null
                                         [] u = nextAll[t] -> prevAll[t]
                                         [] OTHER          -> prevAll[u]]
         /\ lenAll' = [u \in Tasks |-> IF u = headAll' THEN lenAll[headAll] - 1 ELSE lenAll[u]]
    BY <1>11, Zenon DEF Detach
  <1>13. prevAll[t] # t /\ nextAll[t] # t /\ nextAll[t] \in Tasks \cup {Null}
    <2>1. \A d \in 1 .. Size : At[d] = At[c] => d = c
      BY <1>3 DEF ListInv, Shape
    <2>2. Null # t /\ At[0] = Null /\ \A d \in 1 .. Size : At[d] \in Tasks
      BY Depths, ListAssumption DEF ListInv
    <2>3. c - 1 = 0 \/ c - 1 \in 1 .. Size
      BY <1>2, <1>3
    <2>4. c = Size \/ c + 1 \in 1 .. Size
      BY <1>2, <1>3
    <2>5. c - 1 # c /\ c + 1 # c
      BY <1>2, <1>3
    <2> QED BY <1>4, <1>7, <1>8, <2>1, <2>2, <2>3, <2>4, <2>5
  <1>14. /\ nextAll'[t] = Pending /\ prevAll'[t] = Null
         /\ \A u \in Tasks \ {t} :
               /\ nextAll'[u] = IF u = prevAll[t] THEN nextAll[t] ELSE nextAll[u]
               /\ prevAll'[u] = IF u = nextAll[t] THEN prevAll[t] ELSE prevAll[u]
         /\ \A u \in Tasks :
               lenAll'[u] = IF u = headAll' THEN lenAll[headAll] - 1 ELSE lenAll[u]
    BY <1>12, <1>13
  <1>15. /\ nextAll' \in [Tasks -> Tasks \cup {Null, Pending}]
         /\ prevAll' \in [Tasks -> Tasks \cup {Null}]
         /\ lenAll' \in [Tasks -> Nat]
    <2>1. /\ nextAll \in [Tasks -> Tasks \cup {Null, Pending}]
          /\ prevAll \in [Tasks -> Tasks \cup {Null}]
          /\ lenAll \in [Tasks -> Nat]
      BY DEF ListInv, TypeOK
    <2>2. lenAll[headAll] - 1 \in Nat
      <3>1. Size \in 1 .. Size /\ headAll \in Tasks
        BY <1>2, <1>3, <1>9, Depths DEF ListInv
      <3>2. lenAll[headAll] >= Size
        BY <1>9, <3>1, ExclusiveLinks DEF ListInv, Counts
      <3> QED BY <1>2, <1>3, <2>1, <3>1, <3>2
    <2>3. nextAll' \in [Tasks -> Tasks \cup {Null, Pending}]
      BY <1>12, <1>13, <2>1
    <2>4. prevAll' \in [Tasks -> Tasks \cup {Null}]
      BY <1>12, <1>13, <2>1
    <2>5. lenAll' \in [Tasks -> Nat]
      BY <1>12, <2>1, <2>2
    <2> QED BY <2>3, <2>4, <2>5
  <1>16. /\ nextAll'[t] = Pending /\ prevAll'[t] = Null
         /\ \A u \in Tasks \ {t} :
               /\ nextAll'[u] = IF u = (IF c = Size THEN Null ELSE At[c + 1])
                                THEN At[c - 1] ELSE nextAll[u]
               /\ prevAll'[u] = IF u = At[c - 1]
                                THEN (IF c = Size THEN Null ELSE At[c + 1]) ELSE prevAll[u]
         /\ \A u \in Tasks :
               lenAll'[u] = IF u = headAll' THEN lenAll[At[Size]] - 1 ELSE lenAll[u]
    BY <1>7, <1>8, <1>9, <1>14
  <1> QED BY <1>3, <1>4, <1>5, <1>6, <1>10, <1>15, <1>16, Zenon

\* What unlink leaves behind is a list again, with an exact count at its head.
LEMMA DetachStep ==
    ASSUME ListInv, Exclusive, NEW t \in Tasks, InList(t), Detach(t),
           UNCHANGED <<pc, linkVars>>,
           phase' \in {"set", "mut"} => phase \in {"set", "mut"}
    PROVE  /\ headAll' \in Tasks \cup {Null} /\ linked' \in Seq(Tasks)
           /\ nextAll' \in [Tasks -> Tasks \cup {Null, Pending}]
           /\ prevAll' \in [Tasks -> Tasks \cup {Null}]
           /\ lenAll' \in [Tasks -> Nat]
           /\ Shape' /\ Linkers' /\ Links' /\ Counts'
  <1>1. /\ Size \in Nat /\ At[0] = Null
        /\ \A d \in 1 .. Size : At[d] \in Tasks /\ At[d] # Null
        /\ \A u : InList(u) <=> \E d \in 1 .. Size : At[d] = u
        /\ \A d \in 1 .. Size : nextAll[At[d]] = At[d - 1] /\ Spun(At[d])
        /\ \A d \in 1 .. Size - 1 : prevAll[At[d]] = At[d + 1]
        /\ Size > 0 => prevAll[At[Size]] = Null
        /\ \A b, d \in 1 .. Size : At[b] = At[d] => b = d
        /\ \A d \in 1 .. Size : lenAll[At[d]] >= d
        /\ phase \in {"set", "mut"} /\ Size > 0 => lenAll[At[Size]] = Size
    <2>1. \A d \in 1 .. Size : nextAll[At[d]] = At[d - 1] /\ Spun(At[d])
      BY ExclusiveLinks
    <2>2. \A d \in 1 .. Size - 1 : prevAll[At[d]] = At[d + 1]
      BY ExclusiveLinks
    <2>3. /\ Size \in Nat /\ At[0] = Null
          /\ \A d \in 1 .. Size : At[d] \in Tasks /\ At[d] # Null
          /\ \A u : InList(u) <=> \E d \in 1 .. Size : At[d] = u
      BY Depths DEF ListInv
    <2>4. /\ Size > 0 => prevAll[At[Size]] = Null
          /\ \A b, d \in 1 .. Size : At[b] = At[d] => b = d
      BY DEF ListInv, Shape, Links
    <2>5. /\ \A d \in 1 .. Size : lenAll[At[d]] >= d
          /\ phase \in {"set", "mut"} /\ Size > 0 => lenAll[At[Size]] = Size
      BY <2>1, <2>3 DEF ListInv, Counts
    <2> QED BY <2>1, <2>2, <2>3, <2>4, <2>5
  <1>2. PICK c \in 1 .. Size :
              LET next == At[c - 1]
                  prev == IF c = Size THEN Null ELSE At[c + 1]
              IN  /\ At[c] = t
                  /\ linked' \in Seq(Tasks) /\ Size' = Size - 1
                  /\ \A d \in 0 .. Size - 1 : At'[d] = IF d < c THEN At[d] ELSE At[d + 1]
                  /\ headAll' = At'[Size - 1]
                  /\ nextAll' \in [Tasks -> Tasks \cup {Null, Pending}]
                  /\ prevAll' \in [Tasks -> Tasks \cup {Null}]
                  /\ lenAll' \in [Tasks -> Nat]
                  /\ nextAll'[t] = Pending /\ prevAll'[t] = Null
                  /\ \A u \in Tasks \ {t} :
                        /\ nextAll'[u] = IF u = prev THEN next ELSE nextAll[u]
                        /\ prevAll'[u] = IF u = next THEN prev ELSE prevAll[u]
                  /\ \A u \in Tasks :
                        lenAll'[u] = IF u = headAll' THEN lenAll[At[Size]] - 1 ELSE lenAll[u]
    BY Detached, Zenon
  <1> DEFINE next == At[c - 1]
             prev == IF c = Size THEN Null ELSE At[c + 1]
  <1>3. /\ nextAll'[t] = Pending /\ prevAll'[t] = Null
        /\ \A u \in Tasks \ {t} : nextAll'[u] = IF u = prev THEN next ELSE nextAll[u]
        /\ \A u \in Tasks \ {t} : prevAll'[u] = IF u = next THEN prev ELSE prevAll[u]
    BY <1>2, Zenon
  <1>4. \A u \in Tasks : lenAll'[u] = IF u = headAll' THEN lenAll[At[Size]] - 1 ELSE lenAll[u]
    BY <1>2, Zenon
  <1>5. At[c] = t /\ Size' = Size - 1 /\ headAll' = At'[Size - 1]
    BY <1>2, Zenon
  <1>6. \A d \in 0 .. Size - 1 : At'[d] = IF d < c THEN At[d] ELSE At[d + 1]
    BY <1>2, Zenon
  <1> HIDE DEF next, prev
  <1>8. Exclusive' /\ \A u : ~Linking(u)' /\ ~Hidden(u)' /\ ~Uncounted(u)'
    BY DEF Exclusive, Linking, Hidden, Uncounted
  <1>9. ASSUME NEW d \in 1 .. Size - 1
        PROVE  /\ At'[d] \in Tasks \ {t}
               /\ \E e \in 1 .. Size : e # c /\ At'[d] = At[e] /\ e = IF d < c THEN d ELSE d + 1
    BY <1>1, <1>5, <1>6
  <1>7. /\ headAll' \in Tasks \cup {Null} /\ linked' \in Seq(Tasks)
        /\ nextAll' \in [Tasks -> Tasks \cup {Null, Pending}]
        /\ prevAll' \in [Tasks -> Tasks \cup {Null}]
        /\ lenAll' \in [Tasks -> Nat]
    <2>1. headAll' \in Tasks \cup {Null}
      <3>1. CASE Size - 1 = 0
        BY <1>1, <1>5, <1>6, <3>1
      <3>2. CASE Size - 1 # 0
        <4>1. Size - 1 \in 1 .. Size - 1
          BY <1>1, <3>2
        <4> QED BY <1>5, <1>9, <4>1
      <3> QED BY <3>1, <3>2
    <2> QED BY <1>2, <2>1, Zenon
  <1>10. Shape'
    <2>1. \A b, d \in 1 .. Size - 1 : At'[b] = At'[d] => b = d
      BY <1>1, <1>6, <1>9
    <2>2. phase' # "set" => Exclusive'
      BY <1>8
    <2> QED BY <1>5, <2>1, <2>2 DEF Shape
  <1>11. Linkers'
    BY <1>8 DEF Exclusive, Linkers, Inside
  <1>12. Links'
    <2>1. ASSUME NEW d \in 1 .. Size - 1 PROVE nextAll'[At'[d]] = At'[d - 1]
      <3>1. At'[d] \in Tasks \ {t}
        BY <1>9
      <3>2. d - 1 \in 0 .. Size - 1 /\ d \in 0 .. Size - 1 /\ d \in 1 .. Size /\ d + 1 \in 1 .. Size
        BY <1>1
      <3>3. CASE d < c
        <4>1. At'[d] = At[d] /\ At'[d - 1] = At[d - 1]
          BY <1>1, <1>6, <3>2, <3>3
        <4>2. At[d] # prev
          BY <1>1, <3>2, <3>3 DEF prev
        <4> QED BY <1>1, <1>3, <3>1, <3>2, <4>1, <4>2
      <3>4. CASE d = c
        <4>1. At'[d] = At[c + 1] /\ At'[d - 1] = At[c - 1]
          BY <1>1, <1>6, <3>2, <3>4
        <4>2. At[c + 1] = prev /\ At[c - 1] = next
          BY <1>1, <3>2, <3>4 DEF prev, next
        <4> QED BY <1>3, <3>1, <4>1, <4>2
      <3>5. CASE d > c
        <4>1. At'[d] = At[d + 1] /\ At'[d - 1] = At[d] /\ (d + 1) - 1 = d
          BY <1>1, <1>6, <3>2, <3>5
        <4>2. At[d + 1] # prev
          BY <1>1, <3>2, <3>5 DEF prev
        <4>3. nextAll[At[d + 1]] = At[d]
          BY <1>1, <3>2, <4>1
        <4> QED BY <1>3, <3>1, <4>1, <4>2, <4>3
      <3> QED BY <1>1, <3>3, <3>4, <3>5
    <2>2. ASSUME NEW d \in 1 .. Size - 2 PROVE prevAll'[At'[d]] = At'[d + 1]
      <3>1. d \in 1 .. Size - 1 /\ d + 1 \in 0 .. Size - 1 /\ d \in 1 .. Size /\ d + 1 \in 1 .. Size - 1
            /\ d \in 0 .. Size - 1 /\ d + 1 \in 1 .. Size
        BY <1>1
      <3>2. At'[d] \in Tasks \ {t}
        BY <1>9, <3>1
      <3>3. CASE d < c - 1
        <4>1. At'[d] = At[d] /\ At'[d + 1] = At[d + 1]
          BY <1>1, <1>6, <3>1, <3>3
        <4>2. At[d] # next
          BY <1>1, <3>1, <3>3 DEF next
        <4> QED BY <1>1, <1>3, <3>1, <3>2, <4>1, <4>2
      <3>4. CASE d = c - 1
        <4>1. At'[d] = At[c - 1] /\ At'[d + 1] = At[c + 1]
          BY <1>1, <1>6, <3>1, <3>4
        <4>2. At[c - 1] = next /\ At[c + 1] = prev
          BY <1>1, <3>4 DEF next, prev
        <4> QED BY <1>3, <3>2, <4>1, <4>2
      <3>5. CASE d > c - 1
        <4>1. At'[d] = At[d + 1] /\ At'[d + 1] = At[(d + 1) + 1]
          BY <1>1, <1>6, <3>1, <3>5
        <4>2. At[d + 1] # next
          BY <1>1, <3>1, <3>5 DEF next
        <4> QED BY <1>1, <1>3, <3>1, <3>2, <4>1, <4>2
      <3> QED BY <1>1, <3>3, <3>4, <3>5
    <2>3. ASSUME Size - 1 > 0 PROVE prevAll'[At'[Size - 1]] = Null
      <3>1. Size - 1 \in 1 .. Size - 1 /\ Size \in 1 .. Size /\ Size - 1 \in 0 .. Size - 1
            /\ Size - 1 \in 1 .. Size
        BY <1>1, <2>3
      <3>2. At'[Size - 1] \in Tasks \ {t}
        BY <1>9, <3>1
      <3>3. CASE c = Size
        <4>1. At'[Size - 1] = At[c - 1] /\ At[c - 1] = next /\ prev = Null
          BY <1>1, <1>6, <3>1, <3>3 DEF next, prev
        <4> QED BY <1>3, <3>2, <4>1
      <3>4. CASE c # Size
        <4>1. At'[Size - 1] = At[Size]
          BY <1>1, <1>6, <3>1, <3>4
        <4>2. At[Size] # next
          BY <1>1, <3>1, <3>4 DEF next
        <4> QED BY <1>1, <1>3, <2>3, <3>2, <4>1, <4>2
      <3> QED BY <3>3, <3>4
    <2>4. ASSUME phase' \in {"set", "mut"}, NEW u \in Tasks, Unlinked(u)'
          PROVE  nextAll'[u] = Pending /\ prevAll'[u] = Null
      <3>1. \A d \in 1 .. Size - 1 : At'[d] # u
        <4>1. ~\E i \in 1 .. Len(linked') : linked'[i] = u
          BY <2>4 DEF Unlinked, InList
        <4>2. ~\E d \in 1 .. Len(linked') : DepthsOf(linked')[d] = u
          BY <1>7, <4>1, DepthsKnown
        <4> QED BY <1>5, <4>2 DEF At, Size
      <3>2. ASSUME NEW e \in 1 .. Size, e # c PROVE At[e] # u
        <4>1. CASE e < c
          BY <1>1, <1>6, <3>1, <4>1
        <4>2. CASE e > c
          <5>1. e - 1 \in 1 .. Size - 1 /\ e - 1 \in 0 .. Size - 1 /\ (e - 1) + 1 = e /\ ~(e - 1 < c)
            BY <1>1, <4>2
          <5> QED BY <1>6, <3>1, <5>1
        <4> QED BY <1>1, <3>2, <4>1, <4>2
      <3>3. CASE u = t
        BY <1>3, <3>3
      <3>4. CASE u # t
        <4>1. u # prev /\ u # next
          BY <1>1, <3>2, ListAssumption DEF prev, next
        <4>2. ~InList(u)
          BY <1>1, <1>5, <3>2, <3>4
        <4>3. nextAll[u] = Pending /\ prevAll[u] = Null
          BY <2>4, <4>2 DEF ListInv, Links, Unlinked
        <4> QED BY <1>3, <3>4, <4>1, <4>3
      <3> QED BY <3>3, <3>4
    <2> QED BY <1>1, <1>5, <1>8, <2>1, <2>2, <2>3, <2>4 DEF Links
  <1>13. Counts'
    <2>1. ASSUME NEW d \in 1 .. Size - 1 PROVE lenAll'[At'[d]] >= d
      <3>1. At'[d] \in Tasks
        BY <1>9
      <3>2. PICK e \in 1 .. Size : At'[d] = At[e] /\ e >= d
        BY <1>1, <1>9
      <3>3. lenAll[At[e]] >= d /\ lenAll[At[Size]] - 1 >= d
        <4>1. Size \in 1 .. Size /\ At[e] \in Tasks /\ At[Size] \in Tasks
          BY <1>1
        <4>2. lenAll[At[e]] \in Nat /\ lenAll[At[Size]] \in Nat
          BY <4>1 DEF ListInv, TypeOK
        <4>3. lenAll[At[e]] >= e /\ lenAll[At[Size]] >= Size
          BY <1>1, <4>1
        <4> QED BY <1>1, <3>2, <4>2, <4>3
      <3> QED BY <1>4, <3>1, <3>2, <3>3
    <2>2. ASSUME phase' \in {"set", "mut"}, Size - 1 > 0 PROVE lenAll'[At'[Size - 1]] = Size - 1
      <3>1. At'[Size - 1] \in Tasks
        BY <1>1, <1>9, <2>2
      <3> QED BY <1>1, <1>4, <1>5, <2>2, <3>1
    <2>3. \A p \in Threads : pc'[p] # "linkNext"
      BY <1>8 DEF Exclusive
    <2> QED BY <1>1, <1>5, <1>8, <2>1, <2>2, <2>3 DEF Counts
  <1> QED BY <1>7, <1>10, <1>11, <1>12, <1>13

-----------------------------------------------------------------------------
(* link *)

LEMMA LinkSwapStep ==
    ASSUME ListInv, NEW p \in Threads, NEW t \in Tasks, LinkSwap(p, t)
    PROVE  ListInv'
  <1>1. /\ Size \in Nat /\ At[0] = Null
        /\ \A d \in 1 .. Size : At[d] \in Tasks /\ At[d] # Null
        /\ \A u : InList(u) <=> \E d \in 1 .. Size : At[d] = u
    BY Depths DEF ListInv
  <1>2. linked' \in Seq(Tasks) /\ Size' = Size + 1 /\ At'[Size + 1] = t
        /\ \A d \in 0 .. Size : At'[d] = At[d]
    <2>1. linked \in Seq(Tasks) /\ linked' = <<t>> \o linked
      BY Zenon DEF ListInv, TypeOK, LinkSwap
    <2>2. /\ linked' \in Seq(Tasks) /\ Len(linked') = Len(linked) + 1
          /\ DepthsOf(linked')[Len(linked) + 1] = t
          /\ \A d \in 0 .. Len(linked) : DepthsOf(linked')[d] = DepthsOf(linked)[d]
      <3>1. \A r : r = <<t>> \o linked => /\ r \in Seq(Tasks) /\ Len(r) = Len(linked) + 1
                                          /\ DepthsOf(r)[Len(linked) + 1] = t
                                          /\ \A d \in 0 .. Len(linked) : DepthsOf(r)[d] = DepthsOf(linked)[d]
        BY <2>1, DepthsOfCons
      <3> QED BY <2>1, <3>1
    <2> QED BY <2>2 DEF Size, At
  <1>3. /\ \A d \in 1 .. Size : At[d] # t
        /\ nextAll[t] = Pending /\ prevAll[t] = Null /\ phase = "set"
    <2>1. ~InList(t) /\ phase = "set"
      BY DEF LinkSwap, Unlinked
    <2> QED BY <1>1, <2>1 DEF ListInv, Links, Unlinked
  <1>4. /\ pc[p] = "idle" /\ pc' = [pc EXCEPT ![p] = "linkLen"]
        /\ task' = [task EXCEPT ![p] = t] /\ old' = [old EXCEPT ![p] = headAll]
        /\ headAll' = t /\ UNCHANGED <<nextAll, prevAll, lenAll, iterVars, lentVars>>
    BY Zenon DEF LinkSwap, Goto
  <1>5. TypeOK'
    BY <1>2, <1>4 DEF ListInv, TypeOK, iterVars, lentVars
  <1>6. /\ pc'[p] = "linkLen" /\ task'[p] = t /\ old'[p] = headAll
        /\ \A q \in Threads \ {p} : pc'[q] = pc[q] /\ task'[q] = task[q] /\ old'[q] = old[q]
    BY <1>4 DEF ListInv, TypeOK
  <1>7. \A q \in Threads : Inside(q) => task[q] # t
    BY <1>3 DEF ListInv, Linkers
  <1>8. \A u : /\ Linking(u)' <=> Linking(u) \/ u = t
               /\ Hidden(u)' <=> Hidden(u) \/ u = t
               /\ Uncounted(u)' <=> Uncounted(u) \/ u = t
    BY <1>4, <1>6 DEF Linking, Hidden, Uncounted
  <1>9. Shape'
    <2>1. headAll' = At'[Size']
      BY <1>2, <1>4
    <2>2. \A c, d \in 1 .. Size + 1 : At'[c] = At'[d] => c = d
      <3>1. \A d \in 1 .. Size + 1 : d = Size + 1 \/ d \in 1 .. Size
        BY <1>1
      <3>2. \A d \in 1 .. Size : At'[d] = At[d]
        BY <1>1, <1>2
      <3> QED BY <1>2, <1>3, <3>1, <3>2 DEF ListInv, Shape
    <2>3. phase' = "set"
      BY <1>3, <1>4 DEF lentVars
    <2> QED BY <1>2, <2>1, <2>2, <2>3 DEF Shape
  <1>10. Linkers'
    <2>1. ASSUME NEW q \in Threads, Inside(q)'
          PROVE  \E d \in 1 .. Size + 1 : task'[q] = At'[d] /\ old'[q] = At'[d - 1]
      <3>1. CASE q = p
        <4>1. Size + 1 \in 1 .. Size + 1 /\ (Size + 1) - 1 = Size /\ Size \in 0 .. Size
          BY <1>1
        <4>2. headAll = At[Size]
          BY DEF ListInv, Shape
        <4> QED BY <1>2, <1>6, <3>1, <4>1, <4>2
      <3>2. CASE q # p
        <4>1. Inside(q)
          BY <1>6, <2>1, <3>2 DEF Inside
        <4>2. PICK d \in 1 .. Size : task[q] = At[d] /\ old[q] = At[d - 1]
          BY <4>1 DEF ListInv, Linkers
        <4>3. d \in 0 .. Size /\ d - 1 \in 0 .. Size /\ d \in 1 .. Size + 1
          BY <1>1
        <4> QED BY <1>2, <1>6, <3>2, <4>2, <4>3
      <3> QED BY <3>1, <3>2
    <2>2. ASSUME NEW q \in Threads, NEW r \in Threads, Inside(q)', Inside(r)', task'[q] = task'[r]
          PROVE  q = r
      BY <1>6, <1>7, <2>2 DEF ListInv, Linkers, Inside
    <2> QED BY <1>2, <2>1, <2>2 DEF Linkers
  <1>11. \A d \in 1 .. Size + 1 : d = Size + 1 \/ (d \in 1 .. Size /\ At'[d] = At[d] /\ At'[d - 1] = At[d - 1])
    <2>1. \A d \in 1 .. Size : d \in 0 .. Size /\ d - 1 \in 0 .. Size
      BY <1>1
    <2> QED BY <1>1, <1>2, <2>1
  <1>12. Links'
    <2>1. ASSUME NEW d \in 1 .. Size + 1
          PROVE  (nextAll[At[d]] = IF Hidden(At[d]) THEN Pending ELSE At[d - 1])'
      BY <1>2, <1>3, <1>4, <1>8, <1>11 DEF ListInv, Links
    <2>2. ASSUME NEW d \in 1 .. Size
          PROVE  (prevAll[At[d]] = IF Linking(At[d + 1]) THEN Null ELSE At[d + 1])'
      <3>1. CASE d = Size
        BY <1>1, <1>2, <1>4, <1>8, <3>1 DEF ListInv, Links
      <3>2. CASE d # Size
        <4>1. d \in 1 .. Size - 1 /\ d + 1 \in 1 .. Size /\ d + 1 \in 0 .. Size /\ d \in 0 .. Size
          BY <1>1, <3>2
        <4>2. At'[d] = At[d] /\ At'[d + 1] = At[d + 1] /\ At[d + 1] # t
          BY <1>2, <1>3, <4>1
        <4> QED BY <1>4, <1>8, <4>1, <4>2 DEF ListInv, Links
      <3> QED BY <3>1, <3>2
    <2>3. prevAll'[At'[Size + 1]] = Null
      BY <1>2, <1>3, <1>4
    <2>4. ASSUME NEW u \in Tasks, Unlinked(u)' PROVE nextAll'[u] = Pending /\ prevAll'[u] = Null
      <3>1. ~\E d \in 1 .. Len(linked') : DepthsOf(linked')[d] = u
        <4>1. ~\E i \in 1 .. Len(linked') : linked'[i] = u
          BY <2>4 DEF Unlinked, InList
        <4> QED BY <1>2, <4>1, DepthsKnown
      <3>2. ~\E d \in 1 .. Size + 1 : At'[d] = u
        BY <1>2, <3>1 DEF At, Size
      <3>3. \A d \in 1 .. Size : d \in 1 .. Size + 1 /\ d \in 0 .. Size
        BY <1>1
      <3>4. ~InList(u)
        BY <1>1, <1>2, <3>2, <3>3
      <3> QED BY <1>3, <1>4, <3>4 DEF ListInv, Links, Unlinked
    <2>5. Size' = Size + 1 /\ Size' - 1 = Size
      BY <1>1, <1>2
    <2> QED BY <2>1, <2>2, <2>3, <2>4, <2>5 DEF Links
  <1>13. Counts'
    <2> USE DEF Spun
    <2>2. ~Spun(t)
      BY <1>3
    <2>3. \A d \in 1 .. Size + 1 : (Spun(At[d]) => lenAll[At[d]] >= d)'
      BY <1>2, <1>4, <1>11, <2>2 DEF ListInv, Counts
    <2>4. ASSUME NEW d \in 1 .. Size + 1, Spun(At[d])', d < Size + 1 => Uncounted(At[d + 1])'
          PROVE  lenAll'[At'[d]] = d
      <3>1. d \in 1 .. Size /\ d \in 0 .. Size
        <4>1. d # Size + 1
          BY <1>2, <1>4, <2>2, <2>4
        <4> QED BY <1>1, <4>1
      <3>2. ASSUME d < Size PROVE Uncounted(At[d + 1])
        <4>1. d + 1 \in 1 .. Size /\ d + 1 \in 0 .. Size /\ d < Size + 1
          BY <1>1, <3>1, <3>2
        <4> QED BY <1>2, <1>3, <1>8, <2>4, <4>1
      <3> QED BY <1>2, <1>3, <1>4, <2>4, <3>1, <3>2 DEF ListInv, Counts
    <2>5. ASSUME NEW q \in Threads, NEW d \in 1 .. Size + 1, pc'[q] = "linkNext", task'[q] = At'[d]
          PROVE  lenAll'[At'[d]] = d
      <3>1. q # p /\ pc[q] = "linkNext" /\ task[q] = At'[d]
        BY <1>6, <2>5
      <3>2. At'[d] # t
        BY <1>7, <3>1 DEF Inside
      <3> QED BY <1>2, <1>4, <1>11, <3>1, <3>2 DEF ListInv, Counts
    <2> QED BY <1>2, <2>3, <2>4, <2>5 DEF Counts
  <1>14. Iterators'
    <2>1. \A q \in Threads : pc'[q] \in {"iterLen", "iter"} => pc'[q] = pc[q]
      BY <1>6
    <2>2. Size' \in Nat /\ Size' >= Size /\ UNCHANGED iterVars
      BY <1>1, <1>2, <1>4
    <2> QED BY <1>2, <1>4, <2>1, <2>2, IteratorsFrame DEF Spun
  <1>15. Lent'
    BY <1>3, <1>4 DEF Lent, lentVars
  <1> QED BY <1>5, <1>9, <1>10, <1>12, <1>13, <1>14, <1>15 DEF ListInv

\* Where the task of a thread inside link is; nobody else is inside with it.
LEMMA LinkerAt ==
    ASSUME ListInv, NEW p \in Threads, Inside(p)
    PROVE  /\ phase = "set"
           /\ \E d \in 1 .. Size : task[p] = At[d] /\ old[p] = At[d - 1]
           /\ \A q \in Threads \ {p} : Inside(q) => task[q] # task[p]
           /\ Size \in Nat /\ At[0] = Null
           /\ \A d \in 1 .. Size : At[d] \in Tasks /\ At[d] # Null
           /\ \A c, d \in 1 .. Size : At[c] = At[d] => c = d
           /\ headAll = At[Size]
  <1>1. ~Exclusive
    BY DEF Exclusive, Inside
  <1>2. /\ phase = "set" /\ headAll = At[Size]
        /\ \A c, d \in 1 .. Size : At[c] = At[d] => c = d
    BY <1>1 DEF ListInv, Shape
  <1>3. \E d \in 1 .. Size : task[p] = At[d] /\ old[p] = At[d - 1]
    BY DEF ListInv, Linkers
  <1>4. \A q \in Threads \ {p} : Inside(q) => task[q] # task[p]
    BY DEF ListInv, Linkers
  <1>5. /\ Size \in Nat /\ At[0] = Null
        /\ \A d \in 1 .. Size : At[d] \in Tasks /\ At[d] # Null
    BY Depths DEF ListInv
  <1> QED BY <1>2, <1>3, <1>4, <1>5

LEMMA LinkLenStep ==
    ASSUME ListInv, NEW p \in Threads, LinkLen(p)
    PROVE  ListInv'
  <1>1. Inside(p) /\ pc[p] = "linkLen"
    BY DEF LinkLen, Inside
  <1>2. /\ phase = "set"
        /\ \A q \in Threads \ {p} : Inside(q) => task[q] # task[p]
        /\ Size \in Nat /\ At[0] = Null
        /\ \A e \in 1 .. Size : At[e] \in Tasks /\ At[e] # Null
        /\ \A c, e \in 1 .. Size : At[c] = At[e] => c = e
        /\ headAll = At[Size]
    BY <1>1, LinkerAt
  <1>3. PICK d \in 1 .. Size : task[p] = At[d] /\ old[p] = At[d - 1]
    BY <1>1, LinkerAt
  <1>4. /\ old[p] # Null => Spun(old[p])
        /\ lenAll' = [lenAll EXCEPT ![task[p]] = IF old[p] = Null THEN 1 ELSE lenAll[old[p]] + 1]
        /\ pc' = [pc EXCEPT ![p] = "linkNext"]
        /\ UNCHANGED <<headAll, nextAll, prevAll, linked, linkVars, iterVars, lentVars>>
    BY Zenon DEF LinkLen, Goto
  <1>5. task' = task /\ old' = old /\ phase' = phase /\ Size' = Size /\ At' = At
    BY <1>4 DEF linkVars, lentVars, Size, At
  <1>6. pc'[p] = "linkNext" /\ \A q \in Threads \ {p} : pc'[q] = pc[q]
    BY <1>4 DEF ListInv, TypeOK
  <1>7. Hidden(At[d]) /\ Uncounted(At[d]) /\ nextAll[At[d]] = Pending
    BY <1>1, <1>3 DEF Hidden, Uncounted, ListInv, Links
  <1>8. lenAll'[At[d]] = d /\ \A u \in Tasks \ {At[d]} : lenAll'[u] = lenAll[u]
    <2>1. At[d] \in Tasks /\ lenAll \in [Tasks -> Nat]
      BY <1>2 DEF ListInv, TypeOK
    <2>2. CASE d = 1
      BY <1>2, <1>3, <1>4, <2>1, <2>2
    <2>3. CASE d # 1
      <3>1. d - 1 \in 1 .. Size /\ (d - 1) + 1 = d
        BY <1>2, <2>3
      <3>2. old[p] # Null /\ Spun(At[d - 1])
        BY <1>2, <1>3, <1>4, <3>1
      <3>3. lenAll[At[d - 1]] = d - 1
        BY <1>2, <1>7, <3>1, <3>2 DEF ListInv, Counts
      <3> QED BY <1>2, <1>3, <1>4, <2>1, <3>1, <3>2, <3>3
    <2> QED BY <2>2, <2>3
  <1>9. TypeOK'
    <2>1. At[d] \in Tasks /\ lenAll \in [Tasks -> Nat] /\ old[p] \in Tasks \cup {Null}
      BY <1>2 DEF ListInv, TypeOK
    <2>2. lenAll' \in [Tasks -> Nat]
      BY <1>3, <1>4, <2>1
    <2>3. pc' \in [Threads -> {"idle", "linkLen", "linkNext", "linkPrev", "iterLen", "iter"}]
      BY <1>4 DEF ListInv, TypeOK
    <2> QED BY <1>4, <2>2, <2>3 DEF ListInv, TypeOK, linkVars, iterVars, lentVars
  <1>10. /\ \A q \in Threads : Inside(q)' <=> Inside(q)
         /\ \A u : /\ Hidden(u)' <=> Hidden(u)
                   /\ Linking(u)' <=> Linking(u)
                   /\ Uncounted(u)' => Uncounted(u)
                   /\ Unlinked(u)' <=> Unlinked(u)
                   /\ Spun(u)' <=> Spun(u)
    BY <1>1, <1>4, <1>5, <1>6 DEF Inside, Hidden, Linking, Uncounted, Unlinked, InList, Spun
  <1>11. Shape'
    BY <1>2, <1>4, <1>5 DEF Shape
  <1>12. Linkers'
    BY <1>5, <1>10 DEF ListInv, Linkers
  <1>13. Links'
    BY <1>4, <1>5, <1>10 DEF ListInv, Links
  <1>14. Counts'
    <2>1. ~Spun(At[d])
      BY <1>7 DEF Spun
    <2>2. \A e \in 1 .. Size : Spun(At[e]) => At[e] \in Tasks \ {At[d]}
      BY <1>2, <2>1
    <2>3. \A e \in 1 .. Size : Spun(At[e]) => lenAll'[At[e]] = lenAll[At[e]]
      BY <1>8, <2>2
    <2>4. ASSUME NEW q \in Threads, NEW e \in 1 .. Size, pc'[q] = "linkNext", task[q] = At[e]
          PROVE  lenAll'[At[e]] = e
      <3>1. CASE q = p
        BY <1>2, <1>3, <1>8, <2>4, <3>1
      <3>2. CASE q # p
        <4>1. pc[q] = "linkNext" /\ At[e] # At[d] /\ At[e] \in Tasks
          BY <1>2, <1>3, <1>6, <2>4, <3>2 DEF Inside
        <4> QED BY <1>8, <2>4, <4>1 DEF ListInv, Counts
      <3> QED BY <3>1, <3>2
    <2> QED BY <1>5, <1>10, <2>3, <2>4 DEF ListInv, Counts
  <1>15. Iterators'
    <2>1. \A q \in Threads : pc'[q] \in {"iterLen", "iter"} => pc'[q] = pc[q]
      BY <1>6
    <2>2. \A e \in 1 .. Size : nextAll'[At[e]] # Pending => Spun(At[e]) /\ lenAll'[At[e]] = lenAll[At[e]]
      <3>1. \A e \in 1 .. Size : nextAll'[At[e]] # Pending => At[e] \in Tasks \ {At[d]}
        BY <1>2, <1>4, <1>7
      <3> QED BY <1>4, <1>8, <3>1 DEF Spun
    <2> QED BY <1>2, <1>4, <1>5, <2>1, <2>2, IteratorsFrame
  <1>16. Lent'
    BY <1>2, <1>5 DEF Lent
  <1> QED BY <1>9, <1>11, <1>12, <1>13, <1>14, <1>15, <1>16 DEF ListInv

LEMMA LinkNextStep ==
    ASSUME ListInv, NEW p \in Threads, LinkNext(p)
    PROVE  ListInv'
  <1>1. Inside(p) /\ pc[p] = "linkNext"
    BY DEF LinkNext, Inside
  <1>2. /\ phase = "set"
        /\ \A q \in Threads \ {p} : Inside(q) => task[q] # task[p]
        /\ Size \in Nat /\ At[0] = Null
        /\ \A e \in 1 .. Size : At[e] \in Tasks /\ At[e] # Null
        /\ \A c, e \in 1 .. Size : At[c] = At[e] => c = e
        /\ headAll = At[Size]
    BY <1>1, LinkerAt
  <1>3. PICK d \in 1 .. Size : task[p] = At[d] /\ old[p] = At[d - 1]
    BY <1>1, LinkerAt
  <1>4. /\ nextAll' = [nextAll EXCEPT ![task[p]] = old[p]]
        /\ pc' = [pc EXCEPT ![p] = "linkPrev"]
        /\ UNCHANGED <<headAll, prevAll, lenAll, linked, linkVars, iterVars, lentVars>>
    BY Zenon DEF LinkNext, Goto
  <1>5. task' = task /\ old' = old /\ phase' = phase /\ Size' = Size /\ At' = At
    BY <1>4 DEF linkVars, lentVars, Size, At
  <1>6. pc'[p] = "linkPrev" /\ \A q \in Threads \ {p} : pc'[q] = pc[q]
    BY <1>4 DEF ListInv, TypeOK
  <1>7. nextAll'[At[d]] = At[d - 1] /\ \A u \in Tasks \ {At[d]} : nextAll'[u] = nextAll[u]
    BY <1>2, <1>3, <1>4 DEF ListInv, TypeOK
  <1>8. TypeOK'
    <2>1. nextAll' \in [Tasks -> Tasks \cup {Null, Pending}]
      BY <1>4 DEF ListInv, TypeOK
    <2>2. pc' \in [Threads -> {"idle", "linkLen", "linkNext", "linkPrev", "iterLen", "iter"}]
      BY <1>4 DEF ListInv, TypeOK
    <2> QED BY <1>4, <2>1, <2>2 DEF ListInv, TypeOK, linkVars, iterVars, lentVars
  <1>9. /\ \A q \in Threads : Inside(q)' <=> Inside(q)
        /\ \A u : /\ Hidden(u)' <=> Hidden(u) /\ u # At[d]
                  /\ Linking(u)' <=> Linking(u)
                  /\ Uncounted(u)' <=> Uncounted(u)
                  /\ Unlinked(u)' <=> Unlinked(u)
    <2>1. \A q \in Threads : Inside(q)' <=> Inside(q)
      BY <1>1, <1>6 DEF Inside
    <2>2. \A u : Hidden(u)' <=> Hidden(u) /\ u # At[d]
      BY <1>2, <1>3, <1>5, <1>6 DEF Inside, Hidden
    <2>3. \A u : Linking(u)' <=> Linking(u)
      BY <1>1, <1>5, <1>6 DEF Linking
    <2>4. \A u : Uncounted(u)' <=> Uncounted(u)
      BY <1>1, <1>5, <1>6 DEF Uncounted
    <2>5. \A u : Unlinked(u)' <=> Unlinked(u)
      BY <1>4 DEF Unlinked, InList
    <2> QED BY <2>1, <2>2, <2>3, <2>4, <2>5
  <1>10. Shape'
    BY <1>2, <1>4, <1>5 DEF Shape
  <1>11. Linkers'
    BY <1>5, <1>9 DEF ListInv, Linkers
  <1>12. Links'
    <2>1. ASSUME NEW e \in 1 .. Size
          PROVE  (nextAll[At[e]] = IF Hidden(At[e]) THEN Pending ELSE At[e - 1])'
      BY <1>2, <1>5, <1>7, <1>9 DEF ListInv, Links
    <2>2. ASSUME NEW u \in Tasks, Unlinked(u) PROVE u # At[d]
      BY <2>2, Depths DEF ListInv, Unlinked
    <2> QED BY <1>4, <1>5, <1>7, <1>9, <2>1, <2>2 DEF ListInv, Links
  <1>13. \A e \in 1 .. Size : nextAll'[At[e]] # Pending => e = d \/ Spun(At[e])
    BY <1>2, <1>7 DEF Spun
  <1>14. lenAll[At[d]] = d
    BY <1>1, <1>3 DEF ListInv, Counts
  <1>15. Counts'
    <2>1. \A e \in 1 .. Size : Spun(At[e])' => e = d \/ Spun(At[e])
      BY <1>5, <1>13 DEF Spun
    <2>2. \A e \in 1 .. Size : (Spun(At[e]) => lenAll[At[e]] >= e)'
      BY <1>2, <1>4, <1>5, <1>14, <2>1 DEF ListInv, Counts
    <2>3. \A e \in 1 .. Size : (Spun(At[e]) /\ (e < Size => Uncounted(At[e + 1])) => lenAll[At[e]] = e)'
      BY <1>2, <1>4, <1>5, <1>9, <1>14, <2>1 DEF ListInv, Counts
    <2>4. \A q \in Threads, e \in 1 .. Size : pc'[q] = "linkNext" /\ task[q] = At[e] => lenAll[At[e]] = e
      BY <1>6 DEF ListInv, Counts
    <2> QED BY <1>4, <1>5, <2>2, <2>3, <2>4 DEF Counts
  <1>16. Iterators'
    <2>1. \A q \in Threads : pc'[q] \in {"iterLen", "iter"} => pc'[q] = pc[q]
      BY <1>6
    <2>2. \A e \in 1 .. Size : nextAll'[At[e]] # Pending =>
               \/ Spun(At[e]) /\ lenAll'[At[e]] = lenAll[At[e]]
               \/ lenAll'[At[e]] = e
      BY <1>4, <1>13, <1>14
    <2> QED BY <1>2, <1>4, <1>5, <2>1, <2>2, IteratorsFrame
  <1>17. Lent'
    BY <1>2, <1>5 DEF Lent
  <1> QED BY <1>8, <1>10, <1>11, <1>12, <1>15, <1>16, <1>17 DEF ListInv

LEMMA LinkPrevStep ==
    ASSUME ListInv, NEW p \in Threads, LinkPrev(p)
    PROVE  ListInv'
  <1>1. Inside(p) /\ pc[p] = "linkPrev"
    BY DEF LinkPrev, Inside
  <1>2. /\ phase = "set"
        /\ \A q \in Threads \ {p} : Inside(q) => task[q] # task[p]
        /\ Size \in Nat /\ At[0] = Null
        /\ \A e \in 1 .. Size : At[e] \in Tasks /\ At[e] # Null
        /\ \A c, e \in 1 .. Size : At[c] = At[e] => c = e
        /\ headAll = At[Size]
    BY <1>1, LinkerAt
  <1>3. PICK d \in 1 .. Size : task[p] = At[d] /\ old[p] = At[d - 1]
    BY <1>1, LinkerAt
  <1>4. /\ prevAll' = IF old[p] = Null THEN prevAll ELSE [prevAll EXCEPT ![old[p]] = task[p]]
        /\ task' = [task EXCEPT ![p] = Null] /\ old' = [old EXCEPT ![p] = Null]
        /\ pc' = [pc EXCEPT ![p] = "idle"]
        /\ UNCHANGED <<headAll, nextAll, lenAll, linked, iterVars, lentVars>>
    BY Zenon DEF LinkPrev, Goto
  <1>5. phase' = phase /\ Size' = Size /\ At' = At
    BY <1>4 DEF lentVars, Size, At
  <1>6. pc'[p] = "idle" /\ \A q \in Threads \ {p} : pc'[q] = pc[q] /\ task'[q] = task[q] /\ old'[q] = old[q]
    BY <1>4 DEF ListInv, TypeOK
  <1>7. /\ d > 1 => prevAll'[At[d - 1]] = At[d]
        /\ \A e \in 1 .. Size : e # d - 1 => prevAll'[At[e]] = prevAll[At[e]]
        /\ \A u \in Tasks : Unlinked(u) => prevAll'[u] = prevAll[u]
    <2>1. CASE d = 1
      BY <1>2, <1>3, <1>4, <2>1
    <2>2. CASE d # 1
      <3>1. d - 1 \in 1 .. Size
        BY <1>2, <2>2
      <3>2. prevAll' = [prevAll EXCEPT ![At[d - 1]] = At[d]] /\ At[d - 1] \in Tasks
        BY <1>2, <1>3, <1>4, <3>1
      <3>3. \A u \in Tasks : Unlinked(u) => u # At[d - 1]
        BY <3>1, Depths DEF ListInv, Unlinked
      <3>4. \A e \in 1 .. Size : e # d - 1 => At[e] # At[d - 1] /\ At[e] \in Tasks
        BY <1>2, <3>1
      <3> QED BY <3>2, <3>3, <3>4 DEF ListInv, TypeOK
    <2> QED BY <2>1, <2>2
  <1>8. TypeOK'
    <2>1. prevAll' \in [Tasks -> Tasks \cup {Null}]
      <3>1. task[p] \in Tasks /\ prevAll \in [Tasks -> Tasks \cup {Null}]
        BY <1>2, <1>3 DEF ListInv, TypeOK
      <3> QED BY <1>4, <3>1
    <2>2. /\ pc' \in [Threads -> {"idle", "linkLen", "linkNext", "linkPrev", "iterLen", "iter"}]
          /\ task' \in [Threads -> Tasks \cup {Null}] /\ old' \in [Threads -> Tasks \cup {Null}]
      BY <1>4 DEF ListInv, TypeOK
    <2> QED BY <1>4, <2>1, <2>2 DEF ListInv, TypeOK, iterVars, lentVars
  <1>9. /\ \A q \in Threads : Inside(q)' <=> Inside(q) /\ q # p
        /\ \A u : /\ Hidden(u)' <=> Hidden(u)
                  /\ Linking(u)' <=> Linking(u) /\ u # At[d]
                  /\ Uncounted(u)' <=> Uncounted(u)
                  /\ Unlinked(u)' <=> Unlinked(u)
                  /\ Spun(u)' <=> Spun(u)
    <2>1. \A q \in Threads : Inside(q)' <=> Inside(q) /\ q # p
      BY <1>6 DEF Inside
    <2>2. \A u : Hidden(u)' <=> Hidden(u)
      BY <1>1, <1>6 DEF Hidden
    <2>3. \A u : Linking(u)' <=> Linking(u) /\ u # At[d]
      BY <1>2, <1>3, <1>6 DEF Inside, Linking
    <2>4. \A u : Uncounted(u)' <=> Uncounted(u)
      BY <1>1, <1>6 DEF Uncounted
    <2>5. \A u : (Unlinked(u)' <=> Unlinked(u)) /\ (Spun(u)' <=> Spun(u))
      BY <1>4 DEF Unlinked, InList, Spun
    <2> QED BY <2>1, <2>2, <2>3, <2>4, <2>5
  <1>10. Shape'
    BY <1>2, <1>4, <1>5 DEF Shape
  <1>11. Linkers'
    BY <1>5, <1>6, <1>9 DEF ListInv, Linkers
  <1>12. Links'
    <2>1. ASSUME NEW e \in 1 .. Size - 1
          PROVE  (prevAll[At[e]] = IF Linking(At[e + 1]) THEN Null ELSE At[e + 1])'
      <3>1. CASE e = d - 1
        <4>1. e + 1 = d /\ d > 1
          BY <1>2, <3>1
        <4> QED BY <1>5, <1>7, <1>9, <3>1, <4>1
      <3>2. CASE e # d - 1
        <4>1. e \in 1 .. Size /\ e + 1 \in 1 .. Size /\ e + 1 # d
          BY <1>2, <3>2
        <4>2. At[e + 1] # At[d] /\ prevAll'[At[e]] = prevAll[At[e]]
          BY <1>2, <1>7, <3>2, <4>1
        <4> QED BY <1>5, <1>9, <4>2 DEF ListInv, Links
      <3> QED BY <3>1, <3>2
    <2>2. ASSUME Size > 0 PROVE prevAll'[At[Size]] = Null
      <3>1. Size \in 1 .. Size /\ Size # d - 1
        BY <1>2, <2>2
      <3> QED BY <1>7, <2>2, <3>1 DEF ListInv, Links
    <2> QED BY <1>4, <1>5, <1>7, <1>9, <2>1, <2>2 DEF ListInv, Links
  <1>13. Counts'
    <2>1. \A q \in Threads : pc'[q] = "linkNext" => pc[q] = "linkNext" /\ task'[q] = task[q]
      BY <1>6
    <2> QED BY <1>4, <1>5, <1>9, <2>1 DEF ListInv, Counts
  <1>14. Iterators'
    <2>1. \A q \in Threads : pc'[q] \in {"iterLen", "iter"} => pc'[q] = pc[q]
      BY <1>6
    <2> QED BY <1>2, <1>4, <1>5, <2>1, IteratorsFrame DEF Spun
  <1>15. Lent'
    BY <1>2, <1>5 DEF Lent
  <1> QED BY <1>8, <1>10, <1>11, <1>12, <1>13, <1>14, <1>15 DEF ListInv

-----------------------------------------------------------------------------
(* The shared iterator *)

\* A step of thread p's iterator: it says where p's iterator is afterwards.
LEMMA IterStepFrame ==
    ASSUME ListInv, NEW p \in Threads, pc[p] \in {"idle", "iterLen", "iter"},
           NEW l \in {"idle", "iterLen", "iter"}, pc' = [pc EXCEPT ![p] = l],
           UNCHANGED <<listVars, linkVars, lentVars>>, phase = "set" \/ pc[p] # "idle",
           \A q \in Threads \ {p} : cursor'[q] = cursor[q] /\ left'[q] = left[q] /\ rest'[q] = rest[q],
           cursor' \in [Threads -> Tasks \cup {Null}], left' \in [Threads -> Nat],
           rest' \in [Threads -> Seq(Tasks)],
           l # "idle" =>
                /\ Len(rest'[p]) <= Size
                /\ cursor'[p] = At[Len(rest'[p])]
                /\ \A d \in 1 .. Len(rest'[p]) : rest'[p][Len(rest'[p]) - d + 1] = At[d]
                /\ l = "iter" => left'[p] = Len(rest'[p])
                /\ l = "iterLen" => /\ rest'[p] # <<>>
                                    /\ Spun(cursor'[p]) => lenAll[cursor'[p]] = Len(rest'[p])
    PROVE  ListInv'
  <1>1. pc'[p] = l /\ \A q \in Threads \ {p} : pc'[q] = pc[q]
    BY DEF ListInv, TypeOK
  <1>2. TypeOK'
    <2>1. pc' \in [Threads -> {"idle", "linkLen", "linkNext", "linkPrev", "iterLen", "iter"}]
      BY DEF ListInv, TypeOK
    <2> QED BY <2>1 DEF ListInv, TypeOK, listVars, linkVars, lentVars
  <1>3. phase = "set" /\ phase' = "set"
    <2>1. phase = "set"
      BY DEF ListInv, Shape, Exclusive
    <2> QED BY <2>1 DEF lentVars
  <1>4. Shape' /\ Linkers' /\ Links' /\ Counts'
    <2>1. \A q \in Threads : Inside(q) \/ Inside(q)' => pc'[q] = pc[q]
      BY <1>1 DEF Inside
    <2> QED BY <1>3, <2>1, ListFrame
  <1>5. Iterators'
    <2>1. Size' = Size /\ At' = At /\ nextAll' = nextAll /\ lenAll' = lenAll
      BY DEF Size, At, listVars
    <2>2. \A u : Spun(u)' <=> Spun(u)
      BY <2>1 DEF Spun
    <2> SUFFICES ASSUME NEW q \in Threads, pc'[q] \in {"iterLen", "iter"}
                 PROVE  /\ Len(rest'[q]) <= Size
                        /\ cursor'[q] = At[Len(rest'[q])]
                        /\ \A d \in 1 .. Len(rest'[q]) : rest'[q][Len(rest'[q]) - d + 1] = At[d]
                        /\ pc'[q] = "iter" => left'[q] = Len(rest'[q])
                        /\ pc'[q] = "iterLen" => /\ rest'[q] # <<>>
                                                 /\ Spun(cursor'[q]) => lenAll[cursor'[q]] = Len(rest'[q])
      BY <2>1 DEF Iterators, Spun
    <2>3. CASE q = p
      BY <1>1, <2>3
    <2>4. CASE q # p
      <3>1. /\ pc'[q] = pc[q] /\ cursor'[q] = cursor[q] /\ left'[q] = left[q]
            /\ rest'[q] = rest[q]
        BY <1>1, <2>4
      <3>2. /\ Len(rest[q]) <= Size
            /\ cursor[q] = At[Len(rest[q])]
            /\ \A d \in 1 .. Len(rest[q]) : rest[q][Len(rest[q]) - d + 1] = At[d]
            /\ pc[q] = "iter" => left[q] = Len(rest[q])
            /\ pc[q] = "iterLen" => /\ rest[q] # <<>>
                                    /\ Spun(cursor[q]) => lenAll[cursor[q]] = Len(rest[q])
        BY <3>1 DEF ListInv, Iterators
      <3> QED BY <3>1, <3>2
    <2> QED BY <2>3, <2>4
  <1>6. Lent'
    BY <1>3 DEF Lent
  <1> QED BY <1>2, <1>4, <1>5, <1>6 DEF ListInv

LEMMA IterHeadStep ==
    ASSUME ListInv, NEW p \in Threads, IterHead(p)
    PROVE  ListInv'
  <1>1. /\ pc[p] = "idle" /\ phase = "set" /\ headAll # Null
        /\ cursor' = [cursor EXCEPT ![p] = headAll] /\ rest' = [rest EXCEPT ![p] = linked]
        /\ left' = left /\ pc' = [pc EXCEPT ![p] = "iterLen"]
        /\ UNCHANGED <<listVars, linkVars, lentVars>>
    BY Zenon DEF IterHead, Goto
  <1>2. /\ headAll \in Tasks \cup {Null} /\ linked \in Seq(Tasks)
        /\ cursor \in [Threads -> Tasks \cup {Null}] /\ left \in [Threads -> Nat]
        /\ rest \in [Threads -> Seq(Tasks)]
    BY DEF ListInv, TypeOK
  <1>3. rest'[p] = linked /\ cursor'[p] = headAll /\ Size = Len(linked)
    BY <1>1, <1>2 DEF Size
  <1>4. headAll = At[Size] /\ Size \in Nat /\ At[0] = Null
    BY Depths DEF ListInv, Shape
  <1>5. Size \in 1 .. Size /\ linked # <<>>
    BY <1>1, <1>2, <1>3, <1>4
  <1>6. \A d \in 1 .. Size : linked[Size - d + 1] = At[d]
    BY <1>2, <1>3, <1>4 DEF At, DepthsOf
  <1>7. Spun(headAll) => lenAll[headAll] = Size
    BY <1>1, <1>4, <1>5 DEF ListInv, Counts
  <1>8. /\ cursor' \in [Threads -> Tasks \cup {Null}] /\ left' \in [Threads -> Nat]
        /\ rest' \in [Threads -> Seq(Tasks)]
    BY <1>1, <1>2
  <1>9. \A q \in Threads \ {p} : cursor'[q] = cursor[q] /\ left'[q] = left[q] /\ rest'[q] = rest[q]
    BY <1>1, <1>2
  <1>10. /\ Len(rest'[p]) <= Size /\ cursor'[p] = At[Len(rest'[p])]
         /\ \A d \in 1 .. Len(rest'[p]) : rest'[p][Len(rest'[p]) - d + 1] = At[d]
         /\ rest'[p] # <<>> /\ (Spun(cursor'[p]) => lenAll[cursor'[p]] = Len(rest'[p]))
    BY <1>3, <1>4, <1>5, <1>6, <1>7
  <1> QED BY <1>1, <1>8, <1>9, <1>10, IterStepFrame

LEMMA IterLenStep ==
    ASSUME ListInv, NEW p \in Threads, IterLen(p)
    PROVE  ListInv'
  <1>1. /\ pc[p] = "iterLen" /\ Spun(cursor[p])
        /\ left' = [left EXCEPT ![p] = lenAll[cursor[p]]]
        /\ cursor' = cursor /\ rest' = rest /\ pc' = [pc EXCEPT ![p] = "iter"]
        /\ UNCHANGED <<listVars, linkVars, lentVars>>
    BY Zenon DEF IterLen, Goto
  <1>2. /\ cursor \in [Threads -> Tasks \cup {Null}] /\ left \in [Threads -> Nat]
        /\ rest \in [Threads -> Seq(Tasks)] /\ Len(rest[p]) \in Nat
    BY DEF ListInv, TypeOK
  <1>3. /\ Len(rest[p]) <= Size
        /\ cursor[p] = At[Len(rest[p])]
        /\ \A d \in 1 .. Len(rest[p]) : rest[p][Len(rest[p]) - d + 1] = At[d]
        /\ lenAll[cursor[p]] = Len(rest[p])
    BY <1>1 DEF ListInv, Iterators
  <1>4. /\ left' \in [Threads -> Nat] /\ left'[p] = Len(rest[p])
        /\ \A q \in Threads \ {p} : left'[q] = left[q]
    BY <1>1, <1>2, <1>3
  <1> QED BY <1>1, <1>2, <1>3, <1>4, IterStepFrame

LEMMA IterNextStep ==
    ASSUME ListInv, NEW p \in Threads, IterNext(p)
    PROVE  ListInv'
  <1>1. /\ pc[p] = "iter" /\ cursor[p] # Null /\ Spun(cursor[p])
        /\ cursor' = [cursor EXCEPT ![p] = nextAll[cursor[p]]]
        /\ left' = [left EXCEPT ![p] = left[p] - 1]
        /\ rest' = [rest EXCEPT ![p] = IF rest[p] = <<>> THEN rest[p] ELSE Tail(rest[p])]
        /\ pc' = pc /\ UNCHANGED <<listVars, linkVars, lentVars>>
    BY Zenon DEF IterNext
  <1>2. /\ cursor \in [Threads -> Tasks \cup {Null}] /\ left \in [Threads -> Nat]
        /\ rest \in [Threads -> Seq(Tasks)]
        /\ pc \in [Threads -> {"idle", "linkLen", "linkNext", "linkPrev", "iterLen", "iter"}]
        /\ nextAll \in [Tasks -> Tasks \cup {Null, Pending}]
    BY DEF ListInv, TypeOK
  <1> DEFINE n == Len(rest[p])
  <1>3. /\ n \in 1 .. Size /\ rest[p] # <<>> /\ rest[p] \in Seq(Tasks)
        /\ cursor[p] = At[n] /\ cursor[p] \in Tasks /\ left[p] = n
    BY <1>1, IterFacts
  <1>4. \A d \in 1 .. n : rest[p][n - d + 1] = At[d]
    BY <1>1 DEF ListInv, Iterators
  <1>5. Size \in Nat
    BY Depths DEF ListInv
  <1>6. nextAll[cursor[p]] = At[n - 1] /\ nextAll[cursor[p]] \in Tasks \cup {Null}
    <2>1. nextAll[At[n]] = At[n - 1]
      BY <1>1, <1>3 DEF ListInv, Links, Spun
    <2> QED BY <1>1, <1>2, <1>3, <2>1 DEF Spun
  <1>7. Tail(rest[p]) \in Seq(Tasks) /\ Len(Tail(rest[p])) = n - 1
        /\ \A i \in 1 .. n - 1 : Tail(rest[p])[i] = rest[p][i + 1]
    BY <1>3
  <1>8. rest'[p] = Tail(rest[p]) /\ cursor'[p] = At[n - 1] /\ left'[p] = n - 1
    BY <1>1, <1>2, <1>3, <1>6
  <1>9. \A d \in 1 .. n - 1 : rest'[p][(n - 1) - d + 1] = At[d]
    <2> SUFFICES ASSUME NEW d \in 1 .. n - 1 PROVE rest'[p][(n - 1) - d + 1] = At[d]
      OBVIOUS
    <2>1. (n - 1) - d + 1 \in 1 .. n - 1 /\ ((n - 1) - d + 1) + 1 = n - d + 1 /\ d \in 1 .. n
      BY <1>3, <1>5
    <2> QED BY <1>4, <1>7, <1>8, <2>1
  <1>10. Len(rest'[p]) = n - 1 /\ n - 1 <= Size
    BY <1>3, <1>5, <1>7, <1>8
  <1>11. /\ cursor' \in [Threads -> Tasks \cup {Null}] /\ left' \in [Threads -> Nat]
         /\ rest' \in [Threads -> Seq(Tasks)]
    <2>1. left[p] - 1 \in Nat
      BY <1>3, <1>5
    <2> QED BY <1>1, <1>2, <1>6, <1>7, <2>1
  <1>12. \A q \in Threads \ {p} : cursor'[q] = cursor[q] /\ left'[q] = left[q] /\ rest'[q] = rest[q]
    BY <1>1, <1>2
  <1>13. pc' = [pc EXCEPT ![p] = "iter"]
    BY <1>1, <1>2
  <1> HIDE DEF n
  <1>14. /\ Len(rest'[p]) <= Size /\ cursor'[p] = At[Len(rest'[p])]
         /\ \A d \in 1 .. Len(rest'[p]) : rest'[p][Len(rest'[p]) - d + 1] = At[d]
         /\ left'[p] = Len(rest'[p])
    BY <1>8, <1>9, <1>10
  <1> QED BY <1>1, <1>11, <1>12, <1>13, <1>14, IterStepFrame

LEMMA IterDropStep ==
    ASSUME ListInv, NEW p \in Threads, IterDrop(p)
    PROVE  ListInv'
  <1>1. /\ pc[p] = "iter"
        /\ cursor' = [cursor EXCEPT ![p] = Null] /\ left' = [left EXCEPT ![p] = 0]
        /\ rest' = [rest EXCEPT ![p] = <<>>] /\ pc' = [pc EXCEPT ![p] = "idle"]
        /\ UNCHANGED <<listVars, linkVars, lentVars>>
    BY Zenon DEF IterDrop, Goto
  <1>2. /\ cursor \in [Threads -> Tasks \cup {Null}] /\ left \in [Threads -> Nat]
        /\ rest \in [Threads -> Seq(Tasks)]
    BY DEF ListInv, TypeOK
  <1>3. /\ cursor' \in [Threads -> Tasks \cup {Null}] /\ left' \in [Threads -> Nat]
        /\ rest' \in [Threads -> Seq(Tasks)]
    BY <1>1, <1>2
  <1>4. \A q \in Threads \ {p} : cursor'[q] = cursor[q] /\ left'[q] = left[q] /\ rest'[q] = rest[q]
    BY <1>1, <1>2
  <1> QED BY <1>1, <1>3, <1>4, IterStepFrame

-----------------------------------------------------------------------------
(* Under exclusive access *)

LEMMA UnlinkStep ==
    ASSUME ListInv, NEW t \in Tasks, Unlink(t) \/ (DropHead /\ t = headAll)
    PROVE  ListInv'
  <1>1. /\ Exclusive /\ InList(t) /\ Detach(t)
        /\ UNCHANGED <<pc, linkVars, iterVars, lentTask, lentLen>>
        /\ \/ phase = "set" /\ phase' = "set"
           \/ phase' = "dropped"
    <2>1. CASE Unlink(t)
      BY <2>1, Zenon DEF Unlink, lentVars
    <2>2. CASE DropHead /\ t = headAll
      <3>1. Size \in Nat /\ headAll = At[Size] /\ At[0] = Null /\ headAll # Null
        BY <2>2, Depths DEF DropHead, ListInv, Shape
      <3>2. InList(t)
        BY <2>2, <3>1, Depths DEF ListInv
      <3> QED BY <2>2, <3>2, Zenon DEF DropHead
    <2> QED BY <2>1, <2>2
  <1>2. /\ headAll' \in Tasks \cup {Null} /\ linked' \in Seq(Tasks)
        /\ nextAll' \in [Tasks -> Tasks \cup {Null, Pending}]
        /\ prevAll' \in [Tasks -> Tasks \cup {Null}]
        /\ lenAll' \in [Tasks -> Nat]
        /\ Shape' /\ Linkers' /\ Links' /\ Counts'
    BY <1>1, DetachStep
  <1>3. TypeOK'
    BY <1>1, <1>2 DEF ListInv, TypeOK, linkVars, iterVars
  <1>4. Iterators' /\ Lent'
    BY <1>1 DEF Exclusive, Iterators, Lent
  <1> QED BY <1>2, <1>3, <1>4 DEF ListInv

\* Exclusive access that leaves the list alone.
LEMMA LentStep ==
    ASSUME ListInv, Exclusive, UNCHANGED <<listVars, pc, linkVars, iterVars>>,
           phase' \in {"set", "mut", "iter"}, phase \in {"set", "mut"},
           lentTask' \in Tasks \cup {Null}, lentLen' \in Nat, Lent'
    PROVE  ListInv'
  <1>1. TypeOK'
    BY DEF ListInv, TypeOK, listVars, linkVars, iterVars
  <1>2. Shape' /\ Linkers' /\ Links' /\ Counts'
    BY ListFrame DEF Exclusive
  <1>3. Iterators'
    BY DEF Exclusive, Iterators
  <1> QED BY <1>1, <1>2, <1>3 DEF ListInv

\* With exclusive access the head's count is the length.
LEMMA HeadLenExact ==
    ASSUME ListInv, Exclusive, phase \in {"set", "mut"}
    PROVE  HeadLen = Size /\ headAll = At[Size] /\ Size \in Nat /\ headAll \in Tasks \cup {Null}
  <1>1. /\ Size \in Nat /\ At[0] = Null /\ headAll = At[Size] /\ headAll \in Tasks \cup {Null}
        /\ \A d \in 1 .. Size : At[d] # Null
    BY Depths DEF ListInv, Shape, TypeOK
  <1>2. CASE Size = 0
    BY <1>1, <1>2 DEF HeadLen
  <1>3. CASE Size # 0
    <2>1. Size \in 1 .. Size
      BY <1>1, <1>3
    <2>2. lenAll[At[Size]] = Size
      BY <2>1, ExclusiveLinks DEF ListInv, Counts
    <2> QED BY <1>1, <2>1, <2>2 DEF HeadLen
  <1> QED BY <1>1, <1>2, <1>3

LEMMA IterPinMutStep ==
    ASSUME ListInv, IterPinMut \/ IterPinMutNext \/ IterPinMutDrop \/ IntoIter
    PROVE  ListInv'
  <1>1. CASE IterPinMut
    <2>1. /\ Exclusive /\ phase = "set" /\ phase' = "mut" /\ lentTask' = headAll
          /\ lentLen' = HeadLen /\ UNCHANGED <<listVars, pc, linkVars, iterVars>>
      BY <1>1, Zenon DEF IterPinMut
    <2>2. HeadLen = Size /\ headAll = At[Size] /\ Size \in Nat /\ headAll \in Tasks \cup {Null}
      BY <2>1, HeadLenExact
    <2>3. Size' = Size /\ At' = At
      BY <2>1 DEF Size, At, listVars
    <2>4. Lent'
      BY <2>1, <2>2, <2>3 DEF Lent
    <2> QED BY <2>1, <2>2, <2>4, LentStep
  <1>2. CASE IterPinMutNext
    <2>1. /\ phase = "mut" /\ phase' = "mut" /\ lentTask # Null /\ lentTask' = nextAll[lentTask]
          /\ lentLen' = lentLen - 1 /\ UNCHANGED <<listVars, pc, linkVars, iterVars>>
      BY <1>2, Zenon DEF IterPinMutNext
    <2>2. Exclusive
      BY <2>1 DEF ListInv, Shape
    <2>3. /\ lentLen \in Nat /\ lentLen <= Size /\ lentTask = At[lentLen]
          /\ Size \in Nat /\ At[0] = Null
          /\ \A d \in 1 .. Size : At[d] \in Tasks
      BY <2>1, Depths DEF ListInv, TypeOK, Lent
    <2>4. lentLen \in 1 .. Size
      BY <2>1, <2>3
    <2>5. nextAll[lentTask] = At[lentLen - 1]
      BY <2>2, <2>3, <2>4, ExclusiveLinks
    <2>6. lentLen - 1 \in Nat /\ lentLen - 1 <= Size /\ (lentLen - 1 = 0 \/ lentLen - 1 \in 1 .. Size)
      BY <2>3, <2>4
    <2>7. lentTask' \in Tasks \cup {Null} /\ lentLen' \in Nat
      BY <2>1, <2>3, <2>5, <2>6
    <2>8. Size' = Size /\ At' = At
      BY <2>1 DEF Size, At, listVars
    <2>9. Lent'
      BY <2>1, <2>5, <2>6, <2>8 DEF Lent
    <2> QED BY <2>1, <2>2, <2>7, <2>9, LentStep
  <1>3. CASE IterPinMutDrop
    <2>1. /\ phase = "mut" /\ phase' = "set" /\ lentTask' = Null /\ lentLen' = 0
          /\ UNCHANGED <<listVars, pc, linkVars, iterVars>>
      BY <1>3, Zenon DEF IterPinMutDrop
    <2>2. Exclusive
      BY <2>1 DEF ListInv, Shape
    <2>3. Lent'
      BY <2>1 DEF Lent
    <2> QED BY <2>1, <2>2, <2>3, LentStep
  <1>4. CASE IntoIter
    <2>1. /\ Exclusive /\ phase = "set" /\ phase' = "iter" /\ lentTask' = lentTask
          /\ lentLen' = HeadLen /\ UNCHANGED <<listVars, pc, linkVars, iterVars>>
      BY <1>4, Zenon DEF IntoIter
    <2>2. HeadLen = Size /\ Size \in Nat
      BY <2>1, HeadLenExact
    <2>3. Size' = Size
      BY <2>1 DEF Size, listVars
    <2>4. Lent' /\ lentTask' \in Tasks \cup {Null}
      BY <2>1, <2>2, <2>3 DEF Lent, ListInv, TypeOK
    <2> QED BY <2>1, <2>2, <2>4, LentStep
  <1> QED BY <1>1, <1>2, <1>3, <1>4

LEMMA IntoIterStep ==
    ASSUME ListInv, IntoIterNext
    PROVE  ListInv'
  <1>1. /\ phase = "iter" /\ headAll # Null /\ headAll' = nextAll[headAll]
        /\ prevAll' = [t \in Tasks |-> IF t = nextAll[headAll] THEN Null ELSE prevAll[t]]
        /\ lentLen' = lentLen - 1 /\ linked' = Tail(linked)
        /\ UNCHANGED <<nextAll, lenAll, pc, linkVars, iterVars, phase, lentTask>>
    BY Zenon DEF IntoIterNext
  <1>2. Exclusive /\ lentLen = Size /\ headAll = At[Size] /\ \A c, d \in 1 .. Size : At[c] = At[d] => c = d
    BY <1>1 DEF ListInv, Shape, Lent
  <1>3. /\ Size \in Nat /\ At[0] = Null /\ Size = Len(linked) /\ linked \in Seq(Tasks)
        /\ \A d \in 1 .. Size : At[d] \in Tasks /\ At[d] # Null
    BY Depths DEF ListInv, TypeOK, Size
  <1>4. Size \in 1 .. Size
    BY <1>1, <1>2, <1>3
  <1>5. linked' \in Seq(Tasks) /\ Size' = Size - 1 /\ \A d \in 0 .. Size - 1 : At'[d] = At[d]
    <2>1. linked # <<>>
      BY <1>3, <1>4
    <2>2. \A r : r = Tail(linked) =>
             /\ r \in Seq(Tasks) /\ Len(r) = Len(linked) - 1
             /\ \A d \in 0 .. Len(r) : DepthsOf(r)[d] = DepthsOf(linked)[d]
      BY <1>3, <2>1, DepthsOfTail
    <2>3. /\ linked' \in Seq(Tasks) /\ Len(linked') = Len(linked) - 1
          /\ \A d \in 0 .. Len(linked') : DepthsOf(linked')[d] = DepthsOf(linked)[d]
      BY <1>1, <2>2
    <2> QED BY <2>3 DEF Size, At
  <1>6. headAll' = At[Size - 1] /\ headAll' = At'[Size - 1] /\ (Size - 1 = 0 \/ Size - 1 \in 1 .. Size)
    <2>1. nextAll[At[Size]] = At[Size - 1]
      BY <1>2, <1>4, ExclusiveLinks
    <2> QED BY <1>1, <1>2, <1>3, <1>4, <1>5, <2>1
  <1>7. TypeOK'
    <2>1. headAll' \in Tasks \cup {Null} /\ lentLen' \in Nat
      <3>1. headAll' \in Tasks \cup {Null}
        BY <1>3, <1>6
      <3>2. lentLen' = Size - 1
        BY <1>1, <1>2
      <3> QED BY <1>4, <3>1, <3>2
    <2>2. prevAll' \in [Tasks -> Tasks \cup {Null}]
      BY <1>1 DEF ListInv, TypeOK
    <2> QED BY <1>1, <1>5, <2>1, <2>2 DEF ListInv, TypeOK, linkVars, iterVars
  <1>8. \A d \in 1 .. Size - 1 : At'[d] = At[d] /\ At'[d - 1] = At[d - 1] /\ d \in 1 .. Size
    BY <1>3, <1>5
  <1>9. Exclusive' /\ \A u : ~Linking(u)' /\ ~Hidden(u)' /\ ~Uncounted(u)'
    BY <1>1, <1>2 DEF Exclusive, Linking, Hidden, Uncounted
  <1>10. Shape'
    BY <1>2, <1>5, <1>6, <1>8, <1>9 DEF Shape
  <1>11. Linkers' /\ Iterators'
    BY <1>9 DEF Exclusive, Linkers, Iterators, Inside
  <1>12. Links'
    <2>1. ASSUME NEW d \in 1 .. Size - 1 PROVE nextAll'[At'[d]] = At'[d - 1]
      BY <1>1, <1>2, <1>8, ExclusiveLinks
    <2>2. ASSUME NEW d \in 1 .. Size - 2 PROVE prevAll'[At'[d]] = At'[d + 1]
      <3>1. d \in 1 .. Size - 1 /\ d + 1 \in 1 .. Size - 1 /\ d \in 1 .. Size /\ Size - 1 \in 1 .. Size /\ d # Size - 1
        BY <1>3
      <3>2. prevAll[At[d]] = At[d + 1]
        BY <1>2, <3>1, ExclusiveLinks
      <3>3. At[d] # nextAll[headAll] /\ At[d] \in Tasks
        BY <1>1, <1>2, <1>3, <1>6, <3>1
      <3> QED BY <1>1, <1>8, <3>1, <3>2, <3>3
    <2>3. ASSUME Size - 1 > 0 PROVE prevAll'[At'[Size - 1]] = Null
      <3>1. Size - 1 \in 1 .. Size - 1 /\ Size - 1 \in 1 .. Size
        BY <1>3, <2>3
      <3>2. At'[Size - 1] = nextAll[headAll] /\ At'[Size - 1] \in Tasks
        BY <1>1, <1>3, <1>6, <1>8, <3>1
      <3> QED BY <1>1, <3>2
    <2>4. phase' = "iter" /\ Size' = Size - 1 /\ Size' - 1 = Size - 2
      BY <1>1, <1>3, <1>5
    <2> QED BY <1>9, <2>1, <2>2, <2>3, <2>4 DEF Links
  <1>13. Counts'
    <2>1. \A d \in 1 .. Size : lenAll[At[d]] >= d
      BY <1>2, ExclusiveLinks DEF ListInv, Counts
    <2>2. \A p \in Threads : pc'[p] # "linkNext"
      BY <1>9 DEF Exclusive
    <2> QED BY <1>1, <1>5, <1>8, <2>1, <2>2 DEF Counts
  <1>14. Lent'
    BY <1>1, <1>2, <1>5 DEF Lent
  <1> QED BY <1>7, <1>10, <1>11, <1>12, <1>13, <1>14 DEF ListInv

-----------------------------------------------------------------------------
(* The results *)

\* Positions from the front and depths.
LEMMA Positions ==
    ASSUME ListInv
    PROVE  /\ Size \in Nat /\ Size = Len(linked)
           /\ \A i \in 1 .. Size : linked[i] = At[Size - i + 1]
           /\ \A i \in 0 .. Size : Behind(i) = At[Size - i]
  <1>1. Size \in Nat /\ Size = Len(linked) /\ linked \in Seq(Tasks)
    BY Depths DEF ListInv, TypeOK, Size
  <1>2. ASSUME NEW d \in 1 .. Size PROVE At[d] = linked[Size - d + 1]
    BY <1>1 DEF At, DepthsOf
  <1>3. ASSUME NEW i \in 1 .. Size PROVE linked[i] = At[Size - i + 1]
    <2>1. Size - i + 1 \in 1 .. Size /\ Size - (Size - i + 1) + 1 = i
      BY <1>1
    <2> QED BY <1>2, <2>1
  <1>4. ASSUME NEW i \in 0 .. Size PROVE Behind(i) = At[Size - i]
    <2>1. CASE i = Size
      BY <1>1, <2>1, Depths DEF Behind, ListInv
    <2>2. CASE i # Size
      <3>1. i + 1 \in 1 .. Size /\ Size - (i + 1) + 1 = Size - i
        BY <1>1, <2>2
      <3> QED BY <1>1, <1>3, <2>2, <3>1 DEF Behind
    <2> QED BY <2>1, <2>2
  <1> QED BY <1>1, <1>3, <1>4

LEMMA ListStep ==
    ASSUME ListInv, [Next]_vars
    PROVE  ListInv'
  <1>1. CASE UNCHANGED vars
    BY <1>1 DEF ListInv, vars, listVars, linkVars, iterVars, lentVars, TypeOK, Shape, Linkers, Links,
                Counts, Iterators, Lent, Exclusive, Inside, Hidden, Linking, Uncounted, Unlinked,
                InList, Spun, Size, At
  <1>2. ASSUME NEW p \in Threads, Spin(p) PROVE ListInv'
    BY <1>1, <1>2 DEF Spin
  <1>3. ASSUME Finished PROVE ListInv'
    BY <1>1, <1>3 DEF Finished
  <1>4. ASSUME DropHead PROVE ListInv'
    <2>1. headAll \in Tasks
      BY <1>4 DEF DropHead, ListInv, TypeOK
    <2> QED BY <1>4, <2>1, UnlinkStep
  <1> QED BY <1>1, <1>2, <1>3, <1>4, LinkSwapStep, LinkLenStep, LinkNextStep, LinkPrevStep,
             IterHeadStep, IterLenStep, IterNextStep, IterDropStep, UnlinkStep, IterPinMutStep,
             IntoIterStep, Zenon
          DEF Next, LinkStep, IterStep

\* The inductive invariant holds for ever (futures_unordered/mod.rs, iter.rs).
THEOREM ListCorrect == Spec => []ListInv
  <1> QED BY InitList, ListStep, PTL DEF Spec

\* Every variable keeps its type; in particular no iterator's length falls below
\* zero (iter.rs).
THEOREM TypeCorrect == Spec => []TypeOK
  <1>1. ListInv => TypeOK
    BY DEF ListInv
  <1> QED BY <1>1, ListCorrect, PTL

\* Whatever order the links were stored in and whichever tasks were unlinked,
\* the list is complete in both directions and its length exact (link, unlink).
THEOREM ListStaysIntact == Spec => []ListIntact
  <1>1. ASSUME ListInv PROVE LinksIntact
    <2> SUFFICES ASSUME Exclusive
                 PROVE  /\ headAll = (IF linked = <<>> THEN Null ELSE linked[1])
                        /\ \A i \in 1 .. Len(linked) :
                              /\ nextAll[linked[i]] = Behind(i)
                              /\ prevAll[linked[i]] = (IF i = 1 THEN Null ELSE linked[i - 1])
      BY <1>1 DEF LinksIntact, ListInv, Links
    <2>1. headAll = Behind(0)
      BY <1>1, Positions DEF ListInv, Shape
    <2>2. headAll = (IF linked = <<>> THEN Null ELSE linked[1])
      BY <1>1, <2>1 DEF Behind, ListInv, TypeOK
    <2>3. ASSUME NEW i \in 1 .. Len(linked)
          PROVE  /\ nextAll[linked[i]] = Behind(i)
                 /\ prevAll[linked[i]] = (IF i = 1 THEN Null ELSE linked[i - 1])
      <3>1. /\ Size \in Nat /\ Size = Len(linked)
            /\ \A j \in 1 .. Size : linked[j] = At[Size - j + 1]
            /\ Behind(i) = At[Size - i]
        BY <1>1, Positions
      <3>2. Size - i + 1 \in 1 .. Size /\ (Size - i + 1) - 1 = Size - i
        BY <3>1
      <3>3. nextAll[linked[i]] = Behind(i)
        BY <1>1, <3>1, <3>2, ExclusiveLinks
      <3>4. CASE i = 1
        BY <1>1, <3>1, <3>3, <3>4 DEF ListInv, Links
      <3>5. CASE i # 1
        <4>1. /\ i - 1 \in 1 .. Size /\ Size - i + 1 \in 1 .. Size - 1
              /\ Size - (i - 1) + 1 = (Size - i + 1) + 1
          BY <3>1, <3>5
        <4>2. prevAll[At[Size - i + 1]] = At[(Size - i + 1) + 1]
          BY <1>1, <4>1, ExclusiveLinks
        <4> QED BY <3>1, <3>3, <3>5, <4>1, <4>2
      <3> QED BY <3>4, <3>5
    <2> QED BY <2>2, <2>3
  <1>2. ASSUME ListInv PROVE HeadCountsAll
    <2>1. /\ Size \in Nat /\ Size = Len(linked) /\ headAll = At[Size] /\ At[0] = Null
      BY <1>2, Positions, Depths DEF ListInv, Shape
    <2>2. headAll # Null => Size \in 1 .. Size
      BY <2>1
    <2> QED BY <1>2, <2>1, <2>2 DEF HeadCountsAll, ListInv, Counts
  <1>3. ListInv => ListIntact
    BY <1>1, <1>2 DEF ListIntact
  <1> QED BY <1>3, ListCorrect, PTL

\* Every iterator yields what was in the list when it was made, and its length is
\* exact, while others push (iter_pin_ref, iter_pin_mut, into_iter).
THEOREM IteratorsStayExact == Spec => []IteratorsExact
  <1>1. ListInv => IteratorsExact
    <2> SUFFICES ASSUME ListInv PROVE IteratorsExact
      OBVIOUS
    <2>1. /\ Size \in Nat /\ Size = Len(linked) /\ At[0] = Null
          /\ \A i \in 0 .. Size : Behind(i) = At[Size - i]
      BY Positions, Depths DEF ListInv
    <2>2. ASSUME NEW p \in Threads, pc[p] = "iter"
          PROVE  /\ left[p] = Len(rest[p])
                 /\ cursor[p] = (IF rest[p] = <<>> THEN Null ELSE rest[p][1])
      <3>1. /\ left[p] = Len(rest[p]) /\ cursor[p] = At[Len(rest[p])]
            /\ \A d \in 1 .. Len(rest[p]) : rest[p][Len(rest[p]) - d + 1] = At[d]
        BY <2>2 DEF ListInv, Iterators
      <3>2. rest[p] \in Seq(Tasks) /\ Len(rest[p]) \in Nat
        BY DEF ListInv, TypeOK
      <3>3. CASE rest[p] = <<>>
        BY <2>1, <3>1, <3>3
      <3>4. CASE rest[p] # <<>>
        <4>1. Len(rest[p]) \in 1 .. Len(rest[p]) /\ Len(rest[p]) - Len(rest[p]) + 1 = 1
          BY <3>2, <3>4
        <4>2. rest[p][1] = At[Len(rest[p])]
          BY <3>1, <4>1
        <4> QED BY <3>1, <3>4, <4>2
      <3> QED BY <3>3, <3>4
    <2>3. phase = "iter" => lentLen = Len(linked)
      BY <2>1 DEF ListInv, Lent
    <2>4. ASSUME phase = "mut" PROVE lentLen <= Len(linked) /\ lentTask = Behind(Len(linked) - lentLen)
      <3>1. lentLen \in Nat /\ lentLen <= Size /\ lentTask = At[lentLen]
        BY <2>4 DEF ListInv, TypeOK, Lent
      <3>2. Size - lentLen \in 0 .. Size /\ Size - (Size - lentLen) = lentLen
        BY <2>1, <3>1
      <3> QED BY <2>1, <3>1, <3>2
    <2> QED BY <2>2, <2>3, <2>4 DEF IteratorsExact
  <1> QED BY <1>1, ListCorrect, PTL
=============================================================================
