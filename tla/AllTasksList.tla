----------------------------- MODULE AllTasksList -----------------------------
(***************************************************************************)
(* The list of all tasks of FuturesUnordered (`head_all`), which threads   *)
(* that share the set extend with `link` (push) and read with `len` and    *)
(* the shared iterator, while `unlink` needs exclusive access              *)
(* (futures_unordered/mod.rs, iter.rs, Task::spin_next_all).               *)
(* A new node is swapped in first and tied to its successor later; until   *)
(* then its `next_all` holds the reserved value Pending, on which the      *)
(* others spin.                                                            *)
(***************************************************************************)
EXTENDS Naturals, Sequences, SequencesExt

CONSTANTS Tasks, Threads, Null, Pending

ASSUME ListAssumption ==
    /\ Null \notin Tasks
    /\ Pending \notin Tasks \cup {Null}

VARIABLES
    headAll,
    nextAll, prevAll, lenAll, \* the fields of every task
    pc,         \* where each thread is
    task, old,  \* the locals `ptr` and `next` of link
    cursor, left, \* the shared iterator of each thread: `task` and `len`
    phase,      \* the set is in use, is lent to an IterPinMut, was turned into an
                \* IntoIter, or is being dropped
    lentTask,   \* the `task` of IterPinMut
    lentLen,    \* the `len` of IterPinMut or IntoIter
    linked,     \* history: the tasks swapped in and not unlinked, newest first
    rest        \* history: what the iterator of each thread still has to yield

listVars == <<headAll, nextAll, prevAll, lenAll, linked>>
linkVars == <<task, old>>
iterVars == <<cursor, left, rest>>
lentVars == <<phase, lentTask, lentLen>>
vars == <<listVars, pc, linkVars, iterVars, lentVars>>

Init ==
    /\ headAll = Null
    /\ nextAll = [t \in Tasks |-> Pending]
    /\ prevAll = [t \in Tasks |-> Null]
    /\ lenAll = [t \in Tasks |-> 0]
    /\ pc = [p \in Threads |-> "idle"]
    /\ task = [p \in Threads |-> Null]
    /\ old = [p \in Threads |-> Null]
    /\ cursor = [p \in Threads |-> Null]
    /\ left = [p \in Threads |-> 0]
    /\ phase = "set"
    /\ lentTask = Null
    /\ lentLen = 0
    /\ linked = <<>>
    /\ rest = [p \in Threads |-> <<>>]

Goto(p, l) == pc' = [pc EXCEPT ![p] = l]

\* Mutant of Spun: the loop waits for a pointer, not for the pending mark to go.
SpunNotNull(t) == nextAll[t] \notin {Pending, Null}

\* spin_next_all returns once the field has left the reserved value.
Spun(t) == nextAll[t] # Pending

InList(t) == \E i \in 1 .. Len(linked) : linked[i] = t

-----------------------------------------------------------------------------
(* link *)

\* A task that is in nobody's hands: new, or unlinked by poll_next.
Unlinked(t) == ~InList(t)

LinkSwap(p, t) ==
    /\ pc[p] = "idle" /\ phase = "set"
    /\ Unlinked(t)
    /\ task' = [task EXCEPT ![p] = t]
    /\ old' = [old EXCEPT ![p] = headAll]
    /\ headAll' = t
    /\ linked' = <<t>> \o linked
    /\ Goto(p, "linkLen")
    /\ UNCHANGED <<nextAll, prevAll, lenAll, iterVars, lentVars>>

\* Mutant of LinkLen: the new task does not count itself.
LinkLenShort(p) ==
    /\ pc[p] = "linkLen"
    /\ old[p] # Null => Spun(old[p])
    /\ lenAll' = [lenAll EXCEPT ![task[p]] = IF old[p] = Null THEN 1 ELSE lenAll[old[p]]]
    /\ Goto(p, "linkNext")
    /\ UNCHANGED <<headAll, nextAll, prevAll, linked, linkVars, iterVars, lentVars>>

LinkLen(p) ==
    /\ pc[p] = "linkLen"
    /\ old[p] # Null => Spun(old[p])
    /\ lenAll' = [lenAll EXCEPT ![task[p]] = IF old[p] = Null THEN 1 ELSE lenAll[old[p]] + 1]
    /\ Goto(p, "linkNext")
    /\ UNCHANGED <<headAll, nextAll, prevAll, linked, linkVars, iterVars, lentVars>>

LinkNext(p) ==
    /\ pc[p] = "linkNext"
    /\ nextAll' = [nextAll EXCEPT ![task[p]] = old[p]]
    /\ Goto(p, "linkPrev")
    /\ UNCHANGED <<headAll, prevAll, lenAll, linked, linkVars, iterVars, lentVars>>

LinkPrev(p) ==
    /\ pc[p] = "linkPrev"
    /\ prevAll' = IF old[p] = Null THEN prevAll ELSE [prevAll EXCEPT ![old[p]] = task[p]]
    /\ task' = [task EXCEPT ![p] = Null]
    /\ old' = [old EXCEPT ![p] = Null]
    /\ Goto(p, "idle")
    /\ UNCHANGED <<headAll, nextAll, lenAll, linked, iterVars, lentVars>>

-----------------------------------------------------------------------------
(* iter_pin_ref and its iterator; `len` is its first two steps *)

IterHead(p) ==
    /\ pc[p] = "idle" /\ phase = "set"
    /\ headAll # Null
    /\ cursor' = [cursor EXCEPT ![p] = headAll]
    /\ rest' = [rest EXCEPT ![p] = linked]
    /\ Goto(p, "iterLen")
    /\ UNCHANGED <<listVars, linkVars, left, lentVars>>

\* Mutant of IterLen: the count is read without waiting for the link.
IterLenEarly(p) ==
    /\ pc[p] = "iterLen"
    /\ left' = [left EXCEPT ![p] = lenAll[cursor[p]]]
    /\ Goto(p, "iter")
    /\ UNCHANGED <<listVars, linkVars, cursor, rest, lentVars>>

IterLen(p) ==
    /\ pc[p] = "iterLen"
    /\ Spun(cursor[p])
    /\ left' = [left EXCEPT ![p] = lenAll[cursor[p]]]
    /\ Goto(p, "iter")
    /\ UNCHANGED <<listVars, linkVars, cursor, rest, lentVars>>

IterNext(p) ==
    /\ pc[p] = "iter"
    /\ cursor[p] # Null
    /\ Spun(cursor[p])
    /\ cursor' = [cursor EXCEPT ![p] = nextAll[cursor[p]]]
    /\ left' = [left EXCEPT ![p] = @ - 1]
    /\ rest' = [rest EXCEPT ![p] = IF @ = <<>> THEN @ ELSE Tail(@)]
    /\ UNCHANGED <<listVars, pc, linkVars, lentVars>>

\* The iterator is exhausted, or its user has seen enough.
IterDrop(p) ==
    /\ pc[p] = "iter"
    /\ cursor' = [cursor EXCEPT ![p] = Null]
    /\ left' = [left EXCEPT ![p] = 0]
    /\ rest' = [rest EXCEPT ![p] = <<>>]
    /\ Goto(p, "idle")
    /\ UNCHANGED <<listVars, linkVars, lentVars>>

-----------------------------------------------------------------------------
(* Under &mut self: no other thread is inside a call *)

Exclusive == \A p \in Threads : pc[p] = "idle"

LeavesList(t) == \E i \in 1 .. Len(linked) : linked[i] = t /\ linked' = RemoveAt(linked, i)

\* Mutant of Detach: the successor's prev_all is not corrected.
DetachKeepsPrev(t) ==
    LET newHead == IF prevAll[t] = Null THEN nextAll[t] ELSE headAll
        newLen == lenAll[headAll] - 1
    IN  /\ headAll' = newHead
        /\ nextAll' = [u \in Tasks |-> CASE u = t          -> Pending
                                         [] u = prevAll[t] -> nextAll[t]
                                         [] OTHER          -> nextAll[u]]
        /\ prevAll' = [prevAll EXCEPT ![t] = Null]
        /\ lenAll' = [u \in Tasks |-> IF u = newHead THEN newLen ELSE lenAll[u]]
        /\ LeavesList(t)

Detach(t) ==
    LET next == nextAll[t]
        prev == prevAll[t]
        newHead == IF prev = Null THEN next ELSE headAll
        newLen == lenAll[headAll] - 1
    IN  /\ headAll' = newHead
        /\ nextAll' = [u \in Tasks |-> CASE u = t    -> Pending
                                         [] u = prev -> next
                                         [] OTHER    -> nextAll[u]]
        /\ prevAll' = [u \in Tasks |-> CASE u = t    -> Null
                                         [] u = next -> prev
                                         [] OTHER    -> prevAll[u]]
        /\ lenAll' = [u \in Tasks |-> IF u = newHead THEN newLen ELSE lenAll[u]]
        /\ LeavesList(t)

\* poll_next unlinks the task it was handed.
Unlink(t) ==
    /\ Exclusive
    /\ phase = "set"
    /\ InList(t)
    /\ Detach(t)
    /\ UNCHANGED <<pc, linkVars, iterVars, lentVars>>

\* The destructor, also that of an IntoIter, unlinks the head until the list is
\* empty.
DropHead ==
    /\ Exclusive
    /\ phase # "mut"
    /\ headAll # Null
    /\ phase' = "dropped"
    /\ Detach(headAll)
    /\ UNCHANGED <<pc, linkVars, iterVars, lentTask, lentLen>>

\* Exclusive access needs no spin on next_all.
HeadLen == IF headAll = Null THEN 0 ELSE lenAll[headAll]

IterPinMut ==
    /\ Exclusive
    /\ phase = "set"
    /\ phase' = "mut"
    /\ lentTask' = headAll
    /\ lentLen' = HeadLen
    /\ UNCHANGED <<listVars, pc, linkVars, iterVars>>

IterPinMutNext ==
    /\ phase = "mut"
    /\ lentTask # Null
    /\ lentTask' = nextAll[lentTask]
    /\ lentLen' = lentLen - 1
    /\ UNCHANGED <<listVars, pc, linkVars, iterVars, phase>>

\* The borrow ends, with the iterator exhausted or not.
IterPinMutDrop ==
    /\ phase = "mut"
    /\ phase' = "set"
    /\ lentTask' = Null
    /\ lentLen' = 0
    /\ UNCHANGED <<listVars, pc, linkVars, iterVars>>

IntoIter ==
    /\ Exclusive
    /\ phase = "set"
    /\ phase' = "iter"
    /\ lentLen' = HeadLen
    /\ UNCHANGED <<listVars, pc, linkVars, iterVars, lentTask>>

\* IntoIter::next pops the head and leaves the counts and the popped task alone.
IntoIterNext ==
    /\ phase = "iter"
    /\ headAll # Null
    /\ headAll' = nextAll[headAll]
    /\ prevAll' = [t \in Tasks |-> IF t = nextAll[headAll] THEN Null ELSE prevAll[t]]
    /\ lentLen' = lentLen - 1
    /\ linked' = Tail(linked)
    /\ UNCHANGED <<nextAll, lenAll, pc, linkVars, iterVars, phase, lentTask>>

\* The iterator is exhausted, or the set is gone.
Finished ==
    /\ phase \in {"iter", "dropped"}
    /\ headAll = Null
    /\ UNCHANGED vars

-----------------------------------------------------------------------------

\* A turn of the loop of spin_next_all.
Spin(p) ==
    /\ \/ pc[p] = "linkLen" /\ old[p] # Null /\ ~Spun(old[p])
       \/ pc[p] \in {"iterLen", "iter"} /\ cursor[p] # Null /\ ~Spun(cursor[p])
    /\ UNCHANGED vars

LinkStep(p) == LinkLen(p) \/ LinkNext(p) \/ LinkPrev(p)
IterStep(p) == IterLen(p) \/ IterNext(p)

Next ==
    \/ \E p \in Threads, t \in Tasks : LinkSwap(p, t)
    \/ \E p \in Threads : LinkStep(p) \/ Spin(p) \/ IterHead(p) \/ IterStep(p) \/ IterDrop(p)
    \/ \E t \in Tasks : Unlink(t)
    \/ IterPinMut \/ IterPinMutNext \/ IterPinMutDrop
    \/ DropHead \/ IntoIter \/ IntoIterNext
    \/ Finished

Spec == Init /\ [][Next]_vars

\* Threads inside link, or spinning for an iterator, keep running.
FairSpec == Spec /\ \A p \in Threads : WF_vars(LinkStep(p)) /\ WF_vars(IterStep(p))

-----------------------------------------------------------------------------
(* Properties *)

TypeOK ==
    /\ headAll \in Tasks \cup {Null}
    /\ nextAll \in [Tasks -> Tasks \cup {Null, Pending}]
    /\ prevAll \in [Tasks -> Tasks \cup {Null}]
    /\ lenAll \in [Tasks -> Nat]
    /\ pc \in [Threads -> {"idle", "linkLen", "linkNext", "linkPrev", "iterLen", "iter"}]
    /\ task \in [Threads -> Tasks \cup {Null}] /\ old \in [Threads -> Tasks \cup {Null}]
    /\ cursor \in [Threads -> Tasks \cup {Null}] /\ left \in [Threads -> Nat]
    /\ phase \in {"set", "mut", "iter", "dropped"}
    /\ lentTask \in Tasks \cup {Null} /\ lentLen \in Nat
    /\ linked \in Seq(Tasks) /\ rest \in [Threads -> Seq(Tasks)]

\* The task behind position i of the list.
Behind(i) == IF i = Len(linked) THEN Null ELSE linked[i + 1]

\* With exclusive access the list is doubly linked and complete.
LinksIntact ==
    Exclusive =>
        /\ headAll = (IF linked = <<>> THEN Null ELSE linked[1])
        /\ \A i \in 1 .. Len(linked) :
              /\ nextAll[linked[i]] = Behind(i)
              /\ prevAll[linked[i]] = (IF i = 1 THEN Null ELSE linked[i - 1])
        /\ \A t \in Tasks : Unlinked(t) /\ phase \in {"set", "mut"} => nextAll[t] = Pending /\ prevAll[t] = Null

\* A head whose next_all is visible counts the list behind it, although the
\* counts of inner tasks are out of date after an unlink.  Behind an IntoIter
\* the head's count is out of date too, but never too low.
HeadCountsAll ==
    headAll # Null /\ Spun(headAll) =>
        /\ lenAll[headAll] >= Len(linked)
        /\ phase \in {"set", "mut"} => lenAll[headAll] = Len(linked)

\* Whatever order the links were stored in and whichever tasks were unlinked
\* before, the list is complete in both directions, `len` is exact, and the
\* subtraction in unlink cannot wrap around (link, unlink).
ListIntact == LinksIntact /\ HeadCountsAll

\* A shared iterator visits the tasks linked when it was made, newest first,
\* and its length is exact at every step (it never falls below zero), while
\* others push.  So is the length of an IntoIter until it is dropped, and that
\* of an IterPinMut, whose task is never past the end of the list.
IteratorsExact ==
    /\ \A p \in Threads : pc[p] = "iter" =>
          /\ left[p] = Len(rest[p])
          /\ cursor[p] = (IF rest[p] = <<>> THEN Null ELSE rest[p][1])
    /\ phase = "iter" => lentLen = Len(linked)
    /\ phase = "mut" => /\ lentLen <= Len(linked)
                        /\ lentTask = Behind(Len(linked) - lentLen)

\* The spins end: every thread that waits for a link to be stored goes on, also
\* when a row of pushes waits for one another (spin_next_all).
SpinsEnd ==
    \A p \in Threads : pc[p] \in {"linkLen", "iterLen"} ~> pc[p] \in {"idle", "iter"}
=============================================================================
