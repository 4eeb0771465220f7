------------------------------ MODULE FutureSet ------------------------------
(***************************************************************************)
(* What FuturesUnordered promises to whoever polls it, and what            *)
(* FuturesOrdered, TryBuffered and FlattenUnordered rely on: a set of      *)
(* futures, polled only when they were pushed or woken.  The tasks, the    *)
(* queue, the flags and the reference counts are left out.                 *)
(***************************************************************************)
EXTENDS FiniteSets

CONSTANTS Tasks,        \* the futures, each named after its task
          NoTask        \* no future is being polled

VARIABLES held,         \* the futures in the set
          due,          \* those pushed or woken, and not polled since
          polling, at,  \* inside poll_next; the future it is polling
          answer,       \* what the last call returned
          over,         \* is_terminated
          notified      \* the consumer was woken since it last called poll_next

setVars == <<held, due, polling, at, answer, over, notified>>

SetInit ==
    /\ held = {}
    /\ due = {}
    /\ polling = FALSE
    /\ at = NoTask
    /\ answer = "none"
    /\ over = FALSE
    /\ notified = FALSE

Insert(t) ==
    /\ ~polling
    /\ t \notin held
    /\ held' = held \cup {t}
    /\ due' = due \cup {t}
    /\ answer' = "pushed"
    /\ over' = FALSE
    /\ UNCHANGED <<polling, at, notified>>

\* A wake-up counts from its beginning, on whatever thread, and makes only a
\* future of the set due.
Wake(t) ==
    /\ due' = due \cup (held \cap {t})
    /\ UNCHANGED <<held, polling, at, answer, over, notified>>

Notify ==
    /\ notified' = TRUE
    /\ UNCHANGED <<held, due, polling, at, answer, over>>

StartPoll ==
    /\ ~polling
    /\ polling' = TRUE
    /\ notified' = FALSE
    /\ UNCHANGED <<held, due, at, answer, over>>

\* Only a due future is polled; it stays due if a wake-up is still under way.
PollFuture(t) ==
    /\ polling
    /\ at = NoTask
    /\ t \in due
    /\ at' = t
    /\ due \ {t} \subseteq due' /\ due' \subseteq due
    /\ UNCHANGED <<held, polling, answer, over, notified>>

StillPending ==
    /\ at # NoTask
    /\ at' = NoTask
    /\ UNCHANGED <<held, due, polling, answer, over, notified>>

Leave(S) ==
    /\ held' = held \ S
    /\ due' = due \ S

\* The future that was polled is ready or has panicked, and leaves the set.
Finish ==
    /\ at # NoTask
    /\ Leave({at})
    /\ at' = NoTask
    /\ polling' = FALSE
    /\ answer' \in {"item", "panic"}
    /\ UNCHANGED <<over, notified>>

\* A set without futures answers "pending" only when it wakes its consumer.
Pending ==
    /\ polling
    /\ polling' = FALSE
    /\ at' = NoTask
    /\ answer' = "pending"
    /\ notified' \in {notified, TRUE}
    /\ held = {} => notified'
    /\ UNCHANGED <<held, due, over>>

None ==
    /\ polling
    /\ held = {}
    /\ polling' = FALSE
    /\ answer' = "done"
    /\ over' = TRUE
    /\ UNCHANGED <<held, due, at, notified>>

\* The set is dropped or turned into an iterator.
Discard(S) ==
    /\ ~polling
    /\ Leave(S)
    /\ answer' = "none"
    /\ UNCHANGED <<polling, at, over, notified>>

SetNext ==
    \/ \E t \in Tasks : Insert(t) \/ Wake(t) \/ PollFuture(t) \/ Discard({t})
    \/ Notify \/ StartPoll \/ StillPending \/ Finish \/ Pending \/ None \/ Discard({})

SetSpec == SetInit /\ [][SetNext]_setVars
=============================================================================
