---------------------------- MODULE TryStreamSource ----------------------------
(***************************************************************************)
(* What the adaptors and consumers of try_stream/ext have in common: the   *)
(* source stream they poll (through IntoFuseStream or not), the future the *)
(* user's function has returned, and the consumer that polls them.  A step *)
(* of an adaptor is one of the source's or the future's answers below,     *)
(* what the adaptor makes of it, and whether poll returns or loops.        *)
(***************************************************************************)
EXTENDS Naturals, Sequences, SequencesExt

CONSTANTS Adaptors,    \* the adaptors or consumers to be made
          Sizes,       \* capacities and limits they are made with
          MaxAnswers   \* bound: entries the source gives

ASSUME SourceAssumption == Sizes \subseteq Nat /\ MaxAnswers \in Nat

VARIABLES
    adaptor,    \* which one it is
    size,       \* its capacity or limit
    early,      \* the source reports is_terminated before it is polled at its end
                \* (of no interest to the fuse, which never asks)
    left,       \* entries the source will still give
    given,      \* those it has given; an index of this sequence stands for the item
    ended,      \* it has answered "none"
    terminated, \* the flag of IntoFuseStream
    waiting,    \* the parties that hold the consumer's waker
    pc,         \* where poll is
    notified,   \* the consumer was woken since it last polled
    ret         \* what poll returned last

setup == <<adaptor, size, early>>
sourceVars == <<left, given, ended, terminated, waiting>>

Parties == {"source", "future", "inner", "sink"}

\* Those that wrap their source in an IntoFuseStream.
Fused == {"TryChunks", "TryReadyChunks", "TryBuffered", "TryBufferUnordered", "TryForward"}

SourceInit ==
    /\ adaptor \in Adaptors
    /\ early \in IF adaptor \in Fused THEN {FALSE} ELSE BOOLEAN
    /\ left \in 0 .. MaxAnswers
    /\ given = <<>>
    /\ ended = FALSE
    /\ terminated = FALSE
    /\ waiting = {}
    /\ pc = "idle"
    /\ notified = FALSE
    /\ ret = "None"

-----------------------------------------------------------------------------
(* What the source answers, and the user's future *)

\* is_terminated of the source: FusedStream lets it hold before "none" is answered.
SourceTerminated == ended \/ (early /\ left = 0)

\* The index of an entry that is being given.
Next1 == Len(given) + 1

Given(kind, of) ==
    /\ left > 0
    /\ left' = left - 1
    /\ given' = Append(given, [kind |-> kind, of |-> of, verdict |-> "none"])
    /\ UNCHANGED <<ended, terminated, waiting>>

Gives(kind) == ~terminated /\ "source" \notin waiting /\ Given(kind, 0)

\* "none": the fuse blows, and answers without the source from then on.
Ends ==
    \/ /\ ~terminated /\ "source" \notin waiting /\ left = 0
       /\ ended' = TRUE
       /\ terminated' = (adaptor \in Fused)
       /\ UNCHANGED <<left, given, waiting>>
    \/ terminated /\ UNCHANGED sourceVars

FuseTerminated == terminated

Waits(party) ==
    /\ waiting' = waiting \cup {party}
    /\ UNCHANGED <<left, given, ended, terminated>>

Pends == ~SourceTerminated /\ Waits("source")

\* The future made for the last entry is ready: the item is kept or dropped, or
\* the future fails.
Resolves(verdict) ==
    /\ "future" \notin waiting
    /\ given' = [given EXCEPT ![Len(given)].verdict = verdict]
    /\ UNCHANGED <<left, ended, terminated, waiting>>

FuturePends == Waits("future")

-----------------------------------------------------------------------------
(* The consumer, and what wakes it *)

Wakes(party) ==
    /\ party \in waiting
    /\ waiting' = waiting \ {party}
    /\ notified' = TRUE
    /\ UNCHANGED <<setup, left, given, ended, terminated, pc, ret>>

CallPoll ==
    /\ pc = "idle"
    /\ pc' = "poll"
    /\ notified' = FALSE
    /\ UNCHANGED <<setup, sourceVars, ret>>

Return(kind) == pc' = "idle" /\ ret' = kind

Loop == UNCHANGED <<pc, ret>>

SourceTypeOK ==
    /\ adaptor \in Adaptors /\ size \in Sizes \cup {0} /\ early \in BOOLEAN
    /\ left \in 0 .. MaxAnswers
    /\ given \in Seq([kind : {"Ok", "Err", "Stream"}, of : 0 .. MaxAnswers,
                      verdict : {"none", "keep", "drop", "err"}])
    /\ Len(given) + left <= MaxAnswers
    /\ ended \in BOOLEAN /\ terminated \in BOOLEAN
    /\ waiting \subseteq Parties
    /\ notified \in BOOLEAN
=============================================================================
