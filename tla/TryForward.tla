------------------------------ MODULE TryForward ------------------------------
(***************************************************************************)
(* poll and is_terminated of try_stream/ext/try_forward.rs: items go from  *)
(* a fused source into a sink, one at a time through `buffered_item`.  The *)
(* sink is external: it answers every call with ready, an error or         *)
(* "pending", and then holds the waker.                                    *)
(***************************************************************************)
EXTENDS TryStreamSource

VARIABLES
    buffered,  \* buffered_item, empty or one entry
    tried,     \* history: what start_send was called with, and its answer
    flushed,   \* how much of it a flush has confirmed
    sink       \* "open"; "closing": poll_close was called; "closed": the field is None

forwardVars == <<buffered, tried, flushed, sink>>

ForwardInit ==
    /\ buffered = <<>>
    /\ tried = <<>>
    /\ flushed = 0
    /\ sink = "open"

ForwardTerminated == sink = "closed"

-----------------------------------------------------------------------------
(* The sink's answers *)

SinkReady == "sink" \notin waiting /\ UNCHANGED sourceVars
SinkError == SinkReady /\ Return("Err")
SinkPending == Waits("sink") /\ Return("Pending")
GoTo(label) == pc' = label /\ UNCHANGED ret

-----------------------------------------------------------------------------

ForwardPanics ==
    /\ pc = "poll" /\ sink = "closed"
    /\ Return("Panic")
    /\ UNCHANGED <<sourceVars, forwardVars>>

\* poll_ready, and start_send, which takes the item whatever it answers.
SendBuffered ==
    /\ pc = "poll" /\ buffered # <<>>
    /\ \/ /\ SinkReady
          /\ \E ok \in BOOLEAN :
                /\ tried' = Append(tried, [item |-> Head(buffered), ok |-> ok])
                /\ IF ok THEN GoTo("stream") ELSE Return("Err")
          /\ buffered' = <<>>
       \/ (SinkError \/ SinkPending) /\ UNCHANGED <<buffered, tried>>
    /\ UNCHANGED <<flushed, sink>>

\* Mutant of PollStream: a pending source is reported without a flush.
PollStreamUnflushed ==
    /\ sink # "closed"
    /\ pc = "stream" \/ (pc = "poll" /\ buffered = <<>>)
    /\ \/ Gives("Ok") /\ buffered' = <<Next1>> /\ GoTo("poll")
       \/ Gives("Err") /\ Return("Err") /\ UNCHANGED buffered
       \/ Ends /\ GoTo("close") /\ UNCHANGED buffered
       \/ Pends /\ Return("Pending") /\ UNCHANGED buffered
    /\ UNCHANGED <<tried, flushed, sink>>

PollStream ==
    /\ sink # "closed"
    /\ pc = "stream" \/ (pc = "poll" /\ buffered = <<>>)
    /\ \/ Gives("Ok") /\ buffered' = <<Next1>> /\ GoTo("poll")
       \/ Gives("Err") /\ Return("Err") /\ UNCHANGED buffered
       \/ Ends /\ GoTo("close") /\ UNCHANGED buffered
       \/ Pends /\ GoTo("flush") /\ UNCHANGED buffered
    /\ UNCHANGED <<tried, flushed, sink>>

Close ==
    /\ pc = "close"
    /\ \/ SinkReady /\ sink' = "closed" /\ flushed' = Len(tried) /\ Return("Ok")
       \/ (SinkError \/ SinkPending) /\ sink' = "closing" /\ UNCHANGED flushed
    /\ UNCHANGED <<buffered, tried>>

\* The source is pending, whatever a successful flush says.
Flush ==
    /\ pc = "flush"
    /\ \/ SinkReady /\ flushed' = Len(tried) /\ Return("Pending")
       \/ (SinkError \/ SinkPending) /\ UNCHANGED flushed
    /\ UNCHANGED <<buffered, tried, sink>>

ForwardStep ==
    /\ adaptor = "TryForward"
    /\ ForwardPanics \/ SendBuffered \/ PollStream \/ Close \/ Flush
=============================================================================
