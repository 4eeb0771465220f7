------------------------------ MODULE TryFlatten ------------------------------
(***************************************************************************)
(* poll_next and is_terminated of try_stream/ext/try_flatten.rs: the       *)
(* source's items are streams, which are read to their end one after the   *)
(* other.                                                                  *)
(***************************************************************************)
EXTENDS TryStreamAdaptor

VARIABLE
    next     \* the current inner stream, 0: None

FlattenInit == next = 0

-----------------------------------------------------------------------------

\* The inner stream draws on the same bound of entries as the source.
InnerGives(kind) ==
    /\ next # 0 /\ "inner" \notin waiting
    /\ Given(kind, next)
    /\ Emit(<<Next1>>, kind = "Ok")

InnerItem == InnerGives("Ok") /\ UNCHANGED next

\* An error ends the inner stream, not the outer one.
InnerError == InnerGives("Err") /\ next' = 0

InnerEnd ==
    /\ next # 0 /\ "inner" \notin waiting
    /\ next' = 0
    /\ GoOn
    /\ UNCHANGED sourceVars

InnerPending ==
    /\ next # 0
    /\ Waits("inner")
    /\ Answer("Pending")
    /\ UNCHANGED next

OuterStream == next = 0 /\ Gives("Stream") /\ next' = Next1 /\ GoOn
OuterRest == next = 0 /\ (PassItem("Err") \/ PassRest) /\ UNCHANGED next

TryFlattenTerminated == next = 0 /\ SourceTerminated

FlattenStep ==
    /\ pc = "poll" /\ adaptor = "TryFlatten"
    /\ \/ InnerItem \/ InnerError \/ InnerEnd \/ InnerPending
       \/ OuterStream \/ OuterRest
    /\ UNCHANGED notified
=============================================================================
