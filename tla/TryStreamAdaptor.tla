--------------------------- MODULE TryStreamAdaptor ---------------------------
(***************************************************************************)
(* What the adaptors of try_stream/ext that are streams themselves have in *)
(* common: how poll_next returns, and what size_hint can say.              *)
(***************************************************************************)
EXTENDS TryStreamSource

VARIABLES
    out,       \* history: what poll_next has returned, items and sign
    delivered  \* history: those items, one after the other

outVars == <<out, delivered>>

Emit(entries, ok) ==
    /\ Return("Item")
    /\ out' = Append(out, [items |-> entries, ok |-> ok])
    /\ delivered' = delivered \o entries

Answer(kind) == Return(kind) /\ UNCHANGED outVars

GoOn == Loop /\ UNCHANGED outVars

\* The source's answer is passed on as it is.
PassItem(kind) == Gives(kind) /\ Emit(<<Next1>>, kind = "Ok")
PassEnd == Ends /\ Answer("End")
PassPending == Pends /\ Answer("Pending")
PassRest == PassEnd \/ PassPending
PassOn == PassItem("Ok") \/ PassItem("Err") \/ PassRest

-----------------------------------------------------------------------------
(* size_hint, where the source's is exact; no upper bound: {} *)

Unknown == [lower |-> 0, upper |-> {}]
AtMost(n) == [lower |-> 0, upper |-> {n}]
Exactly(n) == [lower |-> n, upper |-> {n}]
=============================================================================
