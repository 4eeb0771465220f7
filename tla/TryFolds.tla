------------------------------- MODULE TryFolds -------------------------------
(***************************************************************************)
(* poll and is_terminated of the futures of try_stream/ext that fold the   *)
(* whole stream into one result: try_all.rs, try_any.rs, try_collect.rs,   *)
(* try_concat.rs.                                                          *)
(***************************************************************************)
EXTENDS TryStreamSource

VARIABLES
    fut,     \* TryAll, TryAny: future is Some
    done,    \* TryAll, TryAny: done
    accum,   \* TryCollect's items, TryConcat's accum: the entries in it
    result   \* history: the entries of the collections returned

foldVars == <<fut, done, accum, result>>

FoldInit ==
    /\ fut = FALSE
    /\ done = FALSE
    /\ accum = <<>>
    /\ result = <<>>

-----------------------------------------------------------------------------
(* try_all, try_any: `stop` is the future's result that decides, `atOnce`   *)
(* and `atEnd` are the answers then and at the end of the stream.            *)

Decide(stop, goOn, atOnce, atEnd) ==
    \/ /\ done /\ ~fut
       /\ Return("Panic")
       /\ UNCHANGED <<sourceVars, foldVars>>
    \/ /\ fut
       /\ \/ FuturePends /\ Return("Pending") /\ UNCHANGED <<fut, done>>
          \/ Resolves(goOn) /\ Loop /\ fut' = FALSE /\ UNCHANGED done
          \/ Resolves(stop) /\ Return(atOnce) /\ fut' = FALSE /\ done' = TRUE
       /\ UNCHANGED <<accum, result>>
    \/ /\ ~fut /\ ~done
       /\ \/ Gives("Ok") /\ Loop /\ fut' = TRUE /\ UNCHANGED done
          \/ Gives("Err") /\ Return("Err") /\ done' = TRUE /\ UNCHANGED fut
          \/ Ends /\ Return(atEnd) /\ done' = TRUE /\ UNCHANGED fut
          \/ Pends /\ Return("Pending") /\ UNCHANGED <<fut, done>>
       /\ UNCHANGED <<accum, result>>

TryAll == adaptor = "TryAll" /\ Decide("drop", "keep", "False", "True")
TryAllTerminated == done /\ ~fut

TryAny == adaptor = "TryAny" /\ Decide("keep", "drop", "True", "False")
TryAnyTerminated == done /\ ~fut

-----------------------------------------------------------------------------
(* try_collect, try_concat: an error leaves the collection where it is *)

\* Mutant of Gather: it gives way after an item, and nobody holds the waker.
GatherGivesWay ==
    /\ \/ Gives("Ok") /\ Return("Pending") /\ accum' = Append(accum, Next1) /\ UNCHANGED result
       \/ Gives("Err") /\ Return("Err") /\ UNCHANGED <<accum, result>>
       \/ Ends /\ Return("Ok") /\ result' = result \o accum /\ accum' = <<>>
       \/ Pends /\ Return("Pending") /\ UNCHANGED <<accum, result>>
    /\ UNCHANGED <<fut, done>>

Gather ==
    /\ \/ Gives("Ok") /\ Loop /\ accum' = Append(accum, Next1) /\ UNCHANGED result
       \/ Gives("Err") /\ Return("Err") /\ UNCHANGED <<accum, result>>
       \/ Ends /\ Return("Ok") /\ result' = result \o accum /\ accum' = <<>>
       \/ Pends /\ Return("Pending") /\ UNCHANGED <<accum, result>>
    /\ UNCHANGED <<fut, done>>

TryCollect == adaptor = "TryCollect" /\ Gather
TryCollectTerminated == SourceTerminated

TryConcat == adaptor = "TryConcat" /\ Gather
TryConcatTerminated == SourceTerminated /\ accum = <<>>

FoldStep ==
    /\ pc = "poll"
    /\ TryAll \/ TryAny \/ TryCollect \/ TryConcat
=============================================================================
