----------------------------- MODULE ItemAdaptors -----------------------------
(***************************************************************************)
(* poll_next, is_terminated and size_hint of the adaptors of               *)
(* try_stream/ext that treat one item at a time: and_then.rs, or_else.rs,  *)
(* try_filter.rs, try_filter_map.rs, try_take_while.rs, try_skip_while.rs, *)
(* try_unfold.rs, the mapping adaptors, into_stream/mod.rs, try_next.rs.   *)
(* One step is one turn of the loop.                                       *)
(***************************************************************************)
EXTENDS TryStreamAdaptor

VARIABLES
    called,  \* history: the entries the user's function was called with
    fut,     \* future / pending / pending_fut / fut is Some
    item,    \* pending_item, empty or one entry
    done,    \* done_taking / done_skipping
    state    \* TryUnfold's state is Some

itemVars == <<called, fut, item, done, state>>

ItemInit ==
    /\ called = <<>>
    /\ fut = FALSE
    /\ item = <<>>
    /\ done = FALSE
    /\ state = (adaptor = "TryUnfold")

-----------------------------------------------------------------------------
\* The user's future is made from the entry, is polled and not ready, is done.
Starts(kind) == Gives(kind) /\ fut' = TRUE /\ called' = Append(called, Next1) /\ GoOn
AwaitsFuture == FuturePends /\ Answer("Pending") /\ UNCHANGED itemVars
Finishes(verdict) == Resolves(verdict) /\ fut' = FALSE /\ UNCHANGED <<called, state>>

Pending == IF fut THEN 1 ELSE 0
-----------------------------------------------------------------------------
(* and_then, or_else *)

\* The future's result is the item; everything of the other kind is passed on.
ThroughFuture(kind, other) ==
    \/ fut /\ AwaitsFuture
    \/ /\ fut
       /\ \E ok \in BOOLEAN : /\ Finishes(IF ok THEN "keep" ELSE "err")
                              /\ Emit(<<Len(given)>>, ok)
       /\ UNCHANGED <<item, done>>
    \/ ~fut /\ Starts(kind) /\ UNCHANGED <<item, done, state>>
    \/ ~fut /\ (PassItem(other) \/ PassRest) /\ UNCHANGED itemVars

AndThen == adaptor = "AndThen" /\ ThroughFuture("Ok", "Err")
AndThenTerminated == ~fut /\ SourceTerminated
AndThenHint == Exactly(left + Pending)

OrElse == adaptor = "OrElse" /\ ThroughFuture("Err", "Ok")
OrElseTerminated == ~fut /\ SourceTerminated
OrElseHint == Exactly(left + Pending)

-----------------------------------------------------------------------------
(* try_filter, try_filter_map *)

\* pending_item.take().map(Ok): without an item this would be the end.
EmitPending == IF item = <<>> THEN Answer("End") ELSE Emit(item, TRUE)

TryFilter ==
    /\ adaptor = "TryFilter"
    /\ \/ fut /\ AwaitsFuture
       \/ fut /\ Finishes("keep") /\ item' = <<>> /\ EmitPending /\ UNCHANGED done
       \/ fut /\ Finishes("drop") /\ item' = <<>> /\ GoOn /\ UNCHANGED done
       \/ ~fut /\ Starts("Ok") /\ item' = <<Next1>> /\ UNCHANGED <<done, state>>
       \/ ~fut /\ (PassItem("Err") \/ PassRest) /\ UNCHANGED itemVars
TryFilterTerminated == ~fut /\ SourceTerminated
TryFilterHint == AtMost(left + Len(item))

TryFilterMap ==
    /\ adaptor = "TryFilterMap"
    /\ \/ fut /\ AwaitsFuture
       \/ /\ fut
          /\ \/ Finishes("keep") /\ Emit(<<Len(given)>>, TRUE)
             \/ Finishes("err") /\ Emit(<<Len(given)>>, FALSE)
             \/ Finishes("drop") /\ GoOn
          /\ UNCHANGED <<item, done>>
       \/ ~fut /\ Starts("Ok") /\ UNCHANGED <<item, done, state>>
       \/ ~fut /\ (PassItem("Err") \/ PassRest) /\ UNCHANGED itemVars
TryFilterMapTerminated == ~fut /\ SourceTerminated

\* Mutant of TryFilterMapHint: the pending future may still give an item.
TryFilterMapHintUncounted == AtMost(left)

TryFilterMapHint == AtMost(left + Pending)

-----------------------------------------------------------------------------
(* try_take_while, try_skip_while *)

\* What both do while they still ask: `stop` says which result of the future
\* ends that.
AskFirst(stop) ==
    \/ fut /\ AwaitsFuture
    \/ fut /\ Finishes("err") /\ item' = <<>> /\ done' = TRUE /\ Emit(<<Len(given)>>, FALSE)
    \/ fut /\ Finishes("keep") /\ item' = <<>> /\ done' = (stop = "keep") /\ EmitPending
    \/ ~fut /\ Starts("Ok") /\ item' = <<Next1>> /\ UNCHANGED <<done, state>>
    \/ /\ ~fut /\ (PassItem("Err") \/ PassEnd)
       /\ done' = TRUE
       /\ UNCHANGED <<called, fut, item, state>>
    \/ ~fut /\ PassPending /\ UNCHANGED itemVars

\* Mutant of TryTakeWhile: the end is answered once, the flag is not set.
TryTakeWhileNotDone ==
    /\ adaptor = "TryTakeWhile"
    /\ \/ done /\ Answer("End") /\ UNCHANGED <<sourceVars, itemVars>>
       \/ ~done /\ AskFirst("drop")
       \/ ~done /\ fut /\ Finishes("drop") /\ item' = <<>> /\ done' = FALSE /\ Answer("End")

TryTakeWhile ==
    /\ adaptor = "TryTakeWhile"
    /\ \/ done /\ Answer("End") /\ UNCHANGED <<sourceVars, itemVars>>
       \/ ~done /\ AskFirst("drop")
       \/ ~done /\ fut /\ Finishes("drop") /\ item' = <<>> /\ done' = TRUE /\ Answer("End")
TryTakeWhileTerminated == done \/ (item = <<>> /\ SourceTerminated)
TryTakeWhileHint == IF done THEN AtMost(0) ELSE AtMost(left + Len(item))

TrySkipWhile ==
    /\ adaptor = "TrySkipWhile"
    /\ \/ done /\ PassOn /\ UNCHANGED itemVars
       \/ ~done /\ AskFirst("keep")
       \/ ~done /\ fut /\ Finishes("drop") /\ item' = <<>> /\ GoOn /\ UNCHANGED done
TrySkipWhileTerminated == item = <<>> /\ SourceTerminated
TrySkipWhileHint == AtMost(left + Len(item))

-----------------------------------------------------------------------------
(* try_unfold: the source is the futures the function returns, one after the *)
(* other; an item comes with the next state, "none" and an error without.    *)

TryUnfold ==
    /\ adaptor = "TryUnfold"
    /\ \/ /\ ~state /\ ~fut
          /\ Answer("End") /\ UNCHANGED <<sourceVars, itemVars>>
       \/ /\ state \/ fut
          /\ \/ PassItem("Ok") /\ state' = TRUE /\ fut' = FALSE
             \/ PassItem("Err") /\ state' = FALSE /\ fut' = FALSE
             \/ PassEnd /\ state' = FALSE /\ fut' = FALSE
             \/ PassPending /\ state' = FALSE /\ fut' = TRUE
          /\ UNCHANGED <<called, item, done>>
TryUnfoldTerminated == ~state /\ ~fut

-----------------------------------------------------------------------------
(* The adaptors that keep nothing: f sees every item of one kind *)

Mapped(kind) ==
    \/ \E k \in {"Ok", "Err"} :
          /\ PassItem(k)
          /\ called' = IF k = kind THEN Append(called, Next1) ELSE called
          /\ UNCHANGED <<fut, item, done, state>>
    \/ PassRest /\ UNCHANGED itemVars

MapOk == adaptor = "MapOk" /\ Mapped("Ok")
MapErr == adaptor = "MapErr" /\ Mapped("Err")
ErrInto == adaptor = "ErrInto" /\ Mapped("Err")
InspectOk == adaptor = "InspectOk" /\ Mapped("Ok")
InspectErr == adaptor = "InspectErr" /\ Mapped("Err")
IntoStream == adaptor = "IntoStream" /\ PassOn /\ UNCHANGED itemVars
TryNext == adaptor = "TryNext" /\ PassOn /\ UNCHANGED itemVars

ItemStep ==
    /\ pc = "poll"
    /\ \/ AndThen \/ OrElse \/ TryFilter \/ TryFilterMap
       \/ TryTakeWhile \/ TrySkipWhile \/ TryUnfold
       \/ MapOk \/ MapErr \/ ErrInto \/ InspectOk \/ InspectErr
       \/ IntoStream \/ TryNext
    /\ UNCHANGED notified
=============================================================================
