-------------------------- MODULE MC_StreamAdaptors --------------------------
EXTENDS StreamAdaptors

\* Every adaptor, and those with a queue.
MCAdaptors ==
    {"AndThen", "OrElse", "TryFilter", "TryFilterMap", "TryTakeWhile", "TrySkipWhile",
     "TryUnfold", "MapOk", "MapErr", "ErrInto", "InspectOk", "InspectErr", "IntoStream",
     "TryNext", "TryChunks", "TryReadyChunks", "TryBuffered", "TryBufferUnordered", "TryFlatten"}
MCBuffered == {"TryBuffered", "TryBufferUnordered"}
=============================================================================
