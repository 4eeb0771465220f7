-------------------------- MODULE MC_StreamConsumers --------------------------
EXTENDS StreamConsumers

MCConsumers == {"TryForward", "TryAll", "TryAny", "TryCollect", "TryConcat", "IntoAsyncRead"}
=============================================================================
