-------------------------- MODULE MC_FuturesOrdered --------------------------
EXTENDS FuturesOrdered

CONSTANTS f1, f2, f3, f4

FourFutures == {f1, f2, f3, f4}
ThreeFutures == {f1, f2, f3}
=============================================================================
