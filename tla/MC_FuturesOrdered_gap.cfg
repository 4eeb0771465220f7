SPECIFICATION Spec
CONSTANTS
    f1 = f1  f2 = f2  f3 = f3  f4 = f4  NoFuture = NoFuture
    Futures <- ThreeFutures
INVARIANT NoneMeansEmpty
