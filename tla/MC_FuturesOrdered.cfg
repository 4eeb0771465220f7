SPECIFICATION FairSpec
CONSTANTS
    f1 = f1  f2 = f2  f3 = f3  f4 = f4  NoFuture = NoFuture
    Futures <- FourFutures
INVARIANTS TypeOK IndicesExact
PROPERTIES RefinesOrderedQueue AllYielded
