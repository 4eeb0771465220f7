SPECIFICATION Spec
CONSTANTS
    s1 = s1  s2 = s2  w1 = w1  w2 = w2  c1 = c1  c2 = c2
    NoStream = NoStream  NoConsumer = NoConsumer
    Streams <- TwoStreams
    Wakers <- TwoWakers
    Consumers <- TwoConsumers
    Limits = {0, 1}
    MaxItems = 0
    MaxErrors = 0
    MaxPanics = 1
SYMMETRY Symm
INVARIANTS CellExclusive StopWakingAssert NoLostWakeup AtMostLimit
