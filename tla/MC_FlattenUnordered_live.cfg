SPECIFICATION FairSpec
CONSTANTS
    s1 = s1  s2 = s2  w1 = w1  w2 = w2  c1 = c1  c2 = c2
    NoStream = NoStream  NoConsumer = NoConsumer
    Streams <- OneStream
    Wakers <- OneWaker
    Consumers <- OneConsumer
    Limits = {0, 1}
    MaxItems = 2
    MaxErrors = 1
    MaxPanics = 1
PROPERTIES SpinEnds EndReached ItemKept
INVARIANT TypeOK
