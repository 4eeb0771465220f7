------------------------- MODULE MC_FlattenUnordered -------------------------
EXTENDS FlattenUnordered, TLC

CONSTANTS s1, s2, w1, w2, c1, c2

OneStream == {s1}
TwoStreams == {s1, s2}
OneWaker == {w1}
TwoWakers == {w1, w2}
OneConsumer == {c1}
TwoConsumers == {c1, c2}
Symm == Permutations(TwoStreams) \cup Permutations(TwoWakers) \cup Permutations(TwoConsumers)
=============================================================================
