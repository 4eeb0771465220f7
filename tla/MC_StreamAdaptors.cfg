SPECIFICATION FairSpec
CONSTANTS
    Adaptors <- MCAdaptors
    Sizes = {0, 1, 2}
    MaxAnswers = 3
INVARIANTS TypeOK OutputRight PendingHasWaker EndIsFinal HintsHold
PROPERTIES AllYielded EndReached
