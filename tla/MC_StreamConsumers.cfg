SPECIFICATION FairSpec
CONSTANTS
    Adaptors <- MCConsumers
    Sizes = {0, 1, 2}
    MaxAnswers = 4
INVARIANTS TypeOK DeliveredRight PendingHasWaker
PROPERTY Completes
