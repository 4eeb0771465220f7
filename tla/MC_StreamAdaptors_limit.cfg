SPECIFICATION Spec
CONSTANTS
    Adaptors <- MCBuffered
    Sizes = {1}
    MaxAnswers = 3
INVARIANT AtMostMax
