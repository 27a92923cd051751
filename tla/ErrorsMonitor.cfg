SPECIFICATION Spec
CONSTANTS
    Words = 3
    Bits = 3
INVARIANT TypeOK
INVARIANT CountsErrors
INVARIANT FindsLongestRun
PROPERTY ShownLagsByOne
