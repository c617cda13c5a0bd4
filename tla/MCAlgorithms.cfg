SPECIFICATION AlgorithmsSpec
CONSTANTS
    Base = 62
    Limit = 4100
    Letter = {a, b}
    Star = Star
    MaxPattern = 4
    MaxText = 4
INVARIANTS
    GreedyIsExact
    RoundTrip
    LoopInvariant
CHECK_DEADLOCK FALSE
