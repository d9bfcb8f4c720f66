SPECIFICATION QueueFairSpec
CONSTANTS
    Producers = {p1, p2}
    Consumers = {c1, c2}
    maxSize = 2
    MaxSends = 3
INVARIANTS NoLostWakeup HoldsTheRest
PROPERTIES IsFifoChannel CallsGoOn
CHECK_DEADLOCK FALSE
