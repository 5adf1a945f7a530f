SPECIFICATION FairSpec
CONSTANTS
    MAX_THREADS = 3
    TickMod = 2
    DEFAULT_TICKS = 1
    Slices <- ZeroSlice
    Waited <- FirstSlot
    MaxAdds = 3
    MaxDepth = 2
    Liberties <- Overflow
INVARIANT TypeOK
INVARIANT SectionExclusive
INVARIANT ContextIntact
INVARIANT NeverStuckStopped
PROPERTY KillIsFinal
PROPERTY RoundRobin
