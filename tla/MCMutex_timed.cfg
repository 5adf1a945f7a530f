SPECIFICATION MutexFairSpec
CONSTANTS
    MAX_THREADS = 3
    TickMod = 1
    DEFAULT_TICKS = 0
    Slices <- NoSlots
    Waited <- NoSlots
    MaxAdds = 2
    MaxDepth = 1
    Liberties <- NoLiberties
    Lockers <- AddedTasks
    Environment <- LocksOnly
PROPERTY TimedLockReturns
