\* Two CPUs and the loader, each running up to three slots; one spurious wake-up.
SPECIFICATION FairSpec
CONSTANTS
    N = 3
    MaxSlots = 2
    MaxSpurious = 1
INVARIANTS TypeOK NoRaceOnDone LockStep
PROPERTIES NextSlotReturns ImplementsClock
