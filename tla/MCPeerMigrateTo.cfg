\* Suspend, authority handover, termination and NeedAt arithmetic of the earlier MigrateTo.
CONSTANTS
    mem = mem
    state = state
    Devices <- MCDevices
    MemoryName = mem
    StateName = state
    Blocks <- MCBlocks
    MaxDirtyBlocks <- MCMaxDirtyBlocks
    MinCycles <- MCMinCycles
    MaxCycles <- MCMaxCycles
    MaxWrites = 2
SPECIFICATION Spec
INVARIANTS TypeOK AuthorityAfterSuspend NeedAtPromotesOverlap
PROPERTIES SuspendOneShot MigrationTerminates HandoffRefined
