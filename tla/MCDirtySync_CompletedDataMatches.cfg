\* CompletedDataMatches checked against the source-side dirty-sync loop.
CONSTANTS
    mem = mem
    state = state
    Devices <- MCDevices
    MemoryName = mem
    StateName = state
    Blocks <- MCBlocks
    MaxDirtyBlocks <- MCMaxDirtyBlocks
    MinCycles <- MCMinCycles
    MaxCycles <- MCMaxCycles
    MaxWrites = 2
SPECIFICATION Spec
INVARIANT CompletedDataMatches
