\* A failed CreateSnapshot must leave the output files as they were.
CONSTANTS
    state = state
    memory = memory
    kernel = kernel
    disk = disk
    config = config
    DeviceList <- MCDeviceList
    WithInput <- MCWithInput
    Disks <- MCDisks
    StateName = state
    MemoryName = memory
    ConfigName = config
SPECIFICATION Spec
INVARIANT OutputsOnlyFromSnapshot
