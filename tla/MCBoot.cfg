SPECIFICATION Spec
CONSTANTS
    Machines <- MCMachines
    MapSizes = {3}
    MaxEvents = 1
CHECK_DEADLOCK FALSE
INVARIANTS
    StartsAlone
    DiskFound
