CONSTANTS
    Sequences = {s1}
    CopyUnits = 1
    MaxCalls = 1
    MaxChanges = 2
    MaxUpgrades = 1
SPECIFICATION LifecycleSpec
CHECK_DEADLOCK FALSE
PROPERTY
    MessagesAreBlocked
