CONSTANTS
    N = 3
    Drivers = {"platform", "dt", "sysfs"}
    Overlapping = {"platform"}
    MaxRegions = 2
    MaxTotal = 3
SPECIFICATION Spec
INVARIANTS
    TypeOK
    BoundIsReachable
    CdevsAreAlive
    EveryDeviceServed
    NodesMatchDevices
    CountAccurate
    UnloadLeavesNothing
