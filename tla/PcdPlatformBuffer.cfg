CONSTANTS
    N = 2
    Drivers = {"platform"}
    Overlapping = {}
    MaxRegions = 1
    MaxTotal = 0
SPECIFICATION Spec
INVARIANT BufferHoldsDevice
