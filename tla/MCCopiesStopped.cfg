SPECIFICATION CopiesSpec
CONSTANTS
    c1 = c1
    c2 = c2
    plain = plain
    pinned = pinned
    First = c1
    Copy <- MCCopy
    Job <- MCOneJob
    Pinned <- MCNone
    MaxPresses = 1
    MaxStops = 1
    MaxExits = 1
    MaxFaults = 1
    Beside <- MCPasses
INVARIANTS StopHolds
CHECK_DEADLOCK FALSE
