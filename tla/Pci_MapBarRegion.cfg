\* The driver sets command bits and sizes BARs of the scanned functions.
CONSTANTS
    NumBus = 1
    NumSlot = 2
    NumFunc = 2
    HW <- MCHW
    NoDevice = NoDevice
    RegWidth = 16
    Lane = 8
    CmdBits = {2, 4, 1024}
    IdVals = {1, 2}
    MaxOps = 3
SPECIFICATION Spec
INVARIANT MapBarRegion
\* The driver stops after MaxOps calls, and a failed __assert halts.
CHECK_DEADLOCK FALSE
