\* Two cores that both map, two VAs, two leaf values, two writes per core.
CONSTANTS
    NumCpus = 2
    NumListed = 2
    Requesters = {1, 2}
    VAs = {va1, va2}
    Vals = {p1}
    Absent = Absent
    NoVA = NoVA
    MaxOps = 2
SPECIFICATION Spec
INVARIANT TypeOK
INVARIANT ProgramOrderCoherence
PROPERTY SlotEventuallyCleared
\* Every requester stops after MaxOps writes: the end state is the bound.
CHECK_DEADLOCK FALSE
