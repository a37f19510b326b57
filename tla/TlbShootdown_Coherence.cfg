\* One core maps and unmaps one VA; a second core only receives shootdowns.
CONSTANTS
    NumCpus = 2
    NumListed = 2
    Requesters = {1}
    VAs = {va1}
    Vals = {p1}
    Absent = Absent
    NoVA = NoVA
    MaxOps = 2
SPECIFICATION Spec
INVARIANT QuiescentCoherence
CHECK_DEADLOCK FALSE
