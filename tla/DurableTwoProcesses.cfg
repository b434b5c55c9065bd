\* Two gateway processes share the journal; up to two faults.
SPECIFICATION FairSpec
CONSTANTS
    c1 = c1  c2 = c2  c3 = c3  p1 = p1  p2 = p2
    a1 = a1  a2 = a2  k1 = k1  i1 = i1  i2 = i2
    Processes = {p1, p2}
    Calls = {c1, c2}
    ProcessOf <- TwoProcesses
    Actions = {a1}
    Keys = {k1}
    KeyOf <- OneKey
    ActionIds = {i1}
    IdOf <- OwnIds
    None = None
    MaxFaults = 2
    MaxSends = 2
INVARIANTS EffectsAreRecoverable
PROPERTIES ExecutedNeverFails CallsReturn EffectsAreEventuallyClosed
