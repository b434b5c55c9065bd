\* Three concurrent sagas with common steps; two plans contend for a key.
SPECIFICATION FairSpec
CONSTANTS
    r1 = r1  r2 = r2  r3 = r3  a1 = a1  a2 = a2  a3 = a3
    k1 = k1  k2 = k2  i1 = i1  i2 = i2  i3 = i3
    Runs = {r1, r2, r3}
    Actions = {a1, a2, a3}
    Keys = {k1, k2}
    KeyOf <- TwoKeys
    ActionIds = {i1, i2, i3}
    IdOf <- OwnIds
    StepsOf <- SharedSteps
    None = None
\* Every run ends.
CHECK_DEADLOCK FALSE
INVARIANTS TypeOK ReceiptsAreReal UndoneInReverse NoUndoWithoutEffect
PROPERTIES RunsEnd
