\* Two plans under one key and one action_id.
SPECIFICATION Spec
CONSTANTS
    r1 = r1  r2 = r2  r3 = r3  a1 = a1  a2 = a2  a3 = a3
    k1 = k1  k2 = k2  i1 = i1  i2 = i2  i3 = i3
    Runs = {r1, r2}
    Actions = {a1, a2}
    Keys = {k1}
    KeyOf <- OneKey
    ActionIds = {i1}
    IdOf <- SharedId
    StepsOf <- Singles
    None = None
\* Every run ends.
CHECK_DEADLOCK FALSE
INVARIANTS KeyReuseFailsClosed
