\* Three calls share two slots; workers hang, crash and start helpers.
SPECIFICATION FairSpec
CONSTANTS
    c1 = c1  c2 = c2  c3 = c3
    Calls = {c1, c2, c3}
    MaxParallelism = 2
    Misbehaviours = {"helper"}
\* Every call ends.
CHECK_DEADLOCK FALSE
INVARIANTS TypeOK ParallelismCeiling
PROPERTIES CallsEnd
