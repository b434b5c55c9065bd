\* A worker writes more than the event loop buffers.
SPECIFICATION FairSpec
CONSTANTS
    c1 = c1  c2 = c2  c3 = c3
    Calls = {c1, c2}
    MaxParallelism = 1
    Misbehaviours = {"flood"}
\* Every call ends.
CHECK_DEADLOCK FALSE
PROPERTIES CallsEnd
