\* Three assertions, one of them promoted from memory, over two instants; three
\* mappings of two concepts over two instants; the checkpoints of one stream.
SPECIFICATION KnowledgeSpec
CONSTANTS
    x = x  y = y  z = z  a1 = a1  a2 = a2  a3 = a3  k1 = k1
    steward = steward  agent = agent  nobody = nobody
    v1 = v1  v2 = v2  w1 = w1  w2 = w2  d1 = d1  d2 = d2
    Entities = {x, y, z}
    Ids = {a1, a2, a3}
    Says <- Statements
    Candidates = {k1}
    Holds <- Claims
    People = {steward, agent}
    Humans = {steward}
    Nobody = nobody
    Stances = {"proposed", "approved", "rejected"}
    Periods <- SomePeriods
    LastTime = 1
    Concepts = {v1, v2}
    Assets = {w1, w2}
    Digests = {d1, d2}
    Mappings = {1, 2, 3}
    Maps <- SomeMaps
    Requests <- SomeRequests
    LastInstant = 1
    Streams = {v1}
    Versions = {d1, d2}
    LastPosition = 2
    LastObserved = 1
\* The clocks stop.
CHECK_DEADLOCK FALSE
SYMMETRY Interchangeable
INVARIANTS KnowledgeTypeOK PromptViewsConsistent MemoryIsGoverned ResumesFromFurthest
PROPERTIES PresentStaysConsistent RoutesAreGoverned
