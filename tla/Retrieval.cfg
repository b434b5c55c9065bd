\* A coordinated request and a direct reader that nests reads; one
\* slot per connector.
SPECIFICATION CoordinatorSpec
CONSTANTS
    s1 = s1  s2 = s2  s3 = s3  d1 = d1  d2 = d2  d3 = d3
    c1 = c1  c2 = c2  q1 = q1  p1 = p1
    None = None
    Reads = {s1, s2, s3, d1, d2, d3}
    Connectors = {c1, c2}
    Request <- Requests
    Caller <- NestedRead
    Collected = {s1, s2, s3}
    Offers <- Capabilities
    MaxParallelism <- One
    MaxResultBytes <- Two
    Batches <- SomeBatches
    HitLists <- SomeHits
    Runs = {q1}
    StepsOf <- Plans
    Publications = {p1}
    SDKBound = 2
\* Every request ends.
CHECK_DEADLOCK FALSE
INVARIANTS CoordinatorTypeOK SlotsConserved ConsumerWithinLimits EvidenceIsBacked
PROPERTIES KeepsPromise
