\* Four calls on two orders; a stream of three entries and one crash; collections of at
\* most four appointments.
SPECIFICATION BoundarySpec
CONSTANTS
    Sides = {"live", "stream", "pages", "access", "lab", "north", "approvals", "audit",
             "packages", "decode", "release", "promotion", "pack", "worker", "laptop", "harness"}
    o1 = o1  o2 = o2  k1 = k1  k2 = k2  c1 = c1  c2 = c2  c3 = c3  c4 = c4
    Orders = {o1, o2}
    FirstValue = "open"
    Writers = {c1, c2, c3, c4}
    Asks <- FourAsks
    Logs <- SomeLogs
    MaxCrashes = 1
    Collections <- SomeCollections
    OrdersAsked = {o1, "all"}
    Limits = {1, 3, 5}
    PageSizes = {1, 2, 3}
    t1 = t1  t2 = t2  f = f  g = g  l1 = l1
    Tables = {t1, t2}
    Fields = {f, g}
    Links = {l1}
    Columns <- SomeColumns
    Joins <- LinkEnds
    Grants <- SomeGrants
    Intents <- SomeIntents
    r1 = r1  r2 = r2  m1 = m1  m2 = m2
    Agents = {r1, r2}
    Stranger = "stranger"
    RoleOf <- RoleFunction
    CustomersOf <- CustomerFunction
    Acls <- SomeAcls
    Customers = {m1, m2}
    e1 = e1  e2 = e2  n1 = n1  n2 = n2
    Callers = {r1, r2}
    Catalogs <- SomeCatalogs
    Effects = {e1, e2}
    Exposed = {e1}
    h1 = h1  h2 = h2  p1 = p1  p2 = p2  b1 = b1  b2 = b2
    Actions = {b1, b2}
    Approvers = {h1, h2}
    Identities = {r1, r2}
    Policies = {p1, p2}
    LastHour = 1
    MaxIssued = 1
    AuditEvents = {b1}
    MaxEntries = 3
    MaxDamages = 2
    q1 = q1  q2 = q2  q3 = q3  s1 = s1  s3 = s3  j1 = j1  j2 = j2
    Paths = {q1, q2, q3}
    Payloads <- SomePayloads
    Reserved = {q3}
    Contents = {s1, s3}
    TooLarge = {s3}
    Names = {j1, j2}
    Libraries = {j1}
    SigningKeys = {k1, k2}
    Trusted = k1
    x1 = x1  x2 = x2  x3 = x3  y1 = y1  y2 = y2
    MaxTokens = 5  MaxTokensDecoded = 5
    Components = {y1, y2}
    SourceShapes = {x1}
    Revisions = {j1, j2}
    Artifacts = {s1, s3}
    MaxEdits = 1
    EvidenceKinds = {x1, x2}
    MaxEvidence = 4
    MatrixComponents = {y1, y2}
    Declared <- ThreeDatasets
    Unknown = y1
    Hosts = {x1, x2, x3}
    HostKind <- HostKinds
    SourceIds = {y1, y2}
    Own = y1
    Replies <- SomeReplies
    Texts = {s1, s3}
    None = None
    Commits = {j1, j2}
    Edited = x1
    NoImage = NoImage
\* Calls, reads and decisions end.
CHECK_DEADLOCK FALSE
INVARIANTS MutationsAreConditional ReadsAreWhole AccessIsScoped PlansAreAsListed
    AcceptedWasApproved ChainTellsDamage PacksAreSound OnlyVisibleTextIsKept
    ReleasesAreEarned WorkersAreContained CertifiedIsReal BoundaryTypeOK
