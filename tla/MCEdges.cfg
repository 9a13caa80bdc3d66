CONSTANTS
    A = A
    B = B
    C = C
    f1 = f1
    f2 = f2
    f3 = f3
    e1 = e1
    e2 = e2
    e3 = e3
    w1 = w1
    w2 = w2
    w3 = w3
    Requests = {r1, r2}
    Uuids = {u1, u2}
    MaxLog = 2
    Ingresses <- ThreeIngresses
    Forwards <- ThreeForwards
    Source <- Sources3
    TopicOf <- Topics
    StreamOf <- StreamNames
    SinkName <- SameName
    MaxHops <- FewHops
    Guids = {g1}
    Legacy <- OneLegacy
    MaxForgotten = 1
    Unbound <- NoTopic
    Embedded <- ThreeEmbedded
    Dir <- Directories
    MaxSeq = 3
    Width = 6
    MaxDelivered = 8
    Writers <- ThreeWriters
    Schema <- TwoVersions
    EnsureTable <- TableKeepers
    EnsureView <- ViewKeepers
    Events = {d1, d2}
    TablesAtStart <- SomeTables
SPECIFICATION EdgesSpec
INVARIANTS
    AcceptedIsStored
    AckedIsForwarded LoopsEnd SubjectKept OneServerPerStore DelayWithinBounds
    VerifiedBeforeWrite
PROPERTIES AlwaysAnswered ReachesTarget StoreComesFree StartIsExact EveryEventArrives
CHECK_DEADLOCK FALSE
