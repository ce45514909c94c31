CONSTANTS
    m1 = m1
    m2 = m2
    MW = {m1, m2}
    Config <- Configs
    Reloader = {r1, r2}
    Rest = {x1}
    Graph = {g1}
    MaxVersion = 1
    MaxLoad = 2
    Nil = Nil
SPECIFICATION Spec
CHECK_DEADLOCK FALSE
INVARIANTS
    TypeOK
    PublishedIsComplete
    NoDoubleStop
    OnlyFailuresLeak
    LockedReadersSeeOneGeneration
    QuietRequestIsServed
PROPERTIES
    ReloadEnds
