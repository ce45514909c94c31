CONSTANTS
    m1 = m1
    m2 = m2
    MW = {m1, m2}
    Config <- Configs
    Reloader = {r1, r2}
    Rest = {}
    Graph = {g1}
    MaxVersion = 2
    MaxLoad = 3
    MaxRedelivery = 1
    Nil = Nil
SPECIFICATION LoopSpec
CHECK_DEADLOCK FALSE
PROPERTIES
    AnnouncedIsServed
    VersionNeverRegresses
    CancelEndsLoop
