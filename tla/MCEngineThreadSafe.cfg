CONSTANTS
    m1 = m1
    m2 = m2
    MW = {m1, m2}
    Config <- Configs
    Reloader = {r1}
    Rest = {x1}
    Graph = {}
    MaxVersion = 1
    MaxLoad = 1
    Nil = Nil
SPECIFICATION Spec
CHECK_DEADLOCK FALSE
INVARIANT ExecuteIsThreadSafe
