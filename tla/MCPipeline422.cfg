CONSTANTS
    a1 = a1
    a2 = a2
    a3 = a3
    ghost = ghost
    Absent = Absent
    Call = {c1}
    API = {a1, a2}
    Name = {a1, a2}
    Pipelines <- Pipelines2
SPECIFICATION Spec
INVARIANT RequiredFailureIs422
