CONSTANTS
    a1 = a1
    a2 = a2
    a3 = a3
    ghost = ghost
    Absent = Absent
    Call = {c1}
    API = {a1, a2, a3}
    Name = {a1, a2, a3, ghost}
    Pipelines <- Pipelines3
SPECIFICATION Spec
INVARIANTS
    TypeOK
    DependenciesFirst
    DeliveredOnce
    InputsAreDependencyResults
    CyclicNeverCompletes
PROPERTIES
    CancellationReturns
    AcyclicReturns
    GoroutinesEnd
    ImplementsContract
