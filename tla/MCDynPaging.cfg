CONSTANTS
    c1 = c1
    c2 = c2
    Client = {c1, c2}
    Batcher = {c1}
    Absent = Absent
    Key <- Keys
    Group = 2
    Writes <- SomeWrites
    Lookups <- SomeLookups
    Tables <- SomeTables
    Partition = {1, 2}
    Matching = {2}
    Indexed = {2}
    Limits = {0, 1, 2}
    Blueprints <- SomeBuilders
    MaxPages = 2
SPECIFICATION Spec
INVARIANTS TokenContinuesPage
