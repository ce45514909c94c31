CONSTANTS
    r1 = r1
    r2 = r2
    loader = loader
    east = east
    west = west
    Nil = Nil
    Request = {r1, r2}
    Caller = {r1, r2, loader}
    Region = {east, west}
    EnvRegion = east
    Configurations <- Services
    Inputs <- Requests
SPECIFICATION Spec
CHECK_DEADLOCK FALSE
INVARIANTS TypeOK PlaceholdersAreDelimited 
