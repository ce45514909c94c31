CONSTANTS
    s1 = s1
    s2 = s2
    s3 = s3
    token = token
    v1 = v1
    f1 = f1
    Source = {s1, s2, s3}
    Auth = {token}
    Var = {v1}
    Field = {f1}
    Plans <- Configurations
    NoElse = NoElse
SPECIFICATION Spec
CHECK_DEADLOCK FALSE
INVARIANTS TypeOK ErrorsHaveACause ParamErrorStopsRequest ForwardOnlyValidated CrashNeedsDetectionReference
PROPERTIES RequestEnds
