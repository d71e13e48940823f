SPECIFICATION Spec
CONSTANTS
    Inits = {i}
    Lists = {l}
    Others = {o}
    Calls = {c1, c2}
    NoCall = NoCall
INVARIANTS
    AnsweredOnce
    NoRequestLost
    CancelIsHeard
PROPERTIES
    ServiceSpec
CHECK_DEADLOCK FALSE
