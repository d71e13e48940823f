SPECIFICATION EngineSpec
CONSTANTS
    s1 = s1
    s2 = s2
    Sessions <- MCSessions
    ToolCalls <- MCCalls
INVARIANTS
    StaleAnswersAreMarked
PROPERTIES
    EveryCallAnswered
CHECK_DEADLOCK FALSE
