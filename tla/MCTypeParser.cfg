CONSTANTS
    Numbers <- MCNumbers
    Overlong <- MCOverlong
    NameSets <- MCNameSets
    Threads = {t1, t2}
    NoThread = NoThread
    MaxCalls = 2
SPECIFICATION Spec
INVARIANTS PointersStayLive  CacheHoldsWholeAsts
PROPERTY CallsReturn
CHECK_DEADLOCK FALSE
