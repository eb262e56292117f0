SPECIFICATION Spec
CONSTANTS
    Sessions = {s1}
    NoSession = NoSession
    Tabs = {t1, t2}
    PromptTabs = {t1}
    AbsoluteTTL = 5
    IdleTTL = 3
    Resolution = 1
    Retention = 0
    RenewWithin = 2
    WarnBefore = 1
    ActivityWindow = 1
    Cooldown = 1
    MinUseful = 1
    Latency = 0
    MaxMishaps = 1
    MaxClock = 6
INVARIANTS IdleLimitFollowsUse CountdownHonest
PROPERTIES DeadStaysDead LeavesForAReason PresentPersonStays ExtendedForSomebody
CHECK_DEADLOCK FALSE
