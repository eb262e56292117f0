SPECIFICATION FairEditsSpec
CONSTANTS
    Tools = {"generate", "paraphrase", "simulate"}
    g1 = g1
    g2 = g2
    Generators = {g1, g2}
    Configs <- MCConfigs
    Editor = g1
    Provider <- MCProvider
    Sources <- MCSources
    Stratum <- MCStratum
    Share = 50
    Pilots = {1, 2}
    ann = ann
    ben = ben
    Deals <- MCDeals
    Queues <- MCQueues
    Unmoved = {2}
    Passing <- MCPassing
    MaxAssigns = 2
    MaxFilters = 2
    Prompts = {p1, p2}
    MaxAttempts = 2
    MaxStreak = 2
    MinGenuine = 1
    MaxRuns = 2
    MaxStops = 1
INVARIANTS PaidOnce ReportAddsUp MadeAsPlanned EachAnswerOnce
PROPERTIES RunEnds
CHECK_DEADLOCK FALSE
