SPECIFICATION EvaluationSpec
CONSTANTS
    Revisions <- MCRevisions
    TextOf <- MCTextOf
    Humans = {"h1", "h2", "h3"}
    Models = {"g1", "g2"}
    Tier <- MCTier
    Keep <- MCKeep
    Short <- MCShort
    Edited <- MCEdited
    Rewrites <- MCRewrites
    Reaches <- MCReaches
    AnswersPerBand <- MCAnswersPerBand
    MaxBaseUses = 1
    Seeds <- MCSeeds
    MaxBuilds = 2
    Brief <- MCBrief
CHECK_DEADLOCK FALSE
INVARIANTS NothingMeasuredWasSeen TrainNotMostlyHuman StylesFollowSources SpliceStopsOnlyIfImpossible RawIsNotASource
