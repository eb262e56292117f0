SPECIFICATION Spec
CONSTANTS
    Seeds = {1, 2}
    Versions = {1, 2}
    MaxEpochs = 3
    Measures = {0, 1, 2}
    PaurocTie = 1
    Patience = 1
    Answers = {1, 2, 3, 4, 5, 6}
    Ai <- McAi
    Words <- McWords
    MinWords = 10
    ScoreOf <- McScoreOf
    Num = 1
    Den = 3
    ShippedEpoch = 1
    MaxEffort = 4
    Callers = {1, 2}
    People = {"ada", "eve"}
    Admin = "eve"
    Since <- McSince
    Ids = {4, 8}
    EarlierRows <- McEarlierRows
    RawWords <- McRawWords
    MinAnswerWords = 10
    Band = 2
    Clock = {1, 2}
    Noise = 2
    Scores <- McScores
    Submission <- McSubmission
    Walks <- McWalks
INVARIANTS
    KeptEpochShips
    BudgetKept
    WalkShowsEachOnce
PROPERTY
    NothingHangs
CHECK_DEADLOCK FALSE
