SPECIFICATION Spec
CONSTANTS
    Root = Root  Root2 = Root2  Teacher = Teacher  Assistant = Assistant  Newcomer = Newcomer
     b1 = b1  NoUser = NoUser
    Users = {Root, Root2, Teacher, Assistant, Newcomer}
    Callers = {c1, c2}
    Batches = {b1}
    FirstRole <- MCFirstRole
    FirstLinks <- MCFirstLinks
    Asks <- MCAsks
    Files <- MCFiles
    AnswerMin = 2
    AnswerMax = 3
    RefMax = 1
    QuestionMax = 1
    MaxRows = 2
    RequiresQuestion = FALSE
    MaxRequests = 4
    MaxCrashes = 1
SYMMETRY MCSymmetry
INVARIANTS NothingCarriesOver AdminsRunOutOnlyTogether ReadsAgree
CHECK_DEADLOCK FALSE
