SPECIFICATION Spec
CONSTANTS
    a1 = a1
    t1 = t1
    s1 = s1
    s2 = s2
    NoUser = NoUser
    NoFd = NoFd
    NotYet = NotYet
    NoQuestion = NoQuestion
    Torn = Torn
    LongTexts = TRUE
    Admins <- MCAdmins
    Teachers <- MCTeachers
    Students <- MCStudents
    InitialAccounts <- FirstAccounts
    Requests <- AllRequests
    MaxConnections = 2
    MaxClasses = 1
    MaxQuestions = 1
    NumOptions = 2
    AnswerRequests <- MCAnswerRequests
    DeadlineRequests = {0}
    DefaultDeadline = 1
    RecordedTypes <- NoRecords
    MaxEvents = 0
    MaxClock = 1
    MaxRestarts = 1
SYMMETRY Symmetries
CONSTRAINT EarlyRollCalls
INVARIANTS
    AccountsFollowConnections
    RosterIsOnline
    FramesStayInClass
PROPERTIES
    AnswersComeFromTheClass
