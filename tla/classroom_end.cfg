SPECIFICATION RoomSpec
CONSTANTS
    a1 = a1
    t1 = t1
    t2 = t2
    s1 = s1
    s2 = s2
    NoUser = NoUser
    NoFd = NoFd
    NotYet = NotYet
    NoQuestion = NoQuestion
    Torn = Torn
    LongTexts = TRUE
    Admins <- MCAdmins
    Teachers <- MCTeachers
    Students <- MCStudents
    InitialAccounts <- AllAccounts
    Requests <- AllRequests
    Lessons <- SharingOnly
    MaxConnections = 4
    MaxClasses = 2
    MaxQuestions = 2
    NumOptions = 2
    AnswerRequests <- MCAnswerRequests
    DeadlineRequests = {10}
    DefaultDeadline = 60
    RecordedTypes <- NoRecords
    MaxEvents = 0
    MaxClock = 1
    MaxRestarts = 0
    MaxTimers = 0
SYMMETRY Symmetries
INVARIANTS
    SharingStopsWithClass
CHECK_DEADLOCK FALSE
