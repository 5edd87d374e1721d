SPECIFICATION RoomSpec
CONSTANTS
    a1 = a1
    t1 = t1
    t2 = t2
    s1 = s1
    s2 = s2
    NoUser = NoUser
    NoFd = NoFd
    NotYet = NotYet
    NoQuestion = NoQuestion
    Torn = Torn
    LongTexts = TRUE
    Admins <- MCAdmins
    Teachers <- MCTeachers
    Students <- MCStudents
    InitialAccounts <- AllAccounts
    Requests <- AllRequests
    Lessons <- AllLessons
    MaxConnections = 5
    MaxClasses = 2
    MaxQuestions = 2
    NumOptions = 2
    AnswerRequests <- MCAnswerRequests
    DeadlineRequests = {10}
    DefaultDeadline = 60
    RecordedTypes <- NoRecords
    MaxEvents = 0
    MaxClock = 1
    MaxRestarts = 0
    MaxTimers = 0
SYMMETRY Symmetries
INVARIANTS
    MicFollowsServer
    QuestionFollowsServer
    PageAgreesWithServer
    StoppedMeansStopped
    MediaGoesWhereStarted
CHECK_DEADLOCK FALSE
