SPECIFICATION StoreSpec
CONSTANTS
    t1 = t1
    t2 = t2
    s1 = s1
    NoUser = NoUser
    NotYet = NotYet
    Torn = Torn
    MaxClasses = 2
    Teachers <- MCTeachers
    Students <- MCStudents
    DeadlineRequests = {0}
    DefaultDeadline = 1
    RecordedTypes <- LifeRecords
    MaxEvents = 4
    MaxClock = 1
    MaxRestarts = 1
    LongNames = TRUE
SYMMETRY TeacherSymmetry
INVARIANTS
    IdsAreFresh
    LogIsNotBehind
    ReusedIdHasNoHistory
PROPERTIES
    DeathUndoesOneOperation
    IdleDeathIsRestart
CHECK_DEADLOCK FALSE
