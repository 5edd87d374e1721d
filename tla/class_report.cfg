SPECIFICATION ReportSpec
CONSTANTS
    t1 = t1
    s1 = s1
    s2 = s2
    NoUser = NoUser
    NotYet = NotYet
    MaxClasses = 1
    Teachers <- MCTeachers
    Students <- MCStudents
    DeadlineRequests = {0}
    DefaultDeadline = 1
    RecordedTypes <- SummaryRecords
    MaxEvents = 6
    MaxClock = 4
    MaxRestarts = 0
SYMMETRY StudentSymmetry
INVARIANTS
    DurationIsAttendance
    OpenSessionsAreMembers
    CheckinsFollowOpening
    LiveListMatchesSummary
PROPERTIES
    CheckinOnce
CHECK_DEADLOCK FALSE
