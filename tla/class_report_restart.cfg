SPECIFICATION ReportSpec
CONSTANTS
    t1 = t1
    s1 = s1
    s2 = s2
    NoUser = NoUser
    NotYet = NotYet
    MaxClasses = 1
    Teachers <- MCTeachers
    Students <- MCStudents
    DeadlineRequests = {0}
    DefaultDeadline = 1
    RecordedTypes <- AttendanceRecords
    MaxEvents = 5
    MaxClock = 3
    MaxRestarts = 1
SYMMETRY StudentSymmetry
INVARIANTS
    DurationIsAttendance
