SPECIFICATION Spec
CONSTANTS
    t1 = t1
    t2 = t2
    s1 = s1
    s2 = s2
    NoUser = NoUser
    NotYet = NotYet
    MaxClasses = 1
    Teachers <- MCOneTeacher
    Students <- MCStudents
    DeadlineRequests = {0}
    DefaultDeadline = 1
    RecordedTypes <- LogRecords
    MaxEvents = 5
    MaxClock = 2
    MaxRestarts = 1
SYMMETRY StudentSymmetry
INVARIANTS
    OnlyActiveClassesRun
    MicNeedsAudio
    RosterMatchesLog
PROPERTIES
    LifeCycle
    EndedClassIsFrozen
    MicLossIsLogged
