SPECIFICATION AccountsSpec
CONSTANTS
    Names = {"admin", "ann"}
    AdminNames = {"admin"}
    DefaultAdmin = "admin"
    Torn = Torn
    LongNames = TRUE
    Users = {1, 2}
    Fds = {1, 2}
    NoUser = 0
    NoFd = NoFd
    Windows = {w1, w2}
    Impatient = FALSE
    MaxRequests = 2
    MaxAnswers = 1
    MaxRestarts = 1
INVARIANTS
    CallerIsNotified
    IdsAreUnique
    FileIsCurrent
    ActsAsShown
PROPERTIES
    SessionsAreNotMoved
    AllAccountsOrNone
    LoginIsAnswered
    LostSessionsEnd
CHECK_DEADLOCK FALSE
