SPECIFICATION AccountsSpec
CONSTANTS
    Names = {"admin", "ann"}
    AdminNames = {"admin"}
    DefaultAdmin = "admin"
    Torn = Torn
    LongNames = FALSE
    Users = {1, 2}
    Fds = {1, 2}
    NoUser = 0
    NoFd = NoFd
    Windows = {w1, w2}
    Impatient = TRUE
    MaxRequests = 2
    MaxAnswers = 1
    MaxRestarts = 0
INVARIANTS
    LoggedInMeansActing
CHECK_DEADLOCK FALSE
