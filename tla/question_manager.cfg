SPECIFICATION Spec
CONSTANTS
    c1 = c1
    c2 = c2
    s1 = s1
    s2 = s2
    NoClass = NoClass
    NoQuestion = NoQuestion
    Torn = Torn
    LongTexts = TRUE
    Classes <- MCClasses
    Students <- MCStudents
    MaxQuestions = 3
    NumOptions = 2
    AnswerRequests <- MCAnswerRequests
    MaxRestarts = 2
SYMMETRY Symmetries
INVARIANTS
    AnsweredMatchesAnswers
    ActiveQuestionIsOfClass

    
    
CHECK_DEADLOCK FALSE
