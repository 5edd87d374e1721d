---------------------------- MODULE QuestionManager ----------------------------
(***************************************************************************)
(* QuestionManager: questions, the one that is active in each class, the   *)
(* answers, and the two files they are saved to.                           *)
(*                                                                         *)
(* A question stands for its id, its class and its number of options; what *)
(* it says is left out.  saveQuestions runs over an unordered_map, so the   *)
(* order of questions.json is any order of the questions published so far:  *)
(* it is chosen when the file is written and stays until the next write.    *)
(* saveAnswers keeps the order within each question.                        *)
(* clampStr may cut the content or an option inside a UTF-8 character: the  *)
(* question is kept in memory, but every saveQuestions from then on throws  *)
(* after the file has been emptied.                                        *)
(***************************************************************************)
EXTENDS Integers, Sequences, SequencesExt

CONSTANTS
    Classes,            \* classes questions are published in
    Students,           \* accounts that answer
    MaxQuestions,       \* bound on the questions ever published
    NumOptions,         \* options of every question
    AnswerRequests,     \* values of `answer' the requests carry
    NoClass,            \* the question is not in questions_
    NoQuestion,         \* activeQuestion_ has no entry for the class
    Torn,               \* questions.json is empty
    LongTexts,          \* may a text be cut inside a character
    MaxRestarts         \* bound on the server restarts

QuestionIds == 1 .. MaxQuestions

ValidAnswers == 0 .. NumOptions - 1

ASSUME QuestionAssumption ==
    /\ MaxQuestions \in Nat /\ MaxRestarts \in Nat
    /\ NumOptions \in Nat \ {0, 1}
    /\ AnswerRequests \subseteq Int
    /\ NoClass \notin Classes
    /\ NoQuestion \notin Nat
    /\ LongTexts \in BOOLEAN
    /\ Torn \notin Seq(QuestionIds)

VARIABLES
    nextQuestionId,     \* nextQuestionId_
    questionClass,      \* questions_[q].classId
    activeQuestion,     \* activeQuestion_[c]
    answers,            \* answers_[q], oldest first
    answered,           \* answered_[q]: the students whose answer was taken
    questionsFile,      \* ids in questions.json, in the order they were written
    cutText,            \* some question in questions_ cannot be written
    answersFile,        \* the records of answers.json about each question
    restarts            \* number of restarts so far

questionVars == <<nextQuestionId, questionClass, activeQuestion, questionsFile, cutText>>
answerVars == <<answers, answered, answersFile>>
qmVars == <<questionVars, answerVars, restarts>>

Init ==
    /\ nextQuestionId = 1
    /\ questionClass = [q \in QuestionIds |-> NoClass]
    /\ activeQuestion = [c \in Classes |-> NoQuestion]
    /\ answers = [q \in QuestionIds |-> <<>>]
    /\ answered = [q \in QuestionIds |-> {}]
    /\ questionsFile = <<>> /\ cutText = FALSE
    /\ answersFile = [q \in QuestionIds |-> <<>>]
    /\ restarts = 0

KnownQuestions == {q \in QuestionIds : questionClass[q] # NoClass}

-----------------------------------------------------------------------------

\* publishQuestion: the new question becomes the active one of its class.  saveQuestions
\* comes last, so what is in memory stays when it throws.
PublishQuestion(c) ==
    /\ nextQuestionId \in QuestionIds
    /\ nextQuestionId' = nextQuestionId + 1
    /\ questionClass' = [questionClass EXCEPT ![nextQuestionId] = c]
    /\ activeQuestion' = [activeQuestion EXCEPT ![c] = nextQuestionId]
    /\ cutText' \in {cutText, cutText \/ LongTexts}
    /\ IF cutText' THEN questionsFile' = Torn
       ELSE questionsFile' \in SetToSeqs(KnownQuestions \cup {nextQuestionId})
    /\ UNCHANGED <<answerVars, restarts>>

MayAnswerTwice(q, u, answer) ==  \* mutant: answered_ is not looked at
    /\ q \in KnownQuestions
    /\ activeQuestion[questionClass[q]] = q
    /\ answer \in ValidAnswers

\* The early returns of submitAnswer.
MayAnswer(q, u, answer) ==
    /\ q \in KnownQuestions
    /\ activeQuestion[questionClass[q]] = q
    /\ answer \in ValidAnswers
    /\ u \notin answered[q]

SubmitAnswer(q, u, answer) ==
    /\ MayAnswer(q, u, answer)
    /\ answers' = [answers EXCEPT ![q] = Append(@, [user |-> u, answer |-> answer])]
    /\ answered' = [answered EXCEPT ![q] = @ \cup {u}]
    /\ answersFile' = answers'
    /\ UNCHANGED <<questionVars, restarts>>

-----------------------------------------------------------------------------
(* Restart: the constructor runs loadQuestions, then loadAnswers.            *)

\* loadQuestions takes a file it cannot parse for one without questions.
InFile == IF questionsFile = Torn THEN <<>> ELSE questionsFile

LastInFileOfAny(c) ==  \* mutant: the question is filed under every class
    IF InFile = <<>> THEN {NoQuestion} ELSE {Last(InFile)}

\* What loadQuestions leaves in activeQuestion_[c]: each question of the class overwrites
\* the one before it in the file.
LastInFile(c) ==
    LET places == {i \in DOMAIN InFile : questionClass[InFile[i]] = c}
    IN  IF places = {} THEN {NoQuestion}
        ELSE {InFile[i] : i \in {j \in places : \A k \in places : k <= j}}

IdAfterLoad ==
    { n \in 1 .. MaxQuestions + 1 :
        /\ \A q \in KnownQuestions : q < n
        /\ n > 1 => n - 1 \in KnownQuestions }

LoadAnswersOnly ==  \* mutant: answered_ is not rebuilt
    /\ answers' = answersFile
    /\ answered' = [q \in QuestionIds |-> {}]

LoadAnswersReversed ==  \* mutant: records are put in front of the list
    /\ answers' = [q \in QuestionIds |-> Reverse(answersFile[q])]
    /\ answered' = [q \in QuestionIds |-> {a.user : a \in Range(answersFile[q])}]

LoadAnswers ==
    /\ answers' = answersFile
    /\ answered' = [q \in QuestionIds |-> {a.user : a \in Range(answersFile[q])}]

\* questions_ comes back as it was written: whole, or empty when the last save threw.
\* answers_ comes back in either case, and without questions the ids start over.
Restart ==
    /\ restarts < MaxRestarts
    /\ restarts' = restarts + 1
    /\ questionClass' = IF questionsFile = Torn THEN [q \in QuestionIds |-> NoClass]
                       ELSE questionClass
    /\ nextQuestionId' \in IdAfterLoad'
    /\ activeQuestion' \in [Classes -> QuestionIds \cup {NoQuestion}]
    /\ \A c \in Classes : activeQuestion'[c] \in LastInFile(c)
    /\ cutText' = FALSE
    /\ LoadAnswers
    /\ UNCHANGED <<questionsFile, answersFile>>

Next ==
    \/ \E c \in Classes : PublishQuestion(c)
    \/ \E q \in QuestionIds, u \in Students, a \in AnswerRequests : SubmitAnswer(q, u, a)
    \/ Restart

Spec == Init /\ [][Next]_qmVars

-----------------------------------------------------------------------------
(* Properties. *)

AnswerRecord == [user : Students, answer : ValidAnswers]

\* The types of the question manager's maps and files.
TypeOK ==
    /\ nextQuestionId \in 1 .. MaxQuestions + 1
    /\ questionClass \in [QuestionIds -> Classes \cup {NoClass}]
    /\ activeQuestion \in [Classes -> QuestionIds \cup {NoQuestion}]
    /\ answers \in [QuestionIds -> Seq(AnswerRecord)]
    /\ answered \in [QuestionIds -> SUBSET Students]
    /\ questionsFile \in Seq(QuestionIds) \cup {Torn}
    /\ cutText \in BOOLEAN
    /\ answersFile \in [QuestionIds -> Seq(AnswerRecord)]
    /\ restarts \in Nat

\* The set that stops a second answer and the list of answers agree, however often
\* the lists were reloaded: a student is in answered_ iff one record is theirs, and
\* then it is the only one.
AnsweredMatchesAnswers ==
    \A q \in QuestionIds :
        /\ answered[q] = {a.user : a \in Range(answers[q])}
        /\ \A i, j \in DOMAIN answers[q] :
              answers[q][i].user = answers[q][j].user => i = j

\* Whatever the order of the file, a class of which questions_ has a question has an active
\* one, which is its own; after a restart that found questions.json emptied, no class has
\* a question or an active one.
ActiveQuestionIsOfClass ==
    \A c \in Classes :
        IF \E q \in KnownQuestions : questionClass[q] = c
        THEN /\ activeQuestion[c] \in KnownQuestions
             /\ questionClass[activeQuestion[c]] = c
        ELSE activeQuestion[c] = NoQuestion

\* Recorded answers are final: restarts included, the list of a question only grows at
\* its end, and only while the question is the active one of its class.
AnswersAreFinal ==
    [][\A q \in QuestionIds :
          /\ IsPrefix(answers[q], answers'[q])
          /\ answers'[q] # answers[q] =>
                activeQuestion[questionClass[q]] = q]_qmVars

\* The recorded votes implement the abstract poll: a restart is a stutter of it, or its
\* Forget when the last save of the questions threw.
NoVote == NumOptions

VoteOf(q, u) ==
    IF \E a \in Range(answers[q]) : a.user = u
    THEN (CHOOSE a \in Range(answers[q]) : a.user = u).answer
    ELSE NoVote

P == INSTANCE Poll WITH
        Forgetful <- LongTexts,
        Questions <- QuestionIds, Voters <- Students, Options <- ValidAnswers,
        published <- KnownQuestions,
        votes <- [q \in QuestionIds |-> [u \in Students |-> VoteOf(q, u)]]

\* Answering implements Poll: one vote per student and question id, never changed and
\* never lost, across restarts between two requests.  Questions are never lost one by
\* one: all of them are when a text could not be written, and none without such a text.
ImplementsPoll == P!Spec

\* What the comment in loadQuestions says of activeQuestion_: "last published per
\* class".  The file has no such order, so a restart can bring an older question back.
ActiveIsLastPublished ==
    \A c \in Classes : \A q \in KnownQuestions :
        questionClass[q] = c => q <= activeQuestion[c]

=============================================================================
