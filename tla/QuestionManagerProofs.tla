------------------------- MODULE QuestionManagerProofs -------------------------
(***************************************************************************)
(* Theorems about QuestionManager, for any classes, students, options and  *)
(* bounds.  The inductive invariant QuestionInv adds to the properties that *)
(* ids are fresh, so that publishing never moves a question to another     *)
(* class, and that the two files hold what the memory holds, unless        *)
(* questions.json was emptied, so that a restart brings back all or no      *)
(* questions, and all answers.                                             *)
(***************************************************************************)
EXTENDS QuestionManager, FiniteSetTheorems, TLAPS

QuestionIdsAreFresh ==
    \A q \in QuestionIds : q \in KnownQuestions <=> q < nextQuestionId

QuestionsAreSaved ==
    /\ questionsFile # Torn => Range(questionsFile) = KnownQuestions
    /\ cutText \/ questionsFile = Torn => LongTexts

AnswersAreSaved == answersFile = answers

QuestionInv ==
    /\ TypeOK
    /\ QuestionIdsAreFresh
    /\ QuestionsAreSaved
    /\ AnswersAreSaved
    /\ AnsweredMatchesAnswers
    /\ ActiveQuestionIsOfClass

-----------------------------------------------------------------------------
(* Sequences. *)

\* The order questions.json is written in is a sequence of the set, whole.
LEMMA SetToSeqsRange ==
  ASSUME NEW S, IsFiniteSet(S), NEW s \in SetToSeqs(S)
  PROVE  s \in Seq(S) /\ Range(s) = S
<1> DEFINE n == Cardinality(S)
<1>1. n \in Nat
  BY FS_CardinalityType
<1>2. s \in [1 .. n -> S] /\ \A i, j \in 1 .. n : i # j => s[i] # s[j]
  BY DEF SetToSeqs
<1>3. IsFiniteSet(1 .. n) /\ Cardinality(1 .. n) = n
  BY <1>1, FS_Interval
<1>4. s \in Injection(1 .. n, S)
  BY <1>2 DEF Injection, IsInjective
<1>5. s \in Surjection(1 .. n, S)
  BY <1>3, <1>4, FS_Injection
<1>6. \A x \in S : \E i \in 1 .. n : s[i] = x
  BY <1>5 DEF Surjection
<1>7. DOMAIN s = 1 .. n /\ s \in Seq(S)
  BY <1>1, <1>2
<1> QED BY <1>2, <1>6, <1>7 DEF Range

\* What Append does to the members of a list of answers.
LEMMA RangeOfAppend ==
  ASSUME NEW S, NEW s \in Seq(S), NEW x \in S
  PROVE  /\ Append(s, x) \in Seq(S)
         /\ Range(Append(s, x)) = Range(s) \cup {x}
         /\ IsPrefix(s, Append(s, x))
<1> DEFINE t == Append(s, x)
<1>1. /\ t \in Seq(S) /\ Len(t) = Len(s) + 1
      /\ \A i \in 1 .. Len(s) : t[i] = s[i]
      /\ t[Len(s) + 1] = x
  OBVIOUS
<1>2. DOMAIN s = 1 .. Len(s) /\ DOMAIN t = 1 .. Len(s) + 1 /\ Len(s) \in Nat
  BY <1>1
<1>3. Range(t) = Range(s) \cup {x}
  <2>1. Range(s) \subseteq Range(t)
    BY <1>1, <1>2 DEF Range
  <2>2. x \in Range(t)
    BY <1>1, <1>2 DEF Range
  <2>3. Range(t) \subseteq Range(s) \cup {x}
    BY <1>1, <1>2 DEF Range
  <2> QED BY <2>1, <2>2, <2>3
<1>4. SubSeq(s, 1, Len(s)) = SubSeq(t, 1, Len(s))
  BY <1>1, <1>2
<1> QED BY <1>1, <1>3, <1>4 DEF IsPrefix

LEMMA PrefixOfItself ==
  ASSUME NEW S, NEW s \in Seq(S)
  PROVE  IsPrefix(s, s)
BY DEF IsPrefix

\* There are finitely many questions.
LEMMA KnownIsFinite ==
  ASSUME NEW q \in QuestionIds
  PROVE  IsFiniteSet(KnownQuestions \cup {q}) /\ KnownQuestions \cup {q} \subseteq QuestionIds
<1>1. IsFiniteSet(QuestionIds)
  BY FS_Interval, QuestionAssumption DEF QuestionIds
<1>2. KnownQuestions \cup {q} \subseteq QuestionIds
  BY DEF KnownQuestions
<1> QED BY <1>1, <1>2, FS_Subset

-----------------------------------------------------------------------------
(* The steps. *)

LEMMA PublishStep ==
  ASSUME QuestionInv, NEW c \in Classes, PublishQuestion(c)
  PROVE  /\ QuestionInv'
         /\ nextQuestionId \notin KnownQuestions
         /\ KnownQuestions' = KnownQuestions \cup {nextQuestionId}
<1> DEFINE q == nextQuestionId
<1>1. /\ q \in QuestionIds /\ nextQuestionId' = q + 1
      /\ questionClass' = [questionClass EXCEPT ![q] = c]
      /\ activeQuestion' = [activeQuestion EXCEPT ![c] = q]
      /\ questionsFile' = Torn \/ questionsFile' \in SetToSeqs(KnownQuestions \cup {q})
      /\ cutText' \in {cutText, cutText \/ LongTexts}
      /\ questionsFile' = Torn => cutText'
      /\ UNCHANGED <<answers, answered, answersFile, restarts>>
  <2>1. Torn \notin SetToSeqs(KnownQuestions \cup {q})
    <3>1. q \in QuestionIds
      BY DEF PublishQuestion
    <3>2. IsFiniteSet(KnownQuestions \cup {q}) /\ KnownQuestions \cup {q} \subseteq QuestionIds
      BY <3>1, KnownIsFinite
    <3>3. \A s \in SetToSeqs(KnownQuestions \cup {q}) : s \in Seq(KnownQuestions \cup {q})
      BY <3>2, SetToSeqsRange
    <3>4. \A s \in Seq(KnownQuestions \cup {q}) : s \in Seq(QuestionIds)
      BY <3>2
    <3> QED BY <3>3, <3>4, QuestionAssumption
  <2> QED BY <2>1 DEF PublishQuestion, answerVars
<1>2. TypeOK
  BY DEF QuestionInv
<1>3. q \notin KnownQuestions
  BY <1>1 DEF QuestionInv, QuestionIdsAreFresh, QuestionIds
<1>4. \A p \in QuestionIds : questionClass'[p] = IF p = q THEN c ELSE questionClass[p]
  BY <1>1, <1>2 DEF TypeOK
<1>5. KnownQuestions' = KnownQuestions \cup {q}
  BY <1>1, <1>4, QuestionAssumption DEF KnownQuestions
<1>6. questionsFile' # Torn =>
        /\ questionsFile' \in Seq(KnownQuestions \cup {q})
        /\ Range(questionsFile') = KnownQuestions \cup {q}
  BY <1>1, KnownIsFinite, SetToSeqsRange
<1>7. TypeOK'
  <2>1. questionsFile' \in Seq(QuestionIds) \cup {Torn}
    <3>1. KnownQuestions \cup {q} \subseteq QuestionIds
      BY <1>1, KnownIsFinite
    <3> QED BY <1>6, <3>1
  <2>2. nextQuestionId' \in 1 .. MaxQuestions + 1
    BY <1>1, QuestionAssumption DEF QuestionIds
  <2>3. cutText' \in BOOLEAN
    BY <1>1, <1>2, QuestionAssumption DEF TypeOK
  <2> QED BY <1>1, <1>2, <2>1, <2>2, <2>3 DEF TypeOK
<1>8. QuestionIdsAreFresh'
  <2> SUFFICES ASSUME NEW p \in QuestionIds
               PROVE  p \in KnownQuestions' <=> p < q + 1
    BY <1>1 DEF QuestionIdsAreFresh
  <2>1. p \in KnownQuestions <=> p < q
    BY DEF QuestionInv, QuestionIdsAreFresh
  <2>2. p < q + 1 <=> p < q \/ p = q
    BY <1>1 DEF QuestionIds
  <2> QED BY <1>5, <2>1, <2>2
<1>9. QuestionsAreSaved' /\ AnswersAreSaved' /\ AnsweredMatchesAnswers'
  BY <1>1, <1>5, <1>6
  DEF QuestionInv, QuestionsAreSaved, AnswersAreSaved, AnsweredMatchesAnswers
<1>10. ActiveQuestionIsOfClass'
  <2> SUFFICES ASSUME NEW d \in Classes
               PROVE  IF \E p \in KnownQuestions' : questionClass'[p] = d
                      THEN /\ activeQuestion'[d] \in KnownQuestions'
                           /\ questionClass'[activeQuestion'[d]] = d
                      ELSE activeQuestion'[d] = NoQuestion
    BY DEF ActiveQuestionIsOfClass
  <2>1. CASE d = c
    BY <1>1, <1>2, <1>4, <1>5, <2>1 DEF TypeOK
  <2>2. CASE d # c
    <3>1. activeQuestion'[d] = activeQuestion[d]
      BY <1>1, <1>2, <2>2 DEF TypeOK
    <3>2. (\E p \in KnownQuestions' : questionClass'[p] = d)
            <=> (\E p \in KnownQuestions : questionClass[p] = d)
      BY <1>1, <1>3, <1>4, <1>5, <2>2 DEF KnownQuestions
    <3> QED
      BY <1>3, <1>4, <1>5, <3>1, <3>2
      DEF QuestionInv, ActiveQuestionIsOfClass, KnownQuestions
  <2> QED BY <2>1, <2>2
<1> QED BY <1>3, <1>5, <1>7, <1>8, <1>9, <1>10 DEF QuestionInv

\* A step that leaves the questions alone keeps what is said of them.
LEMMA QuestionsUnchanged ==
  ASSUME QuestionInv, UNCHANGED questionVars
  PROVE  /\ QuestionIdsAreFresh' /\ QuestionsAreSaved' /\ ActiveQuestionIsOfClass'
         /\ KnownQuestions' = KnownQuestions
BY DEF questionVars, QuestionInv, QuestionIdsAreFresh, QuestionsAreSaved,
       ActiveQuestionIsOfClass, KnownQuestions

LEMMA SubmitStep ==
  ASSUME QuestionInv, NEW q \in QuestionIds, NEW u \in Students,
         NEW answer \in AnswerRequests, SubmitAnswer(q, u, answer)
  PROVE  QuestionInv'
<1> DEFINE record == [user |-> u, answer |-> answer]
<1>1. TypeOK /\ AnswersAreSaved /\ AnsweredMatchesAnswers
  BY DEF QuestionInv
<1>2. /\ answers' = [answers EXCEPT ![q] = Append(answers[q], record)]
      /\ answered' = [answered EXCEPT ![q] = answered[q] \cup {u}]
      /\ answersFile' = answers'
      /\ UNCHANGED questionVars /\ restarts' = restarts
      /\ answer \in ValidAnswers /\ u \notin answered[q]
  BY DEF SubmitAnswer, MayAnswer
<1>3. record \in AnswerRecord
  BY <1>2 DEF AnswerRecord
<1>4. answers[q] \in Seq(AnswerRecord)
  BY <1>1 DEF TypeOK
<1> HIDE DEF record
<1>5. TypeOK'
  BY <1>1, <1>2, <1>3, <1>4, RangeOfAppend DEF TypeOK, questionVars
<1>6. AnsweredMatchesAnswers'
  <2> SUFFICES ASSUME NEW p \in QuestionIds
               PROVE  /\ answered'[p] = {a.user : a \in Range(answers'[p])}
                      /\ \A i, j \in DOMAIN answers'[p] :
                           answers'[p][i].user = answers'[p][j].user => i = j
    BY DEF AnsweredMatchesAnswers
  <2>1. CASE p # q
    BY <1>1, <1>2, <2>1 DEF TypeOK, AnsweredMatchesAnswers
  <2>2. CASE p = q
    <3>1. answers'[q] = Append(answers[q], record) /\ answered'[q] = answered[q] \cup {u}
      BY <1>1, <1>2 DEF TypeOK
    <3>2. answered[q] = {a.user : a \in Range(answers[q])}
      BY <1>1 DEF AnsweredMatchesAnswers
    <3>3. Range(answers'[q]) = Range(answers[q]) \cup {record} /\ record.user = u
      BY <1>3, <1>4, <3>1, RangeOfAppend DEF record
    <3>4. \A i \in DOMAIN answers[q] : answers[q][i].user # u
      BY <1>2, <3>2 DEF Range
    <3>5. \A i, j \in DOMAIN answers[q] :
             answers[q][i].user = answers[q][j].user => i = j
      BY <1>1 DEF AnsweredMatchesAnswers
    <3>6. /\ DOMAIN answers'[q] = DOMAIN answers[q] \cup {Len(answers[q]) + 1}
          /\ \A i \in DOMAIN answers[q] : answers'[q][i] = answers[q][i]
          /\ answers'[q][Len(answers[q]) + 1] = record
      BY <1>3, <1>4, <3>1
    <3>7. \A i, j \in DOMAIN answers'[q] :
             answers'[q][i].user = answers'[q][j].user => i = j
      BY <3>3, <3>4, <3>5, <3>6
    <3> QED BY <2>2, <3>1, <3>2, <3>3, <3>7
  <2> QED BY <2>1, <2>2
<1> QED BY <1>2, <1>5, <1>6, QuestionsUnchanged DEF QuestionInv, AnswersAreSaved

\* The counter resumes where it was: right above the largest id in the file.
LEMMA CounterComesBack ==
  ASSUME QuestionInv, NEW n \in IdAfterLoad
  PROVE  n = nextQuestionId
<1>1. /\ n \in 1 .. MaxQuestions + 1
      /\ \A q \in KnownQuestions : q < n
      /\ n > 1 => n - 1 \in KnownQuestions
  BY DEF IdAfterLoad
<1>2. /\ nextQuestionId \in 1 .. MaxQuestions + 1
      /\ \A q \in QuestionIds : q \in KnownQuestions <=> q < nextQuestionId
      /\ MaxQuestions \in Nat
  BY QuestionAssumption DEF QuestionInv, TypeOK, QuestionIdsAreFresh
<1>3. ~(n > nextQuestionId)
  <2> SUFFICES ASSUME n > nextQuestionId PROVE FALSE
    OBVIOUS
  <2>1. n - 1 \in KnownQuestions /\ n - 1 \in QuestionIds
    BY <1>1, <1>2 DEF QuestionIds
  <2> QED BY <1>1, <1>2, <2>1
<1>4. ~(n < nextQuestionId)
  <2> SUFFICES ASSUME n < nextQuestionId PROVE FALSE
    OBVIOUS
  <2>1. n \in QuestionIds
    BY <1>1, <1>2 DEF QuestionIds
  <2> QED BY <1>1, <1>2, <2>1
<1> QED BY <1>1, <1>2, <1>3, <1>4

\* The answers come back whatever has become of the questions.
LEMMA AnswersComeBack ==
  ASSUME QuestionInv, Restart
  PROVE  /\ answers' = answers /\ answered' = answered /\ answersFile' = answersFile
         /\ AnswersAreSaved' /\ AnsweredMatchesAnswers'
<1>1. TypeOK /\ AnswersAreSaved /\ AnsweredMatchesAnswers
  BY DEF QuestionInv
<1>2. /\ answers' = answersFile /\ answersFile' = answersFile
      /\ answered' = [q \in QuestionIds |-> {a.user : a \in Range(answersFile[q])}]
  BY DEF Restart, LoadAnswers
<1>3. answers' = answers
  BY <1>1, <1>2 DEF AnswersAreSaved
<1>4. answered' = answered
  <2>1. \A q \in QuestionIds : answered[q] = {a.user : a \in Range(answersFile[q])}
    BY <1>1 DEF AnswersAreSaved, AnsweredMatchesAnswers
  <2> QED BY <1>1, <1>2, <2>1 DEF TypeOK
<1> QED BY <1>1, <1>2, <1>3, <1>4 DEF AnswersAreSaved, AnsweredMatchesAnswers

\* A restart that can read questions.json.
LEMMA ReadingStep ==
  ASSUME QuestionInv, Restart, questionsFile # Torn
  PROVE  QuestionInv' /\ KnownQuestions' = KnownQuestions
<1>1. TypeOK /\ QuestionsAreSaved
  BY DEF QuestionInv
<1>2. /\ nextQuestionId' \in IdAfterLoad'
      /\ activeQuestion' \in [Classes -> QuestionIds \cup {NoQuestion}]
      /\ \A c \in Classes : activeQuestion'[c] \in LastInFile(c)
      /\ UNCHANGED <<questionClass, questionsFile>>
      /\ cutText' = FALSE /\ restarts' = restarts + 1
  BY DEF Restart
<1>3. KnownQuestions' = KnownQuestions
  BY <1>2 DEF KnownQuestions
<1>4. IdAfterLoad' = IdAfterLoad
  BY <1>3 DEF IdAfterLoad
<1>5. nextQuestionId' = nextQuestionId
  BY <1>2, <1>4, CounterComesBack
<1>6. TypeOK'
  <2>1. cutText' \in BOOLEAN
    BY <1>2, Zenon
  <2>2. restarts' \in Nat
    BY <1>1, <1>2 DEF TypeOK
  <2> QED BY <1>1, <1>2, <1>5, <2>1, <2>2, AnswersComeBack DEF TypeOK
<1>7. Range(questionsFile) = KnownQuestions /\ InFile = questionsFile
  BY <1>1 DEF QuestionsAreSaved, InFile
<1>8. ActiveQuestionIsOfClass'
  <2> SUFFICES ASSUME NEW c \in Classes
               PROVE  IF \E p \in KnownQuestions : questionClass[p] = c
                      THEN /\ activeQuestion'[c] \in KnownQuestions
                           /\ questionClass[activeQuestion'[c]] = c
                      ELSE activeQuestion'[c] = NoQuestion
    BY <1>2, <1>3 DEF ActiveQuestionIsOfClass
  <2> DEFINE places == {i \in DOMAIN questionsFile : questionClass[questionsFile[i]] = c}
  <2>1. \A i \in places : questionsFile[i] \in KnownQuestions
    BY <1>7 DEF Range
  <2>2. (\E p \in KnownQuestions : questionClass[p] = c) <=> places # {}
    BY <1>7 DEF Range
  <2>3. CASE places = {}
    BY <1>2, <1>7, <2>2, <2>3 DEF LastInFile
  <2>4. CASE places # {}
    <3>1. PICK i \in places : activeQuestion'[c] = questionsFile[i]
      BY <1>2, <1>7, <2>4 DEF LastInFile
    <3> QED BY <2>1, <2>2, <2>4, <3>1
  <2> QED BY <2>3, <2>4
<1>9. QuestionIdsAreFresh' /\ QuestionsAreSaved'
  BY <1>2, <1>3, <1>5 DEF QuestionInv, QuestionIdsAreFresh, QuestionsAreSaved
<1> QED BY <1>3, <1>6, <1>8, <1>9, AnswersComeBack DEF QuestionInv

\* A restart that cannot: the ids start over.
LEMMA LosingStep ==
  ASSUME QuestionInv, Restart, questionsFile = Torn
  PROVE  QuestionInv' /\ KnownQuestions' = {} /\ LongTexts
<1>1. TypeOK /\ QuestionsAreSaved
  BY DEF QuestionInv
<1>2. /\ nextQuestionId' \in IdAfterLoad'
      /\ activeQuestion' \in [Classes -> QuestionIds \cup {NoQuestion}]
      /\ \A c \in Classes : activeQuestion'[c] \in LastInFile(c)
      /\ questionClass' = [q \in QuestionIds |-> NoClass]
      /\ questionsFile' = Torn /\ cutText' = FALSE /\ restarts' = restarts + 1
  BY DEF Restart
<1>3. KnownQuestions' = {}
  BY <1>2 DEF KnownQuestions
<1>4. nextQuestionId' = 1
  <2>1. /\ nextQuestionId' \in 1 .. MaxQuestions + 1
        /\ nextQuestionId' > 1 => nextQuestionId' - 1 \in KnownQuestions'
    BY <1>2 DEF IdAfterLoad
  <2> QED BY <1>3, <2>1, QuestionAssumption
<1>5. \A c \in Classes : activeQuestion'[c] = NoQuestion
  BY <1>1, <1>2 DEF LastInFile, InFile
<1>6. TypeOK'
  <2>1. restarts' \in Nat /\ nextQuestionId' \in 1 .. MaxQuestions + 1
    BY <1>1, <1>2, <1>4, QuestionAssumption DEF TypeOK
  <2>3. cutText' \in BOOLEAN
    BY <1>2, Zenon
  <2>2. questionClass' \in [QuestionIds -> Classes \cup {NoClass}]
    BY <1>2
  <2> QED BY <1>1, <1>2, <2>1, <2>2, <2>3, AnswersComeBack DEF TypeOK
<1>7. QuestionIdsAreFresh' /\ ActiveQuestionIsOfClass' /\ QuestionsAreSaved' /\ LongTexts
  BY <1>1, <1>2, <1>3, <1>4, <1>5
  DEF QuestionIdsAreFresh, QuestionIds, ActiveQuestionIsOfClass, QuestionsAreSaved
<1> QED BY <1>3, <1>6, <1>7, AnswersComeBack DEF QuestionInv

LEMMA RestartStep ==
  ASSUME QuestionInv, Restart
  PROVE  /\ QuestionInv' /\ answers' = answers
         /\ \/ KnownQuestions' = KnownQuestions
            \/ KnownQuestions' = {} /\ LongTexts
BY AnswersComeBack, ReadingStep, LosingStep

LEMMA StutterStep ==
  ASSUME QuestionInv, UNCHANGED qmVars
  PROVE  QuestionInv' /\ answers' = answers /\ KnownQuestions' = KnownQuestions
BY DEF qmVars, questionVars, answerVars, QuestionInv, TypeOK, QuestionIdsAreFresh,
       QuestionsAreSaved, AnswersAreSaved, AnsweredMatchesAnswers,
       ActiveQuestionIsOfClass, KnownQuestions

LEMMA QuestionStep == QuestionInv /\ [Next]_qmVars => QuestionInv'
BY PublishStep, SubmitStep, RestartStep, StutterStep DEF Next

\* The server starts without questions.
LEMMA QuestionInit == Init => QuestionInv
<1> SUFFICES ASSUME Init PROVE QuestionInv
  OBVIOUS
<1> USE DEF Init
<1>1. Range(<<>>) = {}
  BY DEF Range
<1>2. KnownQuestions = {}
  BY DEF KnownQuestions
<1>3. TypeOK
  <2>1. /\ restarts \in Nat /\ nextQuestionId \in 1 .. MaxQuestions + 1
        /\ questionsFile \in Seq(QuestionIds) \cup {Torn}
    BY QuestionAssumption
  <2>2. cutText \in BOOLEAN
    BY Zenon
  <2> QED BY <2>1, <2>2 DEF TypeOK
<1>4. QuestionIdsAreFresh
  BY <1>2 DEF QuestionIdsAreFresh, QuestionIds
<1>5. QuestionsAreSaved /\ AnswersAreSaved /\ AnsweredMatchesAnswers
  <2>1. questionsFile # Torn
    <3>1. <<>> \in Seq(QuestionIds)
      OBVIOUS
    <3> QED BY <3>1, QuestionAssumption
  <2>2. ~cutText
    OBVIOUS
  <2> QED
    BY <1>1, <1>2, <2>1, <2>2 DEF QuestionsAreSaved, AnswersAreSaved, AnsweredMatchesAnswers
<1>6. ActiveQuestionIsOfClass
  BY <1>2 DEF ActiveQuestionIsOfClass
<1> QED BY <1>3, <1>4, <1>5, <1>6 DEF QuestionInv

\* The inductive invariant holds of every behaviour.
THEOREM QuestionInvariant == Spec => []QuestionInv
BY QuestionInit, QuestionStep, PTL DEF Spec

-----------------------------------------------------------------------------
(* The properties of QuestionManager. *)

\* The question manager's maps and files keep their types.
THEOREM QuestionTypes == Spec => []TypeOK
<1>1. QuestionInv => TypeOK
  BY DEF QuestionInv
<1> QED BY <1>1, QuestionInvariant, PTL

\* answered_ is the set of those who have a record, and nobody has two.
THEOREM OneAnswerEach == Spec => []AnsweredMatchesAnswers
<1>1. QuestionInv => AnsweredMatchesAnswers
  BY DEF QuestionInv
<1> QED BY <1>1, QuestionInvariant, PTL

\* Whatever the order of questions.json, a class of which questions_ has a question has an
\* active one, its own, after a restart too.
THEOREM ActiveIsOwn == Spec => []ActiveQuestionIsOfClass
<1>1. QuestionInv => ActiveQuestionIsOfClass
  BY DEF QuestionInv
<1> QED BY <1>1, QuestionInvariant, PTL

\* A list of answers only grows, at its end, while its question is active.
LEMMA FinalStep ==
  ASSUME QuestionInv, [Next]_qmVars, NEW q \in QuestionIds
  PROVE  /\ IsPrefix(answers[q], answers'[q])
         /\ answers'[q] # answers[q] => activeQuestion[questionClass[q]] = q
<1>1. answers \in [QuestionIds -> Seq(AnswerRecord)]
  BY DEF QuestionInv, TypeOK
<1>2. answers' = answers => IsPrefix(answers[q], answers'[q])
  BY <1>1, PrefixOfItself
<1>3. ASSUME NEW c \in Classes, PublishQuestion(c) PROVE answers' = answers
  BY <1>3 DEF PublishQuestion, answerVars
<1>4. ASSUME NEW p \in QuestionIds, NEW u \in Students, NEW a \in AnswerRequests,
             SubmitAnswer(p, u, a)
      PROVE  /\ IsPrefix(answers[q], answers'[q])
             /\ answers'[q] # answers[q] => activeQuestion[questionClass[q]] = q
  <2> DEFINE record == [user |-> u, answer |-> a]
  <2>1. /\ answers' = [answers EXCEPT ![p] = Append(answers[p], record)]
        /\ activeQuestion[questionClass[p]] = p
        /\ record \in AnswerRecord
    BY <1>4 DEF SubmitAnswer, MayAnswer, AnswerRecord
  <2> HIDE DEF record
  <2>2. CASE p = q
    BY <1>1, <2>1, <2>2, RangeOfAppend
  <2>3. CASE p # q
    <3>1. answers'[q] = answers[q]
      BY <1>1, <2>1, <2>3
    <3> QED BY <1>1, <3>1, PrefixOfItself
  <2> QED BY <2>2, <2>3
<1>5. Restart \/ UNCHANGED qmVars => answers' = answers
  BY RestartStep, StutterStep
<1> QED BY <1>2, <1>3, <1>4, <1>5 DEF Next

\* Recorded answers are final, restarts included.
THEOREM FinalAnswers == Spec => AnswersAreFinal
<1>1. QuestionInv /\ [Next]_qmVars =>
        [\A q \in QuestionIds :
            /\ IsPrefix(answers[q], answers'[q])
            /\ answers'[q] # answers[q] =>
                  activeQuestion[questionClass[q]] = q]_qmVars
  BY FinalStep
<1> QED BY <1>1, QuestionInvariant, PTL DEF Spec, AnswersAreFinal

-----------------------------------------------------------------------------
(* QuestionManager implements Poll. *)

\* Of the records of one student in a list there is at most one.
LEMMA OneRecordEach ==
  ASSUME AnsweredMatchesAnswers, NEW q \in QuestionIds,
         NEW a \in Range(answers[q]), NEW b \in Range(answers[q]), a.user = b.user
  PROVE  a = b
BY DEF AnsweredMatchesAnswers, Range

Votes == [q \in QuestionIds |-> [u \in Students |-> VoteOf(q, u)]]

LEMMA PollInit == Init => P!Init
<1> SUFFICES ASSUME Init PROVE P!Init
  OBVIOUS
<1>1. KnownQuestions = {}
  BY DEF Init, KnownQuestions
<1>2. \A q \in QuestionIds : Range(answers[q]) = {}
  BY DEF Init, Range
<1>3. \A q \in QuestionIds, u \in Students : VoteOf(q, u) = NoVote
  BY <1>2 DEF VoteOf
<1> QED BY <1>1, <1>3 DEF P!Init

\* Answers that stay as they are leave the votes as they are.
LEMMA VotesUnchanged ==
  ASSUME answers' = answers
  PROVE  Votes' = Votes
BY DEF Votes, VoteOf, Range

\* An accepted answer is a vote of that student, who had none.
LEMMA SubmitIsVote ==
  ASSUME QuestionInv, NEW q \in QuestionIds, NEW u \in Students,
         NEW answer \in AnswerRequests, SubmitAnswer(q, u, answer)
  PROVE  P!Vote(q, u, answer) /\ answer \in ValidAnswers
<1> DEFINE record == [user |-> u, answer |-> answer]
<1>1. TypeOK /\ AnsweredMatchesAnswers /\ TypeOK' /\ AnsweredMatchesAnswers'
  BY SubmitStep DEF QuestionInv
<1>2. /\ answers' = [answers EXCEPT ![q] = Append(answers[q], record)]
      /\ UNCHANGED questionVars
      /\ q \in KnownQuestions /\ answer \in ValidAnswers /\ u \notin answered[q]
      /\ record \in AnswerRecord
  BY DEF SubmitAnswer, MayAnswer, AnswerRecord
<1>3. /\ \A p \in QuestionIds \ {q} : answers'[p] = answers[p]
      /\ Range(answers'[q]) = Range(answers[q]) \cup {record}
  BY <1>1, <1>2, RangeOfAppend DEF TypeOK
<1>4. \A a \in Range(answers[q]) : a.user # u
  BY <1>1, <1>2 DEF AnsweredMatchesAnswers
<1>5. VoteOf(q, u) = NoVote
  BY <1>4 DEF VoteOf
<1>6. VoteOf(q, u)' = answer
  <2>1. \A b \in Range(answers'[q]) : b.user = u <=> b = record
    BY <1>3, <1>4
  <2>2. record \in Range(answers'[q]) /\ record.user = u /\ record.answer = answer
    BY <1>3
  <2> HIDE DEF record
  <2> QED BY <2>1, <2>2 DEF VoteOf
<1>7. ASSUME NEW v \in Students, v # u PROVE VoteOf(q, v)' = VoteOf(q, v)
  <2>1. CASE \E b \in Range(answers[q]) : b.user = v
    <3>1. PICK b \in Range(answers[q]) : b.user = v
      BY <2>1
    <3>2. \A d \in Range(answers[q]) : d.user = v => d = b
      BY <1>1, <3>1, OneRecordEach
    <3>3. \A d \in Range(answers'[q]) : d.user = v => d = b
      BY <1>3, <1>7, <3>2
    <3>4. VoteOf(q, v) = b.answer
      BY <3>1, <3>2 DEF VoteOf
    <3>5. VoteOf(q, v)' = b.answer
      BY <1>3, <3>1, <3>3 DEF VoteOf
    <3> QED BY <3>4, <3>5
  <2>2. CASE ~ \E b \in Range(answers[q]) : b.user = v
    BY <1>3, <1>7, <2>2 DEF VoteOf, NoVote
  <2> QED BY <2>1, <2>2
<1>8. ASSUME NEW p \in QuestionIds \ {q}, NEW v \in Students
      PROVE  VoteOf(p, v)' = VoteOf(p, v)
  BY <1>3 DEF VoteOf, NoVote
<1>9. Votes' = [Votes EXCEPT ![q][u] = answer]
  BY <1>6, <1>7, <1>8 DEF Votes
<1>10. KnownQuestions' = KnownQuestions
  BY <1>2 DEF questionVars, KnownQuestions
<1> QED BY <1>2, <1>5, <1>9, <1>10 DEF P!Vote, Votes

LEMMA PollStep == QuestionInv /\ [Next]_qmVars => [P!Next]_P!pollVars
<1> SUFFICES ASSUME QuestionInv, [Next]_qmVars PROVE [P!Next]_P!pollVars
  OBVIOUS
<1>1. ASSUME NEW c \in Classes, PublishQuestion(c) PROVE P!Next
  <2>1. nextQuestionId \in QuestionIds /\ answers' = answers
    BY <1>1 DEF PublishQuestion, answerVars
  <2>2. Votes' = Votes
    BY <2>1, VotesUnchanged
  <2>3. P!Publish(nextQuestionId)
    BY <1>1, <2>2, PublishStep DEF P!Publish, Votes
  <2> QED BY <2>1, <2>3 DEF P!Next
<1>2. ASSUME NEW q \in QuestionIds, NEW u \in Students, NEW a \in AnswerRequests,
             SubmitAnswer(q, u, a)
      PROVE  P!Next
  BY <1>2, SubmitIsVote DEF P!Next
<1>3. CASE Restart \/ UNCHANGED qmVars
  <2>1. /\ answers' = answers
        /\ \/ KnownQuestions' = KnownQuestions
           \/ KnownQuestions' = {} /\ LongTexts
    BY <1>3, RestartStep, StutterStep
  <2>2. Votes' = Votes
    BY <2>1, VotesUnchanged
  <2> QED BY <2>1, <2>2 DEF P!pollVars, P!Next, P!Forget, Votes
<1> QED BY <1>1, <1>2, <1>3 DEF Next

\* Answering implements the poll: publishing is Publish, an accepted answer is Vote, and
\* a restart is a stutter, or Forget if a text could not be written.
THEOREM PollImplemented == Spec => ImplementsPoll
<1>1. Init => P!Init
  BY PollInit
<1>2. QuestionInv /\ [Next]_qmVars => [P!Next]_P!pollVars
  BY PollStep
<1> QED BY <1>1, <1>2, QuestionInvariant, PTL DEF Spec, ImplementsPoll, P!Spec

=============================================================================
