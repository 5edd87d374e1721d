------------------------------ MODULE StudentPage ------------------------------
(***************************************************************************)
(* The student's page: what it keeps between two messages, and what a      *)
(* message or a button makes of it.                                        *)
(*                                                                         *)
(* The page looks at the type of a notification and at nothing else: the    *)
(* class it carries is not compared with currentClassId_.  Labels, tables  *)
(* and pictures are left out.  A microphone that is granted twice in a row  *)
(* starts a second capture timer and loses the first; since each of them   *)
(* reads from the same audioIO_ and returns when it is null, the frames     *)
(* sent are those of one timer, so timers are not counted.                 *)
(***************************************************************************)
EXTENDS Integers

NewPage ==
    [class |-> 0,       \* currentClassId_
     question |-> 0,    \* currentQuestionId_
     mic |-> FALSE,     \* micGranted_; capturing, if a device is there
     dialog |-> FALSE]  \* a QMessageBox of the last notification is open

\* Notifications whose handler opens a modal message box and waits for it.  readyRead is
\* not emitted again inside its own slot, so nothing else is received meanwhile.
Alerts == {"NOTIFY_CHECKIN_OPENED", "NOTIFY_RANDOM_CALLED", "NOTIFY_MIC_GRANTED"}

MicLosses == {"NOTIFY_MIC_REVOKED", "NOTIFY_AUDIO_STOPPED"}

MicKeptWhenAudioStops(p, m) ==  \* mutant: NOTIFY_AUDIO_STOPPED leaves the capture running
    (p.mic \/ m.type = "NOTIFY_MIC_GRANTED") /\ m.type # "NOTIFY_MIC_REVOKED"

MicAfter(p, m) ==
    (p.mic \/ m.type = "NOTIFY_MIC_GRANTED") /\ m.type \notin MicLosses

QuestionOnlyFirst(p, m) ==  \* mutant: a question is kept until it is answered
    IF m.type = "NOTIFY_QUESTION_PUBLISHED" /\ p.question = 0 THEN m.question
                                                             ELSE p.question

QuestionAfter(p, m) ==
    IF m.type = "NOTIFY_QUESTION_PUBLISHED" THEN m.question ELSE p.question

\* handleMessage.
AfterMessage(p, m) ==
    [p EXCEPT !.mic = MicAfter(p, m),
              !.question = QuestionAfter(p, m),
              !.dialog = m.type \in Alerts]

\* onEnterClassroom: the question label is cleared, currentQuestionId_ is not.
Entered(p, c) == [p EXCEPT !.class = c]

\* The requests the buttons of both views send; leaving the room, the submit button
\* checks that there has been a question, the other ones check nothing.
Buttons(p) ==
    {"JOIN_CLASS_REQ", "LEAVE_CLASS_REQ", "CHECKIN_REQ"}
        \cup (IF p.question > 0 THEN {"SUBMIT_ANSWER_REQ"} ELSE {})

\* Requests about the class selected in the list, not about the current class.
ListButtons == {"JOIN_CLASS_REQ", "LEAVE_CLASS_REQ"}

=============================================================================
