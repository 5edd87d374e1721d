------------------------------ MODULE TeacherPage ------------------------------
(***************************************************************************)
(* The teacher's page: what it keeps between two messages, and what a      *)
(* message or a button makes of it.                                        *)
(*                                                                         *)
(* The page believes every response that says "success", whichever class   *)
(* it is about; frames and requests of the classroom view carry            *)
(* currentClassId_ as it is when they are sent.  The responses to read-only *)
(* requests and all texts are left out.                                    *)
(***************************************************************************)
EXTENDS Integers

NewPage ==
    [class |-> 0,           \* currentClassId_
     sharing |-> FALSE,     \* screenSharing_; shareTimer_ is not null
     shareTimers |-> 0,     \* timers that run, shareTimer_ or not
     sharedIn |-> 0,        \* the class the last share was started in (history)
     audio |-> FALSE,       \* audioActive_; capturing, if a device is there
     audioIn |-> 0,         \* the class the last audio was started in (history)
     hasty |-> FALSE,       \* a second class was clicked before the first was answered,
                            \* for the screen or the sound (history)
     dialog |-> FALSE]      \* the message box of a random call is open

ShareStarted(p, c) ==
    [p EXCEPT !.sharing = TRUE, !.shareTimers = @ + 1, !.sharedIn = c]

\* Only the timer that shareTimer_ points to is stopped.
ShareStopped(p) ==
    [p EXCEPT !.sharing = FALSE,
              !.shareTimers = IF p.sharing THEN @ - 1 ELSE @]

AudioStarted(p, c) == [p EXCEPT !.audio = TRUE, !.audioIn = c]
AudioStopped(p) == [p EXCEPT !.audio = FALSE]

\* The message box of RANDOM_CALL_RESP; it keeps readyRead from being emitted again.
Alerted(p) == [p EXCEPT !.dialog = TRUE]

AfterAnyResponse(p, m) ==  \* mutant: "success" is not looked at
    CASE m.type = "START_SCREEN_SHARE_RESP" -> ShareStarted(p, m.class)
      [] m.type = "STOP_SCREEN_SHARE_RESP"  -> ShareStopped(p)
      [] m.type = "START_AUDIO_RESP"        -> AudioStarted(p, m.class)
      [] m.type = "STOP_AUDIO_RESP"         -> AudioStopped(p)
      [] m.type = "RANDOM_CALL_RESP"        -> Alerted(p)
      [] OTHER -> p

\* handleMessage; a response that says "failed" is only shown.
AfterMessage(p, m) ==
    CASE m.ok /\ m.type = "START_SCREEN_SHARE_RESP" -> ShareStarted(p, m.class)
      [] m.ok /\ m.type = "STOP_SCREEN_SHARE_RESP"  -> ShareStopped(p)
      [] m.ok /\ m.type = "START_AUDIO_RESP"        -> AudioStarted(p, m.class)
      [] m.ok /\ m.type = "STOP_AUDIO_RESP"         -> AudioStopped(p)
      [] m.ok /\ m.type = "RANDOM_CALL_RESP"        -> Alerted(p)
      [] OTHER -> p

\* onEnterClassroom.
Entered(p, c) == [p EXCEPT !.class = c]

ShareButtonsAlwaysOn(p) ==  \* mutant: startShareBtn_ is never disabled
    {"START_SCREEN_SHARE_REQ", "STOP_SCREEN_SHARE_REQ"}

\* startShareBtn_ and stopShareBtn_ are enabled in turn, each when a response says so.
ShareButtons(p) ==
    IF p.sharing THEN {"STOP_SCREEN_SHARE_REQ"} ELSE {"START_SCREEN_SHARE_REQ"}

AudioButtons(p) ==
    IF p.audio THEN {"STOP_AUDIO_REQ", "GRANT_MIC_REQ", "REVOKE_MIC_REQ"}
               ELSE {"START_AUDIO_REQ"}

Buttons(p) ==
    {"START_CLASS_REQ", "END_CLASS_REQ", "OPEN_CHECKIN_REQ", "RANDOM_CALL_REQ",
     "PUBLISH_QUESTION_REQ"} \cup ShareButtons(p) \cup AudioButtons(p)

\* Requests about the class selected in the list, not about the current class.
ListButtons == {"START_CLASS_REQ", "END_CLASS_REQ"}

=============================================================================
