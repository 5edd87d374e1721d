# Thunder Class: a TLA+ model

Thunder Class is a classroom program: one C++/Qt server, and Qt clients for teachers,
students and an administrator that talk to it in length-prefixed JSON over TCP.  This
directory holds a model of the server and of the clients' state, the TLC runs that check
it on small instances, and theorems about it that TLAPS proves for every instance.

`PROJECT.json` lists components, runs, mutants (one plausible bug per property, that
TLC must find), the source lines of every definition, findings, hazards and theorems.

## 1. The system

| Component | State | Operations | Model |
|---|---|---|---|
| `SessionManager` | who is logged in on which connection, and back | `login`, `logout`, `getUser`, `getFd` | `SessionManager` |
| `ClassManager` | classes, rosters, check-ins, screen share, audio, microphone, event log; `classes.json`, `events.json` | life cycle, join/leave, check-in, random call, media, load/save | `ClassManager`; the files, and deaths inside a save, in `ClassStore` |
| `QuestionManager` | questions, active question per class, answers, who answered; `questions.json`, `answers.json` | `publishQuestion`, `submitAnswer`, load/save | `QuestionManager`, abstractly `Poll` |
| `StatisticsExporter` | none: a function of the event log | `buildSummary`, JSON, CSV | `StatisticsExporter`, composed with `ClassManager` in `ClassReport` |
| `UserStore` | accounts; `users.json` | `authenticate`, `createUser`, load/save | `UserStore` |
| `Protocol` | none: works on a receive buffer | `frame`, `extractFrame` | `Protocol` |
| `TcpServer` | open connections, receive buffers, last activity | accept, read, dispatch, close, idle check, `send` | `TcpServer` |
| message handler (`main.cpp`) | none of its own | one case per request type, the disconnect handler, push notifications | `ThunderServer`, which composes the managers |
| `TcpClient`, `Session`, `MainWindow`, `LoginPage`, `AdminPage` | the connection, the user logged in, the page shown | connect, log in and out, dispatch messages to the page | `Accounts`, with the server's end |
| `StudentPage`, `TeacherPage` | current class and question, microphone, sharing, audio, capture timers, message boxes | buttons, responses, notifications, timers | `StudentPage`, `TeacherPage`, composed with the server in `Classroom` |

How they interact: `TcpServer` calls the message handler for each frame and the
disconnect handler for each connection it closes; the handlers call the managers and
push notifications through `TcpServer::send`.  There is one thread: the Qt event loop
runs one slot at a time, and everything a handler calls returns before the next slot
runs.  The managers know nothing of each other: that a microphone holder is a member,
that the author of an answer is in the class, that a member is online, is up to the
order of calls in `main.cpp`.  A client, too, is one event loop: buttons, timers and
messages from the server are slots, and a page's state is what they leave behind.

What is hard here is not threads.  It is (1) the order in which requests of several
users and disconnects reach the server, and answers and notifications the windows,
(2) state spread over maps, and over both ends of a connection, that must be cleaned
together, (3) restarts and deaths in the middle of a save, which keep what is in the
files and lose the rest, (4) a byte stream cut up anywhere, and peers that vanish,
(5) statistics recomputed from a log that must record every change of the roster.
`hazards` in `PROJECT.json` lists where each of these bites.

## 2. The modules

**`SessionManager`** has the two maps, `Login` and `Logout`.  `Login` looks at the
account only, as the code does: a connection that is logged in already is not noticed.

**`UserStore`** has accounts with their ids, the id counter and `users.json`.  `save`
empties the file and then writes it, so a death may leave it torn; `load` takes a torn
file for an empty one, and `ensureDefaults` then makes a new administrator.  With
`LongNames`, `clampStr` may cut a field of a new account inside a character: `createUser`
has then put the account in memory, and `save` empties the file and throws, now and at
every later save.  Nothing else is kept of passwords and displayed names.

**`Accounts`** puts both behind the client programs: windows with a login page, two FIFO
queues per connection, and connections that end at either side first.  It is where
`LOGIN_REQ` meets everything that can come between it and its answer: a logout, a
second attempt, a lost connection, a server that dies.  A window's end of a connection
and the server's are different variables, as they are in the system.  Somebody with a
`cut` account may be let in without being told so: the displayed name is in the response,
and `dump` throws.

**`ClassManager`** has one variable per member of the class and one action per
operation, whose guards are its early returns.  Maps keyed by class id are functions
over `ClassIds` with an absent value for an erased entry.  The log is kept per class,
because `getEventsForClass` is its only reader.  Two things deserve a remark:

- *The clock is read twice.*  `openCheckin` and `checkin` read the time for the state,
  and `addEvent` reads it again for the record.  An operation may therefore carry the
  clock one tick on: the state keeps `clock`, the record `clock'`.
  `removeFromAll` reads it for each class it leaves; the model gives the records of one
  disconnect one time.  They are in different classes, and no property compares the
  times of two classes.
- *`RecordedTypes`* says which event types an instance keeps records of.  A property
  of the log needs only the types it speaks of, and a log of everything explodes.  The
  functions and their guards are the same; the properties of the log name the types
  they need.  The proofs hold for every choice, all types included.

Every mutation saves before it returns, so `Restart`, between two requests, finds the
classes and the log as they were and forgets everything else.  `IdAfterLoad` is the
set of ids that are one above every class and right above an existing one (or 1): the
result of the `max` in `loadClasses`.

**`ClassStore`** takes that assumption apart.  It keeps the two files, does an
operation and its saves in steps of their own, and lets the server die between any two:
before a save, with a file emptied, or after it.  With `LongNames`, a class may have a
name that `clampStr` has cut inside a character, and every save of `classes.json` from
then on throws with the file already emptied.  `IdleDeathIsRestart` ties it back: with
nothing to save and no such name, a death is `ClassManager`'s `Restart`.

**`QuestionManager`** keeps what the two files hold beside what the memory holds.
`saveQuestions` runs over an `unordered_map`, so a publish writes the questions in any
order, and `loadQuestions` lets the last one of a class in the file be the active one.
With `LongTexts`, a text may be cut inside a character: `saveQuestions` throws after it has
emptied the file and after the maps have changed, nobody is notified, and the next restart
finds no questions but all the answers.  `Poll` is what answering promises, with that loss
as an action of its own, `Forget`; `ImplementsPoll` is the refinement.

**`StatisticsExporter`** is the fold of `buildSummary` over the log.  **`ClassReport`**
runs it beside `ClassManager`, with a variable `attended` that counts the seconds a
student has really been in the class.  It takes the operations that reach the roster,
the check-in or the clock; media operations touch neither these nor a record that the
fold reads.

**`Protocol`** and **`TcpServer`**: a frame is two pieces, its length and its body,
since the code can only tell whether each is there; bodies parse or do not, lengths are
within the 4 MB limit or not.  Any number of pieces arrives per read.  A dispatched
request is remembered: what it does is the business of `ThunderServer`.

**`ThunderServer`** composes the managers with `INSTANCE` and has one action per
request type that changes state or pushes something.  A request that is refused
changes nothing and has no action.  Notifications pushed by a step are kept in `sent`
until the next one.  Read-only requests (lists, members, answers, summaries, exports)
are left out.  `Requests` says which types the clients of an instance use.  A
`LOGIN_REQ` is accepted on a connection that is logged in already, as in the code; the
account that acted on it stays in `userIdToFd_` and on its rosters, and the history
variable `displaced` remembers it.  A restart keeps the accounts: losing them is the
subject of `Accounts`.

**`StudentPage`** and **`TeacherPage`** have no variables: a page is a record, and
`AfterMessage` and `Entered` are what a message and an entered room make of it.  The
pages look at the type of a notification and not at its class, and open modal boxes
that hold up everything behind them; both are in the model.

**`Classroom`** is a lesson: `ThunderServer`, a window for each teacher and student, and
two FIFO queues per connection.  The server handles a request in one step of
`ThunderServer` and puts the notifications and then the response in the queues; windows
take messages, click, run timers, lose their connection, come back and log in again.
`MainWindow` makes its pages once and `onLogout` only clears the session, so anybody may
log in at any window and finds its pages as they were left, running timers included.  A
window is named after the user it shows: when v logs in at the window of u, the two
exchange names, connections and pages (`Swapped`).

`MC*` modules give the constants their values.  `*Proofs` modules hold the theorems.

## 3. The runs

| Run | Instance | Shows |
|---|---|---|
| `accounts` | 2 windows, 2 accounts, any of which may be unwritable, 2 connections, 1 death | sessions and pages agree when nothing is under way; ids are unique; the file is current, or empty once an account cannot be written; accounts are kept, or all lost; every login is answered; a lost session ends |
| `class_manager` | 1 class, 2 students, 5 records of sessions, audio and microphone, 1 restart | nothing runs outside active classes; microphone needs audio; the roster can be told from the log; a lost microphone is explained; an ended class is frozen; life cycle |
| `class_store` | 2 classes, 2 teachers, 4 records, 1 death, cut names | a death undoes at most one operation; the log is not behind the classes; a reused id has no history |
| `class_report` | 1 class, 6 records of sessions and check-in, clock to 4 | the summary counts exactly the time attended; lists belong to their opening; one check-in per opening; live list and summary agree, up to the second at the deadline |
| `question_manager` | 3 questions, any of which may be unwritable, 2 classes, 2 restarts | one answer each, final, whatever the files' order and loss; implements `Poll` |
| `server` | all requests, also logins over a login, 2 connections, the administrator and the students with an account at first, 1 class, 1 question, 1 restart | sessions and rosters follow connections, for accounts that are not displaced; frames stay in the class; answers come from members of the running class |
| `classroom` | 2 teachers, 2 students, 8 lessons | microphone, question and sharing agree at both ends once the messages have arrived; no capture timer is left over; frames go to the class they were started for |
| `tcp_server` | 1 connection, 3 frames of all kinds | requests are dispatched once, in order, as soon as they have arrived; a dead connection is closed in the end |

Four more runs end in a counterexample, each a place where the code does not do what a
comment or a document says (`findings` quotes both):

| Run | What happens |
|---|---|
| `question_manager_latest` | a restart makes an older question of the class active again |
| `accounts_relogin` | log in as A, then as B before the answer: A stays "logged in" for good |
| `class_report_restart` | a restart while a student is in class: time away is counted, or time attended is lost |
| `classroom_end` | after `END_CLASS_REQ` the teacher's page goes on capturing and sending the screen |

**Hypotheses.**  Some properties hold only of clients that are used in a certain way,
and the model says so where it matters:

- `accounts` has `Impatient = FALSE`: nobody asks for a second account before the first
  answer.  `accounts_relogin` drops that.
- `displaced` in `ThunderServer` is a history variable: accounts whose connection has
  logged in another account over them.  The properties about connections, rosters and
  frames speak of the others; for the displaced ones they fail in the code
  (`accounts_relogin`).
- `hasty` in `TeacherPage` is a history field of a page: Start was clicked for a class
  while the answer to a start in another one was on its way, which the page allows (the
  button is disabled by the response).  The server then runs both classes, the page makes
  two timers and can stop only one of them, and `sharing` says "inactive" while the server
  shares.  `StoppedMeansStopped`, `PageAgreesWithServer` and `MediaGoesWhereStarted` are
  claimed of the other pages; hasty ones go on in the model.  A second click for the same
  class does no harm, since the server refuses it, and the properties cover it.
- `estranged` in `Classroom` is a history variable: who missed a message, by losing the
  connection, by being on the login page, by leaving with the microphone, by a publish whose
  save threw, or has come to pages that somebody else had used, and about what.  Agreement
  of both ends is claimed for the others only.  Coming back to the state of the class is
  something the pages do not attempt: they ask for nothing when somebody logs in again.
  `StoppedMeansStopped` does not depend on it: it is about the page, whoever uses it.
- `NoRequestLeftBehind` is about streams without malformed frames; no client of this
  repository writes one.
- `FileIsCurrent` and `ImplementsPoll` say what is lost when a text cannot be written:
  everything, at the next start.  `LogIsNotBehind` and `DeathUndoesOneOperation` say
  nothing once a file was torn, by a death or by such a text.
- `LiveListMatchesSummary` compares a check-in opened once, and allows the second at
  the deadline, where the time is read twice.

**Bounds.**  Two students are enough for one to take the microphone from the other, to
check in while the other does not, and to be told apart on the roster; two classes (and
in `class_store` two teachers) for an operation on the wrong one.  Six records hold an
opening, a join, a check-in, a leave, a second join and the end; the clock runs far
enough for a check-in before, at and after the deadline.  In `server` two connections let
one user act while another comes, goes, or logs in over a third; connection ids start over
at the restart.  The teacher's account is created on the way, by a request, and rolls
are called only before anything is published, shared or said and before the restart
(`EarlyRollCalls`), since no property of this run depends on who has checked in.  One
restart (two for the questions, where the file is read and written again) reaches every
state a later one starts from, since what is loaded is a function of the files.  In
`accounts`, two requests under way let a logout follow a login, or an attempt follow another, before the
answer to the first; connections are bounded, and a window that has lost one takes the
next.  In `Classroom` a queue holds one or two messages per direction, so that two
notifications can be held up behind a message box, or two clicks cross with an answer.
Each lesson of `MCClassroom` (`Sharing`, `Lecture`, `Microphone`, `Leaving`, `Quiz`,
`RollCall`, `Talk`, `Returning`) clicks a handful of buttons that touch common state; the
page keeps sharing, audio and question in separate fields, so lessons need not be mixed.
`Sharing` has two starts for two classes at once, `Lecture` loses connections while the
audio is on, and in `Returning` a teacher shares, and two teachers lose their connections
and log in at each other's windows.  The second timer of a hasty page comes from the two
starts under way; with `MaxTimers = 0` the page clicks Start again only when none of its
timers runs, since they could otherwise be added without end.  Students are
interchangeable: symmetry is used in runs without liveness.  But for `EarlyRollCalls`, a
bound is always a guard on a counter: `MaxEvents`, `MaxClock`, `MaxClasses`, `MaxQuestions`,
`MaxConnections`, `MaxFrames`, `MaxRequests`, `MaxAnswers`, `MaxRestarts`, `MaxTimers`,
`queue`.

**Deadlock** is checked where the model always has a next step (`class_manager`,
`server`).  Elsewhere the system may really stop: every question answered, the log full,
the ids or connections of the instance used up, or, in `Classroom`, everybody in the
room with no button left to press.

**Fairness.**  `TcpServer`: weak fairness of `Arrives` (TCP delivers what a connected
client sent, and the event loop calls `onReadyRead`), of `Disconnected` (Qt emits it for
a closed socket), of `Tick` and `IdleCheck` (time passes, and the timer set up in the
constructor fires every 30 seconds).  `Accounts`: weak fairness of `Handle` and
`Receives` (the same of both event loops), of `NoticesClosing` (a window's socket learns
that the server has closed it) and of the server's closing a connection that no window
has, which is what `tcp_server` shows under its own fairness.  Nothing is assumed of the
users: nobody has to click.

## 4. What is proved

Every theorem holds for every value of the constants, under the named assumptions of
the modules.  They say nothing about liveness.

*`AccountsProofs`* has three layers.

- `SessionManager`: the inductive invariant is `TypeOK /\ CallerIsNotified`.  A login
  writes both maps; it cannot break the pairing of another connection because it has
  found the account in neither map.  `SessionsAreNotMoved` follows from the guard of
  `Login` and the shape of `Logout`.
- `UserStore`, over `StoreSpec`, whose steps `Accounts` takes.  The invariant joins types,
  unique ids, the counter above every id, and the file holding what the memory holds, or
  nothing while a cut account is in memory: uniqueness over a restart needs the last two,
  since the counter is recomputed from the file.  `KeptOrAllLost` says that a death costs
  nothing or everything.
- `Accounts`, the windows and the server together.  `ActsAsShown` looks at quiet
  connections only, so it says nothing about a step; the invariant (`AccountsInv`) must
  say what may be under way on the others.  `Talks` does: a conversation is `Shown` (the
  page shows the user the server has, and no logout is on the way), `Leaving` (logged out
  in the window, one logout on the way), `Anonymous`, or `Admitted` (one admission on the
  way), and everything else in the queues is harmless: refusals and requests that will be
  refused.  A user with a cut account may be in without an admission on the way.  `Talks`
  is guarded by `~Impatient`, which is the hypothesis of `ConversationInvariant` and of
  `WindowsActAsShown`: nothing is said of the conversation of an impatient user, and
  `accounts_relogin` shows why.  `Talks` also needs `Fresh` (a connection not yet opened has
  empty queues) and `OwnConnections` (two windows never share one).  What
  `PartsKeepTheirPromises` and `PartsKeepTheirSteps` say, of the maps, ids and the file,
  needs no hypothesis about the users.

*`ClassManagerProofs`*, for any accounts, number of classes, deadlines, recorded types
and bounds.

- `TypeCorrect`: what every operation writes, the records of the log included.
- `Inv` is `TypeOK` with `OnlyActiveClassesRun`, `MicNeedsAudio` and `IdsAreFresh`.
  None of the last three is inductive alone: `createClass` sets a status without
  looking at the old one, so it needs the id to be fresh; stopping, leaving and
  revoking do not look at the status, so they need the invariant itself.
- `LifeCycleHolds` and `EndedIsFrozen` are action properties from `Inv`: a step that
  writes a record finds a guard that an ended class, in which nothing runs, does not meet.
- `CheckinsInOrder` needs one more conjunct, `OpenedInThePast`: no opening is later
  than the clock.

Its second half relates the class manager to its log.  `RosterInLog`: each
operation appends one record, whose effect on "joined and not left since" is computed
once per kind of record; a restart, which empties the roster and not the log, is why the
converse direction is claimed without restarts only.  `MicLossInLog` and `CheckedInOnce`
are action properties on the same lemmas.

*`ClassStoreProofs`*, for any number of deaths between any two steps of a save.  `StoreInv`
joins the class manager's `Inv` to what each file may hold in each phase: outside a save a
file is torn or holds what the memory holds; inside one, `classes.json` may be one class a
step behind, and `events.json` is a beginning of the log.  `LogIsNotBehind` holds because
`addEvent` saves the log before the operation saves the classes; `NoHistoryInherited`
because only the record of a creation can be in the log without the class; both say
"unless a file was torn" themselves.
`DeathUndoesOneHolds` is the action property on top: the phase says which class may be a
step back, and that it is one.  `TornAssumption` says that a torn file is none of the
proper ones.

*`ClassReportProofs`.*  `SummaryOfLog` is the lemma that `buildSummary` goes on from where
it was when a log gets one more record, for every log.  It is an induction over the
length of the log, carried by `WellFoundedInduction`'s `WFMin`: the set of lengths at
which it fails has no least element.  `ReportRefinesClassManager` brings the class
manager's theorems.  Then:

- `DurationsAreRight` and `OpenSessionsAreRight` from `AttendInv`: the open sessions of
  the fold are the roster, and what it has counted for a student, with the open session
  added up to now, is `attended`.
- `CheckinColumnIsRight` from `OpeningInv`: after one opening the fold has the same deadline
  and an opening time at most one tick later (the clock is read twice), and its answer for
  each student comes from a time at most one tick after the one on the list.

All three are about a server that has not restarted: a restart empties the roster without
a record, and `class_report_restart` is the counterexample with one.  `AllSessionsRecorded`
and `AnswersRecorded` say that the instance keeps the records the report reads, which the
code always does.

*`QuestionManagerProofs`.*  `QuestionInv` adds to the properties that ids are fresh, so
that publishing never moves a question to another class, and that both files hold what
the memory holds, so that a restart brings it back whatever the order of
`questions.json`; only, once some text is cut, `questions.json` is empty.  Then ids start
over, and an answer recorded for an id is still there when the id is given out again, which
is why `PollImplemented` claims one vote per question id.  It maps each operation to a step
of `Poll`, and a restart to none or to `Forget`.

*`ThunderServerProofs`.*  The server implements `ClassManager` and `QuestionManager`
(`ServerRunsClassManager`, `ServerRunsQuestionManager`): whatever clients send, and
however connections end, a step of the server is a step of the manager or leaves it
alone.  The one place where this needs an argument is the disconnect handler, which
calls `removeFromAll` for teachers and administrators as well; they are on no roster, so
it only passes time.  So every theorem about a manager holds of the server, and the
theorem modules are used through `INSTANCE`.  Then:

- `LoggedInIsConnected`, for the accounts not in `displaced`, needs the converse too
  (`Linked`): a caller is found on its own connection.  Otherwise a login could leave
  another connection acting for the account.  Of a displaced account `Linked` says that no
  connection acts for it and that it cannot log in, so it is never in a frame's `from`, in
  a join or in an answer again, until the server restarts.
- `NoGhosts`, but for displaced accounts: only the caller of `JOIN_CLASS_REQ` is added to
  a roster, and every end of a session takes its user off all of them first.
- `FramesInClass`: members are online and act on their connection, by `Linked`, and a
  class that shares or has audio is active, by the managers' invariant, so it has an owner.
- `AnswersFromClass`: only `SUBMIT_ANSWER_REQ` records, after asking the roster; a
  non-empty roster means an active class, by the managers' invariant.

*`ClassroomProofs`*, for any number of windows and connections, queues of any length and
any lesson.  `LessonsRunTheServer` says that a lesson is a run of `ThunderServer`, so the
server's invariants (`ServerInv`) hold in it.  None of the five invariants is inductive,
nor local to a page: whether an answer finds the page as the click left it depends on what
else is in the queues, and a page changes hands.  The argument is about conversations.

- *A teacher and one medium* (`Talk`, used for the screen and for the sound).  The page is
  *off* and nothing of its runs; or *starting*: exactly one success is on its way, and the
  server runs the class it names; or *on*: the server runs the class the page started, or
  the success of a stop is on its way.  Each phase restricts the requests the server has
  not read yet, since the buttons follow the page: while off no stop or frame behind a
  start, while starting none at all, while on no start behind a stop.  `NoTimerIsLeft`,
  `MediaReachesItsClass` and `PageKnowsServer` follow.  The media a class loses when it is ended, which nobody tells
  the page, what was pushed to a hidden page, and what a page was told before its user came
  to it are in `estranged`, where `Talk` speaks of the page and its requests only and no longer
  of what the server runs, which is all that `NoTimerIsLeft` needs.  Nothing is claimed of a
  `hasty` page, for which two starts are on the way.  A login leaves a conversation as it
  is, or gives both windows empty queues and marks their users as estranged (`TalkLogsIn`).
  `Settled` keeps the two pages of a window apart: no teacher's window has a microphone on
  its student's page, unless somebody else has used it.
- *A student* (`StudentAgrees`).  `MicSays` and `QSays` are what the page will say once it
  has read its whole queue; they agree with `micHolder` and `activeQuestion` after every
  step.  A handler pushes to a member at most one message (`PushesOne`) except for a grant,
  which tells the old holder and the new one different things.
- `SeatsAreKept`: an account sits at the connection its window has, or at none.

`StudentKnowsMic` and `StudentKnowsQuestion` have the hypothesis `OneRuns(lesson)`: all
classes that run or may be started in the lesson are one.  It is needed for the microphone:
a page in two running classes takes the loss of one for a loss of the other
(`student_page.cpp:426`, section 5).  The lessons with students that TLC checks meet it.
`Refuses` names `~ENABLED Performs`, so that the proofs can speak of a refusal without
expanding it: they need only that a refused request changes nothing.

*`TcpServerProofs`*, for any number of frames of all kinds, cut anywhere.  `TcpInv` says of
an open connection that its buffer and what is on the way, put together, are whole frames
(`Framed`), all written by the client (`FromClient`), and that the valid ones among them
come right after what was dispatched (`InOrder`).  `onReadyRead` moves the boundary:
`Requests` of a buffer is exactly the valid bodies in front of what is left, an
induction over the turns of its loop.  `NoneLeft` is what the loop's exit condition gives
when no frame is malformed; with one, `extractFrame` returns false on a frame that may
have others behind it, so the hypothesis is needed.

*Induction over data* goes through sets: "the numbers at which the statement fails" is
shown to have no least element.  `SummaryOfLog` and the lemmas about `ValidBodies` are
proved this way, over recursive functions; the library's induction theorems that take a
predicate are not used.

Model-checked only: all liveness (`LoginIsAnswered`, `LostSessionsEnd`,
`DeadConnectionsAreClosed`), which is out of the prover's reach, and the counterexamples.

## 5. What is not modelled, and what could come next

Left out for good: names, contents and pictures, but for texts cut inside a character;
formatting (JSON, CSV, logging); passwords; playback; the tests and the vendored
`nlohmann/json`; reentrancy inside Qt (whether `flush` can deliver a disconnect), which the
source does not show.

Not modelled yet:

- *Statistics of questions*: `buildSummary`'s counts per question and the CSV.
- *Read-only requests* and what the pages do with their results (lists, answers,
  summaries, `lastPublishedQuestionId_`).  None changes the server's state.
- *Reconnecting on a living connection*: what `QTcpSocket` does with it is not in the
  repository.
- *A student in two running classes*: the page does not compare a notification's class
  with its own, so the microphone of one is lost with the audio of the other.  The
  lessons with the microphone have one running class.
- *The two stores together*: a torn `users.json` hands out ids again that `classes.json`
  and `answers.json` still hold.  Nothing in the code relates the files.
- *Administrators in a lesson*: nobody with role ADMIN logs in at a window of `Classroom`;
  their requests are in `ThunderServer` and `Accounts`.
- *The text of a page*: entering a room sets the label "No active question"
  (`student_page.cpp:202`) whatever `currentQuestionId_` is; no property compares labels
  with the server.
- *Which device is open*: the microphone of a page is a boolean, so that a second grant,
  which leaves an open `QAudioSource` behind (`student_page.cpp:252`), cannot be told from
  the first.
- *Who leaves with the microphone, or is in a class that ends*, is `estranged`: the page
  goes on capturing and nobody tells it, which `MicFollowsServer` leaves out.
- *Accounts that cannot be sent, in a lesson*: the client of such a user never shows a page,
  so there is no window for them; the server lets them in (`Accounts`).
- *Restarts inside a lesson*: every window would lose its connection, which `DROP` does
  to one window at a time.
