----------------------------- MODULE ClassManager -----------------------------
(***************************************************************************)
(* ClassManager: life cycle of the classes, their rosters, check-in, the   *)
(* random call, screen sharing, audio with its single microphone, and the  *)
(* event log the statistics are computed from.                             *)
(*                                                                         *)
(* The server is single threaded, so each member function is one step.  A  *)
(* function that returns false or nullopt changes nothing: its early        *)
(* returns are the guards of the action.                                   *)
(*                                                                         *)
(* The maps keyed by class id are functions over ClassIds, an erased entry *)
(* being the absent value.  Names of classes and users are left out.  The  *)
(* log is kept per class, since getEventsForClass is its only reader.      *)
(* Every function has saved what it changed when it returns, so a restart   *)
(* between two of them reloads `status', `owner' and `events' unchanged    *)
(* and loses everything else.                                              *)
(***************************************************************************)
EXTENDS Integers, Sequences

CONSTANTS
    MaxClasses,         \* bound on the classes ever created
    Teachers,           \* accounts with role TEACHER
    Students,           \* accounts with role STUDENT
    NoUser,             \* no owner, no microphone holder
    NotYet,             \* the student has no entry in checkedIn
    DeadlineRequests,   \* values of deadlineSeconds the requests carry
    DefaultDeadline,    \* what openCheckin puts in for a value <= 0 (60 s)
    RecordedTypes,      \* the event types whose records the instance keeps
    MaxEvents,          \* bound on the records kept per class
    MaxClock,           \* bound on the clock, which starts at 1: 0 means no time
    MaxRestarts         \* bound on the server restarts

ClassIds == 1 .. MaxClasses

EventTypes ==
    { "CLASS_CREATED", "CLASS_STARTED", "CLASS_ENDED",
      "STUDENT_JOINED", "STUDENT_LEFT",
      "CHECKIN_OPENED", "STUDENT_CHECKED_IN", "RANDOM_CALLED",
      "SCREEN_SHARE_STARTED", "SCREEN_SHARE_STOPPED",
      "AUDIO_STARTED", "AUDIO_STOPPED", "MIC_GRANTED", "MIC_REVOKED" }

ASSUME AccountsAssumption ==
    /\ Teachers \cap Students = {}
    /\ NoUser \notin Teachers \cup Students

ASSUME NumbersAssumption ==
    /\ MaxClasses \in Nat
    /\ DeadlineRequests \subseteq Int
    /\ DefaultDeadline \in Nat \ {0}
    /\ NotYet \notin Nat
    /\ MaxEvents \in Nat /\ MaxClock \in Nat /\ MaxRestarts \in Nat

ASSUME RecordedAssumption == RecordedTypes \subseteq EventTypes

VARIABLES
    nextClassId,    \* nextClassId_
    status,         \* classes_[c].status, "NONE" before the class exists
    owner,          \* classes_[c].teacherId
    members,        \* members_[c]: the students in the class now
    checkins,       \* checkins_[c]: the current check-in
    screenSharing,  \* screenSharing_
    audioActive,    \* audioActive_
    micHolder,      \* micHolder_[c]
    events,         \* the records of events_ about the class, oldest first
    clock,          \* std::time(nullptr)
    restarts        \* number of restarts so far

mediaVars == <<screenSharing, audioActive, micHolder>>
lifeVars == <<nextClassId, status, owner>>
logVars == <<events, clock, restarts>>
cmVars == <<lifeVars, members, checkins, mediaVars, logVars>>

Accounts == Teachers \cup Students

NoCheckin ==
    [open |-> FALSE, openTime |-> 0, deadline |-> 0,
     checkedIn |-> [u \in Students |-> NotYet]]

-----------------------------------------------------------------------------
(* Start and restart. *)

Init ==
    /\ nextClassId = 1
    /\ status = [c \in ClassIds |-> "NONE"]
    /\ owner = [c \in ClassIds |-> NoUser]
    /\ members = [c \in ClassIds |-> {}]
    /\ checkins = [c \in ClassIds |-> NoCheckin]
    /\ screenSharing = {} /\ audioActive = {}
    /\ micHolder = [c \in ClassIds |-> NoUser]
    /\ events = [c \in ClassIds |-> <<>>]
    /\ clock = 1
    /\ restarts = 0

IdAfterLoadOffByOne ==  \* mutant: nextClassId_ is set to the largest id
    { n \in 1 .. MaxClasses :
        /\ \A c \in ClassIds : status[c] # "NONE" => c <= n
        /\ n > 1 => status[n] # "NONE" }

\* loadClasses: one above the largest id in the file, 1 when there is none.
IdAfterLoad ==
    { n \in 1 .. MaxClasses + 1 :
        /\ \A c \in ClassIds : status[c] # "NONE" => c < n
        /\ n > 1 => status[n - 1] # "NONE" }

\* The constructor of a restarted server: loadClasses and loadEvents bring back
\* the classes and the log.
\* An ACTIVE class comes back ACTIVE, with nobody in it and nothing running.
Restart ==
    /\ restarts < MaxRestarts
    /\ restarts' = restarts + 1
    /\ nextClassId' \in IdAfterLoad
    /\ members' = [c \in ClassIds |-> {}]
    /\ checkins' = [c \in ClassIds |-> NoCheckin]
    /\ screenSharing' = {} /\ audioActive' = {}
    /\ micHolder' = [c \in ClassIds |-> NoUser]
    /\ UNCHANGED <<status, owner, events, clock>>

\* The wall clock moves on while no request is handled.
Tick ==
    /\ clock < MaxClock
    /\ clock' = clock + 1
    /\ UNCHANGED <<lifeVars, members, checkins, mediaVars, events, restarts>>

-----------------------------------------------------------------------------
(* The event log.  A function that reads the time itself reads it before     *)
(* addEvent reads it again: the second may have ticked over in between, so   *)
(* the state keeps `clock' and the record keeps `clock''.                    *)

Event(type, u, detail) ==
    [type |-> type, user |-> u, detail |-> detail, time |-> clock']

\* addEvent on one class's log; types the instance does not record leave no trace.
Logged(log, type, u, detail) ==
    IF type \in RecordedTypes THEN Append(log, Event(type, u, detail)) ELSE log

Writes(newLogs) ==
    /\ clock' \in {clock, clock + 1} /\ clock' <= MaxClock
    /\ events' = newLogs
    /\ \A c \in ClassIds : Len(events'[c]) <= MaxEvents
    /\ UNCHANGED restarts

AddEvent(c, type, u, detail) ==
    Writes([events EXCEPT ![c] = Logged(@, type, u, detail)])

-----------------------------------------------------------------------------
(* Life cycle. *)

OwnedBy(c, t) == status[c] # "NONE" /\ owner[c] = t

RunByWithoutStatus(c, t) == OwnedBy(c, t)  \* mutant

RunBy(c, t) == OwnedBy(c, t) /\ status[c] = "ACTIVE"

CreateClass(t) ==
    /\ nextClassId \in ClassIds
    /\ nextClassId' = nextClassId + 1
    /\ status' = [status EXCEPT ![nextClassId] = "WAITING"]
    /\ owner' = [owner EXCEPT ![nextClassId] = t]
    /\ AddEvent(nextClassId, "CLASS_CREATED", t, 0)
    /\ UNCHANGED <<members, checkins, mediaVars>>

StartClass(c, t) ==
    /\ OwnedBy(c, t) /\ status[c] = "WAITING"
    /\ status' = [status EXCEPT ![c] = "ACTIVE"]
    /\ AddEvent(c, "CLASS_STARTED", t, 0)
    /\ UNCHANGED <<nextClassId, owner, members, checkins, mediaVars>>

ForgetAllButRoster(c) ==  \* mutant: members_.erase is missing
    /\ checkins' = [checkins EXCEPT ![c] = NoCheckin]
    /\ screenSharing' = screenSharing \ {c}
    /\ audioActive' = audioActive \ {c}
    /\ micHolder' = [micHolder EXCEPT ![c] = NoUser]
    /\ UNCHANGED members

\* The five erases of endClass.
Forget(c) ==
    /\ checkins' = [checkins EXCEPT ![c] = NoCheckin]
    /\ screenSharing' = screenSharing \ {c}
    /\ audioActive' = audioActive \ {c}
    /\ micHolder' = [micHolder EXCEPT ![c] = NoUser]
    /\ members' = [members EXCEPT ![c] = {}]

EndClass(c, t) ==
    /\ RunBy(c, t)
    /\ status' = [status EXCEPT ![c] = "ENDED"]
    /\ Forget(c)
    /\ AddEvent(c, "CLASS_ENDED", t, 0)
    /\ UNCHANGED <<nextClassId, owner>>

-----------------------------------------------------------------------------
(* Membership.  Leaving looks at the roster only: neither the class's status *)
(* nor the microphone.                                                       *)

JoinClass(c, u) ==
    /\ status[c] = "ACTIVE" /\ u \notin members[c]
    /\ members' = [members EXCEPT ![c] = @ \cup {u}]
    /\ AddEvent(c, "STUDENT_JOINED", u, 0)
    /\ UNCHANGED <<lifeVars, checkins, mediaVars>>

LeaveClass(c, u) ==
    /\ u \in members[c]
    /\ members' = [members EXCEPT ![c] = @ \ {u}]
    /\ AddEvent(c, "STUDENT_LEFT", u, 0)
    /\ UNCHANGED <<lifeVars, checkins, mediaVars>>

RemoveFromAllSilently(u) ==  \* mutant: no STUDENT_LEFT on a disconnect
    /\ members' = [c \in ClassIds |-> members[c] \ {u}]
    /\ Writes(events)
    /\ UNCHANGED <<lifeVars, checkins, mediaVars>>

\* On logout and on disconnect: leaves every class, one record for each.
RemoveFromAll(u) ==
    /\ members' = [c \in ClassIds |-> members[c] \ {u}]
    /\ Writes([c \in ClassIds |->
                  IF u \in members[c] THEN Logged(events[c], "STUDENT_LEFT", u, 0)
                                      ELSE events[c]])
    /\ UNCHANGED <<lifeVars, checkins, mediaVars>>

-----------------------------------------------------------------------------
(* Check-in and random call. *)

OpeningKeepsList(c, deadline) ==  \* mutant: only the fields are overwritten
    [checkins[c] EXCEPT !.open = TRUE, !.openTime = clock, !.deadline = deadline]

\* A second opening replaces the first, with an empty attendance list.
Opening(c, deadline) ==
    [NoCheckin EXCEPT !.open = TRUE, !.openTime = clock, !.deadline = deadline]

OpenCheckin(c, t, seconds) ==
    LET deadline == IF seconds <= 0 THEN DefaultDeadline ELSE seconds IN
    /\ RunBy(c, t)
    /\ checkins' = [checkins EXCEPT ![c] = Opening(c, deadline)]
    /\ AddEvent(c, "CHECKIN_OPENED", t, deadline)
    /\ UNCHANGED <<lifeVars, members, mediaVars>>

MayCheckInAgain(c, u) ==  \* mutant: the "already checked in" return is missing
    checkins[c].open /\ u \in members[c]

MayCheckIn(c, u) ==
    /\ checkins[c].open
    /\ u \in members[c]
    /\ checkins[c].checkedIn[u] = NotYet

Checkin(c, u) ==
    /\ MayCheckIn(c, u)
    /\ checkins' = [checkins EXCEPT ![c].checkedIn[u] = clock]
    /\ AddEvent(c, "STUDENT_CHECKED_IN", u, 0)
    /\ UNCHANGED <<lifeVars, members, mediaVars>>

\* getCheckinStatus, for one member of the class.
CheckinStatus(c, u) ==
    IF checkins[c].checkedIn[u] = NotYet THEN "absent"
    ELSE IF checkins[c].checkedIn[u] <= checkins[c].openTime + checkins[c].deadline
         THEN "on_time" ELSE "late"

\* randomCall picks any member; only the log keeps who it was.
RandomCall(c, t, u) ==
    /\ RunBy(c, t)
    /\ u \in members[c]
    /\ AddEvent(c, "RANDOM_CALLED", u, 0)
    /\ UNCHANGED <<lifeVars, members, checkins, mediaVars>>

-----------------------------------------------------------------------------
(* Screen sharing, audio and the microphone.  Only starting asks for ACTIVE. *)

StartScreenShare(c, t) ==
    /\ RunBy(c, t) /\ c \notin screenSharing
    /\ screenSharing' = screenSharing \cup {c}
    /\ AddEvent(c, "SCREEN_SHARE_STARTED", t, 0)
    /\ UNCHANGED <<lifeVars, members, checkins, audioActive, micHolder>>

StopScreenShare(c, t) ==
    /\ OwnedBy(c, t) /\ c \in screenSharing
    /\ screenSharing' = screenSharing \ {c}
    /\ AddEvent(c, "SCREEN_SHARE_STOPPED", t, 0)
    /\ UNCHANGED <<lifeVars, members, checkins, audioActive, micHolder>>

StartAudio(c, t) ==
    /\ RunBy(c, t) /\ c \notin audioActive
    /\ audioActive' = audioActive \cup {c}
    /\ AddEvent(c, "AUDIO_STARTED", t, 0)
    /\ UNCHANGED <<lifeVars, members, checkins, screenSharing, micHolder>>

StopAudioKeepsMic(c, t) ==  \* mutant: micHolder_.erase is missing
    /\ OwnedBy(c, t) /\ c \in audioActive
    /\ audioActive' = audioActive \ {c}
    /\ AddEvent(c, "AUDIO_STOPPED", t, 0)
    /\ UNCHANGED <<lifeVars, members, checkins, screenSharing, micHolder>>

StopAudio(c, t) ==
    /\ OwnedBy(c, t) /\ c \in audioActive
    /\ audioActive' = audioActive \ {c}
    /\ micHolder' = [micHolder EXCEPT ![c] = NoUser]
    /\ AddEvent(c, "AUDIO_STOPPED", t, 0)
    /\ UNCHANGED <<lifeVars, members, checkins, screenSharing>>

TakenSilently(c, u) == events[c]  \* mutant: no MIC_REVOKED for the previous holder

\* The log once the previous holder, if it is another student, has lost the microphone.
TakenFromHolder(c, u) ==
    IF micHolder[c] \in {NoUser, u} THEN events[c]
    ELSE Logged(events[c], "MIC_REVOKED", micHolder[c], 0)

GrantMic(c, t, u) ==
    /\ OwnedBy(c, t) /\ c \in audioActive
    /\ u \in members[c]
    /\ micHolder' = [micHolder EXCEPT ![c] = u]
    /\ Writes([events EXCEPT ![c] = Logged(TakenFromHolder(c, u), "MIC_GRANTED", u, 0)])
    /\ UNCHANGED <<lifeVars, members, checkins, screenSharing, audioActive>>

RevokeMic(c, t) ==
    /\ OwnedBy(c, t) /\ micHolder[c] # NoUser
    /\ micHolder' = [micHolder EXCEPT ![c] = NoUser]
    /\ AddEvent(c, "MIC_REVOKED", micHolder[c], 0)
    /\ UNCHANGED <<lifeVars, members, checkins, screenSharing, audioActive>>

-----------------------------------------------------------------------------

TeacherStep(c, t) ==
    \/ StartClass(c, t)
    \/ EndClass(c, t)
    \/ \E seconds \in DeadlineRequests : OpenCheckin(c, t, seconds)
    \/ \E u \in Students : RandomCall(c, t, u)
    \/ StartScreenShare(c, t)
    \/ StopScreenShare(c, t)
    \/ StartAudio(c, t)
    \/ StopAudio(c, t)
    \/ \E u \in Students : GrantMic(c, t, u)
    \/ RevokeMic(c, t)

StudentStep(c, u) ==
    \/ JoinClass(c, u)
    \/ LeaveClass(c, u)
    \/ Checkin(c, u)

Next ==
    \/ \E t \in Teachers : CreateClass(t)
    \/ \E c \in ClassIds, t \in Teachers : TeacherStep(c, t)
    \/ \E c \in ClassIds, u \in Students : StudentStep(c, u)
    \/ \E u \in Students : RemoveFromAll(u)
    \/ Tick
    \/ Restart

Spec == Init /\ [][Next]_cmVars

-----------------------------------------------------------------------------
(* The log, read back: u is in the class when its last join is followed     *)
(* neither by its leaving nor by the end of the class.                      *)

SessionTypes == {"STUDENT_JOINED", "STUDENT_LEFT", "CLASS_ENDED"}

EndsSession(e, u) ==
    \/ e.type = "CLASS_ENDED"
    \/ e.type = "STUDENT_LEFT" /\ e.user = u

PresentInLog(log, u) ==
    \E i \in DOMAIN log :
        /\ log[i].type = "STUDENT_JOINED" /\ log[i].user = u
        /\ \A j \in DOMAIN log : j > i => ~EndsSession(log[j], u)

-----------------------------------------------------------------------------
(* Invariants. *)

EventRecord ==
    [type : EventTypes, user : Accounts, detail : Nat, time : Nat]

CheckinRecord ==
    [open : BOOLEAN, openTime : Nat, deadline : Nat,
     checkedIn : [Students -> Nat \cup {NotYet}]]

\* The types of the class manager's maps.
TypeOK ==
    /\ nextClassId \in Nat \ {0}
    /\ status \in [ClassIds -> {"NONE", "WAITING", "ACTIVE", "ENDED"}]
    /\ owner \in [ClassIds -> Teachers \cup {NoUser}]
    /\ members \in [ClassIds -> SUBSET Students]
    /\ checkins \in [ClassIds -> CheckinRecord]
    /\ screenSharing \subseteq ClassIds /\ audioActive \subseteq ClassIds
    /\ micHolder \in [ClassIds -> Students \cup {NoUser}]
    /\ events \in [ClassIds -> Seq(EventRecord)]
    /\ clock \in Nat /\ restarts \in Nat

\* Everything that runs in a class runs in an ACTIVE one: a roster, a check-in, a
\* screen share and audio never outlive endClass ("Sharing auto-stops when class
\* ends", docs/architecture.md), although leaving, stopping and revoking do not
\* look at the status.
OnlyActiveClassesRun ==
    \A c \in ClassIds :
        (members[c] # {} \/ checkins[c].open \/ c \in screenSharing
            \/ c \in audioActive) => status[c] = "ACTIVE"

\* The microphone is held only while audio is on: stopAudio and endClass take it
\* away, so audio that starts again starts with nobody speaking.
MicNeedsAudio ==
    \A c \in ClassIds : micHolder[c] # NoUser => c \in audioActive

\* An id is in use exactly when nextClassId_ has passed it, after any number of
\* restarts: createClass never writes over a class that exists.
IdsAreFresh ==
    \A c \in ClassIds :
        /\ (status[c] = "NONE") <=> (c >= nextClassId)
        /\ (status[c] = "NONE") <=> (owner[c] = NoUser)

\* An attendance list belongs to the opening it is kept with: every time in it lies
\* between that opening and now, whatever was answered to an earlier opening.
CheckinsFollowOpening ==
    \A c \in ClassIds : \A u \in Students :
        checkins[c].checkedIn[u] # NotYet =>
            /\ checkins[c].open
            /\ checkins[c].openTime <= checkins[c].checkedIn[u]
            /\ checkins[c].checkedIn[u] <= clock

\* The roster can be told from the log: whoever is in the class has an open session
\* in it, and until a restart drops the roster nobody else has.  This is what the
\* join/leave pairing of buildSummary starts from.
RosterMatchesLog ==
    SessionTypes \subseteq RecordedTypes =>
        \A c \in ClassIds : \A u \in Students :
            /\ u \in members[c] => PresentInLog(events[c], u)
            /\ restarts = 0 /\ PresentInLog(events[c], u) => u \in members[c]

-----------------------------------------------------------------------------
(* Action properties. *)

\* An ENDED class is closed for good: whatever arrives late (a leave, a disconnect,
\* a stop, a revoke) or a restart, its status, owner and log stay as they are, so the
\* summary of an ended class is always the same.
EndedClassIsFrozen ==
    [][\A c \in ClassIds : status[c] = "ENDED" =>
          /\ status'[c] = "ENDED" /\ owner'[c] = owner[c]
          /\ events'[c] = events[c]
          /\ members'[c] = {}]_cmVars

\* WAITING, ACTIVE, ENDED in that order and one at a time, and a class keeps the
\* teacher who created it, across restarts too.
LifeCycle ==
    [][\A c \in ClassIds :
          /\ <<status[c], status'[c]>> \in
                {<<"NONE", "WAITING">>, <<"WAITING", "ACTIVE">>, <<"ACTIVE", "ENDED">>}
                \cup {<<s, s>> : s \in {"NONE", "WAITING", "ACTIVE", "ENDED"}}
          /\ status[c] # "NONE" => owner'[c] = owner[c]]_cmVars

\* A student who loses the microphone while the server runs can be told why from the
\* log: the step that takes it away records MIC_REVOKED for that student, or the end
\* of the audio or of the class.
MicLossIsLogged ==
    [][{"MIC_REVOKED", "AUDIO_STOPPED", "CLASS_ENDED"} \subseteq RecordedTypes =>
          \A c \in ClassIds :
              micHolder[c] # NoUser /\ micHolder'[c] # micHolder[c]
                  /\ restarts' = restarts =>
              \E i \in Len(events[c]) + 1 .. Len(events'[c]) :
                  \/ /\ events'[c][i].type = "MIC_REVOKED"
                     /\ events'[c][i].user = micHolder[c]
                  \/ events'[c][i].type \in {"AUDIO_STOPPED", "CLASS_ENDED"}]_cmVars

\* A check-in is accepted once per opening: the time of a student who has checked in
\* changes only when the teacher opens again, ends the class or the server restarts.
CheckinOnce ==
    [][\A c \in ClassIds : \A u \in Students :
          checkins[c].checkedIn[u] \notin {NotYet, checkins'[c].checkedIn[u]} =>
              checkins'[c].checkedIn = [v \in Students |-> NotYet]]_cmVars

=============================================================================
