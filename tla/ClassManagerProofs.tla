-------------------------- MODULE ClassManagerProofs --------------------------
(***************************************************************************)
(* Theorems about ClassManager, for any accounts, classes, deadlines and   *)
(* bounds.  The inductive invariant is Inv: the types, the two invariants  *)
(* that tie what runs in a class to its status and the microphone to the   *)
(* audio, and the freshness of ids.  Freshness is needed because           *)
(* createClass writes a status without looking at the old one.  The second *)
(* half is about the event log and the attendance list.                    *)
(***************************************************************************)
EXTENDS ClassManager, TLAPS

Inv == TypeOK /\ OnlyActiveClassesRun /\ MicNeedsAudio /\ IdsAreFresh

LogOK ==
    /\ events \in [ClassIds -> Seq(EventRecord)]
    /\ clock \in Nat /\ restarts \in Nat

-----------------------------------------------------------------------------
(* The event log. *)

\* addEvent appends a well-formed record or, for a type not recorded, nothing.
LEMMA LoggedType ==
  ASSUME NEW log \in Seq(EventRecord), NEW type \in EventTypes,
         NEW u \in Accounts, NEW detail \in Nat, clock' \in Nat
  PROVE  Logged(log, type, u, detail) \in Seq(EventRecord)
<1>1. Event(type, u, detail) \in EventRecord
  BY DEF Event, EventRecord
<1> QED BY <1>1 DEF Logged

\* Writing logs of the right type keeps the clock and the log well typed.
LEMMA WritesType ==
  ASSUME LogOK, NEW logs, Writes(logs),
         clock' \in Nat => logs \in [ClassIds -> Seq(EventRecord)]
  PROVE  LogOK'
<1>1. clock' \in Nat
  BY DEF LogOK, Writes
<1> QED BY <1>1 DEF LogOK, Writes

LEMMA AddEventType ==
  ASSUME LogOK, NEW c \in ClassIds, NEW type \in EventTypes,
         NEW u \in Accounts, NEW detail \in Nat, AddEvent(c, type, u, detail)
  PROVE  LogOK'
<1> DEFINE logs == [events EXCEPT ![c] = Logged(@, type, u, detail)]
<1>1. ASSUME clock' \in Nat PROVE logs \in [ClassIds -> Seq(EventRecord)]
  <2>1. Logged(events[c], type, u, detail) \in Seq(EventRecord)
    BY <1>1, LoggedType DEF LogOK
  <2> QED BY <2>1 DEF LogOK
<1>2. Writes(logs)
  BY DEF AddEvent
<1> QED BY <1>1, <1>2, WritesType

LEMMA NoCheckinType == NoCheckin \in CheckinRecord
BY DEF NoCheckin, CheckinRecord

LEMMA TypeOKParts == TypeOK => LogOK
BY DEF TypeOK, LogOK

-----------------------------------------------------------------------------
(* Types. *)

\* What an action that only appends to the log and leaves the life cycle alone has to
\* show of the other maps.
LEMMA TypeOKFromParts ==
  ASSUME TypeOK, LogOK', UNCHANGED lifeVars,
         members' \in [ClassIds -> SUBSET Students],
         checkins' \in [ClassIds -> CheckinRecord],
         screenSharing' \subseteq ClassIds, audioActive' \subseteq ClassIds,
         micHolder' \in [ClassIds -> Students \cup {NoUser}]
  PROVE  TypeOK'
BY DEF TypeOK, LogOK, lifeVars

\* The initial state has the types.
LEMMA InitType == Init => TypeOK
BY NoCheckinType DEF Init, TypeOK

LEMMA TypeStep == TypeOK /\ [Next]_cmVars => TypeOK'
<1> SUFFICES ASSUME TypeOK, [Next]_cmVars PROVE TypeOK'
  OBVIOUS
<1> USE TypeOKParts DEF Accounts
<1>1. ASSUME NEW t \in Teachers, CreateClass(t) PROVE TypeOK'
  <2>1. LogOK'
    BY <1>1, AddEventType DEF CreateClass, EventTypes
  <2>2. nextClassId' \in Nat \ {0}
    BY <1>1 DEF CreateClass, TypeOK
  <2>3. /\ status' \in [ClassIds -> {"NONE", "WAITING", "ACTIVE", "ENDED"}]
        /\ owner' \in [ClassIds -> Teachers \cup {NoUser}]
    BY <1>1 DEF CreateClass, TypeOK
  <2>4. UNCHANGED <<members, checkins, screenSharing, audioActive, micHolder>>
    BY <1>1 DEF CreateClass, mediaVars
  <2> QED BY <2>1, <2>2, <2>3, <2>4 DEF TypeOK, LogOK
<1>2. ASSUME NEW c \in ClassIds, NEW t \in Teachers, StartClass(c, t) PROVE TypeOK'
  <2>1. LogOK'
    BY <1>2, AddEventType DEF StartClass, EventTypes
  <2> QED BY <1>2, <2>1 DEF StartClass, TypeOK, LogOK, mediaVars
<1>3. ASSUME NEW c \in ClassIds, NEW t \in Teachers, EndClass(c, t) PROVE TypeOK'
  <2>1. LogOK'
    BY <1>3, AddEventType DEF EndClass, EventTypes
  <2> QED BY <1>3, <2>1, NoCheckinType DEF EndClass, Forget, TypeOK, LogOK
<1>4. ASSUME NEW c \in ClassIds, NEW u \in Students, JoinClass(c, u) PROVE TypeOK'
  <2>1. LogOK'
    BY <1>4, AddEventType DEF JoinClass, EventTypes
  <2> QED BY <1>4, <2>1, TypeOKFromParts DEF JoinClass, TypeOK, mediaVars
<1>5. ASSUME NEW c \in ClassIds, NEW u \in Students, LeaveClass(c, u) PROVE TypeOK'
  <2>1. LogOK'
    BY <1>5, AddEventType DEF LeaveClass, EventTypes
  <2> QED BY <1>5, <2>1, TypeOKFromParts DEF LeaveClass, TypeOK, mediaVars
<1>6. ASSUME NEW u \in Students, RemoveFromAll(u) PROVE TypeOK'
  <2> DEFINE logs == [c \in ClassIds |->
                        IF u \in members[c] THEN Logged(events[c], "STUDENT_LEFT", u, 0)
                                            ELSE events[c]]
  <2>1. ASSUME clock' \in Nat PROVE logs \in [ClassIds -> Seq(EventRecord)]
    BY <2>1, LoggedType DEF LogOK, EventTypes
  <2>2. LogOK'
    BY <1>6, <2>1, WritesType DEF RemoveFromAll
  <2> QED BY <1>6, <2>2, TypeOKFromParts DEF RemoveFromAll, TypeOK, mediaVars
<1>7. ASSUME NEW c \in ClassIds, NEW t \in Teachers, NEW seconds \in DeadlineRequests,
             OpenCheckin(c, t, seconds)
      PROVE  TypeOK'
  <2> DEFINE deadline == IF seconds <= 0 THEN DefaultDeadline ELSE seconds
  <2>1. deadline \in Nat
    BY NumbersAssumption
  <2>2. LogOK'
    BY <1>7, <2>1, AddEventType DEF OpenCheckin, EventTypes
  <2>3. Opening(c, deadline) \in CheckinRecord
    BY <2>1, NoCheckinType DEF Opening, CheckinRecord, NoCheckin, TypeOK
  <2> QED BY <1>7, <2>2, <2>3, TypeOKFromParts DEF OpenCheckin, TypeOK, mediaVars
<1>8. ASSUME NEW c \in ClassIds, NEW u \in Students, Checkin(c, u) PROVE TypeOK'
  <2>1. LogOK'
    BY <1>8, AddEventType DEF Checkin, EventTypes
  <2>2. checkins' \in [ClassIds -> CheckinRecord]
    BY <1>8 DEF Checkin, TypeOK, CheckinRecord
  <2> QED BY <1>8, <2>1, <2>2, TypeOKFromParts DEF Checkin, TypeOK, mediaVars
<1>9. ASSUME NEW c \in ClassIds, NEW t \in Teachers, NEW u \in Students,
             RandomCall(c, t, u)
      PROVE  TypeOK'
  <2>1. LogOK'
    BY <1>9, AddEventType DEF RandomCall, EventTypes
  <2> QED BY <1>9, <2>1, TypeOKFromParts DEF RandomCall, TypeOK, mediaVars
<1>10. ASSUME NEW c \in ClassIds, NEW t \in Teachers,
              StartScreenShare(c, t) \/ StopScreenShare(c, t)
       PROVE  TypeOK'
  <2>1. LogOK'
    BY <1>10, AddEventType DEF StartScreenShare, StopScreenShare, EventTypes
  <2> QED BY <1>10, <2>1, TypeOKFromParts DEF StartScreenShare, StopScreenShare, TypeOK
<1>11. ASSUME NEW c \in ClassIds, NEW t \in Teachers, StartAudio(c, t) \/ StopAudio(c, t)
       PROVE  TypeOK'
  <2>1. LogOK'
    BY <1>11, AddEventType DEF StartAudio, StopAudio, EventTypes
  <2> QED BY <1>11, <2>1, TypeOKFromParts DEF StartAudio, StopAudio, TypeOK
<1>12. ASSUME NEW c \in ClassIds, NEW t \in Teachers, NEW u \in Students, GrantMic(c, t, u)
       PROVE  TypeOK'
  <2> DEFINE log == Logged(TakenFromHolder(c, u), "MIC_GRANTED", u, 0)
  <2>1. ASSUME clock' \in Nat PROVE [events EXCEPT ![c] = log] \in [ClassIds -> Seq(EventRecord)]
    <3>1. TakenFromHolder(c, u) \in Seq(EventRecord)
      <4>1. CASE micHolder[c] \in {NoUser, u}
        BY <4>1 DEF TakenFromHolder, LogOK
      <4>2. CASE micHolder[c] \in Students
        BY <2>1, <4>2, LoggedType DEF TakenFromHolder, LogOK, EventTypes
      <4> QED BY <4>1, <4>2 DEF TypeOK
    <3>2. log \in Seq(EventRecord)
      BY <2>1, <3>1, LoggedType DEF EventTypes
    <3> QED BY <3>2 DEF LogOK
  <2>2. LogOK'
    BY <1>12, <2>1, WritesType DEF GrantMic
  <2> QED BY <1>12, <2>2, TypeOKFromParts DEF GrantMic, TypeOK
<1>13. ASSUME NEW c \in ClassIds, NEW t \in Teachers, RevokeMic(c, t) PROVE TypeOK'
  <2>1. micHolder[c] \in Students
    BY <1>13 DEF RevokeMic, TypeOK
  <2>2. LogOK'
    BY <1>13, <2>1, AddEventType DEF RevokeMic, EventTypes
  <2> QED BY <1>13, <2>2, TypeOKFromParts DEF RevokeMic, TypeOK
<1>14. CASE Tick
  BY <1>14, NumbersAssumption DEF Tick, TypeOK, lifeVars, mediaVars
<1>15. CASE Restart
  BY <1>15, NoCheckinType, NumbersAssumption DEF Restart, IdAfterLoad, TypeOK
<1>16. CASE UNCHANGED cmVars
  BY <1>16 DEF cmVars, lifeVars, mediaVars, logVars, TypeOK
<1> QED
  BY <1>1, <1>2, <1>3, <1>4, <1>5, <1>6, <1>7, <1>8, <1>9, <1>10, <1>11, <1>12,
     <1>13, <1>14, <1>15, <1>16
  DEF Next, TeacherStep, StudentStep

\* The class manager's maps keep their types.
THEOREM TypeCorrect == Spec => []TypeOK
BY InitType, TypeStep, PTL DEF Spec

-----------------------------------------------------------------------------
(* The inductive invariant. *)

\* The steps that touch the life cycle; every other step leaves it alone.
LEMMA LifeSteps ==
  ASSUME [Next]_cmVars
  PROVE  \/ \E t \in Teachers : CreateClass(t)
         \/ \E c \in ClassIds, t \in Teachers : StartClass(c, t) \/ EndClass(c, t)
         \/ Restart
         \/ UNCHANGED lifeVars
<1>1. ASSUME NEW c \in ClassIds, NEW t \in Teachers, TeacherStep(c, t)
      PROVE  StartClass(c, t) \/ EndClass(c, t) \/ UNCHANGED lifeVars
  BY <1>1 DEF TeacherStep, OpenCheckin, RandomCall, StartScreenShare, StopScreenShare,
              StartAudio, StopAudio, GrantMic, RevokeMic
<1>2. ASSUME NEW c \in ClassIds, NEW u \in Students, StudentStep(c, u)
      PROVE  UNCHANGED lifeVars
  BY <1>2 DEF StudentStep, JoinClass, LeaveClass, Checkin
<1>3. ASSUME NEW u \in Students, RemoveFromAll(u) PROVE UNCHANGED lifeVars
  BY <1>3 DEF RemoveFromAll
<1>4. Tick \/ UNCHANGED cmVars => UNCHANGED lifeVars
  BY DEF Tick, cmVars
<1> QED BY <1>1, <1>2, <1>3, <1>4 DEF Next

\* Ids stay fresh: createClass uses the id it leaves behind, and a restart resumes
\* right above the largest id in the file, which is where the old counter was.
LEMMA FreshStep == TypeOK /\ IdsAreFresh /\ [Next]_cmVars => IdsAreFresh'
<1> SUFFICES ASSUME TypeOK, IdsAreFresh, [Next]_cmVars PROVE IdsAreFresh'
  OBVIOUS
<1>1. ASSUME NEW t \in Teachers, CreateClass(t) PROVE IdsAreFresh'
  <2> SUFFICES ASSUME NEW d \in ClassIds
               PROVE  /\ (status'[d] = "NONE") <=> (d >= nextClassId')
                      /\ (status'[d] = "NONE") <=> (owner'[d] = NoUser)
    BY DEF IdsAreFresh
  <2>1. CASE d = nextClassId
    BY <1>1, <2>1, AccountsAssumption DEF CreateClass, TypeOK
  <2>2. CASE d # nextClassId
    <3>1. status'[d] = status[d] /\ owner'[d] = owner[d]
      BY <1>1, <2>2 DEF CreateClass, TypeOK
    <3>2. d >= nextClassId <=> d >= nextClassId + 1
      BY <2>2 DEF TypeOK, ClassIds
    <3>3. nextClassId' = nextClassId + 1
      BY <1>1 DEF CreateClass
    <3> QED BY <3>1, <3>2, <3>3 DEF IdsAreFresh
  <2> QED BY <2>1, <2>2
<1>2. ASSUME NEW c \in ClassIds, NEW t \in Teachers, StartClass(c, t) \/ EndClass(c, t)
      PROVE  IdsAreFresh'
  <2>1. \A d \in ClassIds : (status'[d] = "NONE") <=> (status[d] = "NONE")
    BY <1>2 DEF StartClass, EndClass, RunBy, OwnedBy, TypeOK
  <2>2. UNCHANGED <<nextClassId, owner>>
    BY <1>2 DEF StartClass, EndClass
  <2> QED BY <2>1, <2>2 DEF IdsAreFresh
<1>3. CASE Restart
  <2>1. nextClassId' \in IdAfterLoad /\ UNCHANGED <<status, owner>>
    BY <1>3 DEF Restart
  <2>2. ASSUME NEW d \in ClassIds
        PROVE  (status[d] = "NONE") <=> (d >= nextClassId')
    <3> DEFINE n == nextClassId'
    <3>1. n \in 1 .. MaxClasses + 1
      BY <2>1 DEF IdAfterLoad
    <3>2. status[d] # "NONE" => d < n
      BY <2>1 DEF IdAfterLoad
    <3>3. n > 1 => status[n - 1] # "NONE"
      BY <2>1 DEF IdAfterLoad
    <3>4. n \in Int /\ d \in Int /\ nextClassId \in Int /\ d >= 1
      BY <3>1, NumbersAssumption DEF TypeOK, ClassIds
    <3> HIDE DEF n
    <3>5. ASSUME d < n PROVE status[d] # "NONE"
      <4>1. n > 1 /\ n - 1 >= d
        BY <3>4, <3>5
      <4>2. n - 1 \in ClassIds
        BY <3>1, <4>1, NumbersAssumption DEF ClassIds
      <4>3. ~(n - 1 >= nextClassId)
        BY <3>3, <4>1, <4>2 DEF IdsAreFresh
      <4>4. ~(d >= nextClassId)
        BY <3>4, <4>1, <4>3
      <4> QED BY <4>4 DEF IdsAreFresh
    <3>6. (status[d] = "NONE") <=> (d >= n)
      BY <3>2, <3>4, <3>5
    <3> QED BY <3>6 DEF n
  <2> QED BY <2>1, <2>2 DEF IdsAreFresh
<1>4. CASE UNCHANGED lifeVars
  BY <1>4 DEF lifeVars, IdsAreFresh
<1> QED BY <1>1, <1>2, <1>3, <1>4, LifeSteps

\* The status gates what is started, and endClass erases all of it: nothing survives
\* in a class that is not ACTIVE.
LEMMA RunStep == Inv /\ [Next]_cmVars => (OnlyActiveClassesRun /\ MicNeedsAudio)'
<1> SUFFICES ASSUME Inv, [Next]_cmVars PROVE (OnlyActiveClassesRun /\ MicNeedsAudio)'
  OBVIOUS
<1> USE DEF Inv
<1>1. ASSUME NEW t \in Teachers, CreateClass(t)
      PROVE  (OnlyActiveClassesRun /\ MicNeedsAudio)'
  <2>1. status[nextClassId] = "NONE"
    BY <1>1 DEF CreateClass, IdsAreFresh, TypeOK
  <2>2. UNCHANGED <<members, checkins, screenSharing, audioActive, micHolder>>
    BY <1>1 DEF CreateClass, mediaVars
  <2>3. \A c \in ClassIds : status[c] = "ACTIVE" => status'[c] = "ACTIVE"
    BY <1>1, <2>1 DEF CreateClass, TypeOK
  <2> QED BY <2>2, <2>3 DEF OnlyActiveClassesRun, MicNeedsAudio
<1>2. ASSUME NEW c \in ClassIds, NEW t \in Teachers, StartClass(c, t)
      PROVE  (OnlyActiveClassesRun /\ MicNeedsAudio)'
  <2>1. UNCHANGED <<members, checkins, screenSharing, audioActive, micHolder>>
    BY <1>2 DEF StartClass, mediaVars
  <2>2. \A d \in ClassIds : status[d] = "ACTIVE" => status'[d] = "ACTIVE"
    BY <1>2 DEF StartClass, TypeOK
  <2> QED BY <2>1, <2>2 DEF OnlyActiveClassesRun, MicNeedsAudio
<1>3. ASSUME NEW c \in ClassIds, NEW t \in Teachers, EndClass(c, t)
      PROVE  (OnlyActiveClassesRun /\ MicNeedsAudio)'
  BY <1>3 DEF EndClass, Forget, NoCheckin, TypeOK, OnlyActiveClassesRun, MicNeedsAudio
<1>4. ASSUME NEW c \in ClassIds, NEW u \in Students, JoinClass(c, u) \/ LeaveClass(c, u)
      PROVE  (OnlyActiveClassesRun /\ MicNeedsAudio)'
  BY <1>4 DEF JoinClass, LeaveClass, lifeVars, mediaVars, TypeOK,
              OnlyActiveClassesRun, MicNeedsAudio
<1>5. ASSUME NEW u \in Students, RemoveFromAll(u)
      PROVE  (OnlyActiveClassesRun /\ MicNeedsAudio)'
  BY <1>5 DEF RemoveFromAll, lifeVars, mediaVars, TypeOK,
              OnlyActiveClassesRun, MicNeedsAudio
<1>6. ASSUME NEW c \in ClassIds, NEW t \in Teachers, NEW seconds \in DeadlineRequests,
             OpenCheckin(c, t, seconds)
      PROVE  (OnlyActiveClassesRun /\ MicNeedsAudio)'
  BY <1>6 DEF OpenCheckin, RunBy, lifeVars, mediaVars, TypeOK,
              OnlyActiveClassesRun, MicNeedsAudio
<1>7. ASSUME NEW c \in ClassIds, NEW u \in Students, Checkin(c, u)
      PROVE  (OnlyActiveClassesRun /\ MicNeedsAudio)'
  BY <1>7 DEF Checkin, CheckinRecord, lifeVars, mediaVars, TypeOK,
              OnlyActiveClassesRun, MicNeedsAudio
<1>8. ASSUME NEW c \in ClassIds, NEW t \in Teachers, NEW u \in Students,
             RandomCall(c, t, u)
      PROVE  (OnlyActiveClassesRun /\ MicNeedsAudio)'
  BY <1>8 DEF RandomCall, lifeVars, mediaVars, OnlyActiveClassesRun, MicNeedsAudio
<1>9. ASSUME NEW c \in ClassIds, NEW t \in Teachers,
             StartScreenShare(c, t) \/ StopScreenShare(c, t)
      PROVE  (OnlyActiveClassesRun /\ MicNeedsAudio)'
  BY <1>9 DEF StartScreenShare, StopScreenShare, RunBy, lifeVars,
              OnlyActiveClassesRun, MicNeedsAudio
<1>10. ASSUME NEW c \in ClassIds, NEW t \in Teachers, StartAudio(c, t) \/ StopAudio(c, t)
       PROVE  (OnlyActiveClassesRun /\ MicNeedsAudio)'
  BY <1>10 DEF StartAudio, StopAudio, RunBy, lifeVars, TypeOK,
               OnlyActiveClassesRun, MicNeedsAudio
<1>11. ASSUME NEW c \in ClassIds, NEW t \in Teachers,
              \/ \E u \in Students : GrantMic(c, t, u)
              \/ RevokeMic(c, t)
       PROVE  (OnlyActiveClassesRun /\ MicNeedsAudio)'
  BY <1>11 DEF GrantMic, RevokeMic, lifeVars, TypeOK, OnlyActiveClassesRun, MicNeedsAudio
<1>12. CASE Tick \/ UNCHANGED cmVars
  BY <1>12 DEF Tick, cmVars, lifeVars, mediaVars, OnlyActiveClassesRun, MicNeedsAudio
<1>13. CASE Restart
  BY <1>13 DEF Restart, NoCheckin, OnlyActiveClassesRun, MicNeedsAudio
<1> QED
  BY <1>1, <1>2, <1>3, <1>4, <1>5, <1>6, <1>7, <1>8, <1>9, <1>10, <1>11, <1>12, <1>13
  DEF Next, TeacherStep, StudentStep

\* The inductive invariant holds of every behaviour.
THEOREM Invariance == Spec => []Inv
<1>1. Init => Inv
  <2>1. Init => TypeOK
    BY InitType
  <2>2. Init => OnlyActiveClassesRun /\ MicNeedsAudio
    BY DEF Init, NoCheckin, OnlyActiveClassesRun, MicNeedsAudio
  <2>3. Init => IdsAreFresh
    BY DEF Init, IdsAreFresh, ClassIds
  <2> QED BY <2>1, <2>2, <2>3 DEF Inv
<1>2. Inv /\ [Next]_cmVars => Inv'
  BY TypeStep, RunStep, FreshStep DEF Inv
<1> QED BY <1>1, <1>2, PTL DEF Spec

\* Rosters, check-ins, screen shares and audio exist in ACTIVE classes only.
THEOREM ActiveOnly == Spec => []OnlyActiveClassesRun
BY Invariance, PTL DEF Inv

\* Nobody holds the microphone of a class whose audio is off.
THEOREM MicWithAudio == Spec => []MicNeedsAudio
BY Invariance, PTL DEF Inv

\* A class id is never used twice, whenever the server restarts.
THEOREM FreshIds == Spec => []IdsAreFresh
BY Invariance, PTL DEF Inv

-----------------------------------------------------------------------------
(* What a step may do. *)

\* createClass writes over an unused id, startClass and endClass check the status they
\* leave, and no other step touches it.
LEMMA LifeCycleStep ==
  ASSUME Inv, [Next]_cmVars, NEW d \in ClassIds
  PROVE  /\ <<status[d], status'[d]>> \in
               {<<"NONE", "WAITING">>, <<"WAITING", "ACTIVE">>, <<"ACTIVE", "ENDED">>}
               \cup {<<s, s>> : s \in {"NONE", "WAITING", "ACTIVE", "ENDED"}}
         /\ status[d] # "NONE" => owner'[d] = owner[d]
<1>1. ASSUME NEW t \in Teachers, CreateClass(t)
      PROVE  \/ status[d] = "NONE" /\ status'[d] = "WAITING"
             \/ status'[d] = status[d] /\ owner'[d] = owner[d]
  BY <1>1 DEF CreateClass, Inv, TypeOK, IdsAreFresh
<1>2. ASSUME NEW c \in ClassIds, NEW t \in Teachers, StartClass(c, t) \/ EndClass(c, t)
      PROVE  /\ \/ status[d] = "WAITING" /\ status'[d] = "ACTIVE"
                \/ status[d] = "ACTIVE" /\ status'[d] = "ENDED"
                \/ status'[d] = status[d]
             /\ owner'[d] = owner[d]
  BY <1>2 DEF StartClass, EndClass, RunBy, Inv, TypeOK
<1>3. Restart \/ UNCHANGED lifeVars => status'[d] = status[d] /\ owner'[d] = owner[d]
  BY DEF Restart, lifeVars
<1>4. status[d] \in {"NONE", "WAITING", "ACTIVE", "ENDED"}
  BY DEF Inv, TypeOK
<1> QED BY <1>1, <1>2, <1>3, <1>4, LifeSteps

\* WAITING, ACTIVE, ENDED in that order, under the teacher who created the class.
THEOREM LifeCycleHolds == Spec => LifeCycle
<1>1. Inv /\ [Next]_cmVars =>
        [\A c \in ClassIds :
          /\ <<status[c], status'[c]>> \in
                {<<"NONE", "WAITING">>, <<"WAITING", "ACTIVE">>, <<"ACTIVE", "ENDED">>}
                \cup {<<s, s>> : s \in {"NONE", "WAITING", "ACTIVE", "ENDED"}}
          /\ status[c] # "NONE" => owner'[c] = owner[c]]_cmVars
  BY LifeCycleStep
<1> QED BY <1>1, Invariance, PTL DEF Spec, LifeCycle

\* addEvent leaves the log of every other class alone.
LEMMA AddEventFrame ==
  ASSUME NEW c \in ClassIds, NEW d \in ClassIds, d # c,
         NEW type, NEW u, NEW detail, AddEvent(c, type, u, detail),
         events \in [ClassIds -> Seq(EventRecord)]
  PROVE  events'[d] = events[d]
BY DEF AddEvent, Writes

\* A class in which nothing runs, and which is not about to start, gets no record.
LEMMA FrozenStep ==
  ASSUME Inv, [Next]_cmVars, NEW d \in ClassIds, status[d] = "ENDED"
  PROVE  events'[d] = events[d] /\ members'[d] = {}
<1>0. /\ members[d] = {} /\ ~checkins[d].open
      /\ d \notin screenSharing /\ d \notin audioActive /\ micHolder[d] = NoUser
      /\ events \in [ClassIds -> Seq(EventRecord)]
  BY DEF Inv, TypeOK, OnlyActiveClassesRun, MicNeedsAudio
<1>1. ASSUME NEW t \in Teachers, CreateClass(t)
      PROVE  events'[d] = events[d] /\ members'[d] = {}
  <2>1. nextClassId \in ClassIds /\ nextClassId # d
    BY <1>1 DEF CreateClass, Inv, TypeOK, IdsAreFresh
  <2> QED BY <1>0, <1>1, <2>1, AddEventFrame DEF CreateClass
<1>2. ASSUME NEW c \in ClassIds, NEW t \in Teachers, TeacherStep(c, t)
      PROVE  events'[d] = events[d] /\ members'[d] = {}
  <2>1. c # d
    BY <1>0, <1>2 DEF TeacherStep, StartClass, EndClass, OpenCheckin, RandomCall, RunBy,
       StartScreenShare, StopScreenShare, StartAudio, StopAudio, GrantMic, RevokeMic
  <2>2. CASE StartClass(c, t) \/ EndClass(c, t)
    BY <1>0, <2>1, <2>2, AddEventFrame DEF StartClass, EndClass, Forget, Inv, TypeOK
  <2>3. CASE \/ \E seconds \in DeadlineRequests : OpenCheckin(c, t, seconds)
             \/ \E u \in Students : RandomCall(c, t, u)
    BY <1>0, <2>1, <2>3, AddEventFrame DEF OpenCheckin, RandomCall
  <2>4. CASE StartScreenShare(c, t) \/ StopScreenShare(c, t)
    BY <1>0, <2>1, <2>4, AddEventFrame DEF StartScreenShare, StopScreenShare
  <2>5. CASE StartAudio(c, t) \/ StopAudio(c, t) \/ RevokeMic(c, t)
    BY <1>0, <2>1, <2>5, AddEventFrame DEF StartAudio, StopAudio, RevokeMic
  <2>6. CASE \E u \in Students : GrantMic(c, t, u)
    BY <1>0, <2>1, <2>6 DEF GrantMic, Writes
  <2> QED BY <1>2, <2>2, <2>3, <2>4, <2>5, <2>6 DEF TeacherStep
<1>3. ASSUME NEW c \in ClassIds, NEW u \in Students, StudentStep(c, u)
      PROVE  events'[d] = events[d] /\ members'[d] = {}
  <2>1. c # d
    BY <1>0, <1>3 DEF StudentStep, JoinClass, LeaveClass, Checkin, MayCheckIn
  <2> QED BY <1>0, <1>3, <2>1, AddEventFrame
          DEF StudentStep, JoinClass, LeaveClass, Checkin, Inv, TypeOK
<1>4. ASSUME NEW u \in Students, RemoveFromAll(u)
      PROVE  events'[d] = events[d] /\ members'[d] = {}
  BY <1>0, <1>4 DEF RemoveFromAll, Writes
<1>5. CASE Tick \/ Restart \/ UNCHANGED cmVars
  BY <1>0, <1>5 DEF Tick, Restart, cmVars, logVars
<1> QED BY <1>1, <1>2, <1>3, <1>4, <1>5 DEF Next

\* Nothing that arrives late changes an ended class or its log.
THEOREM EndedIsFrozen == Spec => EndedClassIsFrozen
<1>1. Inv /\ [Next]_cmVars =>
        [\A c \in ClassIds : status[c] = "ENDED" =>
          /\ status'[c] = "ENDED" /\ owner'[c] = owner[c]
          /\ events'[c] = events[c]
          /\ members'[c] = {}]_cmVars
  BY LifeCycleStep, FrozenStep
<1> QED BY <1>1, Invariance, PTL DEF Spec, EndedClassIsFrozen

-----------------------------------------------------------------------------
(* Check-in. *)

\* No opening lies in the future; it is what makes a time taken now follow it.
OpenedInThePast == \A c \in ClassIds : checkins[c].openTime <= clock

CheckinInv == CheckinsFollowOpening /\ OpenedInThePast

\* openCheckin replaces the whole record, so a time in it was written since.
LEMMA CheckinStep ==
  TypeOK /\ CheckinInv /\ [Next]_cmVars => CheckinInv'
<1> SUFFICES ASSUME TypeOK, CheckinInv, [Next]_cmVars
             PROVE  CheckinInv'
  OBVIOUS
<1>1. ASSUME checkins' = checkins, clock' \in {clock, clock + 1}
      PROVE  CheckinInv'
  BY <1>1 DEF CheckinInv, OpenedInThePast, CheckinsFollowOpening, TypeOK, CheckinRecord
<1>2. ASSUME NEW c \in ClassIds, NEW t \in Teachers, EndClass(c, t)
      PROVE  CheckinInv'
  BY <1>2 DEF EndClass, Forget, AddEvent, Writes, NoCheckin, TypeOK, CheckinRecord,
              CheckinInv, OpenedInThePast, CheckinsFollowOpening
<1>3. ASSUME NEW c \in ClassIds, NEW t \in Teachers, NEW seconds \in DeadlineRequests,
             OpenCheckin(c, t, seconds)
      PROVE  CheckinInv'
  BY SMTT(30), <1>3 DEF OpenCheckin, Opening, AddEvent, Writes, NoCheckin, TypeOK, CheckinRecord,
              CheckinInv, OpenedInThePast, CheckinsFollowOpening
<1>4. ASSUME NEW c \in ClassIds, NEW u \in Students, Checkin(c, u)
      PROVE  CheckinInv'
  <2>1. clock' \in {clock, clock + 1} /\ clock \in Nat
    BY <1>4 DEF Checkin, AddEvent, Writes, TypeOK
  <2>2. checkins[c].open /\ checkins[c].openTime \in Nat
    BY <1>4 DEF Checkin, MayCheckIn, TypeOK, CheckinRecord
  <2>3. checkins[c].openTime <= clock
    BY DEF CheckinInv, OpenedInThePast
  <2>4. /\ checkins'[c].open /\ checkins'[c].openTime = checkins[c].openTime
        /\ \A v \in Students : checkins'[c].checkedIn[v] =
              IF v = u THEN clock ELSE checkins[c].checkedIn[v]
    BY <1>4, <2>2 DEF Checkin, TypeOK, CheckinRecord
  <2>5. \A d \in ClassIds \ {c} : checkins'[d] = checkins[d]
    BY <1>4 DEF Checkin, TypeOK
  <2>6. ASSUME NEW d \in ClassIds PROVE checkins'[d].openTime <= clock'
    <3>1. checkins'[d].openTime = checkins[d].openTime
      BY <2>4, <2>5
    <3>2. checkins[d].openTime <= clock /\ checkins[d].openTime \in Nat
      BY DEF CheckinInv, OpenedInThePast, TypeOK, CheckinRecord
    <3> QED BY <2>1, <3>1, <3>2
  <2>7. ASSUME NEW d \in ClassIds, NEW v \in Students,
               checkins'[d].checkedIn[v] # NotYet
        PROVE  /\ checkins'[d].open
               /\ checkins'[d].openTime <= checkins'[d].checkedIn[v]
               /\ checkins'[d].checkedIn[v] <= clock'
    <3>1. CASE d = c /\ v = u
      BY <2>1, <2>2, <2>3, <2>4, <3>1
    <3>2. CASE ~(d = c /\ v = u)
      <4>1. /\ checkins'[d].checkedIn[v] = checkins[d].checkedIn[v]
            /\ checkins'[d].openTime = checkins[d].openTime
            /\ checkins[d].open => checkins'[d].open
        BY <2>4, <2>5, <3>2
      <4>2. checkins[d].checkedIn[v] \in Nat \cup {NotYet}
        BY DEF TypeOK, CheckinRecord
      <4> QED BY <2>1, <2>7, <4>1, <4>2 DEF CheckinInv, CheckinsFollowOpening
    <3> QED BY <3>1, <3>2
  <2> QED BY <2>6, <2>7 DEF CheckinInv, OpenedInThePast, CheckinsFollowOpening
<1>5. CASE Restart
  BY <1>5 DEF Restart, NoCheckin, TypeOK, CheckinInv, OpenedInThePast, CheckinsFollowOpening
<1>6. CASE Tick \/ UNCHANGED cmVars
  BY <1>1, <1>6 DEF Tick, cmVars, logVars
<1>7. ASSUME NEW t \in Teachers, CreateClass(t)
      PROVE  checkins' = checkins /\ clock' \in {clock, clock + 1}
  BY <1>7 DEF CreateClass, AddEvent, Writes
<1>8. ASSUME NEW c \in ClassIds, NEW t \in Teachers,
             TeacherStep(c, t), ~EndClass(c, t),
             ~ \E seconds \in DeadlineRequests : OpenCheckin(c, t, seconds)
      PROVE  checkins' = checkins /\ clock' \in {clock, clock + 1}
  BY <1>8 DEF TeacherStep, StartClass, RandomCall, StartScreenShare, StopScreenShare,
              StartAudio, StopAudio, GrantMic, RevokeMic, AddEvent, Writes
<1>9. ASSUME NEW c \in ClassIds, NEW u \in Students, StudentStep(c, u), ~Checkin(c, u)
      PROVE  checkins' = checkins /\ clock' \in {clock, clock + 1}
  BY <1>9 DEF StudentStep, JoinClass, LeaveClass, AddEvent, Writes
<1>10. ASSUME NEW u \in Students, RemoveFromAll(u)
       PROVE  checkins' = checkins /\ clock' \in {clock, clock + 1}
  BY <1>10 DEF RemoveFromAll, Writes
<1> QED BY <1>1, <1>2, <1>3, <1>4, <1>5, <1>6, <1>7, <1>8, <1>9, <1>10 DEF Next

\* The attendance list of an opening holds answers to that opening only.
THEOREM CheckinsInOrder == Spec => []CheckinsFollowOpening
<1>1. Init => CheckinInv
  BY DEF Init, NoCheckin, CheckinInv, OpenedInThePast, CheckinsFollowOpening
<1>2. CheckinInv => CheckinsFollowOpening
  BY DEF CheckinInv
<1> QED BY <1>1, <1>2, CheckinStep, TypeCorrect, PTL DEF Spec

-----------------------------------------------------------------------------
(* Reading the log back: what it tells is what the maps say. *)

\* Append, in the terms the readings below need.
LEMMA AppendedRecord ==
  ASSUME NEW log \in Seq(EventRecord), NEW e \in EventRecord
  PROVE  /\ DOMAIN Append(log, e) = DOMAIN log \cup {Len(log) + 1}
         /\ \A i \in DOMAIN log : Append(log, e)[i] = log[i] /\ i < Len(log) + 1 /\ i \in Nat
         /\ Append(log, e)[Len(log) + 1] = e
         /\ Len(log) \in Nat /\ Append(log, e) \in Seq(EventRecord)
         /\ Len(Append(log, e)) = Len(log) + 1
  OBVIOUS

\* A record that is neither u's join nor an end of u's session changes nothing.
LEMMA OtherRecord ==
  ASSUME NEW log \in Seq(EventRecord), NEW e \in EventRecord, NEW u,
         ~EndsSession(e, u), ~(e.type = "STUDENT_JOINED" /\ e.user = u)
  PROVE  PresentInLog(Append(log, e), u) <=> PresentInLog(log, u)
<1> DEFINE new == Append(log, e)
<1>1. /\ DOMAIN new = DOMAIN log \cup {Len(log) + 1}
      /\ \A i \in DOMAIN log : new[i] = log[i]
      /\ new[Len(log) + 1] = e
  BY AppendedRecord
<1> HIDE DEF new
<1>2. ASSUME PresentInLog(log, u) PROVE PresentInLog(new, u)
  <2>1. PICK i \in DOMAIN log :
          /\ log[i].type = "STUDENT_JOINED" /\ log[i].user = u
          /\ \A j \in DOMAIN log : j > i => ~EndsSession(log[j], u)
    BY <1>2 DEF PresentInLog
  <2>2. \A j \in DOMAIN new : j > i => ~EndsSession(new[j], u)
    BY <1>1, <2>1
  <2> QED BY <1>1, <2>1, <2>2 DEF PresentInLog
<1>3. ASSUME PresentInLog(new, u) PROVE PresentInLog(log, u)
  <2>1. PICK i \in DOMAIN new :
          /\ new[i].type = "STUDENT_JOINED" /\ new[i].user = u
          /\ \A j \in DOMAIN new : j > i => ~EndsSession(new[j], u)
    BY <1>3 DEF PresentInLog
  <2>2. i \in DOMAIN log
    BY <1>1, <2>1
  <2> QED BY <1>1, <2>1, <2>2 DEF PresentInLog
<1> QED BY <1>2, <1>3 DEF new

\* Whoever joins is present.
LEMMA JoinRecord ==
  ASSUME NEW log \in Seq(EventRecord), NEW e \in EventRecord, NEW u,
         e.type = "STUDENT_JOINED", e.user = u
  PROVE  PresentInLog(Append(log, e), u)
<1> DEFINE new == Append(log, e)
<1>1. /\ DOMAIN new = DOMAIN log \cup {Len(log) + 1}
      /\ \A i \in DOMAIN log : i < Len(log) + 1 /\ i \in Nat
      /\ new[Len(log) + 1] = e /\ Len(log) \in Nat
  BY AppendedRecord
<1> HIDE DEF new
<1>2. \A j \in DOMAIN new : ~(j > Len(log) + 1)
  BY <1>1
<1>3. PresentInLog(new, u)
  BY <1>1, <1>2 DEF PresentInLog
<1> QED BY <1>3 DEF new

\* Nobody is present whose session has just ended.
LEMMA EndRecord ==
  ASSUME NEW log \in Seq(EventRecord), NEW e \in EventRecord, NEW u, EndsSession(e, u)
  PROVE  ~PresentInLog(Append(log, e), u)
<1> DEFINE new == Append(log, e)
<1>1. /\ DOMAIN new = DOMAIN log \cup {Len(log) + 1}
      /\ \A i \in DOMAIN log : i < Len(log) + 1 /\ i \in Nat
      /\ new[Len(log) + 1] = e /\ Len(log) \in Nat
  BY AppendedRecord
<1> HIDE DEF new
<1>2. e.type # "STUDENT_JOINED"
  BY DEF EndsSession
<1>3. ASSUME NEW i \in DOMAIN new, new[i].type = "STUDENT_JOINED"
      PROVE  Len(log) + 1 > i
  BY <1>1, <1>2, <1>3
<1>4. ~PresentInLog(new, u)
  BY <1>1, <1>3 DEF PresentInLog
<1> QED BY <1>4 DEF new

-----------------------------------------------------------------------------
(* The roster and the log. *)

AllSessionsRecorded == SessionTypes \subseteq RecordedTypes

\* What the log tells of class c is what the roster says.
Agree(c) ==
    \A u \in Students :
        /\ u \in members[c] => PresentInLog(events[c], u)
        /\ restarts = 0 /\ PresentInLog(events[c], u) => u \in members[c]

\* A step that records nothing about joining, leaving or ending leaves the readings alone.
LEMMA QuietRecord ==
  ASSUME NEW log \in Seq(EventRecord), NEW type \in EventTypes \ SessionTypes,
         NEW w \in Accounts, NEW detail \in Nat, clock' \in Nat, NEW u
  PROVE  PresentInLog(Logged(log, type, w, detail), u) <=> PresentInLog(log, u)
<1> DEFINE e == Event(type, w, detail)
<1>1. e \in EventRecord /\ e.type = type
  BY DEF Event, EventRecord
<1> HIDE DEF e
<1>2. ~EndsSession(e, u) /\ e.type # "STUDENT_JOINED"
  BY <1>1 DEF EndsSession, SessionTypes
<1>3. PresentInLog(Append(log, e), u) <=> PresentInLog(log, u)
  BY <1>1, <1>2, OtherRecord
<1> QED BY <1>3 DEF Logged, e

LEMMA QuietStep ==
  ASSUME TypeOK, RosterMatchesLog, AllSessionsRecorded,
         members' = members, NEW c \in ClassIds, NEW type \in EventTypes \ SessionTypes,
         NEW w \in Accounts, NEW detail \in Nat, AddEvent(c, type, w, detail)
  PROVE  RosterMatchesLog'
<1>1. events' = [events EXCEPT ![c] = Logged(events[c], type, w, detail)]
      /\ clock' \in Nat /\ restarts' = restarts
      /\ events \in [ClassIds -> Seq(EventRecord)]
  BY DEF AddEvent, Writes, TypeOK
<1>2. \A d \in ClassIds, u \in Students :
         PresentInLog(events'[d], u) <=> PresentInLog(events[d], u)
  BY <1>1, QuietRecord
<1> QED BY <1>1, <1>2 DEF RosterMatchesLog, AllSessionsRecorded

LEMMA RosterStep ==
  ASSUME TypeOK, RosterMatchesLog, AllSessionsRecorded, [Next]_cmVars
  PROVE  RosterMatchesLog'
<1>0. /\ \A c \in ClassIds : Agree(c)
      /\ events \in [ClassIds -> Seq(EventRecord)]
      /\ members \in [ClassIds -> SUBSET Students]
  BY DEF RosterMatchesLog, AllSessionsRecorded, Agree, TypeOK
<1> USE DEF Accounts
<1>1. ASSUME NEW t \in Teachers, CreateClass(t) PROVE RosterMatchesLog'
  BY <1>1, QuietStep DEF CreateClass, EventTypes, SessionTypes
<1>2. ASSUME NEW c \in ClassIds, NEW t \in Teachers, TeacherStep(c, t), ~EndClass(c, t)
      PROVE  RosterMatchesLog'
  <2>1. CASE StartClass(c, t)
    BY <2>1, QuietStep DEF StartClass, EventTypes, SessionTypes
  <2>2. ASSUME NEW seconds \in DeadlineRequests, OpenCheckin(c, t, seconds)
        PROVE  RosterMatchesLog'
    BY <2>2, QuietStep, NumbersAssumption DEF OpenCheckin, EventTypes, SessionTypes
  <2>3. ASSUME NEW u \in Students, RandomCall(c, t, u) PROVE RosterMatchesLog'
    BY <2>3, QuietStep DEF RandomCall, EventTypes, SessionTypes
  <2>4. CASE StartScreenShare(c, t) \/ StopScreenShare(c, t)
    BY <2>4, QuietStep DEF StartScreenShare, StopScreenShare, EventTypes, SessionTypes
  <2>5. CASE StartAudio(c, t) \/ StopAudio(c, t)
    BY <2>5, QuietStep DEF StartAudio, StopAudio, EventTypes, SessionTypes
  <2>6. CASE RevokeMic(c, t)
    <3>1. micHolder[c] \in Students
      BY <2>6 DEF RevokeMic, TypeOK
    <3> QED BY <2>6, <3>1, QuietStep DEF RevokeMic, EventTypes, SessionTypes
  <2>7. ASSUME NEW u \in Students, GrantMic(c, t, u) PROVE RosterMatchesLog'
    <3> DEFINE taken == TakenFromHolder(c, u)
               log == Logged(taken, "MIC_GRANTED", u, 0)
    <3>1. /\ events' = [events EXCEPT ![c] = log]
          /\ clock' \in Nat /\ restarts' = restarts /\ members' = members
      BY <2>7 DEF GrantMic, Writes, TypeOK
    <3>2. micHolder[c] \in Students \cup {NoUser}
      BY DEF TypeOK
    <3>3. /\ taken \in Seq(EventRecord)
          /\ \A v : PresentInLog(taken, v) <=> PresentInLog(events[c], v)
      <4>1. CASE micHolder[c] \in {NoUser, u}
        BY <1>0, <4>1 DEF TakenFromHolder
      <4>2. CASE micHolder[c] \notin {NoUser, u}
        <5>1. taken = Logged(events[c], "MIC_REVOKED", micHolder[c], 0)
          BY <4>2 DEF TakenFromHolder
        <5>2. micHolder[c] \in Accounts
          BY <3>2, <4>2
        <5>3. "MIC_REVOKED" \in EventTypes \ SessionTypes /\ events[c] \in Seq(EventRecord)
          BY <1>0 DEF EventTypes, SessionTypes
        <5>4. taken \in Seq(EventRecord)
          BY <3>1, <5>1, <5>2, <5>3, LoggedType
        <5> HIDE DEF taken
        <5>5. \A v : PresentInLog(taken, v) <=> PresentInLog(events[c], v)
          BY <3>1, <5>1, <5>2, <5>3, QuietRecord
        <5> QED BY <5>4, <5>5
      <4> QED BY <4>1, <4>2
    <3> HIDE DEF taken
    <3>4. \A v : PresentInLog(log, v) <=> PresentInLog(taken, v)
      BY <3>1, <3>3, QuietRecord DEF EventTypes, SessionTypes
    <3>5. \A d \in ClassIds, v \in Students :
             PresentInLog(events'[d], v) <=> PresentInLog(events[d], v)
      BY <1>0, <3>1, <3>3, <3>4
    <3> QED BY <3>1, <3>5 DEF RosterMatchesLog, AllSessionsRecorded
  <2> QED BY <1>2, <2>1, <2>2, <2>3, <2>4, <2>5, <2>6, <2>7 DEF TeacherStep
<1>3. ASSUME NEW c \in ClassIds, NEW t \in Teachers, EndClass(c, t) PROVE RosterMatchesLog'
  <2> DEFINE e == Event("CLASS_ENDED", t, 0)
  <2>1. /\ events' = [events EXCEPT ![c] = Append(events[c], e)]
        /\ clock' \in Nat /\ restarts' = restarts
        /\ members' = [members EXCEPT ![c] = {}]
    BY <1>3 DEF EndClass, Forget, AddEvent, Writes, TypeOK, Logged, AllSessionsRecorded,
                SessionTypes
  <2>2. e \in EventRecord /\ e.type = "CLASS_ENDED"
    BY <2>1 DEF Event, EventRecord, EventTypes
  <2> HIDE DEF e
  <2>3. \A u \in Students : ~PresentInLog(events'[c], u) /\ u \notin members'[c]
    BY <1>0, <2>1, <2>2, EndRecord DEF EndsSession
  <2>4. \A d \in ClassIds \ {c} : events'[d] = events[d] /\ members'[d] = members[d]
    BY <1>0, <2>1
  <2> QED BY <1>0, <2>1, <2>3, <2>4 DEF RosterMatchesLog, Agree
<1>4. ASSUME NEW c \in ClassIds, NEW u \in Students, JoinClass(c, u) PROVE RosterMatchesLog'
  <2> DEFINE e == Event("STUDENT_JOINED", u, 0)
  <2>1. /\ events' = [events EXCEPT ![c] = Append(events[c], e)]
        /\ clock' \in Nat /\ restarts' = restarts
        /\ members' = [members EXCEPT ![c] = members[c] \cup {u}]
    BY <1>4 DEF JoinClass, AddEvent, Writes, TypeOK, Logged, AllSessionsRecorded,
                SessionTypes
  <2>2. e \in EventRecord /\ e.type = "STUDENT_JOINED" /\ e.user = u
    BY <2>1 DEF Event, EventRecord, EventTypes
  <2> HIDE DEF e
  <2>3. PresentInLog(events'[c], u) /\ u \in members'[c]
    BY <1>0, <2>1, <2>2, JoinRecord
  <2>4. \A v \in Students \ {u} :
           PresentInLog(events'[c], v) <=> PresentInLog(events[c], v)
    BY <1>0, <2>1, <2>2, OtherRecord DEF EndsSession
  <2>5. \A d \in ClassIds \ {c} : events'[d] = events[d] /\ members'[d] = members[d]
    BY <1>0, <2>1
  <2>6. \A v \in Students \ {u} : v \in members'[c] <=> v \in members[c]
    BY <1>0, <2>1
  <2> QED BY <1>0, <2>1, <2>3, <2>4, <2>5, <2>6 DEF RosterMatchesLog, Agree
<1>5. ASSUME NEW u \in Students,
             \A c \in ClassIds :
               \/ events'[c] = events[c] /\ members'[c] = members[c] /\ u \notin members[c]
               \/ events'[c] = events[c] /\ members'[c] = members[c]
               \/ /\ events'[c] = Append(events[c], Event("STUDENT_LEFT", u, 0))
                  /\ members'[c] = members[c] \ {u},
             clock' \in Nat, restarts' = restarts
      PROVE  RosterMatchesLog'
  <2> DEFINE e == Event("STUDENT_LEFT", u, 0)
  <2>1. e \in EventRecord /\ e.type = "STUDENT_LEFT" /\ e.user = u
    BY <1>5 DEF Event, EventRecord, EventTypes
  <2> HIDE DEF e
  <2>2. ASSUME NEW c \in ClassIds, events'[c] = Append(events[c], e),
               members'[c] = members[c] \ {u}
        PROVE  Agree(c)'
    <3>1. ~PresentInLog(events'[c], u) /\ u \notin members'[c]
      BY <1>0, <2>1, <2>2, EndRecord DEF EndsSession
    <3>2. \A v \in Students \ {u} :
             PresentInLog(events'[c], v) <=> PresentInLog(events[c], v)
      BY <1>0, <2>1, <2>2, OtherRecord DEF EndsSession
    <3> QED BY <1>0, <1>5, <2>2, <3>1, <3>2 DEF Agree
  <2>3. \A c \in ClassIds : Agree(c)'
    BY <1>0, <1>5, <2>2 DEF Agree, e
  <2> QED BY <2>3 DEF RosterMatchesLog, Agree
<1>6. ASSUME NEW c \in ClassIds, NEW u \in Students, LeaveClass(c, u) PROVE RosterMatchesLog'
  <2>1. /\ events' = [events EXCEPT ![c] = Append(events[c], Event("STUDENT_LEFT", u, 0))]
        /\ clock' \in Nat /\ restarts' = restarts
        /\ members' = [members EXCEPT ![c] = members[c] \ {u}]
    BY <1>6 DEF LeaveClass, AddEvent, Writes, TypeOK, Logged, AllSessionsRecorded,
                SessionTypes
  <2> QED BY <1>0, <1>5, <2>1
<1>7. ASSUME NEW u \in Students, RemoveFromAll(u) PROVE RosterMatchesLog'
  <2>1. /\ events' = [c \in ClassIds |->
                        IF u \in members[c] THEN Append(events[c], Event("STUDENT_LEFT", u, 0))
                                            ELSE events[c]]
        /\ clock' \in Nat /\ restarts' = restarts
        /\ members' = [c \in ClassIds |-> members[c] \ {u}]
    BY <1>7 DEF RemoveFromAll, Writes, TypeOK, Logged, AllSessionsRecorded, SessionTypes
  <2>2. \A c \in ClassIds : u \notin members[c] => members[c] \ {u} = members[c]
    OBVIOUS
  <2> QED BY <1>0, <1>5, <2>1, <2>2
<1>8. ASSUME NEW c \in ClassIds, NEW u \in Students, Checkin(c, u) PROVE RosterMatchesLog'
  BY <1>8, QuietStep DEF Checkin, EventTypes, SessionTypes
<1>9. CASE Restart
  BY <1>0, <1>9 DEF Restart, RosterMatchesLog, TypeOK
<1>10. CASE Tick \/ UNCHANGED cmVars
  BY <1>0, <1>10 DEF Tick, cmVars, logVars, RosterMatchesLog, Agree
<1> QED
  BY <1>1, <1>2, <1>3, <1>4, <1>6, <1>7, <1>8, <1>9, <1>10 DEF Next, StudentStep

\* The roster can be told from the log, which is what the statistics are computed from.
THEOREM RosterInLog == Spec => []RosterMatchesLog
<1>1. Init => RosterMatchesLog
  <2> SUFFICES ASSUME Init PROVE RosterMatchesLog
    OBVIOUS
  <2>1. \A c \in ClassIds : members[c] = {} /\ DOMAIN events[c] = {}
    BY DEF Init
  <2> QED BY <2>1 DEF RosterMatchesLog, PresentInLog
<1>2. TypeOK /\ RosterMatchesLog /\ [Next]_cmVars => RosterMatchesLog'
  <2>1. ~AllSessionsRecorded => RosterMatchesLog'
    BY DEF RosterMatchesLog, AllSessionsRecorded
  <2> QED BY <2>1, RosterStep
<1> QED BY <1>1, <1>2, TypeCorrect, PTL DEF Spec

-----------------------------------------------------------------------------
(* The microphone and the log. *)

LossesRecorded == {"MIC_REVOKED", "AUDIO_STOPPED", "CLASS_ENDED"} \subseteq RecordedTypes

\* The records a step adds to a log tell u that the microphone is lost.
Told(u, old, new) ==
    \E i \in Len(old) + 1 .. Len(new) :
        \/ new[i].type = "MIC_REVOKED" /\ new[i].user = u
        \/ new[i].type \in {"AUDIO_STOPPED", "CLASS_ENDED"}

LEMMA ToldByRecord ==
  ASSUME NEW log \in Seq(EventRecord), NEW e \in EventRecord, NEW u,
         \/ e.type = "MIC_REVOKED" /\ e.user = u
         \/ e.type \in {"AUDIO_STOPPED", "CLASS_ENDED"}
  PROVE  Told(u, log, Append(log, e))
<1> DEFINE new == Append(log, e)
<1>1. /\ Len(log) \in Nat /\ Len(new) = Len(log) + 1
      /\ new[Len(log) + 1] = e
  BY AppendedRecord
<1> HIDE DEF new
<1>2. Told(u, log, new)
  BY <1>1 DEF Told
<1> QED BY <1>2 DEF new

\* Records that follow do not take back what was told.
LEMMA ToldBefore ==
  ASSUME NEW log \in Seq(EventRecord), NEW mid \in Seq(EventRecord),
         NEW e \in EventRecord, NEW u, Told(u, log, mid)
  PROVE  Told(u, log, Append(mid, e))
<1> DEFINE new == Append(mid, e)
<1>1. /\ \A i \in DOMAIN mid : new[i] = mid[i]
      /\ Len(new) = Len(mid) + 1 /\ Len(mid) \in Nat /\ Len(log) \in Nat
      /\ DOMAIN mid = 1 .. Len(mid)
  BY AppendedRecord
<1> HIDE DEF new
<1>2. PICK i \in Len(log) + 1 .. Len(mid) :
        \/ mid[i].type = "MIC_REVOKED" /\ mid[i].user = u
        \/ mid[i].type \in {"AUDIO_STOPPED", "CLASS_ENDED"}
  BY DEF Told
<1>3. new[i] = mid[i] /\ i \in Len(log) + 1 .. Len(new)
  BY <1>1, <1>2
<1>4. Told(u, log, new)
  BY <1>2, <1>3 DEF Told
<1> QED BY <1>4 DEF new

\* Only four operations and a restart take the microphone away.
LEMMA MicStep ==
  ASSUME TypeOK, LossesRecorded, [Next]_cmVars, restarts' = restarts,
         NEW d \in ClassIds, micHolder[d] # NoUser, micHolder'[d] # micHolder[d]
  PROVE  Told(micHolder[d], events[d], events'[d])
<1>0. /\ events \in [ClassIds -> Seq(EventRecord)]
      /\ micHolder \in [ClassIds -> Students \cup {NoUser}]
      /\ micHolder[d] \in Students
  BY DEF TypeOK
<1> USE DEF Accounts
<1>1. ASSUME NEW t \in Teachers, CreateClass(t) PROVE FALSE
  BY <1>1 DEF CreateClass, mediaVars
<1>2. ASSUME NEW c \in ClassIds, NEW u \in Students, StudentStep(c, u) PROVE FALSE
  BY <1>2 DEF StudentStep, JoinClass, LeaveClass, Checkin, mediaVars
<1>3. ASSUME NEW u \in Students, RemoveFromAll(u) PROVE FALSE
  BY <1>3 DEF RemoveFromAll, mediaVars
<1>4. ASSUME Tick \/ UNCHANGED cmVars PROVE FALSE
  BY <1>4 DEF Tick, cmVars, mediaVars
<1>5. ASSUME Restart PROVE FALSE
  BY <1>5 DEF Restart, TypeOK
<1>6. ASSUME NEW c \in ClassIds, NEW t \in Teachers,
             \/ StartClass(c, t)
             \/ \E seconds \in DeadlineRequests : OpenCheckin(c, t, seconds)
             \/ \E u \in Students : RandomCall(c, t, u)
             \/ StartScreenShare(c, t) \/ StopScreenShare(c, t) \/ StartAudio(c, t)
      PROVE  FALSE
  BY <1>6 DEF StartClass, OpenCheckin, RandomCall, StartScreenShare, StopScreenShare,
              StartAudio, mediaVars
<1>7. ASSUME NEW c \in ClassIds, NEW type \in {"AUDIO_STOPPED", "CLASS_ENDED", "MIC_REVOKED"},
             NEW w \in Accounts, type = "MIC_REVOKED" => w = micHolder[d],
             AddEvent(c, type, w, 0), c = d
      PROVE  Told(micHolder[d], events[d], events'[d])
  <2> DEFINE e == Event(type, w, 0)
  <2>1. events'[d] = Append(events[d], e)
    BY <1>0, <1>7 DEF AddEvent, Writes, Logged, LossesRecorded
  <2>2. e \in EventRecord /\ e.type = type /\ e.user = w
    BY <1>7 DEF Event, EventRecord, EventTypes, AddEvent, Writes, TypeOK
  <2> HIDE DEF e
  <2> QED BY <1>0, <1>7, <2>1, <2>2, ToldByRecord
<1>8. ASSUME NEW c \in ClassIds, NEW t \in Teachers, EndClass(c, t) \/ StopAudio(c, t)
      PROVE  Told(micHolder[d], events[d], events'[d])
  <2>1. c = d
    BY <1>0, <1>8 DEF EndClass, Forget, StopAudio
  <2> QED BY <1>7, <1>8, <2>1 DEF EndClass, StopAudio
<1>9. ASSUME NEW c \in ClassIds, NEW t \in Teachers, RevokeMic(c, t)
      PROVE  Told(micHolder[d], events[d], events'[d])
  <2>1. c = d
    BY <1>0, <1>9 DEF RevokeMic
  <2> QED BY <1>0, <1>7, <1>9, <2>1 DEF RevokeMic
<1>10. ASSUME NEW c \in ClassIds, NEW t \in Teachers, NEW u \in Students, GrantMic(c, t, u)
       PROVE  Told(micHolder[d], events[d], events'[d])
  <2>1. c = d /\ micHolder[d] \notin {NoUser, u}
    BY <1>0, <1>10 DEF GrantMic
  <2> DEFINE taken == TakenFromHolder(d, u)
             granted == Event("MIC_GRANTED", u, 0)
             revoked == Event("MIC_REVOKED", micHolder[d], 0)
  <2>2. clock' \in Nat /\ events'[d] = Logged(taken, "MIC_GRANTED", u, 0)
    BY <1>0, <1>10, <2>1 DEF GrantMic, Writes, TypeOK
  <2>3. taken = Append(events[d], revoked)
    BY <2>1 DEF TakenFromHolder, Logged, LossesRecorded
  <2>4. /\ revoked \in EventRecord /\ granted \in EventRecord
        /\ revoked.type = "MIC_REVOKED" /\ revoked.user = micHolder[d]
    BY <1>0, <2>2 DEF Event, EventRecord, EventTypes
  <2>5. events'[d] \in {taken, Append(taken, granted)}
    BY <2>2 DEF Logged
  <2> HIDE DEF revoked, granted, taken
  <2>6. taken \in Seq(EventRecord) /\ Told(micHolder[d], events[d], taken)
    BY <1>0, <2>3, <2>4, ToldByRecord
  <2> QED BY <1>0, <2>4, <2>5, <2>6, ToldBefore
<1> QED
  BY <1>1, <1>2, <1>3, <1>4, <1>5, <1>6, <1>8, <1>9, <1>10 DEF Next, TeacherStep

\* While the server runs, nobody loses the microphone without a record that says why.
THEOREM MicLossInLog == Spec => MicLossIsLogged
<1>1. TypeOK /\ [Next]_cmVars =>
        [{"MIC_REVOKED", "AUDIO_STOPPED", "CLASS_ENDED"} \subseteq RecordedTypes =>
          \A c \in ClassIds :
              micHolder[c] # NoUser /\ micHolder'[c] # micHolder[c]
                  /\ restarts' = restarts =>
              \E i \in Len(events[c]) + 1 .. Len(events'[c]) :
                  \/ /\ events'[c][i].type = "MIC_REVOKED"
                     /\ events'[c][i].user = micHolder[c]
                  \/ events'[c][i].type \in {"AUDIO_STOPPED", "CLASS_ENDED"}]_cmVars
  BY MicStep DEF Told, LossesRecorded
<1> QED BY <1>1, TypeCorrect, PTL DEF Spec, MicLossIsLogged

-----------------------------------------------------------------------------
(* The attendance list. *)

NobodyCheckedIn == [v \in Students |-> NotYet]

\* A time in the list is written once; everything else that changes it empties it.
LEMMA OnceStep ==
  ASSUME TypeOK, [Next]_cmVars, NEW d \in ClassIds, NEW v \in Students,
         checkins[d].checkedIn[v] \notin {NotYet, checkins'[d].checkedIn[v]}
  PROVE  checkins'[d].checkedIn = NobodyCheckedIn
<1>0. checkins \in [ClassIds -> CheckinRecord] /\ checkins' # checkins
  BY DEF TypeOK
<1>1. ASSUME NEW t \in Teachers, CreateClass(t) PROVE FALSE
  BY <1>0, <1>1 DEF CreateClass
<1>2. ASSUME NEW c \in ClassIds, NEW t \in Teachers, EndClass(c, t)
      PROVE  checkins'[d].checkedIn = NobodyCheckedIn
  BY <1>0, <1>2 DEF EndClass, Forget, NoCheckin, NobodyCheckedIn
<1>3. ASSUME NEW c \in ClassIds, NEW t \in Teachers, NEW seconds \in DeadlineRequests,
             OpenCheckin(c, t, seconds)
      PROVE  checkins'[d].checkedIn = NobodyCheckedIn
  BY <1>0, <1>3 DEF OpenCheckin, Opening, NoCheckin, NobodyCheckedIn
<1>4. ASSUME NEW c \in ClassIds, NEW t \in Teachers, TeacherStep(c, t), ~EndClass(c, t),
             ~ \E seconds \in DeadlineRequests : OpenCheckin(c, t, seconds)
      PROVE  FALSE
  BY <1>0, <1>4 DEF TeacherStep, StartClass, RandomCall, StartScreenShare, StopScreenShare,
                    StartAudio, StopAudio, GrantMic, RevokeMic
<1>5. ASSUME NEW c \in ClassIds, NEW u \in Students, Checkin(c, u) PROVE FALSE
  BY <1>0, <1>5 DEF Checkin, MayCheckIn, CheckinRecord
<1>6. ASSUME NEW c \in ClassIds, NEW u \in Students, JoinClass(c, u) \/ LeaveClass(c, u)
      PROVE  FALSE
  BY <1>0, <1>6 DEF JoinClass, LeaveClass
<1>7. ASSUME NEW u \in Students, RemoveFromAll(u) PROVE FALSE
  BY <1>0, <1>7 DEF RemoveFromAll
<1>8. CASE Restart
  BY <1>8 DEF Restart, NoCheckin, NobodyCheckedIn
<1>9. ASSUME Tick \/ UNCHANGED cmVars PROVE FALSE
  BY <1>0, <1>9 DEF Tick, cmVars
<1> QED BY <1>1, <1>2, <1>3, <1>4, <1>5, <1>6, <1>7, <1>8, <1>9 DEF Next, StudentStep

\* A check-in is accepted once per opening.
THEOREM CheckedInOnce == Spec => CheckinOnce
<1>1. TypeOK /\ [Next]_cmVars =>
        [\A c \in ClassIds : \A u \in Students :
          checkins[c].checkedIn[u] \notin {NotYet, checkins'[c].checkedIn[u]} =>
              checkins'[c].checkedIn = [v \in Students |-> NotYet]]_cmVars
  BY OnceStep DEF NobodyCheckedIn
<1> QED BY <1>1, TypeCorrect, PTL DEF Spec, CheckinOnce

=============================================================================
