---------------------------- MODULE ClassStoreProofs ----------------------------
(***************************************************************************)
(* Theorems about ClassStore: what a death in the middle of a save can do   *)
(* to the classes and to the log, for any accounts, classes and bounds.    *)
(*                                                                         *)
(* The inductive invariant relates each file to the memory by what is left  *)
(* to save: a file with nothing to save is the memory (or cannot be read),  *)
(* the log in the file begins the log in memory, and classes.json is one    *)
(* class and one step behind at most.                                      *)
(***************************************************************************)
EXTENDS ClassManagerProofs, ClassStore

\* The log `new' begins with the log `old'.
Begins(old, new) ==
    Len(old) <= Len(new) /\ \A i \in 1 .. Len(old) : new[i] = old[i]

OnlyCreations(log) == \A i \in DOMAIN log : log[i].type = "CLASS_CREATED"

HasRecordOf(s, log) == s # "NONE" => \E i \in DOMAIN log : log[i].type = RecordOf[s]

\* What classes.json holds of c while the operation that moved it is being saved.
Before(c) ==
    [status |-> StepBack[status[c]],
     owner |-> IF status[c] = "WAITING" THEN NoUser ELSE owner[c]]

FilesOK ==
    /\ eventsFile \in [ClassIds -> Seq(EventRecord)] \cup {Torn}
    /\ classesFile \in [ClassIds -> ClassInfo] \cup {Torn}
    /\ saving \in {"nothing", "events", "classes", "both"}

\* The ids in a readable classes.json are those up to some number.
FileIdsAreFresh ==
    classesFile # Torn =>
        /\ \A c \in ClassIds :
              (classesFile[c].status = "NONE") <=> (classesFile[c].owner = NoUser)
        /\ \A c, d \in ClassIds :
              c < d /\ classesFile[d].status # "NONE" => classesFile[c].status # "NONE"

ClassesFileInv ==
    /\ saving \in {"nothing", "events"} => classesFile \in {InMemory, Torn}
    /\ classesFile # InMemory /\ classesFile # Torn =>
          \E c \in ClassIds : classesFile = [InMemory EXCEPT ![c] = Before(c)]
    /\ FileIdsAreFresh

EventsFileInv ==
    /\ saving \in {"nothing", "classes"} => eventsFile \in {events, Torn}
    /\ eventsFile # Torn => \A c \in ClassIds : Begins(eventsFile[c], events[c])

\* Every status has its record, in memory and in the files.
RecordsInv ==
    LifeRecords \subseteq RecordedTypes /\ "events" \notin torn =>
        /\ eventsFile # Torn
        /\ \A c \in ClassIds : HasRecordOf(status[c], events[c])
        /\ classesFile # Torn =>
              \A c \in ClassIds : HasRecordOf(classesFile[c].status, eventsFile[c])

\* An id that is not in use, in memory or after a death, has records of creations only.
HistoryInv ==
    "classes" \notin torn =>
        /\ \A c \in ClassIds : status[c] = "NONE" => OnlyCreations(events[c])
        /\ classesFile # Torn =>
              \A c \in ClassIds :
                  classesFile[c].status = "NONE" => OnlyCreations(events[c])

StoreInv ==
    /\ Inv /\ FilesOK
    /\ ClassesFileInv /\ EventsFileInv
    /\ RecordsInv /\ HistoryInv /\ ReusedIdHasNoHistory

-----------------------------------------------------------------------------
(* Logs that grow at their end. *)

\* A log begins with itself, and beginnings compose.
LEMMA BeginsOrder ==
  ASSUME NEW a \in Seq(EventRecord), NEW b \in Seq(EventRecord), NEW d \in Seq(EventRecord)
  PROVE  /\ Begins(a, a)
         /\ Begins(a, b) /\ Begins(b, d) => Begins(a, d)
BY DEF Begins

\* A beginning in the sense of the properties.
LEMMA BeginsIsPrefix ==
  ASSUME NEW a \in Seq(EventRecord), NEW b \in Seq(EventRecord), Begins(a, b)
  PROVE  IsPrefix(a, b)
<1>1. Len(a) \in Nat /\ Len(b) \in Nat /\ Len(a) <= Len(b)
  BY DEF Begins
<1>2. /\ SubSeq(a, 1, Len(a)) \in Seq(EventRecord) /\ SubSeq(b, 1, Len(a)) \in Seq(EventRecord)
      /\ Len(SubSeq(a, 1, Len(a))) = Len(a) /\ Len(SubSeq(b, 1, Len(a))) = Len(a)
      /\ \A i \in 1 .. Len(a) :
            SubSeq(a, 1, Len(a))[i] = a[i] /\ SubSeq(b, 1, Len(a))[i] = b[i]
  BY <1>1
<1>3. \A i \in 1 .. Len(a) : SubSeq(a, 1, Len(a))[i] = SubSeq(b, 1, Len(a))[i]
  BY <1>2 DEF Begins
<1>4. SubSeq(a, 1, Len(a)) = SubSeq(b, 1, Len(a))
  BY <1>2, <1>3
<1> QED BY <1>1, <1>4 DEF IsPrefix

\* What addEvent leaves behind begins with what it found.
LEMMA LoggedBegins ==
  ASSUME NEW log \in Seq(EventRecord), NEW type \in EventTypes,
         NEW u \in Accounts, NEW detail \in Nat, clock' \in Nat
  PROVE  /\ Logged(log, type, u, detail) \in Seq(EventRecord)
         /\ Begins(log, Logged(log, type, u, detail))
         /\ \A i \in Len(log) + 1 .. Len(Logged(log, type, u, detail)) :
               Logged(log, type, u, detail)[i].type = type
         /\ type \in RecordedTypes =>
               \E i \in DOMAIN Logged(log, type, u, detail) :
                  Logged(log, type, u, detail)[i].type = type
<1> DEFINE e == Event(type, u, detail)
<1>1. e \in EventRecord /\ e.type = type
  BY DEF Event, EventRecord
<1> HIDE DEF e
<1>2. /\ Append(log, e) \in Seq(EventRecord)
      /\ Len(Append(log, e)) = Len(log) + 1 /\ Len(log) \in Nat
      /\ DOMAIN Append(log, e) = 1 .. Len(log) + 1
      /\ \A i \in 1 .. Len(log) : Append(log, e)[i] = log[i]
      /\ Append(log, e)[Len(log) + 1] = e
  BY <1>1
<1>3. CASE type \in RecordedTypes
  <2>1. Logged(log, type, u, detail) = Append(log, e)
    BY <1>3 DEF Logged, e
  <2> QED BY <1>1, <1>2, <2>1 DEF Begins
<1>4. CASE type \notin RecordedTypes
  <2>1. Logged(log, type, u, detail) = log
    BY <1>4 DEF Logged
  <2> QED BY <1>2, <1>4, <2>1 DEF Begins
<1> QED BY <1>3, <1>4

\* What one class's log may become in an operation: the new records are about something
\* that happens in a class that exists.
GrowsQuietly(d) ==
    /\ events'[d] \in Seq(EventRecord) /\ Begins(events[d], events'[d])
    /\ \A i \in Len(events[d]) + 1 .. Len(events'[d]) :
          events'[d][i].type # "CLASS_CREATED"
    /\ events'[d] # events[d] => status[d] # "NONE"

LEMMA SameGrows ==
  ASSUME TypeOK, NEW d \in ClassIds, events'[d] = events[d]
  PROVE  GrowsQuietly(d)
BY BeginsOrder DEF GrowsQuietly, TypeOK

LEMMA AddEventGrows ==
  ASSUME TypeOK, NEW c \in ClassIds, NEW d \in ClassIds, status[c] # "NONE",
         NEW type \in EventTypes \ {"CLASS_CREATED"}, NEW u \in Accounts,
         NEW detail \in Nat, AddEvent(c, type, u, detail)
  PROVE  GrowsQuietly(d)
<1>1. clock' \in Nat /\ events \in [ClassIds -> Seq(EventRecord)]
  BY DEF AddEvent, Writes, TypeOK
<1>2. CASE d = c
  <2>1. events'[d] = Logged(events[d], type, u, detail)
    BY <1>1, <1>2 DEF AddEvent, Writes
  <2> QED BY <1>1, <1>2, <2>1, LoggedBegins DEF GrowsQuietly
<1>3. CASE d # c
  BY <1>1, <1>3, AddEventFrame, SameGrows
<1> QED BY <1>2, <1>3

\* Every operation but createClass.
LEMMA OperationGrows ==
  ASSUME Inv, Operation, NEW d \in ClassIds
  PROVE  GrowsQuietly(d)
<1>0. TypeOK /\ OnlyActiveClassesRun
      /\ events \in [ClassIds -> Seq(EventRecord)]
      /\ members \in [ClassIds -> SUBSET Students]
  BY DEF Inv, TypeOK
<1> USE DEF Accounts
<1>1. ASSUME NEW c \in ClassIds, NEW t \in Teachers, TeacherStep(c, t)
      PROVE  GrowsQuietly(d)
  <2>0. status[c] # "NONE"
    BY <1>1 DEF TeacherStep, StartClass, EndClass, OpenCheckin, RandomCall, RunBy, OwnedBy,
       StartScreenShare, StopScreenShare, StartAudio, StopAudio, GrantMic, RevokeMic
  <2>1. CASE StartClass(c, t)
    BY <1>0, <2>0, <2>1, AddEventGrows DEF StartClass, EventTypes
  <2>2. CASE EndClass(c, t)
    BY <1>0, <2>0, <2>2, AddEventGrows DEF EndClass, EventTypes
  <2>3. ASSUME NEW seconds \in DeadlineRequests, OpenCheckin(c, t, seconds)
        PROVE  GrowsQuietly(d)
    BY <1>0, <2>0, <2>3, AddEventGrows, NumbersAssumption DEF OpenCheckin, EventTypes
  <2>4. ASSUME NEW u \in Students, RandomCall(c, t, u) PROVE GrowsQuietly(d)
    BY <1>0, <2>0, <2>4, AddEventGrows DEF RandomCall, EventTypes
  <2>5. CASE StartScreenShare(c, t) \/ StopScreenShare(c, t)
    BY <1>0, <2>0, <2>5, AddEventGrows DEF StartScreenShare, StopScreenShare, EventTypes
  <2>6. CASE StartAudio(c, t) \/ StopAudio(c, t)
    BY <1>0, <2>0, <2>6, AddEventGrows DEF StartAudio, StopAudio, EventTypes
  <2>7. CASE RevokeMic(c, t)
    <3>1. micHolder[c] \in Students
      BY <1>0, <2>7 DEF RevokeMic, TypeOK
    <3> QED BY <1>0, <2>0, <2>7, <3>1, AddEventGrows DEF RevokeMic, EventTypes
  <2>8. ASSUME NEW u \in Students, GrantMic(c, t, u) PROVE GrowsQuietly(d)
    <3> DEFINE taken == TakenFromHolder(c, u)
               log == Logged(taken, "MIC_GRANTED", u, 0)
    <3>1. events' = [events EXCEPT ![c] = log] /\ clock' \in Nat
      BY <1>0, <2>8 DEF GrantMic, Writes, TypeOK
    <3>2. /\ taken \in Seq(EventRecord) /\ Begins(events[c], taken)
          /\ \A i \in Len(events[c]) + 1 .. Len(taken) : taken[i].type = "MIC_REVOKED"
      <4>1. CASE micHolder[c] \in {NoUser, u}
        BY <1>0, <4>1, BeginsOrder DEF TakenFromHolder
      <4>2. CASE micHolder[c] \notin {NoUser, u}
        <5>1. taken = Logged(events[c], "MIC_REVOKED", micHolder[c], 0)
          BY <4>2 DEF TakenFromHolder
        <5>2. micHolder[c] \in Accounts
          BY <1>0, <4>2 DEF TypeOK
        <5> QED BY <1>0, <3>1, <5>1, <5>2, LoggedBegins DEF EventTypes
      <4> QED BY <4>1, <4>2
    <3> HIDE DEF taken
    <3>3. /\ log \in Seq(EventRecord) /\ Begins(taken, log)
          /\ \A i \in Len(taken) + 1 .. Len(log) : log[i].type = "MIC_GRANTED"
      <4>1. u \in Accounts /\ "MIC_GRANTED" \in EventTypes /\ 0 \in Nat
        BY DEF EventTypes
      <4> QED BY <3>1, <3>2, <4>1, LoggedBegins
    <3> HIDE DEF log
    <3>4. Begins(events[c], log)
      BY <1>0, <3>2, <3>3, BeginsOrder
    <3>5. \A i \in Len(events[c]) + 1 .. Len(log) : log[i].type # "CLASS_CREATED"
      <4> SUFFICES ASSUME NEW i \in Len(events[c]) + 1 .. Len(log)
                   PROVE  log[i].type # "CLASS_CREATED"
        OBVIOUS
      <4>1. Len(events[c]) \in Nat /\ Len(taken) \in Nat /\ Len(log) \in Nat
        BY <1>0, <3>2, <3>3
      <4>2. CASE i \in Len(events[c]) + 1 .. Len(taken)
        <5>1. log[i] = taken[i]
          BY <3>3, <4>1, <4>2 DEF Begins
        <5> QED BY <3>2, <4>2, <5>1
      <4>3. CASE i \in Len(taken) + 1 .. Len(log)
        BY <3>3, <4>3
      <4> QED BY <4>1, <4>2, <4>3
    <3>6. CASE d = c
      BY <1>0, <2>0, <3>1, <3>3, <3>4, <3>5, <3>6 DEF GrowsQuietly
    <3>7. CASE d # c
      BY <1>0, <3>1, <3>7, SameGrows
    <3> QED BY <3>6, <3>7
  <2> QED BY <1>1, <2>1, <2>2, <2>3, <2>4, <2>5, <2>6, <2>7, <2>8 DEF TeacherStep
<1>2. ASSUME NEW c \in ClassIds, NEW u \in Students, StudentStep(c, u)
      PROVE  GrowsQuietly(d)
  <2>0. status[c] # "NONE"
    BY <1>0, <1>2 DEF StudentStep, JoinClass, LeaveClass, Checkin, MayCheckIn,
                      OnlyActiveClassesRun
  <2> QED BY <1>0, <1>2, <2>0, AddEventGrows
          DEF StudentStep, JoinClass, LeaveClass, Checkin, EventTypes
<1>3. ASSUME NEW u \in Students, RemoveFromAll(u) PROVE GrowsQuietly(d)
  <2>1. /\ clock' \in Nat
        /\ events'[d] = IF u \in members[d] THEN Logged(events[d], "STUDENT_LEFT", u, 0)
                                            ELSE events[d]
    BY <1>0, <1>3 DEF RemoveFromAll, Writes, TypeOK
  <2>2. CASE u \in members[d]
    <3>1. status[d] # "NONE"
      BY <1>0, <2>2 DEF OnlyActiveClassesRun
    <3> QED BY <1>0, <2>1, <2>2, <3>1, LoggedBegins DEF GrowsQuietly, EventTypes
  <2>3. CASE u \notin members[d]
    BY <1>0, <2>1, <2>3, SameGrows
  <2> QED BY <2>2, <2>3
<1> QED BY <1>1, <1>2, <1>3 DEF Operation

\* createClass: the records of the new id are creations, as are those it may have had.
LEMMA CreationGrows ==
  ASSUME Inv, NEW t \in Teachers, CreateClass(t), NEW d \in ClassIds
  PROVE  /\ events'[d] \in Seq(EventRecord) /\ Begins(events[d], events'[d])
         /\ \A i \in Len(events[d]) + 1 .. Len(events'[d]) :
               events'[d][i].type = "CLASS_CREATED"
         /\ d # nextClassId => events'[d] = events[d]
<1>1. clock' \in Nat /\ events \in [ClassIds -> Seq(EventRecord)] /\ nextClassId \in ClassIds
  BY DEF CreateClass, AddEvent, Writes, Inv, TypeOK
<1>2. CASE d = nextClassId
  <2>1. events'[d] = Logged(events[d], "CLASS_CREATED", t, 0)
    BY <1>1, <1>2 DEF CreateClass, AddEvent, Writes
  <2>2. t \in Accounts /\ "CLASS_CREATED" \in EventTypes /\ 0 \in Nat
    BY DEF EventTypes, Accounts
  <2> QED BY <1>1, <1>2, <2>1, <2>2, LoggedBegins
<1>3. CASE d # nextClassId
  <2>1. events'[d] = events[d] /\ Len(events[d]) \in Nat
    BY <1>1, <1>3, AddEventFrame DEF CreateClass
  <2> QED BY <1>1, <1>3, <2>1, BeginsOrder
<1> QED BY <1>2, <1>3

-----------------------------------------------------------------------------
(* What an operation does to the classes and to their history. *)

Operating == Operation \/ \E t \in Teachers : CreateClass(t)

LEMMA OperatingIsNext == Operating => Next
BY DEF Operating, Operation, Next

LEMMA RecordAdded ==
  ASSUME TypeOK, NEW c \in ClassIds, NEW t \in Teachers,
         NEW s \in {"WAITING", "ACTIVE", "ENDED"},
         AddEvent(c, RecordOf[s], t, 0), LifeRecords \subseteq RecordedTypes
  PROVE  HasRecordOf(s, events'[c])
<1>1. /\ clock' \in Nat /\ events[c] \in Seq(EventRecord)
      /\ events'[c] = Logged(events[c], RecordOf[s], t, 0)
  BY DEF AddEvent, Writes, TypeOK
<1>2. RecordOf[s] \in EventTypes /\ RecordOf[s] \in RecordedTypes /\ t \in Accounts
  BY DEF RecordOf, EventTypes, LifeRecords, Accounts
<1> QED BY <1>1, <1>2, LoggedBegins DEF HasRecordOf

\* An operation moves one class one step on, or none, and records the step.
LEMMA MovesOneClass ==
  ASSUME Inv, Operating
  PROVE  \/ UNCHANGED <<status, owner>>
         \/ \E c \in ClassIds :
               /\ status'[c] \in {"WAITING", "ACTIVE", "ENDED"}
               /\ StepBack[status'[c]] = status[c]
               /\ owner[c] = IF status'[c] = "WAITING" THEN NoUser ELSE owner'[c]
               /\ \A d \in ClassIds \ {c} :
                     status'[d] = status[d] /\ owner'[d] = owner[d]
               /\ LifeRecords \subseteq RecordedTypes =>
                     HasRecordOf(status'[c], events'[c])
<1>0. TypeOK /\ IdsAreFresh
      /\ status \in [ClassIds -> {"NONE", "WAITING", "ACTIVE", "ENDED"}]
      /\ owner \in [ClassIds -> Teachers \cup {NoUser}]
  BY DEF Inv, TypeOK
<1>1. ASSUME NEW t \in Teachers, CreateClass(t)
      PROVE  \E c \in ClassIds :
               /\ status'[c] = "WAITING" /\ status[c] = "NONE" /\ owner[c] = NoUser
               /\ \A d \in ClassIds \ {c} :
                     status'[d] = status[d] /\ owner'[d] = owner[d]
               /\ LifeRecords \subseteq RecordedTypes =>
                     HasRecordOf(status'[c], events'[c])
  <2>1. /\ nextClassId \in ClassIds
        /\ status'[nextClassId] = "WAITING"
        /\ \A d \in ClassIds \ {nextClassId} :
              status'[d] = status[d] /\ owner'[d] = owner[d]
    BY <1>0, <1>1 DEF CreateClass
  <2>2. status[nextClassId] = "NONE" /\ owner[nextClassId] = NoUser
    BY <1>0, <2>1 DEF IdsAreFresh, ClassIds
  <2>3. AddEvent(nextClassId, RecordOf["WAITING"], t, 0)
    BY <1>1 DEF CreateClass, RecordOf
  <2> QED BY <1>0, <2>1, <2>2, <2>3, RecordAdded
<1>2. ASSUME NEW c \in ClassIds, NEW t \in Teachers, StartClass(c, t) \/ EndClass(c, t)
      PROVE  /\ \/ status[c] = "WAITING" /\ status'[c] = "ACTIVE"
                \/ status[c] = "ACTIVE" /\ status'[c] = "ENDED"
             /\ owner' = owner
             /\ \A d \in ClassIds \ {c} : status'[d] = status[d]
             /\ LifeRecords \subseteq RecordedTypes =>
                   HasRecordOf(status'[c], events'[c])
  <2>1. CASE StartClass(c, t)
    <3>1. /\ status[c] = "WAITING" /\ status'[c] = "ACTIVE" /\ owner' = owner
          /\ \A d \in ClassIds \ {c} : status'[d] = status[d]
      BY <1>0, <2>1 DEF StartClass
    <3>2. AddEvent(c, RecordOf["ACTIVE"], t, 0)
      BY <2>1 DEF StartClass, RecordOf
    <3> QED BY <1>0, <3>1, <3>2, RecordAdded
  <2>2. CASE EndClass(c, t)
    <3>1. /\ status[c] = "ACTIVE" /\ status'[c] = "ENDED" /\ owner' = owner
          /\ \A d \in ClassIds \ {c} : status'[d] = status[d]
      BY <1>0, <2>2 DEF EndClass, RunBy
    <3>2. AddEvent(c, RecordOf["ENDED"], t, 0)
      BY <2>2 DEF EndClass, RecordOf
    <3> QED BY <1>0, <3>1, <3>2, RecordAdded
  <2> QED BY <1>2, <2>1, <2>2
<1>3. Restart \/ UNCHANGED lifeVars => UNCHANGED <<status, owner>>
  BY DEF Restart, lifeVars
<1> QED BY <1>1, <1>2, <1>3, LifeSteps, OperatingIsNext DEF StepBack

LEMMA OperatingBegins ==
  ASSUME Inv, Operating, NEW d \in ClassIds
  PROVE  events'[d] \in Seq(EventRecord) /\ Begins(events[d], events'[d])
BY OperationGrows, CreationGrows DEF Operating, GrowsQuietly

LEMMA RecordStays ==
  ASSUME NEW old \in Seq(EventRecord), NEW new \in Seq(EventRecord),
         Begins(old, new), NEW s, HasRecordOf(s, old)
  PROVE  HasRecordOf(s, new)
BY DEF HasRecordOf, Begins

\* Creations are all an unused id gets, and a class that exists gets none.
LEMMA HistoryGrows ==
  ASSUME Inv, Operating, NEW d \in ClassIds
  PROVE  /\ status[d] = "NONE" /\ OnlyCreations(events[d]) => OnlyCreations(events'[d])
         /\ status[d] # "NONE" =>
               \A i \in Len(events[d]) + 1 .. Len(events'[d]) :
                  events'[d][i].type # "CLASS_CREATED"
<1>0. /\ events[d] \in Seq(EventRecord) /\ events'[d] \in Seq(EventRecord)
      /\ Begins(events[d], events'[d])
      /\ Len(events[d]) \in Nat /\ Len(events'[d]) \in Nat
      /\ DOMAIN events[d] = 1 .. Len(events[d]) /\ DOMAIN events'[d] = 1 .. Len(events'[d])
  BY OperatingBegins DEF Inv, TypeOK
<1>1. CASE Operation
  BY <1>1, OperationGrows DEF GrowsQuietly
<1>2. ASSUME NEW t \in Teachers, CreateClass(t)
      PROVE  /\ status[d] = "NONE" /\ OnlyCreations(events[d]) => OnlyCreations(events'[d])
             /\ status[d] # "NONE" => events'[d] = events[d]
  <2>1. /\ \A i \in Len(events[d]) + 1 .. Len(events'[d]) :
               events'[d][i].type = "CLASS_CREATED"
        /\ d # nextClassId => events'[d] = events[d]
    BY <1>2, CreationGrows
  <2>2. status[d] # "NONE" => d # nextClassId
    BY <1>2 DEF Inv, IdsAreFresh, CreateClass, ClassIds
  <2>3. ASSUME OnlyCreations(events[d]), NEW i \in DOMAIN events'[d]
        PROVE  events'[d][i].type = "CLASS_CREATED"
    <3>1. CASE i <= Len(events[d])
      BY <1>0, <2>3, <3>1 DEF Begins, OnlyCreations
    <3>2. CASE i > Len(events[d])
      BY <1>0, <2>1, <2>3, <3>2
    <3> QED BY <1>0, <2>3, <3>1, <3>2
  <2> QED BY <2>1, <2>2, <2>3 DEF OnlyCreations
<1> QED BY <1>0, <1>1, <1>2 DEF Operating

-----------------------------------------------------------------------------
(* The steps of the store. *)

LEMMA InvStep == Inv /\ [Next]_cmVars => Inv'
BY TypeStep, RunStep, FreshStep DEF Inv

LEMMA InMemoryType == TypeOK => InMemory \in [ClassIds -> ClassInfo]
BY DEF TypeOK, InMemory, Info, ClassInfo

LEMMA StoreInitHolds == StoreInit => StoreInv
<1> SUFFICES ASSUME StoreInit PROVE StoreInv
  OBVIOUS
<1>1. Init /\ TypeOK
  BY InitType DEF StoreInit
<1>2. Inv
  <2>1. OnlyActiveClassesRun /\ MicNeedsAudio
    BY <1>1 DEF Init, NoCheckin, OnlyActiveClassesRun, MicNeedsAudio
  <2>2. IdsAreFresh
    BY <1>1 DEF Init, IdsAreFresh, ClassIds
  <2> QED BY <1>1, <2>1, <2>2 DEF Inv
<1>3. FilesOK
  BY <1>1, InMemoryType DEF StoreInit, TypeOK, FilesOK
<1>4. /\ classesFile = InMemory /\ eventsFile = events /\ saving = "nothing"
      /\ \A c \in ClassIds : /\ classesFile[c].status = "NONE" /\ status[c] = "NONE"
                             /\ classesFile[c].owner = NoUser
                             /\ events[c] = <<>> /\ DOMAIN events[c] = {}
                             /\ Len(events[c]) = 0
  BY <1>1 DEF StoreInit, Init, InMemory, Info
<1>5. ClassesFileInv
  BY <1>4 DEF ClassesFileInv, FileIdsAreFresh
<1>6. EventsFileInv
  BY <1>4 DEF EventsFileInv, Begins
<1>7. RecordsInv
  BY <1>1, <1>4, TornAssumption DEF RecordsInv, HasRecordOf, TypeOK
<1>8. HistoryInv /\ ReusedIdHasNoHistory
  BY <1>4 DEF HistoryInv, ReusedIdHasNoHistory, OnlyCreations
<1> QED BY <1>2, <1>3, <1>5, <1>6, <1>7, <1>8 DEF StoreInv

LEMMA OperatesStep == StoreInv /\ Operates => StoreInv'
<1> SUFFICES ASSUME StoreInv, Operates PROVE StoreInv'
  OBVIOUS
<1>0. /\ Inv /\ TypeOK /\ Operating /\ saving = "nothing"
      /\ saving' = IF status' # status THEN "both" ELSE "events"
      /\ UNCHANGED <<eventsFile, classesFile, torn>>
      /\ events \in [ClassIds -> Seq(EventRecord)]
  BY DEF StoreInv, Inv, TypeOK, Operates, Operating, fileVars
<1>1. Inv' /\ TypeOK'
  BY <1>0, InvStep, OperatingIsNext DEF Inv
<1>2. FilesOK'
  BY <1>0 DEF StoreInv, FilesOK
<1>3. classesFile \in {InMemory, Torn}
  BY <1>0 DEF StoreInv, ClassesFileInv
<1>4. \/ UNCHANGED <<status, owner>>
      \/ \E c \in ClassIds :
            /\ status'[c] \in {"WAITING", "ACTIVE", "ENDED"}
            /\ StepBack[status'[c]] = status[c]
            /\ owner[c] = IF status'[c] = "WAITING" THEN NoUser ELSE owner'[c]
            /\ \A d \in ClassIds \ {c} :
                  status'[d] = status[d] /\ owner'[d] = owner[d]
            /\ LifeRecords \subseteq RecordedTypes => HasRecordOf(status'[c], events'[c])
  BY <1>0, MovesOneClass
<1>5. ClassesFileInv'
  <2>1. FileIdsAreFresh'
    BY <1>0 DEF StoreInv, ClassesFileInv, FileIdsAreFresh
  <2>2. CASE UNCHANGED <<status, owner>>
    <3>1. InMemory' = InMemory
      BY <2>2 DEF InMemory, Info
    <3> QED BY <1>0, <1>3, <2>1, <3>1 DEF ClassesFileInv
  <2>3. ASSUME NEW c \in ClassIds,
               status'[c] \in {"WAITING", "ACTIVE", "ENDED"},
               StepBack[status'[c]] = status[c],
               owner[c] = IF status'[c] = "WAITING" THEN NoUser ELSE owner'[c],
               \A d \in ClassIds \ {c} : status'[d] = status[d] /\ owner'[d] = owner[d]
        PROVE  ClassesFileInv'
    <3>1. status' # status /\ saving' = "both"
      BY <1>0, <2>3 DEF StepBack
    <3>2. Before(c)' = Info(c)
      BY <2>3 DEF Before, Info
    <3>3. \A d \in ClassIds \ {c} : Info(d)' = Info(d)
      BY <2>3 DEF Info
    <3>4. [InMemory' EXCEPT ![c] = Before(c)'] = InMemory
      BY <3>2, <3>3 DEF InMemory
    <3> QED BY <1>0, <1>3, <2>1, <3>1, <3>4 DEF ClassesFileInv
  <2> QED BY <1>4, <2>2, <2>3
<1>6. \A c \in ClassIds : /\ events'[c] \in Seq(EventRecord)
                          /\ Begins(events[c], events'[c])
  BY <1>0, OperatingBegins
<1>7. EventsFileInv'
  <2>1. saving' \notin {"nothing", "classes"}
    BY <1>0
  <2>2. ASSUME eventsFile # Torn, NEW c \in ClassIds
        PROVE  Begins(eventsFile[c], events'[c])
    <3>1. eventsFile[c] \in Seq(EventRecord) /\ Begins(eventsFile[c], events[c])
      BY <2>2 DEF StoreInv, FilesOK, EventsFileInv
    <3> QED BY <1>0, <1>6, <3>1, BeginsOrder
  <2> QED BY <1>0, <2>1, <2>2 DEF EventsFileInv
<1>8. RecordsInv'
  <2> SUFFICES ASSUME LifeRecords \subseteq RecordedTypes, "events" \notin torn
               PROVE  \A c \in ClassIds : HasRecordOf(status'[c], events'[c])
    BY <1>0 DEF StoreInv, RecordsInv
  <2>1. \A c \in ClassIds : HasRecordOf(status[c], events'[c])
    BY <1>0, <1>6, RecordStays DEF StoreInv, RecordsInv
  <2> QED BY <1>4, <2>1
<1>9. HistoryInv'
  <2> SUFFICES ASSUME "classes" \notin torn, NEW c \in ClassIds
               PROVE  /\ status'[c] = "NONE" => OnlyCreations(events'[c])
                      /\ classesFile # Torn /\ classesFile[c].status = "NONE" =>
                            OnlyCreations(events'[c])
    BY <1>0 DEF HistoryInv
  <2>1. status'[c] = "NONE" => status[c] = "NONE"
    BY <1>4
  <2>2. classesFile # Torn => classesFile[c].status = status[c]
    BY <1>3 DEF InMemory, Info
  <2>3. status[c] = "NONE" => OnlyCreations(events[c])
    BY DEF StoreInv, HistoryInv
  <2> QED BY <1>0, <2>1, <2>2, <2>3, HistoryGrows
<1>10. ReusedIdHasNoHistory'
  <2> SUFFICES ASSUME "classes" \notin torn, NEW c \in ClassIds,
                      NEW i \in DOMAIN events'[c], NEW j \in DOMAIN events'[c],
                      i < j, events'[c][j].type = "CLASS_CREATED"
               PROVE  events'[c][i].type = "CLASS_CREATED"
    BY <1>0 DEF ReusedIdHasNoHistory
  <2>1. CASE status[c] = "NONE"
    BY <1>0, <2>1, HistoryGrows DEF StoreInv, HistoryInv, OnlyCreations
  <2>2. CASE status[c] # "NONE"
    <3>1. /\ Len(events[c]) \in Nat /\ Len(events'[c]) \in Nat
          /\ DOMAIN events[c] = 1 .. Len(events[c])
          /\ DOMAIN events'[c] = 1 .. Len(events'[c])
      BY <1>0, <1>6
    <3>2. j \notin Len(events[c]) + 1 .. Len(events'[c])
      BY <1>0, <2>2, HistoryGrows
    <3>3. i \in DOMAIN events[c] /\ j \in DOMAIN events[c]
      BY <3>1, <3>2
    <3>4. events'[c][i] = events[c][i] /\ events'[c][j] = events[c][j]
      BY <1>6, <3>1, <3>3 DEF Begins
    <3> QED BY <3>3, <3>4 DEF StoreInv, ReusedIdHasNoHistory
  <2> QED BY <2>1, <2>2
<1> QED BY <1>1, <1>2, <1>5, <1>7, <1>8, <1>9, <1>10 DEF StoreInv

\* What a step that leaves the memory alone has to show.
LEMMA MemoryUnchanged ==
  ASSUME StoreInv, UNCHANGED cmVars
  PROVE  /\ Inv' /\ UNCHANGED <<events, status, owner, restarts>>
         /\ InMemory' = InMemory
         /\ UNCHANGED torn => ReusedIdHasNoHistory'
<1>1. UNCHANGED <<events, status, owner, restarts>>
  BY DEF cmVars, lifeVars, logVars
<1>2. InMemory' = InMemory
  BY <1>1 DEF InMemory, Info
<1>3. UNCHANGED torn => ReusedIdHasNoHistory'
  BY <1>1 DEF StoreInv, ReusedIdHasNoHistory
<1> QED BY <1>1, <1>2, <1>3, InvStep DEF StoreInv

LEMMA SavesEventsStep == StoreInv /\ SavesEvents => StoreInv'
<1> SUFFICES ASSUME StoreInv, SavesEvents PROVE StoreInv'
  OBVIOUS
<1>0. /\ saving \in {"events", "both"}
      /\ eventsFile' = events /\ saving' = IF saving = "both" THEN "classes" ELSE "nothing"
      /\ UNCHANGED <<classesFile, torn, events, status, owner>>
      /\ InMemory' = InMemory /\ Inv' /\ ReusedIdHasNoHistory'
      /\ events \in [ClassIds -> Seq(EventRecord)]
  BY MemoryUnchanged DEF SavesEvents, StoreInv, Inv, TypeOK
<1>1. FilesOK'
  BY <1>0 DEF StoreInv, FilesOK
<1>2. ClassesFileInv'
  <2>1. FileIdsAreFresh'
    BY <1>0 DEF StoreInv, ClassesFileInv, FileIdsAreFresh
  <2>2. \A c \in ClassIds : Before(c)' = Before(c)
    BY <1>0 DEF Before
  <2> QED BY <1>0, <2>1, <2>2 DEF StoreInv, ClassesFileInv
<1>3. EventsFileInv'
  BY <1>0, BeginsOrder DEF EventsFileInv
<1>4. RecordsInv'
  <2> SUFFICES ASSUME LifeRecords \subseteq RecordedTypes, "events" \notin torn
               PROVE  /\ events # Torn
                      /\ classesFile # Torn => \A c \in ClassIds :
                            HasRecordOf(classesFile[c].status, events[c])
    BY <1>0 DEF StoreInv, RecordsInv
  <2>1. events # Torn
    BY <1>0, TornAssumption
  <2>2. ASSUME classesFile # Torn, NEW c \in ClassIds
        PROVE  HasRecordOf(classesFile[c].status, events[c])
    <3>1. /\ eventsFile # Torn /\ HasRecordOf(classesFile[c].status, eventsFile[c])
      BY <2>2 DEF StoreInv, RecordsInv
    <3>2. eventsFile[c] \in Seq(EventRecord) /\ Begins(eventsFile[c], events[c])
      BY <3>1 DEF StoreInv, FilesOK, EventsFileInv
    <3> QED BY <1>0, <3>1, <3>2, RecordStays
  <2> QED BY <2>1, <2>2
<1>5. HistoryInv'
  BY <1>0 DEF StoreInv, HistoryInv
<1> QED BY <1>0, <1>1, <1>2, <1>3, <1>4, <1>5 DEF StoreInv

LEMMA SavesClassesStep == StoreInv /\ SavesClasses => StoreInv'
<1> SUFFICES ASSUME StoreInv, SavesClasses PROVE StoreInv'
  OBVIOUS
<1>0. /\ saving = "classes" /\ saving' = "nothing" /\ classesFile' \in {InMemory, Torn}
      /\ UNCHANGED <<eventsFile, torn, events, status, owner>>
      /\ InMemory' = InMemory /\ Inv' /\ ReusedIdHasNoHistory'
      /\ TypeOK /\ IdsAreFresh /\ eventsFile \in {events, Torn}
  BY MemoryUnchanged DEF SavesClasses, Written, StoreInv, Inv, EventsFileInv
<1>1. \A c \in ClassIds : /\ InMemory[c].status = status[c]
                          /\ InMemory[c].owner = owner[c]
  BY DEF InMemory, Info
<1>2. FilesOK'
  BY <1>0, InMemoryType DEF StoreInv, FilesOK
<1>3. ClassesFileInv'
  <2>1. \A c, d \in ClassIds : c < d /\ status[d] # "NONE" => status[c] # "NONE"
    BY <1>0 DEF IdsAreFresh, TypeOK, ClassIds
  <2>2. FileIdsAreFresh'
    BY <1>0, <1>1, <2>1 DEF FileIdsAreFresh, IdsAreFresh
  <2> QED BY <1>0, <2>2 DEF ClassesFileInv
<1>4. EventsFileInv'
  BY <1>0 DEF StoreInv, EventsFileInv
<1>5. RecordsInv'
  BY <1>0, <1>1 DEF StoreInv, RecordsInv
<1>6. HistoryInv'
  BY <1>0, <1>1 DEF StoreInv, HistoryInv
<1> QED BY <1>0, <1>2, <1>3, <1>4, <1>5, <1>6 DEF StoreInv

-----------------------------------------------------------------------------
(* A death. *)

\* The files a death leaves: classes.json as it was or cut off, and a log between the one
\* in the file and the one in memory.
LEMMA FilesLeft ==
  ASSUME StoreInv, NEW files \in FilesAtDeath
  PROVE  /\ files = <<files[1], files[2]>>
         /\ files[2] \in {classesFile, Torn}
         /\ saving = "nothing" => files[2] = classesFile
         /\ saving \in {"nothing", "classes"} => files[1] = eventsFile
         /\ files[1] # Torn =>
               /\ files[1] \in [ClassIds -> Seq(EventRecord)]
               /\ \A c \in ClassIds : Begins(files[1][c], events[c])
               /\ eventsFile # Torn =>
                     \A c \in ClassIds : Begins(eventsFile[c], files[1][c])
<1>0. /\ events \in [ClassIds -> Seq(EventRecord)]
      /\ eventsFile \in [ClassIds -> Seq(EventRecord)] \cup {Torn}
      /\ eventsFile # Torn => \A c \in ClassIds : Begins(eventsFile[c], events[c])
      /\ saving \in {"nothing", "events", "classes", "both"}
  BY DEF StoreInv, Inv, TypeOK, FilesOK, EventsFileInv
<1>1. ASSUME NEW log \in PartlySaved
      PROVE  /\ log \in [ClassIds -> Seq(EventRecord)]
             /\ \A c \in ClassIds : Begins(log[c], events[c])
             /\ eventsFile # Torn => \A c \in ClassIds : Begins(eventsFile[c], log[c])
  <2> DEFINE inFile(c) == IF eventsFile = Torn THEN 0 ELSE Len(eventsFile[c])
  <2>1. PICK n \in [ClassIds -> 0 .. MaxEvents] :
          /\ \A c \in ClassIds : n[c] \in inFile(c) .. Len(events[c])
          /\ log = [c \in ClassIds |-> SubSeq(events[c], 1, n[c])]
    BY DEF PartlySaved
  <2>2. ASSUME NEW c \in ClassIds
        PROVE  /\ log[c] \in Seq(EventRecord) /\ Begins(log[c], events[c])
               /\ eventsFile # Torn => Begins(eventsFile[c], log[c])
    <3>1. /\ n[c] \in Nat /\ n[c] <= Len(events[c]) /\ events[c] \in Seq(EventRecord)
          /\ eventsFile # Torn => Len(eventsFile[c]) <= n[c]
                                  /\ eventsFile[c] \in Seq(EventRecord)
      BY <1>0, <2>1
    <3>2. /\ SubSeq(events[c], 1, n[c]) \in Seq(EventRecord)
          /\ Len(SubSeq(events[c], 1, n[c])) = n[c]
          /\ \A i \in 1 .. n[c] : SubSeq(events[c], 1, n[c])[i] = events[c][i]
      BY <3>1
    <3>3. log[c] = SubSeq(events[c], 1, n[c])
      BY <2>1
    <3>4. Begins(log[c], events[c])
      BY <3>1, <3>2, <3>3 DEF Begins
    <3>5. ASSUME eventsFile # Torn PROVE Begins(eventsFile[c], log[c])
      <4>1. Begins(eventsFile[c], events[c]) /\ Len(eventsFile[c]) \in Nat
        BY <1>0, <3>1, <3>5
      <4> QED BY <3>1, <3>2, <3>3, <3>5, <4>1 DEF Begins
    <3> QED BY <3>2, <3>3, <3>4, <3>5
  <2>3. log = [c \in ClassIds |-> log[c]]
    BY <2>1
  <2> QED BY <2>2, <2>3
<1>2. CASE saving \in {"events", "both"}
  <2>1. files \in {<<log, classesFile>> : log \in PartlySaved \cup {eventsFile, Torn}}
    BY <1>2 DEF FilesAtDeath
  <2>2. PICK log \in PartlySaved \cup {eventsFile, Torn} : files = <<log, classesFile>>
    BY <2>1
  <2>3. CASE log \in PartlySaved
    BY <1>1, <1>2, <2>2, <2>3
  <2>4. CASE log = eventsFile
    <3>1. eventsFile # Torn => \A c \in ClassIds : Begins(eventsFile[c], eventsFile[c])
      BY <1>0, BeginsOrder
    <3>2. /\ files = <<files[1], files[2]>>
          /\ files[1] = eventsFile /\ files[2] = classesFile
      BY <2>2, <2>4
    <3> QED BY <1>0, <1>2, <3>1, <3>2
  <2>5. CASE log = Torn
    BY <1>2, <2>2, <2>5
  <2> QED BY <2>3, <2>4, <2>5
<1>3. CASE saving \in {"nothing", "classes"}
  <2>1. \/ files = <<eventsFile, classesFile>>
        \/ files = <<eventsFile, Torn>> /\ saving = "classes"
    BY <1>3 DEF FilesAtDeath
  <2>2. /\ files = <<files[1], files[2]>>
        /\ files[1] = eventsFile /\ files[2] \in {classesFile, Torn}
        /\ saving = "nothing" => files[2] = classesFile
    <3>1. CASE files = <<eventsFile, classesFile>>
      BY <3>1
    <3>2. CASE files = <<eventsFile, Torn>> /\ saving = "classes"
      BY <3>2
    <3> QED BY <2>1, <3>1, <3>2
  <2>3. eventsFile # Torn => \A c \in ClassIds : Begins(eventsFile[c], eventsFile[c])
    BY <1>0, BeginsOrder
  <2> QED BY <1>0, <1>3, <2>2, <2>3
<1> QED BY <1>0, <1>2, <1>3

\* What the next start makes of the files it finds.
LEMMA DeathFacts ==
  ASSUME StoreInv, DiesAndRestarts
  PROVE  /\ eventsFile' \in [ClassIds -> Seq(EventRecord)] \cup {Torn}
         /\ classesFile' \in {classesFile, Torn}
         /\ saving = "nothing" => classesFile' = classesFile
         /\ saving \in {"nothing", "classes"} => eventsFile' = eventsFile
         /\ eventsFile' # Torn =>
               /\ events' = eventsFile'
               /\ \A c \in ClassIds : Begins(events'[c], events[c])
               /\ eventsFile # Torn =>
                     \A c \in ClassIds : Begins(eventsFile[c], events'[c])
         /\ eventsFile' = Torn => events' = NoEvents /\ "events" \in torn'
         /\ classesFile' # Torn => InMemory' = classesFile'
         /\ classesFile' = Torn => InMemory' = NoClassAtAll /\ "classes" \in torn'
         /\ torn \subseteq torn' /\ saving' = "nothing"
         /\ nextClassId' \in IdAfterLoad'
<1>1. PICK files \in FilesAtDeath :
        LET found == IF files[2] = Torn THEN NoClassAtAll ELSE files[2] IN
        /\ eventsFile' = files[1] /\ classesFile' = files[2]
        /\ events' = IF files[1] = Torn THEN NoEvents ELSE files[1]
        /\ status' = [c \in ClassIds |-> found[c].status]
        /\ owner' = [c \in ClassIds |-> found[c].owner]
        /\ nextClassId' \in IdAfterLoad'
        /\ torn' = torn \cup (IF files[1] = Torn THEN {"events"} ELSE {})
                       \cup (IF files[2] = Torn THEN {"classes"} ELSE {})
  BY DEF DiesAndRestarts
<1>2. classesFile \in [ClassIds -> ClassInfo] \cup {Torn}
  BY DEF StoreInv, FilesOK
<1>3. ASSUME NEW found \in [ClassIds -> ClassInfo],
             status' = [c \in ClassIds |-> found[c].status],
             owner' = [c \in ClassIds |-> found[c].owner]
      PROVE  InMemory' = found
  <2>1. \A c \in ClassIds : found[c] = [status |-> found[c].status, owner |-> found[c].owner]
    BY <1>3 DEF ClassInfo
  <2>2. InMemory' = [c \in ClassIds |-> [status |-> found[c].status, owner |-> found[c].owner]]
    BY <1>3 DEF InMemory, Info
  <2> QED BY <2>1, <2>2
<1>4. NoClassAtAll \in [ClassIds -> ClassInfo]
  BY DEF NoClassAtAll, ClassInfo
<1>5. saving' = "nothing"
  BY DEF DiesAndRestarts
<1>6. /\ files[2] \in {classesFile, Torn}
      /\ saving = "nothing" => files[2] = classesFile
      /\ saving \in {"nothing", "classes"} => files[1] = eventsFile
      /\ files[1] # Torn =>
            /\ files[1] \in [ClassIds -> Seq(EventRecord)]
            /\ \A c \in ClassIds : Begins(files[1][c], events[c])
            /\ eventsFile # Torn =>
                  \A c \in ClassIds : Begins(eventsFile[c], files[1][c])
  BY FilesLeft
<1>7. CASE files[2] = Torn
  <2>1. InMemory' = NoClassAtAll
    BY <1>1, <1>3, <1>4, <1>7
  <2> QED BY <1>1, <1>5, <1>6, <1>7, <2>1
<1>8. CASE files[2] # Torn
  <2>1. InMemory' = files[2]
    BY <1>1, <1>2, <1>3, <1>6, <1>8
  <2> QED BY <1>1, <1>5, <1>6, <1>8, <2>1
<1> QED BY <1>7, <1>8

LEMMA DeathStep == StoreInv /\ DiesAndRestarts => StoreInv'
<1> SUFFICES ASSUME StoreInv, DiesAndRestarts PROVE StoreInv'
  OBVIOUS
<1>0. /\ Inv /\ TypeOK /\ FilesOK /\ FileIdsAreFresh
      /\ events \in [ClassIds -> Seq(EventRecord)]
  BY DEF StoreInv, Inv, TypeOK, ClassesFileInv
<1>1. /\ eventsFile' \in [ClassIds -> Seq(EventRecord)] \cup {Torn}
      /\ classesFile' \in {classesFile, Torn}
      /\ eventsFile' # Torn =>
            /\ events' = eventsFile'
            /\ \A c \in ClassIds : Begins(events'[c], events[c])
            /\ eventsFile # Torn => \A c \in ClassIds : Begins(eventsFile[c], events'[c])
      /\ eventsFile' = Torn => events' = NoEvents /\ "events" \in torn'
      /\ classesFile' # Torn => InMemory' = classesFile'
      /\ classesFile' = Torn => InMemory' = NoClassAtAll /\ "classes" \in torn'
      /\ torn \subseteq torn' /\ saving' = "nothing"
      /\ nextClassId' \in IdAfterLoad'
  BY DeathFacts
<1>2. /\ \A c \in ClassIds : /\ InMemory'[c] = Info(c)'
                             /\ InMemory'[c].status = status'[c]
                             /\ InMemory'[c].owner = owner'[c]
  BY DEF InMemory, Info
<1>3. InMemory' \in [ClassIds -> ClassInfo]
  BY <1>0, <1>1 DEF FilesOK, NoClassAtAll, ClassInfo
<1>4. events' \in [ClassIds -> Seq(EventRecord)]
  <2>1. <<>> \in Seq(EventRecord)
    OBVIOUS
  <2>2. NoEvents \in [ClassIds -> Seq(EventRecord)]
    BY <2>1 DEF NoEvents
  <2> QED BY <1>1, <2>2
<1>5. TypeOK'
  <2>1. /\ members' = [c \in ClassIds |-> {}] /\ checkins' = [c \in ClassIds |-> NoCheckin]
        /\ screenSharing' = {} /\ audioActive' = {}
        /\ micHolder' = [c \in ClassIds |-> NoUser]
        /\ clock' = clock /\ restarts' = restarts + 1
    BY DEF DiesAndRestarts
  <2>2. nextClassId' \in Nat \ {0}
    BY <1>1, NumbersAssumption DEF IdAfterLoad
  <2>3. status' = [c \in ClassIds |-> status'[c]] /\ owner' = [c \in ClassIds |-> owner'[c]]
    BY DEF DiesAndRestarts
  <2>4. \A c \in ClassIds : /\ status'[c] \in {"NONE", "WAITING", "ACTIVE", "ENDED"}
                            /\ owner'[c] \in Teachers \cup {NoUser}
    BY <1>2, <1>3 DEF ClassInfo
  <2>5. /\ status' \in [ClassIds -> {"NONE", "WAITING", "ACTIVE", "ENDED"}]
        /\ owner' \in [ClassIds -> Teachers \cup {NoUser}]
    BY <2>3, <2>4
  <2> QED BY <1>0, <1>4, <2>1, <2>2, <2>5, NoCheckinType DEF TypeOK
<1>6. (OnlyActiveClassesRun /\ MicNeedsAudio)'
  BY DEF DiesAndRestarts, NoCheckin, OnlyActiveClassesRun, MicNeedsAudio
<1>7. /\ \A c \in ClassIds : (status'[c] = "NONE") <=> (owner'[c] = NoUser)
      /\ \A c, d \in ClassIds :
            c < d /\ status'[d] # "NONE" => status'[c] # "NONE"
  <2>1. CASE classesFile' # Torn
    BY <1>0, <1>1, <1>2, <2>1 DEF FileIdsAreFresh
  <2>2. CASE classesFile' = Torn
    <3>1. \A c \in ClassIds : status'[c] = "NONE" /\ owner'[c] = NoUser
      BY <1>1, <1>2, <2>2 DEF NoClassAtAll
    <3> QED BY <3>1
  <2> QED BY <2>1, <2>2
<1>8. IdsAreFresh'
  <2> SUFFICES ASSUME NEW c \in ClassIds
               PROVE  (status'[c] = "NONE") <=> (c >= nextClassId')
    BY <1>7 DEF IdsAreFresh
  <2> DEFINE n == nextClassId'
  <2>1. /\ n \in 1 .. MaxClasses + 1
        /\ status'[c] # "NONE" => c < n
        /\ n > 1 => status'[n - 1] # "NONE"
    BY <1>1 DEF IdAfterLoad
  <2> HIDE DEF n
  <2>2. n \in Int /\ c \in Int /\ c >= 1 /\ MaxClasses \in Nat
    BY <2>1, NumbersAssumption DEF ClassIds
  <2>3. ASSUME c < n PROVE status'[c] # "NONE"
    <3>1. n > 1 /\ n - 1 \in ClassIds
      BY <2>1, <2>2, <2>3 DEF ClassIds
    <3>2. CASE c = n - 1
      BY <2>1, <3>1, <3>2
    <3>3. CASE c # n - 1
      <4>1. c < n - 1
        BY <2>2, <2>3, <3>3
      <4> QED BY <1>7, <2>1, <3>1, <4>1
    <3> QED BY <3>2, <3>3
  <2>4. (status'[c] = "NONE") <=> (c >= n)
    BY <2>1, <2>2, <2>3
  <2> QED BY <2>4 DEF n
<1>9. Inv'
  BY <1>5, <1>6, <1>8 DEF Inv
<1>10. FilesOK'
  BY <1>0, <1>1 DEF FilesOK
<1>11. ClassesFileInv'
  <2>1. FileIdsAreFresh'
    BY <1>0, <1>1 DEF FileIdsAreFresh
  <2> QED BY <1>1, <2>1 DEF ClassesFileInv
<1>12. EventsFileInv'
  BY <1>1, <1>4, BeginsOrder DEF EventsFileInv
<1>13. RecordsInv'
  <2> SUFFICES ASSUME LifeRecords \subseteq RecordedTypes, "events" \notin torn'
               PROVE  /\ eventsFile' # Torn
                      /\ \A c \in ClassIds : HasRecordOf(status'[c], events'[c])
                      /\ classesFile' # Torn => \A c \in ClassIds :
                            HasRecordOf(classesFile'[c].status, eventsFile'[c])
    BY DEF RecordsInv
  <2>1. eventsFile' # Torn /\ events' = eventsFile' /\ eventsFile # Torn
    BY <1>1 DEF StoreInv, RecordsInv
  <2>2. ASSUME classesFile' # Torn, NEW c \in ClassIds
        PROVE  /\ HasRecordOf(classesFile'[c].status, events'[c])
               /\ status'[c] = classesFile'[c].status
    <3>1. HasRecordOf(classesFile[c].status, eventsFile[c])
      BY <1>1, <2>1, <2>2 DEF StoreInv, RecordsInv
    <3>2. eventsFile[c] \in Seq(EventRecord) /\ Begins(eventsFile[c], events'[c])
      BY <1>0, <1>1, <2>1 DEF FilesOK
    <3>3. HasRecordOf(classesFile[c].status, events'[c])
      BY <1>4, <3>1, <3>2, RecordStays
    <3> QED BY <1>1, <1>2, <2>2, <3>3
  <2>3. ASSUME classesFile' = Torn, NEW c \in ClassIds
        PROVE  status'[c] = "NONE"
    BY <1>1, <1>2, <2>3 DEF NoClassAtAll
  <2> QED BY <2>1, <2>2, <2>3 DEF HasRecordOf
<1>14. \A c \in ClassIds :
          /\ DOMAIN events'[c] \subseteq DOMAIN events[c]
          /\ \A i \in DOMAIN events'[c] : events'[c][i] = events[c][i]
  <2>1. CASE eventsFile' = Torn
    BY <1>1, <2>1 DEF NoEvents
  <2>2. CASE eventsFile' # Torn
    <3> SUFFICES ASSUME NEW c \in ClassIds
                 PROVE  /\ DOMAIN events'[c] \subseteq DOMAIN events[c]
                        /\ \A i \in DOMAIN events'[c] : events'[c][i] = events[c][i]
      OBVIOUS
    <3>1. Begins(events'[c], events[c]) /\ events'[c] \in Seq(EventRecord)
          /\ events[c] \in Seq(EventRecord)
      BY <1>0, <1>1, <1>4, <2>2
    <3> QED BY <3>1 DEF Begins
  <2> QED BY <2>1, <2>2
<1>15. HistoryInv'
  <2> SUFFICES ASSUME "classes" \notin torn', NEW c \in ClassIds
               PROVE  /\ status'[c] = "NONE" => OnlyCreations(events'[c])
                      /\ classesFile' # Torn /\ classesFile'[c].status = "NONE" =>
                            OnlyCreations(events'[c])
    BY DEF HistoryInv
  <2>1. /\ classesFile' # Torn /\ classesFile' = classesFile
        /\ status'[c] = classesFile[c].status
    BY <1>1, <1>2
  <2>2. classesFile[c].status = "NONE" => OnlyCreations(events[c])
    BY <1>1, <2>1 DEF StoreInv, HistoryInv
  <2> QED BY <1>14, <2>1, <2>2 DEF OnlyCreations
<1>16. ReusedIdHasNoHistory'
  BY <1>1, <1>14 DEF StoreInv, ReusedIdHasNoHistory
<1> QED BY <1>9, <1>10, <1>11, <1>12, <1>13, <1>15, <1>16 DEF StoreInv

LEMMA StoreStep == StoreInv /\ [StoreNext]_storeVars => StoreInv'
<1> SUFFICES ASSUME StoreInv, UNCHANGED storeVars PROVE StoreInv'
  BY OperatesStep, SavesEventsStep, SavesClassesStep, DeathStep DEF StoreNext
<1>1. /\ UNCHANGED <<events, status, owner, eventsFile, classesFile, saving, torn>>
      /\ Inv' /\ InMemory' = InMemory /\ ReusedIdHasNoHistory'
  BY MemoryUnchanged DEF storeVars, fileVars
<1>2. \A c \in ClassIds : Before(c)' = Before(c)
  BY <1>1 DEF Before
<1>3. FilesOK' /\ ClassesFileInv'
  BY <1>1, <1>2 DEF StoreInv, FilesOK, ClassesFileInv, FileIdsAreFresh
<1>4. EventsFileInv' /\ RecordsInv' /\ HistoryInv'
  BY <1>1 DEF StoreInv, EventsFileInv, RecordsInv, HistoryInv
<1> QED BY <1>1, <1>3, <1>4 DEF StoreInv

-----------------------------------------------------------------------------
(* The theorems. *)

\* The inductive invariant holds in every state, whenever the server dies.
THEOREM StoreInvariance == StoreSpec => []StoreInv
BY StoreInitHolds, StoreStep, PTL DEF StoreSpec

\* What holds between two operations of ClassManager holds of a server that dies in its
\* saves: an id is in use exactly when nextClassId_ has passed it.
THEOREM FreshIdsAfterDeaths == StoreSpec => []IdsAreFresh
<1>1. StoreInv => IdsAreFresh
  BY DEF StoreInv, Inv
<1> QED BY <1>1, StoreInvariance, PTL

\* The log in the file is never behind the classes in the file.
THEOREM LogNeverBehind == StoreSpec => []LogIsNotBehind
<1>1. StoreInv => LogIsNotBehind
  <2> SUFFICES ASSUME StoreInv, LifeRecords \subseteq RecordedTypes, NeverTorn,
                      NEW c \in ClassIds, classesFile[c].status # "NONE"
               PROVE  \E i \in DOMAIN eventsFile[c] :
                          eventsFile[c][i].type = RecordOf[classesFile[c].status]
    BY DEF LogIsNotBehind
  <2>1. "events" \notin torn /\ classesFile # Torn
    BY DEF NeverTorn
  <2> QED BY <2>1 DEF StoreInv, RecordsInv, HasRecordOf
<1> QED BY <1>1, StoreInvariance, PTL

\* A class never inherits more than creations from an id that was given out before.
THEOREM NoHistoryInherited == StoreSpec => []ReusedIdHasNoHistory
<1>1. StoreInv => ReusedIdHasNoHistory
  BY DEF StoreInv
<1> QED BY <1>1, StoreInvariance, PTL

\* The server's run time operations count no restart.
LEMMA NoRestartCounted ==
  ASSUME Operates \/ SavesEvents \/ SavesClasses \/ UNCHANGED storeVars
  PROVE  restarts' = restarts
<1>1. Operation => restarts' = restarts
  BY DEF Operation, TeacherStep, StudentStep, StartClass, EndClass, OpenCheckin, RandomCall,
         StartScreenShare, StopScreenShare, StartAudio, StopAudio, GrantMic, RevokeMic,
         JoinClass, LeaveClass, Checkin, RemoveFromAll, AddEvent, Writes
<1>2. ASSUME NEW t \in Teachers, CreateClass(t) PROVE restarts' = restarts
  BY <1>2 DEF CreateClass, AddEvent, Writes
<1> QED BY <1>1, <1>2 DEF Operates, SavesEvents, SavesClasses, storeVars, cmVars, logVars

LEMMA DeathUndoesOne ==
  ASSUME StoreInv, [StoreNext]_storeVars, restarts' # restarts, NeverTorn'
  PROVE  /\ \A c \in ClassIds :
               /\ status'[c] \in {status[c], StepBack[status[c]]}
               /\ IsPrefix(events'[c], events[c])
         /\ \A c, d \in ClassIds :
               status'[c] # status[c] /\ status'[d] # status[d] => c = d
         /\ saving = "nothing" => status' = status /\ events' = events
<1>1. DiesAndRestarts
  BY NoRestartCounted DEF StoreNext
<1>2. eventsFile' # Torn /\ classesFile' # Torn /\ "events" \notin torn'
  BY DEF NeverTorn
<1>3. /\ classesFile' = classesFile /\ InMemory' = classesFile
      /\ events' = eventsFile' /\ events' \in [ClassIds -> Seq(EventRecord)]
      /\ \A c \in ClassIds : Begins(events'[c], events[c])
      /\ saving \in {"nothing", "classes"} => eventsFile' = eventsFile
  BY <1>1, <1>2, DeathFacts
<1>4. events \in [ClassIds -> Seq(EventRecord)]
  BY DEF StoreInv, Inv, TypeOK
<1>5. \A c \in ClassIds : IsPrefix(events'[c], events[c])
  BY <1>3, <1>4, BeginsIsPrefix
<1>6. \A c \in ClassIds : /\ status'[c] = classesFile[c].status
                          /\ InMemory[c].status = status[c]
                          /\ Before(c).status = StepBack[status[c]]
  <2>1. \A c \in ClassIds : InMemory'[c].status = status'[c]
    BY DEF InMemory, Info
  <2> QED BY <1>3, <2>1 DEF InMemory, Info, Before
<1>7. \/ \A c \in ClassIds : status'[c] = status[c]
      \/ \E c \in ClassIds : /\ status'[c] = StepBack[status[c]]
                             /\ \A d \in ClassIds \ {c} : status'[d] = status[d]
  <2>1. CASE classesFile = InMemory
    BY <1>6, <2>1
  <2>2. ASSUME NEW c \in ClassIds, classesFile = [InMemory EXCEPT ![c] = Before(c)]
        PROVE  /\ status'[c] = StepBack[status[c]]
               /\ \A d \in ClassIds \ {c} : status'[d] = status[d]
    BY <1>6, <2>2 DEF InMemory
  <2> QED BY <1>2, <1>3, <2>1, <2>2 DEF StoreInv, ClassesFileInv
<1>8. ASSUME saving = "nothing" PROVE status' = status /\ events' = events
  <2>1. classesFile = InMemory /\ eventsFile \in {events, Torn}
    BY <1>2, <1>3, <1>8 DEF StoreInv, ClassesFileInv, EventsFileInv
  <2>2. \A c \in ClassIds : status'[c] = status[c]
    BY <1>6, <2>1
  <2>3. /\ status' = [c \in ClassIds |-> status'[c]]
        /\ status = [c \in ClassIds |-> status[c]]
    BY <1>1 DEF DiesAndRestarts, StoreInv, Inv, TypeOK
  <2> QED BY <1>2, <1>3, <1>8, <2>1, <2>2, <2>3
<1> QED BY <1>5, <1>7, <1>8

\* A death undoes the operation under way at most.
THEOREM DeathUndoesOneHolds == StoreSpec => DeathUndoesOneOperation
<1>1. StoreInv /\ [StoreNext]_storeVars =>
        [restarts' # restarts /\ NeverTorn' =>
          /\ \A c \in ClassIds :
                /\ status'[c] \in {status[c], StepBack[status[c]]}
                /\ IsPrefix(events'[c], events[c])
          /\ \A c, d \in ClassIds :
                status'[c] # status[c] /\ status'[d] # status[d] => c = d
          /\ saving = "nothing" => status' = status /\ events' = events]_storeVars
  BY DeathUndoesOne
<1> QED BY <1>1, StoreInvariance, PTL DEF StoreSpec, DeathUndoesOneOperation

LEMMA IdleDeath ==
  ASSUME StoreInv, [StoreNext]_storeVars, restarts' # restarts, saving = "nothing",
         Torn \notin {eventsFile, classesFile}
  PROVE  Restart
<1>1. DiesAndRestarts
  BY NoRestartCounted DEF StoreNext
<1>2. classesFile = InMemory /\ eventsFile = events
  BY DEF StoreInv, ClassesFileInv, EventsFileInv
<1>3. /\ classesFile' = classesFile /\ eventsFile' = eventsFile
      /\ events' = eventsFile' /\ InMemory' = InMemory
      /\ nextClassId' \in IdAfterLoad'
  BY <1>1, <1>2, DeathFacts
<1>4. status' = status /\ owner' = owner
  <2>1. \A c \in ClassIds : InMemory[c].status = status[c] /\ InMemory[c].owner = owner[c]
    BY DEF InMemory, Info
  <2>2. \A c \in ClassIds : InMemory'[c].status = status'[c] /\ InMemory'[c].owner = owner'[c]
    BY DEF InMemory, Info
  <2>3. /\ status' = [c \in ClassIds |-> status'[c]] /\ status = [c \in ClassIds |-> status[c]]
        /\ owner' = [c \in ClassIds |-> owner'[c]] /\ owner = [c \in ClassIds |-> owner[c]]
    BY <1>1 DEF DiesAndRestarts, StoreInv, Inv, TypeOK
  <2> QED BY <1>3, <2>1, <2>2, <2>3
<1>5. IdAfterLoad' = IdAfterLoad
  BY <1>4 DEF IdAfterLoad
<1> QED BY <1>1, <1>2, <1>3, <1>4, <1>5 DEF DiesAndRestarts, Restart

\* A death between two operations is the restart ClassManager specifies.
THEOREM IdleDeathRestarts == StoreSpec => IdleDeathIsRestart
<1>1. StoreInv /\ [StoreNext]_storeVars =>
        [restarts' # restarts /\ saving = "nothing"
          /\ Torn \notin {eventsFile, classesFile} => Restart]_storeVars
  BY IdleDeath
<1> QED BY <1>1, StoreInvariance, PTL DEF StoreSpec, IdleDeathIsRestart

=============================================================================
