------------------------------ MODULE ClassStore ------------------------------
(***************************************************************************)
(* The two files of ClassManager, and a server that may die while it        *)
(* writes them.                                                            *)
(*                                                                         *)
(* An operation changes the memory, addEvent saves events.json, and the     *)
(* operations on a class's life then save classes.json.  Each save opens    *)
(* the file, which empties it, and writes it whole, so a death in between   *)
(* leaves a file that the next start cannot parse and takes for nothing.    *)
(* clampStr may cut a class name inside a UTF-8 character: such a name is   *)
(* kept in memory, but every saveClasses from then on throws after the file *)
(* has been emptied.                                                       *)
(***************************************************************************)
EXTENDS ClassManager, SequencesExt

CONSTANTS
    Torn,           \* a file that is empty or cut off
    LongNames       \* may a name be cut inside a character

ASSUME StoreAssumption == LongNames \in BOOLEAN

VARIABLES
    eventsFile,     \* events.json
    classesFile,    \* classes.json: what ClassInfo keeps of each class
    saving,         \* what is to be saved: "nothing", "events", "classes" or "both"
    cut,            \* the classes whose name cannot be written
    torn            \* files the server has found torn at a start (history)

ClassInfo ==
    [status : {"NONE", "WAITING", "ACTIVE", "ENDED"}, owner : Teachers \cup {NoUser}]

\* What cannot be parsed is not a file that was written whole.
ASSUME TornAssumption ==
    /\ Torn \notin [ClassIds -> Seq(EventRecord)]
    /\ Torn \notin [ClassIds -> ClassInfo]

fileVars == <<eventsFile, classesFile>>
storeVars == <<cmVars, fileVars, saving, cut, torn>>

Info(c) == [status |-> status[c], owner |-> owner[c]]
InMemory == [c \in ClassIds |-> Info(c)]

NoClassAtAll == [c \in ClassIds |-> [status |-> "NONE", owner |-> NoUser]]
NoEvents == [c \in ClassIds |-> <<>>]

StoreInit ==
    /\ Init
    /\ eventsFile = events /\ classesFile = InMemory
    /\ saving = "nothing" /\ cut = {} /\ torn = {}

-----------------------------------------------------------------------------

\* The operations of ClassManager; each of them calls addEvent.
Operation ==
    \/ \E c \in ClassIds, t \in Teachers : TeacherStep(c, t)
    \/ \E c \in ClassIds, u \in Students : StudentStep(c, u)
    \/ \E u \in Students : RemoveFromAll(u) /\ \E c \in ClassIds : u \in members[c]

\* createClass, startClass and endClass save the classes too.
Operates ==
    /\ saving = "nothing"
    /\ \/ Operation /\ UNCHANGED cut
       \/ \E t \in Teachers : CreateClass(t) /\ UNCHANGED cut
       \/ LongNames /\ \E t \in Teachers : CreateClass(t) /\ cut' = cut \cup {nextClassId}
    /\ saving' = IF status' # status THEN "both" ELSE "events"
    /\ UNCHANGED <<fileVars, torn>>

Written == IF cut = {} THEN InMemory ELSE Torn

ClassesFirst ==  \* mutant: the classes are saved before the event
    \/ /\ saving = "both" /\ classesFile' = Written /\ saving' = "events"
       /\ UNCHANGED <<cmVars, eventsFile, cut, torn>>
    \/ /\ saving = "events" /\ eventsFile' = events /\ saving' = "nothing"
       /\ UNCHANGED <<cmVars, classesFile, cut, torn>>

ClassesNever ==  \* mutant: saveClasses is not called
    /\ saving \in {"events", "both"}
    /\ eventsFile' = events
    /\ saving' = "nothing"
    /\ UNCHANGED <<cmVars, classesFile, cut, torn>>

\* The saveEvents of every addEvent the operation calls.
SavesEvents ==
    /\ saving \in {"events", "both"}
    /\ eventsFile' = events
    /\ saving' = IF saving = "both" THEN "classes" ELSE "nothing"
    /\ UNCHANGED <<cmVars, classesFile, cut, torn>>

SavesClasses ==
    /\ saving = "classes"
    /\ classesFile' = Written
    /\ saving' = "nothing"
    /\ UNCHANGED <<cmVars, eventsFile, cut, torn>>

-----------------------------------------------------------------------------
(* Dying and starting again. *)

\* An operation that calls addEvent more than once saves its records one by one: what
\* may be in the file when some of them are.
PartlySaved ==
    LET inFile(c) == IF eventsFile = Torn THEN 0 ELSE Len(eventsFile[c])
        counts == {n \in [ClassIds -> 0 .. MaxEvents] :
                      \A c \in ClassIds : n[c] \in inFile(c) .. Len(events[c])}
    IN  {[c \in ClassIds |-> SubSeq(events[c], 1, n[c])] : n \in counts} \ {NoEvents}

FilesAtDeath ==
    CASE saving \in {"events", "both"} ->
            {<<log, classesFile>> : log \in PartlySaved \cup {eventsFile, Torn}}
      [] saving = "classes" -> {<<eventsFile, classesFile>>, <<eventsFile, Torn>>}
      [] OTHER -> {<<eventsFile, classesFile>>}

\* The process dies, in a save or between two operations, and starts again with the
\* files it finds.
DiesAndRestarts ==
    /\ restarts < MaxRestarts /\ restarts' = restarts + 1
    /\ \E files \in FilesAtDeath :
          LET found == IF files[2] = Torn THEN NoClassAtAll ELSE files[2] IN
          /\ eventsFile' = files[1] /\ classesFile' = files[2]
          /\ events' = IF files[1] = Torn THEN NoEvents ELSE files[1]
          /\ status' = [c \in ClassIds |-> found[c].status]
          /\ owner' = [c \in ClassIds |-> found[c].owner]
          /\ nextClassId' \in IdAfterLoad'
          /\ torn' = torn \cup (IF files[1] = Torn THEN {"events"} ELSE {})
                         \cup (IF files[2] = Torn THEN {"classes"} ELSE {})
    /\ members' = [c \in ClassIds |-> {}]
    /\ checkins' = [c \in ClassIds |-> NoCheckin]
    /\ screenSharing' = {} /\ audioActive' = {}
    /\ micHolder' = [c \in ClassIds |-> NoUser]
    /\ saving' = "nothing" /\ cut' = {}
    /\ UNCHANGED clock

StoreNext == Operates \/ SavesEvents \/ SavesClasses \/ DiesAndRestarts

StoreSpec == StoreInit /\ [][StoreNext]_storeVars

-----------------------------------------------------------------------------
(* Properties. *)

NeverTorn == torn = {} /\ Torn \notin {eventsFile, classesFile}

LifeRecords == {"CLASS_CREATED", "CLASS_STARTED", "CLASS_ENDED"}

RecordOf ==
    [WAITING |-> "CLASS_CREATED", ACTIVE |-> "CLASS_STARTED", ENDED |-> "CLASS_ENDED"]

\* The log is never behind the classes: whatever classes.json says has happened to a
\* class is in events.json, so a death between the two saves leaves a record too many and
\* never one too few.
LogIsNotBehind ==
    LifeRecords \subseteq RecordedTypes /\ NeverTorn => \A c \in ClassIds :
        classesFile[c].status # "NONE" =>
            \E i \in DOMAIN eventsFile[c] :
                eventsFile[c][i].type = RecordOf[classesFile[c].status]

\* A death between the two saves of createClass leaves the record of a class that is not
\* in classes.json, and its id is given out again.  Nothing but such records is
\* inherited: the statistics of a class never count what happened in another one, unless
\* classes.json was lost.
ReusedIdHasNoHistory ==
    "classes" \notin torn => \A c \in ClassIds : \A i, j \in DOMAIN events[c] :
        i < j /\ events[c][j].type = "CLASS_CREATED" =>
            events[c][i].type = "CLASS_CREATED"

StepBack ==
    [NONE |-> "NONE", WAITING |-> "NONE", ACTIVE |-> "WAITING", ENDED |-> "ACTIVE"]

\* A death undoes the operation under way at most: one class may be a step back, only if
\* it was being saved, and the log only loses records at its end.  Nothing is said once a
\* file was torn, by an earlier death or by a class name that cannot be written.
DeathUndoesOneOperation ==
    [][restarts' # restarts /\ NeverTorn' =>
          /\ \A c \in ClassIds :
                /\ status'[c] \in {status[c], StepBack[status[c]]}
                /\ IsPrefix(events'[c], events[c])
          /\ \A c, d \in ClassIds :
                status'[c] # status[c] /\ status'[d] # status[d] => c = d
          /\ saving = "nothing" => status' = status /\ events' = events]_storeVars

\* Between two operations a death is the Restart of ClassManager: what is in memory is in
\* the files, unless one of them is torn.
IdleDeathIsRestart ==
    [][restarts' # restarts /\ saving = "nothing"
          /\ Torn \notin {eventsFile, classesFile} => Restart]_storeVars

=============================================================================
