------------------------------ MODULE ClassReport ------------------------------
(***************************************************************************)
(* ClassManager with its statistics: what buildSummary makes of the log,   *)
(* against what really happened.  `attended' counts the seconds each       *)
(* student has really spent in a class; it belongs to the model, not to    *)
(* the program.                                                            *)
(***************************************************************************)
EXTENDS ClassManager

VARIABLE attended

reportVars == <<cmVars, attended>>

S == INSTANCE StatisticsExporter

ReportInit ==
    /\ Init
    /\ attended = [c \in ClassIds |-> [u \in Students |-> 0]]

\* The operations that reach the roster, the check-in or the clock.  Screen sharing,
\* audio, the microphone and the random call touch neither these nor a record the
\* summary reads, so they are left out of this composition.
RosterNext ==
    \/ \E t \in Teachers : CreateClass(t)
    \/ \E c \in ClassIds, t \in Teachers :
          \/ StartClass(c, t) \/ EndClass(c, t)
          \/ \E seconds \in DeadlineRequests : OpenCheckin(c, t, seconds)
    \/ \E c \in ClassIds, u \in Students : StudentStep(c, u)
    \/ \E u \in Students : RemoveFromAll(u)
    \/ Tick
    \/ Restart

\* Every second that passes is spent in the classes one is in when it starts.
ReportNext ==
    /\ RosterNext
    /\ attended' = [c \in ClassIds |-> [u \in Students |->
                        attended[c][u] +
                            (IF u \in members[c] THEN clock' - clock ELSE 0)]]

ReportSpec == ReportInit /\ [][ReportNext]_reportVars

-----------------------------------------------------------------------------

Info(c, u) == S!Summary(events[c]).info[u]

\* The seconds the summary gives a student, with the session that is still open.
Online(c, u) ==
    Info(c, u).total + (IF Info(c, u).inClass THEN clock - Info(c, u).lastJoin ELSE 0)

\* "Online duration is calculated per student per class session (join/leave pairing)":
\* at any time the log accounts for every second spent in the class, over any number
\* of joins, leaves and disconnects, and for no other.
DurationIsAttendance ==
    \A c \in ClassIds : \A u \in Students : Online(c, u) = attended[c][u]

\* A session that is open in the summary is open in the class: the running total of a
\* student who is away stands still.
OpenSessionsAreMembers ==
    \A c \in ClassIds : \A u \in Students :
        Info(c, u).inClass <=> u \in members[c]

OpenedOnce(log) ==
    \E i \in DOMAIN log : \A j \in DOMAIN log : log[j].type = "CHECKIN_OPENED" <=> j = i

\* The teacher's live list and the summary tell the same story about a member, as long
\* as the check-in was opened once: both say absent or neither does, and they differ
\* between on time and late only for a check-in at most one second from the deadline,
\* since the log stamps the opening and the check-in a moment later than the state.
LiveListMatchesSummary ==
    \A c \in ClassIds : \A u \in members[c] :
        OpenedOnce(events[c]) =>
            LET live == CheckinStatus(c, u)
                late == checkins[c].checkedIn[u]
                            - (checkins[c].openTime + checkins[c].deadline)
            IN  /\ (live = "absent") <=> (Info(c, u).checkin = "absent")
                /\ live # Info(c, u).checkin => late \in 0 .. 1

=============================================================================
