--------------------------- MODULE StatisticsExporter ---------------------------
(***************************************************************************)
(* buildSummary's walk over the event log of one class: how long each      *)
(* student was online and whether the check-in was on time, late or        *)
(* missing.                                                                *)
(***************************************************************************)
EXTENDS Integers, Sequences

CONSTANTS
    Students,
    DefaultDeadline     \* checkinDeadline before any CHECKIN_OPENED (60 s)

\* JoinInfo; `seen' says that studentInfo has an entry.
NoInfo ==
    [seen |-> FALSE, lastJoin |-> 0, inClass |-> FALSE, total |-> 0,
     checkin |-> "absent"]

EmptySummary ==
    [info |-> [u \in Students |-> NoInfo],
     openTime |-> 0, deadline |-> DefaultDeadline]

JoinedAdding(info, time) ==  \* mutant: the time before is counted at every join
    [info EXCEPT !.seen = TRUE, !.lastJoin = time, !.inClass = TRUE,
                 !.total = @ + time - info.lastJoin]

Joined(info, time) ==
    [info EXCEPT !.seen = TRUE, !.lastJoin = time, !.inClass = TRUE]

SessionClosedStaysOpen(info, time) ==  \* mutant: inClass is not reset
    IF info.inClass THEN [info EXCEPT !.total = @ + (time - info.lastJoin)] ELSE info

\* Left, or still there when the class ends; without an open session nothing happens.
SessionClosed(info, time) ==
    IF info.inClass
    THEN [info EXCEPT !.total = @ + (time - info.lastJoin), !.inClass = FALSE]
    ELSE info

InTimeWithoutDeadline(summary, time) ==  \* mutant: the deadline is not added
    summary.openTime > 0 /\ time <= summary.openTime

InTime(summary, time) ==
    summary.openTime > 0 /\ time <= summary.openTime + summary.deadline

\* The status is set by every check-in and never set back by an opening.
CheckedIn(summary, e) ==
    [summary EXCEPT !.info[e.user] =
        [@ EXCEPT !.seen = TRUE,
                  !.checkin = IF InTime(summary, e.time) THEN "on_time" ELSE "late"]]

\* One turn of the loop over the events.
AfterEvent(summary, e) ==
    CASE e.type = "STUDENT_JOINED" ->
            [summary EXCEPT !.info[e.user] = Joined(@, e.time)]
      [] e.type = "STUDENT_LEFT" ->
            [summary EXCEPT !.info[e.user] = SessionClosed(@, e.time)]
      [] e.type = "CHECKIN_OPENED" ->
            [summary EXCEPT !.openTime = e.time,
                            !.deadline = IF e.detail > 0 THEN e.detail
                                                         ELSE DefaultDeadline]
      [] e.type = "STUDENT_CHECKED_IN" -> CheckedIn(summary, e)
      [] e.type = "CLASS_ENDED" ->
            [summary EXCEPT !.info = [u \in Students |-> SessionClosed(@[u], e.time)]]
      [] OTHER -> summary

\* The loop over the events, oldest first.
Summary(log) ==
    LET after[k \in 0 .. Len(log)] ==
            IF k = 0 THEN EmptySummary ELSE AfterEvent(after[k - 1], log[k])
    IN  after[Len(log)]

=============================================================================
