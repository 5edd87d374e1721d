---------------------------- MODULE ClassReportProofs ----------------------------
(***************************************************************************)
(* Theorems about ClassReport: as long as the server runs, buildSummary's   *)
(* walk over the log accounts for the time every student has spent in a     *)
(* class, and its check-in column agrees with the teacher's live list.      *)
(*                                                                         *)
(* The walk is a recursive function on the log.  That it is defined, and    *)
(* that a record more is one turn of the loop more, is proved by induction  *)
(* on the log; the library's induction theorems take an operator, so the    *)
(* induction is on sets, from the well-foundedness of < on Nat.             *)
(***************************************************************************)
EXTENDS ClassManagerProofs, ClassReport, WellFoundedInduction

-----------------------------------------------------------------------------
(* Induction. *)

LEMMA LessThanPairs == OpToRel(<, Nat) = {p \in Nat \X Nat : p[1] < p[2]}
BY DEF OpToRel

\* A set of numbers that holds 0 and every successor of a member holds them all.
LEMMA SetNatInduction ==
  ASSUME NEW P \in SUBSET Nat, 0 \in P, \A n \in P : n + 1 \in P
  PROVE  P = Nat
<1> DEFINE Rest == Nat \ P
<1> SUFFICES ASSUME Rest # {} PROVE FALSE
  OBVIOUS
<1>1. PICK x \in Rest : \A y \in Rest : ~(<<y, x>> \in OpToRel(<, Nat))
  BY NatLessThanWellFounded, WFMin
<1>2. \A y \in Rest : ~(<<y, x>> \in {p \in Nat \X Nat : p[1] < p[2]})
  BY <1>1, LessThanPairs
<1>3. x \in Nat /\ x # 0 /\ x - 1 \in Nat
  OBVIOUS
<1>4. <<x - 1, x>> \in {p \in Nat \X Nat : p[1] < p[2]}
  BY <1>3
<1>5. x - 1 \in P
  BY <1>2, <1>3, <1>4
<1> QED BY <1>3, <1>5

\* A set of logs that holds the empty one and is closed under Append holds them all.
LEMMA SetLogInduction ==
  ASSUME NEW P \in SUBSET Seq(EventRecord), <<>> \in P,
         \A log \in P : \A e \in EventRecord : Append(log, e) \in P
  PROVE  P = Seq(EventRecord)
<1> DEFINE Lengths == {n \in Nat : \A log \in Seq(EventRecord) : Len(log) = n => log \in P}
<1>1. 0 \in Lengths
  <2>1. \A log \in Seq(EventRecord) : Len(log) = 0 => log = <<>>
    OBVIOUS
  <2> QED BY <2>1
<1>2. ASSUME NEW n \in Lengths PROVE n + 1 \in Lengths
  <2> SUFFICES ASSUME NEW log \in Seq(EventRecord), Len(log) = n + 1
               PROVE  log \in P
    OBVIOUS
  <2> DEFINE front == SubSeq(log, 1, n)
             last == log[n + 1]
  <2>1. /\ front \in Seq(EventRecord) /\ Len(front) = n /\ last \in EventRecord
        /\ \A i \in 1 .. n : front[i] = log[i]
    OBVIOUS
  <2>2. /\ Append(front, last) \in Seq(EventRecord)
        /\ Len(Append(front, last)) = n + 1
        /\ \A i \in 1 .. n : Append(front, last)[i] = front[i]
        /\ Append(front, last)[n + 1] = last
    BY SMTT(30), <2>1
  <2>3. front \in P
    BY <2>1
  <2> DEFINE new == Append(front, last)
  <2>4. new \in P
    BY <2>1, <2>3
  <2>5. /\ new \in Seq(EventRecord) /\ Len(new) = Len(log) /\ Len(new) \in Nat
        /\ \A i \in 1 .. Len(new) : new[i] = log[i]
    BY SMTT(30), <2>1, <2>2
  <2> HIDE DEF new
  <2>6. new = log
    BY <2>5
  <2> QED BY <2>4, <2>6
<1>3. Lengths = Nat
  <2> HIDE DEF Lengths
  <2>1. Lengths \in SUBSET Nat
    BY DEF Lengths
  <2> QED BY <1>1, <1>2, <2>1, SetNatInduction
<1>4. \A log \in Seq(EventRecord) : Len(log) \in Nat
  OBVIOUS
<1>5. \A log \in Seq(EventRecord) : log \in P
  <2>1. \A n \in Nat : \A log \in Seq(EventRecord) : Len(log) = n => log \in P
    BY <1>3
  <2> QED BY <1>4, <2>1
<1> QED BY <1>5

-----------------------------------------------------------------------------
(* The walk over the log. *)

\* f is what the loop has made of the first k records, for every k.
IsWalk(f, log) ==
    f = [k \in 0 .. Len(log) |->
            IF k = 0 THEN S!EmptySummary ELSE S!AfterEvent(f[k - 1], log[k])]

LEMMA WalkDef == \A log : S!Summary(log) = (CHOOSE f : IsWalk(f, log))[Len(log)]
BY DEF S!Summary, IsWalk

\* A record more is a turn of the loop more.
LEMMA WalkAppend ==
  ASSUME NEW log \in Seq(EventRecord), NEW e \in EventRecord, NEW f, IsWalk(f, log)
  PROVE  IsWalk([k \in 0 .. Len(log) + 1 |->
                   IF k = Len(log) + 1 THEN S!AfterEvent(f[Len(log)], e) ELSE f[k]],
                Append(log, e))
<1> DEFINE n == Len(log)
           new == Append(log, e)
           g == [k \in 0 .. n + 1 |-> IF k = n + 1 THEN S!AfterEvent(f[n], e) ELSE f[k]]
           h == [k \in 0 .. n + 1 |->
                    IF k = 0 THEN S!EmptySummary ELSE S!AfterEvent(g[k - 1], new[k])]
<1>1. /\ n \in Nat /\ Len(new) = n + 1 /\ new[n + 1] = e
      /\ \A i \in 1 .. n : new[i] = log[i]
  BY AppendedRecord
<1> HIDE DEF new, n
<1>2. \A k \in 0 .. n :
         f[k] = IF k = 0 THEN S!EmptySummary ELSE S!AfterEvent(f[k - 1], log[k])
  BY <1>1 DEF IsWalk, n
<1>3. ASSUME NEW k \in 0 .. n + 1 PROVE g[k] = h[k]
  <2>1. CASE k = 0
    BY <1>1, <1>2, <2>1
  <2>2. CASE k \in 1 .. n
    <3>1. g[k] = f[k] /\ g[k - 1] = f[k - 1] /\ new[k] = log[k]
      BY <1>1, <2>2
    <3>2. f[k] = S!AfterEvent(f[k - 1], log[k])
      BY <1>1, <1>2, <2>2
    <3>3. h[k] = S!AfterEvent(g[k - 1], new[k])
      BY <1>1, <2>2
    <3> QED BY <3>1, <3>2, <3>3
  <2>3. CASE k = n + 1
    <3>1. g[k] = S!AfterEvent(f[n], e) /\ g[k - 1] = f[n] /\ new[k] = e
      BY <1>1, <2>3
    <3>2. h[k] = S!AfterEvent(g[k - 1], new[k])
      BY <1>1, <2>3
    <3> QED BY <3>1, <3>2
  <2> QED BY <1>1, <2>1, <2>2, <2>3
<1>4. g = h
  BY <1>3
<1>5. IsWalk(g, new)
  BY <1>1, <1>4 DEF IsWalk
<1> QED BY <1>5 DEF g, n, new

\* There is a walk over every log.
LEMMA WalkExists == \A log \in Seq(EventRecord) : \E f : IsWalk(f, log)
<1> DEFINE Walked == {log \in Seq(EventRecord) : \E f : IsWalk(f, log)}
<1>1. <<>> \in Walked
  <2> DEFINE f == [k \in 0 .. 0 |-> S!EmptySummary]
  <2>1. IsWalk(f, <<>>)
    BY DEF IsWalk
  <2> QED BY <2>1
<1>2. ASSUME NEW log \in Walked, NEW e \in EventRecord PROVE Append(log, e) \in Walked
  <2>1. log \in Seq(EventRecord) /\ Append(log, e) \in Seq(EventRecord)
    BY AppendedRecord
  <2>2. PICK f : IsWalk(f, log)
    OBVIOUS
  <2>3. \E g : IsWalk(g, Append(log, e))
    BY <2>1, <2>2, WalkAppend
  <2> QED BY <2>1, <2>3
<1>3. Walked = Seq(EventRecord)
  <2> HIDE DEF Walked
  <2>1. Walked \in SUBSET Seq(EventRecord)
    BY DEF Walked
  <2> QED BY <1>1, <1>2, <2>1, SetLogInduction
<1> QED BY <1>3

\* ... and only one.
LEMMA WalkUnique ==
  ASSUME NEW log \in Seq(EventRecord), NEW f, NEW g, IsWalk(f, log), IsWalk(g, log)
  PROVE  f = g
<1> DEFINE n == Len(log)
           Same == {k \in Nat : k <= n => f[k] = g[k]}
<1>1. /\ n \in Nat
      /\ \A k \in 0 .. n :
            /\ f[k] = IF k = 0 THEN S!EmptySummary ELSE S!AfterEvent(f[k - 1], log[k])
            /\ g[k] = IF k = 0 THEN S!EmptySummary ELSE S!AfterEvent(g[k - 1], log[k])
  BY DEF IsWalk
<1> HIDE DEF n
<1>2. 0 \in Same
  BY <1>1
<1>3. ASSUME NEW k \in Same PROVE k + 1 \in Same
  <2> SUFFICES ASSUME k + 1 <= n PROVE f[k + 1] = g[k + 1]
    OBVIOUS
  <2>1. f[k] = g[k] /\ k + 1 \in 0 .. n /\ k + 1 # 0 /\ (k + 1) - 1 = k
    BY <1>1
  <2> QED BY <1>1, <2>1
<1>4. Same = Nat
  <2> HIDE DEF Same
  <2>1. Same \in SUBSET Nat
    BY DEF Same
  <2> QED BY <1>2, <1>3, <2>1, SetNatInduction
<1>5. \A k \in 0 .. n : f[k] = g[k]
  BY <1>1, <1>4
<1>6. f = [k \in 0 .. n |-> f[k]] /\ g = [k \in 0 .. n |-> g[k]]
  BY DEF IsWalk, n
<1> QED BY <1>5, <1>6

\* What the loop makes of a log: nothing of the empty one, and of one record more what
\* one turn makes of the rest.
THEOREM SummaryOfLog ==
  /\ S!Summary(<<>>) = S!EmptySummary
  /\ \A log \in Seq(EventRecord) : \A e \in EventRecord :
        S!Summary(Append(log, e)) = S!AfterEvent(S!Summary(log), e)
<1>1. ASSUME NEW log \in Seq(EventRecord), NEW f, IsWalk(f, log)
      PROVE  S!Summary(log) = f[Len(log)]
  <2> DEFINE g == CHOOSE h : IsWalk(h, log)
  <2>1. IsWalk(g, log)
    BY <1>1
  <2>2. g = f
    BY <1>1, <2>1, WalkUnique
  <2> QED BY <2>2, WalkDef
<1>2. S!Summary(<<>>) = S!EmptySummary
  <2> DEFINE f == [k \in 0 .. 0 |-> S!EmptySummary]
  <2>1. IsWalk(f, <<>>) /\ <<>> \in Seq(EventRecord) /\ f[Len(<<>>)] = S!EmptySummary
    BY DEF IsWalk
  <2> QED BY <1>1, <2>1
<1>3. ASSUME NEW log \in Seq(EventRecord), NEW e \in EventRecord
      PROVE  S!Summary(Append(log, e)) = S!AfterEvent(S!Summary(log), e)
  <2>1. PICK f : IsWalk(f, log)
    BY WalkExists
  <2> DEFINE n == Len(log)
             g == [k \in 0 .. n + 1 |->
                      IF k = n + 1 THEN S!AfterEvent(f[n], e) ELSE f[k]]
  <2>2. IsWalk(g, Append(log, e))
    BY <2>1, WalkAppend
  <2>3. n \in Nat /\ Append(log, e) \in Seq(EventRecord) /\ Len(Append(log, e)) = n + 1
    BY AppendedRecord
  <2>4. S!Summary(log) = f[n]
    BY <1>1, <2>1
  <2>5. g[n + 1] = S!AfterEvent(f[n], e)
    BY <2>3
  <2> HIDE DEF g, n
  <2>6. S!Summary(Append(log, e)) = g[n + 1]
    BY <1>1, <2>2, <2>3
  <2> QED BY <2>4, <2>5, <2>6
<1> QED BY <1>2, <1>3

-----------------------------------------------------------------------------
(* What one turn of the loop does. *)

InfoRecord ==
    [seen : BOOLEAN, lastJoin : Int, inClass : BOOLEAN, total : Int,
     checkin : {"absent", "on_time", "late"}]

SummaryRecord == [info : [Students -> InfoRecord], openTime : Int, deadline : Int]

IsJoinOf(e, u) == e.type = "STUDENT_JOINED" /\ e.user = u
IsAnswerOf(e, u) == e.type = "STUDENT_CHECKED_IN" /\ e.user = u

\* The info after a join, after the end of a session and after an answer.
LEMMA JoinedInfo ==
  ASSUME NEW i \in InfoRecord, NEW time \in Int
  PROVE  LET j == S!Joined(i, time) IN
         /\ j \in InfoRecord
         /\ j.inClass = TRUE /\ j.lastJoin = time
         /\ j.total = i.total /\ j.checkin = i.checkin
<1>1. S!Joined(i, time) \in InfoRecord
  BY DEF S!Joined, InfoRecord
<1>2. LET j == S!Joined(i, time) IN j.inClass = TRUE /\ j.lastJoin = time
  BY DEF S!Joined, InfoRecord
<1>3. LET j == S!Joined(i, time) IN j.total = i.total /\ j.checkin = i.checkin
  BY DEF S!Joined, InfoRecord
<1> QED BY <1>1, <1>2, <1>3

LEMMA ClosedInfo ==
  ASSUME NEW i \in InfoRecord, NEW time \in Int
  PROVE  LET j == S!SessionClosed(i, time) IN
         /\ j \in InfoRecord
         /\ j.inClass = FALSE /\ j.lastJoin = i.lastJoin
         /\ j.total = IF i.inClass THEN i.total + (time - i.lastJoin) ELSE i.total
         /\ j.checkin = i.checkin
<1>1. CASE i.inClass
  <2> DEFINE total == i.total + (time - i.lastJoin)
             j == [i EXCEPT !.total = total, !.inClass = FALSE]
  <2>1. S!SessionClosed(i, time) = j
    BY <1>1 DEF S!SessionClosed
  <2>2. total \in Int
    BY DEF InfoRecord
  <2> HIDE DEF total
  <2>3. j \in InfoRecord /\ j.inClass = FALSE /\ j.total = total
    BY <2>2 DEF InfoRecord
  <2>4. j.lastJoin = i.lastJoin /\ j.checkin = i.checkin
    BY DEF InfoRecord
  <2> QED BY <1>1, <2>1, <2>3, <2>4 DEF total
<1>2. CASE ~i.inClass
  <2>1. i.inClass = FALSE
    BY <1>2 DEF InfoRecord
  <2> QED BY <1>2, <2>1 DEF S!SessionClosed
<1> QED BY <1>1, <1>2

Answered(i, answer) == [i EXCEPT !.seen = TRUE, !.checkin = answer]

LEMMA AnsweredInfo ==
  ASSUME NEW i \in InfoRecord, NEW answer \in {"on_time", "late"}
  PROVE  LET j == Answered(i, answer) IN
         /\ j \in InfoRecord
         /\ j.inClass = i.inClass /\ j.lastJoin = i.lastJoin
         /\ j.total = i.total /\ j.checkin = answer
<1>1. Answered(i, answer) \in InfoRecord
  BY DEF InfoRecord, Answered
<1>2. LET j == Answered(i, answer) IN
      /\ j.inClass = i.inClass /\ j.lastJoin = i.lastJoin
      /\ j.total = i.total /\ j.checkin = answer
  BY DEF InfoRecord, Answered
<1> QED BY <1>1, <1>2

\* A summary in which one student's info, or everybody's, is replaced.
LEMMA InfoReplaced ==
  ASSUME NEW s \in SummaryRecord, NEW info \in [Students -> InfoRecord]
  PROVE  LET after == [s EXCEPT !.info = info] IN
         /\ after \in SummaryRecord /\ after.info = info
         /\ after.openTime = s.openTime /\ after.deadline = s.deadline
BY DEF SummaryRecord

\* What the turn for e makes of the opening.
OpeningTurn(s, e, after) ==
    /\ after \in SummaryRecord
    /\ after.openTime = IF e.type = "CHECKIN_OPENED" THEN e.time ELSE s.openTime
    /\ after.deadline = IF e.type = "CHECKIN_OPENED"
                        THEN IF e.detail > 0 THEN e.detail ELSE DefaultDeadline
                        ELSE s.deadline

\* What the turn for e makes of a student's info.
InfoTurn(s, e, u, new) ==
    LET old == s.info[u]
    IN  /\ new.inClass = IF IsJoinOf(e, u) THEN TRUE
                         ELSE IF EndsSession(e, u) THEN FALSE
                         ELSE old.inClass
        /\ new.lastJoin = IF IsJoinOf(e, u) THEN e.time ELSE old.lastJoin
        /\ new.total = IF EndsSession(e, u) /\ old.inClass
                       THEN old.total + (e.time - old.lastJoin)
                       ELSE old.total
        /\ new.checkin = IF IsAnswerOf(e, u)
                         THEN IF S!InTime(s, e.time) THEN "on_time" ELSE "late"
                         ELSE old.checkin

LEMMA Turn ==
  ASSUME NEW s \in SummaryRecord, NEW e \in EventRecord
  PROVE  LET after == S!AfterEvent(s, e) IN
         /\ OpeningTurn(s, e, after)
         /\ \A u \in Students : InfoTurn(s, e, u, after.info[u])
<1> DEFINE after == S!AfterEvent(s, e)
           Kept == after.openTime = s.openTime /\ after.deadline = s.deadline
<1>0. /\ e.time \in Int /\ e.detail \in Int
      /\ s.info \in [Students -> InfoRecord] /\ s.openTime \in Int /\ s.deadline \in Int
      /\ DefaultDeadline \in Int
      /\ \A u \in Students : s.info[u] \in InfoRecord
  BY NumbersAssumption DEF EventRecord, SummaryRecord
<1>1. CASE e.type = "STUDENT_JOINED"
  <2> DEFINE info == [s.info EXCEPT ![e.user] = S!Joined(@, e.time)]
  <2>1. after = [s EXCEPT !.info = info]
    BY <1>1 DEF S!AfterEvent
  <2>2. /\ info \in [Students -> InfoRecord]
        /\ \A u \in Students :
              info[u] = IF u = e.user THEN S!Joined(s.info[u], e.time) ELSE s.info[u]
    BY <1>0, JoinedInfo
  <2> HIDE DEF info
  <2>3. after \in SummaryRecord /\ after.info = info /\ Kept
    BY <2>1, <2>2, InfoReplaced
  <2>4. ASSUME NEW u \in Students PROVE InfoTurn(s, e, u, after.info[u])
    <3>1. CASE u = e.user
      <4> DEFINE new == S!Joined(s.info[u], e.time)
      <4>1. after.info[u] = new
        BY <2>2, <2>3, <3>1
      <4>2. /\ new.inClass = TRUE /\ new.lastJoin = e.time
            /\ new.total = s.info[u].total /\ new.checkin = s.info[u].checkin
        BY <1>0, JoinedInfo
      <4> HIDE DEF new, after
      <4> QED BY <1>1, <3>1, <4>1, <4>2 DEF InfoTurn, IsJoinOf, IsAnswerOf, EndsSession
    <3>2. CASE u # e.user
      BY <1>1, <2>2, <2>3, <3>2 DEF InfoTurn, IsJoinOf, IsAnswerOf, EndsSession
    <3> QED BY <3>1, <3>2
  <2> QED BY <1>1, <2>3, <2>4 DEF OpeningTurn
<1>2. CASE e.type = "STUDENT_LEFT"
  <2> DEFINE info == [s.info EXCEPT ![e.user] = S!SessionClosed(@, e.time)]
  <2>1. after = [s EXCEPT !.info = info]
    BY <1>2 DEF S!AfterEvent
  <2>2. /\ info \in [Students -> InfoRecord]
        /\ \A u \in Students :
              info[u] = IF u = e.user THEN S!SessionClosed(s.info[u], e.time) ELSE s.info[u]
    BY <1>0, ClosedInfo
  <2> HIDE DEF info
  <2>3. after \in SummaryRecord /\ after.info = info /\ Kept
    BY <2>1, <2>2, InfoReplaced
  <2>4. ASSUME NEW u \in Students PROVE InfoTurn(s, e, u, after.info[u])
    <3>1. CASE u = e.user
      <4> DEFINE new == S!SessionClosed(s.info[u], e.time)
      <4>1. after.info[u] = new
        BY <2>2, <2>3, <3>1
      <4>2. /\ new.inClass = FALSE /\ new.lastJoin = s.info[u].lastJoin
            /\ new.total = IF s.info[u].inClass
                           THEN s.info[u].total + (e.time - s.info[u].lastJoin)
                           ELSE s.info[u].total
            /\ new.checkin = s.info[u].checkin
        BY <1>0, ClosedInfo
      <4> HIDE DEF new, after
      <4> QED BY <1>2, <3>1, <4>1, <4>2 DEF InfoTurn, IsJoinOf, IsAnswerOf, EndsSession
    <3>2. CASE u # e.user
      BY <1>2, <2>2, <2>3, <3>2 DEF InfoTurn, IsJoinOf, IsAnswerOf, EndsSession
    <3> QED BY <3>1, <3>2
  <2> QED BY <1>2, <2>3, <2>4 DEF OpeningTurn
<1>3. CASE e.type = "CHECKIN_OPENED"
  <2> DEFINE deadline == IF e.detail > 0 THEN e.detail ELSE DefaultDeadline
  <2>1. deadline \in Int
    BY <1>0
  <2>2. after = [s EXCEPT !.openTime = e.time, !.deadline = deadline]
    BY <1>3 DEF S!AfterEvent
  <2> HIDE DEF deadline
  <2>3. after \in SummaryRecord /\ after.openTime = e.time /\ after.deadline = deadline
    BY <1>0, <2>1, <2>2 DEF SummaryRecord
  <2>4. after.info = s.info
    BY <2>2 DEF SummaryRecord
  <2>5. ASSUME NEW u \in Students PROVE InfoTurn(s, e, u, after.info[u])
    BY <1>3, <2>4 DEF InfoTurn, IsJoinOf, IsAnswerOf, EndsSession
  <2> QED BY <1>3, <2>3, <2>5 DEF OpeningTurn, deadline
<1>4. CASE e.type = "STUDENT_CHECKED_IN"
  <2> DEFINE answer == IF S!InTime(s, e.time) THEN "on_time" ELSE "late"
             info == [s.info EXCEPT ![e.user] = Answered(@, answer)]
  <2>1. answer \in {"on_time", "late"}
    OBVIOUS
  <2>2. after = [s EXCEPT !.info = info]
    BY <1>4 DEF S!AfterEvent, S!CheckedIn, Answered
  <2> HIDE DEF answer
  <2>3. /\ info \in [Students -> InfoRecord]
        /\ \A u \in Students :
              info[u] = IF u = e.user THEN Answered(s.info[u], answer)
                                      ELSE s.info[u]
    BY <1>0, <2>1, AnsweredInfo
  <2> HIDE DEF info
  <2>4. after \in SummaryRecord /\ after.info = info /\ Kept
    BY <2>2, <2>3, InfoReplaced
  <2>5. ASSUME NEW u \in Students PROVE InfoTurn(s, e, u, after.info[u])
    <3>1. CASE u = e.user
      <4> DEFINE new == Answered(s.info[u], answer)
      <4>1. after.info[u] = new
        BY <2>3, <2>4, <3>1
      <4>2. /\ new.inClass = s.info[u].inClass /\ new.lastJoin = s.info[u].lastJoin
            /\ new.total = s.info[u].total /\ new.checkin = answer
        BY <1>0, <2>1, AnsweredInfo
      <4> HIDE DEF new, after
      <4> QED BY <1>4, <3>1, <4>1, <4>2 DEF InfoTurn, IsJoinOf, IsAnswerOf, EndsSession, answer
    <3>2. CASE u # e.user
      BY <1>4, <2>3, <2>4, <3>2 DEF InfoTurn, IsJoinOf, IsAnswerOf, EndsSession
    <3> QED BY <3>1, <3>2
  <2> QED BY <1>4, <2>4, <2>5 DEF OpeningTurn
<1>5. CASE e.type = "CLASS_ENDED"
  <2> DEFINE info == [u \in Students |-> S!SessionClosed(s.info[u], e.time)]
  <2>1. after = [s EXCEPT !.info = info]
    BY <1>5 DEF S!AfterEvent
  <2>2. /\ info \in [Students -> InfoRecord]
        /\ \A u \in Students : info[u] = S!SessionClosed(s.info[u], e.time)
    BY <1>0, ClosedInfo
  <2> HIDE DEF info
  <2>3. after \in SummaryRecord /\ after.info = info /\ Kept
    BY <2>1, <2>2, InfoReplaced
  <2>4. ASSUME NEW u \in Students PROVE InfoTurn(s, e, u, after.info[u])
    <3> DEFINE new == S!SessionClosed(s.info[u], e.time)
    <3>1. after.info[u] = new
      BY <2>2, <2>3
    <3>2. /\ new.inClass = FALSE /\ new.lastJoin = s.info[u].lastJoin
          /\ new.total = IF s.info[u].inClass
                           THEN s.info[u].total + (e.time - s.info[u].lastJoin)
                           ELSE s.info[u].total
          /\ new.checkin = s.info[u].checkin
      BY <1>0, ClosedInfo
    <3> HIDE DEF new, after
    <3> QED BY <1>5, <3>1, <3>2 DEF InfoTurn, IsJoinOf, IsAnswerOf, EndsSession
  <2> QED BY <1>5, <2>3, <2>4 DEF OpeningTurn
<1>6. CASE e.type \notin {"STUDENT_JOINED", "STUDENT_LEFT", "CHECKIN_OPENED",
                          "STUDENT_CHECKED_IN", "CLASS_ENDED"}
  <2>1. after = s
    BY <1>6 DEF S!AfterEvent
  <2> QED BY <1>6, <2>1 DEF OpeningTurn, InfoTurn, IsJoinOf, IsAnswerOf, EndsSession
<1> QED BY <1>1, <1>2, <1>3, <1>4, <1>5, <1>6

\* The summary of any log has the types.
LEMMA SummaryType == \A log \in Seq(EventRecord) : S!Summary(log) \in SummaryRecord
<1> DEFINE Typed == {log \in Seq(EventRecord) : S!Summary(log) \in SummaryRecord}
<1>1. <<>> \in Typed
  <2>1. S!EmptySummary \in SummaryRecord
    BY NumbersAssumption DEF S!EmptySummary, S!NoInfo, SummaryRecord, InfoRecord
  <2>2. <<>> \in Seq(EventRecord)
    OBVIOUS
  <2> QED BY <2>1, <2>2, SummaryOfLog
<1>2. ASSUME NEW log \in Typed, NEW e \in EventRecord PROVE Append(log, e) \in Typed
  <2>1. log \in Seq(EventRecord) /\ Append(log, e) \in Seq(EventRecord)
        /\ S!Summary(log) \in SummaryRecord
    BY AppendedRecord
  <2>2. S!AfterEvent(S!Summary(log), e) \in SummaryRecord
    BY <2>1, Turn DEF OpeningTurn
  <2> QED BY <2>1, <2>2, SummaryOfLog
<1>3. Typed = Seq(EventRecord)
  <2> HIDE DEF Typed
  <2>1. Typed \in SUBSET Seq(EventRecord)
    BY DEF Typed
  <2> QED BY <1>1, <1>2, <2>1, SetLogInduction
<1> QED BY <1>3

-----------------------------------------------------------------------------
(* The composition. *)

\* Every step of the report is a step of the class manager.
LEMMA RosterIsNext == [ReportNext]_reportVars => [Next]_cmVars
BY DEF ReportNext, reportVars, RosterNext, Next, TeacherStep

THEOREM ReportRefinesClassManager == ReportSpec => Spec
BY RosterIsNext, PTL DEF ReportSpec, Spec, ReportInit

\* The log of class c gets the record e.
Records(c, e) == e \in EventRecord /\ events'[c] = Append(events[c], e)

\* The summary of a class that gets a record is a turn of the loop away.
LEMMA SummaryStep ==
  ASSUME TypeOK, NEW c \in ClassIds, NEW e, Records(c, e)
  PROVE  LET s == S!Summary(events[c])
             after == S!Summary(events'[c])
         IN  /\ s \in SummaryRecord /\ after = S!AfterEvent(s, e)
             /\ OpeningTurn(s, e, after)
             /\ \A u \in Students : s.info[u] \in InfoRecord /\ InfoTurn(s, e, u, after.info[u])
<1>1. events[c] \in Seq(EventRecord)
  BY DEF TypeOK
<1>2. S!Summary(events[c]) \in SummaryRecord
  BY <1>1, SummaryType
<1>3. S!Summary(events'[c]) = S!AfterEvent(S!Summary(events[c]), e)
  BY <1>1, SummaryOfLog DEF Records
<1>4. \A u \in Students : S!Summary(events[c]).info[u] \in InfoRecord
  BY <1>2 DEF SummaryRecord
<1> QED BY <1>2, <1>3, <1>4, Turn DEF Records

-----------------------------------------------------------------------------
(* Attendance. *)

\* What one step does to the attendance of one student in one class.
Quiet(c, u) ==
    /\ u \in members'[c] <=> u \in members[c]
    /\ \/ events'[c] = events[c]
       \/ \E e : Records(c, e) /\ ~IsJoinOf(e, u) /\ ~EndsSession(e, u)

Joins(c, u) ==
    /\ u \notin members[c] /\ u \in members'[c]
    /\ \E e : Records(c, e) /\ IsJoinOf(e, u) /\ e.time = clock'

Leaves(c, u) ==
    /\ u \notin members'[c]
    /\ \E e : Records(c, e) /\ EndsSession(e, u) /\ e.time = clock'

\* addEvent on class c, for what can be recorded there.
LEMMA Recorded ==
  ASSUME TypeOK, NEW c \in ClassIds, NEW type \in EventTypes, NEW w \in Accounts,
         NEW detail \in Nat, AddEvent(c, type, w, detail)
  PROVE  /\ \A d \in ClassIds \ {c} : events'[d] = events[d]
         /\ clock' \in {clock, clock + 1} /\ clock' \in Nat /\ restarts' = restarts
         /\ LET e == Event(type, w, detail) IN
            /\ e.type = type /\ e.user = w /\ e.detail = detail /\ e.time = clock'
            /\ type \in RecordedTypes => Records(c, e)
            /\ type \notin RecordedTypes => events'[c] = events[c]
<1>1. /\ events' = [events EXCEPT ![c] = Logged(events[c], type, w, detail)]
      /\ clock' \in {clock, clock + 1} /\ clock \in Nat /\ restarts' = restarts
      /\ events \in [ClassIds -> Seq(EventRecord)]
  BY DEF AddEvent, Writes, TypeOK
<1>2. clock' \in Nat
  BY <1>1
<1> DEFINE e == Event(type, w, detail)
<1>3. e \in EventRecord /\ e.type = type /\ e.user = w /\ e.detail = detail /\ e.time = clock'
  BY <1>2 DEF Event, EventRecord
<1>4. events'[c] = IF type \in RecordedTypes THEN Append(events[c], e) ELSE events[c]
  BY <1>1 DEF Logged
<1>5. \A d \in ClassIds \ {c} : events'[d] = events[d]
  BY <1>1
<1> HIDE DEF e
<1> QED BY <1>1, <1>2, <1>3, <1>4, <1>5 DEF Records, e

\* A record that is about no session keeps everybody where they are.
LEMMA QuietRecorded ==
  ASSUME TypeOK, members' = members, NEW c \in ClassIds,
         NEW type \in EventTypes \ SessionTypes, NEW w \in Accounts,
         NEW detail \in Nat, AddEvent(c, type, w, detail)
  PROVE  \A d \in ClassIds, u \in Students : Quiet(d, u)
<1> DEFINE e == Event(type, w, detail)
<1>1. /\ \A d \in ClassIds \ {c} : events'[d] = events[d]
      /\ e.type = type
      /\ Records(c, e) \/ events'[c] = events[c]
  BY Recorded
<1>2. \A u : ~IsJoinOf(e, u) /\ ~EndsSession(e, u)
  BY <1>1 DEF IsJoinOf, EndsSession, SessionTypes
<1> HIDE DEF e
<1> QED BY <1>1, <1>2 DEF Quiet

LEMMA RosterMove ==
  ASSUME TypeOK, AllSessionsRecorded, RosterNext, restarts' = restarts,
         NEW d \in ClassIds, NEW v \in Students
  PROVE  Quiet(d, v) \/ Joins(d, v) \/ Leaves(d, v)
<1>0. /\ members \in [ClassIds -> SUBSET Students] /\ restarts \in Nat
      /\ SessionTypes \subseteq EventTypes
  BY DEF TypeOK, SessionTypes, EventTypes
<1> USE DEF Accounts
<1>1. ASSUME NEW t \in Teachers, CreateClass(t) PROVE Quiet(d, v)
  BY <1>1, QuietRecorded DEF CreateClass, EventTypes, SessionTypes
<1>2. ASSUME NEW c \in ClassIds, NEW t \in Teachers, StartClass(c, t) PROVE Quiet(d, v)
  BY <1>2, QuietRecorded DEF StartClass, EventTypes, SessionTypes
<1>3. ASSUME NEW c \in ClassIds, NEW t \in Teachers, NEW seconds \in DeadlineRequests,
             OpenCheckin(c, t, seconds)
      PROVE  Quiet(d, v)
  BY <1>3, QuietRecorded, NumbersAssumption DEF OpenCheckin, EventTypes, SessionTypes
<1>4. ASSUME NEW c \in ClassIds, NEW u \in Students, Checkin(c, u) PROVE Quiet(d, v)
  BY <1>4, QuietRecorded DEF Checkin, EventTypes, SessionTypes
<1>5. ASSUME NEW c \in ClassIds, NEW t \in Teachers, EndClass(c, t)
      PROVE  Quiet(d, v) \/ Leaves(d, v)
  <2> DEFINE e == Event("CLASS_ENDED", t, 0)
  <2>1. /\ \A b \in ClassIds \ {c} : events'[b] = events[b]
        /\ e.type = "CLASS_ENDED" /\ e.time = clock' /\ Records(c, e)
    BY <1>5, Recorded DEF EndClass, AllSessionsRecorded, SessionTypes, EventTypes
  <2>2. members' = [members EXCEPT ![c] = {}]
    BY <1>5 DEF EndClass, Forget
  <2> HIDE DEF e
  <2>3. CASE d = c
    BY <1>0, <2>1, <2>2, <2>3 DEF Leaves, EndsSession
  <2>4. CASE d # c
    BY <1>0, <2>1, <2>2, <2>4 DEF Quiet
  <2> QED BY <2>3, <2>4
<1>6. ASSUME NEW c \in ClassIds, NEW u \in Students, JoinClass(c, u)
      PROVE  Quiet(d, v) \/ Joins(d, v)
  <2> DEFINE e == Event("STUDENT_JOINED", u, 0)
  <2>1. /\ \A b \in ClassIds \ {c} : events'[b] = events[b]
        /\ e.type = "STUDENT_JOINED" /\ e.user = u /\ e.time = clock' /\ Records(c, e)
    BY <1>6, Recorded DEF JoinClass, AllSessionsRecorded, SessionTypes, EventTypes
  <2>2. members' = [members EXCEPT ![c] = members[c] \cup {u}] /\ u \notin members[c]
    BY <1>6 DEF JoinClass
  <2> HIDE DEF e
  <2>3. CASE d = c /\ v = u
    BY <1>0, <2>1, <2>2, <2>3 DEF Joins, IsJoinOf
  <2>4. CASE d = c /\ v # u
    BY <1>0, <2>1, <2>2, <2>4 DEF Quiet, IsJoinOf, EndsSession
  <2>5. CASE d # c
    BY <1>0, <2>1, <2>2, <2>5 DEF Quiet
  <2> QED BY <2>3, <2>4, <2>5
<1>7. ASSUME NEW u \in Students, NEW e, e.type = "STUDENT_LEFT", e.user = u, e.time = clock',
             \/ events'[d] = events[d] /\ members'[d] = members[d]
             \/ Records(d, e) /\ members'[d] = members[d] \ {u}
      PROVE  Quiet(d, v) \/ Leaves(d, v)
  <2>1. CASE events'[d] = events[d] /\ members'[d] = members[d]
    BY <2>1 DEF Quiet
  <2>2. CASE Records(d, e) /\ members'[d] = members[d] \ {u} /\ v = u
    BY <1>7, <2>2 DEF Leaves, EndsSession
  <2>3. CASE Records(d, e) /\ members'[d] = members[d] \ {u} /\ v # u
    BY <1>7, <2>3 DEF Quiet, IsJoinOf, EndsSession
  <2> QED BY <1>7, <2>1, <2>2, <2>3
<1>8. ASSUME NEW c \in ClassIds, NEW u \in Students, LeaveClass(c, u)
      PROVE  Quiet(d, v) \/ Leaves(d, v)
  <2> DEFINE e == Event("STUDENT_LEFT", u, 0)
  <2>1. /\ \A b \in ClassIds \ {c} : events'[b] = events[b]
        /\ e.type = "STUDENT_LEFT" /\ e.user = u /\ e.time = clock' /\ Records(c, e)
    BY <1>8, Recorded DEF LeaveClass, AllSessionsRecorded, SessionTypes, EventTypes
  <2>2. members' = [members EXCEPT ![c] = members[c] \ {u}]
    BY <1>8 DEF LeaveClass
  <2> HIDE DEF e
  <2>3. \/ events'[d] = events[d] /\ members'[d] = members[d]
        \/ Records(d, e) /\ members'[d] = members[d] \ {u}
    BY <1>0, <2>1, <2>2
  <2> QED BY <1>7, <2>1, <2>3
<1>9. ASSUME NEW u \in Students, RemoveFromAll(u) PROVE Quiet(d, v) \/ Leaves(d, v)
  <2> DEFINE e == Event("STUDENT_LEFT", u, 0)
  <2>1. /\ clock' \in Nat
        /\ events'[d] = IF u \in members[d] THEN Append(events[d], e) ELSE events[d]
        /\ members'[d] = members[d] \ {u}
    BY <1>9 DEF RemoveFromAll, Writes, Logged, AllSessionsRecorded, SessionTypes, TypeOK
  <2>2. e \in EventRecord /\ e.type = "STUDENT_LEFT" /\ e.user = u /\ e.time = clock'
    BY <2>1 DEF Event, EventRecord, EventTypes
  <2> HIDE DEF e
  <2>3. \/ events'[d] = events[d] /\ members'[d] = members[d]
        \/ Records(d, e) /\ members'[d] = members[d] \ {u}
    BY <2>1, <2>2 DEF Records
  <2> QED BY <1>7, <2>2, <2>3
<1>10. CASE Tick
  BY <1>10 DEF Tick, Quiet
<1>11. ~Restart
  BY <1>0 DEF Restart
<1> QED
  BY <1>1, <1>2, <1>3, <1>4, <1>5, <1>6, <1>8, <1>9, <1>10, <1>11 DEF RosterNext, StudentStep

\* The walk agrees with the class about one student.
Tallied(c, u) ==
    /\ Info(c, u).inClass <=> u \in members[c]
    /\ Online(c, u) = attended[c][u]

\* While the server has not restarted, it does for every student and class.
AttendInv ==
    restarts = 0 => \A c \in ClassIds : \A u \in Students : Tallied(c, u)

LEMMA AttendInit == ReportInit => AttendInv
<1> SUFFICES ASSUME ReportInit, NEW c \in ClassIds, NEW u \in Students PROVE Tallied(c, u)
  BY DEF AttendInv
<1>1. events[c] = <<>> /\ members[c] = {} /\ attended[c][u] = 0
  BY DEF ReportInit, Init
<1>2. Info(c, u) = S!NoInfo
  BY <1>1, SummaryOfLog DEF Info, S!EmptySummary
<1>3. Info(c, u).inClass = FALSE /\ Info(c, u).total = 0
  BY <1>2 DEF S!NoInfo
<1> QED BY <1>1, <1>3 DEF Tallied, Online

\* Each of the three moves adds to the walk what it adds to the attendance.
LEMMA AttendStep ==
  ASSUME TypeOK, TypeOK', AllSessionsRecorded, AttendInv, [ReportNext]_reportVars
  PROVE  AttendInv'
<1> SUFFICES ASSUME restarts' = 0, NEW c \in ClassIds, NEW u \in Students
             PROVE  Tallied(c, u)'
  BY DEF AttendInv
<1>1. restarts \in Nat /\ clock \in Int /\ clock' \in Int
  BY DEF TypeOK
<1> DEFINE old == S!Summary(events[c]).info[u]
           new == S!Summary(events'[c]).info[u]
<1>2. CASE UNCHANGED reportVars
  <2>1. UNCHANGED <<events, members, clock, attended, restarts>>
    BY <1>2 DEF reportVars, cmVars, logVars
  <2>2. Tallied(c, u)
    BY <2>1 DEF AttendInv
  <2> QED BY <2>1, <2>2 DEF Tallied, Online, Info
<1>3. CASE ReportNext
  <2>1. RosterNext /\ attended'[c][u] =
                         attended[c][u] + (IF u \in members[c] THEN clock' - clock ELSE 0)
    BY <1>3 DEF ReportNext
  <2>2. restarts = 0 /\ restarts' = restarts
    <3>1. restarts' = restarts \/ restarts' = restarts + 1
      BY <2>1 DEF RosterNext, CreateClass, StartClass, EndClass, OpenCheckin, StudentStep,
                  JoinClass, LeaveClass, Checkin, RemoveFromAll, AddEvent, Writes, Tick, Restart
    <3> QED BY <1>1, <3>1
  <2>3. /\ old.inClass <=> u \in members[c]
        /\ old.total + (IF old.inClass THEN clock - old.lastJoin ELSE 0) = attended[c][u]
    BY <2>2 DEF AttendInv, Tallied, Online, Info
  <2>4. old \in InfoRecord
    BY SummaryType DEF TypeOK, SummaryRecord
  <2>5. old.inClass \in BOOLEAN /\ old.lastJoin \in Int /\ old.total \in Int
    BY <2>4 DEF InfoRecord
  <2> SUFFICES /\ new.inClass <=> u \in members'[c]
               /\ new.total + (IF new.inClass THEN clock' - new.lastJoin ELSE 0)
                     = attended'[c][u]
    BY DEF Tallied, Online, Info
  <2>6. ASSUME NEW e, Records(c, e)
        PROVE  /\ e.time \in Int
               /\ new.inClass = IF IsJoinOf(e, u) THEN TRUE
                                ELSE IF EndsSession(e, u) THEN FALSE
                                ELSE old.inClass
               /\ new.lastJoin = IF IsJoinOf(e, u) THEN e.time ELSE old.lastJoin
               /\ new.total = IF EndsSession(e, u) /\ old.inClass
                              THEN old.total + (e.time - old.lastJoin)
                              ELSE old.total
    <3>1. InfoTurn(S!Summary(events[c]), e, u, new)
      BY <2>6, SummaryStep
    <3>2. e.time \in Int
      BY <2>6 DEF Records, EventRecord
    <3> HIDE DEF new
    <3> QED BY <3>1, <3>2 DEF InfoTurn
  <2>7. Quiet(c, u) \/ Joins(c, u) \/ Leaves(c, u)
    BY <2>1, <2>2, RosterMove
  <2> HIDE DEF old, new
  <2>8. CASE Quiet(c, u)
    <3>1. CASE events'[c] = events[c]
      <4>1. new = old
        BY <3>1 DEF new, old
      <4> QED BY <1>1, <2>1, <2>3, <2>5, <2>8, <4>1 DEF Quiet
    <3>2. CASE \E e : Records(c, e) /\ ~IsJoinOf(e, u) /\ ~EndsSession(e, u)
      <4>1. new.inClass = old.inClass /\ new.lastJoin = old.lastJoin /\ new.total = old.total
        BY <2>6, <3>2
      <4> QED BY <1>1, <2>1, <2>3, <2>5, <2>8, <4>1 DEF Quiet
    <3> QED BY <2>8, <3>1, <3>2 DEF Quiet
  <2>9. CASE Joins(c, u)
    <3>1. new.inClass = TRUE /\ new.lastJoin = clock' /\ new.total = old.total
      <4>1. PICK e : Records(c, e) /\ IsJoinOf(e, u) /\ e.time = clock'
        BY <2>9 DEF Joins
      <4>2. ~EndsSession(e, u)
        BY <4>1 DEF IsJoinOf, EndsSession
      <4> QED BY <2>6, <4>1, <4>2
    <3>2. u \notin members[c] /\ u \in members'[c]
      BY <2>9 DEF Joins
    <3> QED BY <1>1, <2>1, <2>3, <2>5, <3>1, <3>2
  <2>10. CASE Leaves(c, u)
    <3>1. /\ new.inClass = FALSE
          /\ new.total = IF old.inClass THEN old.total + (clock' - old.lastJoin) ELSE old.total
      <4>1. PICK e : Records(c, e) /\ EndsSession(e, u) /\ e.time = clock'
        BY <2>10 DEF Leaves
      <4>2. ~IsJoinOf(e, u)
        BY <4>1 DEF IsJoinOf, EndsSession
      <4> QED BY <2>6, <4>1, <4>2
    <3>2. u \notin members'[c]
      BY <2>10 DEF Leaves
    <3> QED BY <1>1, <2>1, <2>3, <2>5, <3>1, <3>2
  <2> QED BY <2>7, <2>8, <2>9, <2>10
<1> QED BY <1>2, <1>3

LEMMA AttendInvariance ==
  ASSUME AllSessionsRecorded PROVE ReportSpec => []AttendInv
<1>1. TypeOK /\ TypeOK' /\ AttendInv /\ [ReportNext]_reportVars => AttendInv'
  BY AttendStep
<1> QED
  BY <1>1, AttendInit, TypeCorrect, ReportRefinesClassManager, PTL DEF ReportSpec

\* As long as the server runs, the report accounts for every second a student has spent
\* in a class, over any number of joins, leaves and disconnects, and for no other.
THEOREM DurationsAreRight ==
  ASSUME AllSessionsRecorded
  PROVE  ReportSpec => [](restarts = 0 => DurationIsAttendance)
<1>1. AttendInv => (restarts = 0 => DurationIsAttendance)
  BY DEF AttendInv, Tallied, DurationIsAttendance
<1> QED BY <1>1, AttendInvariance, PTL

\* As long as the server runs, the walk holds exactly the members' sessions open.
THEOREM OpenSessionsAreRight ==
  ASSUME AllSessionsRecorded
  PROVE  ReportSpec => [](restarts = 0 => OpenSessionsAreMembers)
<1>1. AttendInv => (restarts = 0 => OpenSessionsAreMembers)
  BY DEF AttendInv, Tallied, OpenSessionsAreMembers
<1> QED BY <1>1, AttendInvariance, PTL

-----------------------------------------------------------------------------
(* The check-in column. *)

AnswersRecorded == {"CHECKIN_OPENED", "STUDENT_CHECKED_IN"} \subseteq RecordedTypes

NoOpening(log) == \A i \in DOMAIN log : log[i].type # "CHECKIN_OPENED"

\* The openings of a log with one record more.
LEMMA OpeningsOfAppend ==
  ASSUME NEW log \in Seq(EventRecord), NEW e \in EventRecord
  PROVE  /\ NoOpening(Append(log, e)) <=> NoOpening(log) /\ e.type # "CHECKIN_OPENED"
         /\ e.type = "CHECKIN_OPENED" => (OpenedOnce(Append(log, e)) => NoOpening(log))
         /\ e.type # "CHECKIN_OPENED" => (OpenedOnce(Append(log, e)) => OpenedOnce(log))
<1> DEFINE new == Append(log, e)
           n == Len(log)
<1>1. /\ DOMAIN new = DOMAIN log \cup {n + 1} /\ n + 1 \notin DOMAIN log
      /\ \A i \in DOMAIN log : new[i] = log[i]
      /\ new[n + 1] = e
  <2>1. \A i \in DOMAIN log : i < n + 1 /\ i \in Nat /\ n \in Nat
    BY AppendedRecord
  <2>2. n + 1 \notin DOMAIN log
    BY <2>1
  <2> QED BY <2>2, AppendedRecord
<1> HIDE DEF new, n
<1>2. NoOpening(new) <=> NoOpening(log) /\ e.type # "CHECKIN_OPENED"
  BY <1>1 DEF NoOpening
<1>3. ASSUME OpenedOnce(new), e.type = "CHECKIN_OPENED" PROVE NoOpening(log)
  <2>1. PICK i \in DOMAIN new : \A j \in DOMAIN new : new[j].type = "CHECKIN_OPENED" <=> j = i
    BY <1>3 DEF OpenedOnce
  <2>2. i = n + 1
    BY <1>1, <1>3, <2>1
  <2> QED BY <1>1, <2>1, <2>2 DEF NoOpening
<1>4. ASSUME OpenedOnce(new), e.type # "CHECKIN_OPENED" PROVE OpenedOnce(log)
  <2>1. PICK i \in DOMAIN new : \A j \in DOMAIN new : new[j].type = "CHECKIN_OPENED" <=> j = i
    BY <1>4 DEF OpenedOnce
  <2>2. i \in DOMAIN log
    BY <1>1, <1>4, <2>1
  <2> QED BY <1>1, <2>1, <2>2 DEF OpenedOnce
<1> QED BY <1>2, <1>3, <1>4 DEF new

\* What one step does to the check-in of one class.  A record that is neither an
\* opening nor an answer may come with it.
Aside(c) ==
    \/ events'[c] = events[c]
    \/ \E e : Records(c, e) /\ e.type \notin {"CHECKIN_OPENED", "STUDENT_CHECKED_IN"}

Untouched(c) ==
    /\ Aside(c) /\ checkins'[c] = checkins[c]
    /\ \/ status'[c] = status[c]
       \/ status[c] \in {"NONE", "WAITING"}

Closes(c) == Aside(c) /\ status'[c] = "ENDED" /\ checkins'[c] = NoCheckin

Opens(c) ==
    /\ status'[c] = "ACTIVE"
    /\ checkins'[c].open /\ checkins'[c].openTime = clock
    /\ checkins'[c].checkedIn = NobodyCheckedIn
    /\ \E e : /\ Records(c, e) /\ e.type = "CHECKIN_OPENED"
              /\ e.time \in {clock, clock + 1}
              /\ e.detail = checkins'[c].deadline /\ e.detail > 0

Answers(c, u) ==
    /\ status'[c] = status[c] /\ checkins[c].open
    /\ checkins'[c] = [checkins[c] EXCEPT !.checkedIn[u] = clock]
    /\ \E e : /\ Records(c, e) /\ IsAnswerOf(e, u)
              /\ e.time \in {clock, clock + 1}

\* A record about something else, in a step that leaves the check-ins alone.
LEMMA AsideRecorded ==
  ASSUME TypeOK, NEW c \in ClassIds, NEW w \in Accounts, NEW detail \in Nat,
         NEW type \in EventTypes \ {"CHECKIN_OPENED", "STUDENT_CHECKED_IN"},
         AddEvent(c, type, w, detail)
  PROVE  \A d \in ClassIds : Aside(d)
<1> DEFINE e == Event(type, w, detail)
<1>1. /\ \A d \in ClassIds \ {c} : events'[d] = events[d]
      /\ e.type = type
      /\ Records(c, e) \/ events'[c] = events[c]
  BY Recorded
<1> HIDE DEF e
<1> QED BY <1>1 DEF Aside

LEMMA CheckinMove ==
  ASSUME TypeOK, IdsAreFresh, AnswersRecorded, RosterNext, restarts' = restarts,
         NEW d \in ClassIds
  PROVE  Untouched(d) \/ Closes(d) \/ Opens(d) \/ \E v \in Students : Answers(d, v)
<1>0. /\ checkins \in [ClassIds -> CheckinRecord] /\ restarts \in Nat
      /\ \A c \in ClassIds : status[c] \in {"NONE", "WAITING", "ACTIVE", "ENDED"}
      /\ status \in [ClassIds -> {"NONE", "WAITING", "ACTIVE", "ENDED"}]
  BY DEF TypeOK
<1> USE DEF Accounts
<1>1. ASSUME NEW t \in Teachers, CreateClass(t) PROVE Untouched(d)
  <2>1. Aside(d)
    BY <1>1, AsideRecorded DEF CreateClass, EventTypes
  <2>2. status'[d] = status[d] \/ status[d] = "NONE"
    BY <1>0, <1>1 DEF CreateClass, IdsAreFresh, TypeOK
  <2> QED BY <1>1, <2>1, <2>2 DEF CreateClass, Untouched
<1>2. ASSUME NEW c \in ClassIds, NEW t \in Teachers, StartClass(c, t) PROVE Untouched(d)
  <2>1. Aside(d)
    BY <1>2, AsideRecorded DEF StartClass, EventTypes
  <2>2. status'[d] = status[d] \/ status[d] = "WAITING"
    BY <1>0, <1>2 DEF StartClass
  <2> QED BY <1>2, <2>1, <2>2 DEF StartClass, Untouched
<1>3. ASSUME NEW c \in ClassIds, NEW t \in Teachers, EndClass(c, t)
      PROVE  Untouched(d) \/ Closes(d)
  <2>1. Aside(d)
    BY <1>3, AsideRecorded DEF EndClass, EventTypes
  <2>2. /\ status' = [status EXCEPT ![c] = "ENDED"]
        /\ checkins' = [checkins EXCEPT ![c] = NoCheckin]
    BY <1>3 DEF EndClass, Forget
  <2> QED BY <1>0, <2>1, <2>2 DEF Untouched, Closes
<1>4. ASSUME NEW c \in ClassIds, NEW t \in Teachers, NEW seconds \in DeadlineRequests,
             OpenCheckin(c, t, seconds)
      PROVE  Untouched(d) \/ Opens(d)
  <2> DEFINE deadline == IF seconds <= 0 THEN DefaultDeadline ELSE seconds
             e == Event("CHECKIN_OPENED", t, deadline)
             opening == Opening(c, deadline)
  <2>1. deadline \in Nat /\ deadline > 0
    BY NumbersAssumption
  <2>2. /\ status' = status /\ status[c] = "ACTIVE"
        /\ checkins' = [checkins EXCEPT ![c] = opening]
        /\ AddEvent(c, "CHECKIN_OPENED", t, deadline)
    BY <1>4 DEF OpenCheckin, RunBy, lifeVars
  <2> HIDE DEF deadline
  <2>3. /\ \A b \in ClassIds \ {c} : events'[b] = events[b]
        /\ e.type = "CHECKIN_OPENED" /\ e.time = clock' /\ e.detail = deadline
        /\ Records(c, e) /\ clock' \in {clock, clock + 1}
    BY <2>1, <2>2, Recorded DEF AnswersRecorded, EventTypes
  <2>4. /\ opening.open /\ opening.openTime = clock /\ opening.deadline = deadline
        /\ opening.checkedIn = NobodyCheckedIn
    BY DEF Opening, NoCheckin, NobodyCheckedIn
  <2> HIDE DEF e, opening
  <2>5. CASE d = c
    <3>1. checkins'[d] = opening
      BY <1>0, <2>2, <2>5
    <3> QED BY <2>1, <2>2, <2>3, <2>4, <2>5, <3>1 DEF Opens
  <2>6. CASE d # c
    BY <1>0, <2>2, <2>3, <2>6 DEF Untouched, Aside
  <2> QED BY <2>5, <2>6
<1>5. ASSUME NEW c \in ClassIds, NEW u \in Students, Checkin(c, u)
      PROVE  Untouched(d) \/ Answers(d, u)
  <2> DEFINE e == Event("STUDENT_CHECKED_IN", u, 0)
  <2>1. /\ \A b \in ClassIds \ {c} : events'[b] = events[b]
        /\ e.type = "STUDENT_CHECKED_IN" /\ e.user = u /\ e.time = clock'
        /\ Records(c, e) /\ clock' \in {clock, clock + 1}
    BY <1>5, Recorded DEF Checkin, AnswersRecorded, EventTypes
  <2>2. /\ status' = status /\ checkins[c].open
        /\ checkins' = [checkins EXCEPT ![c].checkedIn[u] = clock]
    BY <1>5 DEF Checkin, MayCheckIn, lifeVars
  <2> HIDE DEF e
  <2>3. CASE d = c
    <3>1. checkins'[d] = [checkins[d] EXCEPT !.checkedIn[u] = clock]
      BY <1>0, <2>2, <2>3
    <3> QED BY <2>1, <2>2, <2>3, <3>1 DEF Answers, IsAnswerOf
  <2>4. CASE d # c
    BY <1>0, <2>1, <2>2, <2>4 DEF Untouched, Aside
  <2> QED BY <2>3, <2>4
<1>6. ASSUME NEW c \in ClassIds, NEW u \in Students, JoinClass(c, u) \/ LeaveClass(c, u)
      PROVE  Untouched(d)
  <2>1. Aside(d)
    BY <1>6, AsideRecorded DEF JoinClass, LeaveClass, EventTypes
  <2> QED BY <1>6, <2>1 DEF JoinClass, LeaveClass, lifeVars, Untouched
<1>7. ASSUME NEW u \in Students, RemoveFromAll(u) PROVE Untouched(d)
  <2> DEFINE e == Event("STUDENT_LEFT", u, 0)
  <2>1. clock' \in Nat /\ events'[d] \in {events[d], Append(events[d], e)}
    BY <1>7 DEF RemoveFromAll, Writes, Logged, TypeOK
  <2>2. e \in EventRecord /\ e.type = "STUDENT_LEFT"
    BY <2>1 DEF Event, EventRecord, EventTypes
  <2> HIDE DEF e
  <2>3. Aside(d)
    BY <2>1, <2>2 DEF Records, Aside
  <2> QED BY <1>7, <2>3 DEF RemoveFromAll, lifeVars, Untouched
<1>8. CASE Tick
  BY <1>8 DEF Tick, lifeVars, Untouched, Aside
<1>9. ~Restart
  BY <1>0 DEF Restart
<1> QED
  BY <1>1, <1>2, <1>3, <1>4, <1>5, <1>6, <1>7, <1>8, <1>9 DEF RosterNext, StudentStep

\* The summary's answer for a student whose entry in the attendance list is k: the
\* record of it was stamped then or a second later.
AnswerAgrees(s, k, answer) ==
    IF k = NotYet THEN answer = "absent"
    ELSE \E t \in {k, k + 1} :
            answer = IF t <= s.openTime + s.deadline THEN "on_time" ELSE "late"

\* While there has been one opening, the summary knows it and every answer to it; as
\* long as there has been none, there are no answers.
OpeningAgrees(c) ==
    LET s == S!Summary(events[c])
        list == checkins[c]
    IN  /\ status[c] \in {"NONE", "WAITING"} => NoOpening(events[c])
        /\ NoOpening(events[c]) =>
              ~list.open /\ \A u \in Students : s.info[u].checkin = "absent"
        /\ status[c] = "ACTIVE" /\ OpenedOnce(events[c]) =>
              /\ list.openTime >= 1
              /\ s.openTime \in {list.openTime, list.openTime + 1}
              /\ s.deadline = list.deadline
              /\ \A u \in Students : AnswerAgrees(s, list.checkedIn[u], s.info[u].checkin)

OpeningInv ==
    /\ clock >= 1
    /\ restarts = 0 => \A c \in ClassIds : OpeningAgrees(c)

LEMMA OpeningInit == ReportInit => OpeningInv
<1> SUFFICES ASSUME ReportInit, NEW c \in ClassIds PROVE OpeningAgrees(c)
  BY DEF OpeningInv, ReportInit, Init
<1>1. events[c] = <<>> /\ status[c] = "NONE" /\ checkins[c] = NoCheckin
  BY DEF ReportInit, Init
<1>2. \A u \in Students : S!Summary(events[c]).info[u].checkin = "absent"
  BY <1>1, SummaryOfLog DEF S!EmptySummary, S!NoInfo
<1> QED BY <1>1, <1>2 DEF OpeningAgrees, NoOpening, NoCheckin

\* A record about something else changes nothing the report knows of the check-in.
LEMMA AsideKeeps ==
  ASSUME TypeOK, NEW c \in ClassIds, Aside(c)
  PROVE  LET s == S!Summary(events[c])
             after == S!Summary(events'[c])
         IN  /\ NoOpening(events'[c]) <=> NoOpening(events[c])
             /\ OpenedOnce(events'[c]) => OpenedOnce(events[c])
             /\ after.openTime = s.openTime /\ after.deadline = s.deadline
             /\ \A u \in Students : after.info[u].checkin = s.info[u].checkin
<1>1. CASE events'[c] = events[c]
  BY <1>1
<1>2. CASE \E e : Records(c, e) /\ e.type \notin {"CHECKIN_OPENED", "STUDENT_CHECKED_IN"}
  <2>1. PICK e : Records(c, e) /\ e.type \notin {"CHECKIN_OPENED", "STUDENT_CHECKED_IN"}
    BY <1>2
  <2> DEFINE s == S!Summary(events[c])
             after == S!Summary(events'[c])
  <2>2. /\ OpeningTurn(s, e, after)
        /\ \A u \in Students : InfoTurn(s, e, u, after.info[u])
    BY <2>1, SummaryStep
  <2>3. events[c] \in Seq(EventRecord) /\ e \in EventRecord /\ events'[c] = Append(events[c], e)
    BY <2>1 DEF TypeOK, Records
  <2>4. /\ NoOpening(events'[c]) <=> NoOpening(events[c])
        /\ OpenedOnce(events'[c]) => OpenedOnce(events[c])
    BY <2>1, <2>3, OpeningsOfAppend
  <2> HIDE DEF s, after
  <2>5. after.openTime = s.openTime /\ after.deadline = s.deadline
    BY <2>1, <2>2 DEF OpeningTurn
  <2>6. \A u \in Students : after.info[u].checkin = s.info[u].checkin
    BY <2>1, <2>2 DEF InfoTurn, IsAnswerOf
  <2> QED BY <2>4, <2>5, <2>6 DEF s, after
<1> QED BY <1>1, <1>2 DEF Aside

LEMMA OpeningStep ==
  ASSUME TypeOK, TypeOK', IdsAreFresh, AnswersRecorded, OpeningInv, [ReportNext]_reportVars
  PROVE  OpeningInv'
<1>1. restarts \in Nat /\ clock \in Nat /\ clock' \in Nat
  BY DEF TypeOK
<1>2. CASE UNCHANGED reportVars
  <2>1. UNCHANGED <<events, checkins, status, clock, restarts>>
    BY <1>2 DEF reportVars, cmVars, lifeVars, logVars
  <2> QED BY <2>1 DEF OpeningInv, OpeningAgrees
<1>3. CASE ReportNext
  <2>1. RosterNext
    BY <1>3 DEF ReportNext
  <2>2. /\ clock' \in {clock, clock + 1}
        /\ restarts' = restarts \/ restarts' = restarts + 1
    BY <2>1 DEF RosterNext, CreateClass, StartClass, EndClass, OpenCheckin, StudentStep,
                JoinClass, LeaveClass, Checkin, RemoveFromAll, AddEvent, Writes, Tick, Restart
  <2>3. clock >= 1 /\ clock' >= 1
    BY <1>1, <2>2 DEF OpeningInv
  <2> SUFFICES ASSUME restarts' = 0, NEW c \in ClassIds PROVE OpeningAgrees(c)'
    BY <2>3 DEF OpeningInv
  <2>4. restarts' = restarts /\ OpeningAgrees(c)
    BY <1>1, <2>2 DEF OpeningInv
  <2> DEFINE s == S!Summary(events[c])
             after == S!Summary(events'[c])
  <2>5. /\ s \in SummaryRecord /\ s.info \in [Students -> InfoRecord]
        /\ s.openTime \in Int /\ s.deadline \in Int
        /\ events[c] \in Seq(EventRecord) /\ checkins[c] \in CheckinRecord
    BY SummaryType DEF TypeOK, SummaryRecord
  <2>6. CASE Untouched(c)
    <3>1. /\ NoOpening(events'[c]) <=> NoOpening(events[c])
          /\ OpenedOnce(events'[c]) => OpenedOnce(events[c])
          /\ after.openTime = s.openTime /\ after.deadline = s.deadline
          /\ \A u \in Students : after.info[u].checkin = s.info[u].checkin
      BY <2>6, AsideKeeps DEF Untouched
    <3>2. checkins'[c] = checkins[c]
      BY <2>6 DEF Untouched
    <3> HIDE DEF s, after
    <3>3. CASE status'[c] = status[c]
      BY <2>4, <3>1, <3>2, <3>3 DEF OpeningAgrees, AnswerAgrees, s, after
    <3>4. CASE status[c] \in {"NONE", "WAITING"}
      <4>1. NoOpening(events'[c]) /\ ~OpenedOnce(events'[c])
        <5>1. NoOpening(events[c])
          BY <2>4, <3>4 DEF OpeningAgrees
        <5> QED BY <3>1, <5>1 DEF NoOpening, OpenedOnce
      <4> QED BY <2>4, <3>1, <3>2, <4>1 DEF OpeningAgrees, s, after
    <3> QED BY <2>6, <3>3, <3>4 DEF Untouched
  <2>7. CASE Closes(c)
    <3>1. /\ NoOpening(events'[c]) <=> NoOpening(events[c])
          /\ \A u \in Students : after.info[u].checkin = s.info[u].checkin
      BY <2>7, AsideKeeps DEF Closes
    <3>2. status'[c] = "ENDED" /\ ~checkins'[c].open
      BY <2>7 DEF Closes, NoCheckin
    <3> QED BY <2>4, <3>1, <3>2 DEF OpeningAgrees
  <2>8. CASE Opens(c)
    <3>1. PICK e : /\ Records(c, e) /\ e.type = "CHECKIN_OPENED"
                   /\ e.time \in {clock, clock + 1}
                   /\ e.detail = checkins'[c].deadline /\ e.detail > 0
      BY <2>8 DEF Opens
    <3>2. /\ OpeningTurn(s, e, after)
          /\ \A u \in Students : InfoTurn(s, e, u, after.info[u])
      BY <3>1, SummaryStep
    <3>3. /\ ~NoOpening(events'[c])
          /\ OpenedOnce(events'[c]) => NoOpening(events[c])
      BY <2>5, <3>1, OpeningsOfAppend DEF Records
    <3> HIDE DEF s, after
    <3>4. after.openTime = e.time /\ after.deadline = e.detail
      BY <3>1, <3>2 DEF OpeningTurn
    <3>5. \A u \in Students : after.info[u].checkin = s.info[u].checkin
      BY <3>1, <3>2 DEF InfoTurn, IsAnswerOf
    <3>6. NoOpening(events[c]) => \A u \in Students : s.info[u].checkin = "absent"
      BY <2>4 DEF OpeningAgrees, s
    <3>7. /\ checkins'[c].openTime = clock
          /\ \A u \in Students : checkins'[c].checkedIn[u] = NotYet
          /\ status'[c] = "ACTIVE"
      BY <2>8 DEF Opens, NobodyCheckedIn
    <3> QED BY <2>3, <3>1, <3>3, <3>4, <3>5, <3>6, <3>7 DEF OpeningAgrees, AnswerAgrees, after
  <2>9. ASSUME NEW v \in Students, Answers(c, v) PROVE OpeningAgrees(c)'
    <3>1. PICK e : Records(c, e) /\ IsAnswerOf(e, v) /\ e.time \in {clock, clock + 1}
      BY <2>9 DEF Answers
    <3>2. /\ OpeningTurn(s, e, after)
          /\ \A u \in Students : InfoTurn(s, e, u, after.info[u])
      BY <3>1, SummaryStep
    <3>3. e.type = "STUDENT_CHECKED_IN" /\ e.user = v
      BY <3>1 DEF IsAnswerOf
    <3>4. ~NoOpening(events[c])
      BY <2>4, <2>9 DEF Answers, OpeningAgrees
    <3>5. /\ ~NoOpening(events'[c])
          /\ OpenedOnce(events'[c]) => OpenedOnce(events[c])
      BY <2>5, <3>1, <3>3, <3>4, OpeningsOfAppend DEF Records
    <3>6. status[c] \notin {"NONE", "WAITING"} /\ status'[c] = status[c]
      BY <2>4, <2>9, <3>4 DEF Answers, OpeningAgrees
    <3> HIDE DEF s, after
    <3>7. after.openTime = s.openTime /\ after.deadline = s.deadline
      BY <3>2, <3>3 DEF OpeningTurn
    <3>8. \A u \in Students : after.info[u].checkin =
             IF u = v THEN IF S!InTime(s, e.time) THEN "on_time" ELSE "late"
                      ELSE s.info[u].checkin
      BY <3>2, <3>3 DEF InfoTurn, IsAnswerOf
    <3>9. /\ checkins'[c].openTime = checkins[c].openTime
          /\ checkins'[c].deadline = checkins[c].deadline
          /\ \A u \in Students : checkins'[c].checkedIn[u] =
                IF u = v THEN clock ELSE checkins[c].checkedIn[u]
      BY <2>5, <2>9 DEF Answers, CheckinRecord
    <3>10. ASSUME status[c] = "ACTIVE", OpenedOnce(events[c])
           PROVE  /\ checkins'[c].openTime >= 1
                  /\ after.openTime \in {checkins'[c].openTime, checkins'[c].openTime + 1}
                  /\ after.deadline = checkins'[c].deadline
                  /\ \A u \in Students :
                        AnswerAgrees(after, checkins'[c].checkedIn[u], after.info[u].checkin)
      <4>1. /\ checkins[c].openTime >= 1
            /\ s.openTime \in {checkins[c].openTime, checkins[c].openTime + 1}
            /\ s.deadline = checkins[c].deadline
            /\ \A u \in Students :
                  AnswerAgrees(s, checkins[c].checkedIn[u], s.info[u].checkin)
        BY <2>4, <3>10 DEF OpeningAgrees, s
      <4>2. checkins[c].openTime \in Nat
        BY <2>5 DEF CheckinRecord
      <4>3. s.openTime > 0
        BY <4>1, <4>2
      <4>4. ASSUME NEW u \in Students
            PROVE  AnswerAgrees(after, checkins'[c].checkedIn[u], after.info[u].checkin)
        <5>1. CASE u = v
          <6>1. checkins'[c].checkedIn[u] = clock /\ clock # NotYet
            BY <1>1, <3>9, <5>1, NumbersAssumption
          <6>2. after.info[u].checkin =
                   IF e.time <= after.openTime + after.deadline THEN "on_time" ELSE "late"
            BY <3>7, <3>8, <4>3, <5>1 DEF S!InTime
          <6> QED BY <3>1, <6>1, <6>2 DEF AnswerAgrees
        <5>2. CASE u # v
          BY <3>7, <3>8, <3>9, <4>1, <5>2 DEF AnswerAgrees
        <5> QED BY <5>1, <5>2
      <4> QED BY <3>7, <3>9, <4>1, <4>4
    <3> QED BY <3>5, <3>6, <3>10 DEF OpeningAgrees, after
  <2> QED BY <2>1, <2>4, <2>6, <2>7, <2>8, <2>9, CheckinMove
<1> QED BY <1>2, <1>3

\* The two clocks are at most a second apart on either side of the deadline.
LEMMA LiveMatches ==
  ASSUME TypeOK, OnlyActiveClassesRun, OpeningInv, restarts = 0
  PROVE  LiveListMatchesSummary
<1> SUFFICES ASSUME NEW c \in ClassIds, NEW u \in members[c], OpenedOnce(events[c])
             PROVE  LET live == CheckinStatus(c, u)
                        late == checkins[c].checkedIn[u]
                                    - (checkins[c].openTime + checkins[c].deadline)
                    IN  /\ (live = "absent") <=> (Info(c, u).checkin = "absent")
                        /\ live # Info(c, u).checkin => late \in 0 .. 1
  BY DEF LiveListMatchesSummary
<1> DEFINE s == S!Summary(events[c])
           answer == Info(c, u).checkin
           open == checkins[c].openTime
           deadline == checkins[c].deadline
           k == checkins[c].checkedIn[u]
<1>1. u \in Students /\ status[c] = "ACTIVE"
  BY DEF TypeOK, OnlyActiveClassesRun
<1>2. open \in Nat /\ deadline \in Nat /\ k \in Nat \cup {NotYet}
  BY <1>1 DEF TypeOK, CheckinRecord
<1>3. /\ s.openTime \in {open, open + 1} /\ s.deadline = deadline
      /\ AnswerAgrees(s, k, answer)
  BY <1>1 DEF OpeningInv, OpeningAgrees, Info
<1>4. CheckinStatus(c, u) = IF k = NotYet THEN "absent"
                            ELSE IF k <= open + deadline THEN "on_time" ELSE "late"
  BY DEF CheckinStatus
<1> HIDE DEF s, answer, open, deadline, k
<1>5. CASE k = NotYet
  BY <1>3, <1>4, <1>5 DEF AnswerAgrees, answer, k
<1>6. CASE k \in Nat
  <2>1. k # NotYet
    BY <1>6, NumbersAssumption
  <2>2. PICK t \in {k, k + 1} :
           answer = IF t <= s.openTime + s.deadline THEN "on_time" ELSE "late"
    BY <1>3, <2>1 DEF AnswerAgrees
  <2>3. CASE k <= open + deadline
    <3>1. CheckinStatus(c, u) = "on_time"
      BY <1>4, <2>1, <2>3
    <3>2. answer \in {"on_time", "late"}
      BY <2>2
    <3>3. answer = "late" => k - (open + deadline) \in 0 .. 1
      BY <1>2, <1>3, <1>6, <2>2, <2>3
    <3> QED BY <3>1, <3>2, <3>3 DEF answer, open, deadline, k
  <2>4. CASE ~(k <= open + deadline)
    <3>1. CheckinStatus(c, u) = "late"
      BY <1>4, <2>1, <2>4
    <3>2. answer \in {"on_time", "late"}
      BY <2>2
    <3>3. answer = "on_time" => k - (open + deadline) \in 0 .. 1
      BY <1>2, <1>3, <1>6, <2>2, <2>4
    <3> QED BY <3>1, <3>2, <3>3 DEF answer, open, deadline, k
  <2> QED BY <2>3, <2>4
<1> QED BY <1>2, <1>5, <1>6

\* As long as the server runs, a check-in that was opened once is told the same way by
\* the teacher's live list and by the report, up to a second around the deadline.
THEOREM CheckinColumnIsRight ==
  ASSUME AnswersRecorded
  PROVE  ReportSpec => [](restarts = 0 => LiveListMatchesSummary)
<1>1. TypeOK /\ TypeOK' /\ IdsAreFresh /\ OpeningInv /\ [ReportNext]_reportVars => OpeningInv'
  BY OpeningStep
<1>2. TypeOK /\ OnlyActiveClassesRun /\ OpeningInv => (restarts = 0 => LiveListMatchesSummary)
  BY LiveMatches
<1>3. Inv => TypeOK /\ IdsAreFresh /\ OnlyActiveClassesRun
  BY DEF Inv
<1> QED
  BY <1>1, <1>2, <1>3, OpeningInit, Invariance, ReportRefinesClassManager, PTL DEF ReportSpec

=============================================================================
