---------------------------- MODULE ClassroomProofs ----------------------------
(***************************************************************************)
(* Proofs about Classroom, for any number of windows and connections,      *)
(* queues of any length and any lessons; what is said of students' pages is*)
(* for lessons in which one class runs (OneRuns).                          *)
(*                                                                         *)
(* A page and the server agree as long as what is on its way between them  *)
(* makes up the difference.  For a teacher that is Talk: the page is off   *)
(* and nothing has started, or a success is still on its way to it, or it  *)
(* is on and the classes the server runs are the page's, or a stop is on   *)
(* its way; what the page has asked for and the server has not read yet    *)
(* restricts what it may ask next.  For a student it is MicSays and QSays: *)
(* what the page will say when it has read all that is on its way.         *)
(* TeacherInv and StudentInv say so of every page, next to the invariants  *)
(* of the server and the seats; the topics a page has lost for good are in *)
(* `estranged'.                                                            *)
(***************************************************************************)
EXTENDS Classroom, ThunderServerProofs, FiniteSetTheorems

-----------------------------------------------------------------------------
(* Queues. *)

LEMMA Appended ==
  ASSUME NEW X, NEW s \in Seq(X), NEW x \in X
  PROVE  /\ Append(s, x) \in Seq(X) /\ s \o <<x>> = Append(s, x)
         /\ DOMAIN Append(s, x) = DOMAIN s \cup {Len(s) + 1}
         /\ \A i \in DOMAIN s : Append(s, x)[i] = s[i] /\ i < Len(s) + 1 /\ i \in Nat
         /\ Append(s, x)[Len(s) + 1] = x
         /\ Len(s) \in Nat
  OBVIOUS

LEMMA Taken ==
  ASSUME NEW X, NEW s \in Seq(X), s # <<>>
  PROVE  /\ Head(s) = s[1] /\ 1 \in DOMAIN s /\ Head(s) \in X /\ Tail(s) \in Seq(X)
         /\ \A i \in DOMAIN Tail(s) :
               i \in Nat /\ i # 0 /\ i + 1 \in DOMAIN s /\ Tail(s)[i] = s[i + 1]
         /\ \A i \in DOMAIN s :
               i \in Nat /\ (i # 1 => i > 1 /\ i - 1 \in DOMAIN Tail(s) /\ Tail(s)[i - 1] = s[i])
  OBVIOUS

LEMMA OneOf ==
  ASSUME NEW X, NEW x \in X
  PROVE  <<x>> \in Seq(X)
OBVIOUS

-----------------------------------------------------------------------------
(* A teacher's page and the server, about one medium. *)

Screen == [start |-> "START_SCREEN_SHARE_REQ", stop |-> "STOP_SCREEN_SHARE_REQ",
           frame |-> "SCREEN_FRAME", started |-> "START_SCREEN_SHARE_RESP",
           stopped |-> "STOP_SCREEN_SHARE_RESP"]
Audio == [start |-> "START_AUDIO_REQ", stop |-> "STOP_AUDIO_REQ",
          frame |-> "AUDIO_FRAME", started |-> "START_AUDIO_RESP",
          stopped |-> "STOP_AUDIO_RESP"]

Medium(k) ==
    k.start # k.stop /\ k.start # k.frame /\ k.stop # k.frame /\ k.started # k.stopped

\* The i-th message says that a start, or a stop, has succeeded.
Says(a, i, type) == a[i].type = type /\ a[i].ok

Never(a, type) == \A i \in DOMAIN a : ~Says(a, i, type)
OnlyAt(a, i, type) == Says(a, i, type) /\ \A j \in DOMAIN a : j # i => ~Says(a, j, type)
Lacks(q, types) == \A i \in DOMAIN q : q[i].type \notin types
AllFor(q, type, c) == \A i \in DOMAIN q : q[i].type = type => q[i].class = c
SameClass(q, type) ==
    \A i, j \in DOMAIN q : q[i].type = type /\ q[j].type = type => q[i].class = q[j].class

\* No stop after a start, and no frame as long as the page is in touch; no stop before a
\* start.
StartsLast(k, lost, q) ==
    \A i, j \in DOMAIN q : i < j /\ q[i].type = k.start =>
        q[j].type # k.stop /\ (q[j].type = k.frame => lost)
StartsFirst(k, q) ==
    \A i, j \in DOMAIN q : i < j /\ q[j].type = k.start => q[i].type # k.stop

Off(k, on, where, S, over, lost, q, a) ==
    /\ on = FALSE /\ Never(a, k.started) /\ StartsLast(k, lost, q) /\ SameClass(q, k.start)
    /\ lost \/ (S = {} /\ Never(a, k.stopped))

StartingAt(k, on, where, S, over, lost, q, a, i) ==
    /\ on = FALSE /\ Lacks(q, {k.stop}) /\ (lost \/ Lacks(q, {k.frame}))
    /\ OnlyAt(a, i, k.started)
    /\ AllFor(q, k.start, a[i].class) /\ a[i].class \in S \cup over
    /\ \A j \in DOMAIN a : j > i => ~Says(a, j, k.stopped)
    /\ lost \/ (S = {a[i].class} /\ Never(a, k.stopped))

Starting(k, on, where, S, over, lost, q, a) ==
    \E i \in DOMAIN a : StartingAt(k, on, where, S, over, lost, q, a, i)

On(k, on, where, S, over, lost, q, a) ==
    /\ on = TRUE /\ Never(a, k.started) /\ StartsFirst(k, q)
    /\ \/ Lacks(q, {k.start})
       \/ Never(a, k.stopped) /\ \E c \in S \cup over : AllFor(q, k.start, c)
    /\ \/ lost
       \/ S = {where} /\ Never(a, k.stopped)
       \/ S = {} /\ \E i \in DOMAIN a : OnlyAt(a, i, k.stopped)

Talk(k, on, where, S, over, lost, q, a) ==
    \/ Off(k, on, where, S, over, lost, q, a)
    \/ Starting(k, on, where, S, over, lost, q, a)
    \/ On(k, on, where, S, over, lost, q, a)

\* The page asks for something.
LEMMA TalkAsked ==
  ASSUME NEW k, NEW on, NEW where, NEW S, NEW over, NEW lost,
         NEW X, NEW q \in Seq(X), NEW a \in Seq(X), NEW m \in X, Medium(k),
         Talk(k, on, where, S, over, lost, q, a),
         m.type = k.stop => on = TRUE, m.type = k.frame => on = TRUE \/ lost,
         m.type = k.start =>
            on = FALSE /\ AllFor(q, k.start, m.class) /\ AllFor(a, k.started, m.class)
  PROVE  Talk(k, on, where, S, over, lost, Append(q, m), a)
<1> DEFINE r == Append(q, m)
<1>a. /\ DOMAIN r = DOMAIN q \cup {Len(q) + 1} /\ r[Len(q) + 1] = m /\ Len(q) \in Nat
      /\ \A i \in DOMAIN q : r[i] = q[i] /\ i < Len(q) + 1 /\ i \in Nat
  BY Appended
<1> HIDE DEF r
<1>1. CASE Off(k, on, where, S, over, lost, q, a)
  <2>1. m.type # k.stop /\ (m.type = k.frame => lost)
    BY <1>1 DEF Off
  <2>2. StartsLast(k, lost, r)
    BY <1>1, <1>a, <2>1 DEF Off, StartsLast
  <2>3. SameClass(r, k.start)
    <3>1. SameClass(q, k.start)
      BY <1>1 DEF Off
    <3>2. m.type = k.start => \A i \in DOMAIN q : q[i].type = k.start => q[i].class = m.class
      BY DEF AllFor
    <3>3. SUFFICES ASSUME NEW i \in DOMAIN r, NEW j \in DOMAIN r,
                          r[i].type = k.start, r[j].type = k.start
                   PROVE  r[i].class = r[j].class
      BY DEF SameClass
    <3>4. CASE i \in DOMAIN q /\ j \in DOMAIN q
      BY <1>a, <3>1, <3>3, <3>4 DEF SameClass
    <3>5. CASE i = Len(q) + 1 \/ j = Len(q) + 1
      BY <1>a, <3>2, <3>3, <3>5
    <3> QED BY <1>a, <3>4, <3>5
  <2> QED BY <1>1, <2>2, <2>3 DEF Off, Talk, r
<1>2. CASE Starting(k, on, where, S, over, lost, q, a)
  <2>1. PICK i \in DOMAIN a : StartingAt(k, on, where, S, over, lost, q, a, i)
    BY <1>2 DEF Starting
  <2>2. m.type # k.stop /\ (m.type = k.frame => lost)
    BY <2>1 DEF StartingAt
  <2>4. m.type = k.start => m.class = a[i].class
    BY <2>1 DEF StartingAt, OnlyAt, Says, AllFor
  <2>5. Lacks(r, {k.stop}) /\ (lost \/ Lacks(r, {k.frame}))
    BY <1>a, <2>1, <2>2 DEF StartingAt, Lacks
  <2>6. AllFor(r, k.start, a[i].class)
    BY <1>a, <2>1, <2>4 DEF StartingAt, AllFor
  <2>3. StartingAt(k, on, where, S, over, lost, r, a, i)
    BY <2>1, <2>5, <2>6 DEF StartingAt
  <2> QED BY <2>3 DEF Starting, Talk, r
<1>3. CASE On(k, on, where, S, over, lost, q, a)
  <2>1. m.type # k.start
    BY <1>3 DEF On
  <2>2. StartsFirst(k, r)
    BY <1>3, <1>a, <2>1 DEF On, StartsFirst
  <2>3. Lacks(q, {k.start}) => Lacks(r, {k.start})
    BY <1>a, <2>1 DEF Lacks
  <2>4. \A c : AllFor(q, k.start, c) => AllFor(r, k.start, c)
    BY <1>a, <2>1 DEF AllFor
  <2> QED BY <1>3, <2>2, <2>3, <2>4 DEF On, Talk, r
<1> QED BY <1>1, <1>2, <1>3 DEF Talk

\* Something else is pushed to the page, or a refusal.
LEMMA TalkPushed ==
  ASSUME NEW k, NEW on, NEW where, NEW S, NEW over, NEW lost,
         NEW X, NEW q \in Seq(X), NEW Y, NEW a \in Seq(Y), NEW x \in Y,
         Talk(k, on, where, S, over, lost, q, a),
         x.type \in {k.started, k.stopped} => ~x.ok
  PROVE  Talk(k, on, where, S, over, lost, q, Append(a, x))
<1> DEFINE b == Append(a, x)
<1>a. /\ DOMAIN b = DOMAIN a \cup {Len(a) + 1} /\ b[Len(a) + 1] = x /\ Len(a) \in Nat
      /\ \A i \in DOMAIN a : b[i] = a[i] /\ i < Len(a) + 1 /\ i \in Nat
  BY Appended
<1> HIDE DEF b
<1>b. /\ \A i \in DOMAIN a : Says(b, i, k.started) <=> Says(a, i, k.started)
      /\ \A i \in DOMAIN a : Says(b, i, k.stopped) <=> Says(a, i, k.stopped)
      /\ ~Says(b, Len(a) + 1, k.started) /\ ~Says(b, Len(a) + 1, k.stopped)
  BY <1>a DEF Says
<1>c. /\ Never(a, k.started) => Never(b, k.started)
      /\ Never(a, k.stopped) => Never(b, k.stopped)
  BY <1>a, <1>b DEF Never
<1>d. \A i \in DOMAIN a : /\ OnlyAt(a, i, k.started) => OnlyAt(b, i, k.started)
                          /\ OnlyAt(a, i, k.stopped) => OnlyAt(b, i, k.stopped)
  BY <1>a, <1>b DEF OnlyAt
<1>1. CASE Off(k, on, where, S, over, lost, q, a)
  BY <1>1, <1>c DEF Off, Talk, b
<1>2. CASE Starting(k, on, where, S, over, lost, q, a)
  <2>1. PICK i \in DOMAIN a : StartingAt(k, on, where, S, over, lost, q, a, i)
    BY <1>2 DEF Starting
  <2>2. StartingAt(k, on, where, S, over, lost, q, b, i)
    BY <1>a, <1>b, <1>c, <1>d, <2>1 DEF StartingAt
  <2> QED BY <1>a, <2>2 DEF Starting, Talk, b
<1>3. CASE On(k, on, where, S, over, lost, q, a)
  BY <1>3, <1>a, <1>c, <1>d DEF On, Talk, b
<1> QED BY <1>1, <1>2, <1>3 DEF Talk

\* Classes end, or the page loses touch.
LEMMA TalkGrows ==
  ASSUME NEW k, NEW on, NEW where, NEW S, NEW over, NEW lost, NEW over2, NEW lost2,
         NEW q, NEW a, Talk(k, on, where, S, over, lost, q, a),
         over \subseteq over2, lost => lost2
  PROVE  Talk(k, on, where, S, over2, lost2, q, a)
<1>1. CASE Starting(k, on, where, S, over, lost, q, a)
  BY <1>1 DEF Talk, Starting, StartingAt
<1> QED BY <1>1 DEF Talk, Off, On, StartsLast

\* The oldest request leaves the queue.
LEMMA TalkTaken ==
  ASSUME NEW k, NEW on, NEW where, NEW S, NEW over, NEW lost,
         NEW X, NEW q \in Seq(X), NEW a, q # <<>>,
         Talk(k, on, where, S, over, lost, q, a)
  PROVE  Talk(k, on, where, S, over, lost, Tail(q), a)
<1> DEFINE r == Tail(q)
<1>a. /\ \A i \in DOMAIN r : i \in Nat /\ i + 1 \in DOMAIN q /\ r[i] = q[i + 1]
  BY Taken
<1> HIDE DEF r
<1>1. CASE Off(k, on, where, S, over, lost, q, a)
  <2>1. StartsLast(k, lost, r)
    BY <1>1, <1>a DEF Off, StartsLast
  <2>2. SameClass(r, k.start)
    BY <1>1, <1>a DEF Off, SameClass
  <2> QED BY <1>1, <2>1, <2>2 DEF Off, Talk, r
<1>2. CASE Starting(k, on, where, S, over, lost, q, a)
  BY <1>2, <1>a DEF Starting, StartingAt, Lacks, AllFor, Talk, r
<1>3. CASE On(k, on, where, S, over, lost, q, a)
  <2>1. StartsFirst(k, r)
    BY <1>3, <1>a DEF On, StartsFirst
  <2>2. Lacks(q, {k.start}) => Lacks(r, {k.start})
    BY <1>a DEF Lacks
  <2>3. \A c : AllFor(q, k.start, c) => AllFor(r, k.start, c)
    BY <1>a DEF AllFor
  <2> QED BY <1>3, <2>1, <2>2, <2>3 DEF On, Talk, r
<1> QED BY <1>1, <1>2, <1>3 DEF Talk

\* The server starts what the oldest request asks for.
LEMMA TalkStarts ==
  ASSUME NEW k, NEW on, NEW where, NEW S, NEW over, NEW lost,
         NEW X, NEW q \in Seq(X), NEW Y, NEW a \in Seq(Y), NEW x \in Y, q # <<>>,
         Talk(k, on, where, S, over, lost, q, a), Medium(k),
         Head(q).type = k.start, Head(q).class \notin S \cup over,
         x.type = k.started, x.ok, x.class = Head(q).class
  PROVE  Talk(k, on, where, S \cup {Head(q).class}, over, lost, Tail(q), Append(a, x))
<1> DEFINE r == Tail(q)
           b == Append(a, x)
           n == Len(a) + 1
<1>a. /\ \A i \in DOMAIN r : i \in Nat /\ i # 0 /\ i + 1 \in DOMAIN q /\ r[i] = q[i + 1]
      /\ Head(q) = q[1] /\ 1 \in DOMAIN q
  BY Taken
<1>b. /\ DOMAIN b = DOMAIN a \cup {n} /\ b[n] = x /\ n \in Nat
      /\ \A i \in DOMAIN a : b[i] = a[i] /\ i < n /\ i \in Nat
  BY Appended
<1> HIDE DEF r, b, n
<1>1. Off(k, on, where, S, over, lost, q, a)
  <2>1. ~Starting(k, on, where, S, over, lost, q, a)
    BY <1>a DEF Starting, StartingAt, AllFor
  <2>2. ~On(k, on, where, S, over, lost, q, a)
    BY <1>a DEF On, Lacks, AllFor
  <2> QED BY <2>1, <2>2 DEF Talk
<1>2. Lacks(r, {k.stop}) /\ (lost \/ Lacks(r, {k.frame}))
  BY <1>1, <1>a DEF Off, StartsLast, Lacks
<1>3. AllFor(r, k.start, x.class)
  BY <1>1, <1>a DEF Off, SameClass, AllFor
<1>4. OnlyAt(b, n, k.started)
  BY <1>1, <1>b DEF Off, Never, OnlyAt, Says
<1>5. Never(a, k.stopped) => Never(b, k.stopped)
  BY <1>b DEF Medium, Never, Says
<1>6. StartingAt(k, on, where, S \cup {Head(q).class}, over, lost, r, b, n)
  BY <1>1, <1>2, <1>3, <1>4, <1>5, <1>b DEF StartingAt, Off
<1> QED BY <1>6, <1>b DEF Talk, Starting, r, b

\* The server stops what the oldest request says.
LEMMA TalkStops ==
  ASSUME NEW k, NEW on, NEW where, NEW S, NEW over, NEW lost,
         NEW X, NEW q \in Seq(X), NEW Y, NEW a \in Seq(Y), NEW x \in Y, q # <<>>,
         Talk(k, on, where, S, over, lost, q, a), Medium(k),
         Head(q).type = k.stop, Head(q).class \in S,
         x.type = k.stopped, x.ok
  PROVE  Talk(k, on, where, S \ {Head(q).class}, over, lost, Tail(q), Append(a, x))
<1> DEFINE c == Head(q).class
           b == Append(a, x)
           n == Len(a) + 1
<1>a. Head(q) = q[1] /\ 1 \in DOMAIN q /\ \A i \in DOMAIN q : i \in Nat /\ (i # 1 => i > 1)
  BY Taken
<1>b. /\ DOMAIN b = DOMAIN a \cup {n} /\ b[n] = x /\ n \in Nat
      /\ \A i \in DOMAIN a : b[i] = a[i] /\ i < n /\ i \in Nat
  BY Appended
<1> HIDE DEF b, n, c
<1>c. Never(a, k.started) => Never(b, k.started)
  BY <1>b DEF Medium, Never, Says
<1>1. CASE Off(k, on, where, S, over, lost, q, a)
  <2>1. Off(k, on, where, S \ {c}, over, lost, q, b)
    BY <1>1, <1>c DEF Off
  <2> QED BY <2>1, TalkTaken DEF Talk, b, c
<1>2. ~Starting(k, on, where, S, over, lost, q, a)
  BY <1>a DEF Starting, StartingAt, Lacks
<1>3. CASE On(k, on, where, S, over, lost, q, a)
  <2>1. Lacks(q, {k.start})
    BY <1>3, <1>a DEF On, StartsFirst, Lacks, Medium
  <2>2. \/ lost
        \/ S \ {c} = {} /\ \E i \in DOMAIN b : OnlyAt(b, i, k.stopped)
    <3>1. CASE S = {where} /\ Never(a, k.stopped)
      <4>1. OnlyAt(b, n, k.stopped)
        BY <1>b, <3>1 DEF OnlyAt, Never, Says
      <4> QED BY <1>b, <3>1, <4>1 DEF c
    <3> QED BY <1>3, <3>1 DEF On, c
  <2>3. On(k, on, where, S \ {c}, over, lost, q, b)
    BY <1>3, <1>c, <2>1, <2>2 DEF On
  <2> QED BY <2>3, TalkTaken DEF Talk, b, c
<1> QED BY <1>1, <1>2, <1>3 DEF Talk, c

\* A class of the teacher's ends: if the medium ran in it, nobody tells the page.
LEMMA TalkEnds ==
  ASSUME NEW k, NEW on, NEW where, NEW S, NEW over, NEW lost,
         NEW over2, NEW lost2, NEW c, NEW q, NEW a,
         Talk(k, on, where, S, over, lost, q, a),
         over \subseteq over2, lost => lost2, c \in over2, c \in S => lost2
  PROVE  Talk(k, on, where, S \ {c}, over2, lost2, q, a)
<1>1. CASE c \notin S
  <2>1. S \ {c} = S
    BY <1>1
  <2> QED BY <2>1, TalkGrows
<1>2. CASE c \in S
  <2>1. CASE Off(k, on, where, S, over, lost, q, a)
    BY <1>2, <2>1 DEF Off, Talk
  <2>2. CASE Starting(k, on, where, S, over, lost, q, a)
    BY <1>2, <2>2 DEF Starting, StartingAt, Talk
  <2>3. CASE On(k, on, where, S, over, lost, q, a)
    BY <1>2, <2>3 DEF On, Talk
  <2> QED BY <2>1, <2>2, <2>3 DEF Talk
<1> QED BY <1>1, <1>2

\* What a message makes of the page, for one medium.
OnAfter(k, on, m) ==
    IF m.type = k.started /\ m.ok THEN TRUE
    ELSE IF m.type = k.stopped /\ m.ok THEN FALSE ELSE on
WhereAfter(k, where, m) == IF m.type = k.started /\ m.ok THEN m.class ELSE where

LEMMA TailSays ==
  ASSUME NEW Y, NEW a \in Seq(Y), a # <<>>, NEW type
  PROVE  /\ \A i \in DOMAIN Tail(a) : Says(Tail(a), i, type) <=> Says(a, i + 1, type)
         /\ \A i \in DOMAIN a : i # 1 => (Says(Tail(a), i - 1, type) <=> Says(a, i, type))
         /\ Never(a, type) => Never(Tail(a), type)
         /\ OnlyAt(a, 1, type) => Never(Tail(a), type)
         /\ \A i \in DOMAIN a :
               i # 1 /\ OnlyAt(a, i, type) => OnlyAt(Tail(a), i - 1, type)
<1>1. /\ \A i \in DOMAIN Tail(a) : Says(Tail(a), i, type) <=> Says(a, i + 1, type)
      /\ \A i \in DOMAIN a : i # 1 => (Says(Tail(a), i - 1, type) <=> Says(a, i, type))
  BY Taken DEF Says
<1>2. /\ \A i \in DOMAIN Tail(a) : i \in Nat /\ i # 0 /\ i + 1 \in DOMAIN a /\ i + 1 # 1
      /\ \A i \in DOMAIN a : i \in Nat /\ (i # 1 => i - 1 \in DOMAIN Tail(a))
  BY Taken
<1>3. Never(a, type) => Never(Tail(a), type)
  BY <1>1, <1>2 DEF Never
<1>4. OnlyAt(a, 1, type) => Never(Tail(a), type)
  BY <1>1, <1>2 DEF Never, OnlyAt
<1>5. ASSUME NEW i \in DOMAIN a, i # 1, OnlyAt(a, i, type)
      PROVE  OnlyAt(Tail(a), i - 1, type)
  <2>1. ASSUME NEW j \in DOMAIN Tail(a), j # i - 1 PROVE ~Says(Tail(a), j, type)
    BY <1>1, <1>2, <1>5, <2>1 DEF OnlyAt
  <2> QED BY <1>1, <1>2, <1>5, <2>1 DEF OnlyAt
<1> QED BY <1>1, <1>3, <1>4, <1>5

\* The oldest message leaves the queue of the page without changing what it says.
LEMMA TalkShifted ==
  ASSUME NEW k, NEW on, NEW where, NEW S, NEW over, NEW lost,
         NEW q, NEW Y, NEW a \in Seq(Y), a # <<>>,
         Talk(k, on, where, S, over, lost, q, a),
         ~Says(a, 1, k.started), ~Says(a, 1, k.stopped)
  PROVE  Talk(k, on, where, S, over, lost, q, Tail(a))
<1> DEFINE b == Tail(a)
<1>a. /\ \A i \in DOMAIN b : i \in Nat /\ i # 0 /\ i + 1 \in DOMAIN a /\ b[i] = a[i + 1]
      /\ \A i \in DOMAIN a :
            i \in Nat /\ (i # 1 => i > 1 /\ i - 1 \in DOMAIN b /\ b[i - 1] = a[i])
  BY Taken
<1>b. \A type \in {k.started, k.stopped} :
         /\ \A i \in DOMAIN b : Says(b, i, type) <=> Says(a, i + 1, type)
         /\ Never(a, type) => Never(b, type)
         /\ \A i \in DOMAIN a : i # 1 /\ OnlyAt(a, i, type) => OnlyAt(b, i - 1, type)
  BY TailSays
<1> HIDE DEF b
<1>1. CASE Off(k, on, where, S, over, lost, q, a)
  BY <1>1, <1>b DEF Off, Talk, b
<1>2. CASE Starting(k, on, where, S, over, lost, q, a)
  <2>1. PICK i \in DOMAIN a : StartingAt(k, on, where, S, over, lost, q, a, i)
    BY <1>2 DEF Starting
  <2>2. i # 1 /\ i - 1 \in DOMAIN b /\ b[i - 1] = a[i]
    BY <1>a, <2>1 DEF StartingAt, OnlyAt
  <2>3. \A j \in DOMAIN b : j > i - 1 => ~Says(b, j, k.stopped)
    BY <1>a, <1>b, <2>1 DEF StartingAt
  <2>4. StartingAt(k, on, where, S, over, lost, q, b, i - 1)
    BY <1>b, <2>1, <2>2, <2>3 DEF StartingAt
  <2> QED BY <2>2, <2>4 DEF Starting, Talk, b
<1>3. CASE On(k, on, where, S, over, lost, q, a)
  <2>1. (\E i \in DOMAIN a : OnlyAt(a, i, k.stopped))
            => \E i \in DOMAIN b : OnlyAt(b, i, k.stopped)
    BY <1>a, <1>b DEF OnlyAt
  <2> QED BY <1>3, <1>b, <2>1 DEF On, Talk, b
<1> QED BY <1>1, <1>2, <1>3 DEF Talk

\* The page reads the oldest message.
LEMMA TalkRead ==
  ASSUME NEW k, NEW on \in BOOLEAN, NEW where, NEW S, NEW over, NEW lost,
         NEW q, NEW Y, NEW a \in Seq(Y), a # <<>>, Medium(k),
         Talk(k, on, where, S, over, lost, q, a)
  PROVE  /\ Talk(k, OnAfter(k, on, Head(a)), WhereAfter(k, where, Head(a)), S, over, lost,
                 q, Tail(a))
         /\ Says(a, 1, k.started) => on = FALSE
<1> DEFINE b == Tail(a)
<1>a. /\ \A i \in DOMAIN b : i \in Nat /\ i # 0 /\ i + 1 \in DOMAIN a /\ b[i] = a[i + 1]
      /\ \A i \in DOMAIN a :
            i \in Nat /\ (i # 1 => i > 1 /\ i - 1 \in DOMAIN b /\ b[i - 1] = a[i])
      /\ Head(a) = a[1] /\ 1 \in DOMAIN a
  BY Taken
<1>b. \A type \in {k.started, k.stopped} :
         /\ \A i \in DOMAIN b : Says(b, i, type) <=> Says(a, i + 1, type)
         /\ Never(a, type) => Never(b, type)
         /\ OnlyAt(a, 1, type) => Never(b, type)
         /\ \A i \in DOMAIN a : i # 1 /\ OnlyAt(a, i, type) => OnlyAt(b, i - 1, type)
  BY TailSays
<1> HIDE DEF b
<1>1. CASE Says(a, 1, k.started)
  <2>1. PICK i \in DOMAIN a : StartingAt(k, on, where, S, over, lost, q, a, i)
    BY <1>1, <1>a DEF Talk, Off, On, Never, Starting
  <2>2. i = 1
    BY <1>1, <1>a, <2>1 DEF StartingAt, OnlyAt
  <2>3. Never(b, k.started) /\ Never(b, k.stopped)
    BY <1>a, <1>b, <2>1, <2>2 DEF StartingAt, Never
  <2>4. StartsFirst(k, q)
    BY <2>1 DEF StartingAt, StartsFirst, Lacks
  <2>5. On(k, TRUE, a[1].class, S, over, lost, q, b)
    BY <2>1, <2>2, <2>3, <2>4 DEF StartingAt, On
  <2>6. OnAfter(k, on, Head(a)) = TRUE /\ WhereAfter(k, where, Head(a)) = a[1].class
    BY <1>1, <1>a DEF Says, OnAfter, WhereAfter
  <2> QED BY <2>1, <2>5, <2>6 DEF Talk, b, StartingAt
<1>2. CASE Says(a, 1, k.stopped)
  <2>1. OnAfter(k, on, Head(a)) = FALSE /\ WhereAfter(k, where, Head(a)) = where
    BY <1>2, <1>a DEF Says, OnAfter, WhereAfter, Medium
  <2>2. CASE Off(k, on, where, S, over, lost, q, a)
    BY <1>b, <2>1, <2>2 DEF Off, Talk, b
  <2>3. CASE Starting(k, on, where, S, over, lost, q, a)
    <3>1. PICK i \in DOMAIN a : StartingAt(k, on, where, S, over, lost, q, a, i)
      BY <2>3 DEF Starting
    <3>2. i # 1
      BY <1>2, <3>1 DEF StartingAt, OnlyAt, Says, Medium
    <3>3. i - 1 \in DOMAIN b /\ b[i - 1] = a[i]
      BY <1>a, <3>2
    <3>4. \A j \in DOMAIN b : j > i - 1 => ~Says(b, j, k.stopped)
      BY <1>a, <1>b, <3>1 DEF StartingAt
    <3>5. StartingAt(k, on, where, S, over, lost, q, b, i - 1)
      BY <1>b, <3>1, <3>2, <3>3, <3>4 DEF StartingAt
    <3>6. on = FALSE
      BY <3>1 DEF StartingAt
    <3> QED BY <2>1, <3>3, <3>5, <3>6 DEF Starting, Talk, b
  <2>4. CASE On(k, on, where, S, over, lost, q, a)
    <3>1. Lacks(q, {k.start}) /\ Never(b, k.started)
      BY <1>2, <1>a, <1>b, <2>4 DEF On, Never
    <3>2. StartsLast(k, lost, q) /\ SameClass(q, k.start)
      BY <3>1 DEF Lacks, StartsLast, SameClass
    <3>3. lost \/ (S = {} /\ Never(b, k.stopped))
      BY <1>2, <1>a, <1>b, <2>4 DEF On, Never, OnlyAt
    <3>4. Off(k, FALSE, where, S, over, lost, q, b)
      BY <3>1, <3>2, <3>3 DEF Off
    <3>5. ~Says(a, 1, k.started)
      BY <1>a, <2>4 DEF On, Never
    <3> QED BY <2>1, <3>4, <3>5 DEF Talk, b
  <2> QED BY <2>2, <2>3, <2>4 DEF Talk
<1>3. CASE ~Says(a, 1, k.started) /\ ~Says(a, 1, k.stopped)
  BY <1>3, <1>a, TalkShifted DEF OnAfter, WhereAfter, Says
<1> QED BY <1>1, <1>2, <1>3

\* The page does not see the oldest message.
LEMMA TalkMissed ==
  ASSUME NEW k, NEW on, NEW where, NEW S, NEW over, NEW lost, NEW lost2,
         NEW q, NEW Y, NEW a \in Seq(Y), a # <<>>, Medium(k),
         Talk(k, on, where, S, over, lost, q, a),
         lost => lost2, Says(a, 1, k.started) \/ Says(a, 1, k.stopped) => lost2
  PROVE  Talk(k, on, where, S, over, lost2, q, Tail(a))
<1> DEFINE b == Tail(a)
<1>0. CASE ~Says(a, 1, k.started) /\ ~Says(a, 1, k.stopped)
  BY <1>0, TalkShifted, TalkGrows
<1>1. CASE lost2 /\ (Says(a, 1, k.started) \/ Says(a, 1, k.stopped))
  <2>a. /\ \A i \in DOMAIN b : i \in Nat /\ i # 0 /\ i + 1 \in DOMAIN a /\ b[i] = a[i + 1]
        /\ \A i \in DOMAIN a :
              i \in Nat /\ (i # 1 => i > 1 /\ i - 1 \in DOMAIN b /\ b[i - 1] = a[i])
    BY Taken
  <2>b. \A type \in {k.started, k.stopped} :
           /\ \A i \in DOMAIN b : Says(b, i, type) <=> Says(a, i + 1, type)
           /\ Never(a, type) => Never(b, type)
           /\ OnlyAt(a, 1, type) => Never(b, type)
           /\ \A i \in DOMAIN a : i # 1 /\ OnlyAt(a, i, type) => OnlyAt(b, i - 1, type)
    BY TailSays
  <2> HIDE DEF b
  <2>1. CASE Off(k, on, where, S, over, lost, q, a)
    BY <1>1, <2>b, <2>1 DEF Off, StartsLast, Talk, b
  <2>2. CASE Starting(k, on, where, S, over, lost, q, a)
    <3>1. PICK i \in DOMAIN a : StartingAt(k, on, where, S, over, lost, q, a, i)
      BY <2>2 DEF Starting
    <3>2. CASE i = 1
      <4>1. Never(b, k.started)
        BY <2>b, <3>1, <3>2 DEF StartingAt
      <4>2. StartsLast(k, lost2, q) /\ SameClass(q, k.start)
        BY <1>1, <3>1 DEF StartingAt, StartsLast, SameClass, Lacks, AllFor
      <4> QED BY <1>1, <3>1, <4>1, <4>2 DEF StartingAt, Off, Talk, b
    <3>3. CASE i # 1
      <4>1. i - 1 \in DOMAIN b /\ b[i - 1] = a[i]
        BY <2>a, <3>3
      <4>2. \A j \in DOMAIN b : j > i - 1 => ~Says(b, j, k.stopped)
        BY <2>a, <2>b, <3>1 DEF StartingAt
      <4>3. StartingAt(k, on, where, S, over, lost2, q, b, i - 1)
        BY <1>1, <2>b, <3>1, <3>3, <4>1, <4>2 DEF StartingAt
      <4> QED BY <4>1, <4>3 DEF Starting, Talk, b
    <3> QED BY <3>2, <3>3
  <2>3. CASE On(k, on, where, S, over, lost, q, a)
    BY <1>1, <2>b, <2>3 DEF On, Talk, b
  <2> QED BY <2>1, <2>2, <2>3 DEF Talk
<1> QED BY <1>0, <1>1

\* The connection is lost, and with it all that was under way.
LEMMA TalkDropped ==
  ASSUME NEW k, NEW on, NEW where, NEW S, NEW over, NEW lost, NEW lost2,
         NEW q, NEW a, Talk(k, on, where, S, over, lost, q, a), lost => lost2,
         \A i \in DOMAIN a : Says(a, i, k.started) \/ Says(a, i, k.stopped) => lost2
  PROVE  Talk(k, on, where, S, over, lost2, <<>>, <<>>)
<1>1. /\ Never(<<>>, k.started) /\ Never(<<>>, k.stopped) /\ Lacks(<<>>, {k.start})
      /\ StartsFirst(k, <<>>) /\ StartsLast(k, lost2, <<>>) /\ SameClass(<<>>, k.start)
  BY DEF Never, Lacks, StartsFirst, StartsLast, SameClass
<1>2. CASE Off(k, on, where, S, over, lost, q, a)
  BY <1>1, <1>2 DEF Off, Talk
<1>3. CASE Starting(k, on, where, S, over, lost, q, a)
  BY <1>1, <1>3 DEF Starting, StartingAt, OnlyAt, Off, Talk
<1>4. CASE On(k, on, where, S, over, lost, q, a)
  BY <1>1, <1>4 DEF On, OnlyAt, Talk
<1> QED BY <1>2, <1>3, <1>4 DEF Talk

\* Somebody logs in, whatever the user before has left on the page.
LEMMA TalkBegins ==
  ASSUME NEW k, NEW on \in BOOLEAN, NEW where, NEW S, NEW over
  PROVE  Talk(k, on, where, S, over, TRUE, <<>>, <<>>)
<1>1. /\ Never(<<>>, k.started) /\ Lacks(<<>>, {k.start})
      /\ StartsFirst(k, <<>>) /\ StartsLast(k, TRUE, <<>>) /\ SameClass(<<>>, k.start)
  BY DEF Never, Lacks, StartsFirst, StartsLast, SameClass
<1>2. CASE on = FALSE
  BY <1>1, <1>2 DEF Off, Talk
<1>3. CASE on = TRUE
  BY <1>1, <1>3 DEF On, Talk
<1> QED BY <1>2, <1>3

-----------------------------------------------------------------------------
(* The server in a lesson. *)

ServerInv == SessionInv /\ CMP!Inv /\ RosterIsOnline /\ QMP!QuestionInv

LEMMA ServerInvStep ==
  ASSUME ServerInv, [Next]_vars
  PROVE  ServerInv'
<1> USE DEF ServerInv
<1>1. CMP!TypeOK /\ CM!TypeOK
  BY SameTypes DEF CMP!Inv
<1>2. [CMP!Next]_CMP!cmVars
  BY <1>1, ClassManagerStep, SameClassNext DEF SessionInv
<1>3. CMP!Inv'
  <2>1. CMP!TypeOK'
    BY <1>1, <1>2, CMP!TypeStep, ConstantsAreFine
  <2>2. CMP!IdsAreFresh'
    BY <1>1, <1>2, CMP!FreshStep, ConstantsAreFine DEF CMP!Inv
  <2>3. (CMP!OnlyActiveClassesRun /\ CMP!MicNeedsAudio)'
    BY <1>2, CMP!RunStep, ConstantsAreFine
  <2> QED BY <2>1, <2>2, <2>3 DEF CMP!Inv
<1>4. QMP!QuestionInv'
  BY QuestionManagerStep, SameQuestionNext, QMP!QuestionStep, ConstantsAreFine
<1> QED BY <1>1, <1>3, <1>4, LinkedStep, RosterStep

RequestRecord ==
    { m \in [type : RequestTypes, class : ClassIds \cup {NoClass},
             user : Students \cup {NoUser}, question : Nat \cup {NoQuestion}] :
        m.type # "LOGOUT_REQ" => m.class \in ClassIds }

ResponseTypes ==
    {"START_SCREEN_SHARE_RESP", "STOP_SCREEN_SHARE_RESP", "START_AUDIO_RESP",
     "STOP_AUDIO_RESP", "RANDOM_CALL_RESP"}

NoticeTypes ==
    {"NOTIFY_CHECKIN_OPENED", "NOTIFY_RANDOM_CALLED", "NOTIFY_QUESTION_PUBLISHED",
     "NOTIFY_SCREEN_SHARE_STARTED", "NOTIFY_SCREEN_SHARE_STOPPED", "NOTIFY_SCREEN_FRAME",
     "NOTIFY_AUDIO_STARTED", "NOTIFY_AUDIO_STOPPED", "NOTIFY_AUDIO_FRAME",
     "NOTIFY_MIC_GRANTED", "NOTIFY_MIC_REVOKED"}

MessageRecord ==
    [type : ResponseTypes, class : ClassIds, ok : BOOLEAN]
    \cup [type : NoticeTypes, class : ClassIds, question : Nat \cup {NoQuestion}]

TeacherRecord ==
    [class : ClassIds, sharing : BOOLEAN, shareTimers : Int, sharedIn : Nat,
     audio : BOOLEAN, audioIn : Nat, hasty : BOOLEAN, dialog : BOOLEAN]

StudentRecord ==
    [class : ClassIds, question : Nat \cup {NoQuestion}, mic : BOOLEAN, dialog : BOOLEAN]

RoomTypes ==
    /\ lesson \in Lessons
    /\ nextClientId \in Nat
    /\ fdOf \in [People -> Fds \cup {NoFd}]
    /\ shown \in [People -> BOOLEAN]
    /\ toServer \in [Fds -> Seq(RequestRecord)]
    /\ toClient \in [Fds -> Seq(MessageRecord)]
    /\ teacherPage \in [People -> TeacherRecord]
    /\ studentPage \in [People -> StudentRecord]

LogoutUnderWay(u) ==
    \E i \in DOMAIN toServer[fdOf[u]] : toServer[fdOf[u]][i].type = "LOGOUT_REQ"

\* The user behind each connection is the one at its window, and a connection that is
\* not yet handed out carries nothing.  Whoever has left the page and is still logged in
\* has a logout on the way, so nobody is displaced.
SeatsAreKept ==
    /\ displaced = {}
    /\ \A u \in People : ~shown[u] /\ userIdToFd[u] # NoFd => LogoutUnderWay(u)
    /\ \A u \in Users : userIdToFd[u] # NoFd => u \in People /\ userIdToFd[u] = fdOf[u]
    /\ \A u, v \in People : fdOf[u] # NoFd /\ fdOf[u] = fdOf[v] => u = v
    /\ \A u \in People : fdOf[u] # NoFd => fdOf[u] \in clients
    /\ \A fd \in clients : fd < nextClientId
    /\ \A fd \in Fds : fd >= nextClientId => toServer[fd] = <<>> /\ toClient[fd] = <<>>

\* Nobody is logged in on a connection with the login page and nothing under way.
LEMMA LoginIsFirst ==
  ASSUME ServerInv, SeatsAreKept, RoomTypes, NEW u \in People, NEW v \in People, LogsIn(v, u)
  PROVE  /\ fdOf[u] \in Fds /\ Caller(fdOf[u]) = NoUser
         /\ userIdToFd[u] = NoFd /\ userIdToFd[v] = NoFd
         /\ displaced' = displaced
<1>1. fdOf[u] \in Fds /\ userIdToFd[v] = NoFd
  BY DEF LogsIn, RoomTypes, LoginReq, SM!Login, SM!IsLoggedIn
<1>2. userIdToFd[u] = NoFd
  <2>1. toServer[fdOf[u]] = <<>> /\ ~shown[u]
    BY DEF LogsIn, Drained
  <2>2. ~LogoutUnderWay(u)
    BY <2>1 DEF LogoutUnderWay
  <2> QED BY <2>1, <2>2 DEF SeatsAreKept
<1>3. ASSUME Caller(fdOf[u]) # NoUser PROVE FALSE
  <2> DEFINE w == Caller(fdOf[u])
  <2>1. w \in Users /\ userIdToFd[w] = fdOf[u]
    BY <1>1, <1>3 DEF ServerInv, SessionInv, Sessions, SM!TypeOK, Linked, Caller,
                      SM!GetUser, SM!GetFd
  <2>2. w \in People /\ fdOf[w] = fdOf[u] /\ fdOf[u] # NoFd
    BY <1>1, <2>1, ConstantsAreFine DEF SeatsAreKept
  <2>3. w = u
    BY <2>2 DEF SeatsAreKept
  <2> QED BY <1>1, <1>2, <2>1, <2>3, ConstantsAreFine
<1>4. displaced' = displaced
  BY <1>3 DEF LogsIn, LoginReq
<1> QED BY <1>1, <1>2, <1>3, <1>4

LEMMA PerformsStep ==
  ASSUME ServerInv, NEW fd \in Fds, NEW m \in RequestRecord, Performs(fd, m)
  PROVE  Next
<1>1. m.type # "LOGOUT_REQ" => m.class \in ClassIds
  BY DEF RequestRecord
<1>2. CASE m.type = "LOGOUT_REQ" /\ LogoutReq(fd)
  BY <1>2 DEF Next, SessionRequest
<1>3. CASE m.type = "SUBMIT_ANSWER_REQ"
           /\ \E answer \in AnswerRequests : SubmitAnswerReq(fd, m.question, answer)
  BY <1>3 DEF Next, SubmitAnswerReq, QM!KnownQuestions, QM!QuestionIds
<1>4. CASE m.type = "GRANT_MIC_REQ" /\ GrantMicReq(fd, m.class, m.user)
  <2>1. m.user \in Students
    BY <1>1, <1>4 DEF GrantMicReq, CM!GrantMic, ServerInv, CMP!Inv, CMP!TypeOK, ClassIds,
                      CMP!ClassIds
  <2> QED BY <1>1, <1>4, <2>1 DEF Next, MediaRequest
<1>5. CASE \/ m.type = "START_CLASS_REQ" /\ StartClassReq(fd, m.class)
           \/ m.type = "END_CLASS_REQ" /\ EndClassReq(fd, m.class)
           \/ m.type = "JOIN_CLASS_REQ" /\ JoinClassReq(fd, m.class)
           \/ m.type = "LEAVE_CLASS_REQ" /\ LeaveClassReq(fd, m.class)
           \/ /\ m.type = "OPEN_CHECKIN_REQ"
              /\ \E seconds \in DeadlineRequests : OpenCheckinReq(fd, m.class, seconds)
           \/ m.type = "CHECKIN_REQ" /\ CheckinReq(fd, m.class)
           \/ m.type = "RANDOM_CALL_REQ" /\ \E u \in Students : RandomCallReq(fd, m.class, u)
           \/ m.type = "PUBLISH_QUESTION_REQ" /\ PublishQuestionReq(fd, m.class)
  BY <1>1, <1>5 DEF Next, ClassRequest
<1>6. CASE \/ m.type = "START_SCREEN_SHARE_REQ" /\ StartScreenShareReq(fd, m.class)
           \/ m.type = "STOP_SCREEN_SHARE_REQ" /\ StopScreenShareReq(fd, m.class)
           \/ m.type = "SCREEN_FRAME" /\ ScreenFrame(fd, m.class)
           \/ m.type = "START_AUDIO_REQ" /\ StartAudioReq(fd, m.class)
           \/ m.type = "STOP_AUDIO_REQ" /\ StopAudioReq(fd, m.class)
           \/ m.type = "AUDIO_FRAME" /\ AudioFrame(fd, m.class)
           \/ m.type = "REVOKE_MIC_REQ" /\ RevokeMicReq(fd, m.class)
  BY <1>1, <1>6 DEF Next, MediaRequest
<1> QED BY <1>2, <1>3, <1>4, <1>5, <1>6 DEF Performs

\* What the server does in a step of a lesson.
LEMMA RoomStepKinds ==
  ASSUME RoomTypes, [RoomNext]_roomVars
  PROVE  \/ \E fd \in Fds : Handle(fd)
         \/ \E u \in People : LosesConnection(u) \/ Reconnects(u)
         \/ \E u, v \in People : LogsIn(v, u)
         \/ ServerIdle
         \/ UNCHANGED roomVars
BY DEF RoomNext, WindowStep, Receives, ClosesDialog, ClicksLogout, TeacherClicks,
       TeacherEnters, SendsScreen, TeacherSpeaks, Speaks, StudentClicks, StudentEnters,
       StudentSpeaks

LEMMA HeadRequest ==
  ASSUME RoomTypes, NEW fd \in Fds, toServer[fd] # <<>>
  PROVE  Head(toServer[fd]) \in RequestRecord /\ Tail(toServer[fd]) \in Seq(RequestRecord)
BY DEF RoomTypes

\* Every step of a lesson is one of the server, or none.
LEMMA RoomStepIsServerStep ==
  ASSUME ServerInv, SeatsAreKept, RoomTypes, [RoomNext]_roomVars
  PROVE  [Next]_vars
<1>1. ASSUME NEW fd \in Fds, Handle(fd)
      PROVE  Next
  <2>1. Head(toServer[fd]) \in RequestRecord
    BY <1>1, HeadRequest DEF Handle
  <2>2. CASE Performs(fd, Head(toServer[fd]))
    BY <2>1, <2>2, PerformsStep
  <2>3. CASE Quietly /\ OnlySends
    BY <2>3 DEF Next, NobodyIdle
  <2> QED BY <1>1, <2>2, <2>3 DEF Handle
<1>2. ASSUME NEW u \in People, LosesConnection(u) \/ Reconnects(u)
      PROVE  Next
  BY <1>2 DEF LosesConnection, Reconnects, Next, RoomTypes
<1>3. ASSUME NEW u \in People, NEW v \in People, LogsIn(v, u)
      PROVE  Next
  <2>1. fdOf[u] \in Fds /\ v \in Users
    BY <1>3, LoginIsFirst DEF People, Users
  <2> QED BY <1>3, <2>1 DEF LogsIn, Next, SessionRequest
<1>4. CASE ServerIdle
  BY <1>4 DEF ServerIdle, Next, NobodyIdle
<1>5. CASE UNCHANGED roomVars
  BY <1>5 DEF roomVars
<1> QED BY <1>1, <1>2, <1>3, <1>4, <1>5, RoomStepKinds

-----------------------------------------------------------------------------
(* What a handler pushes and replies. *)

\* No handler opens or closes a connection or moves a session.
LEMMA PerformsKeeps ==
  ASSUME ServerInv, NEW fd \in Fds, NEW m, Performs(fd, m)
  PROVE  /\ UNCHANGED <<connVars, displaced>>
         /\ \A u \in Users : userIdToFd'[u] \in {userIdToFd[u], NoFd}
<1>1. LogoutReq(fd) => \A u \in Users : userIdToFd'[u] \in {userIdToFd[u], NoFd}
  BY DEF LogoutReq, EndSession, SM!Logout
<1>2. m.type # "LOGOUT_REQ" => userIdToFd' = userIdToFd
  BY DEF Performs, StartClassReq, EndClassReq, JoinClassReq, LeaveClassReq, OpenCheckinReq,
         CheckinReq, RandomCallReq, PublishQuestionReq, SubmitAnswerReq,
         StartScreenShareReq, StopScreenShareReq, ScreenFrame, StartAudioReq,
         StopAudioReq, AudioFrame, GrantMicReq, RevokeMicReq, OnlyClasses, OnlyQuestions,
         OnlySends, smVars
<1>3. UNCHANGED <<connVars, displaced>>
  BY DEF Performs, LogoutReq, EndSession, smVars, StartClassReq, EndClassReq, JoinClassReq,
         LeaveClassReq, OpenCheckinReq, CheckinReq, RandomCallReq, PublishQuestionReq,
         SubmitAnswerReq, StartScreenShareReq, StopScreenShareReq, ScreenFrame,
         StartAudioReq, StopAudioReq, AudioFrame, GrantMicReq, RevokeMicReq, OnlyClasses,
         OnlyQuestions, OnlySends
<1> QED BY <1>1, <1>2, <1>3 DEF Performs

\* A logout is never refused: the user at the window is logged out.
LEMMA LogoutEnds ==
  ASSUME ServerInv, SeatsAreKept, NEW fd \in Fds, NEW m, Performs(fd, m),
         m.type = "LOGOUT_REQ", NEW u \in Users, userIdToFd[u] = fd
  PROVE  userIdToFd'[u] = NoFd
<1>1. SM!Logout(fd)
  BY DEF Performs, LogoutReq, EndSession
<1>2. SM!GetUser(fd) = u
  BY ConstantsAreFine DEF ServerInv, SessionInv, Linked, AccountsFollowConnections, SM!GetFd,
                          SM!GetUser, SM!IsLoggedIn, SeatsAreKept
<1> QED BY <1>1, <1>2 DEF SM!Logout

\* The requests that push something.
Notifying ==
    {"OPEN_CHECKIN_REQ", "RANDOM_CALL_REQ", "PUBLISH_QUESTION_REQ",
     "START_SCREEN_SHARE_REQ", "STOP_SCREEN_SHARE_REQ", "SCREEN_FRAME",
     "START_AUDIO_REQ", "STOP_AUDIO_REQ", "AUDIO_FRAME", "GRANT_MIC_REQ",
     "REVOKE_MIC_REQ"}

LEMMA OthersAreQuiet ==
  ASSUME NEW fd, NEW m, Performs(fd, m), m.type \notin Notifying
  PROVE  sent' = {}
BY DEF Performs, Notifying, LogoutReq, EndSession, StartClassReq, EndClassReq,
       JoinClassReq, LeaveClassReq, CheckinReq, SubmitAnswerReq, Quietly

\* A notification is about the class of the request and goes to an open connection.
PushedFor(n, c, u) ==
    \E type \in NoticeTypes : \E v :
        /\ n = [to |-> SM!GetFd(v), user |-> v, msg |-> Message(type, c, u)]
        /\ SM!GetFd(v) \in clients

LEMMA PushedToSome ==
  ASSUME NEW users, NEW type \in NoticeTypes, NEW c, NEW u,
         NEW n \in PushTo(users, Message(type, c, u))
  PROVE  PushedFor(n, c, u)
BY DEF PushTo, PushedFor

LEMMA PushedByHandler ==
  ASSUME NEW fd \in Fds, NEW m, Performs(fd, m), NEW n \in sent'
  PROVE  PushedFor(n, m.class, Caller(fd)) /\ m.type # "LOGOUT_REQ"
<1> USE PushedToSome DEF NoticeTypes, Broadcast
<1>0. m.type \in Notifying
  BY OthersAreQuiet
<1>1. CASE m.type \in {"OPEN_CHECKIN_REQ", "RANDOM_CALL_REQ", "PUBLISH_QUESTION_REQ"}
  BY <1>1 DEF Performs, OpenCheckinReq, RandomCallReq, PublishQuestionReq
<1>2. CASE m.type \in {"START_SCREEN_SHARE_REQ", "STOP_SCREEN_SHARE_REQ", "SCREEN_FRAME"}
  BY <1>2 DEF Performs, StartScreenShareReq, StopScreenShareReq, ScreenFrame
<1>3. CASE m.type \in {"START_AUDIO_REQ", "STOP_AUDIO_REQ", "AUDIO_FRAME"}
  BY <1>3 DEF Performs, StartAudioReq, StopAudioReq, AudioFrame
<1>4. CASE m.type \in {"GRANT_MIC_REQ", "REVOKE_MIC_REQ"}
  BY <1>4 DEF Performs, GrantMicReq, RevokeMicReq
<1> QED BY <1>0, <1>1, <1>2, <1>3, <1>4 DEF Notifying

\* A step of the server end: the request is performed, or refused without a push.
Served(fd, m) == Performs(fd, m) \/ (Quietly /\ OnlySends)

LEMMA PushedType ==
  ASSUME ServerInv, ServerInv', NEW fd \in Fds, NEW m \in RequestRecord, Served(fd, m),
         NEW g \in Fds
  PROVE  \/ PushedOn(g) = <<>>
         \/ /\ g \in clients
            /\ \E x \in MessageRecord : x.type \in NoticeTypes /\ PushedOn(g) = <<x>>
<1>1. CASE \E n \in sent' : n.to = g /\ n.msg.type \in Noticed
  <2> DEFINE n == CHOOSE n \in sent' : n.to = g
             x == [type |-> n.msg.type, class |-> n.msg.class,
                   question |-> IF n.msg.type = "NOTIFY_QUESTION_PUBLISHED"
                                THEN activeQuestion'[n.msg.class] ELSE 0]
  <2>1. n \in sent' /\ n.to = g
    BY <1>1
  <2>2. PushedOn(g) = <<x>>
    BY <1>1 DEF PushedOn
  <2> HIDE DEF n
  <2>3. PushedFor(n, m.class, Caller(fd)) /\ m.class \in ClassIds
    BY <2>1, PushedByHandler DEF RequestRecord, Served, Quietly
  <2>4. activeQuestion'[m.class] \in Nat \cup {NoQuestion}
    BY <2>3 DEF ServerInv, QMP!QuestionInv, QMP!TypeOK, QMP!QuestionIds
  <2>5. n.msg.type \in NoticeTypes /\ n.msg.class = m.class /\ n.to \in clients
    BY <2>3 DEF PushedFor, Message
  <2>6. x \in MessageRecord /\ x.type \in NoticeTypes
    BY <2>3, <2>4, <2>5 DEF MessageRecord
  <2> QED BY <2>1, <2>2, <2>5, <2>6
<1>2. CASE ~\E n \in sent' : n.to = g /\ n.msg.type \in Noticed
  BY <1>2 DEF PushedOn
<1> QED BY <1>1, <1>2

LEMMA ReplyType ==
  ASSUME NEW m \in RequestRecord, NEW ok \in BOOLEAN
  PROVE  \/ m.type \notin DOMAIN ResponseOf /\ Reply(m, ok) = <<>>
         \/ /\ m.type \in DOMAIN ResponseOf
            /\ \E x \in MessageRecord :
                  /\ Reply(m, ok) = <<x>>
                  /\ x.type = ResponseOf[m.type] /\ x.class = m.class /\ x.ok = ok
<1>1. CASE m.type \in DOMAIN ResponseOf
  <2> DEFINE x == [type |-> ResponseOf[m.type], class |-> m.class, ok |-> ok]
  <2>1. m.type # "LOGOUT_REQ" /\ ResponseOf[m.type] \in ResponseTypes
    BY <1>1 DEF ResponseOf, ResponseTypes
  <2>2. m.class \in ClassIds
    BY <2>1 DEF RequestRecord
  <2>3. x \in MessageRecord
    BY <2>1, <2>2 DEF MessageRecord
  <2> QED BY <1>1, <2>3 DEF Reply
<1>2. CASE m.type \notin DOMAIN ResponseOf
  BY <1>2 DEF Reply
<1> QED BY <1>1, <1>2

-----------------------------------------------------------------------------
(* What a window does. *)

To(u) == IF fdOf[u] = NoFd THEN <<>> ELSE toServer[fdOf[u]]
From(u) == IF fdOf[u] = NoFd THEN <<>> ELSE toClient[fdOf[u]]
Lost(u, topic) == <<u, topic>> \in estranged

LEMMA ShareTypes ==
  ASSUME NEW p \in TeacherRecord, NEW c \in Nat
  PROVE  TP!ShareStarted(p, c) \in TeacherRecord /\ TP!ShareStopped(p) \in TeacherRecord
<1>1. ASSUME NEW n \in Int, NEW b \in BOOLEAN
      PROVE  /\ [p EXCEPT !.sharing = b, !.shareTimers = n, !.sharedIn = c] \in TeacherRecord
             /\ [p EXCEPT !.sharing = b, !.shareTimers = n] \in TeacherRecord
  BY DEF TeacherRecord
<1>2. /\ p.shareTimers + 1 \in Int
      /\ (IF p.sharing THEN p.shareTimers - 1 ELSE p.shareTimers) \in Int
  BY DEF TeacherRecord
<1>3. TP!ShareStarted(p, c)
        = [p EXCEPT !.sharing = TRUE, !.shareTimers = p.shareTimers + 1, !.sharedIn = c]
  BY DEF TP!ShareStarted, TeacherRecord
<1>4. TP!ShareStopped(p)
        = [p EXCEPT !.sharing = FALSE,
                    !.shareTimers = IF p.sharing THEN p.shareTimers - 1 ELSE p.shareTimers]
  BY DEF TP!ShareStopped, TeacherRecord
<1> QED BY <1>1, <1>2, <1>3, <1>4

LEMMA TeacherPageAfter ==
  ASSUME NEW p \in TeacherRecord, NEW m \in MessageRecord
  PROVE  LET after == TP!AfterMessage(p, m) IN
         /\ after \in TeacherRecord
         /\ after.sharing = OnAfter(Screen, p.sharing, m)
         /\ after.sharedIn = WhereAfter(Screen, p.sharedIn, m)
         /\ after.audio = OnAfter(Audio, p.audio, m)
         /\ after.audioIn = WhereAfter(Audio, p.audioIn, m)
         /\ after.hasty = p.hasty
         /\ after.shareTimers = IF m.type = Screen.started /\ m.ok THEN p.shareTimers + 1
                                ELSE IF m.type = Screen.stopped /\ m.ok /\ p.sharing
                                     THEN p.shareTimers - 1 ELSE p.shareTimers
<1> DEFINE after == TP!AfterMessage(p, m)
<1> USE DEF OnAfter, WhereAfter, Screen, Audio
<1>0. m.class \in Nat
  BY ManagersAssumption DEF MessageRecord, ClassIds
<1>1. CASE m.type = "START_SCREEN_SHARE_RESP" /\ m.ok
  <2>1. after = TP!ShareStarted(p, m.class)
    BY <1>1 DEF TP!AfterMessage
  <2>2. after \in TeacherRecord
    BY <1>0, <2>1, ShareTypes
  <2> QED BY <1>1, <2>1, <2>2 DEF TP!ShareStarted, TeacherRecord
<1>2. CASE m.type = "STOP_SCREEN_SHARE_RESP" /\ m.ok
  <2>1. after = TP!ShareStopped(p)
    BY <1>2 DEF TP!AfterMessage
  <2>2. after \in TeacherRecord
    BY <1>0, <2>1, ShareTypes
  <2> QED BY <1>2, <2>1, <2>2 DEF TP!ShareStopped, TeacherRecord
<1>3. CASE m.type = "START_AUDIO_RESP" /\ m.ok
  BY <1>0, <1>3 DEF TP!AfterMessage, TP!AudioStarted, TeacherRecord
<1>4. CASE m.type = "STOP_AUDIO_RESP" /\ m.ok
  BY <1>4 DEF TP!AfterMessage, TP!AudioStopped, TeacherRecord
<1>5. CASE m.type = "RANDOM_CALL_RESP" /\ m.ok
  BY <1>5 DEF TP!AfterMessage, TP!Alerted, TeacherRecord
<1>6. CASE ~m.ok \/ m.type \notin ResponseTypes
  BY <1>6 DEF TP!AfterMessage, ResponseTypes
<1> QED BY <1>1, <1>2, <1>3, <1>4, <1>5, <1>6 DEF ResponseTypes

LEMMA StudentPageAfter ==
  ASSUME NEW p \in StudentRecord, NEW m \in MessageRecord
  PROVE  LET after == SP!AfterMessage(p, m) IN
         /\ after \in StudentRecord
         /\ after.mic <=> (p.mic \/ m.type = "NOTIFY_MIC_GRANTED") /\ m.type \notin SP!MicLosses
         /\ after.question = IF m.type = "NOTIFY_QUESTION_PUBLISHED" THEN m.question
                             ELSE p.question
<1> DEFINE mic == SP!MicAfter(p, m)
           dialog == m.type \in SP!Alerts
           question == SP!QuestionAfter(p, m)
           after == [p EXCEPT !.mic = mic, !.question = question, !.dialog = dialog]
<1>1. question \in Nat \cup {NoQuestion}
  BY DEF MessageRecord, ResponseTypes, SP!QuestionAfter, StudentRecord
<1>2. mic \in BOOLEAN /\ dialog \in BOOLEAN
  BY DEF SP!MicAfter
<1>3. mic <=> (p.mic \/ m.type = "NOTIFY_MIC_GRANTED") /\ m.type \notin SP!MicLosses
  BY DEF SP!MicAfter
<1>4. question = IF m.type = "NOTIFY_QUESTION_PUBLISHED" THEN m.question ELSE p.question
  BY DEF SP!QuestionAfter
<1>5. SP!AfterMessage(p, m) = after
  BY DEF SP!AfterMessage
<1> HIDE DEF mic, dialog, question
<1>6. after \in StudentRecord /\ after.mic = mic /\ after.question = question
  BY <1>1, <1>2 DEF StudentRecord
<1> QED BY <1>3, <1>4, <1>5, <1>6

\* What a teacher's page asks for, it may ask for: a frame may also come from the
\* microphone of a page that is out of touch.
AsksFairly(k, on, lost, q, a, m) ==
    /\ m.type = k.stop => on = TRUE
    /\ m.type = k.frame => on = TRUE \/ lost
    /\ m.type = k.start =>
          on = FALSE /\ AllFor(q, k.start, m.class) /\ AllFor(a, k.started, m.class)

\* What a page says of its media stays, and a hasty page is one for good.
KeepsPages ==
    /\ teacherPage' \in [People -> TeacherRecord]
    /\ \A u \in People :
          /\ teacherPage'[u].sharing = teacherPage[u].sharing
          /\ teacherPage'[u].shareTimers = teacherPage[u].shareTimers
          /\ teacherPage'[u].sharedIn = teacherPage[u].sharedIn
          /\ teacherPage'[u].audio = teacherPage[u].audio
          /\ teacherPage'[u].audioIn = teacherPage[u].audioIn
          /\ teacherPage[u].hasty = TRUE => teacherPage'[u].hasty = TRUE

Asks(u, m) ==
    /\ ServerIdle /\ Sends(u, m) /\ KeepsPages
    /\ UNCHANGED <<fdOf, studentPage, toClient, estranged>>
    /\ shown' \in [People -> BOOLEAN]
    /\ \A v \in People : shown'[v] = shown[v] \/ (v = u /\ m.type = "LOGOUT_REQ")
    /\ m.type = "START_CLASS_REQ" =>
          "START_CLASS_REQ" \in lesson.clicks /\ m.class \in lesson.classes
    /\ u \in Teachers /\ fdOf[u] # NoFd /\ teacherPage'[u].hasty = FALSE =>
          /\ AsksFairly(Screen, teacherPage[u].sharing, Lost(u, "media"), To(u), From(u), m)
          /\ AsksFairly(Audio, teacherPage[u].audio, Lost(u, "media"), To(u), From(u), m)

\* Another room is entered, or a message box closed.
TurnsPages ==
    /\ ServerIdle /\ UNCHANGED <<fdOf, shown, toServer, toClient, estranged>>
    /\ KeepsPages
    /\ studentPage' \in [People -> StudentRecord]
    /\ \A u \in People :
          /\ studentPage'[u].mic = studentPage[u].mic
          /\ studentPage'[u].question = studentPage[u].question

\* The student's page of a teacher's window has no microphone, unless a student had it.
Settled == \A t \in Teachers : Lost(t, "media") \/ studentPage[t].mic = FALSE

LEMMA RolesDiffer == \A u \in Students : u \in People /\ u \notin Teachers
BY ManagersAssumption DEF People

LEMMA SamePages ==
  ASSUME RoomTypes, teacherPage' = teacherPage
  PROVE  KeepsPages
BY DEF RoomTypes, KeepsPages

LEMMA TeacherRequests ==
  ASSUME RoomTypes, NEW t \in Teachers, NEW type, NEW c \in ClassIds,
         NEW u \in Students \cup {NoUser}, TeacherClicks(t, type, c, u)
  PROVE  Request(type, c, u, 0) \in RequestRecord /\ Asks(t, Request(type, c, u, 0))
<1> DEFINE m == Request(type, c, u, 0)
           p == teacherPage[t]
           hasty == p.hasty \/ Hasty(t, type, c)
<1>1. /\ type \in lesson.clicks /\ type \in TP!Buttons(p)
      /\ type = "START_CLASS_REQ" => c \in lesson.classes
      /\ Sends(t, m) /\ ServerIdle
      /\ teacherPage' = [teacherPage EXCEPT ![t].hasty = hasty]
      /\ UNCHANGED <<fdOf, shown, studentPage, toClient, estranged>>
  BY DEF TeacherClicks, CanClick, TP!ListButtons
<1>2. m.type = type /\ m.class = c /\ m.user = u /\ m.question = 0
  BY DEF Request
<1>3. t \in People /\ p \in TeacherRecord /\ p.sharing \in BOOLEAN /\ p.audio \in BOOLEAN
  BY DEF RoomTypes, TeacherRecord, People
<1>4. m \in RequestRecord
  BY <1>1 DEF TP!Buttons, TP!ShareButtons, TP!AudioButtons, RequestRecord, RequestTypes,
              Request
<1>k. KeepsPages /\ teacherPage'[t].hasty = hasty
  <2>1. hasty \in BOOLEAN
    BY <1>3 DEF TeacherRecord, Hasty
  <2>2. hasty = TRUE <=> p.hasty \/ Hasty(t, type, c)
    OBVIOUS
  <2> HIDE DEF hasty, p
  <2>3. [p EXCEPT !.hasty = hasty] \in TeacherRecord
    BY <1>3, <2>1 DEF TeacherRecord
  <2>4. teacherPage' = [teacherPage EXCEPT ![t] = [p EXCEPT !.hasty = hasty]]
    BY <1>1 DEF p
  <2>5. teacherPage \in [People -> TeacherRecord]
    BY DEF RoomTypes
  <2>6. teacherPage' \in [People -> TeacherRecord]
    BY <1>3, <2>3, <2>4, <2>5
  <2>7. teacherPage'[t] = [p EXCEPT !.hasty = hasty]
    BY <1>3, <2>4, <2>5
  <2>8. \A v \in People : v # t => teacherPage'[v] = teacherPage[v]
    BY <2>4, <2>5
  <2>9. /\ teacherPage'[t].sharing = p.sharing /\ teacherPage'[t].shareTimers = p.shareTimers
        /\ teacherPage'[t].sharedIn = p.sharedIn /\ teacherPage'[t].audio = p.audio
        /\ teacherPage'[t].audioIn = p.audioIn /\ teacherPage'[t].hasty = hasty
    BY <1>3, <2>7 DEF TeacherRecord
  <2>10. p.hasty = TRUE => hasty = TRUE
    BY <2>2
  <2> QED BY <1>3, <2>6, <2>8, <2>9, <2>10 DEF KeepsPages, p
<1>5. ASSUME fdOf[t] # NoFd, teacherPage'[t].hasty = FALSE
      PROVE  /\ AsksFairly(Screen, p.sharing, Lost(t, "media"), To(t), From(t), m)
             /\ AsksFairly(Audio, p.audio, Lost(t, "media"), To(t), From(t), m)
  <2>0. ~Hasty(t, type, c)
    BY <1>k, <1>5
  <2>1. type \in {Screen.start, Audio.start} =>
           /\ AllFor(To(t), type, c) /\ AllFor(From(t), ResponseOf[type], c)
    BY <1>5, <2>0 DEF Hasty, AllFor, To, From, Screen, Audio
  <2>2. /\ ResponseOf[Screen.start] = Screen.started
        /\ ResponseOf[Audio.start] = Audio.started
    BY DEF ResponseOf, Screen, Audio
  <2>3. type \notin {Screen.frame, Audio.frame}
    BY <1>1 DEF TP!Buttons, TP!ShareButtons, TP!AudioButtons, Screen, Audio
  <2>4. /\ type = Screen.start => p.sharing = FALSE
        /\ type = Screen.stop => p.sharing = TRUE
        /\ type = Audio.start => p.audio = FALSE
        /\ type = Audio.stop => p.audio = TRUE
    BY <1>1, <1>3 DEF TP!Buttons, TP!ShareButtons, TP!AudioButtons, Screen, Audio
  <2> HIDE DEF m, p
  <2> QED BY <1>2, <2>1, <2>2, <2>3, <2>4 DEF AsksFairly
<1> HIDE DEF m, p, hasty
<1>6. shown' \in [People -> BOOLEAN] /\ \A v \in People : shown'[v] = shown[v]
  BY <1>1 DEF RoomTypes
<1>7. Asks(t, m)
  BY <1>1, <1>2, <1>5, <1>6, <1>k DEF Asks, p
<1> QED BY <1>4, <1>7 DEF m

\* A frame is sent only from a page that says that the medium is on, unless the page was
\* hasty or is out of touch.
LEMMA FrameRequests ==
  ASSUME RoomTypes, StoppedMeansStopped, Settled, NEW u \in People,
         SendsScreen(u) \/ TeacherSpeaks(u) \/ StudentSpeaks(u)
  PROVE  \E m \in RequestRecord : Asks(u, m)
<1>1. /\ teacherPage[u].class \in ClassIds /\ teacherPage[u].sharing \in BOOLEAN
      /\ studentPage[u].class \in ClassIds
  BY DEF RoomTypes, TeacherRecord, StudentRecord
<1>2. /\ shown' \in [People -> BOOLEAN] /\ \A v \in People : shown'[v] = shown[v]
      /\ KeepsPages /\ teacherPage' = teacherPage
  BY SamePages DEF SendsScreen, TeacherSpeaks, StudentSpeaks, Speaks, windowVars, RoomTypes
<1>3. CASE SendsScreen(u)
  <2> DEFINE m == Request("SCREEN_FRAME", teacherPage[u].class, NoUser, 0)
  <2>1. m \in RequestRecord /\ m.type = "SCREEN_FRAME"
    BY <1>1 DEF Request, RequestRecord, RequestTypes
  <2>2. teacherPage[u].hasty = FALSE => teacherPage[u].sharing = TRUE
    BY <1>1, <1>3 DEF SendsScreen, StoppedMeansStopped
  <2>3. teacherPage'[u].hasty = FALSE =>
           /\ AsksFairly(Screen, teacherPage[u].sharing, Lost(u, "media"), To(u), From(u), m)
           /\ AsksFairly(Audio, teacherPage[u].audio, Lost(u, "media"), To(u), From(u), m)
    BY <1>2, <2>1, <2>2 DEF AsksFairly, Screen, Audio
  <2>4. Asks(u, m)
    BY <1>2, <1>3, <2>1, <2>3 DEF SendsScreen, Asks, windowVars
  <2> QED BY <2>1, <2>4
<1>4. ASSUME NEW c \in ClassIds, Speaks(u, c),
             u \in Teachers => teacherPage[u].audio = TRUE \/ Lost(u, "media")
      PROVE  \E m \in RequestRecord : Asks(u, m)
  <2> DEFINE m == Request("AUDIO_FRAME", c, NoUser, 0)
  <2>1. m \in RequestRecord /\ m.type = "AUDIO_FRAME"
    BY DEF Request, RequestRecord, RequestTypes
  <2>2. u \in Teachers =>
           /\ AsksFairly(Screen, teacherPage[u].sharing, Lost(u, "media"), To(u), From(u), m)
           /\ AsksFairly(Audio, teacherPage[u].audio, Lost(u, "media"), To(u), From(u), m)
    BY <1>4, <2>1 DEF AsksFairly, Screen, Audio
  <2>3. Asks(u, m)
    BY <1>2, <1>4, <2>1, <2>2 DEF Speaks, Asks, windowVars
  <2> QED BY <2>1, <2>3
<1>5. CASE TeacherSpeaks(u)
  <2>1. teacherPage[u].audio = TRUE
    BY <1>5 DEF TeacherSpeaks, RoomTypes, TeacherRecord
  <2> QED BY <1>1, <1>4, <1>5, <2>1 DEF TeacherSpeaks
<1>6. CASE StudentSpeaks(u)
  <2>1. u \in Teachers => Lost(u, "media")
    BY <1>6 DEF StudentSpeaks, Settled
  <2> QED BY <1>1, <1>4, <1>6, <2>1 DEF StudentSpeaks
<1> QED BY <1>3, <1>5, <1>6

LEMMA StudentRequests ==
  ASSUME RoomTypes, NEW u \in Students, NEW c \in ClassIds, NEW type \in lesson.clicks,
         StudentClicks(u, type, c)
  PROVE  \E m \in RequestRecord : Asks(u, m)
<1> DEFINE q == IF type = "SUBMIT_ANSWER_REQ" THEN studentPage[u].question ELSE 0
           m == Request(type, c, NoUser, q)
<1>1. studentPage[u].question \in Nat \cup {NoQuestion}
  BY RolesDiffer DEF RoomTypes, StudentRecord
<1>2. /\ shown' \in [People -> BOOLEAN] /\ \A v \in People : shown'[v] = shown[v]
      /\ KeepsPages
  BY SamePages DEF StudentClicks, windowVars, RoomTypes
<1>3. type \in SP!Buttons(studentPage[u])
  BY DEF StudentClicks
<1>4. m \in RequestRecord /\ m.type = type /\ type # "START_CLASS_REQ"
  BY <1>1, <1>3 DEF Request, RequestRecord, RequestTypes, SP!Buttons
<1>5. Asks(u, m)
  BY <1>2, <1>4, RolesDiffer DEF StudentClicks, Asks, windowVars
<1> QED BY <1>4, <1>5

LEMMA LogoutRequests ==
  ASSUME RoomTypes, NEW u \in People, ClicksLogout(u)
  PROVE  \E m \in RequestRecord : Asks(u, m)
<1> DEFINE m == Request("LOGOUT_REQ", 0, NoUser, 0)
<1>1. m \in RequestRecord /\ m.type = "LOGOUT_REQ"
  BY DEF Request, RequestRecord, RequestTypes, NoClass
<1>2. /\ shown' \in [People -> BOOLEAN]
      /\ \A v \in People : shown'[v] = shown[v] \/ v = u
      /\ KeepsPages
  BY SamePages DEF ClicksLogout, RoomTypes
<1>3. /\ AsksFairly(Screen, teacherPage[u].sharing, Lost(u, "media"), To(u), From(u), m)
      /\ AsksFairly(Audio, teacherPage[u].audio, Lost(u, "media"), To(u), From(u), m)
  BY <1>1 DEF AsksFairly, Screen, Audio
<1>4. Asks(u, m)
  BY <1>1, <1>2, <1>3 DEF ClicksLogout, Asks
<1> QED BY <1>1, <1>4

\* A page with another class, or without its message box, is the same otherwise.
LEMMA PageTurned ==
  ASSUME NEW c \in ClassIds
  PROVE  /\ \A p \in TeacherRecord : \A new \in {TP!Entered(p, c), [p EXCEPT !.dialog = FALSE]} :
               /\ new \in TeacherRecord
               /\ new.sharing = p.sharing /\ new.shareTimers = p.shareTimers
               /\ new.sharedIn = p.sharedIn /\ new.audio = p.audio
               /\ new.audioIn = p.audioIn /\ new.hasty = p.hasty
         /\ \A p \in StudentRecord : \A new \in {SP!Entered(p, c), [p EXCEPT !.dialog = FALSE]} :
               new \in StudentRecord /\ new.mic = p.mic /\ new.question = p.question
<1> USE DEF TP!Entered, SP!Entered, TeacherRecord, StudentRecord
<1>1. ASSUME NEW p \in TeacherRecord
      PROVE  LET new == TP!Entered(p, c) IN
               /\ new \in TeacherRecord
               /\ new.sharing = p.sharing /\ new.shareTimers = p.shareTimers
               /\ new.sharedIn = p.sharedIn /\ new.audio = p.audio
               /\ new.audioIn = p.audioIn /\ new.hasty = p.hasty
  OBVIOUS
<1>2. ASSUME NEW p \in TeacherRecord
      PROVE  LET new == [p EXCEPT !.dialog = FALSE] IN
               /\ new \in TeacherRecord
               /\ new.sharing = p.sharing /\ new.shareTimers = p.shareTimers
               /\ new.sharedIn = p.sharedIn /\ new.audio = p.audio
               /\ new.audioIn = p.audioIn /\ new.hasty = p.hasty
  OBVIOUS
<1>3. ASSUME NEW p \in StudentRecord
      PROVE  LET new == SP!Entered(p, c) IN
               new \in StudentRecord /\ new.mic = p.mic /\ new.question = p.question
  OBVIOUS
<1>4. ASSUME NEW p \in StudentRecord
      PROVE  LET new == [p EXCEPT !.dialog = FALSE] IN
               new \in StudentRecord /\ new.mic = p.mic /\ new.question = p.question
  OBVIOUS
<1> QED BY <1>1, <1>2, <1>3, <1>4

LEMMA OneChanged ==
  ASSUME NEW D, NEW R, NEW f \in [D -> R], NEW u \in D, NEW x \in R
  PROVE  /\ [f EXCEPT ![u] = x] \in [D -> R] /\ [f EXCEPT ![u] = x][u] = x
         /\ \A v \in D : v # u => [f EXCEPT ![u] = x][v] = f[v]
OBVIOUS

LEMMA PagesTurned ==
  ASSUME RoomTypes,
         \/ \E u \in People : ClosesDialog(u)
         \/ \E t \in Teachers, c \in ClassIds : TeacherEnters(t, c)
         \/ \E u \in Students, c \in ClassIds : StudentEnters(u, c)
  PROVE  TurnsPages
<1>t. /\ teacherPage \in [People -> TeacherRecord] /\ studentPage \in [People -> StudentRecord]
      /\ Teachers \subseteq People /\ Students \subseteq People /\ 1 \in ClassIds
  BY ClassroomAssumption DEF RoomTypes, People
<1>k. ASSUME NEW u \in People, NEW new \in TeacherRecord,
             teacherPage' = [teacherPage EXCEPT ![u] = new],
             /\ new.sharing = teacherPage[u].sharing
             /\ new.shareTimers = teacherPage[u].shareTimers
             /\ new.sharedIn = teacherPage[u].sharedIn /\ new.audio = teacherPage[u].audio
             /\ new.audioIn = teacherPage[u].audioIn /\ new.hasty = teacherPage[u].hasty
      PROVE  KeepsPages
  <2>1. /\ teacherPage' \in [People -> TeacherRecord] /\ teacherPage'[u] = new
        /\ \A v \in People : v # u => teacherPage'[v] = teacherPage[v]
    BY <1>t, <1>k, OneChanged
  <2> QED BY <1>k, <2>1 DEF KeepsPages
<1>s. ASSUME NEW u \in People, NEW new \in StudentRecord,
             studentPage' = [studentPage EXCEPT ![u] = new],
             new.mic = studentPage[u].mic, new.question = studentPage[u].question
      PROVE  /\ studentPage' \in [People -> StudentRecord]
             /\ \A w \in People : /\ studentPage'[w].mic = studentPage[w].mic
                                  /\ studentPage'[w].question = studentPage[w].question
  <2>1. /\ studentPage' \in [People -> StudentRecord] /\ studentPage'[u] = new
        /\ \A v \in People : v # u => studentPage'[v] = studentPage[v]
    BY <1>t, <1>s, OneChanged
  <2> QED BY <1>s, <2>1
<1>1. ASSUME NEW u \in People, ClosesDialog(u) PROVE TurnsPages
  <2> DEFINE new == [teacherPage[u] EXCEPT !.dialog = FALSE]
             next == [studentPage[u] EXCEPT !.dialog = FALSE]
  <2>1. /\ ServerIdle /\ UNCHANGED <<fdOf, shown, toServer, toClient, estranged>>
        /\ studentPage' = [studentPage EXCEPT ![u] = next]
        /\ teacherPage' = [teacherPage EXCEPT ![u] = new]
    BY <1>1 DEF ClosesDialog
  <2>2. /\ new \in TeacherRecord
        /\ new.sharing = teacherPage[u].sharing /\ new.shareTimers = teacherPage[u].shareTimers
        /\ new.sharedIn = teacherPage[u].sharedIn /\ new.audio = teacherPage[u].audio
        /\ new.audioIn = teacherPage[u].audioIn /\ new.hasty = teacherPage[u].hasty
    BY <1>t, PageTurned
  <2>3. /\ next \in StudentRecord /\ next.mic = studentPage[u].mic
        /\ next.question = studentPage[u].question
    BY <1>t, PageTurned
  <2> HIDE DEF new, next
  <2>4. KeepsPages
    BY <1>k, <2>1, <2>2
  <2>5. /\ studentPage' \in [People -> StudentRecord]
        /\ \A w \in People : /\ studentPage'[w].mic = studentPage[w].mic
                             /\ studentPage'[w].question = studentPage[w].question
    BY <1>s, <2>1, <2>3
  <2> QED BY <2>1, <2>4, <2>5 DEF TurnsPages
<1>2. ASSUME NEW t \in Teachers, NEW c \in ClassIds, TeacherEnters(t, c) PROVE TurnsPages
  <2> DEFINE new == TP!Entered(teacherPage[t], c)
  <2>1. /\ teacherPage' = [teacherPage EXCEPT ![t] = new] /\ studentPage' = studentPage
        /\ ServerIdle /\ UNCHANGED <<fdOf, shown, toServer, toClient, estranged>>
    BY <1>2 DEF TeacherEnters
  <2>2. /\ new \in TeacherRecord
        /\ new.sharing = teacherPage[t].sharing /\ new.shareTimers = teacherPage[t].shareTimers
        /\ new.sharedIn = teacherPage[t].sharedIn /\ new.audio = teacherPage[t].audio
        /\ new.audioIn = teacherPage[t].audioIn /\ new.hasty = teacherPage[t].hasty
    BY <1>t, PageTurned
  <2> HIDE DEF new
  <2>3. KeepsPages
    BY <1>k, <1>t, <2>1, <2>2
  <2> QED BY <1>t, <2>1, <2>3 DEF TurnsPages
<1>3. ASSUME NEW u \in Students, NEW c \in ClassIds, StudentEnters(u, c) PROVE TurnsPages
  <2> DEFINE next == SP!Entered(studentPage[u], c)
  <2>1. /\ studentPage' = [studentPage EXCEPT ![u] = next] /\ teacherPage' = teacherPage
        /\ ServerIdle /\ UNCHANGED <<fdOf, shown, toServer, toClient, estranged>>
    BY <1>3 DEF StudentEnters
  <2>2. /\ next \in StudentRecord /\ next.mic = studentPage[u].mic
        /\ next.question = studentPage[u].question
    BY <1>t, PageTurned
  <2> HIDE DEF next
  <2>3. KeepsPages
    BY <2>1, SamePages
  <2>4. /\ studentPage' \in [People -> StudentRecord]
        /\ \A w \in People : /\ studentPage'[w].mic = studentPage[w].mic
                             /\ studentPage'[w].question = studentPage[w].question
    BY <1>s, <1>t, <2>1, <2>2
  <2> QED BY <2>1, <2>3, <2>4 DEF TurnsPages
<1> QED BY <1>1, <1>2, <1>3

\* Every step of a lesson, by what it does to pages and queues.
LEMMA RoomKinds ==
  ASSUME RoomTypes, StoppedMeansStopped, Settled, RoomNext
  PROVE  \/ \E fd \in Fds : Handle(fd)
         \/ \E u \in People : LosesConnection(u) \/ Reconnects(u)
         \/ \E u, v \in People : LogsIn(v, u)
         \/ \E u \in People : Receives(u)
         \/ \E u \in People, m \in RequestRecord : Asks(u, m)
         \/ TurnsPages
<1>1. Teachers \subseteq People /\ Students \subseteq People
  BY DEF People
<1>2. ASSUME NEW u \in People, WindowStep(u)
      PROVE  \/ LosesConnection(u) \/ Reconnects(u) \/ Receives(u) \/ TurnsPages
             \/ \E m \in RequestRecord : Asks(u, m)
  BY <1>2, LogoutRequests, FrameRequests, PagesTurned DEF WindowStep
<1>3. ASSUME NEW t \in Teachers, NEW type \in lesson.clicks, NEW c \in ClassIds,
             NEW u \in Students \cup {NoUser}, TeacherClicks(t, type, c, u)
      PROVE  \E m \in RequestRecord : Asks(t, m)
  BY <1>3, TeacherRequests
<1> QED
  BY <1>1, <1>2, <1>3, StudentRequests, PagesTurned DEF RoomNext

-----------------------------------------------------------------------------
(* A request of a teacher is served: what the page and the server then agree on. *)

Over == {c \in ClassIds : status[c] = "ENDED"}
ScreenOf(t) == {c \in screenSharing : owner[c] = t}
AudioOf(t) == {c \in audioActive : owner[c] = t}

\* What performing a request makes of the classes a teacher's medium runs in: `mine'
\* says that it is this teacher's request.
Effect(k, S, new, over, newOver, lost, m, mine) ==
    \/ mine /\ m.type = k.start /\ m.class \notin S \cup over /\ new = S \cup {m.class}
    \/ mine /\ m.type = k.stop /\ m.class \in S /\ new = S \ {m.class}
    \/ /\ mine /\ m.type = "END_CLASS_REQ"
       /\ new = S \ {m.class} /\ m.class \in newOver /\ (m.class \in S => lost)
    \/ new = S /\ (mine => m.type \notin {k.start, k.stop})

LEMMA MediumFacts ==
  ASSUME NEW k \in {Screen, Audio}
  PROVE  /\ Medium(k)
         /\ \A m : m.type = k.start => m.type \in DOMAIN ResponseOf
                                       /\ ResponseOf[m.type] = k.started
         /\ \A m : m.type = k.stop => m.type \in DOMAIN ResponseOf
                                      /\ ResponseOf[m.type] = k.stopped
         /\ \A m : m.type \in DOMAIN ResponseOf /\ m.type \notin {k.start, k.stop} =>
                      ResponseOf[m.type] \notin {k.started, k.stopped}
         /\ k.started \notin NoticeTypes /\ k.stopped \notin NoticeTypes
         /\ "END_CLASS_REQ" \notin DOMAIN ResponseOf
BY DEF Screen, Audio, Medium, ResponseOf, NoticeTypes

LEMMA TalkServed ==
  ASSUME NEW k \in {Screen, Audio}, NEW on, NEW where, NEW S, NEW new,
         NEW over, NEW newOver, NEW lost, NEW newLost, NEW ok \in BOOLEAN,
         NEW q \in Seq(RequestRecord), NEW a \in Seq(MessageRecord), q # <<>>, NEW P,
         Talk(k, on, where, S, over, lost, q, a),
         over \subseteq newOver, lost => newLost,
         P = <<>> \/ \E x \in MessageRecord : x.type \in NoticeTypes /\ P = <<x>>,
         ok = TRUE => Effect(k, S, new, over, newOver, newLost, Head(q), TRUE),
         ok = FALSE => new = S
  PROVE  Talk(k, on, where, new, newOver, newLost, Tail(q), a \o P \o Reply(Head(q), ok))
<1> DEFINE m == Head(q)
           b == a \o P
           d == b \o Reply(m, ok)
<1> SUFFICES Talk(k, on, where, new, newOver, newLost, Tail(q), d)
  OBVIOUS
<1>m. m \in RequestRecord
  BY Taken
<1>f. /\ Medium(k)
      /\ m.type = k.start => m.type \in DOMAIN ResponseOf /\ ResponseOf[m.type] = k.started
      /\ m.type = k.stop => m.type \in DOMAIN ResponseOf /\ ResponseOf[m.type] = k.stopped
      /\ m.type \in DOMAIN ResponseOf /\ m.type \notin {k.start, k.stop} =>
                      ResponseOf[m.type] \notin {k.started, k.stopped}
      /\ k.started \notin NoticeTypes /\ k.stopped \notin NoticeTypes
      /\ m.type = "END_CLASS_REQ" => m.type \notin DOMAIN ResponseOf
  BY MediumFacts
<1>b. b \in Seq(MessageRecord) /\ Talk(k, on, where, S, over, lost, q, b)
  <2>1. CASE P = <<>>
    <3>1. b = a
      BY <2>1
    <3> QED BY <3>1
  <2>2. ASSUME NEW x \in MessageRecord, x.type \in NoticeTypes, P = <<x>>
        PROVE  b \in Seq(MessageRecord) /\ Talk(k, on, where, S, over, lost, q, b)
    <3>1. b = Append(a, x) /\ Append(a, x) \in Seq(MessageRecord)
      BY <2>2, Appended
    <3>2. x.type \notin {k.started, k.stopped}
      BY <1>f, <2>2
    <3>3. Talk(k, on, where, S, over, lost, q, Append(a, x))
      BY <3>2, TalkPushed
    <3> QED BY <3>1, <3>3
  <2> QED BY <2>1, <2>2
<1> HIDE DEF b, m
<1>r. \/ m.type \notin DOMAIN ResponseOf /\ d = b
      \/ /\ m.type \in DOMAIN ResponseOf
         /\ \E x \in MessageRecord : /\ d = Append(b, x)
                                     /\ x.type = ResponseOf[m.type]
                                     /\ x.class = m.class /\ x.ok = ok
  <2>1. Reply(m, ok) = <<>> => d = b
    BY <1>b
  <2>2. ASSUME NEW x \in MessageRecord, Reply(m, ok) = <<x>>
        PROVE  d = Append(b, x)
    BY <1>b, <2>2, Appended
  <2> QED BY <1>m, <2>1, <2>2, ReplyType
<1> HIDE DEF d
\* A request that neither starts nor stops this medium.
<1>1. ASSUME ok = FALSE \/ m.type \notin {k.start, k.stop},
             Talk(k, on, where, new, newOver, newLost, q, b)
      PROVE  Talk(k, on, where, new, newOver, newLost, Tail(q), d)
  <2>1. Talk(k, on, where, new, newOver, newLost, Tail(q), b) /\ Tail(q) \in Seq(RequestRecord)
    BY <1>1, TalkTaken, Taken
  <2>2. ASSUME NEW x \in MessageRecord, d = Append(b, x), m.type \in DOMAIN ResponseOf,
               x.type = ResponseOf[m.type], x.ok = ok
        PROVE  Talk(k, on, where, new, newOver, newLost, Tail(q), d)
    <3>1. x.type \in {k.started, k.stopped} => ~x.ok
      BY <1>1, <1>f, <2>2
    <3> QED BY <1>b, <2>1, <2>2, <3>1, TalkPushed
  <2> QED BY <1>r, <2>1, <2>2
<1>2. CASE ok = TRUE /\ m.type = k.start /\ m.class \notin S \cup over /\ new = S \cup {m.class}
  <2>1. PICK x \in MessageRecord : d = Append(b, x) /\ x.type = k.started /\ x.class = m.class
                                   /\ x.ok
    BY <1>2, <1>f, <1>r
  <2>2. Talk(k, on, where, S \cup {m.class}, over, lost, Tail(q), Append(b, x))
    BY <1>2, <1>b, <1>f, <2>1, TalkStarts DEF m
  <2> QED BY <1>2, <2>1, <2>2, TalkGrows
<1>3. CASE ok = TRUE /\ m.type = k.stop /\ m.class \in S /\ new = S \ {m.class}
  <2>1. PICK x \in MessageRecord : d = Append(b, x) /\ x.type = k.stopped /\ x.ok
    BY <1>3, <1>f, <1>r
  <2>2. Talk(k, on, where, S \ {m.class}, over, lost, Tail(q), Append(b, x))
    BY <1>3, <1>b, <1>f, <2>1, TalkStops DEF m
  <2> QED BY <1>3, <2>1, <2>2, TalkGrows
<1>4. CASE /\ ok = TRUE /\ m.type = "END_CLASS_REQ" /\ m.type \notin {k.start, k.stop}
           /\ new = S \ {m.class} /\ m.class \in newOver /\ (m.class \in S => newLost)
  <2>1. Talk(k, on, where, S \ {m.class}, newOver, newLost, q, b)
    BY <1>4, <1>b, TalkEnds
  <2> QED BY <1>1, <1>4, <2>1
<1>5. CASE new = S /\ (ok = FALSE \/ m.type \notin {k.start, k.stop})
  <2>1. Talk(k, on, where, S, newOver, newLost, q, b)
    BY <1>b, TalkGrows
  <2> QED BY <1>1, <1>5, <2>1
<1>6. m.type = "END_CLASS_REQ" => m.type \notin {k.start, k.stop}
  BY <1>f
<1> QED BY <1>2, <1>3, <1>4, <1>5, <1>6 DEF Effect, m

\* The other handlers leave both media and the life cycle alone.
LEMMA PerformsMedia ==
  ASSUME NEW fd, NEW m, Performs(fd, m)
  PROVE  /\ owner' = owner
         /\ m.type \notin {"START_CLASS_REQ", "END_CLASS_REQ"} => status' = status
         /\ m.type \notin {Screen.start, Screen.stop, "END_CLASS_REQ"} =>
               screenSharing' = screenSharing
         /\ m.type \notin {Audio.start, Audio.stop, "END_CLASS_REQ"} =>
               audioActive' = audioActive
<1> USE DEF Performs, Screen, Audio, CM!lifeVars, CM!mediaVars
<1>1. CASE m.type \in {"LOGOUT_REQ", "JOIN_CLASS_REQ", "LEAVE_CLASS_REQ", "CHECKIN_REQ",
                       "SUBMIT_ANSWER_REQ"}
  BY <1>1
  DEF LogoutReq, EndSession, CM!RemoveFromAll, cmVars, JoinClassReq, CM!JoinClass,
      LeaveClassReq, CM!LeaveClass, CheckinReq, CM!Checkin, SubmitAnswerReq, OnlyQuestions
<1>2. CASE m.type \in {"START_CLASS_REQ", "END_CLASS_REQ"}
  BY <1>2 DEF StartClassReq, CM!StartClass, EndClassReq, CM!EndClass
<1>3. CASE m.type \in {"OPEN_CHECKIN_REQ", "RANDOM_CALL_REQ", "PUBLISH_QUESTION_REQ"}
  BY <1>3
  DEF OpenCheckinReq, CM!OpenCheckin, RandomCallReq, CM!RandomCall, PublishQuestionReq,
      OnlyQuestions, cmVars
<1>4. CASE m.type \in {"START_SCREEN_SHARE_REQ", "STOP_SCREEN_SHARE_REQ", "SCREEN_FRAME"}
  BY <1>4
  DEF StartScreenShareReq, CM!StartScreenShare, StopScreenShareReq, CM!StopScreenShare,
      ScreenFrame, OnlySends, cmVars
<1>5. CASE m.type \in {"START_AUDIO_REQ", "STOP_AUDIO_REQ", "AUDIO_FRAME"}
  BY <1>5
  DEF StartAudioReq, CM!StartAudio, StopAudioReq, CM!StopAudio, AudioFrame, OnlySends, cmVars
<1>6. CASE m.type \in {"GRANT_MIC_REQ", "REVOKE_MIC_REQ"}
  BY <1>6 DEF GrantMicReq, CM!GrantMic, RevokeMicReq, CM!RevokeMic
<1> QED BY <1>1, <1>2, <1>3, <1>4, <1>5, <1>6

\* Classes stay ended.
LEMMA PerformsOver ==
  ASSUME ServerInv, NEW fd, NEW m, Performs(fd, m)
  PROVE  Over \subseteq Over'
<1>1. CASE m.type \in {"START_CLASS_REQ", "END_CLASS_REQ"}
  BY <1>1 DEF Performs, StartClassReq, CM!StartClass, EndClassReq, CM!EndClass, CM!RunBy,
              CM!OwnedBy, Over, ServerInv, CMP!Inv, CMP!TypeOK, CMP!ClassIds, ClassIds
<1>2. CASE m.type \notin {"START_CLASS_REQ", "END_CLASS_REQ"}
  BY <1>2, PerformsMedia DEF Over
<1> QED BY <1>1, <1>2

\* What ends with a class has no other sign than its absence.
LEMMA EndEffect ==
  ASSUME ServerInv, NEW fd, NEW m \in RequestRecord, Performs(fd, m),
         m.type = "END_CLASS_REQ"
  PROVE  /\ m.class \in Over' /\ owner[m.class] = Caller(fd) /\ m.class \in ClassIds
         /\ screenSharing' = screenSharing \ {m.class}
         /\ audioActive' = audioActive \ {m.class}
         /\ m.class \in screenSharing \cup audioActive =>
               <<Caller(fd), "media">> \in LosesTouch
<1>1. /\ EndClassReq(fd, m.class) /\ m.class \in ClassIds
  BY DEF Performs, RequestRecord
<1>2. /\ status' = [status EXCEPT ![m.class] = "ENDED"]
      /\ screenSharing' = screenSharing \ {m.class}
      /\ audioActive' = audioActive \ {m.class}
      /\ owner[m.class] = Caller(fd)
  BY <1>1 DEF EndClassReq, CM!EndClass, CM!Forget, CM!RunBy, CM!OwnedBy
<1>3. status'[m.class] = "ENDED"
  BY <1>1, <1>2 DEF ServerInv, CMP!Inv, CMP!TypeOK, CMP!ClassIds, ClassIds
<1>4. m.class \in screenSharing \cup audioActive => <<Caller(fd), "media">> \in LosesTouch
  BY <1>2, <1>3 DEF LosesTouch
<1> QED BY <1>1, <1>2, <1>3, <1>4 DEF Over

LEMMA ScreenEffect ==
  ASSUME ServerInv, NEW fd, NEW m \in RequestRecord, Performs(fd, m), NEW t \in Teachers
  PROVE  Effect(Screen, ScreenOf(t), ScreenOf(t)', Over, Over', <<t, "media">> \in LosesTouch,
                m, Caller(fd) = t)
<1>o. owner' = owner
  BY PerformsMedia
<1>1. CASE m.type = Screen.start
  <2>1. /\ screenSharing' = screenSharing \cup {m.class} /\ m.class \notin screenSharing
        /\ owner[m.class] = Caller(fd) /\ m.class \notin Over
    BY <1>1 DEF Performs, Screen, StartScreenShareReq, CM!StartScreenShare, CM!RunBy,
                CM!OwnedBy, Over
  <2>2. CASE Caller(fd) = t
    <3>1. ScreenOf(t)' = ScreenOf(t) \cup {m.class}
      BY <1>o, <2>1, <2>2 DEF ScreenOf
    <3>2. m.class \notin ScreenOf(t)
      BY <2>1 DEF ScreenOf
    <3> QED BY <1>1, <2>1, <2>2, <3>1, <3>2 DEF Effect
  <2>3. CASE Caller(fd) # t
    <3>1. ScreenOf(t)' = ScreenOf(t)
      BY <1>o, <2>1, <2>3 DEF ScreenOf
    <3> QED BY <2>3, <3>1 DEF Effect
  <2> QED BY <2>2, <2>3
<1>2. CASE m.type = Screen.stop
  <2>1. /\ screenSharing' = screenSharing \ {m.class} /\ m.class \in screenSharing
        /\ owner[m.class] = Caller(fd)
    BY <1>2 DEF Performs, Screen, StopScreenShareReq, CM!StopScreenShare, CM!OwnedBy
  <2>2. CASE Caller(fd) = t
    <3>1. ScreenOf(t)' = ScreenOf(t) \ {m.class} /\ m.class \in ScreenOf(t)
      BY <1>o, <2>1, <2>2 DEF ScreenOf
    <3> QED BY <1>2, <2>2, <3>1 DEF Effect
  <2>3. CASE Caller(fd) # t
    <3>1. ScreenOf(t)' = ScreenOf(t)
      BY <1>o, <2>1, <2>3 DEF ScreenOf
    <3> QED BY <2>3, <3>1 DEF Effect
  <2> QED BY <2>2, <2>3
<1>3. CASE m.type = "END_CLASS_REQ"
  <2>1. CASE Caller(fd) = t
    <3>1. ScreenOf(t)' = ScreenOf(t) \ {m.class}
      BY <1>3, <1>o, EndEffect DEF ScreenOf
    <3>2. m.class \in ScreenOf(t) => <<t, "media">> \in LosesTouch
      BY <1>3, <2>1, EndEffect DEF ScreenOf
    <3> QED BY <1>3, <2>1, <3>1, <3>2, EndEffect DEF Effect
  <2>2. CASE Caller(fd) # t
    <3>1. screenSharing' = screenSharing \ {m.class} /\ owner[m.class] # t
      BY <1>3, <2>2, EndEffect
    <3>2. ScreenOf(t)' = ScreenOf(t)
      BY <1>o, <3>1 DEF ScreenOf
    <3> QED BY <2>2, <3>2 DEF Effect
  <2> QED BY <2>1, <2>2
<1>4. CASE m.type \notin {Screen.start, Screen.stop, "END_CLASS_REQ"}
  BY <1>o, <1>4, PerformsMedia DEF ScreenOf, Effect
<1> QED BY <1>1, <1>2, <1>3, <1>4

LEMMA AudioEffect ==
  ASSUME ServerInv, NEW fd, NEW m \in RequestRecord, Performs(fd, m), NEW t \in Teachers
  PROVE  Effect(Audio, AudioOf(t), AudioOf(t)', Over, Over', <<t, "media">> \in LosesTouch,
                m, Caller(fd) = t)
<1>o. owner' = owner
  BY PerformsMedia
<1>1. CASE m.type = Audio.start
  <2>1. /\ audioActive' = audioActive \cup {m.class} /\ m.class \notin audioActive
        /\ owner[m.class] = Caller(fd) /\ m.class \notin Over
    BY <1>1 DEF Performs, Audio, StartAudioReq, CM!StartAudio, CM!RunBy, CM!OwnedBy, Over
  <2>2. CASE Caller(fd) = t
    <3>1. AudioOf(t)' = AudioOf(t) \cup {m.class}
      BY <1>o, <2>1, <2>2 DEF AudioOf
    <3>2. m.class \notin AudioOf(t)
      BY <2>1 DEF AudioOf
    <3> QED BY <1>1, <2>1, <2>2, <3>1, <3>2 DEF Effect
  <2>3. CASE Caller(fd) # t
    <3>1. AudioOf(t)' = AudioOf(t)
      BY <1>o, <2>1, <2>3 DEF AudioOf
    <3> QED BY <2>3, <3>1 DEF Effect
  <2> QED BY <2>2, <2>3
<1>2. CASE m.type = Audio.stop
  <2>1. /\ audioActive' = audioActive \ {m.class} /\ m.class \in audioActive
        /\ owner[m.class] = Caller(fd)
    BY <1>2 DEF Performs, Audio, StopAudioReq, CM!StopAudio, CM!OwnedBy
  <2>2. CASE Caller(fd) = t
    <3>1. AudioOf(t)' = AudioOf(t) \ {m.class} /\ m.class \in AudioOf(t)
      BY <1>o, <2>1, <2>2 DEF AudioOf
    <3> QED BY <1>2, <2>2, <3>1 DEF Effect
  <2>3. CASE Caller(fd) # t
    <3>1. AudioOf(t)' = AudioOf(t)
      BY <1>o, <2>1, <2>3 DEF AudioOf
    <3> QED BY <2>3, <3>1 DEF Effect
  <2> QED BY <2>2, <2>3
<1>3. CASE m.type = "END_CLASS_REQ"
  <2>1. CASE Caller(fd) = t
    <3>1. AudioOf(t)' = AudioOf(t) \ {m.class}
      BY <1>3, <1>o, EndEffect DEF AudioOf
    <3>2. m.class \in AudioOf(t) => <<t, "media">> \in LosesTouch
      BY <1>3, <2>1, EndEffect DEF AudioOf
    <3> QED BY <1>3, <2>1, <3>1, <3>2, EndEffect DEF Effect
  <2>2. CASE Caller(fd) # t
    <3>1. audioActive' = audioActive \ {m.class} /\ owner[m.class] # t
      BY <1>3, <2>2, EndEffect
    <3>2. AudioOf(t)' = AudioOf(t)
      BY <1>o, <3>1 DEF AudioOf
    <3> QED BY <2>2, <3>2 DEF Effect
  <2> QED BY <2>1, <2>2
<1>4. CASE m.type \notin {Audio.start, Audio.stop, "END_CLASS_REQ"}
  BY <1>o, <1>4, PerformsMedia DEF AudioOf, Effect
<1> QED BY <1>1, <1>2, <1>3, <1>4

-----------------------------------------------------------------------------
(* Types, seats and queues. *)

\* A request is handled: performed when `ok', refused otherwise.
Handled(fd, ok) ==
    /\ toServer[fd] # <<>> /\ fd \in clients
    /\ ok = TRUE => Performs(fd, Head(toServer[fd]))
    /\ ok = FALSE => Quietly /\ OnlySends /\ Head(toServer[fd]).type # "LOGOUT_REQ"
    /\ toServer' = [toServer EXCEPT ![fd] = Tail(@)]
    /\ toClient' = [f \in Fds |-> toClient[f] \o PushedOn(f)
                                     \o (IF f = fd THEN Reply(Head(toServer[fd]), ok)
                                                   ELSE <<>>)]
    /\ estranged' = estranged \cup LosesTouch
    /\ UNCHANGED <<lesson, windowVars>>

LEMMA HandleIsHandled ==
  ASSUME NEW fd \in Fds, Handle(fd)
  PROVE  \E ok \in BOOLEAN : Handled(fd, ok)
<1>1. CASE Performs(fd, Head(toServer[fd])) /\ SendsBack(fd, Head(toServer[fd]), TRUE)
  <2>1. Handled(fd, TRUE)
    BY <1>1 DEF Handle, Handled, SendsBack
  <2> QED BY <2>1
<1>2. CASE /\ Refuses(fd, Head(toServer[fd])) /\ Quietly /\ OnlySends
           /\ SendsBack(fd, Head(toServer[fd]), FALSE)
  <2>1. Head(toServer[fd]).type # "LOGOUT_REQ"
    BY <1>2 DEF Refuses
  <2>2. Handled(fd, FALSE)
    BY <1>2, <2>1 DEF Handle, Handled, SendsBack
  <2> QED BY <2>2
<1> QED BY <1>1, <1>2 DEF Handle

\* What a handled request adds to the queues of the pages.
LEMMA HandledQueues ==
  ASSUME ServerInv, ServerInv', RoomTypes, NEW fd \in Fds, NEW ok \in BOOLEAN,
         Handled(fd, ok), NEW f \in Fds
  PROVE  /\ \/ PushedOn(f) = <<>>
            \/ /\ f \in clients
               /\ \E x \in MessageRecord : x.type \in NoticeTypes /\ PushedOn(f) = <<x>>
         /\ f # fd => /\ toServer'[f] = toServer[f]
                      /\ toClient'[f] = toClient[f] \o PushedOn(f)
         /\ f = fd => /\ toServer'[f] = Tail(toServer[f])
                      /\ toClient'[f] = toClient[f] \o PushedOn(f)
                                            \o Reply(Head(toServer[f]), ok)
         /\ toServer'[f] \in Seq(RequestRecord) /\ toClient'[f] \in Seq(MessageRecord)
<1> DEFINE m == Head(toServer[fd])
           P == PushedOn(f)
<1>1. m \in RequestRecord /\ Tail(toServer[fd]) \in Seq(RequestRecord)
  BY HeadRequest DEF Handled
<1>2. Served(fd, m)
  BY DEF Handled, Served
<1>3. \/ P = <<>>
      \/ f \in clients /\ \E x \in MessageRecord : x.type \in NoticeTypes /\ P = <<x>>
  BY <1>1, <1>2, PushedType
<1>4. Reply(m, ok) = <<>> \/ \E x \in MessageRecord : Reply(m, ok) = <<x>>
  BY <1>1, ReplyType
<1> HIDE DEF P
<1>e. <<>> \in Seq(MessageRecord) /\ \A x \in MessageRecord : <<x>> \in Seq(MessageRecord)
  BY OneOf
<1>5. P \in Seq(MessageRecord)
  BY <1>3, <1>e, Zenon
<1>6. Reply(m, ok) \in Seq(MessageRecord)
  BY <1>4, <1>e, Zenon
<1>7. /\ toServer[f] \in Seq(RequestRecord) /\ toClient[f] \in Seq(MessageRecord)
      /\ DOMAIN toServer = Fds
  BY DEF RoomTypes
<1>8. toServer'[f] = IF f = fd THEN Tail(toServer[f]) ELSE toServer[f]
  BY <1>7 DEF Handled
<1>9. toClient'[f] = toClient[f] \o P \o (IF f = fd THEN Reply(m, ok) ELSE <<>>)
  BY DEF Handled, P
<1>10. toClient[f] \o P \in Seq(MessageRecord)
  BY <1>5, <1>7
<1>11. (toClient[f] \o P) \o <<>> = toClient[f] \o P
  BY <1>10
<1>12. (toClient[f] \o P) \o Reply(m, ok) \in Seq(MessageRecord)
  BY <1>6, <1>10
<1> HIDE DEF m
<1> QED BY <1>1, <1>3, <1>7, <1>8, <1>9, <1>10, <1>11, <1>12 DEF P, m

LEMMA SendsOne ==
  ASSUME RoomTypes, NEW u \in People, NEW m \in RequestRecord, Sends(u, m)
  PROVE  /\ toServer' \in [Fds -> Seq(RequestRecord)]
         /\ \A f \in Fds : f # fdOf[u] => toServer'[f] = toServer[f]
         /\ fdOf[u] # NoFd => /\ fdOf[u] \in Fds
                              /\ toServer'[fdOf[u]] = Append(toServer[fdOf[u]], m)
<1>1. CASE fdOf[u] = NoFd
  BY <1>1 DEF Sends, RoomTypes
<1>2. CASE fdOf[u] # NoFd
  <2>1. fdOf[u] \in Fds
    BY <1>2 DEF RoomTypes
  <2>2. Append(toServer[fdOf[u]], m) \in Seq(RequestRecord)
    BY <2>1, Appended DEF RoomTypes
  <2> QED BY <1>2, <2>1, <2>2 DEF Sends, RoomTypes
<1> QED BY <1>1, <1>2

\* Receiving: the page of the window, if it is shown, reads the oldest message.
LEMMA ReceivesOne ==
  ASSUME RoomTypes, NEW u \in People, Receives(u)
  PROVE  LET m == Head(toClient[fdOf[u]]) IN
         /\ fdOf[u] \in Fds /\ fdOf[u] # NoFd /\ toClient[fdOf[u]] # <<>>
         /\ m \in MessageRecord
         /\ toClient' = [toClient EXCEPT ![fdOf[u]] = Tail(@)]
         /\ toClient' \in [Fds -> Seq(MessageRecord)]
         /\ teacherPage' \in [People -> TeacherRecord]
         /\ studentPage' \in [People -> StudentRecord]
         /\ \A v \in People : v \notin Teachers => teacherPage'[v] = teacherPage[v]
         /\ \A v \in People : v \notin Students => studentPage'[v] = studentPage[v]
         /\ \A t \in Teachers :
               teacherPage'[t] = IF t = u /\ shown[u] THEN TP!AfterMessage(teacherPage[t], m)
                                 ELSE teacherPage[t]
         /\ \A s \in Students :
               studentPage'[s] = IF s = u /\ shown[u] THEN SP!AfterMessage(studentPage[s], m)
                                 ELSE studentPage[s]
         /\ estranged' = IF shown[u] THEN estranged ELSE estranged \cup {Unseen(u, m)}
         /\ ServerIdle /\ UNCHANGED <<fdOf, shown, toServer>>
<1> DEFINE m == Head(toClient[fdOf[u]])
<1>1. fdOf[u] \in Fds /\ toClient[fdOf[u]] # <<>> /\ fdOf[u] # NoFd
  BY DEF Receives, RoomTypes
<1>2. m \in MessageRecord /\ Tail(toClient[fdOf[u]]) \in Seq(MessageRecord)
  BY <1>1, Taken DEF RoomTypes
<1>3. toClient' = [toClient EXCEPT ![fdOf[u]] = Tail(@)]
  BY DEF Receives
<1>4. toClient' \in [Fds -> Seq(MessageRecord)]
  BY <1>1, <1>2, <1>3 DEF RoomTypes
<1>p. Teachers \subseteq People /\ Students \subseteq People
  BY DEF People
<1>5. /\ teacherPage' \in [People -> TeacherRecord]
      /\ \A v \in People : v \notin Teachers => teacherPage'[v] = teacherPage[v]
      /\ \A t \in Teachers :
            teacherPage'[t] = IF t = u /\ shown[u] THEN TP!AfterMessage(teacherPage[t], m)
                              ELSE teacherPage[t]
  <2>1. CASE shown[u] /\ u \in Teachers
    <3>1. TP!AfterMessage(teacherPage[u], m) \in TeacherRecord
      BY <1>2, <2>1, TeacherPageAfter DEF RoomTypes
    <3>2. teacherPage' = [teacherPage EXCEPT ![u] = TP!AfterMessage(teacherPage[u], m)]
      BY <2>1 DEF Receives
    <3> QED BY <1>p, <2>1, <3>1, <3>2 DEF RoomTypes
  <2>2. CASE ~(shown[u] /\ u \in Teachers)
    <3>1. teacherPage' = teacherPage
      BY <2>2 DEF Receives
    <3> QED BY <1>p, <2>2, <3>1 DEF RoomTypes
  <2> QED BY <2>1, <2>2
<1>6. /\ studentPage' \in [People -> StudentRecord]
      /\ \A v \in People : v \notin Students => studentPage'[v] = studentPage[v]
      /\ \A s \in Students :
            studentPage'[s] = IF s = u /\ shown[u] THEN SP!AfterMessage(studentPage[s], m)
                              ELSE studentPage[s]
  <2>1. CASE shown[u] /\ u \in Students
    <3>1. SP!AfterMessage(studentPage[u], m) \in StudentRecord
      BY <1>2, <2>1, StudentPageAfter DEF RoomTypes
    <3>2. studentPage' = [studentPage EXCEPT ![u] = SP!AfterMessage(studentPage[u], m)]
      BY <2>1 DEF Receives
    <3> QED BY <1>p, <2>1, <3>1, <3>2 DEF RoomTypes
  <2>2. CASE ~(shown[u] /\ u \in Students)
    <3>1. studentPage' = studentPage
      BY <2>2 DEF Receives
    <3> QED BY <1>p, <2>2, <3>1 DEF RoomTypes
  <2> QED BY <2>1, <2>2
<1>7. /\ estranged' = IF shown[u] THEN estranged ELSE estranged \cup {Unseen(u, m)}
      /\ ServerIdle /\ UNCHANGED <<fdOf, shown, toServer>>
  BY DEF Receives
<1> QED BY <1>1, <1>2, <1>3, <1>4, <1>5, <1>6, <1>7

LEMMA HandledTypes ==
  ASSUME ServerInv, ServerInv', RoomTypes, SeatsAreKept,
         NEW fd \in Fds, NEW ok \in BOOLEAN, Handled(fd, ok)
  PROVE  RoomTypes' /\ SeatsAreKept'
<1>1. /\ UNCHANGED <<connVars, displaced>>
      /\ \A u \in Users : userIdToFd'[u] \in {userIdToFd[u], NoFd}
  <2>1. CASE ok = TRUE
    BY <2>1, PerformsKeeps DEF Handled
  <2>2. CASE ok = FALSE
    BY <2>2 DEF Handled, OnlySends, smVars
  <2> QED BY <2>1, <2>2
<1>2. UNCHANGED <<lesson, fdOf, shown, teacherPage, studentPage, clients, nextClientId>>
  BY <1>1 DEF Handled, windowVars, connVars
<1>3. toServer' \in [Fds -> Seq(RequestRecord)] /\ toClient' \in [Fds -> Seq(MessageRecord)]
  <2>1. toServer' = [f \in Fds |-> toServer'[f]] /\ toClient' = [f \in Fds |-> toClient'[f]]
    BY DEF Handled, RoomTypes
  <2>2. \A f \in Fds : /\ toServer'[f] \in Seq(RequestRecord)
                       /\ toClient'[f] \in Seq(MessageRecord)
    BY HandledQueues
  <2> QED BY <2>1, <2>2
<1>4. RoomTypes'
  BY <1>2, <1>3 DEF RoomTypes
<1>5. ASSUME NEW f \in Fds, f >= nextClientId
      PROVE  toServer'[f] = <<>> /\ toClient'[f] = <<>>
  <2>1. f \notin clients /\ toServer[f] = <<>> /\ toClient[f] = <<>>
    BY <1>5 DEF SeatsAreKept, RoomTypes, Fds
  <2>2. PushedOn(f) = <<>> /\ f # fd
    BY <2>1, HandledQueues DEF Handled
  <2>3. toServer'[f] = toServer[f] /\ toClient'[f] = toClient[f] \o PushedOn(f)
    BY <2>2, HandledQueues
  <2>4. <<>> \o <<>> = <<>>
    OBVIOUS
  <2> QED BY <2>1, <2>2, <2>3, <2>4
<1>6. ASSUME NEW u \in People, ~shown'[u], userIdToFd'[u] # NoFd
      PROVE  LogoutUnderWay(u)'
  <2>1. u \in Users /\ userIdToFd'[u] = userIdToFd[u]
    BY <1>1, <1>6 DEF People, Users
  <2>2. userIdToFd[u] = fdOf[u] /\ fdOf[u] # NoFd /\ fdOf[u] \in Fds /\ fdOf'[u] = fdOf[u]
    BY <1>2, <1>6, <2>1 DEF SeatsAreKept, RoomTypes
  <2>3. PICK i \in DOMAIN toServer[fdOf[u]] : toServer[fdOf[u]][i].type = "LOGOUT_REQ"
    BY <1>2, <1>6, <2>1 DEF SeatsAreKept, LogoutUnderWay
  <2>4. CASE fdOf[u] # fd
    <3>1. toServer'[fdOf[u]] = toServer[fdOf[u]]
      BY <2>2, <2>4, HandledQueues
    <3> QED BY <2>2, <2>3, <3>1 DEF LogoutUnderWay
  <2>5. CASE fdOf[u] = fd
    <3> DEFINE q == toServer[fd]
    <3>1. q \in Seq(RequestRecord) /\ q # <<>> /\ toServer'[fd] = Tail(q)
      BY HandledQueues DEF Handled, RoomTypes
    <3>2. Head(q).type # "LOGOUT_REQ"
      <4>1. CASE ok = TRUE
        BY <1>6, <2>1, <2>2, <2>5, <4>1, LogoutEnds DEF Handled
      <4>2. CASE ok = FALSE
        BY <4>2 DEF Handled
      <4> QED BY <4>1, <4>2
    <3>3. i \in DOMAIN q /\ q[i].type = "LOGOUT_REQ"
      BY <2>3, <2>5
    <3> HIDE DEF q
    <3>4. i - 1 \in DOMAIN Tail(q) /\ Tail(q)[i - 1].type = "LOGOUT_REQ"
      BY <3>1, <3>2, <3>3, Taken
    <3> QED BY <2>2, <2>5, <3>1, <3>4 DEF LogoutUnderWay
  <2> QED BY <2>4, <2>5
<1> QED BY <1>1, <1>2, <1>4, <1>5, <1>6 DEF SeatsAreKept

\* A connection is lost: its queues are empty and its user is gone from the sessions.
LEMMA LostTypes ==
  ASSUME ServerInv, RoomTypes, SeatsAreKept, NEW u \in People, LosesConnection(u)
  PROVE  RoomTypes' /\ SeatsAreKept'
<1>1. /\ fdOf[u] # NoFd /\ fdOf[u] \in Fds /\ CloseConnection(fdOf[u])
      /\ fdOf' = [fdOf EXCEPT ![u] = NoFd]
      /\ shown' = [shown EXCEPT ![u] = FALSE]
      /\ toServer' = [toServer EXCEPT ![fdOf[u]] = <<>>]
      /\ toClient' = [toClient EXCEPT ![fdOf[u]] = <<>>]
      /\ UNCHANGED <<lesson, teacherPage, studentPage>>
  BY DEF LosesConnection, RoomTypes
<1>2. /\ clients' = clients \ {fdOf[u]} /\ nextClientId' = nextClientId
      /\ displaced' = displaced
      /\ userIdToFd' = [v \in Users |-> IF v = fdToUser[fdOf[u]] THEN NoFd ELSE userIdToFd[v]]
  BY <1>1 DEF CloseConnection, EndSession, SM!Logout, SM!GetUser
<1>3. RoomTypes'
  BY <1>1, <1>2 DEF RoomTypes
<1>4. ASSUME NEW v \in Users, userIdToFd'[v] # NoFd
      PROVE  /\ v \in People /\ userIdToFd'[v] = fdOf'[v]
             /\ v # u /\ userIdToFd'[v] = userIdToFd[v]
  <2>1. v # fdToUser[fdOf[u]] /\ userIdToFd'[v] = userIdToFd[v]
    BY <1>2, <1>4
  <2>2. v \in People /\ userIdToFd[v] = fdOf[v]
    BY <1>4, <2>1 DEF SeatsAreKept
  <2>3. v # u
    <3>1. fdToUser[userIdToFd[v]] = v
      BY <1>4, <2>1 DEF ServerInv, SessionInv, Linked, AccountsFollowConnections, SM!GetFd,
                         SM!GetUser, SM!IsLoggedIn, SeatsAreKept
    <3> QED BY <2>1, <2>2, <3>1
  <2> QED BY <1>1, <2>1, <2>2, <2>3 DEF RoomTypes
<1>5. ASSUME NEW v \in People, fdOf'[v] # NoFd
      PROVE  fdOf'[v] = fdOf[v] /\ v # u /\ fdOf[v] \in clients'
  BY <1>1, <1>2, <1>5 DEF RoomTypes, SeatsAreKept
<1>6. \A f \in Fds : f >= nextClientId' => toServer'[f] = <<>> /\ toClient'[f] = <<>>
  BY <1>1, <1>2 DEF RoomTypes, SeatsAreKept
<1>7. \A f \in clients' : f < nextClientId'
  BY <1>2 DEF SeatsAreKept
<1>8. \A v, w \in People : fdOf'[v] # NoFd /\ fdOf'[v] = fdOf'[w] => v = w
  BY <1>5 DEF SeatsAreKept
<1>9. ASSUME NEW v \in People, ~shown'[v], userIdToFd'[v] # NoFd
      PROVE  LogoutUnderWay(v)'
  <2>1. v # u /\ userIdToFd[v] = userIdToFd'[v]
    BY <1>4, <1>9 DEF People, Users
  <2>2. fdOf'[v] = fdOf[v] /\ shown'[v] = shown[v]
    BY <1>1, <2>1 DEF RoomTypes
  <2>3. LogoutUnderWay(v)
    BY <1>9, <2>1, <2>2 DEF SeatsAreKept
  <2>4. fdOf[v] # NoFd /\ fdOf[v] \in Fds /\ fdOf[v] # fdOf[u]
    <3>1. userIdToFd[v] = fdOf[v]
      BY <1>9, <2>1 DEF SeatsAreKept, People, Users
    <3> QED BY <1>9, <2>1, <3>1 DEF SeatsAreKept, RoomTypes
  <2>5. toServer'[fdOf[v]] = toServer[fdOf[v]]
    BY <1>1, <2>4 DEF RoomTypes
  <2> QED BY <2>2, <2>3, <2>5 DEF LogoutUnderWay
<1> QED BY <1>2, <1>3, <1>4, <1>5, <1>6, <1>7, <1>8, <1>9 DEF SeatsAreKept

LEMMA ReconnectedTypes ==
  ASSUME ServerInv, RoomTypes, SeatsAreKept, NEW u \in People, Reconnects(u)
  PROVE  RoomTypes' /\ SeatsAreKept'
<1>1. /\ fdOf[u] = NoFd /\ fdOf' = [fdOf EXCEPT ![u] = nextClientId]
      /\ nextClientId \in Fds /\ clients' = clients \cup {nextClientId}
      /\ nextClientId' = nextClientId + 1 /\ userIdToFd' = userIdToFd
      /\ UNCHANGED <<lesson, shown, teacherPage, studentPage, toServer, toClient, displaced>>
  BY DEF Reconnects, Connect, smVars
<1>2. RoomTypes'
  BY <1>1 DEF RoomTypes
<1>3. \A v \in Users : userIdToFd'[v] # NoFd => v \in People /\ userIdToFd'[v] = fdOf'[v]
  BY <1>1 DEF SeatsAreKept, RoomTypes
<1>4. \A v \in People : fdOf[v] # NoFd => fdOf[v] < nextClientId
  BY DEF SeatsAreKept
<1>5. \A v, w \in People : fdOf'[v] # NoFd /\ fdOf'[v] = fdOf'[w] => v = w
  BY <1>1, <1>4 DEF SeatsAreKept, RoomTypes
<1>6. \A v \in People : fdOf'[v] # NoFd => fdOf'[v] \in clients'
  BY <1>1 DEF SeatsAreKept, RoomTypes
<1>7. \A f \in clients' : f < nextClientId'
  <2>1. \A f \in clients : f \in Nat
    BY DEF ServerInv, SessionInv, Sessions, Fds
  <2> QED BY <1>1, <2>1 DEF SeatsAreKept, RoomTypes
<1>8. \A f \in Fds : f >= nextClientId' => toServer'[f] = <<>> /\ toClient'[f] = <<>>
  BY <1>1 DEF SeatsAreKept, RoomTypes, Fds
<1>9. ASSUME NEW v \in People, ~shown'[v], userIdToFd'[v] # NoFd
      PROVE  LogoutUnderWay(v)'
  <2>1. LogoutUnderWay(v) /\ userIdToFd[v] = fdOf[v] /\ fdOf[v] # NoFd
    BY <1>1, <1>9 DEF SeatsAreKept, People, Users
  <2>2. fdOf'[v] = fdOf[v]
    BY <1>1, <2>1 DEF RoomTypes
  <2> QED BY <1>1, <2>1, <2>2 DEF LogoutUnderWay
<1> QED BY <1>1, <1>2, <1>3, <1>5, <1>6, <1>7, <1>8, <1>9 DEF SeatsAreKept

\* Somebody logs in at a window: names and windows change places together.
LEMMA LoggedInTypes ==
  ASSUME ServerInv, RoomTypes, SeatsAreKept, NEW u \in People, NEW v \in People, LogsIn(v, u)
  PROVE  /\ RoomTypes' /\ SeatsAreKept'
         /\ fdOf'[v] = fdOf[u] /\ fdOf'[u] = fdOf[v]
         /\ \A w \in People : w \notin {u, v} => fdOf'[w] = fdOf[w]
         /\ teacherPage'[v] = teacherPage[u] /\ teacherPage'[u] = teacherPage[v]
         /\ studentPage'[v] = studentPage[u] /\ studentPage'[u] = studentPage[v]
         /\ \A w \in People : w \notin {u, v} =>
               teacherPage'[w] = teacherPage[w] /\ studentPage'[w] = studentPage[w]
<1>1. /\ fdOf[u] \in Fds /\ Caller(fdOf[u]) = NoUser
      /\ userIdToFd[u] = NoFd /\ userIdToFd[v] = NoFd /\ displaced' = displaced
  BY LoginIsFirst
<1>2. /\ shown' = [shown EXCEPT ![v] = TRUE] /\ fdOf[u] # NoFd
      /\ fdOf' = Swapped(fdOf, u, v) /\ teacherPage' = Swapped(teacherPage, u, v)
      /\ studentPage' = Swapped(studentPage, u, v)
      /\ userIdToFd' = [userIdToFd EXCEPT ![v] = fdOf[u]]
      /\ UNCHANGED <<lesson, toServer, toClient, clients, nextClientId>>
  BY DEF LogsIn, LoginReq, SM!Login, connVars
<1>3. /\ fdOf \in [People -> Fds \cup {NoFd}] /\ shown \in [People -> BOOLEAN]
      /\ teacherPage \in [People -> TeacherRecord]
      /\ studentPage \in [People -> StudentRecord]
  BY DEF RoomTypes
<1>4. /\ fdOf'[v] = fdOf[u] /\ fdOf'[u] = fdOf[v]
      /\ \A w \in People : w \notin {u, v} => fdOf'[w] = fdOf[w]
      /\ fdOf' \in [People -> Fds \cup {NoFd}]
  <2>1. /\ Swapped(fdOf, u, v)[v] = fdOf[u] /\ Swapped(fdOf, u, v)[u] = fdOf[v]
        /\ \A w \in People : w \notin {u, v} => Swapped(fdOf, u, v)[w] = fdOf[w]
        /\ Swapped(fdOf, u, v) \in [People -> Fds \cup {NoFd}]
    BY <1>3 DEF Swapped
  <2> QED BY <1>2, <2>1
<1>5. /\ teacherPage'[v] = teacherPage[u] /\ teacherPage'[u] = teacherPage[v]
      /\ \A w \in People : w \notin {u, v} => teacherPage'[w] = teacherPage[w]
      /\ teacherPage' \in [People -> TeacherRecord]
  <2>1. /\ Swapped(teacherPage, u, v)[v] = teacherPage[u]
        /\ Swapped(teacherPage, u, v)[u] = teacherPage[v]
        /\ \A w \in People : w \notin {u, v} => Swapped(teacherPage, u, v)[w] = teacherPage[w]
        /\ Swapped(teacherPage, u, v) \in [People -> TeacherRecord]
    BY <1>3 DEF Swapped
  <2> QED BY <1>2, <2>1
<1>6. /\ studentPage'[v] = studentPage[u] /\ studentPage'[u] = studentPage[v]
      /\ \A w \in People : w \notin {u, v} => studentPage'[w] = studentPage[w]
      /\ studentPage' \in [People -> StudentRecord]
  <2>1. /\ Swapped(studentPage, u, v)[v] = studentPage[u]
        /\ Swapped(studentPage, u, v)[u] = studentPage[v]
        /\ \A w \in People : w \notin {u, v} => Swapped(studentPage, u, v)[w] = studentPage[w]
        /\ Swapped(studentPage, u, v) \in [People -> StudentRecord]
    BY <1>3 DEF Swapped
  <2> QED BY <1>2, <2>1
<1>7. RoomTypes'
  <2>1. shown' \in [People -> BOOLEAN]
    BY <1>2, <1>3
  <2> QED BY <1>2, <1>4, <1>5, <1>6, <2>1 DEF RoomTypes
<1>8. ASSUME NEW w \in Users, userIdToFd'[w] # NoFd
      PROVE  w \in People /\ userIdToFd'[w] = fdOf'[w]
  <2>1. userIdToFd \in [Users -> Fds \cup {NoFd}] /\ v \in Users
    BY DEF ServerInv, SessionInv, Sessions, SM!TypeOK, People, Users
  <2>2. CASE w = v
    BY <1>2, <1>4, <2>1, <2>2
  <2>3. CASE w # v
    <3>1. userIdToFd'[w] = userIdToFd[w] /\ w # u
      BY <1>1, <1>2, <1>8, <2>1, <2>3
    <3> QED BY <1>4, <1>8, <2>3, <3>1 DEF SeatsAreKept
  <2> QED BY <2>2, <2>3
<1>9. \A w \in People : w = v \/ userIdToFd'[w] = userIdToFd[w]
  BY <1>2 DEF ServerInv, SessionInv, Sessions, SM!TypeOK, People, Users
<1>10. ASSUME NEW w \in People, ~shown'[w], userIdToFd'[w] # NoFd
       PROVE  LogoutUnderWay(w)'
  <2>1. w # v /\ shown'[w] = shown[w]
    BY <1>2, <1>3, <1>10
  <2>2. userIdToFd[w] # NoFd /\ w # u
    BY <1>1, <1>9, <1>10, <2>1
  <2>3. LogoutUnderWay(w) /\ fdOf'[w] = fdOf[w]
    BY <1>4, <1>10, <2>1, <2>2 DEF SeatsAreKept
  <2> QED BY <1>2, <2>3 DEF LogoutUnderWay
<1>11. /\ \A w \in People : fdOf'[w] # NoFd => fdOf'[w] \in clients'
       /\ \A w, x \in People : fdOf'[w] # NoFd /\ fdOf'[w] = fdOf'[x] => w = x
  BY <1>2, <1>4 DEF SeatsAreKept
<1>12. SeatsAreKept'
  BY <1>1, <1>2, <1>8, <1>10, <1>11 DEF SeatsAreKept
<1> QED BY <1>4, <1>5, <1>6, <1>7, <1>12

LEMMA AskedTypes ==
  ASSUME RoomTypes, SeatsAreKept, NEW u \in People, NEW m \in RequestRecord, Asks(u, m)
  PROVE  RoomTypes' /\ SeatsAreKept'
<1>1. /\ UNCHANGED <<lesson, fdOf, studentPage, toClient, clients, nextClientId,
                     userIdToFd, displaced>>
      /\ teacherPage' \in [People -> TeacherRecord]
      /\ shown' \in [People -> BOOLEAN] /\ Sends(u, m)
      /\ \A v \in People : shown'[v] = shown[v] \/ (v = u /\ m.type = "LOGOUT_REQ")
  BY DEF Asks, KeepsPages, ServerIdle, OnlySends, connVars, smVars
<1>2. /\ toServer' \in [Fds -> Seq(RequestRecord)]
      /\ \A f \in Fds : f # fdOf[u] => toServer'[f] = toServer[f]
      /\ fdOf[u] # NoFd => /\ fdOf[u] \in Fds
                           /\ toServer'[fdOf[u]] = Append(toServer[fdOf[u]], m)
  BY <1>1, SendsOne
<1>3. RoomTypes'
  BY <1>1, <1>2 DEF RoomTypes
<1>4. ASSUME NEW f \in Fds, f >= nextClientId
      PROVE  toServer'[f] = <<>>
  <2>1. \A v \in People : fdOf[v] # NoFd => fdOf[v] < nextClientId
    BY DEF SeatsAreKept
  <2>2. f # fdOf[u]
    <3>1. f \in Nat /\ nextClientId \in Nat /\ f # NoFd
      BY ServerAssumption DEF RoomTypes, Fds
    <3> QED BY <1>4, <2>1, <3>1
  <2> QED BY <1>2, <1>4, <2>2 DEF SeatsAreKept
<1>5. ASSUME NEW v \in People, ~shown'[v], userIdToFd'[v] # NoFd
      PROVE  LogoutUnderWay(v)'
  <2>1. userIdToFd[v] = fdOf[v] /\ fdOf[v] # NoFd /\ fdOf[v] \in Fds /\ fdOf'[v] = fdOf[v]
    BY <1>1, <1>5 DEF SeatsAreKept, People, Users, RoomTypes
  <2>2. toServer[fdOf[v]] \in Seq(RequestRecord)
    BY <2>1 DEF RoomTypes
  <2>3. CASE v = u /\ m.type = "LOGOUT_REQ"
    <3>1. /\ Len(toServer[fdOf[v]]) + 1 \in DOMAIN Append(toServer[fdOf[v]], m)
          /\ Append(toServer[fdOf[v]], m)[Len(toServer[fdOf[v]]) + 1] = m
      BY <2>2, Appended
    <3> QED BY <1>2, <2>1, <2>3, <3>1 DEF LogoutUnderWay
  <2>4. CASE ~(v = u /\ m.type = "LOGOUT_REQ")
    <3>1. PICK i \in DOMAIN toServer[fdOf[v]] : toServer[fdOf[v]][i].type = "LOGOUT_REQ"
      BY <1>1, <1>5, <2>4 DEF SeatsAreKept, LogoutUnderWay
    <3>2. i \in DOMAIN toServer'[fdOf[v]] /\ toServer'[fdOf[v]][i].type = "LOGOUT_REQ"
      <4>1. CASE fdOf[v] # fdOf[u]
        BY <1>2, <2>1, <3>1, <4>1
      <4>2. CASE fdOf[v] = fdOf[u]
        <5>1. toServer'[fdOf[v]] = Append(toServer[fdOf[v]], m)
          BY <1>2, <2>1, <4>2
        <5>2. /\ i \in DOMAIN Append(toServer[fdOf[v]], m)
              /\ Append(toServer[fdOf[v]], m)[i] = toServer[fdOf[v]][i]
          BY <2>2, <3>1, Appended
        <5> QED BY <3>1, <5>1, <5>2
      <4> QED BY <4>1, <4>2
    <3> QED BY <2>1, <3>2 DEF LogoutUnderWay
  <2> QED BY <2>3, <2>4
<1> QED BY <1>1, <1>3, <1>4, <1>5 DEF SeatsAreKept

LEMMA ReceivedTypes ==
  ASSUME RoomTypes, SeatsAreKept, NEW u \in People, Receives(u)
  PROVE  RoomTypes' /\ SeatsAreKept'
<1>1. /\ UNCHANGED <<lesson, fdOf, shown, toServer, clients, nextClientId, userIdToFd,
                     displaced>>
      /\ fdOf[u] \in Fds /\ toClient[fdOf[u]] # <<>>
      /\ toClient' = [toClient EXCEPT ![fdOf[u]] = Tail(@)]
      /\ toClient' \in [Fds -> Seq(MessageRecord)]
      /\ teacherPage' \in [People -> TeacherRecord]
      /\ studentPage' \in [People -> StudentRecord]
  BY ReceivesOne DEF ServerIdle, OnlySends, connVars, smVars
<1>2. RoomTypes'
  BY <1>1 DEF RoomTypes
<1>3. \A f \in Fds : f # fdOf[u] => toClient'[f] = toClient[f]
  BY <1>1 DEF RoomTypes
<1>4. \A f \in Fds : f >= nextClientId => toClient'[f] = <<>>
  BY <1>1, <1>3 DEF SeatsAreKept
<1> QED BY <1>1, <1>2, <1>4 DEF SeatsAreKept, LogoutUnderWay

LEMMA TurnedTypes ==
  ASSUME RoomTypes, SeatsAreKept, TurnsPages
  PROVE  RoomTypes' /\ SeatsAreKept'
<1>1. UNCHANGED <<lesson, fdOf, shown, toServer, toClient, clients, nextClientId, userIdToFd,
                  displaced>>
  BY DEF TurnsPages, ServerIdle, OnlySends, connVars, smVars
<1>2. RoomTypes'
  BY <1>1 DEF RoomTypes, TurnsPages, KeepsPages
<1>3. SeatsAreKept'
  BY <1>1 DEF SeatsAreKept, LogoutUnderWay
<1> QED BY <1>2, <1>3

-----------------------------------------------------------------------------
(* What each step makes of the talk about a medium. *)

\* Whoever acts on a connection is the one at its window.
LEMMA CallerSits ==
  ASSUME ServerInv, SeatsAreKept, NEW fd \in Fds, Caller(fd) # NoUser
  PROVE  Caller(fd) \in People /\ fdOf[Caller(fd)] = fd /\ fd # NoFd
<1>1. Caller(fd) \in Users /\ userIdToFd[Caller(fd)] = fd
  BY DEF ServerInv, SessionInv, Sessions, SM!TypeOK, Linked, Caller, SM!GetUser, SM!GetFd
<1> QED BY <1>1, ConstantsAreFine DEF SeatsAreKept

LEMMA TeachersStartAndStop ==
  ASSUME NEW k \in {Screen, Audio}, NEW fd, NEW m, Performs(fd, m),
         m.type \in {k.start, k.stop}
  PROVE  Caller(fd) \in Teachers
BY DEF Performs, Screen, Audio, StartScreenShareReq, StopScreenShareReq, StartAudioReq,
       StopAudioReq, ByTeacher

LEMMA TalkHandled ==
  ASSUME ServerInv, ServerInv', RoomTypes, SeatsAreKept,
         NEW fd \in Fds, NEW ok \in BOOLEAN, Handled(fd, ok), NEW t \in Teachers,
         NEW k \in {Screen, Audio}, NEW on, NEW where, NEW S, NEW new,
         Talk(k, on, where, S, Over, Lost(t, "media"), To(t), From(t)),
         ok = TRUE => Effect(k, S, new, Over, Over', <<t, "media">> \in LosesTouch,
                             Head(toServer[fd]), Caller(fd) = t),
         ok = FALSE => new = S
  PROVE  Talk(k, on, where, new, Over', Lost(t, "media")', To(t)', From(t)')
<1> DEFINE q == toServer[fd]
           a == toClient[fd]
           m == Head(q)
           lost == Lost(t, "media")
           newLost == Lost(t, "media")'
<1>1. /\ fdOf' = fdOf /\ t \in People
      /\ lost => newLost
      /\ <<t, "media">> \in LosesTouch => newLost
  BY DEF Handled, windowVars, Lost, People
<1>2. Over \subseteq Over'
  <2>1. CASE ok = TRUE
    BY <2>1, PerformsOver DEF Handled
  <2>2. CASE ok = FALSE
    BY <2>2 DEF Handled, OnlySends, cmVars, Over
  <2> QED BY <2>1, <2>2
<1>3. /\ q \in Seq(RequestRecord) /\ a \in Seq(MessageRecord) /\ q # <<>>
      /\ m \in RequestRecord
  BY Taken DEF Handled, RoomTypes
<1>4. Caller(fd) = t => fdOf[t] = fd
  BY CallerSits, ConstantsAreFine DEF Users
<1>5. ok = TRUE => Effect(k, S, new, Over, Over', newLost, m, Caller(fd) = t)
  BY <1>1 DEF Effect
<1> HIDE DEF lost, newLost, q, a, m
<1>6. CASE fdOf[t] = fd
  <2>1. ok = TRUE => Effect(k, S, new, Over, Over', newLost, m, TRUE)
    <3>1. CASE Caller(fd) = t
      BY <1>5, <3>1 DEF Effect
    <3>2. CASE Caller(fd) # t
      <4>1. ok = TRUE /\ m.type \in {k.start, k.stop} => Caller(fd) \in Teachers
        BY TeachersStartAndStop DEF Handled, m, q
      <4>2. Caller(fd) \in Teachers => Caller(fd) \in People /\ fdOf[Caller(fd)] = fd
        BY CallerSits, ConstantsAreFine DEF Users
      <4>3. ok = TRUE => m.type \notin {k.start, k.stop}
        BY <1>1, <1>6, <3>2, <4>1, <4>2, ConstantsAreFine DEF SeatsAreKept
      <4> QED BY <1>5, <3>2, <4>3 DEF Effect
    <3> QED BY <3>1, <3>2
  <2>2. PushedOn(fd) = <<>>
        \/ \E x \in MessageRecord : x.type \in NoticeTypes /\ PushedOn(fd) = <<x>>
    BY HandledQueues
  <2>3. Talk(k, on, where, S, Over, lost, q, a)
    BY <1>6, ConstantsAreFine DEF To, From, q, a, lost
  <2>4. Talk(k, on, where, new, Over', newLost, Tail(q), a \o PushedOn(fd) \o Reply(m, ok))
    <3> DEFINE P == PushedOn(fd)
               over == Over
               newOver == Over'
    <3>1. Talk(k, on, where, S, over, lost, q, a)
      BY <2>3
    <3>2. P = <<>> \/ \E x \in MessageRecord : x.type \in NoticeTypes /\ P = <<x>>
      BY <2>2
    <3>3. ok = TRUE => Effect(k, S, new, over, newOver, newLost, Head(q), TRUE)
      BY <2>1 DEF m
    <3>4. over \subseteq newOver /\ (lost => newLost)
      BY <1>1, <1>2
    <3>5. q \in Seq(RequestRecord) /\ a \in Seq(MessageRecord) /\ q # <<>>
      BY <1>1, <1>3
    <3> HIDE DEF P, over, newOver, q, a, lost, newLost
    <3>6. Talk(k, on, where, new, newOver, newLost, Tail(q), a \o P \o Reply(Head(q), ok))
      BY <3>1, <3>2, <3>3, <3>4, <3>5, TalkServed, ZenonT(60)
    <3> QED BY <3>6 DEF P, newOver, m
  <2>5. To(t)' = Tail(q) /\ From(t)' = a \o PushedOn(fd) \o Reply(m, ok)
    <3>1. fd # NoFd /\ fdOf'[t] = fd
      BY <1>1, <1>6, ConstantsAreFine
    <3>2. /\ toServer'[fd] = Tail(toServer[fd])
          /\ toClient'[fd] = toClient[fd] \o PushedOn(fd) \o Reply(Head(toServer[fd]), ok)
      BY HandledQueues
    <3> QED BY <3>1, <3>2 DEF To, From, q, a, m
  <2> QED BY <2>4, <2>5 DEF newLost
<1>7. CASE fdOf[t] # fd
  <2>1. new = S
    BY <1>4, <1>5, <1>7 DEF Effect
  <2>2. Talk(k, on, where, new, Over', newLost, To(t), From(t))
    BY <1>1, <1>2, <2>1, TalkGrows DEF lost
  <2>3. CASE fdOf[t] = NoFd
    <3>1. To(t)' = To(t) /\ From(t)' = From(t)
      BY <1>1, <2>3 DEF To, From
    <3> QED BY <2>2, <3>1 DEF newLost
  <2>4. CASE fdOf[t] # NoFd
    <3> DEFINE f == fdOf[t]
               P == PushedOn(f)
    <3>1. f \in Fds /\ toServer[f] \in Seq(RequestRecord) /\ toClient[f] \in Seq(MessageRecord)
      BY <1>1, <2>4 DEF RoomTypes
    <3>2. To(t) = toServer[f] /\ From(t) = toClient[f] /\ To(t)' = toServer'[f]
          /\ From(t)' = toClient'[f]
      BY <1>1, <2>4 DEF To, From
    <3>3. To(t)' = To(t) /\ From(t)' = From(t) \o P
          /\ (P = <<>> \/ \E x \in MessageRecord : x.type \in NoticeTypes /\ P = <<x>>)
      BY <1>7, <3>1, <3>2, HandledQueues
    <3> HIDE DEF P, f
    <3>4. CASE P = <<>>
      <4>1. From(t)' = From(t)
        BY <3>1, <3>2, <3>3, <3>4
      <4> QED BY <2>2, <3>3, <4>1 DEF newLost
    <3>5. ASSUME NEW x \in MessageRecord, x.type \in NoticeTypes, P = <<x>>
          PROVE  Talk(k, on, where, new, Over', newLost, To(t)', From(t)')
      <4>1. From(t)' = Append(From(t), x)
        BY <3>1, <3>2, <3>3, <3>5, Appended
      <4>2. x.type \notin {k.started, k.stopped}
        BY <3>5, MediumFacts
      <4> QED BY <2>2, <3>1, <3>2, <3>3, <4>1, <4>2, TalkPushed
    <3> QED BY <3>3, <3>4, <3>5 DEF newLost
  <2> QED BY <2>3, <2>4
<1> QED BY <1>6, <1>7

\* Disconnecting and logging out leave the media and the life cycle of the classes alone.
MediaStay == UNCHANGED <<status, owner, screenSharing, audioActive, micHolder>>

LEMMA MediaStayTalk ==
  ASSUME MediaStay, NEW t
  PROVE  Over' = Over /\ ScreenOf(t)' = ScreenOf(t) /\ AudioOf(t)' = AudioOf(t)
BY DEF MediaStay, Over, ScreenOf, AudioOf

LEMMA TalkLost ==
  ASSUME RoomTypes, SeatsAreKept, NEW u \in People, LosesConnection(u), NEW t \in Teachers,
         NEW k \in {Screen, Audio}, NEW on, NEW where, NEW S,
         Talk(k, on, where, S, Over, Lost(t, "media"), To(t), From(t))
  PROVE  /\ MediaStay
         /\ Talk(k, on, where, S, Over', Lost(t, "media")', To(t)', From(t)')
<1> DEFINE lost == Lost(t, "media")
           newLost == Lost(t, "media")'
<1>1. /\ fdOf[u] # NoFd /\ fdOf[u] \in Fds /\ CloseConnection(fdOf[u])
      /\ fdOf' = [fdOf EXCEPT ![u] = NoFd]
      /\ toServer' = [toServer EXCEPT ![fdOf[u]] = <<>>]
      /\ toClient' = [toClient EXCEPT ![fdOf[u]] = <<>>]
      /\ estranged' = estranged \cup LosesTouch
              \cup {Unseen(u, toClient[fdOf[u]][i]) : i \in DOMAIN toClient[fdOf[u]]}
  BY DEF LosesConnection, RoomTypes
<1>2. MediaStay
  BY <1>1 DEF CloseConnection, EndSession, CM!RemoveFromAll, CM!lifeVars, CM!mediaVars,
              cmVars, MediaStay
<1>3. Over' = Over /\ (lost => newLost) /\ t \in People
  BY <1>1, <1>2, MediaStayTalk DEF Lost, People
<1>4. CASE u = t
  <2>1. To(t)' = <<>> /\ From(t)' = <<>> /\ From(t) = toClient[fdOf[t]]
    BY <1>1, <1>3, <1>4 DEF To, From, RoomTypes
  <2>2. ASSUME NEW i \in DOMAIN From(t),
               Says(From(t), i, k.started) \/ Says(From(t), i, k.stopped)
        PROVE  newLost
    <3>1. From(t)[i].type # "NOTIFY_QUESTION_PUBLISHED"
      BY <2>2 DEF Says, Screen, Audio
    <3>2. Unseen(t, From(t)[i]) = <<t, "media">>
      BY <3>1 DEF Unseen
    <3>3. Unseen(u, toClient[fdOf[u]][i]) \in estranged'
      BY <1>1, <1>4, <2>1, <2>2
    <3> QED BY <1>4, <2>1, <3>2, <3>3 DEF Lost
  <2> HIDE DEF lost, newLost
  <2>3. Talk(k, on, where, S, Over, lost, To(t), From(t))
    BY DEF lost
  <2>4. Talk(k, on, where, S, Over, newLost, <<>>, <<>>)
    BY <1>3, <2>2, <2>3, TalkDropped
  <2> QED BY <1>2, <1>3, <2>1, <2>4 DEF newLost
<1>5. CASE u # t
  <2>1. fdOf'[t] = fdOf[t] /\ (fdOf[t] # NoFd => fdOf[t] # fdOf[u] /\ fdOf[t] \in Fds)
    BY <1>1, <1>3, <1>5 DEF SeatsAreKept, RoomTypes
  <2>2. To(t)' = To(t) /\ From(t)' = From(t)
    BY <1>1, <2>1 DEF To, From, RoomTypes
  <2> HIDE DEF lost, newLost
  <2>3. Talk(k, on, where, S, Over, newLost, To(t), From(t))
    BY <1>3, TalkGrows DEF lost
  <2> QED BY <1>2, <1>3, <2>2, <2>3 DEF newLost
<1> QED BY <1>4, <1>5

LEMMA TalkReconnects ==
  ASSUME RoomTypes, SeatsAreKept, NEW u \in People, Reconnects(u), NEW t \in People
  PROVE  To(t)' = To(t) /\ From(t)' = From(t)
<1>1. /\ fdOf[u] = NoFd /\ fdOf' = [fdOf EXCEPT ![u] = nextClientId]
      /\ nextClientId \in Fds
      /\ UNCHANGED <<toServer, toClient>>
  BY DEF Reconnects, Connect
<1>2. nextClientId # NoFd /\ toServer[nextClientId] = <<>> /\ toClient[nextClientId] = <<>>
  BY <1>1, ConstantsAreFine DEF SeatsAreKept, RoomTypes
<1>3. fdOf'[t] = IF t = u THEN nextClientId ELSE fdOf[t]
  BY <1>1 DEF RoomTypes
<1> QED BY <1>1, <1>2, <1>3 DEF To, From

\* Whoever logs in where somebody else was is out of touch, as is who had the name before.
LEMMA TalkLogsIn ==
  ASSUME ServerInv, RoomTypes, SeatsAreKept, NEW u \in People, NEW v \in People, LogsIn(v, u),
         NEW t \in People
  PROVE  \/ /\ u # v /\ t \in {u, v} /\ To(t)' = <<>> /\ From(t)' = <<>>
            /\ \A topic \in Topics : Lost(t, topic)' = TRUE
         \/ /\ teacherPage'[t] = teacherPage[t] /\ studentPage'[t] = studentPage[t]
            /\ To(t)' = To(t) /\ From(t)' = From(t)
            /\ \A topic \in Topics : Lost(t, topic)' <=> Lost(t, topic)
<1>1. /\ fdOf'[v] = fdOf[u] /\ fdOf'[u] = fdOf[v] /\ Drained(u) /\ Drained(v)
      /\ \A w \in People : w \notin {u, v} => /\ fdOf'[w] = fdOf[w]
                                            /\ teacherPage'[w] = teacherPage[w]
                                            /\ studentPage'[w] = studentPage[w]
      /\ teacherPage'[v] = teacherPage[u] /\ studentPage'[v] = studentPage[u]
  <2>1. Drained(u) /\ Drained(v)
    BY DEF LogsIn
  <2> QED BY <2>1, LoggedInTypes
<1>2. /\ toServer' = toServer /\ toClient' = toClient
      /\ u # v => estranged' = estranged \cup ({u, v} \X Topics)
      /\ u = v => estranged' = estranged
  BY DEF LogsIn
<1>3. CASE u # v /\ t \in {u, v}
  <2>1. fdOf'[t] # NoFd => toServer[fdOf'[t]] = <<>> /\ toClient[fdOf'[t]] = <<>>
    BY <1>1, <1>3 DEF Drained
  <2>2. To(t)' = <<>> /\ From(t)' = <<>>
    BY <1>2, <2>1 DEF To, From
  <2>3. \A topic \in Topics : Lost(t, topic)'
    BY <1>2, <1>3 DEF Lost
  <2> QED BY <1>3, <2>2, <2>3
<1>4. CASE ~(u # v /\ t \in {u, v})
  <2>1. /\ fdOf'[t] = fdOf[t] /\ teacherPage'[t] = teacherPage[t]
        /\ studentPage'[t] = studentPage[t]
    BY <1>1, <1>4
  <2>2. To(t)' = To(t) /\ From(t)' = From(t)
    BY <1>2, <2>1 DEF To, From
  <2>3. \A topic \in Topics : Lost(t, topic)' <=> Lost(t, topic)
    BY <1>2, <1>4 DEF Lost
  <2> QED BY <2>1, <2>2, <2>3
<1> QED BY <1>3, <1>4

\* Connecting and logging in change no class.
LEMMA ComingKeepsMedia ==
  ASSUME NEW u, NEW v, Reconnects(u) \/ LogsIn(v, u)
  PROVE  MediaStay
BY DEF Reconnects, Connect, LogsIn, LoginReq, cmVars, MediaStay

LEMMA IdleStays ==
  ASSUME ServerIdle
  PROVE  MediaStay
BY DEF ServerIdle, OnlySends, cmVars, MediaStay

LEMMA TalkAsks ==
  ASSUME RoomTypes, SeatsAreKept, NEW u \in People, NEW m \in RequestRecord, Asks(u, m),
         NEW t \in Teachers,
         NEW k \in {Screen, Audio}, NEW on, NEW where, NEW S,
         Talk(k, on, where, S, Over, Lost(t, "media"), To(t), From(t)),
         u = t /\ fdOf[t] # NoFd =>
            AsksFairly(k, on, Lost(t, "media"), To(t), From(t), m)
  PROVE  Talk(k, on, where, S, Over', Lost(t, "media")', To(t)', From(t)')
<1>1. /\ Over' = Over /\ fdOf' = fdOf /\ toClient' = toClient /\ estranged' = estranged
      /\ t \in People
  BY IdleStays, MediaStayTalk DEF Asks, People
<1>2. /\ \A f \in Fds : f # fdOf[u] => toServer'[f] = toServer[f]
      /\ fdOf[u] # NoFd => /\ fdOf[u] \in Fds
                           /\ toServer'[fdOf[u]] = Append(toServer[fdOf[u]], m)
  BY SendsOne DEF Asks
<1>3. From(t)' = From(t) /\ Lost(t, "media")' = Lost(t, "media")
  BY <1>1 DEF From, Lost
<1>4. CASE u = t /\ fdOf[t] # NoFd
  <2>1. To(t)' = Append(To(t), m)
    BY <1>1, <1>2, <1>4 DEF To
  <2>2. To(t) \in Seq(RequestRecord) /\ From(t) \in Seq(MessageRecord)
    BY <1>2, <1>4 DEF To, From, RoomTypes
  <2>3. Talk(k, on, where, S, Over, Lost(t, "media"), Append(To(t), m), From(t))
    <3>1. Medium(k)
      BY MediumFacts
    <3>2. DEFINE X == RequestRecord \cup MessageRecord
    <3>3. To(t) \in Seq(X) /\ From(t) \in Seq(X) /\ m \in X
      BY <2>2
    <3> HIDE DEF X
    <3> QED BY <1>4, <3>1, <3>3, TalkAsked DEF AsksFairly
  <2> QED BY <1>1, <1>3, <2>1, <2>3
<1>5. CASE ~(u = t /\ fdOf[t] # NoFd)
  <2>1. fdOf[t] # NoFd => fdOf[t] # fdOf[u] /\ fdOf[t] \in Fds
    BY <1>1, <1>5 DEF SeatsAreKept, RoomTypes
  <2>2. To(t)' = To(t)
    BY <1>1, <1>2, <2>1 DEF To
  <2> QED BY <1>1, <1>3, <2>2
<1> QED BY <1>4, <1>5

LEMMA TalkReceives ==
  ASSUME RoomTypes, SeatsAreKept, NEW u \in People, Receives(u), NEW t \in Teachers,
         NEW k \in {Screen, Audio}, NEW on \in BOOLEAN, NEW where, NEW S, NEW on2, NEW where2,
         Talk(k, on, where, S, Over, Lost(t, "media"), To(t), From(t)),
         on2 = IF u = t /\ shown[u] THEN OnAfter(k, on, Head(toClient[fdOf[u]])) ELSE on,
         where2 = IF u = t /\ shown[u] THEN WhereAfter(k, where, Head(toClient[fdOf[u]]))
                                       ELSE where
  PROVE  /\ Talk(k, on2, where2, S, Over', Lost(t, "media")', To(t)', From(t)')
         /\ u = t /\ Says(toClient[fdOf[u]], 1, k.started) => on = FALSE
<1> DEFINE a == toClient[fdOf[u]]
<1>1. /\ fdOf[u] \in Fds /\ fdOf[u] # NoFd /\ a # <<>> /\ a \in Seq(MessageRecord)
      /\ toClient' = [toClient EXCEPT ![fdOf[u]] = Tail(@)]
      /\ estranged' = IF shown[u] THEN estranged ELSE estranged \cup {Unseen(u, Head(a))}
      /\ UNCHANGED <<fdOf, toServer>> /\ ServerIdle
  BY ReceivesOne DEF RoomTypes
<1>2. Over' = Over /\ t \in People
  BY <1>1, IdleStays, MediaStayTalk DEF People
<1>3. To(t)' = To(t) /\ Medium(k) /\ (Lost(t, "media") => Lost(t, "media")')
  BY <1>1, MediumFacts DEF To, Lost
<1>4. CASE u = t
  <2>1. From(t) = a /\ From(t)' = Tail(a)
    BY <1>1, <1>4 DEF From, RoomTypes
  <2> HIDE DEF a
  <2>2. Talk(k, on, where, S, Over, Lost(t, "media"), To(t), a)
    BY <2>1
  <2>3. /\ Talk(k, OnAfter(k, on, Head(a)), WhereAfter(k, where, Head(a)), S, Over,
                Lost(t, "media"), To(t), Tail(a))
        /\ Says(a, 1, k.started) => on = FALSE
    BY <1>1, <1>3, <2>2, TalkRead
  <2>4. CASE shown[u]
    <3>1. Lost(t, "media")' = Lost(t, "media")
      BY <1>1, <2>4 DEF Lost
    <3> QED BY <1>2, <1>3, <1>4, <2>1, <2>3, <2>4, <3>1 DEF a
  <2>5. CASE ~shown[u]
    <3>1. ASSUME Says(a, 1, k.started) \/ Says(a, 1, k.stopped)
          PROVE  Lost(t, "media")'
      <4>1. Head(a).type # "NOTIFY_QUESTION_PUBLISHED"
        BY <1>1, <3>1, Taken DEF Says, Screen, Audio
      <4> QED BY <1>1, <1>4, <2>5, <4>1 DEF Lost, Unseen
    <3>2. DEFINE lost == Lost(t, "media")
    <3>3. DEFINE lost2 == Lost(t, "media")'
    <3> HIDE DEF lost, lost2
    <3>4. Talk(k, on, where, S, Over, lost, To(t), a)
      BY <2>2 DEF lost
    <3>5. /\ lost => lost2
          /\ Says(a, 1, k.started) \/ Says(a, 1, k.stopped) => lost2
      BY <1>3, <3>1 DEF lost, lost2
    <3>6. Talk(k, on, where, S, Over, lost2, To(t), Tail(a))
      BY <1>1, <1>3, <3>4, <3>5, TalkMissed
    <3> QED BY <1>2, <1>3, <2>1, <2>3, <2>5, <3>6 DEF lost2, a
  <2> QED BY <2>4, <2>5
<1>5. CASE u # t
  <2>1. fdOf[t] # NoFd => fdOf[t] # fdOf[u] /\ fdOf[t] \in Fds
    BY <1>2, <1>5 DEF SeatsAreKept, RoomTypes
  <2>2. From(t)' = From(t)
    BY <1>1, <2>1 DEF From, RoomTypes
  <2>3. DEFINE lost2 == Lost(t, "media")'
  <2> HIDE DEF lost2
  <2>4. Talk(k, on, where, S, Over, lost2, To(t), From(t))
    BY <1>3, TalkGrows DEF lost2
  <2> QED BY <1>2, <1>3, <1>5, <2>2, <2>4 DEF lost2
<1> QED BY <1>4, <1>5

-----------------------------------------------------------------------------
(* The teachers' side of a lesson. *)

ScreenTalk(t) ==
    Talk(Screen, teacherPage[t].sharing, teacherPage[t].sharedIn, ScreenOf(t), Over,
         Lost(t, "media"), To(t), From(t))
AudioTalk(t) ==
    Talk(Audio, teacherPage[t].audio, teacherPage[t].audioIn, AudioOf(t), Over,
         Lost(t, "media"), To(t), From(t))

Talks == \A t \in Teachers : teacherPage[t].hasty = FALSE => ScreenTalk(t) /\ AudioTalk(t)

RoomInv == ServerInv /\ RoomTypes /\ SeatsAreKept
TeacherInv == RoomInv /\ StoppedMeansStopped /\ Talks /\ Settled

LEMMA PagesKept ==
  ASSUME RoomTypes, KeepsPages, NEW t \in People
  PROVE  /\ teacherPage'[t].hasty = FALSE => teacherPage[t].hasty = FALSE
         /\ teacherPage'[t].sharing = teacherPage[t].sharing
         /\ teacherPage'[t].sharedIn = teacherPage[t].sharedIn
         /\ teacherPage'[t].audio = teacherPage[t].audio
         /\ teacherPage'[t].audioIn = teacherPage[t].audioIn
BY DEF RoomTypes, KeepsPages, TeacherRecord

LEMMA TimersKept ==
  ASSUME RoomTypes, StoppedMeansStopped, KeepsPages
  PROVE  StoppedMeansStopped'
BY DEF RoomTypes, StoppedMeansStopped, KeepsPages, TeacherRecord

LEMMA TalksSame ==
  ASSUME RoomTypes, Talks, KeepsPages, estranged' = estranged, MediaStay,
         \A t \in Teachers : To(t)' = To(t) /\ From(t)' = From(t)
  PROVE  Talks'
<1> SUFFICES ASSUME NEW t \in Teachers, teacherPage'[t].hasty = FALSE
             PROVE (ScreenTalk(t) /\ AudioTalk(t))'
  BY DEF Talks
<1>1. /\ Over' = Over /\ ScreenOf(t)' = ScreenOf(t) /\ AudioOf(t)' = AudioOf(t)
      /\ To(t)' = To(t) /\ From(t)' = From(t)
      /\ Lost(t, "media")' = Lost(t, "media") /\ t \in People
  BY MediaStayTalk DEF Lost, People
<1>2. /\ teacherPage[t].hasty = FALSE
      /\ teacherPage'[t].sharing = teacherPage[t].sharing
      /\ teacherPage'[t].sharedIn = teacherPage[t].sharedIn
      /\ teacherPage'[t].audio = teacherPage[t].audio
      /\ teacherPage'[t].audioIn = teacherPage[t].audioIn
  BY <1>1, PagesKept
<1>3. ScreenTalk(t) /\ AudioTalk(t)
  BY <1>2 DEF Talks
<1> QED BY <1>1, <1>2, <1>3 DEF ScreenTalk, AudioTalk

LEMMA TalksHandled ==
  ASSUME RoomInv, ServerInv', Talks, NEW fd \in Fds, NEW ok \in BOOLEAN, Handled(fd, ok)
  PROVE  Talks'
<1> USE DEF RoomInv
<1> SUFFICES ASSUME NEW t \in Teachers, teacherPage'[t].hasty = FALSE
             PROVE (ScreenTalk(t) /\ AudioTalk(t))'
  BY DEF Talks
<1>1. teacherPage' = teacherPage /\ ScreenTalk(t) /\ AudioTalk(t)
  BY DEF Talks, Handled, windowVars
<1>2. Head(toServer[fd]) \in RequestRecord
  BY HeadRequest DEF Handled
<1>3. ok = TRUE =>
         /\ Effect(Screen, ScreenOf(t), ScreenOf(t)', Over, Over',
                   <<t, "media">> \in LosesTouch, Head(toServer[fd]), Caller(fd) = t)
         /\ Effect(Audio, AudioOf(t), AudioOf(t)', Over, Over',
                   <<t, "media">> \in LosesTouch, Head(toServer[fd]), Caller(fd) = t)
  BY <1>2, ScreenEffect, AudioEffect DEF Handled
<1>4. ok = FALSE => ScreenOf(t)' = ScreenOf(t) /\ AudioOf(t)' = AudioOf(t)
  BY DEF Handled, OnlySends, cmVars, ScreenOf, AudioOf
<1>5. Talk(Screen, teacherPage[t].sharing, teacherPage[t].sharedIn, ScreenOf(t)', Over',
           Lost(t, "media")', To(t)', From(t)')
  <2>1. Talk(Screen, teacherPage[t].sharing, teacherPage[t].sharedIn, ScreenOf(t), Over,
             Lost(t, "media"), To(t), From(t))
    BY <1>1 DEF ScreenTalk
  <2> QED BY <1>3, <1>4, <2>1, TalkHandled
<1>6. Talk(Audio, teacherPage[t].audio, teacherPage[t].audioIn, AudioOf(t)', Over',
           Lost(t, "media")', To(t)', From(t)')
  <2>1. Talk(Audio, teacherPage[t].audio, teacherPage[t].audioIn, AudioOf(t), Over,
             Lost(t, "media"), To(t), From(t))
    BY <1>1 DEF AudioTalk
  <2> QED BY <1>3, <1>4, <2>1, TalkHandled
<1> QED BY <1>1, <1>5, <1>6 DEF ScreenTalk, AudioTalk

LEMMA TalksLost ==
  ASSUME RoomInv, Talks, NEW u \in People, LosesConnection(u)
  PROVE  Talks'
<1> USE DEF RoomInv
<1> SUFFICES ASSUME NEW t \in Teachers, teacherPage'[t].hasty = FALSE
             PROVE (ScreenTalk(t) /\ AudioTalk(t))'
  BY DEF Talks
<1>1. teacherPage' = teacherPage /\ ScreenTalk(t) /\ AudioTalk(t)
  BY DEF Talks, LosesConnection
<1>2. /\ MediaStay
      /\ Talk(Screen, teacherPage[t].sharing, teacherPage[t].sharedIn, ScreenOf(t), Over',
              Lost(t, "media")', To(t)', From(t)')
  BY <1>1, TalkLost DEF ScreenTalk
<1>3. Talk(Audio, teacherPage[t].audio, teacherPage[t].audioIn, AudioOf(t), Over',
           Lost(t, "media")', To(t)', From(t)')
  BY <1>1, TalkLost DEF AudioTalk
<1>4. ScreenOf(t)' = ScreenOf(t) /\ AudioOf(t)' = AudioOf(t)
  BY <1>2, MediaStayTalk
<1> QED BY <1>1, <1>2, <1>3, <1>4 DEF ScreenTalk, AudioTalk

LEMMA TalksAsked ==
  ASSUME RoomInv, Talks, NEW u \in People, NEW m \in RequestRecord, Asks(u, m)
  PROVE  Talks'
<1> USE DEF RoomInv
<1> SUFFICES ASSUME NEW t \in Teachers, teacherPage'[t].hasty = FALSE
             PROVE (ScreenTalk(t) /\ AudioTalk(t))'
  BY DEF Talks
<1>0. t \in People /\ KeepsPages
  BY DEF People, Asks
<1>1. /\ teacherPage[t].hasty = FALSE
      /\ teacherPage'[t].sharing = teacherPage[t].sharing
      /\ teacherPage'[t].sharedIn = teacherPage[t].sharedIn
      /\ teacherPage'[t].audio = teacherPage[t].audio
      /\ teacherPage'[t].audioIn = teacherPage[t].audioIn
  BY <1>0, PagesKept
<1>2. ScreenTalk(t) /\ AudioTalk(t)
  BY <1>1 DEF Talks
<1>3. u = t /\ fdOf[t] # NoFd =>
         /\ AsksFairly(Screen, teacherPage[t].sharing, Lost(t, "media"), To(t), From(t), m)
         /\ AsksFairly(Audio, teacherPage[t].audio, Lost(t, "media"), To(t), From(t), m)
  BY DEF Asks
<1>4. Talk(Screen, teacherPage[t].sharing, teacherPage[t].sharedIn, ScreenOf(t), Over',
           Lost(t, "media")', To(t)', From(t)')
  BY <1>2, <1>3, TalkAsks DEF ScreenTalk
<1>5. Talk(Audio, teacherPage[t].audio, teacherPage[t].audioIn, AudioOf(t), Over',
           Lost(t, "media")', To(t)', From(t)')
  BY <1>2, <1>3, TalkAsks DEF AudioTalk
<1>6. ScreenOf(t)' = ScreenOf(t) /\ AudioOf(t)' = AudioOf(t)
  BY IdleStays, MediaStayTalk DEF Asks
<1> QED BY <1>1, <1>4, <1>5, <1>6 DEF ScreenTalk, AudioTalk

LEMMA TalksLoggedIn ==
  ASSUME RoomInv, Talks, NEW u \in People, NEW v \in People, LogsIn(v, u)
  PROVE  Talks'
<1> USE DEF RoomInv
<1> SUFFICES ASSUME NEW t \in Teachers, teacherPage'[t].hasty = FALSE
             PROVE (ScreenTalk(t) /\ AudioTalk(t))'
  BY DEF Talks
<1>1. t \in People /\ "media" \in Topics
  BY DEF People, Topics
<1>2. Over' = Over /\ ScreenOf(t)' = ScreenOf(t) /\ AudioOf(t)' = AudioOf(t)
  BY ComingKeepsMedia, MediaStayTalk
<1>3. CASE To(t)' = <<>> /\ From(t)' = <<>> /\ Lost(t, "media")' = TRUE
  <2>1. teacherPage'[t].sharing \in BOOLEAN /\ teacherPage'[t].audio \in BOOLEAN
    BY <1>1, LoggedInTypes DEF RoomTypes, TeacherRecord
  <2> DEFINE p == teacherPage'[t]
  <2>2. /\ Talk(Screen, p.sharing, p.sharedIn, ScreenOf(t), Over, TRUE, <<>>, <<>>)
        /\ Talk(Audio, p.audio, p.audioIn, AudioOf(t), Over, TRUE, <<>>, <<>>)
    BY <2>1, TalkBegins
  <2> QED BY <1>2, <1>3, <2>2 DEF ScreenTalk, AudioTalk
<1>4. CASE /\ teacherPage'[t] = teacherPage[t] /\ To(t)' = To(t) /\ From(t)' = From(t)
           /\ Lost(t, "media")' = Lost(t, "media")
  <2>1. ScreenTalk(t) /\ AudioTalk(t)
    BY <1>4 DEF Talks
  <2> QED BY <1>2, <1>4, <2>1 DEF ScreenTalk, AudioTalk
<1>5. \/ To(t)' = <<>> /\ From(t)' = <<>> /\ Lost(t, "media")' = TRUE
      \/ /\ teacherPage'[t] = teacherPage[t] /\ To(t)' = To(t) /\ From(t)' = From(t)
         /\ Lost(t, "media")' = Lost(t, "media")
  <2>1. \/ To(t)' = <<>> /\ From(t)' = <<>> /\ \A topic \in Topics : Lost(t, topic)' = TRUE
        \/ /\ teacherPage'[t] = teacherPage[t] /\ To(t)' = To(t) /\ From(t)' = From(t)
           /\ \A topic \in Topics : Lost(t, topic)' <=> Lost(t, topic)
    BY <1>1, TalkLogsIn
  <2> QED BY <1>1, <2>1 DEF Lost
<1> QED BY <1>3, <1>4, <1>5

LEMMA TalksReceived ==
  ASSUME RoomInv, StoppedMeansStopped, Talks, NEW u \in People, Receives(u)
  PROVE  Talks' /\ StoppedMeansStopped'
<1> USE DEF RoomInv
<1> DEFINE m == Head(toClient[fdOf[u]])
<1>1. SUFFICES ASSUME NEW t \in Teachers, teacherPage'[t].hasty = FALSE
               PROVE  /\ (ScreenTalk(t) /\ AudioTalk(t))'
                      /\ teacherPage'[t].shareTimers = IF teacherPage'[t].sharing THEN 1 ELSE 0
  <2>1. /\ teacherPage' \in [People -> TeacherRecord]
        /\ \A v \in People : v \notin Teachers => teacherPage'[v] = teacherPage[v]
    BY ReceivesOne
  <2>2. \A v \in People : teacherPage'[v].hasty \in BOOLEAN
    BY <2>1 DEF TeacherRecord
  <2> QED BY <2>1, <2>2 DEF Talks, StoppedMeansStopped
<1> DEFINE p == teacherPage[t]
           new == teacherPage'[t]
           reads == u = t /\ shown[u]
<1>3. /\ new = IF reads THEN TP!AfterMessage(p, m) ELSE p
      /\ m \in MessageRecord /\ ServerIdle /\ fdOf[u] \in Fds /\ toClient[fdOf[u]] # <<>>
  BY ReceivesOne
<1>0. t \in People /\ p \in TeacherRecord
  BY DEF RoomTypes, People
<1>h. p.hasty = FALSE
  <2> HIDE DEF m, p, reads
  <2> QED BY <1>0, <1>1, <1>3, TeacherPageAfter DEF new
<1>2. /\ ScreenTalk(t) /\ AudioTalk(t) /\ p \in TeacherRecord
      /\ p.shareTimers = IF p.sharing THEN 1 ELSE 0
  BY <1>0, <1>h DEF Talks, StoppedMeansStopped
<1> HIDE DEF m, p, new, reads
<1>4. /\ new.sharing = IF reads THEN OnAfter(Screen, p.sharing, m) ELSE p.sharing
      /\ new.sharedIn = IF reads THEN WhereAfter(Screen, p.sharedIn, m) ELSE p.sharedIn
      /\ new.audio = IF reads THEN OnAfter(Audio, p.audio, m) ELSE p.audio
      /\ new.audioIn = IF reads THEN WhereAfter(Audio, p.audioIn, m) ELSE p.audioIn
  BY <1>2, <1>3, TeacherPageAfter
<1>5. p.sharing \in BOOLEAN /\ p.audio \in BOOLEAN
  BY <1>2 DEF TeacherRecord
<1>6. /\ Talk(Screen, new.sharing, new.sharedIn, ScreenOf(t), Over', Lost(t, "media")',
              To(t)', From(t)')
      /\ u = t /\ Says(toClient[fdOf[u]], 1, Screen.started) => p.sharing = FALSE
  BY <1>2, <1>4, <1>5, TalkReceives DEF ScreenTalk, m, p, reads
<1>7. Talk(Audio, new.audio, new.audioIn, AudioOf(t), Over', Lost(t, "media")',
           To(t)', From(t)')
  <2> DEFINE S == AudioOf(t)
  <2>1. Talk(Audio, p.audio, p.audioIn, S, Over, Lost(t, "media"), To(t), From(t))
    BY <1>2 DEF AudioTalk, p
  <2>2. /\ new.audio = IF u = t /\ shown[u]
                      THEN OnAfter(Audio, p.audio, Head(toClient[fdOf[u]])) ELSE p.audio
        /\ new.audioIn = IF u = t /\ shown[u]
                        THEN WhereAfter(Audio, p.audioIn, Head(toClient[fdOf[u]]))
                        ELSE p.audioIn
    BY <1>4 DEF m, reads
  <2> DEFINE on == p.audio
             where == p.audioIn
             on2 == new.audio
             where2 == new.audioIn
  <2>3. on \in BOOLEAN
    BY <1>5
  <2> HIDE DEF S, on, where, on2, where2
  <2>4. Talk(Audio, on2, where2, S, Over', Lost(t, "media")', To(t)', From(t)')
    BY <2>1, <2>2, <2>3, TalkReceives DEF on, where, on2, where2
  <2> QED BY <2>4 DEF S, on2, where2
<1>8. ScreenOf(t)' = ScreenOf(t) /\ AudioOf(t)' = AudioOf(t)
  BY <1>3, IdleStays, MediaStayTalk
<1>9. (ScreenTalk(t) /\ AudioTalk(t))'
  BY <1>6, <1>7, <1>8 DEF ScreenTalk, AudioTalk, new
<1>10. new.shareTimers = IF new.sharing THEN 1 ELSE 0
  <2>1. CASE ~reads
    BY <1>2, <1>3, <2>1
  <2>2. CASE reads
    <3>1. new.shareTimers = IF m.type = Screen.started /\ m.ok THEN p.shareTimers + 1
                            ELSE IF m.type = Screen.stopped /\ m.ok /\ p.sharing
                                 THEN p.shareTimers - 1 ELSE p.shareTimers
      BY <1>2, <1>3, <2>2, TeacherPageAfter
    <3>2. m = toClient[fdOf[u]][1]
      BY <1>3, Taken DEF m, RoomTypes
    <3>3. m.type = Screen.started /\ m.ok => p.sharing = FALSE
      BY <1>6, <2>2, <3>2 DEF Says, reads
    <3> QED BY <1>2, <1>4, <1>5, <2>2, <3>1, <3>3 DEF OnAfter
  <2> QED BY <2>1, <2>2
<1> QED BY <1>9, <1>10 DEF new

\* A teacher's window gets the page of a student only by somebody else's login.
LEMMA SettledStays ==
  ASSUME Settled, estranged \subseteq estranged',
         \A t \in Teachers : studentPage'[t].mic = studentPage[t].mic
  PROVE  Settled'
BY DEF Settled, Lost

\* Every step of a lesson keeps what the pages and the server agree on.
LEMMA TeacherInvStep ==
  ASSUME TeacherInv, [RoomNext]_roomVars
  PROVE  TeacherInv'
<1> DEFINE Kept == RoomTypes' /\ SeatsAreKept' /\ StoppedMeansStopped' /\ Talks' /\ Settled'
<1> USE DEF TeacherInv
<1>0. ServerInv'
  BY RoomStepIsServerStep, ServerInvStep DEF RoomInv
<1>p. Teachers \subseteq People
  BY DEF People
<1>1. ASSUME NEW fd \in Fds, NEW ok \in BOOLEAN, Handled(fd, ok)
      PROVE  Kept
  <2>1. RoomTypes' /\ SeatsAreKept' /\ Talks'
    BY <1>0, <1>1, HandledTypes, TalksHandled DEF RoomInv
  <2>2. StoppedMeansStopped'
    BY <1>1 DEF Handled, windowVars, StoppedMeansStopped
  <2>3. Settled'
    BY <1>1, SettledStays DEF Handled, windowVars
  <2> QED BY <2>1, <2>2, <2>3
<1>2. ASSUME NEW u \in People, LosesConnection(u)
      PROVE  Kept
  <2>1. StoppedMeansStopped'
    BY <1>2 DEF LosesConnection, StoppedMeansStopped
  <2>2. Settled'
    BY <1>2, SettledStays DEF LosesConnection
  <2> QED BY <1>2, <2>1, <2>2, LostTypes, TalksLost DEF RoomInv
<1>3. ASSUME NEW u \in People, Reconnects(u)
      PROVE  Kept
  <2>1. /\ teacherPage' = teacherPage /\ studentPage' = studentPage
        /\ estranged' = estranged /\ MediaStay /\ KeepsPages
    BY <1>3, SamePages, ComingKeepsMedia DEF Reconnects, RoomInv
  <2>2. \A t \in Teachers : To(t)' = To(t) /\ From(t)' = From(t)
    BY <1>3, <1>p, TalkReconnects DEF RoomInv
  <2>3. StoppedMeansStopped' /\ Settled'
    BY <2>1, SettledStays DEF StoppedMeansStopped
  <2> QED BY <1>3, <2>1, <2>2, <2>3, ReconnectedTypes, TalksSame DEF RoomInv
<1>l. ASSUME NEW u \in People, NEW v \in People, LogsIn(v, u)
      PROVE  Kept
  <2>1. /\ RoomTypes' /\ SeatsAreKept' /\ Talks'
        /\ teacherPage'[v] = teacherPage[u] /\ teacherPage'[u] = teacherPage[v]
        /\ \A w \in People : w \notin {u, v} => teacherPage'[w] = teacherPage[w]
    BY <1>l, LoggedInTypes, TalksLoggedIn DEF RoomInv
  <2>2. StoppedMeansStopped'
    BY <2>1 DEF StoppedMeansStopped
  <2>3. Settled'
    <3>1. \A t \in Teachers : \/ Lost(t, "media")' = TRUE
                              \/ studentPage'[t] = studentPage[t]
                                 /\ (Lost(t, "media")' <=> Lost(t, "media"))
      BY <1>l, <1>p, TalkLogsIn DEF RoomInv, Topics
    <3> QED BY <3>1 DEF Settled
  <2> QED BY <2>1, <2>2, <2>3
<1>4. ASSUME NEW u \in People, Receives(u)
      PROVE  Kept
  <2>1. Settled'
    <3>1. /\ \A t \in Teachers : studentPage'[t] = studentPage[t]
          /\ estranged \subseteq estranged'
      BY <1>4, <1>p, ReceivesOne, RolesDiffer DEF RoomInv
    <3> QED BY <3>1, SettledStays
  <2> QED BY <1>4, <2>1, ReceivedTypes, TalksReceived DEF RoomInv
<1>5. ASSUME NEW u \in People, NEW m \in RequestRecord, Asks(u, m)
      PROVE  Kept
  <2>1. StoppedMeansStopped'
    BY <1>5, TimersKept DEF Asks, RoomInv
  <2>2. Settled'
    BY <1>5, SettledStays DEF Asks
  <2> QED BY <1>5, <2>1, <2>2, AskedTypes, TalksAsked DEF RoomInv
<1>6. ASSUME TurnsPages
      PROVE  Kept
  <2>1. StoppedMeansStopped'
    BY <1>6, TimersKept DEF TurnsPages, RoomInv
  <2>2. \A t \in Teachers : To(t)' = To(t) /\ From(t)' = From(t)
    BY <1>6 DEF TurnsPages, To, From
  <2>3. MediaStay /\ KeepsPages /\ estranged' = estranged
    BY <1>6, IdleStays DEF TurnsPages
  <2>4. Settled'
    BY <1>6, <1>p, SettledStays DEF TurnsPages
  <2> QED BY <1>6, <2>1, <2>2, <2>3, <2>4, TurnedTypes, TalksSame DEF RoomInv
<1>7. ASSUME UNCHANGED roomVars
      PROVE  Kept
  <2>1. RoomTypes' /\ SeatsAreKept' /\ StoppedMeansStopped' /\ Settled'
    <3>1. RoomTypes'
      BY <1>7 DEF roomVars, windowVars, vars, connVars, RoomInv, RoomTypes
    <3>2. SeatsAreKept'
      BY <1>7 DEF roomVars, windowVars, vars, connVars, smVars, RoomInv, SeatsAreKept,
                  LogoutUnderWay
    <3>3. StoppedMeansStopped' /\ Settled'
      BY <1>7, SettledStays DEF roomVars, windowVars, StoppedMeansStopped
    <3> QED BY <3>1, <3>2, <3>3
  <2>2. /\ KeepsPages /\ estranged' = estranged /\ MediaStay
        /\ \A t \in Teachers : To(t)' = To(t) /\ From(t)' = From(t)
    BY <1>7, SamePages
    DEF roomVars, windowVars, vars, cmVars, MediaStay, To, From, RoomInv
  <2> QED BY <2>1, <2>2, TalksSame DEF RoomInv
<1>8. Kept
  BY <1>1, <1>2, <1>3, <1>4, <1>5, <1>6, <1>7, <1>l, RoomKinds, HandleIsHandled DEF RoomInv
<1> QED BY <1>0, <1>8 DEF RoomInv

\* What the server does outside a request pushes nothing.
LEMMA OthersPushNothing ==
  ASSUME RoomTypes, [RoomNext]_roomVars, ~\E fd \in Fds : Handle(fd)
  PROVE  sent' = {} \/ UNCHANGED roomVars
<1>1. ASSUME NEW u \in People, LosesConnection(u) \/ Reconnects(u)
      PROVE  sent' = {}
  BY <1>1 DEF LosesConnection, CloseConnection, EndSession, Reconnects, Connect, Quietly
<1>2. ASSUME NEW u \in People, NEW v \in People, LogsIn(v, u)
      PROVE  sent' = {}
  BY <1>2 DEF LogsIn, LoginReq, Quietly
<1> QED BY <1>1, <1>2, RoomStepKinds DEF ServerIdle, Quietly

LEMMA PushedAs ==
  ASSUME NEW users, NEW type, NEW c, NEW u, NEW n \in PushTo(users, Message(type, c, u))
  PROVE  n.msg.type = type /\ n.msg.class = c /\ n.msg.from = u
BY DEF PushTo, Message

\* A frame is relayed for the class it was sent to, while the medium runs there.
LEMMA FramesArePerformed ==
  ASSUME NEW fd \in Fds, NEW m, Performs(fd, m), NEW n \in sent',
         n.msg.type \in {"NOTIFY_SCREEN_FRAME", "NOTIFY_AUDIO_FRAME"},
         n.msg.from \in Teachers
  PROVE  /\ n.msg.from = Caller(fd) /\ n.msg.class = m.class
         /\ n.msg.type = "NOTIFY_SCREEN_FRAME" =>
               m.type = Screen.frame /\ m.class \in ScreenOf(Caller(fd))
         /\ n.msg.type = "NOTIFY_AUDIO_FRAME" =>
               m.type = Audio.frame /\ m.class \in AudioOf(Caller(fd))
<1> USE PushedAs DEF Broadcast
<1>0. m.type \in Notifying
  BY OthersAreQuiet
<1>1. CASE m.type \in {"OPEN_CHECKIN_REQ", "RANDOM_CALL_REQ", "PUBLISH_QUESTION_REQ"}
  <2>1. CASE m.type = "OPEN_CHECKIN_REQ"
    BY <2>1 DEF Performs, OpenCheckinReq
  <2>2. CASE m.type = "RANDOM_CALL_REQ"
    <3>1. PICK u \in Students :
             sent' = PushTo({u}, Message("NOTIFY_RANDOM_CALLED", m.class, Caller(fd)))
      BY <2>2 DEF Performs, RandomCallReq
    <3> QED BY <3>1
  <2>3. CASE m.type = "PUBLISH_QUESTION_REQ"
    BY <2>3 DEF Performs, PublishQuestionReq
  <2> QED BY <1>1, <2>1, <2>2, <2>3
<1>2. CASE m.type \in {"START_SCREEN_SHARE_REQ", "STOP_SCREEN_SHARE_REQ"}
  BY <1>2 DEF Performs, StartScreenShareReq, StopScreenShareReq
<1>3. CASE m.type \in {"START_AUDIO_REQ", "STOP_AUDIO_REQ"}
  BY <1>3 DEF Performs, StartAudioReq, StopAudioReq
<1>4. CASE m.type \in {"GRANT_MIC_REQ", "REVOKE_MIC_REQ"}
  BY <1>4 DEF Performs, GrantMicReq, RevokeMicReq
<1>5. CASE m.type = "SCREEN_FRAME"
  <2>1. /\ m.class \in ScreenOf(Caller(fd))
        /\ sent' = PushTo(members[m.class],
                          Message("NOTIFY_SCREEN_FRAME", m.class, Caller(fd)))
    BY <1>5 DEF Performs, ScreenFrame, CM!OwnedBy, ScreenOf
  <2> QED BY <1>5, <2>1 DEF Screen
<1>6. CASE m.type = "AUDIO_FRAME"
  <2>1. AudioFrame(fd, m.class)
    BY <1>6 DEF Performs
  <2>2. n.msg.type = "NOTIFY_AUDIO_FRAME" /\ n.msg.class = m.class /\ n.msg.from = Caller(fd)
    BY <2>1 DEF AudioFrame
  <2>3. m.class \in audioActive /\ owner[m.class] = Caller(fd)
    BY <2>1, <2>2, RolesDiffer DEF AudioFrame, IsTeacherOf, IsMicHolder
  <2> QED BY <1>6, <2>2, <2>3 DEF Audio, AudioOf
<1> QED BY <1>0, <1>1, <1>2, <1>3, <1>4, <1>5, <1>6 DEF Notifying

\* The oldest request is a frame, the medium runs in its class and nothing was lost.
LEMMA TalkFramed ==
  ASSUME NEW k, NEW on, NEW where, NEW S, NEW over,
         NEW X, NEW q \in Seq(X), NEW a, q # <<>>,
         Talk(k, on, where, S, over, FALSE, q, a),
         Head(q).type = k.frame, Head(q).class \in S
  PROVE  Head(q).class = where
<1>1. Head(q) = q[1] /\ 1 \in DOMAIN q
  BY Taken
<1>2. ~Off(k, on, where, S, over, FALSE, q, a)
  BY DEF Off
<1>3. ~Starting(k, on, where, S, over, FALSE, q, a)
  BY <1>1 DEF Starting, StartingAt, Lacks
<1>4. On(k, on, where, S, over, FALSE, q, a)
  BY <1>2, <1>3 DEF Talk
<1> QED BY <1>4 DEF On

LEMMA MediaStep ==
  ASSUME TeacherInv, MediaGoesWhereStarted, [RoomNext]_roomVars
  PROVE  MediaGoesWhereStarted'
<1> USE DEF TeacherInv, RoomInv
<1>1. CASE sent' = {}
  BY <1>1 DEF MediaGoesWhereStarted
<1>2. CASE UNCHANGED roomVars
  BY <1>2 DEF roomVars, vars, windowVars, MediaGoesWhereStarted
<1>3. ASSUME NEW fd \in Fds, NEW ok \in BOOLEAN, Handled(fd, ok)
      PROVE  MediaGoesWhereStarted'
  <2>1. SUFFICES ASSUME NEW n \in sent', n.msg.from \in Teachers,
                        <<n.msg.from, "media">> \notin estranged',
                        ~teacherPage'[n.msg.from].hasty,
                        n.msg.type \in {"NOTIFY_SCREEN_FRAME", "NOTIFY_AUDIO_FRAME"}
                 PROVE  /\ n.msg.type = "NOTIFY_SCREEN_FRAME" =>
                              teacherPage'[n.msg.from].sharedIn = n.msg.class
                        /\ n.msg.type = "NOTIFY_AUDIO_FRAME" =>
                              teacherPage'[n.msg.from].audioIn = n.msg.class
    BY DEF MediaGoesWhereStarted
  <2> DEFINE t == n.msg.from
             q == toServer[fd]
  <2>2. ok = TRUE /\ Performs(fd, Head(q)) /\ q # <<>> /\ q \in Seq(RequestRecord)
    BY <1>3, <2>1 DEF Handled, Quietly, RoomTypes
  <2>3. /\ t = Caller(fd) /\ n.msg.class = Head(q).class
        /\ n.msg.type = "NOTIFY_SCREEN_FRAME" =>
              Head(q).type = Screen.frame /\ Head(q).class \in ScreenOf(t)
        /\ n.msg.type = "NOTIFY_AUDIO_FRAME" =>
              Head(q).type = Audio.frame /\ Head(q).class \in AudioOf(t)
    BY <2>1, <2>2, FramesArePerformed
  <2>4. fdOf[t] = fd /\ fd # NoFd
    BY <2>1, <2>3, CallerSits, ConstantsAreFine DEF Users
  <2>5. To(t) = q /\ Lost(t, "media") = FALSE /\ teacherPage' = teacherPage
    BY <1>3, <2>1, <2>4 DEF To, Lost, Handled, windowVars
  <2>h. teacherPage[t].hasty = FALSE
    BY <2>1, <2>5 DEF RoomTypes, TeacherRecord, People
  <2>6. /\ Talk(Screen, teacherPage[t].sharing, teacherPage[t].sharedIn, ScreenOf(t), Over,
                FALSE, q, From(t))
        /\ Talk(Audio, teacherPage[t].audio, teacherPage[t].audioIn, AudioOf(t), Over,
                FALSE, q, From(t))
    BY <2>1, <2>5, <2>h DEF Talks, ScreenTalk, AudioTalk
  <2> HIDE DEF q, t
  <2>7. Head(q).type = Screen.frame /\ Head(q).class \in ScreenOf(t) =>
           Head(q).class = teacherPage[t].sharedIn
    BY <2>2, <2>6, TalkFramed
  <2>8. Head(q).type = Audio.frame /\ Head(q).class \in AudioOf(t) =>
           Head(q).class = teacherPage[t].audioIn
    BY <2>2, <2>6, TalkFramed
  <2> QED BY <2>3, <2>5, <2>7, <2>8 DEF t
<1> QED BY <1>1, <1>2, <1>3, OthersPushNothing, HandleIsHandled

-----------------------------------------------------------------------------
(* The beginning of a lesson. *)

LEMMA RoomBegins ==
  ASSUME RoomInit
  PROVE  TeacherInv /\ MediaGoesWhereStarted
<1> DEFINE n == Cardinality(People)
<1>1. n \in Nat /\ n <= MaxConnections /\ MaxConnections \in Nat /\ NoFd \notin Nat
  BY ClassroomAssumption, ServerAssumption, FS_CardinalityType
<1>2. PICK seat \in Seats :
         /\ userIdToFd = [u \in Users |-> IF u \in People THEN seat[u] ELSE NoFd]
         /\ fdToUser = [fd \in Fds |-> IF fd \in {seat[u] : u \in People}
                                       THEN CHOOSE u \in People : seat[u] = fd
                                       ELSE NoUser]
  BY DEF RoomInit, LessonInit
<1>3. /\ seat \in [People -> 1 .. n] /\ \A u, v \in People : seat[u] = seat[v] => u = v
      /\ People \subseteq Users /\ 1 .. n \subseteq Fds
  <2>1. 1 .. n \subseteq Fds
    BY <1>1 DEF Fds
  <2> QED BY <1>2, <2>1 DEF Seats, People, Users
<1>4. /\ clients = 1 .. n /\ nextClientId = n + 1 /\ sent = {}
      /\ fdOf = [u \in People |-> userIdToFd[u]]
      /\ lesson \in Lessons /\ lesson \in LessonType
      /\ toServer = [fd \in Fds |-> <<>>] /\ toClient = [fd \in Fds |-> <<>>]
      /\ shown = [u \in People |-> TRUE] /\ estranged = {}
      /\ teacherPage = [u \in People |-> TP!Entered(TP!NewPage, 1)]
      /\ studentPage = [u \in People |-> SP!Entered(SP!NewPage, 1)]
      /\ displaced = {}
  BY ClassroomAssumption DEF RoomInit, LessonInit
<1>5. fdOf = [u \in People |-> seat[u]]
  BY <1>2, <1>3, <1>4
<1>6. ASSUME NEW fd \in Fds
      PROVE  \/ fdToUser[fd] = NoUser /\ \A u \in People : seat[u] # fd
             \/ fdToUser[fd] \in People /\ seat[fdToUser[fd]] = fd
  BY <1>2
<1>7. \A u \in People : fdToUser[seat[u]] = u
  <2>1. TAKE u \in People
  <2>2. seat[u] \in Fds
    BY <1>3
  <2> QED BY <1>3, <1>6, <2>2
<1>8. SessionInv
  <2>1. SM!TypeOK /\ clients \subseteq Fds
    BY <1>2, <1>3, <1>4, <1>6 DEF SM!TypeOK
  <2>2. AccountsFollowConnections
    <3>1. ASSUME NEW u \in Users, userIdToFd[u] # NoFd
          PROVE  userIdToFd[u] \in clients /\ fdToUser[userIdToFd[u]] = u
      <4>1. u \in People /\ userIdToFd[u] = seat[u]
        BY <1>2, <3>1
      <4> QED BY <1>3, <1>4, <1>7, <4>1
    <3> QED BY <3>1 DEF AccountsFollowConnections, SM!GetFd, SM!GetUser, SM!IsLoggedIn
  <2>3. \A fd \in Fds : Caller(fd) # NoUser => fd \in clients /\ SM!GetFd(Caller(fd)) = fd
    BY <1>2, <1>3, <1>4, <1>6 DEF Caller, SM!GetFd, SM!GetUser
  <2> QED BY <1>4, <2>1, <2>2, <2>3 DEF SessionInv, Sessions, Linked
<1>9. /\ status \in [ClassIds -> {"WAITING", "ACTIVE"}] /\ owner \in [ClassIds -> Teachers]
      /\ members = [c \in ClassIds |-> IF c \in lesson.running THEN Students ELSE {}]
      /\ status = [c \in ClassIds |-> IF c \in lesson.running THEN "ACTIVE" ELSE "WAITING"]
      /\ checkins = [c \in ClassIds |-> CM!NoCheckin]
      /\ nextClassId = MaxClasses + 1 /\ screenSharing = {} /\ audioActive = {}
      /\ micHolder = [c \in ClassIds |-> NoUser]
      /\ events = [c \in ClassIds |-> <<>>] /\ clock = 1 /\ restarts = 0 /\ QM!Init
  BY <1>4 DEF RoomInit, LessonInit, QM!Init, LessonType
<1>10. CMP!Inv
  <2>1. nextClassId \in Nat \ {0}
    BY <1>9, ManagersAssumption
  <2>2. CM!NoCheckin \in CMP!CheckinRecord /\ CM!NoCheckin.open = FALSE
    BY DEF CM!NoCheckin, CMP!CheckinRecord
  <2>3. \A c \in ClassIds : <<>> \in Seq(CMP!EventRecord)
    OBVIOUS
  <2>4. CMP!TypeOK
    BY <1>9, <2>1, <2>2, <2>3 DEF CMP!TypeOK, CMP!ClassIds, ClassIds
  <2>5. CMP!OnlyActiveClassesRun
    BY <1>9, <2>2 DEF CMP!OnlyActiveClassesRun, CMP!ClassIds, ClassIds
  <2>6. CMP!MicNeedsAudio
    BY <1>9 DEF CMP!MicNeedsAudio, CMP!ClassIds, ClassIds
  <2>7. CMP!IdsAreFresh
    BY <1>9, ManagersAssumption, ConstantsAreFine DEF CMP!IdsAreFresh, CMP!ClassIds, ClassIds
  <2> QED BY <2>4, <2>5, <2>6, <2>7 DEF CMP!Inv
<1>11. RosterIsOnline
  <2>1. ASSUME NEW c \in ClassIds, NEW u \in members[c]
        PROVE  SM!GetFd(u) \in clients /\ SM!GetUser(SM!GetFd(u)) = u
    <3>1. u \in Students /\ u \in People /\ u \in Users
      BY <1>9, <2>1 DEF People, Users
    <3>2. userIdToFd[u] = seat[u]
      BY <1>2, <3>1
    <3> QED BY <1>3, <1>4, <1>7, <3>1, <3>2 DEF SM!GetFd, SM!GetUser
  <2> QED BY <2>1 DEF RosterIsOnline
<1>12. ServerInv
  BY <1>8, <1>9, <1>10, <1>11, SameInits, QMP!QuestionInit, ConstantsAreFine DEF ServerInv
<1>13. RoomTypes
  <2>1. TP!Entered(TP!NewPage, 1) \in TeacherRecord
    <3>1. ASSUME NEW c \in ClassIds, NEW i \in Int, NEW j \in Nat, NEW b \in BOOLEAN
          PROVE  [class |-> c, sharing |-> b, shareTimers |-> i, sharedIn |-> j,
                  audio |-> b, audioIn |-> j, hasty |-> b, dialog |-> b] \in TeacherRecord
      BY DEF TeacherRecord
    <3>2. ASSUME NEW i, NEW b
          PROVE  [[class |-> i, sharing |-> b, shareTimers |-> i, sharedIn |-> i,
                   audio |-> b, audioIn |-> i, hasty |-> b, dialog |-> b] EXCEPT !.class = 1]
                 = [class |-> 1, sharing |-> b, shareTimers |-> i, sharedIn |-> i,
                    audio |-> b, audioIn |-> i, hasty |-> b, dialog |-> b]
      OBVIOUS
    <3>3. TP!Entered(TP!NewPage, 1)
            = [class |-> 1, sharing |-> FALSE, shareTimers |-> 0, sharedIn |-> 0,
               audio |-> FALSE, audioIn |-> 0, hasty |-> FALSE, dialog |-> FALSE]
      BY <3>2 DEF TP!Entered, TP!NewPage
    <3>4. 1 \in ClassIds /\ 0 \in Int /\ 0 \in Nat /\ FALSE \in BOOLEAN
      BY ClassroomAssumption
    <3>5. [class |-> 1, sharing |-> FALSE, shareTimers |-> 0, sharedIn |-> 0,
           audio |-> FALSE, audioIn |-> 0, hasty |-> FALSE, dialog |-> FALSE] \in TeacherRecord
      BY <3>1, <3>4, Zenon
    <3> QED BY <3>3, <3>5
  <2>2. SP!Entered(SP!NewPage, 1) \in StudentRecord
    BY ClassroomAssumption DEF SP!Entered, SP!NewPage, StudentRecord
  <2>3. fdOf \in [People -> Fds \cup {NoFd}] /\ nextClientId \in Nat
    BY <1>1, <1>3, <1>4, <1>5
  <2>4. toServer \in [Fds -> Seq(RequestRecord)] /\ toClient \in [Fds -> Seq(MessageRecord)]
    BY <1>4
  <2> QED BY <1>4, <2>1, <2>2, <2>3, <2>4 DEF RoomTypes
<1>14. SeatsAreKept
  <2>1. \A u \in Users : userIdToFd[u] # NoFd => u \in People /\ userIdToFd[u] = fdOf[u]
    BY <1>2, <1>5
  <2>2. \A u \in People : fdOf[u] = seat[u] /\ seat[u] \in clients
    BY <1>3, <1>4, <1>5
  <2>3. \A fd \in clients : fd < nextClientId
    BY <1>1, <1>4
  <2> QED BY <1>3, <1>4, <2>1, <2>2, <2>3 DEF SeatsAreKept
<1>15. ASSUME NEW t \in People
       PROVE  /\ teacherPage[t].sharing = FALSE /\ teacherPage[t].shareTimers = 0
              /\ teacherPage[t].audio = FALSE
              /\ To(t) = <<>> /\ From(t) = <<>> /\ ScreenOf(t) = {} /\ AudioOf(t) = {}
  <2>1. teacherPage[t].sharing = FALSE /\ teacherPage[t].shareTimers = 0
        /\ teacherPage[t].audio = FALSE
    BY <1>4 DEF TP!Entered, TP!NewPage
  <2>2. fdOf[t] \in Fds
    BY <1>3, <1>5 DEF People
  <2>3. To(t) = <<>> /\ From(t) = <<>>
    BY <1>4, <2>2 DEF To, From
  <2> QED BY <1>9, <2>1, <2>3 DEF ScreenOf, AudioOf
<1>16. Talks
  <2>1. \A k, lost : /\ StartsLast(k, lost, <<>>) /\ SameClass(<<>>, k.start)
                     /\ Never(<<>>, k.started) /\ Never(<<>>, k.stopped)
    BY DEF StartsLast, SameClass, Never
  <2> QED BY <1>15, <2>1 DEF Talks, ScreenTalk, AudioTalk, Talk, Off, People
<1>17. StoppedMeansStopped /\ MediaGoesWhereStarted /\ Settled
  BY <1>4, <1>15 DEF StoppedMeansStopped, MediaGoesWhereStarted, Settled, SP!Entered,
                     SP!NewPage, People
<1> QED BY <1>12, <1>13, <1>14, <1>16, <1>17 DEF TeacherInv, RoomInv

LEMMA TeacherInvariant == RoomSpec => [](TeacherInv /\ MediaGoesWhereStarted)
BY RoomBegins, TeacherInvStep, MediaStep, PTL DEF RoomSpec

\* The windows do nothing that the server was not proved for: a lesson is one of its runs,
\* begun with everybody in the seats, so what its step lemmas keep holds in every lesson.
THEOREM LessonsRunTheServer == RoomSpec => [][Next]_vars
<1>1. TeacherInv /\ [RoomNext]_roomVars => [Next]_vars
  BY RoomStepIsServerStep DEF TeacherInv, RoomInv
<1> QED BY <1>1, TeacherInvariant, PTL DEF RoomSpec

\* No capture timer outlives the end of a share, whoever uses the page and whatever answers
\* cross, unless the page's user has had starts for two classes under way at once: then the
\* second success makes a second timer, and only the last one is stopped.
THEOREM NoTimerIsLeft == RoomSpec => []StoppedMeansStopped
<1>1. TeacherInv => StoppedMeansStopped
  BY DEF TeacherInv
<1> QED BY <1>1, TeacherInvariant, PTL

\* What a teacher shows or says reaches the class it was started for, as long as the page
\* is in touch and its user has not had starts for two classes under way at once.
THEOREM MediaReachesItsClass == RoomSpec => []MediaGoesWhereStarted
BY TeacherInvariant, PTL

\* A teacher's page that has seen every message says what the server does, unless it is
\* hasty or the teacher is out of touch: with a page somebody else has used, for instance.
THEOREM PageKnowsServer == RoomSpec => []PageAgreesWithServer
<1>1. ASSUME TeacherInv, NEW t \in Teachers, InTouch(t, "media"), ~teacherPage[t].hasty
      PROVE  /\ teacherPage[t].sharing <=> \E c \in screenSharing : owner[c] = t
             /\ teacherPage[t].audio <=> \E c \in audioActive : owner[c] = t
  <2>1. To(t) = <<>> /\ From(t) = <<>> /\ Lost(t, "media") = FALSE
    BY <1>1 DEF InTouch, Quiet, To, From, Lost
  <2>2. ASSUME NEW k, NEW on \in BOOLEAN, NEW where, NEW S,
               Talk(k, on, where, S, Over, FALSE, <<>>, <<>>)
        PROVE  on <=> S # {}
    <3>1. ~Starting(k, on, where, S, Over, FALSE, <<>>, <<>>)
      BY DEF Starting
    <3>2. CASE Off(k, on, where, S, Over, FALSE, <<>>, <<>>)
      BY <3>2 DEF Off
    <3>3. CASE On(k, on, where, S, Over, FALSE, <<>>, <<>>)
      BY <3>3 DEF On
    <3> QED BY <2>2, <3>1, <3>2, <3>3 DEF Talk
  <2>3. /\ teacherPage[t].sharing \in BOOLEAN /\ teacherPage[t].audio \in BOOLEAN
        /\ teacherPage[t].hasty = FALSE
    BY <1>1 DEF TeacherInv, RoomInv, RoomTypes, TeacherRecord, People
  <2>4. /\ teacherPage[t].sharing <=> ScreenOf(t) # {}
        /\ teacherPage[t].audio <=> AudioOf(t) # {}
    <3>1. ScreenTalk(t) /\ AudioTalk(t)
      BY <1>1, <2>3 DEF TeacherInv, Talks
    <3>2. Talk(Screen, teacherPage[t].sharing, teacherPage[t].sharedIn, ScreenOf(t), Over,
               FALSE, <<>>, <<>>)
      BY <2>1, <3>1 DEF ScreenTalk
    <3>3. Talk(Audio, teacherPage[t].audio, teacherPage[t].audioIn, AudioOf(t), Over,
               FALSE, <<>>, <<>>)
      BY <2>1, <3>1 DEF AudioTalk
    <3>4. teacherPage[t].sharing <=> ScreenOf(t) # {}
      BY <2>2, <2>3, <3>2
    <3>5. teacherPage[t].audio <=> AudioOf(t) # {}
      BY <2>2, <2>3, <3>3
    <3> QED BY <3>4, <3>5
  <2>5. /\ ScreenOf(t) # {} <=> \E c \in screenSharing : owner[c] = t
        /\ AudioOf(t) # {} <=> \E c \in audioActive : owner[c] = t
    BY DEF ScreenOf, AudioOf
  <2> QED BY <2>3, <2>4, <2>5
<1>2. TeacherInv => PageAgreesWithServer
  BY <1>1 DEF PageAgreesWithServer
<1> QED BY <1>2, TeacherInvariant, PTL

-----------------------------------------------------------------------------
(* A student's page and the server. *)

Published == "NOTIFY_QUESTION_PUBLISHED"
Granted == "NOTIFY_MIC_GRANTED"
MicTypes == SP!MicLosses \cup {Granted}

\* What the page says of the microphone, once it has read the messages.
MicSays(mic, a) ==
    \/ mic /\ \A i \in DOMAIN a : a[i].type \notin SP!MicLosses
    \/ \E i \in DOMAIN a :
          a[i].type = Granted /\ \A j \in DOMAIN a : j > i => a[j].type \notin SP!MicLosses

\* The question on the page, once it has read the messages.
QSays(q, a, v) ==
    \/ q = v /\ \A i \in DOMAIN a : a[i].type # Published
    \/ \E i \in DOMAIN a :
          /\ a[i].type = Published /\ a[i].question = v
          /\ \A j \in DOMAIN a : j > i => a[j].type # Published

LEMMA SaysNothing ==
  ASSUME NEW mic, NEW q, NEW v
  PROVE  (MicSays(mic, <<>>) <=> mic) /\ (QSays(q, <<>>, v) <=> q = v)
BY DEF MicSays, QSays

LEMMA MicAppended ==
  ASSUME NEW mic, NEW X, NEW a \in Seq(X), NEW x \in X
  PROVE  MicSays(mic, Append(a, x))
            <=> (MicSays(mic, a) \/ x.type = Granted) /\ x.type \notin SP!MicLosses
<1> DEFINE b == Append(a, x)
           n == Len(a) + 1
<1>1. /\ DOMAIN b = DOMAIN a \cup {n} /\ b[n] = x /\ n \in Nat
      /\ \A i \in DOMAIN a : b[i] = a[i] /\ i < n /\ i \in Nat
  BY Appended
<1>2. Granted \notin SP!MicLosses
  BY DEF Granted, SP!MicLosses
<1> HIDE DEF b, n
<1>3. CASE x.type \in SP!MicLosses
  <2>1. ~MicSays(mic, b)
    BY <1>1, <1>2, <1>3 DEF MicSays
  <2> QED BY <1>3, <2>1 DEF b
<1>4. CASE x.type \notin SP!MicLosses /\ x.type = Granted
  <2>1. \A j \in DOMAIN b : ~(j > n)
    BY <1>1
  <2>2. MicSays(mic, b)
    BY <1>1, <1>4, <2>1 DEF MicSays
  <2> QED BY <1>4, <2>2 DEF b
<1>5. CASE x.type \notin SP!MicLosses /\ x.type # Granted
  <2>1. MicSays(mic, a) => MicSays(mic, b)
    BY <1>1, <1>5 DEF MicSays
  <2>2. MicSays(mic, b) => MicSays(mic, a)
    BY <1>1, <1>5 DEF MicSays
  <2> QED BY <1>5, <2>1, <2>2 DEF b
<1> QED BY <1>3, <1>4, <1>5

LEMMA QuestionAppended ==
  ASSUME NEW q, NEW v, NEW w, NEW X, NEW a \in Seq(X), NEW x \in X,
         QSays(q, a, v), IF x.type = Published THEN x.question = w ELSE w = v
  PROVE  QSays(q, Append(a, x), w)
<1> DEFINE b == Append(a, x)
           n == Len(a) + 1
<1>1. /\ DOMAIN b = DOMAIN a \cup {n} /\ b[n] = x /\ n \in Nat
      /\ \A i \in DOMAIN a : b[i] = a[i] /\ i < n /\ i \in Nat
  BY Appended
<1> HIDE DEF b, n
<1>2. CASE x.type = Published
  <2>1. \A j \in DOMAIN b : ~(j > n)
    BY <1>1
  <2> QED BY <1>1, <1>2, <2>1 DEF QSays, b
<1>3. CASE x.type # Published
  BY <1>1, <1>3 DEF QSays, b
<1> QED BY <1>2, <1>3

LEMMA MicRead ==
  ASSUME NEW mic, NEW X, NEW a \in Seq(X), a # <<>>, NEW after,
         after <=> (mic \/ Head(a).type = Granted) /\ Head(a).type \notin SP!MicLosses
  PROVE  MicSays(after, Tail(a)) <=> MicSays(mic, a)
<1> DEFINE b == Tail(a)
<1>1. /\ \A i \in DOMAIN b : i \in Nat /\ i # 0 /\ i + 1 \in DOMAIN a /\ b[i] = a[i + 1]
      /\ \A i \in DOMAIN a :
            i \in Nat /\ (i # 1 => i > 1 /\ i - 1 \in DOMAIN b /\ b[i - 1] = a[i])
      /\ Head(a) = a[1] /\ 1 \in DOMAIN a
  BY Taken
<1> HIDE DEF b
<1>2. (\A i \in DOMAIN a : a[i].type \notin SP!MicLosses)
         <=> a[1].type \notin SP!MicLosses /\ \A i \in DOMAIN b : b[i].type \notin SP!MicLosses
  <2>1. ASSUME \A i \in DOMAIN b : b[i].type \notin SP!MicLosses, a[1].type \notin SP!MicLosses,
               NEW i \in DOMAIN a
        PROVE  a[i].type \notin SP!MicLosses
    BY <1>1, <2>1
  <2>2. ASSUME \A i \in DOMAIN a : a[i].type \notin SP!MicLosses, NEW i \in DOMAIN b
        PROVE  b[i].type \notin SP!MicLosses
    BY <1>1, <2>2
  <2> QED BY <1>1, <2>1, <2>2
<1> DEFINE LastAt(s, i) == s[i].type = Granted
                              /\ \A j \in DOMAIN s : j > i => s[j].type \notin SP!MicLosses
<1>3. ASSUME NEW i \in DOMAIN b
      PROVE  LastAt(b, i) <=> LastAt(a, i + 1)
  <2>1. i \in Nat /\ i + 1 \in DOMAIN a /\ b[i] = a[i + 1]
    BY <1>1
  <2>2. ASSUME LastAt(b, i), NEW j \in DOMAIN a, j > i + 1
        PROVE  a[j].type \notin SP!MicLosses
    <3>1. j - 1 \in DOMAIN b /\ b[j - 1] = a[j] /\ j - 1 > i
      BY <1>1, <2>1, <2>2
    <3> QED BY <2>2, <3>1
  <2>3. ASSUME LastAt(a, i + 1), NEW j \in DOMAIN b, j > i
        PROVE  b[j].type \notin SP!MicLosses
    <3>1. j + 1 \in DOMAIN a /\ b[j] = a[j + 1] /\ j + 1 > i + 1
      BY <1>1, <2>1, <2>3
    <3> QED BY <2>3, <3>1
  <2> QED BY <2>1, <2>2, <2>3
<1>4. LastAt(a, 1) <=> a[1].type = Granted /\ \A i \in DOMAIN b : b[i].type \notin SP!MicLosses
  <2>1. ASSUME LastAt(a, 1), NEW i \in DOMAIN b PROVE b[i].type \notin SP!MicLosses
    <3>1. i + 1 \in DOMAIN a /\ b[i] = a[i + 1] /\ i + 1 > 1
      BY <1>1
    <3> QED BY <2>1, <3>1
  <2>2. ASSUME \A i \in DOMAIN b : b[i].type \notin SP!MicLosses, NEW i \in DOMAIN a, i > 1
        PROVE  a[i].type \notin SP!MicLosses
    BY <1>1, <2>2
  <2> QED BY <2>1, <2>2
<1> HIDE DEF LastAt
<1>5. (\E i \in DOMAIN a : LastAt(a, i)) <=> LastAt(a, 1) \/ \E i \in DOMAIN b : LastAt(b, i)
  <2>1. ASSUME NEW i \in DOMAIN a, LastAt(a, i), i # 1
        PROVE  \E l \in DOMAIN b : LastAt(b, l)
    <3>1. i - 1 \in DOMAIN b /\ (i - 1) + 1 = i
      BY <1>1, <2>1
    <3> QED BY <1>3, <2>1, <3>1
  <2> QED BY <1>1, <1>3, <2>1
<1>6. Granted \notin SP!MicLosses
  BY DEF Granted, SP!MicLosses
<1>7. /\ MicSays(mic, a) <=> \/ mic /\ \A i \in DOMAIN a : a[i].type \notin SP!MicLosses
                             \/ \E i \in DOMAIN a : LastAt(a, i)
      /\ MicSays(after, b) <=> \/ after /\ \A i \in DOMAIN b : b[i].type \notin SP!MicLosses
                               \/ \E i \in DOMAIN b : LastAt(b, i)
  BY DEF MicSays, LastAt
<1> QED BY <1>1, <1>2, <1>4, <1>5, <1>6, <1>7 DEF b

LEMMA QuestionRead ==
  ASSUME NEW q, NEW v, NEW X, NEW a \in Seq(X), a # <<>>, QSays(q, a, v), NEW after,
         after = IF Head(a).type = Published THEN Head(a).question ELSE q
  PROVE  QSays(after, Tail(a), v)
<1> DEFINE b == Tail(a)
<1>1. /\ \A i \in DOMAIN b : i \in Nat /\ i # 0 /\ i + 1 \in DOMAIN a /\ b[i] = a[i + 1]
      /\ \A i \in DOMAIN a :
            i \in Nat /\ (i # 1 => i > 1 /\ i - 1 \in DOMAIN b /\ b[i - 1] = a[i])
      /\ Head(a) = a[1] /\ 1 \in DOMAIN a
  BY Taken
<1> HIDE DEF b
<1>2. CASE q = v /\ \A i \in DOMAIN a : a[i].type # Published
  BY <1>1, <1>2 DEF QSays, b
<1>3. ASSUME NEW i \in DOMAIN a, a[i].type = Published, a[i].question = v,
             \A j \in DOMAIN a : j > i => a[j].type # Published
      PROVE  QSays(after, b, v)
  <2>1. CASE i = 1
    <3>1. \A j \in DOMAIN b : b[j].type # Published
      <4>1. TAKE j \in DOMAIN b
      <4>2. j + 1 \in DOMAIN a /\ b[j] = a[j + 1] /\ j + 1 > i
        BY <1>1, <2>1
      <4> QED BY <1>3, <4>2
    <3> QED BY <1>1, <1>3, <2>1, <3>1 DEF QSays
  <2>2. CASE i # 1
    <3>1. i - 1 \in DOMAIN b /\ b[i - 1] = a[i]
      BY <1>1, <2>2
    <3>2. \A j \in DOMAIN b : j > i - 1 => b[j].type # Published
      <4>1. TAKE j \in DOMAIN b
      <4>2. j + 1 \in DOMAIN a /\ b[j] = a[j + 1] /\ (j > i - 1 => j + 1 > i)
        BY <1>1
      <4> QED BY <1>3, <4>2
    <3> QED BY <1>3, <3>1, <3>2 DEF QSays
  <2> QED BY <2>1, <2>2
<1> QED BY <1>2, <1>3 DEF QSays, b

\* Without a message of its kind, the page says what it said.
LEMMA SaysSame ==
  ASSUME NEW mic, NEW q, NEW v, NEW a
  PROVE  /\ (\A i \in DOMAIN a : a[i].type \notin MicTypes) => (MicSays(mic, a) <=> mic)
         /\ (\A i \in DOMAIN a : a[i].type # Published) => (QSays(q, a, v) <=> q = v)
BY DEF MicSays, QSays, MicTypes

-----------------------------------------------------------------------------
(* What a student is told. *)

\* In every class but one, nothing happens in this lesson.
RunsIn(l, c) ==
    /\ l.running \subseteq {c}
    /\ "START_CLASS_REQ" \in l.clicks => l.classes \subseteq {c}
OneRuns(l) == \E c \in ClassIds : RunsIn(l, c)

Told(u, type) == \E n \in sent' : n.user = u /\ n.msg.type = type
LosesMic(u) == \E type \in SP!MicLosses : Told(u, type)

\* Whoever has the microphone is in the class, or has lost touch.
Holds(r, u) ==
    micHolder[r] = u => u \in members[r] \/ Lost(u, "media")

\* Every handler pushes one message, the grant of the microphone excepted.
LEMMA PushesOne ==
  ASSUME ServerInv, NEW fd \in Fds, NEW m \in RequestRecord, Performs(fd, m),
         m.type \in Notifying \ {"GRANT_MIC_REQ"}
  PROVE  \E users \in SUBSET Users : \E type \in NoticeTypes :
            /\ sent' = PushTo(users, Message(type, m.class, Caller(fd)))
            /\ type \in MicTypes => m.type \in {"STOP_AUDIO_REQ", "REVOKE_MIC_REQ"}
            /\ type = Published => m.type = "PUBLISH_QUESTION_REQ"
<1> DEFINE c == m.class
           One(users, type) == sent' = PushTo(users, Message(type, c, Caller(fd)))
<1>0. /\ c \in ClassIds /\ members[c] \subseteq Users
      /\ owner[c] \in Users \cup {NoUser} /\ micHolder[c] \in Users \cup {NoUser}
      /\ Students \subseteq Users
  <2>1. c \in ClassIds
    BY DEF RequestRecord, Notifying
  <2> QED BY <2>1 DEF ServerInv, CMP!Inv, CMP!TypeOK, CMP!ClassIds, ClassIds, Users
<1>1. CASE m.type = "OPEN_CHECKIN_REQ"
  <2>1. One(members[c], "NOTIFY_CHECKIN_OPENED")
    BY <1>1 DEF Performs, OpenCheckinReq, Broadcast
  <2> QED BY <1>0, <2>1 DEF NoticeTypes, MicTypes, SP!MicLosses, Granted, Published
<1>2. CASE m.type = "RANDOM_CALL_REQ"
  <2>1. PICK u \in Students : One({u}, "NOTIFY_RANDOM_CALLED")
    BY <1>2 DEF Performs, RandomCallReq
  <2>2. {u} \in SUBSET Users
    BY <1>0
  <2> QED BY <2>1, <2>2 DEF NoticeTypes, MicTypes, SP!MicLosses, Granted, Published
<1>3. CASE m.type = "PUBLISH_QUESTION_REQ"
  <2> DEFINE users == IF cutText' THEN {} ELSE members[c]
  <2>1. One(users, "NOTIFY_QUESTION_PUBLISHED")
    <3>1. CASE cutText'
      <4>1. sent' = {}
        BY <1>3, <3>1 DEF Performs, PublishQuestionReq
      <4>2. PushTo({}, Message("NOTIFY_QUESTION_PUBLISHED", c, Caller(fd))) = {}
        BY DEF PushTo
      <4> QED BY <3>1, <4>1, <4>2
    <3>2. CASE ~cutText'
      BY <1>3, <3>2 DEF Performs, PublishQuestionReq, Broadcast
    <3> QED BY <3>1, <3>2
  <2>2. users \in SUBSET Users
    BY <1>0
  <2> HIDE DEF users
  <2> QED BY <1>3, <2>1, <2>2 DEF NoticeTypes, MicTypes, SP!MicLosses, Granted
<1>4. CASE m.type = "START_SCREEN_SHARE_REQ"
  <2>1. One(members[c], "NOTIFY_SCREEN_SHARE_STARTED")
    BY <1>4 DEF Performs, StartScreenShareReq, Broadcast
  <2> QED BY <1>0, <2>1 DEF NoticeTypes, MicTypes, SP!MicLosses, Granted, Published
<1>5. CASE m.type = "STOP_SCREEN_SHARE_REQ"
  <2>1. One(members[c], "NOTIFY_SCREEN_SHARE_STOPPED")
    BY <1>5 DEF Performs, StopScreenShareReq, Broadcast
  <2> QED BY <1>0, <2>1 DEF NoticeTypes, MicTypes, SP!MicLosses, Granted, Published
<1>6. CASE m.type = "SCREEN_FRAME"
  <2>1. One(members[c], "NOTIFY_SCREEN_FRAME")
    BY <1>6 DEF Performs, ScreenFrame, Broadcast
  <2> QED BY <1>0, <2>1 DEF NoticeTypes, MicTypes, SP!MicLosses, Granted, Published
<1>7. CASE m.type = "START_AUDIO_REQ"
  <2>1. One(members[c], "NOTIFY_AUDIO_STARTED")
    BY <1>7 DEF Performs, StartAudioReq, Broadcast
  <2> QED BY <1>0, <2>1 DEF NoticeTypes, MicTypes, SP!MicLosses, Granted, Published
<1>8. CASE m.type = "STOP_AUDIO_REQ"
  <2>1. One(members[c], "NOTIFY_AUDIO_STOPPED")
    BY <1>8 DEF Performs, StopAudioReq, Broadcast
  <2> QED BY <1>0, <1>8, <2>1 DEF NoticeTypes, Published
<1>9. CASE m.type = "AUDIO_FRAME"
  <2> DEFINE u == Caller(fd)
             hearers == (members[c] \ {u})
                            \cup (IF IsMicHolder(u, c) THEN {owner[c]} ELSE {})
  <2>1. One(hearers, "NOTIFY_AUDIO_FRAME") /\ c \in audioActive
    BY <1>9 DEF Performs, AudioFrame
  <2>2. owner[c] \in Users
    BY <1>0, <2>1 DEF ServerInv, CMP!Inv, CMP!OnlyActiveClassesRun, CMP!IdsAreFresh,
                      CMP!ClassIds, ClassIds
  <2>3. hearers \in SUBSET Users
    BY <1>0, <2>2
  <2> HIDE DEF hearers
  <2> QED BY <2>1, <2>3 DEF NoticeTypes, MicTypes, SP!MicLosses, Granted, Published
<1>10. CASE m.type = "REVOKE_MIC_REQ"
  <2>1. One({micHolder[c]}, "NOTIFY_MIC_REVOKED") /\ micHolder[c] # NoUser
    BY <1>10 DEF Performs, RevokeMicReq, CM!RevokeMic
  <2>2. {micHolder[c]} \in SUBSET Users
    BY <1>0, <2>1
  <2> QED BY <1>10, <2>1, <2>2 DEF NoticeTypes, Published
<1>11. \/ m.type = "OPEN_CHECKIN_REQ" \/ m.type = "RANDOM_CALL_REQ"
       \/ m.type = "PUBLISH_QUESTION_REQ" \/ m.type = "START_SCREEN_SHARE_REQ"
       \/ m.type = "STOP_SCREEN_SHARE_REQ" \/ m.type = "SCREEN_FRAME"
       \/ m.type = "START_AUDIO_REQ" \/ m.type = "STOP_AUDIO_REQ"
       \/ m.type = "AUDIO_FRAME" \/ m.type = "REVOKE_MIC_REQ"
  BY DEF Notifying
<1> QED
  BY <1>1, <1>2, <1>3, <1>4, <1>5, <1>6, <1>7, <1>8, <1>9, <1>10, <1>11, Zenon

LEMMA PushToIs ==
  ASSUME NEW users, NEW M
  PROVE  /\ \A n \in PushTo(users, M) :
               /\ n.user \in users /\ n.to = SM!GetFd(n.user) /\ n.msg = M
               /\ SM!GetFd(n.user) \in clients
         /\ \A u \in users : SM!GetFd(u) \in clients =>
               \E n \in PushTo(users, M) : n.user = u /\ n.msg = M
<1>1. ASSUME NEW n \in PushTo(users, M)
      PROVE  /\ n.user \in users /\ n.to = SM!GetFd(n.user) /\ n.msg = M
             /\ SM!GetFd(n.user) \in clients
  BY DEF PushTo
<1>2. ASSUME NEW u \in users, SM!GetFd(u) \in clients
      PROVE  \E n \in PushTo(users, M) : n.user = u /\ n.msg = M
  <2> DEFINE n == [to |-> SM!GetFd(u), user |-> u, msg |-> M]
  <2>1. n \in PushTo(users, M)
    BY <1>2 DEF PushTo
  <2>2. n.user = u /\ n.msg = M
    OBVIOUS
  <2> QED BY <2>1, <2>2
<1> QED BY <1>1, <1>2

\* Who loses the microphone is told before who gets it.
LEMMA GrantPushes ==
  ASSUME ServerInv, NEW fd \in Fds, NEW m \in RequestRecord, Performs(fd, m),
         m.type = "GRANT_MIC_REQ"
  PROVE  LET loser == {micHolder[m.class]} \ {NoUser, m.user} IN
         /\ sent' = PushTo(loser, Message("NOTIFY_MIC_REVOKED", m.class, Caller(fd)))
                     \cup PushTo({m.user}, Message("NOTIFY_MIC_GRANTED", m.class, Caller(fd)))
         /\ loser \in SUBSET Users /\ {m.user} \in SUBSET Users
         /\ m.class \in ClassIds /\ m.class \in audioActive /\ m.user \in members[m.class]
         /\ m.user \in Students
         /\ micHolder' = [micHolder EXCEPT ![m.class] = m.user] /\ members' = members
<1>1. m.class \in ClassIds /\ GrantMicReq(fd, m.class, m.user)
  BY DEF Performs, RequestRecord
<1>2. /\ micHolder[m.class] \in Users \cup {NoUser} /\ members[m.class] \subseteq Students
      /\ Students \subseteq Users
  BY <1>1 DEF ServerInv, CMP!Inv, CMP!TypeOK, CMP!ClassIds, ClassIds, Users
<1> QED BY <1>1, <1>2 DEF GrantMicReq, CM!GrantMic

\* Nobody is pushed two messages.
LEMMA OnePush ==
  ASSUME ServerInv, NEW fd \in Fds, NEW m \in RequestRecord, Performs(fd, m)
  PROVE  \A x, y \in sent' : x.user \in Users /\ (x.user = y.user => x.msg = y.msg)
<1>0. CASE sent' = {}
  BY <1>0
<1>1. CASE m.type \in Notifying \ {"GRANT_MIC_REQ"}
  <2>1. PICK users \in SUBSET Users, type \in NoticeTypes :
           sent' = PushTo(users, Message(type, m.class, Caller(fd)))
    BY <1>1, PushesOne
  <2>2. \A n \in sent' : n.user \in users /\ n.msg = Message(type, m.class, Caller(fd))
    BY <2>1, PushToIs
  <2> QED BY <2>2
<1>2. CASE m.type = "GRANT_MIC_REQ"
  <2> DEFINE loser == {micHolder[m.class]} \ {NoUser, m.user}
             R == Message("NOTIFY_MIC_REVOKED", m.class, Caller(fd))
             G == Message("NOTIFY_MIC_GRANTED", m.class, Caller(fd))
  <2>1. sent' = PushTo(loser, R) \cup PushTo({m.user}, G) /\ m.user \notin loser
        /\ loser \in SUBSET Users /\ m.user \in Users
    BY <1>2, GrantPushes
  <2> HIDE DEF loser, R, G
  <2>2. /\ \A n \in PushTo(loser, R) : n.user \in loser /\ n.msg = R
        /\ \A n \in PushTo({m.user}, G) : n.user \in {m.user} /\ n.msg = G
    BY PushToIs
  <2>3. \A n \in sent' : (n.user \in loser /\ n.msg = R) \/ (n.user = m.user /\ n.msg = G)
    BY <2>1, <2>2
  <2> QED BY <2>1, <2>3
<1> QED BY <1>0, <1>1, <1>2, OthersAreQuiet DEF Notifying

LEMMA PushGoesTo ==
  ASSUME NEW fd \in Fds, NEW m, Performs(fd, m), NEW n \in sent'
  PROVE  n.to = SM!GetFd(n.user) /\ n.to \in clients /\ n.msg.class = m.class
         /\ n.msg.type \in NoticeTypes
BY PushedByHandler DEF PushedFor, Message

\* The push that a window's connection carries is the one to its user.
LEMMA PushedToPage ==
  ASSUME RoomInv, NEW fd \in Fds, NEW m \in RequestRecord, Performs(fd, m), NEW u \in Students
  PROVE  /\ fdOf[u] = NoFd => \A type : ~Told(u, type)
         /\ fdOf[u] # NoFd =>
               \/ PushedOn(fdOf[u]) = <<>> /\ \A type \in Noticed : ~Told(u, type)
               \/ \E x : /\ PushedOn(fdOf[u]) = <<x>> /\ \A type : Told(u, type) <=> type = x.type
                         /\ x.type = Published => x.question = activeQuestion'[m.class]
<1> USE DEF RoomInv
<1>1. userIdToFd \in [Users -> Fds \cup {NoFd}] /\ clients \subseteq Fds /\ u \in Users
      /\ u \in People
  BY DEF ServerInv, SessionInv, Sessions, SM!TypeOK, People, Users
<1>2. ASSUME NEW n \in sent', n.user = u
      PROVE  fdOf[u] # NoFd /\ n.to = fdOf[u]
  <2>1. n.to = userIdToFd[u] /\ n.to \in clients
    BY <1>2, PushGoesTo DEF SM!GetFd
  <2> QED BY <1>1, <2>1, ConstantsAreFine DEF SeatsAreKept
<1>3. ASSUME NEW n \in sent', n.to = fdOf[u], fdOf[u] # NoFd
      PROVE  n.user = u
  <2>1. n.user \in Users /\ userIdToFd[n.user] = fdOf[u]
    BY <1>3, PushGoesTo, OnePush DEF SM!GetFd
  <2> QED BY <1>1, <1>3, <2>1 DEF SeatsAreKept
<1>4. CASE fdOf[u] = NoFd
  BY <1>2, <1>4 DEF Told
<1>5. CASE fdOf[u] # NoFd /\ \E n \in sent' : n.to = fdOf[u] /\ n.msg.type \in Noticed
  <2> DEFINE n == CHOOSE n \in sent' : n.to = fdOf[u]
             x == [type |-> n.msg.type, class |-> n.msg.class,
                   question |-> IF n.msg.type = "NOTIFY_QUESTION_PUBLISHED"
                                THEN activeQuestion'[n.msg.class] ELSE 0]
  <2>1. n \in sent' /\ n.to = fdOf[u]
    BY <1>5
  <2>2. PushedOn(fdOf[u]) = <<x>>
    BY <1>5 DEF PushedOn
  <2> HIDE DEF n
  <2>3. n.user = u /\ n.msg.class = m.class
    BY <1>3, <1>5, <2>1, PushGoesTo
  <2>4. \A y \in sent' : y.user = u => y.msg = n.msg
    BY <2>1, <2>3, OnePush
  <2>5. \A type : Told(u, type) <=> type = x.type
    BY <2>1, <2>3, <2>4 DEF Told
  <2>6. x.type = Published => x.question = activeQuestion'[m.class]
    BY <2>3 DEF Published
  <2> QED BY <1>5, <2>2, <2>5, <2>6
<1>6. CASE fdOf[u] # NoFd /\ ~\E n \in sent' : n.to = fdOf[u] /\ n.msg.type \in Noticed
  <2>1. PushedOn(fdOf[u]) = <<>>
    BY <1>6 DEF PushedOn
  <2>2. \A type \in Noticed : ~Told(u, type)
    BY <1>2, <1>6 DEF Told
  <2> QED BY <1>6, <2>1, <2>2
<1> QED BY <1>4, <1>5, <1>6

LEMMA RosterIsTold ==
  ASSUME ServerInv, displaced = {}, NEW users, NEW type, NEW c, NEW v, NEW u \in users,
         NEW r \in ClassIds, PushTo(users, Message(type, c, v)) \subseteq sent', u \in members[r]
  PROVE  Told(u, type)
<1>1. SM!GetFd(u) \in clients
  BY DEF ServerInv, RosterIsOnline
<1>2. PICK n \in PushTo(users, Message(type, c, v)) : n.user = u /\ n.msg = Message(type, c, v)
  BY <1>1, PushToIs
<1> QED BY <1>2 DEF Told, Message

LEMMA OnlyUsersAreTold ==
  ASSUME NEW users, NEW type, NEW c, NEW v, NEW u, NEW type2,
         sent' = PushTo(users, Message(type, c, v)), Told(u, type2)
  PROVE  u \in users /\ type2 = type
<1>1. PICK n \in PushTo(users, Message(type, c, v)) : n.user = u /\ n.msg.type = type2
  BY DEF Told
<1>2. n.user \in users /\ n.msg = Message(type, c, v)
  BY PushToIs
<1> QED BY <1>1, <1>2 DEF Message

\* What performing a request makes of the microphone of the class that runs.
MicMoves(r, u) ==
    LET lost == Lost(u, "media") \/ <<u, "media">> \in LosesTouch IN
    /\ micHolder'[r] = u => u \in members'[r] \/ lost
    /\ lost \/ (micHolder'[r] = u <=> (micHolder[r] = u \/ Told(u, Granted)) /\ ~LosesMic(u))

LEMMA MicLeft ==
  ASSUME NEW r \in ClassIds, NEW u \in Students, Holds(r, u), micHolder[r] = u,
         u \notin members'[r]
  PROVE  Lost(u, "media") \/ <<u, "media">> \in LosesTouch
BY DEF Holds, LosesTouch

LEMMA MicUntouched ==
  ASSUME NEW r \in ClassIds, NEW u \in Students, Holds(r, u), micHolder'[r] = micHolder[r],
         \A type \in MicTypes : ~Told(u, type)
  PROVE  MicMoves(r, u)
<1>1. ~Told(u, Granted) /\ ~LosesMic(u)
  BY DEF MicTypes, LosesMic
<1> QED BY <1>1, MicLeft DEF MicMoves

LEMMA MicTaken ==
  ASSUME ServerInv, displaced = {}, NEW r \in ClassIds, NEW u \in Students, Holds(r, u),
         NEW fd \in Fds, NEW m \in RequestRecord, Performs(fd, m), m.class = r,
         m.type \in {"STOP_AUDIO_REQ", "REVOKE_MIC_REQ", "END_CLASS_REQ"}
  PROVE  MicMoves(r, u)
<1>0. micHolder \in [ClassIds -> Students \cup {NoUser}] /\ NoUser \notin Students
      /\ members \in [ClassIds -> SUBSET Students]
  BY ConstantsAreFine, ServerAssumption
     DEF ServerInv, CMP!Inv, CMP!TypeOK, CMP!ClassIds, ClassIds, Users
<1>1. micHolder'[r] # u
  BY <1>0 DEF Performs, StopAudioReq, RevokeMicReq, EndClassReq, CM!StopAudio, CM!RevokeMic,
              CM!EndClass, CM!Forget
<1>2. CASE m.type = "END_CLASS_REQ"
  <2>1. sent' = {} /\ members'[r] = {}
    BY <1>0, <1>2 DEF Performs, EndClassReq, CM!EndClass, CM!Forget, Quietly
  <2>2. ~Told(u, Granted)
    BY <2>1 DEF Told
  <2> QED BY <1>1, <2>1, <2>2, MicLeft DEF MicMoves
<1>3. CASE m.type = "STOP_AUDIO_REQ"
  <2>1. sent' = PushTo(members[r], Message("NOTIFY_AUDIO_STOPPED", r, Caller(fd)))
    BY <1>3 DEF Performs, StopAudioReq, Broadcast
  <2>2. ~Told(u, Granted)
    BY <2>1, OnlyUsersAreTold DEF Granted
  <2>3. micHolder[r] = u => LosesMic(u) \/ Lost(u, "media")
    <3>1. u \in members[r] => Told(u, "NOTIFY_AUDIO_STOPPED")
      BY <2>1, RosterIsTold
    <3> QED BY <3>1 DEF Holds, LosesMic, SP!MicLosses
  <2> QED BY <1>1, <2>2, <2>3 DEF MicMoves
<1>4. CASE m.type = "REVOKE_MIC_REQ"
  <2>1. sent' = PushTo({micHolder[r]}, Message("NOTIFY_MIC_REVOKED", r, Caller(fd)))
    BY <1>4 DEF Performs, RevokeMicReq
  <2>2. ~Told(u, Granted)
    BY <2>1, OnlyUsersAreTold DEF Granted
  <2>3. micHolder[r] = u => LosesMic(u) \/ Lost(u, "media")
    <3>1. micHolder[r] = u /\ u \in members[r] => Told(u, "NOTIFY_MIC_REVOKED")
      BY <2>1, RosterIsTold
    <3> QED BY <3>1 DEF Holds, LosesMic, SP!MicLosses
  <2> QED BY <1>1, <2>2, <2>3 DEF MicMoves
<1> QED BY <1>2, <1>3, <1>4

LEMMA MicGiven ==
  ASSUME ServerInv, displaced = {}, NEW r \in ClassIds, NEW u \in Students, Holds(r, u),
         NEW fd \in Fds, NEW m \in RequestRecord, Performs(fd, m), m.class = r,
         m.type = "GRANT_MIC_REQ"
  PROVE  MicMoves(r, u)
<1> DEFINE loser == {micHolder[r]} \ {NoUser, m.user}
           R == Message("NOTIFY_MIC_REVOKED", r, Caller(fd))
           G == Message("NOTIFY_MIC_GRANTED", r, Caller(fd))
<1>1. /\ sent' = PushTo(loser, R) \cup PushTo({m.user}, G)
      /\ m.user \in members[r] /\ m.user \in Students
      /\ micHolder' = [micHolder EXCEPT ![r] = m.user] /\ members' = members
  BY GrantPushes
<1>2. micHolder'[r] = m.user /\ NoUser \notin Students
  BY <1>1, ServerAssumption DEF ServerInv, CMP!Inv, CMP!TypeOK, CMP!ClassIds, ClassIds, Users
<1>3. ASSUME NEW type, Told(u, type)
      PROVE  (u \in loser /\ type = "NOTIFY_MIC_REVOKED") \/ (u = m.user /\ type = Granted)
  <2>1. PICK n \in sent' : n.user = u /\ n.msg.type = type
    BY <1>3 DEF Told
  <2>2. CASE n \in PushTo(loser, R)
    <3>1. n.user \in loser /\ n.msg = R
      BY <2>2, PushToIs
    <3> QED BY <2>1, <3>1 DEF Message
  <2>3. CASE n \in PushTo({m.user}, G)
    <3>1. n.user \in {m.user} /\ n.msg = G
      BY <2>3, PushToIs
    <3> QED BY <2>1, <3>1 DEF Message, Granted
  <2> QED BY <1>1, <2>1, <2>2, <2>3
<1>4. CASE u = m.user
  <2>1. Told(u, Granted)
    <3>1. PushTo({m.user}, G) \subseteq sent' /\ u \in {m.user}
      BY <1>1, <1>4
    <3> QED BY <1>1, <1>4, <3>1, RosterIsTold DEF Granted
  <2>2. ~LosesMic(u)
    <3>1. u \notin loser
      BY <1>4
    <3> HIDE DEF loser
    <3> QED BY <1>3, <3>1 DEF LosesMic, SP!MicLosses, Granted
  <2> QED BY <1>1, <1>2, <1>4, <2>1, <2>2 DEF MicMoves
<1>5. CASE u # m.user
  <2>1. ~Told(u, Granted)
    BY <1>3, <1>5 DEF Granted
  <2>2. micHolder[r] = u => LosesMic(u) \/ Lost(u, "media")
    <3>1. ASSUME micHolder[r] = u, u \in members[r] PROVE Told(u, "NOTIFY_MIC_REVOKED")
      <4>1. u \in loser /\ PushTo(loser, R) \subseteq sent'
        BY <1>1, <1>2, <1>5, <3>1
      <4> HIDE DEF loser
      <4> QED BY <3>1, <4>1, RosterIsTold
    <3> QED BY <3>1 DEF Holds, LosesMic, SP!MicLosses
  <2> QED BY <1>2, <1>5, <2>1, <2>2 DEF MicMoves
<1> QED BY <1>4, <1>5

MicRequests == {"STOP_AUDIO_REQ", "REVOKE_MIC_REQ", "END_CLASS_REQ", "GRANT_MIC_REQ"}

\* Which requests move the microphone, and which the active question.
LEMMA PerformsSpeech ==
  ASSUME NEW fd, NEW m, Performs(fd, m)
  PROVE  /\ m.type \notin MicRequests => micHolder' = micHolder
         /\ m.type # "PUBLISH_QUESTION_REQ" => activeQuestion' = activeQuestion
<1>0. \/ m.type \in {"LOGOUT_REQ", "JOIN_CLASS_REQ", "LEAVE_CLASS_REQ", "CHECKIN_REQ"}
      \/ m.type = "SUBMIT_ANSWER_REQ" \/ m.type = "START_CLASS_REQ"
      \/ m.type \in {"OPEN_CHECKIN_REQ", "RANDOM_CALL_REQ"}
      \/ m.type \in {"START_SCREEN_SHARE_REQ", "STOP_SCREEN_SHARE_REQ", "SCREEN_FRAME"}
      \/ m.type \in {"START_AUDIO_REQ", "AUDIO_FRAME"}
      \/ m.type \in MicRequests \/ m.type = "PUBLISH_QUESTION_REQ"
  BY DEF Performs, MicRequests
<1> USE DEF Performs, qmVars, CM!mediaVars, OnlyClasses
<1>1. CASE m.type \in {"LOGOUT_REQ", "JOIN_CLASS_REQ", "LEAVE_CLASS_REQ", "CHECKIN_REQ"}
  BY <1>1
  DEF LogoutReq, EndSession, CM!RemoveFromAll, cmVars, JoinClassReq, CM!JoinClass,
      LeaveClassReq, CM!LeaveClass, CheckinReq, CM!Checkin
<1>2. CASE m.type = "SUBMIT_ANSWER_REQ"
  BY <1>2 DEF SubmitAnswerReq, OnlyQuestions, cmVars, QM!SubmitAnswer, QM!questionVars
<1>3. CASE m.type = "START_CLASS_REQ"
  BY <1>3 DEF StartClassReq, CM!StartClass
<1>4. CASE m.type \in {"OPEN_CHECKIN_REQ", "RANDOM_CALL_REQ"}
  BY <1>4 DEF OpenCheckinReq, CM!OpenCheckin, RandomCallReq, CM!RandomCall
<1>5. CASE m.type \in {"START_SCREEN_SHARE_REQ", "STOP_SCREEN_SHARE_REQ", "SCREEN_FRAME"}
  BY <1>5
  DEF StartScreenShareReq, CM!StartScreenShare, StopScreenShareReq, CM!StopScreenShare,
      ScreenFrame, OnlySends, cmVars
<1>6. CASE m.type \in {"START_AUDIO_REQ", "AUDIO_FRAME"}
  BY <1>6 DEF StartAudioReq, CM!StartAudio, AudioFrame, OnlySends, cmVars
<1>7. CASE m.type \in MicRequests
  BY <1>7 DEF MicRequests, EndClassReq, StopAudioReq, GrantMicReq, RevokeMicReq
<1>8. CASE m.type = "PUBLISH_QUESTION_REQ"
  BY <1>8 DEF PublishQuestionReq, OnlyQuestions, cmVars
<1> HIDE DEF Performs
<1> QED BY <1>0, <1>1, <1>2, <1>3, <1>4, <1>5, <1>6, <1>7, <1>8

LEMMA MicEffect ==
  ASSUME ServerInv, displaced = {}, NEW r \in ClassIds,
         \A c \in ClassIds : c # r => status[c] # "ACTIVE",
         NEW u \in Students, Holds(r, u), NEW fd \in Fds,
         NEW m \in RequestRecord, Performs(fd, m)
  PROVE  MicMoves(r, u)
<1>0. /\ CMP!OnlyActiveClassesRun /\ CMP!MicNeedsAudio /\ CMP!ClassIds = ClassIds
  BY DEF ServerInv, CMP!Inv, CMP!ClassIds, ClassIds
<1>1. CASE m.type \in {"STOP_AUDIO_REQ", "REVOKE_MIC_REQ", "END_CLASS_REQ"}
  <2>1. m.class \in ClassIds
    BY <1>1 DEF RequestRecord
  <2>2. status[m.class] = "ACTIVE"
    BY <1>0, <1>1, <2>1
    DEF Performs, StopAudioReq, RevokeMicReq, EndClassReq, CM!StopAudio, CM!RevokeMic,
        CM!EndClass, CM!RunBy, CMP!OnlyActiveClassesRun, CMP!MicNeedsAudio
  <2> QED BY <1>1, <2>1, <2>2, MicTaken
<1>2. CASE m.type = "GRANT_MIC_REQ"
  <2>1. m.class \in ClassIds /\ m.class \in audioActive
    BY <1>2, GrantPushes
  <2>2. status[m.class] = "ACTIVE"
    BY <1>0, <2>1 DEF CMP!OnlyActiveClassesRun
  <2> QED BY <1>2, <2>1, <2>2, MicGiven
<1>3. CASE m.type \notin {"STOP_AUDIO_REQ", "REVOKE_MIC_REQ", "END_CLASS_REQ", "GRANT_MIC_REQ"}
  <2>1. micHolder' = micHolder
    BY <1>3, PerformsSpeech DEF MicRequests
  <2>2. \A type \in MicTypes : ~Told(u, type)
    <3>1. CASE m.type \notin Notifying
      <4>1. sent' = {}
        BY <3>1, OthersAreQuiet
      <4> QED BY <4>1 DEF Told
    <3>2. CASE m.type \in Notifying
      <4>1. m.type \in Notifying \ {"GRANT_MIC_REQ"}
        BY <1>3, <3>2
      <4>2. PICK users \in SUBSET Users, type \in NoticeTypes :
               /\ sent' = PushTo(users, Message(type, m.class, Caller(fd)))
               /\ type \in MicTypes => m.type \in {"STOP_AUDIO_REQ", "REVOKE_MIC_REQ"}
        BY <4>1, PushesOne
      <4>3. \A type2 : Told(u, type2) => type2 = type
        BY <4>2, OnlyUsersAreTold
      <4> QED BY <1>3, <4>2, <4>3
    <3> QED BY <3>1, <3>2
  <2> QED BY <2>1, <2>2, MicUntouched
<1> QED BY <1>1, <1>2, <1>3

\* A question that is published reaches whoever is in the class, and nobody else; one whose
\* text was cut reaches nobody.
LEMMA QuestionEffect ==
  ASSUME ServerInv, displaced = {}, NEW r \in ClassIds,
         \A c \in ClassIds : c # r => status[c] # "ACTIVE",
         NEW u \in Students, NEW fd \in Fds, NEW m \in RequestRecord, Performs(fd, m)
  PROVE  /\ Told(u, Published) => m.class = r /\ activeQuestion'[r] # NoQuestion
         /\ ~Told(u, Published) => \/ activeQuestion'[r] = activeQuestion[r]
                                   \/ <<u, "question">> \in LosesTouch
<1>1. CASE m.type = "PUBLISH_QUESTION_REQ"
  <2>1. m.class \in ClassIds /\ PublishQuestionReq(fd, m.class)
    BY <1>1 DEF Performs, RequestRecord
  <2>2. m.class = r
    BY <2>1 DEF PublishQuestionReq, CM!RunBy
  <2>3. activeQuestion'[r] # NoQuestion
    BY <2>1, <2>2, ManagersAssumption
    DEF PublishQuestionReq, QM!PublishQuestion, ServerInv, QMP!QuestionInv, QMP!TypeOK,
        QMP!QuestionIds, QM!QuestionIds
  <2>4. ~cutText' => sent' = PushTo(members[r], Message(Published, r, Caller(fd)))
    BY <2>1, <2>2 DEF PublishQuestionReq, Broadcast, Published
  <2>5. ~cutText' /\ u \in members[r] => Told(u, Published)
    BY <2>4, RosterIsTold
  <2>6. (u \notin members[r] \/ cutText') /\ activeQuestion'[r] # activeQuestion[r] =>
           <<u, "question">> \in LosesTouch
    BY DEF LosesTouch
  <2> QED BY <2>2, <2>3, <2>5, <2>6
<1>2. CASE m.type # "PUBLISH_QUESTION_REQ"
  <2>1. activeQuestion' = activeQuestion
    BY <1>2, PerformsSpeech
  <2>2. ~Told(u, Published)
    <3>1. CASE m.type \notin Notifying
      <4>1. sent' = {}
        BY <3>1, OthersAreQuiet
      <4> QED BY <4>1 DEF Told
    <3>2. CASE m.type \in Notifying \ {"GRANT_MIC_REQ"}
      <4>1. PICK users \in SUBSET Users, type \in NoticeTypes :
               /\ sent' = PushTo(users, Message(type, m.class, Caller(fd)))
               /\ type = Published => m.type = "PUBLISH_QUESTION_REQ"
        BY <3>2, PushesOne
      <4>2. \A type2 : Told(u, type2) => type2 = type
        BY <4>1, OnlyUsersAreTold
      <4> QED BY <1>2, <4>1, <4>2
    <3>3. CASE m.type = "GRANT_MIC_REQ"
      <4> DEFINE loser == {micHolder[m.class]} \ {NoUser, m.user}
                 R == Message("NOTIFY_MIC_REVOKED", m.class, Caller(fd))
                 G == Message("NOTIFY_MIC_GRANTED", m.class, Caller(fd))
      <4>1. sent' = PushTo(loser, R) \cup PushTo({m.user}, G)
        BY <3>3, GrantPushes
      <4>2. R.type # Published /\ G.type # Published
        BY DEF Message, Published
      <4> HIDE DEF loser, R, G
      <4>3. /\ \A n \in PushTo(loser, R) : n.msg = R
            /\ \A n \in PushTo({m.user}, G) : n.msg = G
        BY PushToIs
      <4> QED BY <4>1, <4>2, <4>3 DEF Told
    <3> QED BY <3>1, <3>2, <3>3
  <2> QED BY <2>1, <2>2
<1> QED BY <1>1, <1>2

-----------------------------------------------------------------------------
(* What a student's page will say when it has read what is on its way. *)

LEMMA ReplySaysNothing ==
  ASSUME NEW a \in Seq(MessageRecord), NEW m \in RequestRecord, NEW ok \in BOOLEAN,
         NEW mic, NEW q, NEW v
  PROVE  /\ MicSays(mic, a \o Reply(m, ok)) <=> MicSays(mic, a)
         /\ QSays(q, a, v) => QSays(q, a \o Reply(m, ok), v)
<1>1. CASE m.type \notin DOMAIN ResponseOf /\ Reply(m, ok) = <<>>
  BY <1>1
<1>2. ASSUME NEW x \in MessageRecord, Reply(m, ok) = <<x>>, m.type \in DOMAIN ResponseOf,
             x.type = ResponseOf[m.type]
      PROVE  /\ MicSays(mic, a \o Reply(m, ok)) <=> MicSays(mic, a)
             /\ QSays(q, a, v) => QSays(q, a \o Reply(m, ok), v)
  <2>1. x.type \notin SP!MicLosses /\ x.type # Granted /\ x.type # Published
    BY <1>2 DEF ResponseOf, SP!MicLosses, Granted, Published
  <2>2. a \o Reply(m, ok) = Append(a, x)
    BY <1>2, Appended
  <2> QED BY <2>1, <2>2, MicAppended, QuestionAppended
<1> QED BY <1>1, <1>2, ReplyType

LEMMA PushSays ==
  ASSUME NEW a \in Seq(MessageRecord), NEW P, NEW u, NEW mic, NEW q, NEW v, NEW w, NEW z,
         \/ P = <<>> /\ \A type \in Noticed : ~Told(u, type)
         \/ \E x \in MessageRecord : /\ P = <<x>> /\ \A type : Told(u, type) <=> type = x.type
                                     /\ x.type = Published => x.question = z
  PROVE  /\ a \o P \in Seq(MessageRecord)
         /\ MicSays(mic, a \o P) <=> (MicSays(mic, a) \/ Told(u, Granted)) /\ ~LosesMic(u)
         /\ QSays(q, a, v) /\ (IF Told(u, Published) THEN w = z ELSE w = v) =>
               QSays(q, a \o P, w)
<1>1. CASE P = <<>> /\ \A type \in Noticed : ~Told(u, type)
  <2>1. ~Told(u, Granted) /\ ~Told(u, Published) /\ ~LosesMic(u)
    BY <1>1 DEF Noticed, SP!Alerts, Granted, Published, LosesMic
  <2>2. a \o P = a
    BY <1>1
  <2> QED BY <2>1, <2>2
<1>2. ASSUME NEW x \in MessageRecord, P = <<x>>, \A type : Told(u, type) <=> type = x.type,
             x.type = Published => x.question = z
      PROVE  /\ a \o P \in Seq(MessageRecord)
             /\ MicSays(mic, a \o P) <=> (MicSays(mic, a) \/ Told(u, Granted)) /\ ~LosesMic(u)
             /\ QSays(q, a, v) /\ (IF Told(u, Published) THEN w = z ELSE w = v) =>
                   QSays(q, a \o P, w)
  <2>1. a \o P = Append(a, x) /\ Append(a, x) \in Seq(MessageRecord)
    BY <1>2, Appended
  <2>2. LosesMic(u) <=> x.type \in SP!MicLosses
    BY <1>2 DEF LosesMic
  <2>3. MicSays(mic, a \o P) <=> (MicSays(mic, a) \/ Told(u, Granted)) /\ ~LosesMic(u)
    BY <1>2, <2>1, <2>2, MicAppended
  <2>4. ASSUME QSays(q, a, v), IF Told(u, Published) THEN w = z ELSE w = v
        PROVE  QSays(q, a \o P, w)
    <3>1. IF x.type = Published THEN x.question = w ELSE w = v
      BY <1>2, <2>4
    <3> QED BY <2>1, <2>4, <3>1, QuestionAppended
  <2> QED BY <2>1, <2>3, <2>4
<1> QED BY <1>1, <1>2

LEMMA HandledSays ==
  ASSUME RoomInv, ServerInv', NEW fd \in Fds, NEW ok \in BOOLEAN, Handled(fd, ok),
         NEW u \in Students, NEW mic, NEW q, NEW v, NEW w
  PROVE  LET z == activeQuestion'[Head(toServer[fd]).class] IN
         /\ MicSays(mic, From(u)') <=> (MicSays(mic, From(u)) \/ Told(u, Granted))
                                          /\ ~LosesMic(u)
         /\ QSays(q, From(u), v) /\ (IF Told(u, Published) THEN w = z ELSE w = v) =>
               QSays(q, From(u)', w)
<1> USE DEF RoomInv
<1> DEFINE m == Head(toServer[fd])
           f == fdOf[u]
           P == PushedOn(f)
           z == activeQuestion'[m.class]
<1>1. m \in RequestRecord /\ fdOf' = fdOf /\ u \in People
      /\ (f # NoFd => f \in Fds /\ toClient[f] \in Seq(MessageRecord))
  BY HeadRequest DEF Handled, windowVars, People, RoomTypes
<1>2. ok = FALSE => \A type : ~Told(u, type)
  BY DEF Handled, Quietly, Told
<1>3. ok = TRUE => Performs(fd, m)
  BY DEF Handled
<1>4. CASE f = NoFd
  <2>1. \A type : ~Told(u, type)
    BY <1>1, <1>2, <1>3, <1>4, PushedToPage
  <2>2. From(u) = <<>> /\ From(u)' = <<>>
    BY <1>1, <1>4 DEF From
  <2> QED BY <2>1, <2>2 DEF LosesMic
<1>5. CASE f # NoFd
  <2>1. /\ \/ P = <<>>
           \/ \E x \in MessageRecord : P = <<x>>
        /\ f # fd => toClient'[f] = toClient[f] \o P
        /\ f = fd => toClient'[f] = toClient[f] \o P \o Reply(m, ok)
    <3>1. f \in Fds
      BY <1>1, <1>5
    <3>2. /\ \/ PushedOn(f) = <<>>
             \/ /\ f \in clients
                /\ \E x \in MessageRecord : x.type \in NoticeTypes /\ PushedOn(f) = <<x>>
          /\ f # fd => toClient'[f] = toClient[f] \o PushedOn(f)
          /\ f = fd => toClient'[f] = toClient[f] \o PushedOn(f) \o Reply(Head(toServer[f]), ok)
      <4> HIDE DEF f, P, m
      <4> QED BY <3>1, HandledQueues
    <3> QED BY <3>2
  <2>2. From(u) = toClient[f] /\ From(u)' = toClient'[f]
    BY <1>1, <1>5 DEF From
  <2>3. \/ P = <<>> /\ \A type \in Noticed : ~Told(u, type)
        \/ \E x \in MessageRecord : /\ P = <<x>> /\ \A type : Told(u, type) <=> type = x.type
                                    /\ x.type = Published => x.question = z
    <3>1. CASE ok = FALSE
      <4>1. P = <<>>
        BY <3>1 DEF Handled, Quietly, PushedOn
      <4> QED BY <1>2, <3>1, <4>1
    <3>2. CASE ok = TRUE
      <4>1. \/ P = <<>> /\ \A type \in Noticed : ~Told(u, type)
            \/ \E x : /\ P = <<x>> /\ \A type : Told(u, type) <=> type = x.type
                      /\ x.type = Published => x.question = activeQuestion'[m.class]
        BY <1>1, <1>3, <1>5, <3>2, PushedToPage
      <4>2. ASSUME NEW x, P = <<x>>, \A type : Told(u, type) <=> type = x.type,
                   x.type = Published => x.question = activeQuestion'[m.class]
            PROVE  x \in MessageRecord /\ (x.type = Published => x.question = z)
        <5>1. x \in MessageRecord
          <6>1. PICK y \in MessageRecord : <<x>> = <<y>>
            BY <2>1, <4>2
          <6>2. x = <<x>>[1] /\ y = <<y>>[1]
            OBVIOUS
          <6> QED BY <6>1, <6>2
        <5> QED BY <4>2, <5>1
      <4> HIDE DEF P
      <4> QED BY <4>1, <4>2
    <3> QED BY <3>1, <3>2
  <2> HIDE DEF P, m, f, z
  <2>4. /\ toClient[f] \o P \in Seq(MessageRecord)
        /\ MicSays(mic, toClient[f] \o P)
              <=> (MicSays(mic, toClient[f]) \/ Told(u, Granted)) /\ ~LosesMic(u)
        /\ QSays(q, toClient[f], v) /\ (IF Told(u, Published) THEN w = z ELSE w = v) =>
              QSays(q, toClient[f] \o P, w)
    <3>1. toClient[f] \in Seq(MessageRecord)
      BY <1>1, <1>5
    <3> QED BY <2>3, <3>1, PushSays
  <2>5. CASE f # fd
    <3>1. From(u)' = toClient[f] \o P
      BY <2>1, <2>2, <2>5
    <3> QED BY <2>2, <2>4, <3>1 DEF z, m
  <2>6. CASE f = fd
    <3>1. From(u)' = (toClient[f] \o P) \o Reply(m, ok)
      BY <2>1, <2>2, <2>6
    <3>2. /\ MicSays(mic, (toClient[f] \o P) \o Reply(m, ok))
                <=> MicSays(mic, toClient[f] \o P)
          /\ QSays(q, toClient[f] \o P, w) =>
                QSays(q, (toClient[f] \o P) \o Reply(m, ok), w)
      BY <1>1, <2>4, ReplySaysNothing
    <3> QED BY <2>2, <2>4, <3>1, <3>2 DEF z, m
  <2> QED BY <2>5, <2>6
<1> QED BY <1>4, <1>5

-----------------------------------------------------------------------------
(* The students' side of a lesson in one class. *)

\* The question of the class, as the page would write it.
ActiveIn(r) == IF activeQuestion[r] = NoQuestion THEN 0 ELSE activeQuestion[r]

MicAgrees(r, u) ==
    Lost(u, "media") \/ (MicSays(studentPage[u].mic, From(u)) <=> micHolder[r] = u)
QuestionAgrees(r, u) ==
    Lost(u, "question") \/ QSays(studentPage[u].question, From(u), ActiveIn(r))
StudentAgrees(r, u) == Holds(r, u) /\ MicAgrees(r, u) /\ QuestionAgrees(r, u)

\* No other class runs, nor is another one asked to start.
OnlyRuns(r) ==
    /\ RunsIn(lesson, r)
    /\ \A c \in ClassIds : c # r => status[c] # "ACTIVE"
    /\ \A fd \in Fds : \A i \in DOMAIN toServer[fd] :
          toServer[fd][i].type = "START_CLASS_REQ" => toServer[fd][i].class = r

StudentInv(r) == OnlyRuns(r) /\ \A u \in Students : StudentAgrees(r, u)

LEMMA AgreesSame ==
  ASSUME NEW r, NEW u, StudentAgrees(r, u),
         UNCHANGED <<members, micHolder, activeQuestion, estranged>>,
         studentPage'[u].mic = studentPage[u].mic,
         studentPage'[u].question = studentPage[u].question, From(u)' = From(u)
  PROVE  StudentAgrees(r, u)'
<1>1. /\ Lost(u, "media")' = Lost(u, "media") /\ Lost(u, "question")' = Lost(u, "question")
      /\ ActiveIn(r)' = ActiveIn(r)
  BY DEF Lost, ActiveIn
<1>2. Holds(r, u)'
  BY <1>1 DEF StudentAgrees, Holds
<1>3. MicAgrees(r, u)'
  BY <1>1 DEF StudentAgrees, MicAgrees
<1>4. QuestionAgrees(r, u)'
  BY <1>1 DEF StudentAgrees, QuestionAgrees
<1> QED BY <1>2, <1>3, <1>4 DEF StudentAgrees

LEMMA AgreesHandled ==
  ASSUME RoomInv, ServerInv', NEW r \in ClassIds, OnlyRuns(r), NEW u \in Students,
         StudentAgrees(r, u), NEW fd \in Fds, NEW ok \in BOOLEAN, Handled(fd, ok)
  PROVE  StudentAgrees(r, u)'
<1> USE DEF RoomInv
<1> DEFINE m == Head(toServer[fd])
           mic == studentPage[u].mic
           q == studentPage[u].question
           v == ActiveIn(r)
           w == ActiveIn(r)'
<1>1. /\ m \in RequestRecord /\ studentPage' = studentPage
      /\ estranged' = estranged \cup LosesTouch
      /\ ok = TRUE => Performs(fd, m)
  BY HeadRequest DEF Handled, windowVars
<1>2. \A topic : Lost(u, topic)' <=> Lost(u, topic) \/ <<u, topic>> \in LosesTouch
  BY <1>1 DEF Lost
<1>3. MicMoves(r, u)
  <2>1. CASE ok = TRUE
    BY <1>1, <2>1, MicEffect DEF OnlyRuns, StudentAgrees, SeatsAreKept
  <2>2. CASE ok = FALSE
    <3>1. micHolder' = micHolder /\ \A type : ~Told(u, type)
      BY <2>2 DEF Handled, OnlySends, cmVars, Quietly, Told
    <3> QED BY <3>1, MicUntouched DEF StudentAgrees
  <2> QED BY <2>1, <2>2
<1>4. /\ Told(u, Published) => w = activeQuestion'[m.class]
      /\ ~Told(u, Published) => w = v \/ <<u, "question">> \in LosesTouch
  <2>1. CASE ok = TRUE
    <3>1. /\ Told(u, Published) => m.class = r /\ activeQuestion'[r] # NoQuestion
          /\ ~Told(u, Published) => \/ activeQuestion'[r] = activeQuestion[r]
                                    \/ <<u, "question">> \in LosesTouch
      BY <1>1, <2>1, QuestionEffect DEF OnlyRuns, SeatsAreKept
    <3> QED BY <3>1 DEF ActiveIn
  <2>2. CASE ok = FALSE
    <3>1. activeQuestion' = activeQuestion /\ \A type : ~Told(u, type)
      BY <2>2 DEF Handled, OnlySends, qmVars, Quietly, Told
    <3> QED BY <3>1 DEF ActiveIn
  <2> QED BY <2>1, <2>2
<1> HIDE DEF m, v, w
<1>5. MicAgrees(r, u)'
  <2>1. ASSUME ~Lost(u, "media")'
        PROVE  MicSays(mic, From(u)') <=> micHolder'[r] = u
    <3>1. micHolder'[r] = u <=> (micHolder[r] = u \/ Told(u, Granted)) /\ ~LosesMic(u)
      BY <1>2, <1>3, <2>1 DEF MicMoves
    <3>2. MicSays(mic, From(u)) <=> micHolder[r] = u
      BY <1>2, <2>1 DEF StudentAgrees, MicAgrees
    <3>3. MicSays(mic, From(u)') <=> (MicSays(mic, From(u)) \/ Told(u, Granted)) /\ ~LosesMic(u)
      BY HandledSays
    <3> QED BY <3>1, <3>2, <3>3
  <2> QED BY <1>1, <2>1 DEF MicAgrees
<1>6. QuestionAgrees(r, u)'
  <2>1. ASSUME ~Lost(u, "question")'
        PROVE  QSays(q, From(u)', w)
    <3>1. QSays(q, From(u), v)
      BY <1>2, <2>1 DEF StudentAgrees, QuestionAgrees, v
    <3>2. IF Told(u, Published) THEN w = activeQuestion'[m.class] ELSE w = v
      BY <1>2, <1>4, <2>1
    <3> QED BY <3>1, <3>2, HandledSays DEF m
  <2> QED BY <1>1, <2>1 DEF QuestionAgrees, w
<1>7. Holds(r, u)'
  BY <1>2, <1>3 DEF MicMoves, Holds
<1> QED BY <1>5, <1>6, <1>7 DEF StudentAgrees

LEMMA AgreesLost ==
  ASSUME RoomInv, NEW r \in ClassIds, NEW u \in Students, StudentAgrees(r, u),
         NEW v \in People, LosesConnection(v)
  PROVE  StudentAgrees(r, u)'
<1> USE DEF RoomInv
<1> DEFINE a == From(u)
<1>1. /\ fdOf[v] # NoFd /\ fdOf[v] \in Fds /\ CloseConnection(fdOf[v]) /\ u \in People
      /\ fdOf' = [fdOf EXCEPT ![v] = NoFd]
      /\ toClient' = [toClient EXCEPT ![fdOf[v]] = <<>>]
      /\ estranged' = estranged \cup LosesTouch
              \cup {Unseen(v, toClient[fdOf[v]][i]) : i \in DOMAIN toClient[fdOf[v]]}
      /\ studentPage' = studentPage
  BY DEF LosesConnection, RoomTypes, People
<1>2. micHolder' = micHolder /\ activeQuestion' = activeQuestion
  BY <1>1 DEF CloseConnection, EndSession, CM!RemoveFromAll, CM!mediaVars, cmVars, qmVars
<1>3. /\ \A topic : Lost(u, topic) \/ <<u, topic>> \in LosesTouch => Lost(u, topic)'
      /\ ActiveIn(r)' = ActiveIn(r)
  BY <1>1, <1>2 DEF Lost, ActiveIn
<1>4. Holds(r, u)'
  <2>1. CASE micHolder[r] = u /\ u \notin members'[r]
    BY <1>3, <2>1, MicLeft DEF StudentAgrees, Holds
  <2> QED BY <1>2, <2>1 DEF Holds
<1>5. \/ From(u)' = a
      \/ /\ From(u)' = <<>>
         /\ \A i \in DOMAIN a : IF a[i].type = Published THEN Lost(u, "question")'
                                                         ELSE Lost(u, "media")'
  <2>1. CASE u = v
    <3>1. From(u)' = <<>> /\ a = toClient[fdOf[u]]
      BY <1>1, <2>1 DEF From, RoomTypes
    <3>2. ASSUME NEW i \in DOMAIN a
          PROVE  IF a[i].type = Published THEN Lost(u, "question")' ELSE Lost(u, "media")'
      <4>1. Unseen(u, a[i]) \in estranged'
        BY <1>1, <2>1, <3>1
      <4> QED BY <4>1 DEF Unseen, Lost, Published
    <3> QED BY <3>1, <3>2
  <2>2. CASE u # v
    <3>1. fdOf'[u] = fdOf[u] /\ (fdOf[u] # NoFd => fdOf[u] # fdOf[v] /\ fdOf[u] \in Fds)
      BY <1>1, <2>2 DEF SeatsAreKept, RoomTypes
    <3> QED BY <1>1, <3>1 DEF From, RoomTypes
  <2> QED BY <2>1, <2>2
<1> HIDE DEF a
<1>6. MicAgrees(r, u)'
  <2>1. ASSUME ~Lost(u, "media")'
        PROVE  MicSays(studentPage[u].mic, From(u)') <=> micHolder[r] = u
    <3>1. MicSays(studentPage[u].mic, a) <=> micHolder[r] = u
      BY <1>3, <2>1 DEF StudentAgrees, MicAgrees, a
    <3>2. CASE From(u)' = a
      BY <3>1, <3>2
    <3>3. CASE From(u)' = <<>> /\ \A i \in DOMAIN a : a[i].type = Published
      <4>1. \A i \in DOMAIN a : a[i].type \notin MicTypes
        BY <3>3 DEF Published, MicTypes, SP!MicLosses, Granted
      <4>2. MicSays(studentPage[u].mic, a) <=> studentPage[u].mic
        BY <4>1, SaysSame
      <4>3. MicSays(studentPage[u].mic, <<>>) <=> studentPage[u].mic
        BY SaysNothing
      <4> QED BY <3>1, <3>3, <4>2, <4>3
    <3> QED BY <1>5, <2>1, <3>2, <3>3
  <2> QED BY <1>1, <1>2, <2>1 DEF MicAgrees
<1>7. QuestionAgrees(r, u)'
  <2>1. ASSUME ~Lost(u, "question")'
        PROVE  QSays(studentPage[u].question, From(u)', ActiveIn(r))
    <3>1. QSays(studentPage[u].question, a, ActiveIn(r))
      BY <1>3, <2>1 DEF StudentAgrees, QuestionAgrees, a
    <3>2. CASE From(u)' = a
      BY <3>1, <3>2
    <3>3. CASE From(u)' = <<>> /\ \A i \in DOMAIN a : a[i].type # Published
      BY <3>1, <3>3, SaysSame, SaysNothing
    <3> QED BY <1>5, <2>1, <3>2, <3>3
  <2> QED BY <1>1, <1>3, <2>1 DEF QuestionAgrees
<1> QED BY <1>4, <1>6, <1>7 DEF StudentAgrees

LEMMA AgreesReceived ==
  ASSUME RoomInv, NEW r \in ClassIds, NEW u \in Students, StudentAgrees(r, u),
         NEW v \in People, Receives(v)
  PROVE  StudentAgrees(r, u)'
<1> USE DEF RoomInv
<1> DEFINE a == From(u)
           x == Head(toClient[fdOf[v]])
           p == studentPage[u]
<1>1. /\ fdOf[v] \in Fds /\ fdOf[v] # NoFd /\ toClient[fdOf[v]] # <<>> /\ x \in MessageRecord
      /\ toClient' = [toClient EXCEPT ![fdOf[v]] = Tail(@)] /\ u \in People
      /\ studentPage'[u] = IF u = v /\ shown[v] THEN SP!AfterMessage(p, x) ELSE p
      /\ estranged' = IF shown[v] THEN estranged ELSE estranged \cup {Unseen(v, x)}
      /\ ServerIdle /\ fdOf' = fdOf /\ p \in StudentRecord
  BY ReceivesOne DEF RoomTypes, People
<1>2. UNCHANGED <<members, micHolder, activeQuestion>>
  BY <1>1 DEF ServerIdle, OnlySends, cmVars, qmVars
<1>3. CASE u # v
  <2>1. fdOf[u] # NoFd => fdOf[u] # fdOf[v] /\ fdOf[u] \in Fds
    BY <1>1, <1>3 DEF SeatsAreKept, RoomTypes
  <2>2. From(u)' = a
    BY <1>1, <2>1 DEF From, RoomTypes
  <2>3. Lost(u, "media")' = Lost(u, "media") /\ Lost(u, "question")' = Lost(u, "question")
    BY <1>1, <1>3 DEF Lost, Unseen
  <2>4. ActiveIn(r)' = ActiveIn(r) /\ studentPage'[u] = p
    BY <1>1, <1>2, <1>3 DEF ActiveIn
  <2> QED BY <1>2, <2>2, <2>3, <2>4 DEF StudentAgrees, Holds, MicAgrees, QuestionAgrees
<1>4. CASE u = v
  <2>1. a = toClient[fdOf[u]] /\ From(u)' = Tail(a) /\ a \in Seq(MessageRecord) /\ a # <<>>
        /\ x = Head(a)
    BY <1>1, <1>4 DEF From, RoomTypes
  <2>2. /\ \A topic : Lost(u, topic) => Lost(u, topic)'
        /\ ActiveIn(r)' = ActiveIn(r)
    BY <1>1, <1>2 DEF Lost, ActiveIn
  <2>3. ~shown[u] => IF x.type = Published THEN Lost(u, "question")' ELSE Lost(u, "media")'
    BY <1>1, <1>4 DEF Lost, Unseen, Published
  <2> HIDE DEF a, x, p
  <2>4. /\ shown[u] => /\ studentPage'[u].mic
                             <=> (p.mic \/ x.type = Granted) /\ x.type \notin SP!MicLosses
                       /\ studentPage'[u].question
                             = IF x.type = Published THEN x.question ELSE p.question
        /\ ~shown[u] => studentPage'[u] = p
    BY <1>1, <1>4, StudentPageAfter DEF Granted, Published
  <2>5. Holds(r, u)'
    BY <1>2, <2>2 DEF StudentAgrees, Holds
  <2>6. MicAgrees(r, u)'
    <3>1. ASSUME ~Lost(u, "media")'
          PROVE  MicSays(studentPage'[u].mic, Tail(a)) <=> micHolder[r] = u
      <4>1. MicSays(p.mic, a) <=> micHolder[r] = u
        BY <2>2, <3>1 DEF StudentAgrees, MicAgrees, a, p
      <4>2. studentPage'[u].mic <=> (p.mic \/ x.type = Granted) /\ x.type \notin SP!MicLosses
        <5>1. CASE shown[u]
          BY <2>4, <5>1
        <5>2. CASE ~shown[u]
          <6>1. x.type \notin SP!MicLosses /\ x.type # Granted
            BY <2>3, <3>1, <5>2 DEF Published, SP!MicLosses, Granted
          <6> QED BY <2>4, <5>2, <6>1
        <5> QED BY <5>1, <5>2
      <4>3. MicSays(studentPage'[u].mic, Tail(a)) <=> MicSays(p.mic, a)
        BY <2>1, <4>2, MicRead
      <4> QED BY <4>1, <4>3
    <3> QED BY <1>2, <2>1, <3>1 DEF MicAgrees
  <2>7. QuestionAgrees(r, u)'
    <3>1. ASSUME ~Lost(u, "question")'
          PROVE  QSays(studentPage'[u].question, Tail(a), ActiveIn(r))
      <4>1. QSays(p.question, a, ActiveIn(r))
        BY <2>2, <3>1 DEF StudentAgrees, QuestionAgrees, a, p
      <4>2. studentPage'[u].question = IF x.type = Published THEN x.question ELSE p.question
        BY <2>3, <2>4, <3>1
      <4>3. studentPage'[u].question = IF Head(a).type = Published THEN Head(a).question
                                       ELSE p.question
        BY <2>1, <4>2
      <4> QED BY <2>1, <4>1, <4>3, QuestionRead
    <3> QED BY <2>1, <2>2, <3>1 DEF QuestionAgrees
  <2> QED BY <2>5, <2>6, <2>7 DEF StudentAgrees
<1> QED BY <1>3, <1>4

\* Only the class of the lesson is started.
\* Whoever comes to a page somebody else has used is out of touch with the server.
LEMMA AgreesLoggedIn ==
  ASSUME RoomInv, NEW r \in ClassIds, NEW u \in Students, StudentAgrees(r, u),
         NEW v \in People, NEW x \in People, LogsIn(x, v)
  PROVE  StudentAgrees(r, u)'
<1>1. UNCHANGED <<members, micHolder, activeQuestion>>
  BY DEF LogsIn, LoginReq, cmVars, qmVars
<1>2. u \in People /\ "media" \in Topics /\ "question" \in Topics
  BY DEF People, Topics
<1>3. \/ Lost(u, "media")' /\ Lost(u, "question")'
      \/ /\ studentPage'[u] = studentPage[u] /\ From(u)' = From(u)
         /\ Lost(u, "media")' <=> Lost(u, "media")
         /\ Lost(u, "question")' <=> Lost(u, "question")
  BY <1>2, TalkLogsIn DEF RoomInv
<1>4. ActiveIn(r)' = ActiveIn(r)
  BY <1>1 DEF ActiveIn
<1>5. CASE Lost(u, "media")' /\ Lost(u, "question")'
  BY <1>5 DEF StudentAgrees, Holds, MicAgrees, QuestionAgrees
<1>6. CASE /\ studentPage'[u] = studentPage[u] /\ From(u)' = From(u)
           /\ Lost(u, "media")' <=> Lost(u, "media")
           /\ Lost(u, "question")' <=> Lost(u, "question")
  BY <1>1, <1>4, <1>6 DEF StudentAgrees, Holds, MicAgrees, QuestionAgrees
<1> QED BY <1>3, <1>5, <1>6

LEMMA OnlyRunsStep ==
  ASSUME RoomInv, ServerInv', StoppedMeansStopped, Settled, NEW r \in ClassIds, OnlyRuns(r),
         [RoomNext]_roomVars
  PROVE  OnlyRuns(r)'
<1> USE DEF RoomInv
<1> DEFINE Queued(q) == \A i \in DOMAIN q : q[i].type = "START_CLASS_REQ" => q[i].class = r
<1>0. /\ RunsIn(lesson, r) /\ \A c \in ClassIds : c # r => status[c] # "ACTIVE"
      /\ \A fd \in Fds : Queued(toServer[fd]) /\ toServer[fd] \in Seq(RequestRecord)
      /\ DOMAIN toServer = Fds
  BY DEF OnlyRuns, RoomTypes
<1>1. Queued(<<>>)
  OBVIOUS
<1>2. ASSUME lesson' = lesson, \A c \in ClassIds : c # r => status'[c] # "ACTIVE",
             \A fd \in Fds : Queued(toServer'[fd])
      PROVE  OnlyRuns(r)'
  BY <1>0, <1>2 DEF OnlyRuns, RunsIn
<1>3. ASSUME NEW fd \in Fds, NEW ok \in BOOLEAN, Handled(fd, ok)
      PROVE  OnlyRuns(r)'
  <2> DEFINE m == Head(toServer[fd])
  <2>1. /\ m.type = "START_CLASS_REQ" => m.class = r
        /\ Queued(Tail(toServer[fd])) /\ m \in RequestRecord
    <3>1. m = toServer[fd][1] /\ 1 \in DOMAIN toServer[fd]
          /\ \A i \in DOMAIN Tail(toServer[fd]) :
                i + 1 \in DOMAIN toServer[fd] /\ Tail(toServer[fd])[i] = toServer[fd][i + 1]
      BY <1>0, <1>3, Taken DEF Handled
    <3> QED BY <1>0, <1>3, <3>1, HeadRequest DEF Handled
  <2>2. lesson' = lesson /\ toServer' = [toServer EXCEPT ![fd] = Tail(@)]
    BY <1>3 DEF Handled
  <2>3. \A f \in Fds : Queued(toServer'[f])
    BY <1>0, <2>1, <2>2
  <2> HIDE DEF m, Queued
  <2>4. \A c \in ClassIds : c # r => status'[c] # "ACTIVE"
    <3>1. CASE ok = FALSE
      BY <1>0, <1>3, <3>1 DEF Handled, OnlySends, cmVars
    <3>2. CASE ok = TRUE /\ m.type \notin {"START_CLASS_REQ", "END_CLASS_REQ"}
      <4>1. status' = status
        BY <1>3, <3>2, PerformsMedia DEF Handled, m
      <4> QED BY <1>0, <4>1
    <3>3. CASE ok = TRUE /\ m.type \in {"START_CLASS_REQ", "END_CLASS_REQ"}
      <4>1. Performs(fd, m)
        BY <1>3, <3>3 DEF Handled, m
      <4>2. \/ m.class = r /\ status' = [status EXCEPT ![r] = "ACTIVE"]
            \/ status' = [status EXCEPT ![m.class] = "ENDED"]
        BY <2>1, <3>3, <4>1 DEF Performs, StartClassReq, EndClassReq, CM!StartClass, CM!EndClass
      <4>3. DOMAIN status = ClassIds
        BY DEF ServerInv, CMP!Inv, CMP!TypeOK, CMP!ClassIds, ClassIds
      <4> QED BY <1>0, <4>2, <4>3
    <3> QED BY <3>1, <3>2, <3>3
  <2> QED BY <1>2, <2>2, <2>3, <2>4
<1>4. ASSUME NEW u \in People, LosesConnection(u)
      PROVE  OnlyRuns(r)'
  <2>1. /\ lesson' = lesson /\ toServer' = [toServer EXCEPT ![fdOf[u]] = <<>>]
        /\ CloseConnection(fdOf[u])
    BY <1>4 DEF LosesConnection
  <2>2. status' = status
    BY <2>1 DEF CloseConnection, EndSession, CM!RemoveFromAll, CM!lifeVars, cmVars
  <2>3. \A f \in Fds : Queued(toServer'[f])
    BY <1>0, <1>1, <2>1
  <2> QED BY <1>0, <1>2, <2>1, <2>2, <2>3
<1>5. ASSUME NEW u \in People, NEW m \in RequestRecord, Asks(u, m)
      PROVE  OnlyRuns(r)'
  <2>1. status' = status /\ lesson' = lesson
    BY <1>5 DEF Asks, ServerIdle, OnlySends, cmVars
  <2>2. /\ \A f \in Fds : f # fdOf[u] => toServer'[f] = toServer[f]
        /\ fdOf[u] # NoFd => /\ fdOf[u] \in Fds
                             /\ toServer'[fdOf[u]] = Append(toServer[fdOf[u]], m)
    BY <1>5, SendsOne DEF Asks
  <2>3. m.type = "START_CLASS_REQ" => m.class = r
    BY <1>0, <1>5 DEF Asks, RunsIn
  <2>4. ASSUME NEW f \in Fds PROVE Queued(toServer'[f])
    <3>1. CASE f # fdOf[u]
      BY <1>0, <2>2, <3>1
    <3>2. CASE f = fdOf[u]
      <4>1. toServer'[f] = Append(toServer[f], m)
        BY <2>2, <3>2, ConstantsAreFine DEF RoomTypes
      <4>2. /\ DOMAIN Append(toServer[f], m) = DOMAIN toServer[f] \cup {Len(toServer[f]) + 1}
            /\ \A i \in DOMAIN toServer[f] : Append(toServer[f], m)[i] = toServer[f][i]
            /\ Append(toServer[f], m)[Len(toServer[f]) + 1] = m
        BY <1>0, Appended
      <4> QED BY <1>0, <2>3, <4>1, <4>2
    <3> QED BY <3>1, <3>2
  <2> QED BY <1>0, <1>2, <2>1, <2>4
<1>6. ASSUME UNCHANGED <<lesson, status, toServer>>
      PROVE  OnlyRuns(r)'
  BY <1>0, <1>2, <1>6
<1>7. ASSUME NEW u \in People, NEW v \in People,
             Reconnects(u) \/ LogsIn(v, u) \/ Receives(u)
      PROVE  UNCHANGED <<lesson, status, toServer>>
  BY <1>7 DEF Reconnects, LogsIn, Receives, Connect, LoginReq, ServerIdle, OnlySends,
              cmVars
<1>8. TurnsPages \/ UNCHANGED roomVars => UNCHANGED <<lesson, status, toServer>>
  BY DEF TurnsPages, ServerIdle, OnlySends, cmVars, roomVars, vars
<1> QED BY <1>3, <1>4, <1>5, <1>6, <1>7, <1>8, RoomKinds, HandleIsHandled

LEMMA StudentInvStep ==
  ASSUME TeacherInv, NEW r \in ClassIds, StudentInv(r), [RoomNext]_roomVars
  PROVE  StudentInv(r)'
<1> USE DEF TeacherInv
<1>0. ServerInv' /\ OnlyRuns(r)
  BY RoomStepIsServerStep, ServerInvStep DEF RoomInv, StudentInv
<1>1. OnlyRuns(r)'
  BY <1>0, OnlyRunsStep DEF StudentInv
<1>2. SUFFICES ASSUME NEW u \in Students PROVE StudentAgrees(r, u)'
  BY <1>1 DEF StudentInv
<1>3. StudentAgrees(r, u) /\ u \in People
  BY DEF StudentInv, People
<1>4. ASSUME NEW fd \in Fds, Handle(fd)
      PROVE  StudentAgrees(r, u)'
  <2>1. PICK ok \in BOOLEAN : Handled(fd, ok)
    BY <1>4, HandleIsHandled
  <2> QED BY <1>0, <1>3, <2>1, AgreesHandled
<1>5. ASSUME NEW v \in People, LosesConnection(v)
      PROVE  StudentAgrees(r, u)'
  BY <1>3, <1>5, AgreesLost
<1>6. ASSUME NEW v \in People, Reconnects(v)
      PROVE  StudentAgrees(r, u)'
  <2>1. From(u)' = From(u)
    BY <1>3, <1>6, TalkReconnects DEF RoomInv
  <2>2. UNCHANGED <<members, micHolder, activeQuestion, estranged, studentPage>>
    BY <1>6 DEF Reconnects, Connect, cmVars, qmVars
  <2> QED BY <1>3, <2>1, <2>2, AgreesSame
<1>11. ASSUME NEW v \in People, NEW x \in People, LogsIn(x, v)
       PROVE  StudentAgrees(r, u)'
  BY <1>3, <1>11, AgreesLoggedIn
<1>7. ASSUME NEW v \in People, Receives(v)
      PROVE  StudentAgrees(r, u)'
  BY <1>3, <1>7, AgreesReceived
<1>8. ASSUME NEW v \in People, NEW m \in RequestRecord, Asks(v, m)
      PROVE  StudentAgrees(r, u)'
  <2>1. UNCHANGED <<members, micHolder, activeQuestion, estranged, studentPage>>
    BY <1>8 DEF Asks, ServerIdle, OnlySends, cmVars, qmVars
  <2>2. From(u)' = From(u)
    BY <1>8 DEF Asks, From
  <2> QED BY <1>3, <2>1, <2>2, AgreesSame
<1>9. CASE TurnsPages
  <2>1. UNCHANGED <<members, micHolder, activeQuestion, estranged>>
    BY <1>9 DEF TurnsPages, ServerIdle, OnlySends, cmVars, qmVars
  <2>2. From(u)' = From(u)
    BY <1>9 DEF TurnsPages, From
  <2>3. studentPage'[u].mic = studentPage[u].mic
        /\ studentPage'[u].question = studentPage[u].question
    BY <1>3, <1>9 DEF TurnsPages
  <2> QED BY <1>3, <2>1, <2>2, <2>3, AgreesSame
<1>10. CASE UNCHANGED roomVars
  <2>1. UNCHANGED <<members, micHolder, activeQuestion, estranged, studentPage>>
    BY <1>10 DEF roomVars, windowVars, vars, cmVars, qmVars
  <2>2. From(u)' = From(u)
    BY <1>10 DEF roomVars, windowVars, From
  <2> QED BY <1>3, <2>1, <2>2, AgreesSame
<1> QED BY <1>4, <1>5, <1>6, <1>7, <1>8, <1>9, <1>10, <1>11, RoomKinds DEF RoomInv

LEMMA StudentsBegin ==
  ASSUME RoomInit, NEW r \in ClassIds, RunsIn(lesson, r)
  PROVE  StudentInv(r)
<1>1. /\ \A c \in ClassIds : c # r => status[c] # "ACTIVE"
      /\ micHolder = [c \in ClassIds |-> NoUser]
      /\ activeQuestion = [c \in ClassIds |-> NoQuestion]
      /\ toServer = [fd \in Fds |-> <<>>] /\ toClient = [fd \in Fds |-> <<>>]
      /\ studentPage = [u \in People |-> SP!Entered(SP!NewPage, 1)]
      /\ fdOf = [u \in People |-> userIdToFd[u]]
  BY DEF RoomInit, LessonInit, RunsIn, QM!Init
<1>2. OnlyRuns(r)
  BY <1>1 DEF OnlyRuns
<1>3. ASSUME NEW u \in Students
      PROVE  StudentAgrees(r, u)
  <2>1. u \in People /\ u # NoUser
    BY ServerAssumption DEF People, Users
  <2>2. fdOf[u] \in Fds \cup {NoFd}
    BY RoomBegins, <2>1 DEF TeacherInv, RoomInv, RoomTypes
  <2>3. From(u) = <<>>
    BY <1>1, <2>2 DEF From
  <2>4. studentPage[u].mic = FALSE /\ studentPage[u].question = 0
    BY <1>1, <2>1 DEF SP!Entered, SP!NewPage
  <2>5. micHolder[r] # u /\ ActiveIn(r) = 0
    BY <1>1, <2>1 DEF ActiveIn
  <2>6. ~MicSays(studentPage[u].mic, <<>>) /\ QSays(studentPage[u].question, <<>>, 0)
    BY <2>4, SaysNothing
  <2> QED BY <2>3, <2>5, <2>6 DEF StudentAgrees, Holds, MicAgrees, QuestionAgrees
<1> QED BY <1>2, <1>3 DEF StudentInv

\* In a lesson of one class the students' pages stay with it.
StudentsInv == \E r \in ClassIds : StudentInv(r)

LEMMA StudentsInvariant == RoomSpec /\ OneRuns(lesson) => [](TeacherInv /\ StudentsInv)
<1>1. RoomInit /\ OneRuns(lesson) => StudentsInv
  BY StudentsBegin DEF OneRuns, StudentsInv
<1>2. TeacherInv /\ StudentsInv /\ [RoomNext]_roomVars => StudentsInv'
  BY StudentInvStep DEF StudentsInv
<1> QED BY <1>1, <1>2, TeacherInvariant, PTL DEF RoomSpec

\* Where a member is, or the microphone, a class runs.
LEMMA OnlyOneIsLive ==
  ASSUME ServerInv, NEW r \in ClassIds, OnlyRuns(r), NEW c \in ClassIds
  PROVE  /\ members[c] # {} => c = r
         /\ micHolder[c] # NoUser => c = r
BY DEF ServerInv, OnlyRuns, CMP!Inv, CMP!OnlyActiveClassesRun, CMP!MicNeedsAudio,
       CMP!ClassIds, ClassIds

\* While one class runs, a student's window that has seen every message captures exactly
\* while the server gives this student the microphone.  (A student who is in two running
\* classes takes the loss in one of them for a loss of the other's microphone: the page
\* does not compare the class.)
THEOREM StudentKnowsMic == RoomSpec /\ OneRuns(lesson) => []MicFollowsServer
<1>1. ASSUME TeacherInv, StudentsInv, NEW u \in Students, InTouch(u, "media")
      PROVE  studentPage[u].mic <=> \E c \in ClassIds : micHolder[c] = u
  <2>1. PICK r \in ClassIds : StudentInv(r)
    BY <1>1 DEF StudentsInv
  <2>2. From(u) = <<>> /\ ~Lost(u, "media")
    BY <1>1 DEF InTouch, Quiet, From, Lost
  <2>3. MicSays(studentPage[u].mic, From(u)) <=> micHolder[r] = u
    BY <2>1, <2>2 DEF StudentInv, StudentAgrees, MicAgrees
  <2>4. MicSays(studentPage[u].mic, <<>>) <=> studentPage[u].mic
    BY SaysNothing
  <2>5. u # NoUser
    BY ServerAssumption DEF Users
  <2>6. \A c \in ClassIds : micHolder[c] = u => c = r
    BY <1>1, <2>1, <2>5, OnlyOneIsLive DEF StudentInv, TeacherInv, RoomInv
  <2> QED BY <2>2, <2>3, <2>4, <2>6
<1>2. TeacherInv /\ StudentsInv => MicFollowsServer
  BY <1>1 DEF MicFollowsServer
<1> QED BY <1>2, StudentsInvariant, PTL

\* While one class runs, a student who was in it for every question, and whose page has
\* seen every message, has the active question on the page.
THEOREM StudentKnowsQuestion == RoomSpec /\ OneRuns(lesson) => []QuestionFollowsServer
<1>1. ASSUME TeacherInv, StudentsInv, NEW u \in Students, NEW c \in ClassIds,
             InTouch(u, "question"), u \in members[c]
      PROVE  studentPage[u].question = ActiveIn(c)
  <2>1. PICK r \in ClassIds : StudentInv(r)
    BY <1>1 DEF StudentsInv
  <2>2. From(u) = <<>> /\ ~Lost(u, "question")
    BY <1>1 DEF InTouch, Quiet, From, Lost
  <2>3. QSays(studentPage[u].question, From(u), ActiveIn(r))
    BY <2>1, <2>2 DEF StudentInv, StudentAgrees, QuestionAgrees
  <2>4. QSays(studentPage[u].question, <<>>, ActiveIn(r))
          <=> studentPage[u].question = ActiveIn(r)
    BY SaysNothing
  <2>5. c = r
    BY <1>1, <2>1, OnlyOneIsLive DEF StudentInv, TeacherInv, RoomInv
  <2> QED BY <2>2, <2>3, <2>4, <2>5
<1>2. TeacherInv /\ StudentsInv => QuestionFollowsServer
  BY <1>1 DEF QuestionFollowsServer, ActiveIn
<1> QED BY <1>2, StudentsInvariant, PTL

=============================================================================
