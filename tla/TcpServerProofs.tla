----------------------------- MODULE TcpServerProofs -----------------------------
(***************************************************************************)
(* Theorems about TcpServer: however TCP cuts the stream of a connection,   *)
(* the loop of onReadyRead dispatches every well-formed request once and in *)
(* order, and leaves none that is complete in the buffer.                  *)
(***************************************************************************)
EXTENDS TcpServer, SequenceTheorems, WellFoundedInduction, TLAPS

-----------------------------------------------------------------------------
(* Induction. *)

LEMMA LessThanPairs == OpToRel(<, Nat) = {p \in Nat \X Nat : p[1] < p[2]}
BY DEF OpToRel

\* A set of numbers that is not empty has a least one.
LEMMA LeastNumber ==
  ASSUME NEW N \in SUBSET Nat, N # {}
  PROVE  \E x \in N : \A y \in N : x <= y
<1>1. PICK x \in N : \A y \in N : ~(<<y, x>> \in OpToRel(<, Nat))
  BY NatLessThanWellFounded, WFMin
<1>2. \A y \in N : ~(<<y, x>> \in {p \in Nat \X Nat : p[1] < p[2]})
  BY <1>1, LessThanPairs
<1>3. \A y \in N : <<y, x>> \in Nat \X Nat /\ <<y, x>>[1] = y /\ <<y, x>>[2] = x
  OBVIOUS
<1>4. \A y \in N : ~(y < x)
  BY <1>2, <1>3
<1> QED BY <1>4

\* A set of numbers that holds 0 and every successor of a member holds them all.
LEMMA SetNatInduction ==
  ASSUME NEW N \in SUBSET Nat, 0 \in N, \A n \in N : n + 1 \in N
  PROVE  N = Nat
<1> DEFINE Others == Nat \ N
<1> SUFFICES ASSUME Others # {} PROVE FALSE
  OBVIOUS
<1>1. PICK x \in Others : \A y \in Others : x <= y
  <2>1. Others \in SUBSET Nat
    OBVIOUS
  <2> HIDE DEF Others
  <2> QED BY <2>1, LeastNumber
<1>2. x \in Nat /\ x # 0 /\ x - 1 \in Nat
  OBVIOUS
<1>3. x - 1 \in N
  BY <1>1, <1>2
<1> QED BY <1>2, <1>3

-----------------------------------------------------------------------------
(* ValidBodies is a recursive function on the pieces: it is defined, and one *)
(* piece more adds the frame of a valid body.                               *)

After1(bodies, piece) ==
    IF piece.part = "body" /\ piece.frame \in Valid THEN Append(bodies, piece.frame)
    ELSE bodies

IsPicked(f, s) ==
    f = [k \in 0 .. Len(s) |->
            IF k = 0 THEN <<>>
            ELSE IF s[k].part = "body" /\ s[k].frame \in Valid
                 THEN Append(f[k - 1], s[k].frame)
                 ELSE f[k - 1]]

LEMMA ValidBodiesDef == \A s : ValidBodies(s) = (CHOOSE f : IsPicked(f, s))[Len(s)]
BY DEF ValidBodies, IsPicked

\* What IsPicked says of each number of pieces.
LEMMA PickedAt ==
  ASSUME NEW s \in Seq(Pieces), NEW f
  PROVE  IsPicked(f, s) <=>
            /\ f = [k \in 0 .. Len(s) |-> f[k]]
            /\ f[0] = <<>>
            /\ \A k \in 1 .. Len(s) : f[k] = After1(f[k - 1], s[k])
<1> DEFINE n == Len(s)
           g == [k \in 0 .. n |->
                   IF k = 0 THEN <<>>
                   ELSE IF s[k].part = "body" /\ s[k].frame \in Valid
                        THEN Append(f[k - 1], s[k].frame)
                        ELSE f[k - 1]]
<1>1. n \in Nat
  OBVIOUS
<1> HIDE DEF n
<1>2. ASSUME f = g
      PROVE  /\ f = [k \in 0 .. n |-> f[k]]
             /\ f[0] = <<>>
             /\ \A k \in 1 .. n : f[k] = After1(f[k - 1], s[k])
  <2>1. f = [k \in 0 .. n |-> g[k]]
    BY <1>2
  <2>2. g[0] = <<>>
    BY <1>1
  <2>3. ASSUME NEW k \in 1 .. n PROVE g[k] = After1(f[k - 1], s[k])
    BY <1>1 DEF After1
  <2> HIDE DEF g
  <2> QED BY <1>2, <2>1, <2>2, <2>3
<1>3. ASSUME f = [k \in 0 .. n |-> f[k]], f[0] = <<>>,
             \A k \in 1 .. n : f[k] = After1(f[k - 1], s[k])
      PROVE  f = g
  <2>1. ASSUME NEW k \in 0 .. n PROVE f[k] = g[k]
    <3>1. CASE k = 0
      BY <1>1, <1>3, <3>1
    <3>2. CASE k \in 1 .. n
      <4>1. f[k] = After1(f[k - 1], s[k])
        BY <1>3, <3>2
      <4> QED BY <1>1, <3>2, <4>1 DEF After1
    <3> QED BY <1>1, <3>1, <3>2
  <2>2. g = [k \in 0 .. n |-> g[k]]
    OBVIOUS
  <2> HIDE DEF g
  <2> QED BY <1>3, <2>1, <2>2
<1> QED BY <1>2, <1>3 DEF IsPicked, n

LEMMA AppendPiece ==
  ASSUME NEW s \in Seq(Pieces), NEW e \in Pieces
  PROVE  /\ Len(s) \in Nat
         /\ Append(s, e) \in Seq(Pieces)
         /\ Len(Append(s, e)) = Len(s) + 1
         /\ Append(s, e)[Len(s) + 1] = e
         /\ \A i \in 1 .. Len(s) : Append(s, e)[i] = s[i]
OBVIOUS

\* There is a walk over any pieces, built up from a prefix of them.
LEMMA PickedExists ==
  ASSUME NEW s \in Seq(Pieces)
  PROVE  \E f : IsPicked(f, s)
<1> DEFINE To(f, n) ==
             /\ f = [k \in 0 .. n |-> f[k]]
             /\ f[0] = <<>>
             /\ \A k \in 1 .. n : f[k] = After1(f[k - 1], s[k])
           Walked == {n \in Nat : \E f : To(f, n)}
<1>1. 0 \in Walked
  <2> DEFINE f == [k \in 0 .. 0 |-> <<>>]
  <2>1. To(f, 0)
    OBVIOUS
  <2> QED BY <2>1
<1>2. ASSUME NEW n \in Walked PROVE n + 1 \in Walked
  <2>1. PICK f : To(f, n)
    OBVIOUS
  <2> DEFINE g == [k \in 0 .. n + 1 |->
                      IF k = n + 1 THEN After1(f[n], s[n + 1]) ELSE f[k]]
  <2>2. n \in Nat
    OBVIOUS
  <2>3. g = [k \in 0 .. n + 1 |-> g[k]]
    OBVIOUS
  <2>4. g[0] = <<>>
    BY <2>1, <2>2
  <2>5. ASSUME NEW k \in 1 .. n + 1 PROVE g[k] = After1(g[k - 1], s[k])
    <3>1. CASE k = n + 1
      BY <2>2, <3>1
    <3>2. CASE k \in 1 .. n
      <4>1. g[k] = f[k] /\ g[k - 1] = f[k - 1]
        BY <2>2, <3>2
      <4> QED BY <2>1, <3>2, <4>1
    <3> QED BY <2>2, <3>1, <3>2
  <2> HIDE DEF g
  <2>6. To(g, n + 1)
    BY <2>3, <2>4, <2>5
  <2> QED BY SMTT(30), <2>2, <2>6
<1>3. Walked = Nat
  <2>1. Walked \in SUBSET Nat
    OBVIOUS
  <2> HIDE DEF Walked
  <2> QED BY <1>1, <1>2, <2>1, SetNatInduction
<1>4. Len(s) \in Nat
  OBVIOUS
<1>5. PICK f : To(f, Len(s))
  BY <1>3, <1>4
<1> QED BY <1>5, PickedAt

\* ... and only one, and it only depends on the pieces walked over.
LEMMA PickedUnique ==
  ASSUME NEW s \in Seq(Pieces), NEW t \in Seq(Pieces), NEW f, NEW g,
         IsPicked(f, s), IsPicked(g, t), Len(s) <= Len(t),
         \A i \in 1 .. Len(s) : s[i] = t[i]
  PROVE  \A k \in 0 .. Len(s) : f[k] = g[k]
<1> DEFINE Same == {k \in Nat : k <= Len(s) => f[k] = g[k]}
<1>1. /\ Len(s) \in Nat /\ Len(t) \in Nat
      /\ f[0] = <<>> /\ g[0] = <<>>
      /\ \A k \in 1 .. Len(s) : f[k] = After1(f[k - 1], s[k])
      /\ \A k \in 1 .. Len(t) : g[k] = After1(g[k - 1], t[k])
  BY PickedAt
<1>2. 0 \in Same
  BY <1>1
<1>3. ASSUME NEW k \in Same PROVE k + 1 \in Same
  <2> SUFFICES ASSUME k + 1 <= Len(s) PROVE f[k + 1] = g[k + 1]
    OBVIOUS
  <2>1. /\ k \in Nat /\ f[k] = g[k] /\ (k + 1) - 1 = k
        /\ k + 1 \in 1 .. Len(s) /\ k + 1 \in 1 .. Len(t)
    BY <1>1
  <2>2. f[k + 1] = After1(f[k], s[k + 1]) /\ g[k + 1] = After1(g[k], t[k + 1])
    BY <1>1, <2>1
  <2> QED BY <2>1, <2>2
<1>4. Same = Nat
  <2>1. Same \in SUBSET Nat
    OBVIOUS
  <2> HIDE DEF Same
  <2> QED BY <1>2, <1>3, <2>1, SetNatInduction
<1> QED BY SMTT(30), <1>1, <1>4

\* What ValidBodies computes, one piece at a time.
LEMMA ValidBodiesOf ==
  /\ ValidBodies(<<>>) = <<>>
  /\ \A s \in Seq(Pieces) : \A e \in Pieces :
        ValidBodies(Append(s, e)) = After1(ValidBodies(s), e)
<1>1. ASSUME NEW s \in Seq(Pieces)
      PROVE  \E f : IsPicked(f, s) /\ ValidBodies(s) = f[Len(s)]
  <2> DEFINE f == CHOOSE g : IsPicked(g, s)
  <2>1. IsPicked(f, s)
    BY PickedExists
  <2>2. ValidBodies(s) = f[Len(s)]
    BY ValidBodiesDef
  <2> HIDE DEF f
  <2> QED BY <2>1, <2>2
<1>2. ValidBodies(<<>>) = <<>>
  <2>1. <<>> \in Seq(Pieces) /\ Len(<<>>) = 0
    OBVIOUS
  <2>2. PICK f : IsPicked(f, <<>>) /\ ValidBodies(<<>>) = f[Len(<<>>)]
    BY <1>1, <2>1
  <2> QED BY <2>1, <2>2, PickedAt
<1>3. ASSUME NEW s \in Seq(Pieces), NEW e \in Pieces
      PROVE  ValidBodies(Append(s, e)) = After1(ValidBodies(s), e)
  <2> DEFINE t == Append(s, e)
  <2>1. /\ Len(s) \in Nat /\ t \in Seq(Pieces) /\ Len(t) = Len(s) + 1
        /\ t[Len(s) + 1] = e /\ \A i \in 1 .. Len(s) : t[i] = s[i]
    BY AppendPiece
  <2> HIDE DEF t
  <2>2. PICK f : IsPicked(f, s) /\ ValidBodies(s) = f[Len(s)]
    BY <1>1
  <2>3. PICK g : IsPicked(g, t) /\ ValidBodies(t) = g[Len(t)]
    BY <1>1, <2>1
  <2>4. f[Len(s)] = g[Len(s)]
    <3>1. \A k \in 0 .. Len(s) : f[k] = g[k]
      <4>1. Len(s) <= Len(t) /\ \A i \in 1 .. Len(s) : s[i] = t[i]
        BY <2>1
      <4> QED BY <2>1, <2>2, <2>3, <4>1, PickedUnique
    <3> QED BY <2>1, <3>1
  <2>5. g[Len(t)] = After1(g[Len(s)], e)
    <3>1. \A k \in 1 .. Len(t) : g[k] = After1(g[k - 1], t[k])
      BY <2>1, <2>3, PickedAt
    <3>2. Len(t) \in 1 .. Len(t) /\ Len(t) - 1 = Len(s) /\ t[Len(t)] = e
      BY <2>1
    <3> QED BY <3>1, <3>2
  <2> QED BY <2>2, <2>3, <2>4, <2>5 DEF t
<1> QED BY <1>2, <1>3

\* A set of sequences of pieces that holds the empty one and is closed under Append holds
\* them all.
LEMMA SetPieceInduction ==
  ASSUME NEW P \in SUBSET Seq(Pieces), <<>> \in P,
         \A s \in P : \A e \in Pieces : Append(s, e) \in P
  PROVE  P = Seq(Pieces)
<1> DEFINE Lengths == {n \in Nat : \A s \in Seq(Pieces) : Len(s) = n => s \in P}
<1>1. 0 \in Lengths
  <2>1. \A s \in Seq(Pieces) : Len(s) = 0 => s = <<>>
    OBVIOUS
  <2> QED BY <2>1
<1>2. ASSUME NEW n \in Lengths PROVE n + 1 \in Lengths
  <2> SUFFICES ASSUME NEW s \in Seq(Pieces), Len(s) = n + 1
               PROVE  s \in P
    OBVIOUS
  <2>1. s # <<>>
    OBVIOUS
  <2>2. PICK t \in Seq(Pieces), e \in Pieces : s = Append(t, e)
    BY <2>1, SequenceEmptyOrAppend
  <2>3. Len(t) = n
    BY <2>2, AppendPiece
  <2> QED BY <2>2, <2>3
<1>3. Lengths = Nat
  <2>1. Lengths \in SUBSET Nat
    OBVIOUS
  <2> HIDE DEF Lengths
  <2> QED BY <1>1, <1>2, <2>1, SetNatInduction
<1>4. ASSUME NEW s \in Seq(Pieces) PROVE s \in P
  <2>1. Len(s) \in Lengths
    BY <1>3
  <2> QED BY <2>1
<1> QED BY <1>4

LEMMA ValidBodiesType == \A s \in Seq(Pieces) : ValidBodies(s) \in Seq(Frames)
<1> DEFINE P == {s \in Seq(Pieces) : ValidBodies(s) \in Seq(Frames)}
<1>1. <<>> \in P
  <2>1. <<>> \in Seq(Pieces) /\ <<>> \in Seq(Frames)
    OBVIOUS
  <2> QED BY <2>1, ValidBodiesOf
<1>2. ASSUME NEW s \in P, NEW e \in Pieces PROVE Append(s, e) \in P
  <2>1. ValidBodies(s) \in Seq(Frames) /\ e.frame \in Frames
    BY DEF Pieces
  <2>2. After1(ValidBodies(s), e) \in Seq(Frames)
    BY <2>1 DEF After1
  <2> QED BY <2>2, AppendPiece, ValidBodiesOf
<1>3. P = Seq(Pieces)
  <2>1. P \in SUBSET Seq(Pieces)
    OBVIOUS
  <2> HIDE DEF P
  <2> QED BY <1>1, <1>2, <2>1, SetPieceInduction
<1> QED BY <1>3

\* The valid bodies of two stretches of the stream, one after the other.
LEMMA ValidBodiesConcat ==
  ASSUME NEW s \in Seq(Pieces)
  PROVE  \A t \in Seq(Pieces) :
            ValidBodies(s \o t) = ValidBodies(s) \o ValidBodies(t)
<1> DEFINE P == {t \in Seq(Pieces) :
                   ValidBodies(s \o t) = ValidBodies(s) \o ValidBodies(t)}
<1>1. <<>> \in P
  <2>1. s \o <<>> = s /\ <<>> \in Seq(Pieces)
    BY ConcatEmptySeq
  <2>2. ValidBodies(s) \o <<>> = ValidBodies(s)
    BY ValidBodiesType, ConcatEmptySeq
  <2> QED BY <2>1, <2>2, ValidBodiesOf
<1>2. ASSUME NEW t \in P, NEW e \in Pieces PROVE Append(t, e) \in P
  <2> DEFINE v == ValidBodies(s)
             w == ValidBodies(t)
  <2>1. t \in Seq(Pieces) /\ Append(t, e) \in Seq(Pieces) /\ s \o t \in Seq(Pieces)
    BY AppendPiece, ConcatProperties
  <2>2. s \o Append(t, e) = Append(s \o t, e)
    <3>1. <<e>> \in Seq(Pieces)
      OBVIOUS
    <3>2. Append(t, e) = t \o <<e>> /\ Append(s \o t, e) = (s \o t) \o <<e>>
      BY <2>1, AppendIsConcat
    <3> QED BY <2>1, <3>1, <3>2, ConcatAssociative
  <2>3. ValidBodies(s \o Append(t, e)) = After1(v \o w, e)
    BY <2>1, <2>2, ValidBodiesOf
  <2>4. ValidBodies(Append(t, e)) = After1(w, e)
    BY <2>1, ValidBodiesOf
  <2>5. v \in Seq(Frames) /\ w \in Seq(Frames) /\ e.frame \in Frames
    BY <2>1, ValidBodiesType DEF Pieces
  <2> HIDE DEF v, w
  <2>6. After1(v \o w, e) = v \o After1(w, e)
    <3>1. ASSUME NEW f \in Frames PROVE Append(v \o w, f) = v \o Append(w, f)
      <4>1. v \o w \in Seq(Frames) /\ <<f>> \in Seq(Frames)
        BY <2>5, ConcatProperties
      <4>2. Append(w, f) = w \o <<f>> /\ Append(v \o w, f) = (v \o w) \o <<f>>
        BY <2>5, <4>1, AppendIsConcat
      <4> QED BY SMTT(30), <2>5, <4>1, <4>2, ConcatAssociative
    <3> QED BY <2>5, <3>1 DEF After1
  <2> QED BY <2>1, <2>3, <2>4, <2>6 DEF v
<1>3. P = Seq(Pieces)
  <2>1. P \in SUBSET Seq(Pieces)
    OBVIOUS
  <2> HIDE DEF P
  <2> QED BY <1>1, <1>2, <2>1, SetPieceInduction
<1> QED BY <1>3

-----------------------------------------------------------------------------
(* What is on its way is whole frames: a head, its body, and so on. *)

Framed(s) ==
    \A j \in Nat : 2 * j < Len(s) =>
        /\ 2 * j + 2 <= Len(s)
        /\ s[2 * j + 1].part = "head" /\ s[2 * j + 2].part = "body"
        /\ s[2 * j + 1].frame = s[2 * j + 2].frame

LEMMA WireFacts ==
  ASSUME NEW f \in Frames
  PROVE  /\ Wire(f) \in Seq(Pieces) /\ Len(Wire(f)) = 2
         /\ Wire(f)[1] = [frame |-> f, part |-> "head"]
         /\ Wire(f)[2] = [frame |-> f, part |-> "body"]
         /\ Wire(f)[1] \in Pieces /\ Wire(f)[2] \in Pieces
BY DEF Wire, Pieces

LEMMA FramedEven ==
  ASSUME NEW s \in Seq(Pieces), Framed(s)
  PROVE  \E n \in Nat : Len(s) = 2 * n
<1>1. Len(s) \in Nat
  OBVIOUS
<1>2. PICK n \in Nat : Len(s) = 2 * n \/ Len(s) = 2 * n + 1
  <2> DEFINE P == {l \in Nat : \E n \in Nat : l = 2 * n \/ l = 2 * n + 1}
  <2>1. 0 \in P
    OBVIOUS
  <2>2. ASSUME NEW l \in P PROVE l + 1 \in P
    <3>1. PICK n \in Nat : l = 2 * n \/ l = 2 * n + 1
      OBVIOUS
    <3>2. CASE l = 2 * n
      BY <3>2
    <3>3. CASE l = 2 * n + 1
      <4>1. l + 1 = 2 * (n + 1) /\ n + 1 \in Nat /\ l + 1 \in Nat
        BY <3>3
      <4>2. \E m \in Nat : l + 1 = 2 * m \/ l + 1 = 2 * m + 1
        BY <4>1
      <4> QED BY <4>1, <4>2
    <3> QED BY <3>1, <3>2, <3>3
  <2>3. P = Nat
    <3>1. P \in SUBSET Nat
      OBVIOUS
    <3> HIDE DEF P
    <3> QED BY <2>1, <2>2, <3>1, SetNatInduction
  <2> QED BY <1>1, <2>3
<1>3. ~(2 * n < Len(s) /\ Len(s) = 2 * n + 1)
  BY DEF Framed
<1> QED BY <1>2, <1>3

\* A frame more at the end.
LEMMA FramedWritten ==
  ASSUME NEW s \in Seq(Pieces), Framed(s), NEW f \in Frames
  PROVE  s \o Wire(f) \in Seq(Pieces) /\ Framed(s \o Wire(f))
<1> DEFINE t == s \o Wire(f)
<1>1. PICK n \in Nat : Len(s) = 2 * n
  BY FramedEven
<1>2. /\ t \in Seq(Pieces) /\ Len(t) = 2 * n + 2
      /\ \A i \in 1 .. 2 * n + 2 : t[i] = IF i <= 2 * n THEN s[i] ELSE Wire(f)[i - 2 * n]
  <2>1. Wire(f) \in Seq(Pieces) /\ Len(Wire(f)) = 2
    BY WireFacts
  <2>2. /\ t \in Seq(Pieces) /\ Len(t) = Len(s) + Len(Wire(f))
        /\ \A i \in 1 .. Len(s) + Len(Wire(f)) :
              t[i] = IF i <= Len(s) THEN s[i] ELSE Wire(f)[i - Len(s)]
    BY <2>1, ConcatProperties
  <2> HIDE DEF t
  <2> QED BY <1>1, <2>1, <2>2
<1> HIDE DEF t
<1>3. ASSUME NEW j \in Nat, 2 * j < Len(t)
      PROVE  /\ 2 * j + 2 <= Len(t)
             /\ t[2 * j + 1].part = "head" /\ t[2 * j + 2].part = "body"
             /\ t[2 * j + 1].frame = t[2 * j + 2].frame
  <2>1. CASE j < n
    <3>1. /\ t[2 * j + 1] = s[2 * j + 1] /\ t[2 * j + 2] = s[2 * j + 2]
          /\ 2 * j < Len(s)
      BY <1>1, <1>2, <2>1
    <3> QED BY <1>1, <1>2, <3>1 DEF Framed
  <2>2. CASE j = n
    <3>1. t[2 * j + 1] = Wire(f)[1] /\ t[2 * j + 2] = Wire(f)[2]
      BY <1>1, <1>2, <2>2
    <3>2. /\ Wire(f)[1].part = "head" /\ Wire(f)[2].part = "body"
          /\ Wire(f)[1].frame = Wire(f)[2].frame
      <4>1. /\ Wire(f)[1] = [frame |-> f, part |-> "head"]
            /\ Wire(f)[2] = [frame |-> f, part |-> "body"]
        BY WireFacts
      <4> QED BY <4>1
    <3> QED BY <1>2, <2>2, <3>1, <3>2
  <2> QED BY <1>1, <1>2, <1>3, <2>1, <2>2
<1> QED BY <1>2, <1>3 DEF Framed, t

\* Whole frames taken from the front.
LEMMA FramedTaken ==
  ASSUME NEW s \in Seq(Pieces), Framed(s), NEW m \in Nat, 2 * m <= Len(s)
  PROVE  /\ SubSeq(s, 2 * m + 1, Len(s)) \in Seq(Pieces)
         /\ Framed(SubSeq(s, 2 * m + 1, Len(s)))
<1> DEFINE t == SubSeq(s, 2 * m + 1, Len(s))
<1>1. /\ t \in Seq(Pieces) /\ Len(t) = Len(s) - 2 * m /\ Len(s) \in Nat
      /\ \A i \in 1 .. Len(s) - 2 * m : t[i] = s[2 * m + i]
  OBVIOUS
<1> HIDE DEF t
<1>2. ASSUME NEW j \in Nat, 2 * j < Len(t)
      PROVE  /\ 2 * j + 2 <= Len(t)
             /\ t[2 * j + 1].part = "head" /\ t[2 * j + 2].part = "body"
             /\ t[2 * j + 1].frame = t[2 * j + 2].frame
  <2>1. m + j \in Nat /\ 2 * (m + j) < Len(s) /\ 2 * (m + j) = 2 * m + 2 * j
    BY <1>1, <1>2
  <2>2. /\ 2 * (m + j) + 2 <= Len(s)
        /\ s[2 * (m + j) + 1].part = "head" /\ s[2 * (m + j) + 2].part = "body"
        /\ s[2 * (m + j) + 1].frame = s[2 * (m + j) + 2].frame
    BY <2>1 DEF Framed
  <2>3. 2 * j + 1 \in 1 .. Len(s) - 2 * m /\ 2 * j + 2 \in 1 .. Len(s) - 2 * m
    BY <1>1, <2>1, <2>2
  <2>4. /\ t[2 * j + 1] = s[2 * m + (2 * j + 1)] /\ t[2 * j + 2] = s[2 * m + (2 * j + 2)]
        /\ 2 * m + (2 * j + 1) = 2 * (m + j) + 1
        /\ 2 * m + (2 * j + 2) = 2 * (m + j) + 2
    BY <1>1, <2>3
  <2> QED BY <1>1, <2>2, <2>3, <2>4
<1> QED BY <1>1, <1>2 DEF Framed, t

LEMMA StreamType ==
  /\ Stream(<<>>) = <<>>
  /\ \A w \in Seq(Frames) : Stream(w) \in Seq(Pieces) /\ Len(Stream(w)) = 2 * Len(w)
<1>1. Stream(<<>>) = <<>>
  BY DEF Stream
<1>2. ASSUME NEW w \in Seq(Frames)
      PROVE  Stream(w) \in Seq(Pieces) /\ Len(Stream(w)) = 2 * Len(w)
  <2>1. Len(w) \in Nat
    OBVIOUS
  <2>2. ASSUME NEW i \in 1 .. 2 * Len(w)
        PROVE  Wire(w[(i + 1) \div 2])[2 - (i % 2)] \in Pieces
    <3>1. (i + 1) \div 2 \in 1 .. Len(w) /\ 2 - (i % 2) \in {1, 2}
      BY <2>1
    <3>2. w[(i + 1) \div 2] \in Frames
      BY <3>1
    <3> QED BY <3>1, <3>2, WireFacts
  <2> QED BY <2>1, <2>2 DEF Stream
<1> QED BY <1>1, <1>2

LEMMA StreamWritten ==
  ASSUME NEW w \in Seq(Frames), NEW f \in Frames
  PROVE  Stream(Append(w, f)) = Stream(w) \o Wire(f)
<1> DEFINE n == Len(w)
           v == Append(w, f)
           l == Stream(v)
           r == Stream(w) \o Wire(f)
<1>1. /\ n \in Nat /\ v \in Seq(Frames) /\ Len(v) = n + 1 /\ v[n + 1] = f
      /\ \A i \in 1 .. n : v[i] = w[i]
  BY AppendProperties
<1>2. l \in Seq(Pieces) /\ Len(l) = 2 * n + 2
  <2> HIDE DEF v, n
  <2> QED BY <1>1, StreamType
<1>3. /\ r \in Seq(Pieces) /\ Len(r) = 2 * n + 2
      /\ \A i \in 1 .. 2 * n + 2 :
            r[i] = IF i <= 2 * n THEN Stream(w)[i] ELSE Wire(f)[i - 2 * n]
  <2>1. Wire(f) \in Seq(Pieces) /\ Len(Wire(f)) = 2
    BY WireFacts
  <2>2. Stream(w) \in Seq(Pieces) /\ Len(Stream(w)) = 2 * n
    BY StreamType
  <2>3. /\ r \in Seq(Pieces) /\ Len(r) = Len(Stream(w)) + Len(Wire(f))
        /\ \A i \in 1 .. Len(Stream(w)) + Len(Wire(f)) :
              r[i] = IF i <= Len(Stream(w)) THEN Stream(w)[i]
                     ELSE Wire(f)[i - Len(Stream(w))]
    BY <2>1, <2>2, ConcatProperties
  <2> HIDE DEF r, n
  <2> QED BY <1>1, <2>1, <2>2, <2>3
<1>4. ASSUME NEW i \in 1 .. 2 * n + 2 PROVE l[i] = r[i]
  <2>1. l[i] = Wire(v[(i + 1) \div 2])[2 - (i % 2)]
    BY <1>1 DEF Stream
  <2>2. CASE i <= 2 * n
    <3>1. (i + 1) \div 2 \in 1 .. n
      BY <1>1, <2>2
    <3>2. Stream(w)[i] = Wire(w[(i + 1) \div 2])[2 - (i % 2)]
      BY <1>1, <2>2 DEF Stream
    <3>3. v[(i + 1) \div 2] = w[(i + 1) \div 2]
      BY <1>1, <3>1
    <3>4. r[i] = Stream(w)[i]
      BY <1>3, <2>2
    <3> HIDE DEF l, r
    <3> QED BY <2>1, <3>2, <3>3, <3>4
  <2>3. CASE i = 2 * n + 1
    <3>1. (i + 1) \div 2 = n + 1 /\ 2 - (i % 2) = 1 /\ i - 2 * n = 1
      BY <1>1, <2>3
    <3> HIDE DEF l, r
    <3> QED BY <1>1, <1>3, <2>1, <2>3, <3>1
  <2>4. CASE i = 2 * n + 2
    <3>1. (i + 1) \div 2 = n + 1 /\ 2 - (i % 2) = 2 /\ i - 2 * n = 2
      BY <1>1, <2>4
    <3> HIDE DEF l, r
    <3> QED BY <1>1, <1>3, <2>1, <2>4, <3>1
  <2>5. i <= 2 * n \/ i = 2 * n + 1 \/ i = 2 * n + 2
    BY <1>1
  <2> HIDE DEF l, r, n
  <2> QED BY <2>2, <2>3, <2>4, <2>5
<1> HIDE DEF l, r
<1>5. l = r
  BY <1>1, <1>2, <1>3, <1>4, SeqEqual
<1> QED BY <1>5 DEF l, r

-----------------------------------------------------------------------------
(* The loop of onReadyRead. *)

LEMMA AfterFacts ==
  ASSUME NEW b \in Seq(Pieces), NEW k \in Nat
  PROVE  /\ After(b, k) \in Seq(Pieces)
         /\ 2 * k <= Len(b) =>
               /\ Len(After(b, k)) = Len(b) - 2 * k
               /\ \A i \in 1 .. Len(b) - 2 * k : After(b, k)[i] = b[2 * k + i]
         /\ 2 * k > Len(b) => Len(After(b, k)) = 0
<1>1. 2 * k + 1 \in Nat /\ 2 * k + 1 > 0 /\ Len(b) \in Nat
  OBVIOUS
<1>2. After(b, k) \in Seq(Pieces)
  BY <1>1 DEF After
<1>3. ASSUME 2 * k <= Len(b)
      PROVE  /\ Len(After(b, k)) = Len(b) - 2 * k
             /\ \A i \in 1 .. Len(b) - 2 * k : After(b, k)[i] = b[2 * k + i]
  <2> DEFINE j == 2 * k
  <2>1. j \in Nat /\ j <= Len(b)
    BY <1>3
  <2> HIDE DEF j
  <2>2. After(b, k) = SubSeq(b, j + 1, Len(b))
    BY DEF After, j
  <2>3. /\ Len(SubSeq(b, j + 1, Len(b))) = Len(b) - j
        /\ \A i \in 1 .. Len(b) - j : SubSeq(b, j + 1, Len(b))[i] = b[j + i]
    BY <1>1, <2>1
  <2> QED BY <2>2, <2>3 DEF j
<1>4. ASSUME 2 * k > Len(b) PROVE Len(After(b, k)) = 0
  BY <1>1, <1>4 DEF After
<1> QED BY <1>2, <1>3, <1>4

\* The loop ends: there is a first call that returns false.
LEMMA LoopEnds ==
  ASSUME NEW b \in Seq(Pieces)
  PROVE  /\ Loops(b) \in 0 .. Len(b)
         /\ Run(b, Loops(b)) /\ ~Extracts(After(b, Loops(b)))
<1> DEFINE N == {k \in 0 .. Len(b) : ~Extracts(After(b, k))}
<1>1. Len(b) \in Nat
  OBVIOUS
<1>2. Len(b) \in N
  <2>1. Len(After(b, Len(b))) = 0
    BY <1>1, AfterFacts
  <2> QED BY <1>1, <2>1 DEF Extracts, Complete
<1>3. PICK k \in N : \A i \in N : k <= i
  <2>1. N \in SUBSET Nat /\ N # {}
    BY <1>2
  <2> HIDE DEF N
  <2> QED BY <2>1, LeastNumber
<1>4. Run(b, k)
  <2> SUFFICES ASSUME NEW i \in 0 .. k - 1 PROVE Extracts(After(b, i))
    BY DEF Run
  <2>1. i \in 0 .. Len(b) /\ ~(k <= i)
    BY <1>1
  <2> QED BY <1>3, <2>1
<1>5. k \in 0 .. Len(b) /\ Run(b, k) /\ ~Extracts(After(b, k))
  BY <1>4
<1> HIDE DEF N
<1> QED BY <1>5 DEF Loops

\* What the loop dispatches is the valid bodies of the whole frames it takes.
LEMMA LoopDispatches ==
  ASSUME NEW b \in Seq(Pieces), NEW rest \in Seq(Pieces), Framed(b \o rest)
  PROVE  \E m \in Nat :
            /\ 2 * m <= Len(b)
            /\ Rest(After(b, Loops(b))) = SubSeq(b, 2 * m + 1, Len(b))
            /\ Requests(b) = ValidBodies(SubSeq(b, 1, 2 * m))
<1> DEFINE n == Loops(b)
           A(k) == After(b, k)
           F(k) == SubSeq(b, 1, 2 * k)
           R(k) == [i \in 1 .. k |-> Body(A(i - 1))]
<1>1. n \in 0 .. Len(b) /\ Run(b, n) /\ ~Extracts(A(n)) /\ Len(b) \in Nat
  BY LoopEnds
<1>2. ASSUME NEW k \in Nat, Complete(A(k))
      PROVE  2 * k + 2 <= Len(b) /\ A(k)[1] = b[2 * k + 1] /\ A(k)[2] = b[2 * k + 2]
  <2>1. Len(A(k)) >= 2
    BY <1>2 DEF Complete
  <2>2. 2 * k <= Len(b)
    BY <1>1, <2>1, AfterFacts
  <2>3. /\ Len(A(k)) = Len(b) - 2 * k
        /\ \A i \in 1 .. Len(b) - 2 * k : A(k)[i] = b[2 * k + i]
    BY <2>2, AfterFacts
  <2> HIDE DEF A
  <2> QED BY <1>1, <2>1, <2>3
<1>3. ASSUME NEW k \in Nat, 2 * k + 2 <= Len(b)
      PROVE  /\ b[2 * k + 1] \in Pieces /\ b[2 * k + 2] \in Pieces
             /\ b[2 * k + 1].part = "head" /\ b[2 * k + 2].part = "body"
             /\ b[2 * k + 1].frame = b[2 * k + 2].frame
  <2>1. 2 * k + 1 \in 1 .. Len(b) /\ 2 * k + 2 \in 1 .. Len(b)
    BY <1>1, <1>3
  <2>2. /\ Len(b \o rest) = Len(b) + Len(rest) /\ Len(rest) \in Nat
        /\ (b \o rest)[2 * k + 1] = b[2 * k + 1]
        /\ (b \o rest)[2 * k + 2] = b[2 * k + 2]
    BY <1>1, <2>1, ConcatProperties
  <2>3. 2 * k < Len(b \o rest)
    BY <1>1, <1>3, <2>2
  <2> QED BY <2>1, <2>2, <2>3 DEF Framed
<1>4. ASSUME NEW k \in Nat, 2 * k + 2 <= Len(b)
      PROVE  ValidBodies(F(k + 1)) =
                IF b[2 * k + 2].frame \in Valid
                THEN Append(ValidBodies(F(k)), b[2 * k + 2].frame)
                ELSE ValidBodies(F(k))
  <2> DEFINE x == b[2 * k + 1]
             y == b[2 * k + 2]
  <2>1. x \in Pieces /\ y \in Pieces /\ x.part = "head" /\ y.part = "body"
    BY <1>3, <1>4
  <2>2. F(k) \in Seq(Pieces) /\ Append(F(k), x) \in Seq(Pieces)
    <3>1. F(k) \in Seq(Pieces)
      BY <1>1, <1>4
    <3> HIDE DEF F
    <3> QED BY <2>1, <3>1, AppendPiece
  <2>3. F(k + 1) = Append(Append(F(k), x), y)
    <3> DEFINE u == F(k + 1)
               v == Append(Append(F(k), x), y)
    <3>1. /\ F(k) \in Seq(Pieces) /\ Len(F(k)) = 2 * k
          /\ \A i \in 1 .. 2 * k : F(k)[i] = b[i]
      BY <1>1, <1>4
    <3>2. /\ u \in Seq(Pieces) /\ Len(u) = 2 * k + 2
          /\ \A i \in 1 .. 2 * k + 2 : u[i] = b[i]
      BY <1>1, <1>4
    <3>3. /\ v \in Seq(Pieces) /\ Len(v) = 2 * k + 2
          /\ v[2 * k + 2] = y /\ v[2 * k + 1] = x
          /\ \A i \in 1 .. 2 * k : v[i] = F(k)[i]
      <4> HIDE DEF F, x, y
      <4> DEFINE z == Append(F(k), x)
      <4>1. /\ z \in Seq(Pieces) /\ Len(z) = 2 * k + 1 /\ z[2 * k + 1] = x
            /\ \A i \in 1 .. 2 * k : z[i] = F(k)[i]
        BY <2>1, <3>1, AppendPiece
      <4> HIDE DEF z
      <4>2. /\ Append(z, y) \in Seq(Pieces) /\ Len(Append(z, y)) = 2 * k + 2
            /\ Append(z, y)[2 * k + 2] = y
            /\ \A i \in 1 .. 2 * k + 1 : Append(z, y)[i] = z[i]
        BY <2>1, <4>1, AppendPiece
      <4> QED BY <4>1, <4>2 DEF z
    <3>4. ASSUME NEW i \in 1 .. 2 * k + 2 PROVE u[i] = v[i]
      <4> HIDE DEF u, v, F
      <4>1. CASE i \in 1 .. 2 * k
        BY <3>1, <3>2, <3>3, <4>1
      <4>2. CASE i = 2 * k + 1
        BY <3>2, <3>3, <4>2
      <4>3. CASE i = 2 * k + 2
        BY <3>2, <3>3, <4>3
      <4> QED BY <4>1, <4>2, <4>3
    <3> HIDE DEF u, v
    <3>5. u = v
      BY <3>2, <3>3, <3>4, SeqEqual
    <3> QED BY <3>5 DEF u, v
  <2> HIDE DEF F, x, y
  <2>4. ValidBodies(Append(F(k), x)) = ValidBodies(F(k))
    BY <2>1, <2>2, ValidBodiesOf DEF After1
  <2>5. ValidBodies(F(k + 1)) = After1(ValidBodies(F(k)), y)
    BY <2>1, <2>2, <2>3, <2>4, ValidBodiesOf
  <2> QED BY <2>1, <2>5 DEF After1, y
<1>5. ASSUME NEW k \in Nat, k <= n PROVE ValidBodies(F(k)) = R(k)
  <2> DEFINE P == {l \in Nat : l <= n => ValidBodies(F(l)) = R(l)}
  <2>1. 0 \in P
    <3>1. F(0) = <<>> /\ R(0) = <<>>
      OBVIOUS
    <3> QED BY <3>1, ValidBodiesOf
  <2>2. ASSUME NEW l \in P PROVE l + 1 \in P
    <3> SUFFICES ASSUME l + 1 <= n PROVE ValidBodies(F(l + 1)) = R(l + 1)
      OBVIOUS
    <3>1. l \in Nat /\ l \in 0 .. n - 1 /\ ValidBodies(F(l)) = R(l)
      BY <1>1
    <3>2. Extracts(A(l))
      BY <1>1, <3>1 DEF Run
    <3>3. Complete(A(l)) /\ A(l)[2].frame \in Valid
      BY <3>2 DEF Extracts, Body
    <3>4. 2 * l + 2 <= Len(b) /\ A(l)[2] = b[2 * l + 2]
      BY <1>2, <3>1, <3>3
    <3> DEFINE v == A(l)[2].frame
    <3>5. ValidBodies(F(l + 1)) = Append(R(l), v)
      BY <1>4, <3>1, <3>3, <3>4
    <3>6. Append(R(l), v) = R(l + 1)
      <4> DEFINE B(i) == Body(A(i - 1))
      <4>1. B(l + 1) = v
        BY <3>1 DEF Body
      <4> HIDE DEF A, v, B
      <4>2. Append([i \in 1 .. l |-> B(i)], B(l + 1)) = [i \in 1 .. l + 1 |-> B(i)]
        BY <3>1
      <4> QED BY <4>1, <4>2 DEF B
    <3> QED BY <3>5, <3>6
  <2>3. P = Nat
    <3>1. P \in SUBSET Nat
      OBVIOUS
    <3> HIDE DEF P
    <3> QED BY <2>1, <2>2, <3>1, SetNatInduction
  <2>4. k \in P
    BY <2>3
  <2> QED BY <1>5, <2>4
<1>6. Requests(b) = ValidBodies(F(n))
  <2>1. Requests(b) = R(n)
    BY DEF Requests
  <2> QED BY <1>1, <1>5, <2>1
<1>7. 2 * n <= Len(b)
  <2>1. CASE n = 0
    BY <1>1, <2>1
  <2>2. CASE n # 0
    <3>1. n - 1 \in Nat /\ n - 1 \in 0 .. n - 1
      BY <1>1, <2>2
    <3>2. Complete(A(n - 1))
      BY <1>1, <3>1 DEF Run, Extracts
    <3>3. 2 * (n - 1) + 2 <= Len(b)
      BY <1>2, <3>1, <3>2
    <3> QED BY <1>1, <3>3
  <2> QED BY <2>1, <2>2
<1>8. CASE Complete(A(n))
  <2>1. 2 * n + 2 <= Len(b) /\ A(n)[2] = b[2 * n + 2] /\ n \in Nat
    BY <1>1, <1>2, <1>8
  <2>2. b[2 * n + 2].frame \notin Valid
    BY <1>1, <1>8, <2>1 DEF Extracts, Body
  <2>3. ValidBodies(F(n + 1)) = ValidBodies(F(n))
    BY <1>4, <2>1, <2>2
  <2>4. Rest(A(n)) = SubSeq(b, 2 * (n + 1) + 1, Len(b))
    <3> DEFINE u == Rest(A(n))
               v == SubSeq(b, 2 * (n + 1) + 1, Len(b))
    <3>1. /\ A(n) \in Seq(Pieces) /\ Len(A(n)) = Len(b) - 2 * n
          /\ \A i \in 1 .. Len(b) - 2 * n : A(n)[i] = b[2 * n + i]
      BY <1>7, <2>1, AfterFacts
    <3>2. /\ u \in Seq(Pieces) /\ Len(u) = Len(b) - 2 * n - 2
          /\ \A i \in 1 .. Len(b) - 2 * n - 2 : u[i] = A(n)[i + 2]
      <4> HIDE DEF A
      <4>1. u = SubSeq(A(n), 3, Len(A(n)))
        BY <1>8 DEF Rest
      <4> HIDE DEF u
      <4> QED BY <1>1, <2>1, <3>1, <4>1
    <3>3. /\ v \in Seq(Pieces) /\ Len(v) = Len(b) - 2 * n - 2
          /\ \A i \in 1 .. Len(b) - 2 * n - 2 : v[i] = b[2 * n + 2 + i]
      <4> DEFINE c == 2 * n + 3
      <4>1. v = SubSeq(b, c, Len(b))
        <5>1. 2 * (n + 1) + 1 = c
          BY <2>1
        <5> HIDE DEF n, c
        <5> QED BY <5>1
      <4>2. c \in 1 .. Len(b) + 1
        BY <1>1, <2>1
      <4> HIDE DEF n, v, c
      <4>3. /\ v \in Seq(Pieces) /\ Len(v) = Len(b) - c + 1
            /\ \A i \in 1 .. Len(b) - c + 1 : v[i] = b[c + i - 1]
        BY <1>1, <4>1, <4>2
      <4> QED BY <1>1, <2>1, <4>3 DEF c
    <3>4. ASSUME NEW i \in 1 .. Len(b) - 2 * n - 2 PROVE u[i] = v[i]
      <4>1. i + 2 \in 1 .. Len(b) - 2 * n /\ 2 * n + (i + 2) = 2 * n + 2 + i
        BY <1>1, <2>1
      <4>2. u[i] = A(n)[i + 2] /\ A(n)[i + 2] = b[2 * n + (i + 2)] /\ v[i] = b[2 * n + 2 + i]
        BY <3>1, <3>2, <3>3, <4>1
      <4> QED BY <4>1, <4>2
    <3> HIDE DEF u, v, n, A
    <3>5. u = v
      BY <1>1, <2>1, <3>2, <3>3, <3>4, SeqEqual
    <3> QED BY <3>5 DEF u, v
  <2>5. n + 1 \in Nat /\ 2 * (n + 1) <= Len(b)
    BY <2>1
  <2>6. Requests(b) = ValidBodies(SubSeq(b, 1, 2 * (n + 1)))
    BY <1>6, <2>3
  <2> QED BY <2>4, <2>5, <2>6
<1>9. CASE ~Complete(A(n))
  <2>1. Rest(A(n)) = SubSeq(b, 2 * n + 1, Len(b)) /\ n \in Nat
    BY SMTT(30), <1>1, <1>9 DEF Rest, After
  <2> QED BY <1>6, <1>7, <2>1
<1> QED BY <1>8, <1>9

-----------------------------------------------------------------------------
(* Stretches of the stream. *)

LEMMA ConcatFrames ==
  \A s, t, u \in Seq(Frames) :
      s \o t \in Seq(Frames) /\ (s \o t) \o u = s \o (t \o u)
BY SMTT(30), ConcatProperties, ConcatAssociative

LEMMA ConcatPieces ==
  \A s, t \in Seq(Pieces) :
      /\ s \o t \in Seq(Pieces) /\ Len(s \o t) = Len(s) + Len(t)
      /\ Len(s) \in Nat /\ Len(t) \in Nat
      /\ \A i \in 1 .. Len(s) : (s \o t)[i] = s[i]
      /\ \A i \in 1 .. Len(t) : (s \o t)[Len(s) + i] = t[i]
OBVIOUS

LEMMA ConcatThree ==
  \A s, t, u \in Seq(Pieces) : (s \o t) \o u = s \o (t \o u)
BY ConcatAssociative

\* Cut after k pieces.
LEMMA Cut ==
  ASSUME NEW b \in Seq(Pieces), NEW k \in Nat, k <= Len(b)
  PROVE  /\ SubSeq(b, 1, k) \in Seq(Pieces) /\ SubSeq(b, k + 1, Len(b)) \in Seq(Pieces)
         /\ Len(b) \in Nat /\ Len(SubSeq(b, 1, k)) = k
         /\ Len(SubSeq(b, k + 1, Len(b))) = Len(b) - k
         /\ \A i \in 1 .. Len(b) - k : SubSeq(b, k + 1, Len(b))[i] = b[k + i]
         /\ SubSeq(b, 1, k) \o SubSeq(b, k + 1, Len(b)) = b
<1> DEFINE x == SubSeq(b, 1, k)
           y == SubSeq(b, k + 1, Len(b))
<1>1. /\ x \in Seq(Pieces) /\ y \in Seq(Pieces) /\ Len(b) \in Nat
      /\ Len(x) = k /\ Len(y) = Len(b) - k
      /\ \A i \in 1 .. k : x[i] = b[i]
      /\ \A i \in 1 .. Len(b) - k : y[i] = b[k + i]
  OBVIOUS
<1> HIDE DEF x, y
<1>2. /\ x \o y \in Seq(Pieces) /\ Len(x \o y) = Len(b)
      /\ \A i \in 1 .. k : (x \o y)[i] = x[i]
      /\ \A i \in 1 .. Len(b) - k : (x \o y)[k + i] = y[i]
  BY <1>1, ConcatPieces
<1>3. ASSUME NEW i \in 1 .. Len(b) PROVE (x \o y)[i] = b[i]
  <2>1. CASE i \in 1 .. k
    BY <1>1, <1>2, <2>1
  <2>2. CASE i > k
    <3>1. i - k \in 1 .. Len(b) - k /\ k + (i - k) = i
      BY <1>1, <2>2
    <3>2. (x \o y)[k + (i - k)] = y[i - k] /\ y[i - k] = b[k + (i - k)]
      BY <1>1, <1>2, <3>1
    <3> QED BY <3>1, <3>2
  <2> QED BY <1>1, <2>1, <2>2
<1>4. x \o y = b
  BY <1>2, <1>3, SeqEqual
<1> QED BY <1>1, <1>4 DEF x, y

-----------------------------------------------------------------------------
(* The inductive invariant.  What is on its way to an open connection is     *)
(* whole frames, so the loop, which takes whole frames, never loses its      *)
(* place in the stream; and they are frames that the client has written.     *)

TcpType ==
    /\ nextClientId \in Nat /\ clients \subseteq Fds
    /\ buffers \in [Fds -> Seq(Pieces)] /\ wire \in [Fds -> Seq(Pieces)]
    /\ dispatched \in [Fds -> Seq(Frames)] /\ written \in [Fds -> Seq(Frames)]
    /\ peer \in [Fds -> {"there", "closing", "gone"}]

\* A connection starts with nothing sent, received or dispatched.
Unused ==
    \A fd \in Fds : fd >= nextClientId =>
        /\ buffers[fd] = <<>> /\ wire[fd] = <<>> /\ dispatched[fd] = <<>>
        /\ written[fd] = <<>> /\ peer[fd] = "gone"

Opened == \A fd \in clients : fd < nextClientId

Pending(fd) == buffers[fd] \o wire[fd]

FromClient(fd) ==
    \A i \in 1 .. Len(Pending(fd)) :
        \E j \in 1 .. Len(written[fd]) : Pending(fd)[i].frame = written[fd][j]

InOrder(fd) ==
    dispatched[fd] \o ValidBodies(Pending(fd)) = ValidBodies(Stream(written[fd]))

NoneLeft(fd) ==
    (\A i \in DOMAIN written[fd] : written[fd][i] \notin Malformed)
        => ~Extracts(buffers[fd])

StreamInv(fd) ==
    Framed(Pending(fd)) /\ FromClient(fd) /\ InOrder(fd) /\ NoneLeft(fd)

TcpInv ==
    TcpType /\ Unused /\ Opened /\ \A fd \in clients : StreamInv(fd)

\* A connection nothing happens to.
LEMMA StreamStays ==
  ASSUME NEW fd \in Fds, StreamInv(fd),
         buffers'[fd] = buffers[fd], wire'[fd] = wire[fd],
         dispatched'[fd] = dispatched[fd], written'[fd] = written[fd]
  PROVE  StreamInv(fd)'
BY DEF StreamInv, Pending, FromClient, InOrder, NoneLeft

LEMMA EmptyStream ==
  ASSUME NEW fd \in Fds, buffers[fd] = <<>>, wire[fd] = <<>>,
         dispatched[fd] = <<>>, written[fd] = <<>>
  PROVE  StreamInv(fd)
<1>1. Pending(fd) = <<>>
  BY DEF Pending
<1>2. Framed(<<>>)
  BY DEF Framed
<1>3. InOrder(fd)
  BY <1>1, ValidBodiesOf, StreamType DEF InOrder
<1>4. NoneLeft(fd)
  BY DEF NoneLeft, Extracts, Complete
<1> QED BY <1>1, <1>2, <1>3, <1>4 DEF StreamInv, FromClient

LEMMA InitIsGood == Init => TcpInv
<1> SUFFICES ASSUME Init PROVE TcpInv
  OBVIOUS
<1>1. <<>> \in Seq(Pieces) /\ <<>> \in Seq(Frames)
  OBVIOUS
<1>2. TcpType
  BY <1>1 DEF Init, TcpType
<1> QED BY <1>2 DEF Init, TcpInv, Unused, Opened

\* The client writes a frame.
LEMMA StreamGrows ==
  ASSUME TcpInv, NEW fd \in clients, NEW f \in Frames, ClientWrites(fd, f)
  PROVE  StreamInv(fd)'
<1> DEFINE b == buffers[fd]
           p == Pending(fd)
           w == written[fd]
           d == dispatched[fd]
<1>1. /\ fd \in Fds /\ b \in Seq(Pieces) /\ wire[fd] \in Seq(Pieces) /\ w \in Seq(Frames)
      /\ d \in Seq(Frames) /\ Wire(f) \in Seq(Pieces)
  BY WireFacts DEF TcpInv, TcpType
<1>2. /\ wire'[fd] = wire[fd] \o Wire(f) /\ written'[fd] = Append(w, f)
      /\ buffers'[fd] = b /\ dispatched'[fd] = d
  BY <1>1 DEF ClientWrites, serverVars, TcpInv, TcpType
<1>3. p \in Seq(Pieces) /\ Pending(fd)' = p \o Wire(f)
  <2>1. p \in Seq(Pieces)
    BY <1>1, ConcatPieces DEF Pending
  <2>2. (b \o wire[fd]) \o Wire(f) = b \o (wire[fd] \o Wire(f))
    BY <1>1, ConcatThree
  <2> QED BY <1>2, <2>1, <2>2 DEF Pending
<1>4. Framed(p) /\ FromClient(fd) /\ InOrder(fd) /\ NoneLeft(fd)
  BY DEF TcpInv, StreamInv
<1> HIDE DEF b, p, d
<1>5. Framed(p \o Wire(f))
  BY <1>3, <1>4, FramedWritten
<1>6. /\ Len(Append(w, f)) = Len(w) + 1 /\ Len(w) \in Nat
      /\ Append(w, f)[Len(w) + 1] = f
      /\ \A j \in 1 .. Len(w) : Append(w, f)[j] = w[j]
  BY <1>1, AppendProperties
<1>7. FromClient(fd)'
  <2> SUFFICES ASSUME NEW i \in 1 .. Len(p \o Wire(f))
               PROVE  \E j \in 1 .. Len(w) + 1 :
                         (p \o Wire(f))[i].frame = Append(w, f)[j]
    <3> DEFINE v == Append(w, f)
               z == p \o Wire(f)
    <3>1. Pending(fd)' = z /\ written'[fd] = v /\ Len(v) = Len(w) + 1
      BY <1>2, <1>3, <1>6
    <3>2. (\A i \in 1 .. Len(z) : \E j \in 1 .. Len(w) + 1 : z[i].frame = v[j])
            => FromClient(fd)'
      <4> HIDE DEF v, z
      <4> QED BY <3>1 DEF FromClient
    <3> QED BY <3>2
  <2>1. /\ Len(p \o Wire(f)) = Len(p) + 2 /\ Len(p) \in Nat
        /\ (p \o Wire(f))[i] = IF i <= Len(p) THEN p[i] ELSE Wire(f)[i - Len(p)]
    <3>1. Len(Wire(f)) = 2
      BY WireFacts
    <3>2. /\ Len(p) \in Nat /\ Len(p \o Wire(f)) = Len(p) + Len(Wire(f))
          /\ \A l \in 1 .. Len(p) + Len(Wire(f)) :
                (p \o Wire(f))[l] = IF l <= Len(p) THEN p[l] ELSE Wire(f)[l - Len(p)]
      BY <1>1, <1>3, ConcatProperties
    <3> QED BY <3>1, <3>2
  <2>2. CASE i <= Len(p)
    <3>1. PICK j \in 1 .. Len(w) : p[i].frame = w[j]
      BY <1>4, <2>1, <2>2 DEF FromClient, p
    <3> QED BY <1>6, <2>1, <2>2, <3>1
  <2>3. CASE i > Len(p)
    <3>1. i - Len(p) \in {1, 2}
      BY <2>1, <2>3
    <3>2. Wire(f)[1].frame = f /\ Wire(f)[2].frame = f
      <4>1. /\ Wire(f)[1] = [frame |-> f, part |-> "head"]
            /\ Wire(f)[2] = [frame |-> f, part |-> "body"]
        BY WireFacts
      <4> QED BY <4>1
    <3>3. (p \o Wire(f))[i].frame = f
      BY <2>1, <2>3, <3>1, <3>2
    <3>4. Len(w) + 1 \in 1 .. Len(w) + 1
      BY <1>6
    <3> QED BY <1>6, <3>3, <3>4
  <2> QED BY <2>1, <2>2, <2>3
<1>8. InOrder(fd)'
  <2>1. ValidBodies(p \o Wire(f)) = ValidBodies(p) \o ValidBodies(Wire(f))
    BY <1>1, <1>3, ValidBodiesConcat
  <2>2. ValidBodies(Stream(Append(w, f))) =
          ValidBodies(Stream(w)) \o ValidBodies(Wire(f))
    BY <1>1, StreamType, StreamWritten, ValidBodiesConcat
  <2>3. d \o ValidBodies(p) = ValidBodies(Stream(w))
    BY <1>4 DEF InOrder, p, d
  <2>4. /\ ValidBodies(p) \in Seq(Frames) /\ ValidBodies(Wire(f)) \in Seq(Frames)
    BY <1>1, <1>3, ValidBodiesType
  <2>5. (d \o ValidBodies(p)) \o ValidBodies(Wire(f))
          = d \o (ValidBodies(p) \o ValidBodies(Wire(f)))
    <3>1. d \in Seq(Frames)
      BY <1>1
    <3> QED BY <2>4, <3>1, ConcatFrames
  <2> QED BY <1>2, <1>3, <2>1, <2>2, <2>3, <2>5 DEF InOrder
<1>9. NoneLeft(fd)'
  <2> SUFFICES ASSUME \A i \in DOMAIN Append(w, f) : Append(w, f)[i] \notin Malformed
               PROVE  ~Extracts(b)
    BY <1>2 DEF NoneLeft
  <2>1. \A i \in DOMAIN w : w[i] \notin Malformed
    <3>1. DOMAIN w = 1 .. Len(w) /\ DOMAIN Append(w, f) = 1 .. Len(w) + 1
      BY <1>1
    <3> QED BY <1>6, <3>1
  <2> QED BY <1>4, <2>1 DEF NoneLeft, b
<1> QED BY <1>3, <1>5, <1>7, <1>8, <1>9 DEF StreamInv

\* The server reads: the loop takes whole frames and dispatches the valid ones.
LEMMA StreamRead ==
  ASSUME TcpInv, NEW fd \in clients, NEW n \in 1 .. Len(wire[fd]),
         NEW b, b = buffers[fd] \o SubSeq(wire[fd], 1, n),
         wire'[fd] = SubSeq(wire[fd], n + 1, Len(wire[fd])),
         dispatched'[fd] = dispatched[fd] \o Requests(b),
         buffers'[fd] = Rest(After(b, Loops(b))),
         written'[fd] = written[fd]
  PROVE  /\ StreamInv(fd)'
         /\ buffers'[fd] \in Seq(Pieces) /\ wire'[fd] \in Seq(Pieces)
         /\ dispatched'[fd] \in Seq(Frames)
<1> DEFINE r == SubSeq(wire[fd], n + 1, Len(wire[fd]))
           p == Pending(fd)
           w == written[fd]
           d == dispatched[fd]
<1>1. /\ fd \in Fds /\ buffers[fd] \in Seq(Pieces) /\ wire[fd] \in Seq(Pieces)
      /\ w \in Seq(Frames) /\ d \in Seq(Frames)
  BY DEF TcpInv, TcpType
<1>2. /\ SubSeq(wire[fd], 1, n) \in Seq(Pieces) /\ r \in Seq(Pieces)
      /\ SubSeq(wire[fd], 1, n) \o r = wire[fd]
  <2> DEFINE x == wire[fd]
  <2>1. x \in Seq(Pieces) /\ n \in Nat /\ n <= Len(x)
    BY <1>1
  <2> HIDE DEF x
  <2>2. /\ SubSeq(x, 1, n) \in Seq(Pieces) /\ SubSeq(x, n + 1, Len(x)) \in Seq(Pieces)
        /\ SubSeq(x, 1, n) \o SubSeq(x, n + 1, Len(x)) = x
    BY <2>1, Cut
  <2> QED BY <2>2 DEF x
<1> HIDE DEF r
<1>3. b \in Seq(Pieces) /\ p = b \o r /\ p \in Seq(Pieces)
  <2> DEFINE x == buffers[fd]
             y == SubSeq(wire[fd], 1, n)
  <2>1. x \in Seq(Pieces) /\ y \in Seq(Pieces) /\ r \in Seq(Pieces) /\ b = x \o y
    BY <1>1, <1>2
  <2>2. p = x \o (y \o r)
    BY <1>2 DEF Pending
  <2> HIDE DEF x, y, p
  <2>3. b \in Seq(Pieces)
    <3>1. x \o y \in Seq(Pieces)
      BY <2>1, ConcatPieces
    <3> QED BY <2>1, <3>1
  <2>4. p = b \o r
    <3>1. (x \o y) \o r = x \o (y \o r)
      BY <2>1, ConcatThree
    <3> QED BY <2>1, <2>2, <3>1, Zenon
  <2> QED BY <2>1, <2>3, <2>4, ConcatPieces
<1>4. Framed(p) /\ FromClient(fd) /\ InOrder(fd) /\ NoneLeft(fd)
  BY DEF TcpInv, StreamInv
<1> HIDE DEF p
<1>5. PICK m \in Nat :
        /\ 2 * m <= Len(b)
        /\ Rest(After(b, Loops(b))) = SubSeq(b, 2 * m + 1, Len(b))
        /\ Requests(b) = ValidBodies(SubSeq(b, 1, 2 * m))
  BY <1>2, <1>3, <1>4, LoopDispatches
<1> DEFINE x == SubSeq(b, 1, 2 * m)
           y == SubSeq(b, 2 * m + 1, Len(b))
<1>6. /\ x \in Seq(Pieces) /\ y \in Seq(Pieces) /\ x \o y = b
      /\ Len(x) = 2 * m /\ Len(b) \in Nat
  <2> DEFINE k == 2 * m
  <2>1. k \in Nat /\ k <= Len(b)
    BY <1>5
  <2> HIDE DEF k
  <2>2. /\ SubSeq(b, 1, k) \in Seq(Pieces) /\ SubSeq(b, k + 1, Len(b)) \in Seq(Pieces)
        /\ Len(b) \in Nat /\ Len(SubSeq(b, 1, k)) = k
        /\ SubSeq(b, 1, k) \o SubSeq(b, k + 1, Len(b)) = b
    BY <1>3, <2>1, Cut
  <2> QED BY <2>2 DEF k
<1> HIDE DEF x, y
<1>7. /\ buffers'[fd] = y /\ wire'[fd] = r /\ Requests(b) = ValidBodies(x)
      /\ dispatched'[fd] = d \o ValidBodies(x)
  BY <1>5 DEF x, y, r
<1>8. /\ Pending(fd)' = y \o r /\ y \o r \in Seq(Pieces) /\ p = x \o (y \o r)
  <2>1. Pending(fd)' = y \o r
    BY <1>7 DEF Pending
  <2>2. r \in Seq(Pieces) /\ p = (x \o y) \o r
    BY <1>2, <1>3, <1>6
  <2> QED BY <1>6, <2>1, <2>2, ConcatPieces, ConcatThree
<1> DEFINE s == y \o r
<1>9. /\ Len(p) = 2 * m + Len(s) /\ Len(s) \in Nat
      /\ \A i \in 1 .. Len(s) : s[i] = p[2 * m + i]
  <2> HIDE DEF s
  <2>1. s \in Seq(Pieces) /\ Len(s) \in Nat /\ p = x \o s
    BY <1>8 DEF s
  <2>2. /\ Len(p) = Len(x) + Len(s)
        /\ \A i \in 1 .. Len(x) + Len(s) : p[i] = IF i <= Len(x) THEN x[i] ELSE s[i - Len(x)]
    BY <1>6, <2>1, ConcatProperties
  <2>3. ASSUME NEW i \in 1 .. Len(s) PROVE s[i] = p[2 * m + i]
    <3>1. 2 * m + i \in 1 .. Len(x) + Len(s) /\ ~(2 * m + i <= Len(x))
          /\ (2 * m + i) - Len(x) = i
      BY <1>6, <2>1
    <3> QED BY <2>2, <3>1
  <2> QED BY <1>6, <2>1, <2>2, <2>3
<1>10. Framed(s)
  <2> DEFINE t == SubSeq(p, 2 * m + 1, Len(p))
  <2>1. Len(p) \in Nat /\ 2 * m <= Len(p)
    BY <1>3, <1>9
  <2>2. t \in Seq(Pieces) /\ Framed(t)
    BY <1>3, <1>4, <2>1, FramedTaken
  <2>3. Len(t) = Len(p) - 2 * m /\ \A i \in 1 .. Len(p) - 2 * m : t[i] = p[2 * m + i]
    <3> DEFINE k == 2 * m
    <3>1. k \in Nat /\ k <= Len(p)
      BY <2>1
    <3> HIDE DEF k
    <3>2. /\ Len(SubSeq(p, k + 1, Len(p))) = Len(p) - k
          /\ \A i \in 1 .. Len(p) - k : SubSeq(p, k + 1, Len(p))[i] = p[k + i]
      BY <1>3, <3>1, Cut
    <3> QED BY <3>2 DEF k
  <2> HIDE DEF s, t
  <2>4. s \in Seq(Pieces)
    BY <1>8 DEF s
  <2>5. Len(s) = Len(t) /\ \A i \in 1 .. Len(s) : s[i] = t[i]
    BY <1>9, <2>1, <2>3
  <2>6. s = t
    BY <2>2, <2>4, <2>5, SeqEqual
  <2> QED BY <2>2, <2>6
<1>11. FromClient(fd)'
  <2> SUFFICES ASSUME NEW i \in 1 .. Len(s)
               PROVE  \E j \in 1 .. Len(w) : s[i].frame = w[j]
    BY <1>8 DEF FromClient
  <2> HIDE DEF s
  <2>1. 2 * m + i \in 1 .. Len(p) /\ s[i] = p[2 * m + i]
    BY <1>9
  <2> QED BY <1>4, <2>1 DEF FromClient, p
<1>12. InOrder(fd)'
  <2>1. ValidBodies(p) = ValidBodies(x) \o ValidBodies(s)
    BY <1>6, <1>8, ValidBodiesConcat
  <2>2. ValidBodies(x) \in Seq(Frames) /\ ValidBodies(s) \in Seq(Frames)
    BY <1>6, <1>8, ValidBodiesType
  <2>3. d \o (ValidBodies(x) \o ValidBodies(s)) = (d \o ValidBodies(x)) \o ValidBodies(s)
    <3>1. d \in Seq(Frames)
      BY <1>1
    <3> HIDE DEF d, s
    <3> QED BY <2>2, <3>1, ConcatFrames
  <2>4. d \o ValidBodies(p) = ValidBodies(Stream(w))
    BY <1>4 DEF InOrder, p
  <2> QED BY <1>7, <1>8, <2>1, <2>3, <2>4 DEF InOrder
<1>13. NoneLeft(fd)'
  <2> SUFFICES ASSUME \A i \in DOMAIN w : w[i] \notin Malformed,
                      Extracts(Rest(After(b, Loops(b))))
               PROVE  FALSE
    BY DEF NoneLeft
  <2> DEFINE k == Loops(b)
             a == After(b, k)
  <2>1. k \in 0 .. Len(b) /\ ~Extracts(a)
    BY <1>3, LoopEnds
  <2>2. Complete(a)
    BY <2>1 DEF Rest
  <2>3. /\ 2 * k + 2 <= Len(b) /\ k \in Nat
        /\ a[1] = b[2 * k + 1] /\ a[2] = b[2 * k + 2]
    <3>1. Len(a) >= 2 /\ k \in Nat
      BY <1>6, <2>1, <2>2 DEF Complete
    <3> HIDE DEF k
    <3>2. /\ Len(a) \in Nat
          /\ 2 * k <= Len(b) => Len(a) = Len(b) - 2 * k
          /\ 2 * k <= Len(b) => \A i \in 1 .. Len(b) - 2 * k : a[i] = b[2 * k + i]
          /\ 2 * k > Len(b) => Len(a) = 0
      <4>1. /\ a \in Seq(Pieces)
            /\ 2 * k <= Len(b) =>
                  /\ Len(a) = Len(b) - 2 * k
                  /\ \A i \in 1 .. Len(b) - 2 * k : a[i] = b[2 * k + i]
            /\ 2 * k > Len(b) => Len(a) = 0
        BY <1>3, <3>1, AfterFacts
      <4> HIDE DEF a
      <4>2. Len(a) \in Nat
        BY <4>1
      <4> QED BY <4>1, <4>2
    <3> HIDE DEF a
    <3>3. 2 * k <= Len(b)
      BY <1>6, <3>1, <3>2
    <3>4. 1 \in 1 .. Len(b) - 2 * k /\ 2 \in 1 .. Len(b) - 2 * k
      BY <1>6, <3>1, <3>2, <3>3
    <3>5. a[1] = b[2 * k + 1] /\ a[2] = b[2 * k + 2]
      BY <3>2, <3>3, <3>4
    <3> QED BY <1>6, <3>1, <3>2, <3>3, <3>5
  <2> HIDE DEF k, a
  <2>4. /\ Len(p) = Len(b) + Len(r) /\ Len(r) \in Nat
        /\ p[2 * k + 1] = b[2 * k + 1] /\ p[2 * k + 2] = b[2 * k + 2]
    <3>1. 2 * k + 1 \in 1 .. Len(b) /\ 2 * k + 2 \in 1 .. Len(b) /\ Len(r) \in Nat
      BY <1>2, <1>6, <2>3
    <3>2. Len(b \o r) = Len(b) + Len(r) /\ \A i \in 1 .. Len(b) : (b \o r)[i] = b[i]
      <4>1. b \in Seq(Pieces) /\ r \in Seq(Pieces)
        BY <1>2, <1>3
      <4> QED BY <4>1, ConcatPieces
    <3> QED BY <1>3, <1>6, <3>1, <3>2
  <2>5. a[1].frame = a[2].frame
    <3>1. 2 * k < Len(p)
      BY SMTT(30), <1>6, <2>3, <2>4
    <3> QED BY <1>4, <2>3, <2>4, <3>1 DEF Framed
  <2>6. a[1].frame \notin Oversized /\ a[2].frame \notin Valid
    BY <2>1, <2>2 DEF Extracts, Complete, Body
  <2>7. PICK j \in 1 .. Len(w) : a[2].frame = w[j]
    <3>1. 2 * k + 2 \in 1 .. Len(p)
      BY <1>6, <2>3, <2>4
    <3> QED BY <1>4, <2>3, <2>4, <3>1 DEF FromClient, p
  <2>8. w[j] \in Frames /\ j \in DOMAIN w
    BY <1>1
  <2> QED BY <2>5, <2>6, <2>7, <2>8 DEF Frames
<1>14. dispatched'[fd] \in Seq(Frames)
  <2>1. ValidBodies(x) \in Seq(Frames)
    BY <1>6, ValidBodiesType
  <2> HIDE DEF d
  <2>2. d \in Seq(Frames)
    BY <1>1 DEF d
  <2>3. d \o ValidBodies(x) \in Seq(Frames)
    BY <2>1, <2>2, ConcatFrames
  <2> QED BY <1>7, <2>3
<1> QED BY <1>2, <1>6, <1>7, <1>8, <1>10, <1>11, <1>12, <1>13, <1>14 DEF StreamInv

-----------------------------------------------------------------------------
(* The steps. *)

LEMMA FdsAreNumbers == Fds = 1 .. MaxConnections /\ MaxConnections \in Nat
BY TcpAssumption DEF Fds

LEMMA NewConnectionKeeps == ASSUME TcpInv, NewConnection PROVE TcpInv'
<1>1. /\ nextClientId' = nextClientId + 1 /\ nextClientId \in Fds /\ nextClientId \in Nat
      /\ clients' = clients \cup {nextClientId} /\ clients \subseteq Fds
      /\ UNCHANGED <<buffers, dispatched, written, wire>>
  BY DEF NewConnection, TcpInv, TcpType
<1>2. TcpType'
  BY <1>1 DEF TcpInv, TcpType, NewConnection
<1>3. Unused'
  <2>1. \A fd \in Fds : fd >= nextClientId + 1 => fd >= nextClientId /\ fd # nextClientId
    BY <1>1, FdsAreNumbers
  <2>2. \A fd \in Fds : fd # nextClientId => peer'[fd] = peer[fd]
    BY DEF NewConnection, TcpInv, TcpType
  <2> QED BY <1>1, <2>1, <2>2 DEF TcpInv, Unused
<1>4. Opened'
  BY <1>1, FdsAreNumbers DEF TcpInv, Opened
<1>5. ASSUME NEW fd \in clients' PROVE StreamInv(fd)'
  <2>1. CASE fd \in clients
    BY <1>1, <2>1, StreamStays DEF TcpInv
  <2>2. CASE fd = nextClientId
    <3>1. StreamInv(fd)
      BY <1>1, <2>2, EmptyStream DEF TcpInv, Unused
    <3> QED BY <1>1, <2>2, <3>1, StreamStays
  <2> QED BY <1>1, <2>1, <2>2
<1> QED BY <1>2, <1>3, <1>4, <1>5 DEF TcpInv

LEMMA ClientWritesKeeps ==
  ASSUME TcpInv, NEW fd \in Fds, NEW f \in Frames, ClientWrites(fd, f)
  PROVE  TcpInv'
<1>1. /\ UNCHANGED <<nextClientId, clients, buffers, dispatched, peer>>
      /\ peer[fd] = "there"
      /\ written' = [written EXCEPT ![fd] = Append(@, f)]
      /\ wire' = [wire EXCEPT ![fd] = @ \o Wire(f)]
  BY DEF ClientWrites, serverVars
<1>2. /\ wire \in [Fds -> Seq(Pieces)] /\ written \in [Fds -> Seq(Frames)]
      /\ clients \subseteq Fds
  BY DEF TcpInv, TcpType
<1>3. TcpType'
  <2>1. wire[fd] \o Wire(f) \in Seq(Pieces) /\ Append(written[fd], f) \in Seq(Frames)
    BY <1>2, WireFacts, ConcatPieces, AppendProperties
  <2>2. wire' \in [Fds -> Seq(Pieces)] /\ written' \in [Fds -> Seq(Frames)]
    BY <1>1, <1>2, <2>1
  <2> QED BY <1>1, <2>2 DEF TcpInv, TcpType
<1>4. Unused'
  <2>1. ~(fd >= nextClientId)
    BY <1>1 DEF TcpInv, Unused
  <2> QED BY <1>1, <1>2, <2>1 DEF TcpInv, Unused
<1>5. Opened'
  BY <1>1 DEF TcpInv, Opened
<1>6. ASSUME NEW g \in clients' PROVE StreamInv(g)'
  <2>1. CASE g = fd
    BY <1>1, <2>1, StreamGrows
  <2>2. CASE g # fd
    BY <1>1, <1>2, <2>2, StreamStays DEF TcpInv
  <2> QED BY <2>1, <2>2
<1> QED BY <1>3, <1>4, <1>5, <1>6 DEF TcpInv

LEMMA ReadyReadKeeps ==
  ASSUME TcpInv, NEW fd \in Fds, ReadyRead(fd)
  PROVE  TcpInv'
<1>1. PICK n \in 1 .. Len(wire[fd]) :
        LET buffer == buffers[fd] \o SubSeq(wire[fd], 1, n) IN
        /\ wire' = [wire EXCEPT ![fd] = SubSeq(@, n + 1, Len(@))]
        /\ dispatched' = [dispatched EXCEPT ![fd] = @ \o Requests(buffer)]
        /\ buffers' = [buffers EXCEPT ![fd] = Rest(After(buffer, Loops(buffer)))]
  BY DEF ReadyRead
<1> DEFINE b == buffers[fd] \o SubSeq(wire[fd], 1, n)
<1>2. fd \in clients /\ UNCHANGED <<nextClientId, clients, written, peer>>
  BY DEF ReadyRead
<1>3. /\ wire \in [Fds -> Seq(Pieces)] /\ buffers \in [Fds -> Seq(Pieces)]
      /\ dispatched \in [Fds -> Seq(Frames)] /\ clients \subseteq Fds
  BY DEF TcpInv, TcpType
<1>4. /\ wire'[fd] = SubSeq(wire[fd], n + 1, Len(wire[fd]))
      /\ dispatched'[fd] = dispatched[fd] \o Requests(b)
      /\ buffers'[fd] = Rest(After(b, Loops(b)))
      /\ written'[fd] = written[fd]
  BY <1>1, <1>2, <1>3
<1>5. /\ StreamInv(fd)'
      /\ buffers'[fd] \in Seq(Pieces) /\ wire'[fd] \in Seq(Pieces)
      /\ dispatched'[fd] \in Seq(Frames)
  <2> DEFINE c == b
  <2>1. c = buffers[fd] \o SubSeq(wire[fd], 1, n)
    OBVIOUS
  <2> HIDE DEF c
  <2>2. /\ dispatched'[fd] = dispatched[fd] \o Requests(c)
        /\ buffers'[fd] = Rest(After(c, Loops(c)))
    BY <1>4 DEF c
  <2> QED BY <1>2, <1>4, <2>1, <2>2, StreamRead
<1>6. \A g \in Fds : g # fd =>
        wire'[g] = wire[g] /\ dispatched'[g] = dispatched[g] /\ buffers'[g] = buffers[g]
  BY <1>1, <1>3
<1>7. TcpType'
  <2>1. /\ wire' \in [Fds -> Seq(Pieces)] /\ buffers' \in [Fds -> Seq(Pieces)]
        /\ dispatched' \in [Fds -> Seq(Frames)]
    <3>1. /\ wire' = [wire EXCEPT ![fd] = wire'[fd]]
          /\ dispatched' = [dispatched EXCEPT ![fd] = dispatched'[fd]]
          /\ buffers' = [buffers EXCEPT ![fd] = buffers'[fd]]
      BY <1>1, <1>3
    <3> QED BY <1>3, <1>5, <3>1
  <2> QED BY <1>2, <2>1 DEF TcpInv, TcpType
<1>8. Unused'
  <2>1. ~(fd >= nextClientId)
    <3>1. Len(wire[fd]) > 0
      BY <1>3
    <3>2. wire[fd] # <<>>
      BY <3>1
    <3> QED BY <3>2 DEF TcpInv, Unused
  <2> QED BY <1>2, <1>6, <2>1 DEF TcpInv, Unused
<1>9. Opened'
  BY <1>2 DEF TcpInv, Opened
<1>10. ASSUME NEW g \in clients' PROVE StreamInv(g)'
  <2>1. CASE g = fd
    BY <1>5, <2>1
  <2>2. CASE g # fd
    BY <1>2, <1>3, <1>6, <2>2, StreamStays DEF TcpInv
  <2> QED BY <2>1, <2>2
<1> QED BY <1>7, <1>8, <1>9, <1>10 DEF TcpInv

LEMMA RemoveClientKeeps ==
  ASSUME TcpInv, NEW fd \in Fds, RemoveClient(fd)
  PROVE  TcpInv'
<1>1. /\ wire \in [Fds -> Seq(Pieces)] /\ buffers \in [Fds -> Seq(Pieces)]
      /\ peer \in [Fds -> {"there", "closing", "gone"}] /\ clients \subseteq Fds
      /\ <<>> \in Seq(Pieces)
  BY DEF TcpInv, TcpType
<1>2. /\ clients' = clients \ {fd} /\ UNCHANGED <<nextClientId, dispatched, written>>
      /\ wire' = [wire EXCEPT ![fd] = <<>>] /\ buffers' = [buffers EXCEPT ![fd] = <<>>]
      /\ peer' = [peer EXCEPT ![fd] = "gone"]
  BY DEF RemoveClient
<1>3. TcpType'
  BY <1>1, <1>2 DEF TcpInv, TcpType
<1>4. Unused'
  BY <1>1, <1>2 DEF TcpInv, Unused
<1>5. Opened'
  BY <1>2 DEF TcpInv, Opened
<1>6. ASSUME NEW g \in clients' PROVE StreamInv(g)'
  BY <1>1, <1>2, StreamStays DEF TcpInv
<1> QED BY <1>3, <1>4, <1>5, <1>6 DEF TcpInv

\* Steps that do not touch the stream: a peer goes, time passes.
LEMMA OthersKeep ==
  ASSUME TcpInv, UNCHANGED <<nextClientId, clients, buffers, dispatched, written, wire>>,
         peer' \in [Fds -> {"there", "closing", "gone"}],
         \A fd \in Fds : peer[fd] = "gone" => peer'[fd] = "gone"
  PROVE  TcpInv'
<1>1. TcpType' /\ Unused' /\ Opened'
  BY DEF TcpInv, TcpType, Unused, Opened
<1>2. ASSUME NEW fd \in clients' PROVE StreamInv(fd)'
  BY StreamStays DEF TcpInv, TcpType
<1> QED BY <1>1, <1>2 DEF TcpInv

\* The stream of an open connection stays whole frames, in place and accounted for.
THEOREM StreamInvariant == Spec => []TcpInv
<1>1. ASSUME TcpInv, [Next]_tcpVars PROVE TcpInv'
  <2> USE <1>1
  <2>1. peer \in [Fds -> {"there", "closing", "gone"}]
    BY DEF TcpInv, TcpType
  <2>2. CASE UNCHANGED tcpVars
    BY <2>1, <2>2, OthersKeep DEF tcpVars, serverVars
  <2>3. CASE Tick
    BY <2>1, <2>3, OthersKeep DEF Tick
  <2>4. ASSUME NEW fd \in Fds, PeerCloses(fd) \/ PeerVanishes(fd) PROVE TcpInv'
    BY <2>1, <2>4, OthersKeep DEF PeerCloses, PeerVanishes, serverVars
  <2>5. ASSUME NEW fd \in Fds, Disconnected(fd) \/ IdleCheck(fd) PROVE TcpInv'
    BY <2>5, RemoveClientKeeps DEF Disconnected, IdleCheck
  <2> QED
    BY <2>2, <2>3, <2>4, <2>5, NewConnectionKeeps, ClientWritesKeeps, ReadyReadKeeps
    DEF Next
<1> QED BY <1>1, InitIsGood, PTL DEF Spec

\* Every well-formed request of an open connection is dispatched once and in order, however
\* the stream is cut and whatever is between them.
THEOREM RequestsInOrder == Spec => []DispatchedInOrder
<1>1. TcpInv => DispatchedInOrder
  BY DEF TcpInv, StreamInv, InOrder, Pending, DispatchedInOrder
<1> QED BY <1>1, StreamInvariant, PTL

\* No complete request waits in a buffer for the next bytes, as long as the client writes no
\* malformed frame.
THEOREM NoRequestWaits == Spec => []NoRequestLeftBehind
<1>1. TcpInv => NoRequestLeftBehind
  BY DEF TcpInv, StreamInv, NoneLeft, NoRequestLeftBehind
<1> QED BY <1>1, StreamInvariant, PTL

=============================================================================
