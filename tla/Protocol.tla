-------------------------------- MODULE Protocol --------------------------------
(***************************************************************************)
(* extractFrame on a receive buffer.                                       *)
(*                                                                         *)
(* A frame is a 4-byte length and a body.  TCP may deliver any number of   *)
(* its bytes at a time; what the code can tell apart is whether the length *)
(* is there and whether the body is, so a frame is two pieces, "head" and  *)
(* "body", and a buffer is a sequence of pieces.  The body of a frame      *)
(* either parses as JSON or does not, and a length may be above the 4 MB   *)
(* limit.                                                                  *)
(***************************************************************************)
EXTENDS Integers, Sequences, SequencesExt

CONSTANTS
    Valid,      \* frames whose body parses
    Malformed,  \* frames whose body does not
    Oversized   \* frames whose length is above the limit

Frames == Valid \cup Malformed \cup Oversized

Pieces == [frame : Frames, part : {"head", "body"}]

\* frame(), as it is cut up on the way.
Wire(f) == << [frame |-> f, part |-> "head"], [frame |-> f, part |-> "body"] >>

Body(buffer) == buffer[2].frame

\* The length is there and within the limit, and so is the whole body.
Complete(buffer) ==
    Len(buffer) >= 2 /\ buffer[1].frame \notin Oversized

\* What extractFrame returns and what it leaves in the buffer.
Extracts(buffer) == Complete(buffer) /\ Body(buffer) \in Valid

DropsAll(buffer) ==  \* mutant: a bad frame empties the buffer
    IF ~Complete(buffer) THEN buffer
    ELSE IF Extracts(buffer) THEN SubSeq(buffer, 3, Len(buffer)) ELSE <<>>

Rest(buffer) ==
    IF Complete(buffer) THEN SubSeq(buffer, 3, Len(buffer)) ELSE buffer

=============================================================================
