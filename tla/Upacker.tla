------------------------------- MODULE Upacker -------------------------------
(***************************************************************************)
(* The frame decoder of packages/upacker: a frame is the header            *)
(* STX_L STX_R STX_F and a body of a fixed length.  Of the body all but    *)
(* the last two bytes are checked, the last is the check, and the one      *)
(* before it is not looked at.  The decoder keeps its place from one call  *)
(* to the next, as a frame may come in pieces.                             *)
(***************************************************************************)
EXTENDS Integers, Sequences

CONSTANTS
    Bytes, STX_L, STX_R, STX_F,
    Body,      \* flen at the start of a body, 8
    CheckOf    \* crc_16: the check that belongs to the checked bytes

ASSUME BytesAssumption ==
    /\ {STX_L, STX_R, STX_F} \subseteq Bytes
    /\ STX_L # STX_R /\ STX_L # STX_F /\ STX_R # STX_F
ASSUME BodyAssumption ==
    /\ Body \in Nat /\ Body > 2
    /\ CheckOf \in [[1..(Body - 2) -> Bytes] -> Bytes]

Header == <<STX_L, STX_R, STX_F>>

\* upacker_inst; cnt is the length of data.
Packer == [head_flag : 0..2, state : 0..1, data : Seq(Bytes)]
Fresh  == [head_flag |-> 0, state |-> 0, data |-> <<>>]

(* frame_decode, of a byte d.                                              *)
Skips(p, d) == d = STX_R /\ p.head_flag # 0
Opens(p, d) == d = STX_F /\ p.head_flag = 2

Stores(p, d) == p.state = 1 /\ ~Skips(p, d) /\ ~Opens(p, d)

\* Mutant: the body is one byte longer.
FillsLate(p, d) == Stores(p, d) /\ Len(p.data) = Body
Fills(p, d) == Stores(p, d) /\ Len(p.data) + 1 = Body

\* Mutant: what an unfinished body has left behind stays in the way.
DecodedOnto(p, d) ==
    [head_flag |-> IF d = STX_L THEN 1 ELSE IF Skips(p, d) THEN 2 ELSE 0,
     state     |-> IF Opens(p, d) THEN 1 ELSE IF Fills(p, d) THEN 0 ELSE p.state,
     data      |-> IF Opens(p, d) /\ p.state = 0 THEN <<>>
                   ELSE IF Stores(p, d) THEN Append(p.data, d) ELSE p.data]

Decoded(p, d) ==
    [head_flag |-> IF d = STX_L THEN 1 ELSE IF Skips(p, d) THEN 2 ELSE 0,
     state     |-> IF Opens(p, d) THEN 1 ELSE IF Fills(p, d) THEN 0 ELSE p.state,
     data      |-> IF Opens(p, d) THEN <<>>
                   ELSE IF Stores(p, d) THEN Append(p.data, d) ELSE p.data]

Checked(body) == CheckOf[SubSeq(body, 1, Body - 2)] = body[Body]

\* The callback is called with data.
Calls(p, d) == Fills(p, d) /\ Checked(Append(p.data, d))

\* A body of which every byte is stored.
Intact(body) == \A i \in 1..(Len(body) - 1) : ~(body[i] = STX_L /\ body[i + 1] = STX_R)
=============================================================================
