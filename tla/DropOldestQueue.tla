---------------------------- MODULE DropOldestQueue ----------------------------
(***************************************************************************)
(* What the receive FIFO of the YMODEM device promises between an open and *)
(* the close after it: a queue of at most Capacity bytes that makes room   *)
(* for a new byte by giving up its oldest.                                 *)
(***************************************************************************)
EXTENDS Naturals, Sequences

CONSTANTS Capacity, Bytes

VARIABLES live, queue

Init == live = FALSE /\ queue = <<>>

Open  == ~live /\ live' = TRUE  /\ queue' = <<>>
Close == live  /\ live' = FALSE /\ queue' = <<>>

Put(b) == /\ live
          /\ queue' = IF Len(queue) < Capacity THEN Append(queue, b)
                                               ELSE Append(Tail(queue), b)
          /\ UNCHANGED live

Get == /\ live /\ queue # <<>>
       /\ queue' = Tail(queue)
       /\ UNCHANGED live

Next == Open \/ Close \/ Get \/ \E b \in Bytes : Put(b)

Spec == Init /\ [][Next]_<<live, queue>>
=============================================================================
