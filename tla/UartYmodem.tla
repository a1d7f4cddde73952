------------------------------ MODULE UartYmodem ------------------------------
(***************************************************************************)
(* The device "u_ymodem" (packages/uart_ymodem) between the two threads of *)
(* the application that use it: the serial thread puts what the line has   *)
(* brought into the receive FIFO, the session thread opens the device,     *)
(* reads from the FIFO, waits on the semaphore of the session when it is   *)
(* empty, and closes the device again (rym_recv_on_device, _rym_read_data).*)
(*                                                                         *)
(* The serial thread has priority 4 and the session thread priority 27: it *)
(* may cut in between any two steps of the session thread, and that one    *)
(* takes no step until it is done.                                         *)
(***************************************************************************)
EXTENDS Integers, Sequences

CONSTANTS
    Size,      \* RT_UART_YMODEM_DEVICE_SIZE
    MaxBytes,  \* bound: bytes the line brings in a session
    MaxChunk,  \* the most the serial driver hands over at once
    MaxRead    \* the most the session asks for at once

ASSUME SizeAssumption == Size \in Nat /\ Size > 1
ASSUME LineAssumption == MaxBytes \in Nat /\ MaxChunk \in Nat /\ MaxRead \in Nat

VARIABLES
    open,    \* open_flag has RT_DEVICE_FLAG_RDWR
    fifo,    \* the pointer uart_ymodem_rx: "null", "live", or "freed" memory
    buffer, put_index, get_index, is_full,  \* what it points to
    serial,  \* serial thread: "wait", "store", "asserted" when RT_ASSERT has
             \* stopped it, "corrupt" after a write to freed memory, from where
             \* nothing is followed any further
    chunk,   \* bytes it still has to store
    sem,     \* value of ctx->sem
    pc,      \* where the session thread is
    want,    \* bytes its current read still has to get
    rcvd,    \* history: bytes stored in this session; byte k is k
    read,    \* history: bytes the session has read
    lost     \* history: bytes the FIFO has given up

ring == <<buffer, put_index, get_index, is_full>>
history == <<rcvd, read, lost>>
vars == <<open, fifo, buffer, put_index, get_index, is_full, serial, chunk, sem, pc, want,
          rcvd, read, lost>>

NextIndex(i) == IF i + 1 >= Size THEN 0 ELSE i + 1

\* The rx_length of rt_hw_uart_ymodem_rx.
Count == IF put_index >= get_index THEN put_index - get_index
                                   ELSE Size - (get_index - put_index)

Empty == get_index = put_index /\ ~is_full

Halted == serial \in {"asserted", "corrupt"}
----------------------------------------------------------------------------
Init == /\ open = FALSE /\ fifo = "null"
        /\ buffer = [i \in 0..(Size - 1) |-> 0]
        /\ put_index = 0 /\ get_index = 0 /\ is_full = FALSE
        /\ serial = "wait" /\ chunk = 0
        /\ sem = 0 /\ pc = "closed" /\ want = 0
        /\ rcvd = 0 /\ read = 0 /\ lost = 0

(* The serial thread: rt_uart_ymodem_rx, called with what it has read.     *)
\* With the device closed the bytes are dropped, which changes nothing.
Deliver(k) ==
    /\ serial = "wait" /\ open
    /\ rcvd + k <= MaxBytes
    /\ \/ fifo = "live"  /\ serial' = "store" /\ chunk' = k
       \/ fifo = "null"  /\ serial' = "asserted" /\ UNCHANGED chunk
       \/ fifo = "freed" /\ serial' = "corrupt"  /\ UNCHANGED chunk
    /\ UNCHANGED <<open, fifo, ring, sem, pc, want, history>>

Storing == serial = "store" /\ chunk > 0

\* Mutants: the index is not wrapped; the oldest byte is not given up.
StoreNoWrap ==
    /\ Storing /\ chunk' = chunk - 1
    /\ buffer' = [buffer EXCEPT ![put_index] = rcvd + 1]
    /\ put_index' = put_index + 1
    /\ rcvd' = rcvd + 1
    /\ UNCHANGED <<open, fifo, get_index, is_full, serial, sem, pc, want, read, lost>>
StoreOver ==
    /\ Storing /\ chunk' = chunk - 1
    /\ buffer' = [buffer EXCEPT ![put_index] = rcvd + 1]
    /\ put_index' = NextIndex(put_index)
    /\ rcvd' = rcvd + 1
    /\ UNCHANGED <<open, fifo, get_index, is_full, serial, sem, pc, want, read, lost>>

\* One turn of the loop, with interrupts disabled.
StoreByte ==
    /\ Storing /\ chunk' = chunk - 1
    /\ buffer' = [buffer EXCEPT ![put_index] = rcvd + 1]
    /\ put_index' = NextIndex(put_index)
    /\ rcvd' = rcvd + 1
    /\ IF put_index' = get_index
       THEN get_index' = NextIndex(get_index) /\ is_full' = TRUE /\ lost' = lost + 1
       ELSE UNCHANGED <<get_index, is_full, lost>>
    /\ UNCHANGED <<open, fifo, serial, sem, pc, want, read>>

\* Mutant: a release with nobody waiting is forgotten.
NotifyWaiter ==
    /\ serial = "store" /\ chunk = 0
    /\ serial' = "wait"
    /\ pc' = IF pc = "blocked" THEN "reading" ELSE pc
    /\ UNCHANGED <<open, fifo, ring, chunk, sem, want, history>>

\* rx_indicate, which is _rym_rx_ind: rt_sem_release wakes the one who waits.
Notify ==
    /\ serial = "store" /\ chunk = 0
    /\ serial' = "wait"
    /\ IF Count > 0 /\ pc = "blocked" THEN pc' = "reading" ELSE UNCHANGED pc
    /\ IF Count > 0 /\ pc # "blocked" THEN sem' = sem + 1  ELSE UNCHANGED sem
    /\ UNCHANGED <<open, fifo, ring, chunk, want, history>>
----------------------------------------------------------------------------
\* Mutant: the session thread may cut in on the serial thread.
RunsAnyTime(p) == ~Halted /\ pc = p

(* The session thread runs when the serial thread waits for the line.      *)
Runs(p) == serial = "wait" /\ pc = p

\* rt_uart_ymodem_open sets the flag first and the pointer last.
OpenFlag == /\ Runs("closed")
            /\ open' = TRUE /\ sem' = 0
            /\ pc' = "opening"
            /\ UNCHANGED <<fifo, ring, serial, chunk, want, history>>

OpenFifo == /\ Runs("opening")
            /\ fifo' = "live"
            /\ buffer' = [i \in 0..(Size - 1) |-> 0]
            /\ put_index' = 0 /\ get_index' = 0 /\ is_full' = FALSE
            /\ rcvd' = 0 /\ read' = 0 /\ lost' = 0
            /\ pc' = "idle"
            /\ UNCHANGED <<open, serial, chunk, sem, want>>

\* _rym_read_code asks for one byte, _rym_read_data for the rest of a packet.
Ask(k) == /\ Runs("idle")
          /\ want' = k /\ pc' = "reading"
          /\ UNCHANGED <<open, fifo, ring, serial, chunk, sem, history>>

\* Mutant: is_full is left as it is.
ReadKeepsFull ==
    /\ Runs("reading") /\ want > 0 /\ ~Empty
    /\ get_index' = NextIndex(get_index)
    /\ want' = want - 1 /\ read' = read + 1
    /\ UNCHANGED <<open, fifo, buffer, put_index, is_full, serial, chunk, sem, pc, rcvd, lost>>

\* One turn of the loop of _uart_ymodem_rx, with interrupts disabled.
ReadByte ==
    /\ Runs("reading") /\ want > 0 /\ ~Empty
    /\ get_index' = NextIndex(get_index)
    /\ is_full' = FALSE
    /\ want' = want - 1 /\ read' = read + 1
    /\ UNCHANGED <<open, fifo, buffer, put_index, serial, chunk, sem, pc, rcvd, lost>>

ReadDone ==
    /\ Runs("reading") /\ want = 0
    /\ pc' = "idle"
    /\ UNCHANGED <<open, fifo, ring, serial, chunk, sem, want, history>>

ReadEmpty ==
    /\ Runs("reading") /\ want > 0 /\ Empty
    /\ pc' = "take"
    /\ UNCHANGED <<open, fifo, ring, serial, chunk, sem, want, history>>

\* Mutant: the semaphore keeps its value.
TakeFree ==
    /\ Runs("take")
    /\ pc' = IF sem > 0 THEN "reading" ELSE "blocked"
    /\ UNCHANGED <<open, fifo, ring, serial, chunk, sem, want, history>>

\* rt_sem_take with a timeout.
Take ==
    /\ Runs("take")
    /\ IF sem > 0 THEN sem' = sem - 1 /\ pc' = "reading"
                  ELSE pc' = "blocked" /\ UNCHANGED sem
    /\ UNCHANGED <<open, fifo, ring, serial, chunk, want, history>>

\* The thread's timer fires in an interrupt; the read ends short.
Timeout ==
    /\ pc = "blocked" /\ ~Halted
    /\ pc' = "idle" /\ want' = 0
    /\ UNCHANGED <<open, fifo, ring, serial, chunk, sem, history>>

\* rt_uart_ymodem_close clears the flag last.
CloseFree == /\ Runs("idle")
             /\ fifo' = "freed" /\ pc' = "freed"
             /\ UNCHANGED <<open, ring, serial, chunk, sem, want, history>>

CloseNull == /\ Runs("freed")
             /\ fifo' = "null" /\ pc' = "cleared"
             /\ UNCHANGED <<open, ring, serial, chunk, sem, want, history>>

CloseFlag == /\ Runs("cleared")
             /\ open' = FALSE /\ pc' = "closed"
             /\ UNCHANGED <<fifo, ring, serial, chunk, sem, want, history>>
----------------------------------------------------------------------------
Serial == \/ \E k \in 1..MaxChunk : Deliver(k)
          \/ StoreByte \/ Notify

Reading == ReadByte \/ ReadDone \/ ReadEmpty \/ Take

Session == \/ OpenFlag \/ OpenFifo \/ CloseFree \/ CloseNull \/ CloseFlag
           \/ \E k \in 1..MaxRead : Ask(k)
           \/ Reading \/ Timeout

Next == Serial \/ Session

Spec == Init /\ [][Next]_vars

\* The serial thread finishes what it was given, and the session thread gets
\* the processor back whenever the serial thread waits for the line.
FairSpec == Spec /\ WF_vars(StoreByte \/ Notify) /\ WF_vars(Reading) /\ WF_vars(Timeout)
----------------------------------------------------------------------------
TypeOK ==
    /\ open \in BOOLEAN /\ fifo \in {"null", "live", "freed"}
    /\ buffer \in [0..(Size - 1) -> Nat]
    /\ put_index \in 0..(Size - 1) /\ get_index \in 0..(Size - 1) /\ is_full \in BOOLEAN
    /\ serial \in {"wait", "store", "asserted", "corrupt"} /\ chunk \in Nat
    /\ sem \in Nat /\ want \in Nat
    /\ pc \in {"closed", "opening", "idle", "reading", "take", "blocked", "freed", "cleared"}
    /\ rcvd \in Nat /\ read \in Nat /\ lost \in Nat

Slot(k) == IF get_index + k < Size THEN get_index + k ELSE get_index + k - Size

(* Every byte put into the FIFO is read once and in order, is still there, *)
(* or was given up for a newer one: no interleaving of the two loops makes *)
(* the reader skip a byte, see one twice or read a slot before its time.   *)
Accounted ==
    /\ rcvd = read + lost + Count
    /\ \A k \in 0..(Count - 1) : buffer[Slot(k)] = read + lost + k + 1

(* put_index = get_index always means empty: is_full, which the reader     *)
(* asks for before it believes that, is only ever set on a FIFO with       *)
(* Size - 1 bytes in it.                                                   *)
FullIsFull == is_full => Count = Size - 1

(* The session thread never sleeps on bytes that have arrived: what came   *)
(* in after its last look has left a token in the semaphore.               *)
NoLostWakeup ==
    serial = "wait" =>
        /\ pc = "blocked" => Count = 0
        /\ pc = "take" /\ Count > 0 => sem > 0

(* A read ends, with all its bytes or short: the tokens that are left over *)
(* from bytes already read do not keep the loop going round.               *)
ReadEnds == pc = "reading" ~> pc = "idle"

(* RT_ASSERT(rx_fifo != RT_NULL) in rt_hw_uart_ymodem_rx: whenever the     *)
(* serial thread comes to store bytes, there is a FIFO to store them in.   *)
FifoThere == serial # "asserted"

(* The FIFO a thread is working on is never taken from under it: close     *)
(* frees it between two deliveries only, and between two reads.            *)
InUseIsLive ==
    serial = "store" \/ pc \in {"idle", "reading", "take", "blocked"} => fifo = "live"

(* Where the flag and the pointer stand at each point of open and close.   *)
LifeCycle ==
    /\ open <=> pc # "closed"
    /\ fifo = "null"  <=> pc \in {"closed", "opening", "cleared"}
    /\ fifo = "freed" <=> pc = "freed"
    /\ serial = "store" => fifo = "live" /\ (chunk = 0 => Count > 0)
    /\ serial # "store" => chunk = 0
    /\ rcvd + chunk <= MaxBytes
    /\ Halted => fifo # "live"

IndInv == TypeOK /\ LifeCycle /\ Accounted /\ FullIsFull /\ NoLostWakeup
----------------------------------------------------------------------------
Contents == IF fifo = "live" THEN [k \in 1..Count |-> buffer[Slot(k - 1)]] ELSE <<>>

Queue == INSTANCE DropOldestQueue
           WITH Capacity <- Size - 1, Bytes <- 1..MaxBytes,
                live <- fifo = "live", queue <- Contents

(* Byte by byte, the ring buffer is a queue that gives up its oldest byte. *)
ImplementsQueue == Queue!Spec
=============================================================================
