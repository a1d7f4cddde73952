------------------------------ MODULE SerialLine ------------------------------
(***************************************************************************)
(* A byte on its way from the line to the command it belongs to: DMA puts  *)
(* it into a ring (drv_usart.c), an interrupt at half and at the end of    *)
(* the ring, and one when the line falls idle, count what has come and     *)
(* send a message (serial.c, serial_pc.c), and the serial thread reads the *)
(* ring and passes the bytes to the decoder or to the device of the YMODEM *)
(* session, by uart_mode.                                                  *)
(*                                                                         *)
(* Interrupts come before threads.  They are late only while the processor *)
(* stands still, for the erasing of its flash by an upgrade thread; the    *)
(* DMA goes on then.  The DMA interrupt has the higher priority of the two.*)
(***************************************************************************)
EXTENDS Upacker, FiniteSets

CONSTANTS
    Ring,        \* RT_SERIAL_RB_BUFSZ, and the length of the DMA transfer
    QueueSize,   \* messages rx_mq_screen holds
    Commands,    \* bodies the PC sends
    Lag,         \* bound: messages waiting when a byte comes
    MaxEvents    \* bound: bytes made up on the line, commands broken off, overruns
                 \* and sessions

\* The indices of the ring have 16 bits.
ASSUME RingAssumption ==
    /\ Ring \in Nat /\ Ring > 1 /\ Ring < 65536 /\ Ring % 2 = 0
    /\ QueueSize \in Nat
ASSUME CommandAssumption ==
    \A c \in Commands : c \in [1..Body -> Bytes] /\ Intact(c) /\ Checked(c)
ASSUME LineAssumption ==
    Lag \in Nat /\ MaxEvents \in Nat

VARIABLES
    todo, events,             \* the line: what is left of a command; what has gone wrong so far
    buffer, dma,              \* the ring, and the index at which the DMA goes on
    quiet,                    \* the line has fallen idle since the last byte
    ht, tc, idle,             \* pending interrupts: half, end of the transfer, idle
    last_index,               \* uart->dma_rx.last_index
    put_index, get_index, is_full,
    queue,                    \* rx_mq_screen, the sizes
    pc,                       \* serial thread: "wait" for a message, "unpack" bytes
    rx_buffer,                \* what it has read and not yet passed on
    uart_mode,
    packer,                   \* pc_uart_packer
    called,                   \* what the callback got on the last byte, or <<>>
    window,                   \* history: the last bytes given to the decoder
    coming,                   \* history: bytes that have come and are not passed on yet
    overrun,                  \* history: DMA has overwritten a byte not yet read, or gone
                              \* once around since it was last looked at
    phantom                   \* history: the end of the transfer was counted twice, as a ring

pcline == <<todo, events, buffer, dma>>
flags  == <<ht, tc, idle>>
fifo   == <<put_index, get_index, is_full>>
above  == <<rx_buffer, uart_mode, packer, called, window, coming>>
vars   == <<todo, events, buffer, dma, quiet, ht, tc, idle, last_index, put_index, get_index,
            is_full, queue, pc, rx_buffer, uart_mode, packer, called, window,
            coming, overrun, phantom>>

\* What is in the ring.
Received(put, get, full) == IF put = get THEN IF full THEN Ring ELSE 0
                                         ELSE (put - get) % Ring
Pending == ht \/ tc \/ idle
Sound   == ~overrun /\ ~phantom
Drained == pc = "wait" /\ queue = <<>> /\ ~Pending /\ quiet
----------------------------------------------------------------------------
Init == /\ todo = <<>> /\ events = 0
        /\ buffer = [i \in 0..(Ring - 1) |-> STX_L] /\ dma = 0 /\ quiet = TRUE
        /\ ht = FALSE /\ tc = FALSE /\ idle = FALSE /\ last_index = 0
        /\ put_index = 0 /\ get_index = 0 /\ is_full = FALSE /\ queue = <<>>
        /\ pc = "wait" /\ rx_buffer = <<>>
        /\ uart_mode = "cmd" /\ packer = Fresh
        /\ called = <<>> /\ window = <<>> /\ coming = <<>>
        /\ overrun = FALSE /\ phantom = FALSE

(* The line.  A byte comes while an interrupt is pending only if the       *)
(* processor stands still, and then the serial thread has nothing to do.   *)
Receive(d) ==
    /\ pc = "wait" /\ Len(queue) <= IF Pending THEN 0 ELSE Lag
    /\ buffer' = [buffer EXCEPT ![dma] = d]
    /\ dma' = (dma + 1) % Ring
    /\ quiet' = FALSE
    /\ ht' = (ht \/ dma' = Ring \div 2)
    /\ tc' = (tc \/ dma' = 0)
    /\ Sound \/ (Drained /\ events < MaxEvents)
    /\ overrun' = (dma' = last_index \/ Len(coming) = Len(rx_buffer) + Ring)
    /\ coming' = IF overrun' THEN <<>> ELSE Append(coming, d)
    /\ phantom' = FALSE
    /\ UNCHANGED <<idle, last_index, fifo, queue, pc, rx_buffer, uart_mode,
                   packer, called, window>>

\* serialPort1.Write of a command.
Write(c) == /\ todo = <<>>
            /\ todo' = Header \o c
            /\ UNCHANGED <<events, buffer, dma, quiet, flags, last_index, fifo, queue, pc,
                           above, overrun, phantom>>

Arrive == /\ todo # <<>> /\ Receive(Head(todo))
          /\ todo' = Tail(todo) /\ events' = IF Sound THEN events ELSE events + 1

Noise(d) == /\ events < MaxEvents /\ events' = events + 1
            /\ Receive(d) /\ UNCHANGED todo

\* The rest of a command is lost.
BreakOff == /\ todo # <<>> /\ events < MaxEvents /\ events' = events + 1
            /\ todo' = <<>>
            /\ UNCHANGED <<buffer, dma, quiet, flags, last_index, fifo, queue, pc, above,
                           overrun, phantom>>

LineIdle == /\ pc = "wait" /\ ~quiet /\ quiet' = TRUE /\ idle' = TRUE
            /\ UNCHANGED <<pcline, ht, tc, last_index, fifo, queue, pc, above,
                           overrun, phantom>>
----------------------------------------------------------------------------
(* The interrupts.  recv_len may be negative: rt_size_t, the shift into    *)
(* the event and the 16 bits of put_index come to the sum modulo 2^16.     *)
\* Mutant: the ring is full one byte late.
UpdateStrict(len) ==
    LET raw  == (put_index + len) % 65536
        full == \/ is_full
                \/ get_index <= put_index /\ raw >= Ring /\ raw % Ring > get_index
                \/ get_index > put_index  /\ raw > get_index
    IN  /\ put_index' = raw % Ring
        /\ is_full'   = full
        /\ get_index' = IF full THEN raw % Ring ELSE get_index

\* rt_dma_recv_update_put_index
UpdatePutIndex(len) ==
    LET raw  == (put_index + len) % 65536
        full == \/ is_full
                \/ get_index <= put_index /\ raw >= Ring /\ raw % Ring >= get_index
                \/ get_index > put_index  /\ raw >= get_index
    IN  /\ put_index' = raw % Ring
        /\ is_full'   = full
        /\ get_index' = IF full THEN raw % Ring ELSE get_index

\* RT_SERIAL_EVENT_RX_DMADONE and uart_get_from_pc; a full queue drops the message.
Count(len) ==
    /\ last_index' = dma
    /\ IF len # 0
       THEN /\ UpdatePutIndex(len)
            /\ LET n == Received(put_index', get_index', is_full') IN
               queue' = IF Len(queue) < QueueSize THEN Append(queue, n) ELSE queue
       ELSE UNCHANGED <<fifo, queue>>
    /\ UNCHANGED <<pcline, quiet, pc, rx_buffer, uart_mode, packer, called,
                   window, overrun>>

DmaLength == IF dma = 0 THEN Ring - last_index ELSE dma - last_index

\* dma_isr, from the callback for half the transfer and from the one for its end.
HalfCplt == ht /\ ht' = FALSE /\ UNCHANGED <<tc, idle, phantom, coming>> /\ Count(DmaLength)

\* With the index at 0 already counted, the whole ring is counted again.
Cplt == /\ tc /\ ~ht /\ tc' = FALSE /\ UNCHANGED <<ht, idle>>
        /\ phantom' = (phantom \/ (dma = 0 /\ last_index = 0))
        /\ coming' = IF phantom' THEN <<>> ELSE coming
        /\ Count(DmaLength)

\* Mutant: the idle line is not looked at.
UartIsrNone == /\ idle /\ ~ht /\ ~tc /\ idle' = FALSE
               /\ UNCHANGED <<ht, tc, last_index, fifo, queue, pcline, quiet, pc, above,
                              overrun, phantom>>
UartIsr == /\ idle /\ ~ht /\ ~tc
           /\ idle' = FALSE /\ UNCHANGED <<ht, tc, phantom, coming>> /\ Count(dma - last_index)
----------------------------------------------------------------------------
(* The serial thread.                                                      *)
Least(a, b) == IF a < b THEN a ELSE b

\* Mutant: as many bytes as the message says.
ReadAsTold ==
    /\ ~Pending /\ pc = "wait" /\ queue # <<>>
    /\ queue' = Tail(queue)
    /\ LET n == Head(queue) IN
       /\ rx_buffer' = [j \in 1..n |-> buffer[(get_index + j - 1) % Ring]]
       /\ get_index' = (get_index + n) % Ring
       /\ is_full' = (is_full /\ n = 0)
    /\ pc' = "unpack"
    /\ UNCHANGED <<pcline, quiet, flags, last_index, put_index, uart_mode,
                   packer, called, window, coming, overrun, phantom>>

\* rt_mq_recv, then _serial_dma_rx: what is counted in between comes with a
\* message of its own.
Read == /\ ~Pending /\ pc = "wait" /\ queue # <<>>
        /\ queue' = Tail(queue)
        /\ LET n == Least(Head(queue), Received(put_index, get_index, is_full)) IN
           /\ rx_buffer' = [j \in 1..n |-> buffer[(get_index + j - 1) % Ring]]
           /\ get_index' = (get_index + n) % Ring
           /\ is_full' = (is_full /\ n = 0)
        /\ pc' = "unpack"
        /\ UNCHANGED <<pcline, quiet, flags, last_index, put_index, uart_mode,
                       packer, called, window, coming, overrun, phantom>>

LastOf(s) == IF Len(s) > Body + 3 THEN Tail(s) ELSE s

\* The bytes passed on are no longer coming.
Passed(n) == coming' = IF Sound THEN SubSeq(coming, n + 1, Len(coming)) ELSE coming

\* upacker_unpack gives the decoder byte after byte.
Unpack ==
    /\ ~Pending /\ pc = "unpack" /\ rx_buffer # <<>> /\ uart_mode = "cmd"
    /\ LET d == Head(rx_buffer) IN
       /\ packer' = Decoded(packer, d)
       /\ called' = IF Calls(packer, d) THEN Append(packer.data, d) ELSE <<>>
       /\ window' = LastOf(Append(window, d))
    /\ rx_buffer' = Tail(rx_buffer) /\ Passed(1)
    /\ UNCHANGED <<pcline, quiet, flags, last_index, fifo, queue, pc, uart_mode,
                   overrun, phantom>>

\* drv_uart_ymodem_pc_to_mcu
PassOn ==
    /\ ~Pending /\ pc = "unpack" /\ rx_buffer # <<>> /\ uart_mode = "ymodem"
    /\ rx_buffer' = <<>> /\ Passed(Len(rx_buffer))
    /\ UNCHANGED <<pcline, quiet, flags, last_index, fifo, queue, pc, uart_mode,
                   packer, called, window, overrun, phantom>>

Again == /\ ~Pending /\ pc = "unpack" /\ rx_buffer = <<>> /\ pc' = "wait"
         /\ UNCHANGED <<pcline, quiet, flags, last_index, fifo, queue, above, overrun, phantom>>

\* An upgrade thread begins or gives up a session; it runs when nobody else does.
Switch == /\ ~Pending /\ pc = "wait" /\ queue = <<>>
          /\ \/ uart_mode = "cmd" /\ uart_mode' = "ymodem"
                /\ events < MaxEvents /\ events' = events + 1
             \/ uart_mode = "ymodem" /\ uart_mode' = "cmd" /\ UNCHANGED events
          /\ UNCHANGED <<todo, buffer, dma, quiet, flags, last_index, fifo, queue, pc, rx_buffer,
                         packer, called, window, coming, overrun, phantom>>
----------------------------------------------------------------------------
Board == HalfCplt \/ Cplt \/ UartIsr \/ Read \/ Unpack \/ PassOn \/ Again

Next == \/ \E c \in Commands : Write(c)
        \/ Arrive \/ BreakOff \/ \E d \in Bytes : Noise(d)
        \/ LineIdle
        \/ Board \/ Switch

Spec == Init /\ [][Next]_vars

\* An idle line raises its interrupt, interrupts are served, the thread runs.
FairSpec == Spec /\ WF_vars(LineIdle) /\ WF_vars(Board)
----------------------------------------------------------------------------
TypeOK ==
    /\ todo \in Seq(Bytes) /\ events \in 0..MaxEvents
    /\ buffer \in [0..(Ring - 1) -> Bytes] /\ dma \in 0..(Ring - 1)
    /\ {quiet, ht, tc, idle, is_full, overrun, phantom} \subseteq BOOLEAN
    /\ last_index \in 0..(Ring - 1) /\ put_index \in 0..(Ring - 1) /\ get_index \in 0..(Ring - 1)
    /\ queue \in Seq(1..Ring) /\ pc \in {"wait", "unpack"}
    /\ rx_buffer \in Seq(Bytes) /\ uart_mode \in {"cmd", "ymodem"}
    /\ packer \in Packer /\ called \in Seq(Bytes)
    /\ window \in Seq(Bytes) /\ Len(window) <= Body + 3 /\ coming \in Seq(Bytes)
    /\ packer.state = 1 => Len(packer.data) < Body

(* Bytes are passed on in the order they came, each once, although three   *)
(* interrupts count them by a DMA index that has gone on, and although     *)
(* recv_len is negative when the one for the end of the ring comes late.   *)
HandedInOrder ==
    Sound => /\ Len(rx_buffer) <= Len(coming)
             /\ rx_buffer = SubSeq(coming, 1, Len(rx_buffer))

(* When interrupts and thread have done their work, nothing is left in the *)
(* ring: no message was too small or dropped, even after an overrun.       *)
NothingLeftBehind ==
    Drained =>
        /\ Received(put_index, get_index, is_full) = 0
        /\ put_index = dma /\ coming = <<>>

(* "A new packet arrives while one is incomplete" (upacker.c, 164): after  *)
(* whatever came before, broken off, damaged or in the other mode, the     *)
(* next undamaged command is decoded.                                      *)
ResyncsAtOnce == \A c \in Commands : window = Header \o c => called = c

(* Once the line is silent, all that has come gets passed on: nothing      *)
(* waits for a byte that never comes.                                      *)
AllHandedOn == <>[]quiet => <>[](coming = <<>>)
=============================================================================
