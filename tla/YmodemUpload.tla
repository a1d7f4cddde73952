----------------------------- MODULE YmodemUpload -----------------------------
(***************************************************************************)
(* An upload, from the click on the PC to the reset of the board: the      *)
(* upload threads of the PC tool (Form1.cs), which share one serial port   *)
(* and one packet number, the serial line, and on the board the serial     *)
(* thread (serial_pc.c, serial_unpack.c), the two kinds of upgrade threads *)
(* (mcu_upgrade.c, fpga_upgrade.c) and their YMODEM session (ymodem.c).    *)
(*                                                                         *)
(* The line carries a command, a packet or EOT as one item: what a partial *)
(* or damaged one comes to is the "state" of a packet.  UartYmodem has the *)
(* bytes.  The waits of the PC never run out (ReadTimeout is not set), those *)
(* of the board after three seconds: if "prompt", only when nothing is on  *)
(* the way to it, otherwise whenever nothing has come.                     *)
(***************************************************************************)
EXTENDS Integers, Sequences, FiniteSets

CONSTANTS
    Uploads,   \* bound: the clicks on btn_download, each with its thread
    Kinds,     \* of {"mcu", "fpga"}: what the chosen files are for
    Units,     \* 1024-byte units in a file
    Numbers,   \* sequence numbers there are, 256
    Tries,     \* handshake_timeout, RT_TICK_PER_SECOND
    Cans,      \* RYM_END_SESSION_SEND_CAN_NUM
    MaxFaults  \* bound: items lost or damaged on the line, failed flash calls

ASSUME UploadAssumption ==
    /\ Kinds \subseteq {"mcu", "fpga"} /\ IsFiniteSet(Uploads) /\ Uploads # {}
    /\ Units \in Nat \ {0} /\ Numbers \in Nat /\ Numbers > 1
    /\ Tries \in Nat \ {0} /\ Cans \in Nat \ {0} /\ MaxFaults \in Nat

VARIABLES
    pc, kind, sent,  \* of each upload: what it waits for, its file, units sent
    prompt,          \* PC and line are quicker than the waits of the board
    packetNumber,    \* the field of Form1 all uploads use
    up, down,        \* the line to the board; back, with the PC's input buffer
    mode,            \* uart_mode
    flag,            \* mcu_bin_rec_flag and fpga_upgrade_rec_flag
    created,         \* upgrade threads that have not run yet
    active,          \* the upgrade thread that runs the session, or "none"
    stage,           \* ctx->stage, "failed" once an error has ended the session
    tries,           \* i in _rym_do_handshake
    fifo,            \* what the session has not read yet
    got,             \* what on_data has stored since on_begin, as <<upload, unit>>
    asserted,        \* threads RT_ASSERT has stopped
    faults,          \* history: faults so far
    delivered,       \* history: uploads the board has seen the EOT of, whole
    clean            \* history: no session has begun with an upload half way in
                     \* an earlier one, or with an answer of it unread

pcvars == <<pc, kind, sent, prompt, packetNumber>>
history == <<delivered, clean>>
board  == <<mode, flag, created, active, stage, tries, fifo, got, asserted, history>>
vars == <<pc, kind, sent, prompt, packetNumber, up, down, mode, flag, created, active, stage, tries,
          fifo, got, asserted, faults, delivered, clean>>

Packet(u, n, unit) ==
    [type |-> "packet", by |-> u, seq |-> n, unit |-> unit, state |-> "good"]
Closing == Units + 1

\* The second number of the initial packet is 255 whatever the first one is.
Paired(p) == p.unit = 0 => p.seq = 0

Busy == stage \in {"establishing", "established", "transmitting", "finishing"}

Whole(u) == got = [i \in 1..Units |-> <<u, i>>]
----------------------------------------------------------------------------
Init == /\ pc = [u \in Uploads |-> "idle"]
        /\ kind \in [Uploads -> Kinds] /\ sent = [u \in Uploads |-> 0]
        /\ prompt \in BOOLEAN /\ packetNumber = 0
        /\ up = <<>> /\ down = <<>>
        /\ mode = "cmd" /\ flag = [k \in Kinds |-> FALSE] /\ created = {}
        /\ active = "none" /\ stage = "none" /\ tries = 0 /\ fifo = <<>> /\ got = <<>>
        /\ asserted = {} /\ faults = 0
        /\ delivered = {} /\ clean = TRUE

(* The PC: YmodemUploadFile, in a thread of its own per click.             *)
Click(u) ==
    /\ pc[u] = "idle"
    /\ pc' = [pc EXCEPT ![u] = "begin"]
    /\ up' = Append(up, [type |-> "command", kind |-> kind[u]])
    /\ UNCHANGED <<kind, sent, prompt, packetNumber, down, board, faults>>

Expected(p) == IF p \in {"begin", "ready"} THEN "C" ELSE "ACK"
Waiting == {"begin", "named", "ready", "unit", "eot"}

Reads(u, p) == /\ pc[u] = p
               /\ down # <<>> /\ Head(down) = Expected(p)
               /\ down' = Tail(down)

\* Mutant: the numbers start anew with each upload.
NamedFromZero(u) ==
    /\ Reads(u, "begin")
    /\ packetNumber' = 0
    /\ up' = Append(up, Packet(u, 0, 0))
    /\ pc' = [pc EXCEPT ![u] = "named"]
    /\ UNCHANGED <<kind, sent, prompt, board, faults>>

Named(u) ==
    /\ Reads(u, "begin")
    /\ up' = Append(up, Packet(u, packetNumber, 0))
    /\ pc' = [pc EXCEPT ![u] = "named"]
    /\ UNCHANGED <<kind, sent, prompt, packetNumber, board, faults>>

NamedOK(u) ==
    /\ Reads(u, "named")
    /\ pc' = [pc EXCEPT ![u] = "ready"]
    /\ UNCHANGED <<kind, sent, prompt, packetNumber, up, board, faults>>

\* The next unit goes out on C, the others each on the ACK of the one before.
SendUnit(u) ==
    /\ Reads(u, "ready") \/ Reads(u, "unit")
    /\ sent[u] < Units
    /\ sent' = [sent EXCEPT ![u] = @ + 1]
    /\ packetNumber' = (packetNumber + 1) % Numbers
    /\ up' = Append(up, Packet(u, packetNumber', sent'[u]))
    /\ pc' = [pc EXCEPT ![u] = "unit"]
    /\ UNCHANGED <<kind, prompt, board, faults>>

\* Mutant: the last unit is left out.
SendEotEarly(u) ==
    /\ Reads(u, "unit") /\ sent[u] = Units - 1
    /\ up' = Append(up, [type |-> "EOT"])
    /\ pc' = [pc EXCEPT ![u] = "eot"]
    /\ UNCHANGED <<kind, sent, prompt, packetNumber, board, faults>>

SendEot(u) ==
    /\ Reads(u, "unit") /\ sent[u] = Units
    /\ up' = Append(up, [type |-> "EOT"])
    /\ pc' = [pc EXCEPT ![u] = "eot"]
    /\ UNCHANGED <<kind, sent, prompt, packetNumber, board, faults>>

\* It does not wait for the ACK of the closing packet.
Close(u) ==
    /\ Reads(u, "eot")
    /\ packetNumber' = 0
    /\ up' = Append(up, Packet(u, 0, Closing))
    /\ pc' = [pc EXCEPT ![u] = "done"]
    /\ UNCHANGED <<kind, sent, prompt, board, faults>>

Refused(u) ==
    /\ pc[u] \in Waiting
    /\ down # <<>> /\ Head(down) # Expected(pc[u])
    /\ down' = Tail(down)
    /\ pc' = [pc EXCEPT ![u] = "failed"]
    /\ UNCHANGED <<kind, sent, prompt, packetNumber, up, board, faults>>

\* serialPort1_DataReceived: ReadExisting takes what no thread has read yet.
DataReceived ==
    /\ down # <<>> /\ down' = <<>>
    /\ UNCHANGED <<pcvars, up, board, faults>>
----------------------------------------------------------------------------
(* The line.                                                               *)
Fault == faults < MaxFaults /\ faults' = faults + 1

Lose == /\ Fault /\ up # <<>>
        /\ up' = Tail(up)
        /\ UNCHANGED <<pcvars, down, board>>

\* Bytes of a packet are wrong or missing: its CRC fails or it ends short.
Damage(s) == /\ Fault /\ up # <<>>
             /\ Head(up).type = "packet" /\ Head(up).state = "good"
             /\ up' = <<[Head(up) EXCEPT !.state = s]>> \o Tail(up)
             /\ UNCHANGED <<pcvars, down, board>>
----------------------------------------------------------------------------
(* The board.  Its serial thread has priority 4, the upgrade threads 27.   *)
\* The command starts a thread unless one of its kind is under way.
Command ==
    /\ up # <<>> /\ mode = "cmd"
    /\ up' = Tail(up)
    /\ LET item == Head(up) IN
       IF item.type = "command" /\ ~flag[item.kind]
       THEN /\ created' = created \cup {item.kind}
            /\ flag' = [flag EXCEPT ![item.kind] = TRUE]
       ELSE UNCHANGED <<created, flag>>
    /\ UNCHANGED <<pcvars, down, mode, active, stage, tries, fifo, got, asserted, faults,
                   history>>

\* With the device closed again, what comes is dropped.
ToFifo ==
    /\ up # <<>> /\ mode = "ymodem"
    /\ up' = Tail(up)
    /\ fifo' = IF Busy THEN Append(fifo, Head(up)) ELSE fifo
    /\ UNCHANGED <<pcvars, down, mode, flag, created, active, stage, tries, got, asserted,
                   faults, history>>

Start(k) ==
    /\ k \in created /\ created' = created \ {k}
    /\ mode' = "ymodem"
    /\ active = "none"
    /\ active' = k /\ stage' = "establishing" /\ tries' = 1
    /\ down' = Append(down, "C")
    /\ fifo' = <<>>
    /\ clean' = (clean /\ down = <<>> /\ \A u \in Uploads : pc[u] \notin Waiting \ {"begin"})
    /\ UNCHANGED <<pcvars, up, flag, got, asserted, faults, delivered>>

\* RT_ASSERT(_rym_the_ctx == 0) in rym_recv_on_device.
StartAsserts(k) ==
    /\ k \in created /\ created' = created \ {k}
    /\ mode' = "ymodem"
    /\ Busy
    /\ asserted' = asserted \cup {k}
    /\ UNCHANGED <<pcvars, up, down, flag, active, stage, tries, fifo, got, faults, history>>

(* The session.  A thread that has just been created runs before a session *)
(* that waits.                                                             *)
Reading == created = {} /\ Busy /\ fifo # <<>>
Silence == /\ fifo = <<>>
           /\ prompt => up = <<>> /\ (down = <<>> \/ \A u \in Uploads : pc[u] \notin Waiting)
Rest    == <<pcvars, up, mode, flag, created, active, asserted>>

Begins(a) == a.type = "packet" /\ a.state = "good" /\ a.seq = 0 /\ Paired(a)
Ignored(a) == /\ stage = "established"
              /\ a.type = "packet" /\ a.state # "short" /\ a.seq = 0 /\ Paired(a)
Data(a) == a.type = "packet" /\ a.state = "good" /\ Paired(a) /\ ~Ignored(a)
\* Of the closing packet only the first 133 bytes are read, and checked.
Closes(a) == a.type = "packet" /\ a.unit = Closing

\* A wait without an answer, or a byte that begins no packet: C again.
AskAgain ==
    /\ created = {} /\ stage = "establishing" /\ tries < Tries
    /\ \/ Silence /\ UNCHANGED fifo
       \/ fifo # <<>> /\ Head(fifo).type = "EOT" /\ fifo' = Tail(fifo)
    /\ tries' = tries + 1
    /\ down' = Append(down, "C")
    /\ UNCHANGED <<Rest, stage, got, faults, history>>

\* on_begin erases; name and size of the file are only logged.
Begin ==
    /\ Reading /\ stage = "establishing" /\ Begins(Head(fifo))
    /\ fifo' = Tail(fifo)
    /\ got' = <<>>
    /\ stage' = "established"
    /\ down' = down \o <<"ACK", "C">>
    /\ UNCHANGED <<Rest, tries, faults, history>>

Ignore ==
    /\ Reading /\ Ignored(Head(fifo))
    /\ fifo' = Tail(fifo)
    /\ UNCHANGED <<Rest, down, stage, tries, got, faults, history>>

\* on_data writes; neither it nor _rym_trans_data looks at the number.
TakeUnit ==
    /\ Reading /\ stage \in {"established", "transmitting"} /\ Data(Head(fifo))
    /\ fifo' = Tail(fifo)
    /\ got' = Append(got, <<Head(fifo).by, Head(fifo).unit>>)
    /\ stage' = "transmitting"
    /\ down' = Append(down, "ACK")
    /\ UNCHANGED <<Rest, tries, faults, history>>

\* Mutant: the closing packet is not waited for.
TakeEotLast ==
    /\ Reading /\ stage \in {"established", "transmitting"} /\ Head(fifo).type = "EOT"
    /\ fifo' = <<>>
    /\ stage' = "finished"
    /\ down' = Append(down, "ACK")
    /\ delivered' = delivered \cup {u \in Uploads : Whole(u)}
    /\ UNCHANGED <<Rest, tries, got, faults, clean>>

TakeEot ==
    /\ Reading /\ stage \in {"established", "transmitting"} /\ Head(fifo).type = "EOT"
    /\ fifo' = Tail(fifo)
    /\ stage' = "finishing"
    /\ down' = Append(down, "ACK")
    /\ delivered' = delivered \cup {u \in Uploads : Whole(u)}
    /\ UNCHANGED <<Rest, tries, got, faults, clean>>

Finish ==
    /\ Reading /\ stage = "finishing" /\ Closes(Head(fifo))
    /\ fifo' = <<>>
    /\ stage' = "finished"
    /\ down' = Append(down, "ACK")
    /\ UNCHANGED <<Rest, tries, got, faults, history>>

\* The error paths: the context and the FIFO are gone.
Fails == stage' = "failed" /\ fifo' = <<>> /\ UNCHANGED <<Rest, tries, history>>

\* 0xfe, 0xef and 0xff of a command are answered with C, 0x02 is taken for STX.
CommandBreaks ==
    /\ Reading /\ stage = "establishing" /\ Head(fifo).type = "command"
    /\ LET more == IF tries + 3 <= Tries THEN 3 ELSE Tries - tries IN
       down' = down \o [i \in 1..more |-> "C"]
    /\ Fails /\ UNCHANGED <<got, faults>>

\* Mutant: the handshake does not return when its tries are used up.
TimedOutLater == created = {} /\ Busy /\ Silence /\ stage # "establishing"

TimedOut == /\ created = {} /\ Busy /\ Silence
            /\ stage = "establishing" => tries = Tries

Rejects(a) ==
    CASE stage = "establishing" -> IF a.type = "packet" THEN ~Begins(a)
                                                        ELSE a.type = "EOT" /\ tries = Tries
      [] stage = "finishing"    -> ~(Closes(a) /\ a.state = "good")
      [] OTHER                  -> a.type # "EOT" /\ ~Ignored(a) /\ ~Data(a)

Break == /\ TimedOut \/ (Reading /\ Rejects(Head(fifo)))
         /\ Fails /\ UNCHANGED <<down, got, faults>>

\* fal_partition_erase_all fails: no CAN is sent.
EraseFails == /\ Reading /\ stage = "establishing" /\ Begins(Head(fifo))
              /\ active = "mcu" /\ Fault
              /\ Fails /\ got' = <<>> /\ UNCHANGED down

\* Mutant: the result of the write is not looked at.
WriteFailsIgnored ==
    /\ Reading /\ stage \in {"established", "transmitting"} /\ Data(Head(fifo))
    /\ Fault
    /\ fifo' = Tail(fifo)
    /\ stage' = "transmitting"
    /\ down' = Append(down, "ACK")
    /\ UNCHANGED <<Rest, tries, got, history>>

\* fal_partition_write fails, or as_verify finds a difference.
WriteFails == /\ Reading /\ stage \in {"established", "transmitting"} /\ Data(Head(fifo))
              /\ Fault
              /\ down' = down \o [i \in 1..Cans |-> "CAN"]
              /\ Fails /\ UNCHANGED got

\* Mutant: the flag is not given up.
LeaveKeepsFlag ==
    /\ created = {} /\ stage = "failed" /\ active = "mcu"
    /\ mode' = "cmd"
    /\ active' = "none" /\ stage' = "none" /\ tries' = 0
    /\ UNCHANGED <<pcvars, up, down, flag, created, fifo, got, asserted, faults, history>>

\* After a second the thread of the MCU upgrade gives up flag and mode.
Leave ==
    /\ created = {} /\ stage = "failed" /\ active = "mcu"
    /\ flag' = [flag EXCEPT ![active] = FALSE]
    /\ mode' = "cmd"
    /\ active' = "none" /\ stage' = "none" /\ tries' = 0
    /\ UNCHANGED <<pcvars, up, down, created, fifo, got, asserted, faults, history>>

\* rt_hw_cpu_reset, which the FPGA upgrade ends with in any case.
Reset ==
    /\ created = {}
    /\ stage = "finished" \/ (stage = "failed" /\ active = "fpga")
    /\ mode' = "cmd" /\ flag' = [k \in Kinds |-> FALSE]
    /\ active' = "none" /\ stage' = "none" /\ tries' = 0 /\ asserted' = {}
    /\ UNCHANGED <<pcvars, up, down, created, fifo, got, faults, history>>
----------------------------------------------------------------------------
Answer(u) == Named(u) \/ NamedOK(u) \/ SendUnit(u) \/ SendEot(u) \/ Close(u) \/ Refused(u)

Serial == Command \/ ToFifo

Session == \/ \E k \in Kinds : Start(k) \/ StartAsserts(k)
           \/ AskAgain \/ Begin \/ Ignore \/ TakeUnit \/ TakeEot \/ Finish
           \/ CommandBreaks \/ Break \/ EraseFails \/ WriteFails
           \/ Leave \/ Reset

Next == \/ \E u \in Uploads : Click(u) \/ Answer(u)
        \/ DataReceived
        \/ Lose \/ \E s \in {"crc", "short"} : Damage(s)
        \/ Serial \/ Session

Spec == Init /\ [][Next]_vars

\* The board's scheduler runs its threads; only a prompt PC need answer.
FairSpec == /\ Spec
            /\ WF_vars(Serial) /\ WF_vars(Session)
            /\ WF_vars(prompt /\ \E u \in Uploads : Answer(u))
----------------------------------------------------------------------------
TypeOK ==
    /\ pc \in [Uploads -> {"idle", "done", "failed"} \cup Waiting]
    /\ kind \in [Uploads -> Kinds] /\ sent \in [Uploads -> 0..Units]
    /\ prompt \in BOOLEAN /\ packetNumber \in 0..(Numbers - 1)
    /\ mode \in {"cmd", "ymodem"} /\ flag \in [Kinds -> BOOLEAN]
    /\ created \subseteq Kinds /\ active \in Kinds \cup {"none"}
    /\ stage \in {"none", "establishing", "established", "transmitting", "finishing",
                  "finished", "failed"}
    /\ tries \in 0..Tries
    /\ asserted \subseteq Kinds /\ faults \in 0..MaxFaults /\ delivered \subseteq Uploads
    /\ clean \in BOOLEAN
    /\ \A i \in 1..Len(down) : down[i] \in {"C", "ACK", "CAN"}
    /\ \A i \in 1..Len(got) : got[i] \in Uploads \X (0..Closing)

Alone(u) == \A v \in Uploads \ {u} : pc[v] = "idle"

\* Only one upload so far; or several, and nothing of a session left over
\* in the next one.
Undisturbed == (\E u \in Uploads : Alone(u)) \/ clean

(* A session that ends in the reset has stored one file, all of it and in  *)
(* order, although it checks no packet number and several upload threads   *)
(* may answer its bytes.                                                   *)
CommitsWholeFile == stage = "finished" /\ Undisturbed => \E u \in Uploads : Whole(u)

(* The board never finishes what the PC takes for unfinished: the closing  *)
(* packet is only sent by an upload that is done.                          *)
FinishIsKnown == stage = "finished" => \E u \in Uploads : pc[u] = "done"

(* The PC says done only of a file that the board has stored whole, and    *)
(* knows to be whole.                                                      *)
SaysDoneOfWhole ==
    \A u \in Uploads : pc[u] = "done" /\ Undisturbed => u \in delivered

(* The bytes go to a session exactly while there is one, and a flag is set *)
(* exactly while there is a thread of its kind: whatever ends a session,   *)
(* the next command finds the board ready, unless RT_ASSERT has stopped    *)
(* the thread the flag belongs to.                                         *)
NothingLeftSet ==
    /\ mode = "ymodem" <=> active # "none"
    /\ \A k \in Kinds : flag[k] <=> k \in created \cup asserted \cup {active}

(* Every session ends, whatever the PC and the line do.                    *)
SessionEnds == active # "none" ~> active = "none"

(* Once an upload has failed in mid-file and the line is quiet, no later   *)
(* one gets through to the board, however often it is tried: packetNumber  *)
(* is only reset by a success (Form1.cs, 197).                             *)
Stranded == /\ packetNumber # 0 /\ up = <<>> /\ fifo = <<>> /\ down = <<>>
            /\ \A u \in Uploads : pc[u] \in {"idle", "failed"}
RetriesFail ==
    [](Stranded => [](stage # "finished" /\ \A u \in Uploads : pc[u] # "done"))

(* "ret: is the transfer succeeded? true is if yes" (Form1.cs, 63).        *)
TrueMeansSucceeded ==
    prompt => \A u \in Uploads : pc[u] = "done" => ~(stage = "failed" /\ Whole(u))

(* "crc check succ,set env flag.", says the board before it resets        *)
(* (mcu_upgrade.c, 184): the file it has stored is the one that was sent.  *)
CrcChecked ==
    prompt /\ stage = "finished" /\ active = "mcu" => \E u \in Uploads : Whole(u)
=============================================================================
