------------------------------ MODULE FpgaFlash ------------------------------
(***************************************************************************)
(* The session of fpga_upgrade.c writes the file straight into the         *)
(* configuration flash of the FPGA, an EPCS chip on four pins of its own:  *)
(* bulk erase, then for each packet page programs and a reading back       *)
(* (fpgaupdate.c).  There is no second copy and no later check.            *)
(*                                                                         *)
(* The shell has the command ff_read, which uses the same pins.  Its       *)
(* thread has priority 20, the upgrade thread 27, and nothing locks the    *)
(* chip: it may come in between any two bits the upgrade thread sends, and *)
(* is done before that one goes on.                                        *)
(*                                                                         *)
(* Flash is counted in slots of 128 bytes, the smallest packet.  A slot is *)
(* the set of the bits that are 0 in it: erased is {}, and to program is   *)
(* to join.  Bytes go out bit by bit; a command is taken as its selection, *)
(* opcode, address, data and deselection.                                  *)
(***************************************************************************)
EXTENDS Integers, Sequences, FiniteSets

CONSTANTS
    Capacity,   \* slots of the chip
    Page,       \* slots of a page, 256 bytes
    Large,      \* slots of an STX packet, an SOH packet has one
    Bits,       \* bits that tell slots apart
    MaxSlots,   \* bound: slots sent in a session, more than Capacity
    MaxPeeks,   \* bound: calls of ff_read in mid-command
    MaxFaults   \* bound: page programs that leave bits behind

ASSUME ChipAssumption ==
    /\ Page \in Nat \ {0} /\ Large \in Nat \ {0} /\ Capacity \in Nat \ {0}
    /\ Capacity % Page = 0 /\ Large % Page = 0
ASSUME BoundAssumption ==
    /\ MaxSlots \in Nat /\ MaxPeeks \in Nat /\ MaxFaults \in Nat /\ IsFiniteSet(Bits)

VARIABLES
    stage,       \* "idle", "erasing", "waiting" for a packet, "programming",
                 \* "verifying", then "finished" or "failed"
    command,     \* the command under way: "wren", "erase", "prog", "status", "read"
    step,        \* where it is: "select", "opcode", "address", "data", "poll", "deselect"
    packet,      \* buf, len
    page,        \* i in as_prog
    spi_f_addr,  \* in slots
    low,         \* the pin EP_CS
    heard,       \* chip: the opcode it has taken since EP_CS went low, "none", "page"
                 \* when the data of a page program are in as well
    adr,         \* chip: the address it has taken
    wel, busy,   \* chip: write enable latch; slots it is changing, while WIP is set
    mem,         \* chip: its contents
    sent,        \* history: what the session has brought so far
    harm,        \* history of the session: "floating" bits compared, a page program
                 \* that took "foreign" bits, or that "wrapped" in its page
    peeks, faults

thread == <<stage, command, step, packet, page, spi_f_addr>>
chip   == <<low, heard, adr, wel, busy, mem>>
vars   == <<stage, command, step, packet, page, spi_f_addr, low, heard, adr, wel, busy, mem,
            sent, harm, peeks, faults>>

Slots == 0..(Capacity - 1)
Data  == SUBSET Bits
Erased == [s \in Slots |-> {}]
PageOf(a) == {s \in Slots : s \div Page = a \div Page}

\* as_prog: pages of this packet, slots in the current one.
Pages   == (Len(packet) + Page - 1) \div Page
PageLen == IF page = Pages - 1 /\ Len(packet) % Page # 0 THEN Len(packet) % Page ELSE Page

\* The chip goes on at the start of the page when it comes to its end.
Place(j) == (adr - (adr % Page)) + ((adr + j - 1) % Page)
Programmed(s) == mem[s] \cup UNION {packet[page * Page + j] :
                                        j \in {i \in 1..PageLen : Place(i) = s}}

Same == \A j \in 1..Len(packet) : mem[(adr + j - 1) % Capacity] = packet[j]
----------------------------------------------------------------------------
Init == /\ stage = "idle" /\ command = "none" /\ step = "none"
        /\ packet = <<>> /\ page = 0 /\ spi_f_addr = 0
        /\ low = FALSE /\ heard = "none" /\ adr = 0 /\ wel = FALSE /\ busy = {}
        /\ mem \in [Slots -> Data]
        /\ sent = <<>> /\ harm = {} /\ peeks = 0 /\ faults = 0

Do(c) == command' = c /\ step' = "select"

(* The session calls back.                                                 *)
\* ymodem_on_begin: as_program_start, and on to as_bulk_erase.
OnBegin ==
    /\ stage = "idle"
    /\ stage' = "erasing" /\ Do("wren")
    /\ spi_f_addr' = 0 /\ sent' = <<>> /\ harm' = {}
    /\ low' = FALSE
    /\ UNCHANGED <<packet, page, heard, adr, wel, busy, mem, peeks, faults>>

\* ymodem_on_data: nothing compares the address with the capacity.
OnData(data) ==
    /\ stage = "waiting" /\ Len(sent) + Len(data) <= MaxSlots
    /\ packet' = data /\ page' = 0 /\ sent' = sent \o data
    /\ stage' = "programming" /\ Do("wren")
    /\ UNCHANGED <<spi_f_addr, chip, harm, peeks, faults>>

\* EOT and closing packet; or an error or a timeout of the session.
EndOfSession(end) ==
    /\ stage = "waiting" /\ stage' = end
    /\ UNCHANGED <<command, step, packet, page, spi_f_addr, chip, sent, harm, peeks, faults>>

\* ymodem_recv: as_program_done and rt_hw_cpu_reset, however it has ended.
Done ==
    /\ stage \in {"finished", "failed"}
    /\ stage' = "idle" /\ command' = "none" /\ step' = "none"
    /\ packet' = <<>> /\ page' = 0 /\ spi_f_addr' = 0
    /\ low' = FALSE /\ heard' = "none"
    /\ UNCHANGED <<adr, wel, busy, mem, sent, harm, peeks, faults>>
----------------------------------------------------------------------------
(* A command of fpgaupdate.c, from EP_CS low to EP_CS high.                *)
\* To a chip that is selected already the command is more of the last one.
Select ==
    /\ step = "select" /\ step' = "opcode"
    /\ low' = TRUE
    /\ heard' = IF low THEN heard ELSE "none"
    /\ UNCHANGED <<stage, command, packet, page, spi_f_addr, adr, wel, busy, mem,
                   sent, harm, peeks, faults>>

\* While WIP is set the chip only tells its status.
Accepts(c) == \/ c = "status"
              \/ c \in {"wren", "read"} /\ busy = {}
              \/ c \in {"erase", "prog"} /\ busy = {} /\ wel

Opcode ==
    /\ step = "opcode"
    /\ step' = CASE command \in {"wren", "erase"} -> "deselect"
                 [] command = "status"            -> "poll"
                 [] OTHER                         -> "address"
    /\ heard' = IF low /\ heard = "none" /\ Accepts(command) THEN command ELSE heard
    /\ UNCHANGED <<stage, command, packet, page, spi_f_addr, low, adr, wel, busy, mem,
                   sent, harm, peeks, faults>>

\* Mutant: the address of the packet, not of the page.
AddressOfPacket ==
    /\ step = "address" /\ step' = "data"
    /\ adr' = IF low /\ heard = command THEN spi_f_addr % Capacity ELSE adr
    /\ UNCHANGED <<stage, command, packet, page, spi_f_addr, low, heard, wel, busy, mem,
                   sent, harm, peeks, faults>>

\* temp_Address, or the EPCS_Address of as_verify; the chip leaves out high bits.
Address ==
    /\ step = "address" /\ step' = "data"
    /\ adr' = IF low /\ heard = command
              THEN (spi_f_addr + IF command = "prog" THEN page * Page ELSE 0) % Capacity
              ELSE adr
    /\ UNCHANGED <<stage, command, packet, page, spi_f_addr, low, heard, wel, busy, mem,
                   sent, harm, peeks, faults>>

\* as_prog sends the bytes of a page.
SendPage ==
    /\ step = "data" /\ command = "prog" /\ step' = "deselect"
    /\ LET taken == low /\ heard = "prog" IN
       /\ heard' = IF taken THEN "page" ELSE heard
       /\ harm'  = IF taken /\ (adr % Page) + PageLen > Page THEN harm \cup {"wrapped"} ELSE harm
    /\ UNCHANGED <<stage, command, packet, page, spi_f_addr, low, adr, wel, busy, mem,
                   sent, peeks, faults>>

Listening == low /\ heard = "read"

\* Mutant: the result is not looked at.
VerifyIgnored ==
    /\ step = "data" /\ command = "read"
    /\ step' = "deselect"
    /\ harm' = IF Listening THEN harm ELSE harm \cup {"floating"}
    /\ UNCHANGED <<stage, command, packet, page, spi_f_addr, chip, sent, peeks, faults>>

\* Mutant: as_verify returns, and the session goes on to the next packet.
VerifyGoesOn ==
    /\ step = "data" /\ command = "read"
    /\ \/ (Listening => Same) /\ step' = "deselect" /\ UNCHANGED stage
       \/ (Listening => ~Same) /\ stage' = "waiting" /\ step' = "none"
    /\ harm' = IF Listening THEN harm ELSE harm \cup {"floating"}
    /\ UNCHANGED <<command, packet, page, spi_f_addr, chip, sent, peeks, faults>>

\* as_verify compares byte by byte and returns at the first difference with EP_CS
\* low, ymodem_on_data then with RYM_CODE_CAN.  No chip answers if none listens.
Verify ==
    /\ step = "data" /\ command = "read"
    /\ \/ (Listening => Same) /\ step' = "deselect" /\ UNCHANGED stage
       \/ (Listening => ~Same) /\ stage' = "failed" /\ step' = "none"
    /\ harm' = IF Listening THEN harm ELSE harm \cup {"floating"}
    /\ UNCHANGED <<command, packet, page, spi_f_addr, chip, sent, peeks, faults>>

\* Mutant: the loop runs while the bit is not set.
PollInverted ==
    /\ step = "poll" /\ low /\ heard = "status" /\ busy # {}
    /\ step' = "deselect"
    /\ UNCHANGED <<stage, command, packet, page, spi_f_addr, chip, sent, harm, peeks, faults>>

\* The loop on WIP; reading bit by bit goes on until it is clear.
Poll ==
    /\ step = "poll" /\ low /\ heard = "status" /\ busy = {}
    /\ step' = "deselect"
    /\ UNCHANGED <<stage, command, packet, page, spi_f_addr, chip, sent, harm, peeks, faults>>

\* Nobody drives the pin: the loop may end at any time, or never.
PollFloats ==
    /\ step = "poll" /\ ~(low /\ heard = "status")
    /\ step' = "deselect"
    /\ UNCHANGED <<stage, command, packet, page, spi_f_addr, chip, sent, harm, peeks, faults>>

\* What the chip does when EP_CS goes high.
Execute ==
    CASE heard = "wren"  -> wel' = TRUE /\ UNCHANGED <<busy, mem, faults>>
      [] heard = "erase" -> wel' = FALSE /\ busy' = Slots /\ mem' = Erased /\ UNCHANGED faults
      [] heard = "page"  ->
            /\ wel' = FALSE /\ busy' = PageOf(adr)
            /\ \E weak \in SUBSET PageOf(adr) :
                  /\ weak # {} => faults < MaxFaults
                  /\ faults' = IF weak = {} THEN faults ELSE faults + 1
                  /\ mem' = [s \in Slots |-> IF s \in weak THEN mem[s] ELSE Programmed(s)]
      [] OTHER           -> UNCHANGED <<wel, busy, mem, faults>>

\* Mutant: one page too many.
MorePagesThan == page < Pages
MorePages == page + 1 < Pages

\* Mutant: write enable only before the first page.
NextOnce ==
    CASE command = "wren"   -> Do(IF stage = "erasing" THEN "erase" ELSE "prog")
                               /\ UNCHANGED <<stage, page, spi_f_addr>>
      [] command \in {"erase", "prog"} -> Do("status") /\ UNCHANGED <<stage, page, spi_f_addr>>
      [] command = "status" /\ stage = "programming" /\ MorePages ->
            Do("prog") /\ page' = page + 1 /\ UNCHANGED <<stage, spi_f_addr>>
      [] command = "status" /\ stage = "programming" /\ ~MorePages ->
            Do("read") /\ stage' = "verifying" /\ UNCHANGED <<page, spi_f_addr>>
      [] OTHER -> /\ stage' = "waiting" /\ command' = "none" /\ step' = "none" /\ page' = 0
                  /\ spi_f_addr' = spi_f_addr + IF command = "read" THEN Len(packet) ELSE 0

\* What the driver does after a command.
After ==
    CASE command = "wren"   -> Do(IF stage = "erasing" THEN "erase" ELSE "prog")
                               /\ UNCHANGED <<stage, page, spi_f_addr>>
      [] command \in {"erase", "prog"} -> Do("status") /\ UNCHANGED <<stage, page, spi_f_addr>>
      [] command = "status" /\ stage = "programming" /\ MorePages ->
            Do("wren") /\ page' = page + 1 /\ UNCHANGED <<stage, spi_f_addr>>
      [] command = "status" /\ stage = "programming" /\ ~MorePages ->
            Do("read") /\ stage' = "verifying" /\ UNCHANGED <<page, spi_f_addr>>
      [] OTHER -> /\ stage' = "waiting" /\ command' = "none" /\ step' = "none" /\ page' = 0
                  /\ spi_f_addr' = spi_f_addr + IF command = "read" THEN Len(packet) ELSE 0

Deselect ==
    /\ step = "deselect"
    /\ low' = FALSE /\ heard' = "none"
    /\ Execute
    /\ After
    /\ UNCHANGED <<packet, adr, sent, harm, peeks>>
----------------------------------------------------------------------------
Ready == /\ busy # {} /\ busy' = {}
         /\ UNCHANGED <<thread, low, heard, adr, wel, mem, sent, harm, peeks, faults>>

(* ff_read in mid-command: its opcode, address and clocks reach a chip that *)
(* is selected as the rest of that command, and it leaves EP_CS high.  Only *)
(* of a page program is anything executed then, if the bits come to whole  *)
(* bytes: at the address it was given, or at any if that was not complete. *)
FfRead ==
    /\ low /\ peeks < MaxPeeks
    /\ peeks' = peeks + 1
    /\ low' = FALSE /\ heard' = "none"
    /\ \/ UNCHANGED <<wel, busy, mem, harm>>
       \/ /\ heard \in {"prog", "page"}
          /\ harm' = harm \cup {"foreign"}
          /\ wel' = FALSE
          /\ \E a \in IF step = "address" THEN Slots ELSE {adr} :
             \E junk \in [PageOf(a) -> Data] :
                /\ busy' = PageOf(a)
                /\ mem' = [s \in Slots |-> IF s \in PageOf(a) THEN mem[s] \cup junk[s] ELSE mem[s]]
    /\ UNCHANGED <<thread, adr, sent, faults>>

\* What the chip was changing may be anything.
PowerLoss ==
    /\ stage # "idle"
    /\ stage' = "idle" /\ command' = "none" /\ step' = "none"
    /\ packet' = <<>> /\ page' = 0 /\ spi_f_addr' = 0
    /\ low' = FALSE /\ heard' = "none" /\ wel' = FALSE /\ busy' = {}
    /\ \E junk \in [busy -> Data] : mem' = [s \in Slots |-> IF s \in busy THEN junk[s] ELSE mem[s]]
    /\ UNCHANGED <<adr, sent, harm, peeks, faults>>
----------------------------------------------------------------------------
Sizes == {1, Large}

Driver == \/ Select \/ Opcode \/ Address \/ SendPage \/ Verify \/ Poll \/ Deselect
          \/ Done \/ EndOfSession("failed")

Next == \/ OnBegin
        \/ \E n \in Sizes : \E data \in [1..n -> Data] : OnData(data)
        \/ EndOfSession("finished")
        \/ Driver \/ PollFloats
        \/ Ready \/ FfRead \/ PowerLoss

Spec == Init /\ [][Next]_vars

\* The thread goes on, a wait for the PC times out, the chip gets ready.
FairSpec == Spec /\ WF_vars(Driver) /\ WF_vars(Ready)
----------------------------------------------------------------------------
TypeOK ==
    /\ stage \in {"idle", "erasing", "waiting", "programming", "verifying", "finished", "failed"}
    /\ command \in {"none", "wren", "erase", "prog", "status", "read"}
    /\ step \in {"none", "select", "opcode", "address", "data", "poll", "deselect"}
    /\ packet \in Seq(Data) /\ Len(packet) \in Sizes \cup {0}
    /\ stage \in {"programming", "verifying"} => (packet # <<>> /\ page \in 0..(Pages - 1))
    /\ page \in Nat /\ spi_f_addr \in Nat
    /\ low \in BOOLEAN /\ heard \in {"none", "wren", "erase", "prog", "page", "status", "read"}
    /\ adr \in Slots /\ wel \in BOOLEAN /\ busy \subseteq Slots /\ mem \in [Slots -> Data]
    /\ sent \in Seq(Data) /\ harm \subseteq {"floating", "foreign", "wrapped"}
    /\ peeks \in 0..MaxPeeks /\ faults \in 0..MaxFaults

Stored == \A i \in 1..Len(sent) : mem[i - 1] = sent[i]

(* What a session reports as written is in the chip, whatever was there    *)
(* before, whatever erase or page program was lost to ff_read or left bits *)
(* behind: each packet is read back.  It needs that the reading was real,  *)
(* that nothing else was programmed, that packets did not cross a page and *)
(* that the file fits: nothing in the code sees to these.                  *)
SuccessIsStored ==
    stage = "finished" /\ harm = {} /\ Len(sent) <= Capacity => Stored

(* A sound chip that is left alone never turns a packet down: the write    *)
(* enable, the waits for WIP and the addresses of the pages are right.     *)
CleanVerifies ==
    /\ stage = "verifying" /\ step = "data"
    /\ peeks = 0 /\ faults = 0 /\ harm = {} /\ Len(sent) <= Capacity
    => Listening /\ Same

(* as_verify leaves the chip selected when it finds a difference           *)
(* (fpgaupdate.c, 318); still every command begins with its own selection, *)
(* for after a difference the session is over, and as_program_done and the *)
(* next on_begin raise EP_CS.                                              *)
CommandsStartClean == [][step = "select" /\ step' = "opcode" => ~low]_vars

(* Left alone, a session ends, and with it the FPGA gets its flash back.   *)
SessionEnds == [](peeks = 0) => (stage # "idle" ~> stage = "idle")
=============================================================================
