--------------------------- MODULE FpgaFlash_proofs ---------------------------
(***************************************************************************)
(* Proofs about the configuration flash of the FPGA: for a chip, pages,    *)
(* packets and files of any size, any contents of the chip, and ff_read,   *)
(* lost bits and power losses at any time.                                 *)
(***************************************************************************)
EXTENDS FpgaFlash, DivisionLemmas, SequenceTheorems, TLAPS

(* as_prog cuts a packet of l into q pages: each begins in the packet, and *)
(* none goes past its end.                                                 *)
LEMMA PageCut ==
    ASSUME NEW l \in Nat \ {0}, NEW b \in Nat \ {0},
           NEW q, q = (l + b - 1) \div b, NEW i \in 0..(q - 1),
           NEW n, n = IF i = q - 1 /\ l % b # 0 THEN l % b ELSE b
    PROVE  /\ n \in 1..b /\ i * b < l /\ i * b + n <= l /\ i * b \in Nat
<1> DEFINE d == l \div b
           r == l % b
           x == (l + b - 1) % b
<1>1. /\ d \in Int /\ r \in 0..(b - 1) /\ l = b * d + r
      /\ q \in Int /\ x \in 0..(b - 1) /\ l + b - 1 = b * q + x
  <2>1. l + b - 1 \in Int /\ b > 0
    OBVIOUS
  <2> QED BY <2>1, Division
<1>2. n = IF i = q - 1 /\ r # 0 THEN r ELSE b
  OBVIOUS
<1> HIDE DEF d, x, r
<1>3. i \in Nat /\ i <= q - 1 /\ i + 1 \in Nat /\ q - 1 \in Nat /\ q \in Nat
  BY <1>1
<1>4. /\ b * (q - 1) = b * q - b /\ b * (i + 1) = b * i + b /\ b * i = i * b
      /\ b * i \in Nat /\ b * (d + 1) = b * d + b /\ b * (d + 2) = b * d + b + b
  BY <1>1, <1>3
<1>5. b * i <= b * (q - 1) /\ b * (i + 1) <= b * q
  BY <1>3, Multiples
<1>6. i * b < l
  BY <1>1, <1>4, <1>5
<1>7. d >= 0
  <2> SUFFICES ASSUME d <= -1 PROVE FALSE
    BY <1>1
  <2>1. b * 1 <= b * (-d)
    BY <1>1, Multiples
  <2>2. b * (-d) = -(b * d) /\ b * 1 = b
    BY <1>1
  <2> QED BY <1>1, <2>1, <2>2
<1>8. CASE r # 0
  <2>1. q <= d + 1
    <3> SUFFICES ASSUME d + 2 <= q PROVE FALSE
      BY <1>1
    <3>1. b * (d + 2) <= b * q
      BY <1>1, <1>3, <1>7, Multiples
    <3> QED BY <1>1, <1>4, <3>1
  <2>2. b * q <= b * (d + 1)
    BY <1>1, <1>3, <1>7, <2>1, Multiples
  <2>3. CASE i = q - 1
    BY <1>1, <1>2, <1>4, <1>6, <1>8, <2>2, <2>3
  <2>4. CASE i # q - 1
    <3>1. b * (i + 1) <= b * (q - 1)
      BY <1>3, <2>4, Multiples
    <3> QED BY <1>1, <1>2, <1>4, <1>6, <2>4, <3>1
  <2> QED BY <2>3, <2>4
<1>9. CASE r = 0
  <2>1. q <= d
    <3> SUFFICES ASSUME d + 1 <= q PROVE FALSE
      BY <1>1
    <3>1. b * (d + 1) <= b * q
      BY <1>1, <1>3, <1>7, Multiples
    <3> QED BY <1>1, <1>4, <1>9, <3>1
  <2>2. b * q <= b * d
    BY <1>1, <1>3, <1>7, <2>1, Multiples
  <2> QED BY <1>1, <1>2, <1>4, <1>5, <1>6, <1>9, <2>2
<1> QED BY <1>1, <1>8, <1>9

LEMMA SomePage ==
    ASSUME NEW l \in Nat \ {0}, NEW b \in Nat \ {0}
    PROVE  (l + b - 1) \div b \in Nat \ {0}
<1> DEFINE q == (l + b - 1) \div b
           x == (l + b - 1) % b
<1>1. q \in Int /\ x \in 0..(b - 1) /\ l + b - 1 = b * q + x
  <2>1. l + b - 1 \in Int /\ b > 0
    OBVIOUS
  <2> QED BY <2>1, Division
<1> HIDE DEF q, x
<1>2. q > 0
  <2> SUFFICES ASSUME q <= 0 PROVE FALSE
    BY <1>1
  <2>1. b * 0 <= b * (-q) /\ b * 0 = 0 /\ b * (-q) = -(b * q)
    BY <1>1, Multiples
  <2> QED BY <1>1, <2>1
<1> QED BY <1>1, <1>2 DEF q
----------------------------------------------------------------------------
(* The inductive invariant: which commands belong to which stage, what the *)
(* chip has taken of the command on the wire, and what is in it by then.   *)
Phases ==
    /\ stage \in {"idle", "waiting", "finished", "failed"} <=> step = "none"
    /\ stage = "erasing" => command \in {"wren", "erase", "status"}
    /\ stage = "programming" => command \in {"wren", "prog", "status"}
    /\ stage = "verifying" => command = "read"
    /\ step \in {"address", "data"} => command \in {"prog", "read"}
    /\ step = "poll" => command = "status"

Wire ==
    /\ low => step \notin {"none", "select"} \/ stage = "failed"
    /\ heard # "none" => low
    /\ step = "opcode" => heard = "none"
    /\ step # "none" => \/ heard \in {"none", command}
                        \/ heard = "page" /\ command = "prog" /\ step = "deselect"

\* Where the command on the wire is meant to go.
Aim   == spi_f_addr + IF command = "prog" THEN page * Page ELSE 0
Aimed == (step = "data" /\ heard = command) \/ (step = "deselect" /\ heard = "page")
             => adr = Aim % Capacity

\* A page program that did not wrap stays in its page.
Fits == step = "deselect" /\ heard = "page" /\ harm = {} => (adr % Page) + PageLen <= Page

Carried ==
    /\ stage = "erasing" => spi_f_addr = 0 /\ sent = <<>>
    /\ stage \in {"waiting", "finished"} => Len(sent) = spi_f_addr
    /\ stage \in {"programming", "verifying"} =>
           /\ Len(sent) = spi_f_addr + Len(packet)
           /\ \A j \in 1..Len(packet) : sent[spi_f_addr + j] = packet[j]

Good == harm = {} /\ Len(sent) <= Capacity
Kept == stage \in {"erasing", "waiting", "programming", "verifying", "finished"} /\ Good
            => \A i \in 1..spi_f_addr : mem[i - 1] = sent[i]

Compared == stage = "verifying" /\ step = "deselect" /\ Good
                => \A j \in 1..Len(packet) : mem[spi_f_addr + j - 1] = packet[j]

IndInv == TypeOK /\ Phases /\ Wire /\ Aimed /\ Fits /\ Carried /\ Kept /\ Compared

\* What a step of the driver between commands leaves as it was.
Steady == /\ TypeOK' /\ Phases' /\ Wire' /\ Aimed' /\ Fits'
          /\ UNCHANGED <<spi_f_addr, packet, sent, mem>> /\ harm \subseteq harm'

LEMMA SteadyKeeps ==
    ASSUME IndInv, Steady, stage' = stage, Compared'
    PROVE  IndInv'
<1>1. Good' => Good
  BY DEF Good, Steady
<1>2. Carried'
  BY DEF IndInv, Carried, Steady
<1>3. Kept'
  BY <1>1 DEF IndInv, Kept, Steady
<1> QED BY <1>2, <1>3 DEF IndInv, Steady

(* The current page of a packet lies in the packet.                        *)
LEMMA PageFacts ==
    ASSUME TypeOK, stage \in {"programming", "verifying"}
    PROVE  /\ Len(packet) \in Nat \ {0} /\ Pages \in Nat \ {0}
           /\ page \in Nat /\ PageLen \in 1..Page /\ page * Page \in Nat
           /\ page * Page < Len(packet) /\ page * Page + PageLen <= Len(packet)
<1>1. Len(packet) \in Nat \ {0} /\ page \in 0..(Pages - 1) /\ Page \in Nat \ {0}
  BY EmptySeq, ChipAssumption DEF TypeOK
<1>2. Pages = (Len(packet) + Page - 1) \div Page
  BY DEF Pages
<1>3. PageLen = IF page = Pages - 1 /\ Len(packet) % Page # 0 THEN Len(packet) % Page ELSE Page
  BY DEF PageLen
<1>4. Pages \in Nat \ {0}
  BY <1>1, <1>2, SomePage
<1>5. PageLen \in 1..Page /\ page * Page < Len(packet)
      /\ page * Page + PageLen <= Len(packet) /\ page * Page \in Nat
  BY <1>1, <1>2, <1>3, PageCut
<1> QED BY <1>1, <1>4, <1>5

LEMMA InitInv == Init => IndInv
<1> SUFFICES ASSUME Init PROVE IndInv
  OBVIOUS
<1>1. TypeOK
  BY EmptySeq, ChipAssumption, BoundAssumption DEF Init, TypeOK, Slots
<1> QED BY <1>1 DEF Init, IndInv, Phases, Wire, Aimed, Fits, Carried, Kept, Compared

(* The session calls back, or ends.                                        *)
LEMMA BeginStep ==
    ASSUME IndInv, OnBegin
    PROVE  IndInv'
<1>1. TypeOK'
  BY EmptySeq DEF IndInv, TypeOK, OnBegin, Do
<1>2. heard = "none"
  BY DEF IndInv, Phases, Wire, OnBegin
<1>3. Phases' /\ Wire' /\ Aimed' /\ Fits' /\ Carried' /\ Kept' /\ Compared'
  BY <1>2 DEF OnBegin, Do, Phases, Wire, Aimed, Fits, Carried, Kept, Compared
<1> QED BY <1>1, <1>3 DEF IndInv

LEMMA DataStep ==
    ASSUME IndInv, NEW n \in Sizes, NEW data \in [1..n -> Data], OnData(data)
    PROVE  IndInv'
<1>1. /\ n \in Nat \ {0} /\ data \in Seq(Data) /\ Len(data) = n /\ data # <<>>
      /\ sent \in Seq(Data) /\ Len(sent) = spi_f_addr /\ spi_f_addr \in Nat
      /\ Capacity \in Nat
  <2>1. n \in Nat \ {0}
    BY ChipAssumption DEF Sizes
  <2>2. data \in Seq(Data) /\ Len(data) = n
    BY <2>1, SeqDef
  <2> QED BY <2>1, <2>2, EmptySeq, ChipAssumption DEF IndInv, TypeOK, Carried, OnData
<1>2. /\ packet' = data /\ page' = 0 /\ sent' = sent \o data
      /\ stage' = "programming" /\ command' = "wren" /\ step' = "select"
      /\ UNCHANGED <<spi_f_addr, low, heard, adr, wel, busy, mem, harm, peeks, faults>>
      /\ stage = "waiting"
  BY DEF OnData, Do, chip
<1>3. /\ sent' \in Seq(Data) /\ Len(sent') = spi_f_addr + n
      /\ \A i \in 1..(Len(sent) + n) : sent'[i] = IF i <= Len(sent) THEN sent[i]
                                                ELSE data[i - Len(sent)]
  BY <1>1, <1>2, ConcatProperties
<1>4. 0 \in 0..(Pages' - 1)
  <2>1. (Len(data) + Page - 1) \div Page \in Nat \ {0}
    BY <1>1, SomePage, ChipAssumption
  <2>2. 0 \in 0..((Len(data) + Page - 1) \div Page - 1)
    BY <2>1
  <2>3. Pages' = (Len(data) + Page - 1) \div Page
    BY <1>2 DEF Pages
  <2> QED BY <2>2, <2>3
<1>5. TypeOK'
  BY <1>1, <1>2, <1>3, <1>4 DEF IndInv, TypeOK
<1>6. Phases' /\ Wire' /\ Aimed' /\ Fits' /\ Compared'
  BY <1>2 DEF IndInv, Phases, Wire, Aimed, Fits, Compared
<1>7. Carried'
  <2>1. ASSUME NEW j \in 1..n PROVE sent'[spi_f_addr + j] = data[j]
    <3>1. /\ spi_f_addr + j \in 1..(Len(sent) + n) /\ ~(spi_f_addr + j <= Len(sent))
          /\ spi_f_addr + j - Len(sent) = j
      BY <1>1
    <3>2. sent'[spi_f_addr + j] = data[spi_f_addr + j - Len(sent)]
      BY <1>1, <1>3, <3>1
    <3> QED BY <3>1, <3>2
  <2> QED BY <1>1, <1>2, <1>3, <2>1 DEF Carried
<1>8. Kept'
  <2> SUFFICES ASSUME Good', NEW i \in 1..spi_f_addr
               PROVE  mem[i - 1] = sent'[i]
    BY <1>2 DEF Kept
  <2>1. Good
    BY <1>1, <1>2, <1>3 DEF Good
  <2>2. i \in 1..(Len(sent) + n) /\ i <= Len(sent)
    BY <1>1
  <2>3. mem[i - 1] = sent[i]
    BY <1>2, <2>1 DEF IndInv, Kept
  <2> QED BY <1>3, <2>2, <2>3
<1> QED BY <1>5, <1>6, <1>7, <1>8 DEF IndInv

LEMMA EndSteps ==
    ASSUME IndInv, EndOfSession("failed") \/ EndOfSession("finished") \/ Done \/ PowerLoss
    PROVE  IndInv'
<1>1. CASE EndOfSession("failed") \/ EndOfSession("finished")
  <2>1. /\ stage = "waiting" /\ stage' \in {"failed", "finished"}
        /\ UNCHANGED <<command, step, packet, page, spi_f_addr, low, heard, adr, wel, busy, mem,
                       sent, harm, peeks, faults>>
    BY <1>1 DEF EndOfSession, chip
  <2>2. TypeOK' /\ Phases' /\ Wire' /\ Aimed' /\ Fits'
    BY <2>1 DEF IndInv, TypeOK, Phases, Wire, Aimed, Aim, Fits, Pages
  <2>3. Carried' /\ Kept' /\ Compared'
    BY <2>1 DEF IndInv, Carried, Kept, Good, Compared
  <2> QED BY <2>2, <2>3 DEF IndInv
<1>2. CASE Done \/ PowerLoss
  <2>1. mem' \in [Slots -> Data] /\ busy' \subseteq Slots /\ wel' \in BOOLEAN
    <3>1. CASE Done
      BY <3>1 DEF Done, IndInv, TypeOK
    <3>2. CASE PowerLoss
      BY <3>2 DEF PowerLoss, IndInv, TypeOK, Data
    <3> QED BY <1>2, <3>1, <3>2
  <2>2. /\ stage' = "idle" /\ command' = "none" /\ step' = "none" /\ packet' = <<>>
        /\ page' = 0 /\ spi_f_addr' = 0 /\ low' = FALSE /\ heard' = "none"
        /\ UNCHANGED <<adr, sent, harm, peeks, faults>>
    BY <1>2 DEF Done, PowerLoss
  <2>3. TypeOK'
    BY <2>1, <2>2, EmptySeq DEF IndInv, TypeOK
  <2>4. Phases' /\ Wire' /\ Aimed' /\ Fits' /\ Carried' /\ Kept' /\ Compared'
    BY <2>2 DEF Phases, Wire, Aimed, Fits, Carried, Kept, Compared
  <2> QED BY <2>3, <2>4 DEF IndInv
<1> QED BY <1>1, <1>2

(* A command on the wire, up to its deselection.                           *)
LEMMA SelectStep ==
    ASSUME IndInv, Select \/ Opcode \/ SendPage \/ Poll \/ PollFloats
    PROVE  IndInv'
<1>1. /\ UNCHANGED <<stage, command, packet, page, spi_f_addr, adr, wel, busy, mem, sent, peeks,
                     faults>>
      /\ harm' \in {harm, harm \cup {"wrapped"}}
      /\ Aim' = Aim /\ Pages' = Pages /\ PageLen' = PageLen
  BY DEF Select, Opcode, SendPage, Poll, PollFloats, chip, Aim, Pages, PageLen
<1>2. TypeOK'
  <2>1. step' \in {"opcode", "deselect", "poll", "address"} /\ low' \in BOOLEAN
        /\ heard' \in {"none", heard, command, "page"}
    BY DEF IndInv, TypeOK, Select, Opcode, SendPage, Poll, PollFloats, chip
  <2> QED BY <1>1, <2>1 DEF IndInv, TypeOK
<1>3. Phases' /\ Wire' /\ Aimed' /\ Fits' /\ Compared'
  <2>1. CASE Select
    BY <1>1, <2>1 DEF IndInv, TypeOK, Phases, Wire, Aimed, Fits, Compared, Select
  <2>2. CASE Opcode
    BY <1>1, <2>2 DEF IndInv, TypeOK, Phases, Wire, Aimed, Fits, Compared, Opcode
  <2>3. CASE SendPage
    <3>1. Phases' /\ Wire' /\ Aimed' /\ Compared'
      BY <1>1, <2>3 DEF IndInv, TypeOK, Phases, Wire, Aimed, Compared, SendPage
    <3>2. Fits'
      <4> DEFINE over == (adr % Page) + PageLen > Page
      <4> SUFFICES ASSUME heard' = "page", harm' = {} PROVE ~over
        <5>1. (adr % Page) \in Int /\ PageLen \in Int /\ Page \in Int
          BY <2>3, PageFacts, ChipAssumption, Division
             DEF IndInv, TypeOK, Phases, Slots, SendPage
        <5> QED BY <1>1, <2>3, <5>1 DEF Fits
      <4>1. heard # "page"
        BY <2>3 DEF IndInv, Wire, SendPage
      <4>2. low /\ heard = "prog"
        BY <2>3, <4>1 DEF SendPage
      <4>3. harm' = IF over THEN harm \cup {"wrapped"} ELSE harm
        BY <2>3, <4>2 DEF SendPage
      <4> QED BY <4>3
    <3> QED BY <3>1, <3>2
  <2>4. CASE Poll \/ PollFloats
    BY <1>1, <2>4 DEF IndInv, TypeOK, Phases, Wire, Aimed, Fits, Compared, Poll, PollFloats, chip
  <2> QED BY <2>1, <2>2, <2>3, <2>4
<1> QED BY <1>1, <1>2, <1>3, SteadyKeeps DEF Steady

LEMMA AddressStep ==
    ASSUME IndInv, Address
    PROVE  IndInv'
<1>1. Aim \in Int
  BY ChipAssumption DEF Aim, IndInv, TypeOK
<1>2. adr' \in {adr, Aim % Capacity} /\ (low /\ heard = command => adr' = Aim % Capacity)
  BY DEF Address, Aim
<1>3. Aim % Capacity \in Slots
  <2>1. Capacity \in Int /\ Capacity > 0
    BY ChipAssumption
  <2> QED BY <1>1, <2>1, Division DEF Slots
<1>4. /\ step = "address" /\ step' = "data"
      /\ UNCHANGED <<stage, command, packet, page, spi_f_addr, low, heard, wel, busy, mem,
                     sent, harm, peeks, faults>>
  BY DEF Address
<1>5. TypeOK'
  BY <1>2, <1>3, <1>4 DEF IndInv, TypeOK, Pages
<1>6. Phases' /\ Wire'
  BY <1>4 DEF IndInv, Phases, Wire
<1>7. Aimed'
  <2>1. Aim' = Aim
    BY <1>4 DEF Aim
  <2> QED BY <1>2, <1>4, <2>1 DEF IndInv, Phases, Wire, Aimed
<1>8. Fits' /\ Compared'
  BY <1>4 DEF Fits, Compared
<1> QED BY <1>4, <1>5, <1>6, <1>7, <1>8, SteadyKeeps DEF Steady

(* A real reading that shows no difference shows the packet in the chip.   *)
LEMMA VerifyStep ==
    ASSUME IndInv, Verify
    PROVE  IndInv'
<1>1. /\ step = "data" /\ command = "read"
      /\ UNCHANGED <<command, packet, page, spi_f_addr, low, heard, adr, wel, busy, mem,
                     sent, peeks, faults>>
      /\ \/ (Listening => Same) /\ step' = "deselect" /\ stage' = stage
         \/ stage' = "failed" /\ step' = "none"
      /\ harm' = IF Listening THEN harm ELSE harm \cup {"floating"}
      /\ stage = "verifying"
  BY DEF Verify, chip, IndInv, TypeOK, Phases
<1>2. TypeOK'
  BY <1>1 DEF IndInv, TypeOK, Pages
<1>3. Phases' /\ Wire' /\ Aimed' /\ Fits'
  BY <1>1 DEF IndInv, TypeOK, Phases, Wire, Aimed, Fits, Aim
<1>4. CASE stage' = "failed"
  BY <1>2, <1>3, <1>4 DEF IndInv, Carried, Kept, Compared
<1>5. CASE stage' = stage
  <2>1. Compared'
    <3> SUFFICES ASSUME Good', NEW j \in 1..Len(packet)
                 PROVE  mem[spi_f_addr + j - 1] = packet[j]
      BY <1>1 DEF Compared
    <3>1. Listening /\ Same /\ heard = "read"
      BY <1>1, <1>5 DEF Good, Listening
    <3>2. /\ spi_f_addr \in Nat /\ Len(packet) \in Nat /\ Capacity \in Nat
          /\ spi_f_addr + Len(packet) <= Capacity
      BY <1>1, ChipAssumption DEF Good, IndInv, TypeOK, Carried
    <3>3. adr = spi_f_addr
      <4>1. adr = Aim % Capacity /\ Aim = spi_f_addr + 0
        BY <1>1, <3>1 DEF IndInv, Aimed, Aim
      <4>2. spi_f_addr < Capacity
        BY <3>2
      <4> QED BY <3>2, <4>1, <4>2, SmallMod
    <3>4. (adr + j - 1) % Capacity = spi_f_addr + j - 1
      <4>1. spi_f_addr + j - 1 \in Nat /\ spi_f_addr + j - 1 < Capacity
        BY <3>2
      <4> QED BY <3>2, <3>3, <4>1, SmallMod
    <3> QED BY <3>1, <3>4 DEF Same
  <2> QED BY <1>1, <1>2, <1>3, <1>5, <2>1, SteadyKeeps DEF Steady
<1> QED BY <1>1, <1>4, <1>5

(* A page program that fits its page takes each byte where it is sent.     *)
LEMMA PlaceStays ==
    ASSUME TypeOK, stage = "programming", (adr % Page) + PageLen <= Page,
           NEW j \in 1..PageLen
    PROVE  Place(j) = adr + j - 1
<1> DEFINE r == adr % Page
           d == adr \div Page
<1>1. adr \in Nat /\ Page \in Nat \ {0} /\ PageLen \in 1..Page
  BY PageFacts, ChipAssumption DEF TypeOK, Slots
<1>2. d \in Int /\ r \in 0..(Page - 1) /\ adr = Page * d + r
  BY <1>1, Division
<1>3. Place(j) = (adr - r) + ((adr + j - 1) % Page) /\ r + PageLen <= Page
  BY DEF Place
<1> HIDE DEF r, d
<1>4. adr + j - 1 = Page * d + (r + j - 1) /\ r + j - 1 \in 0..(Page - 1)
  BY <1>1, <1>2, <1>3
<1>5. (adr + j - 1) % Page = r + j - 1
  BY <1>1, <1>2, <1>4, Remainder
<1> QED BY <1>1, <1>2, <1>3, <1>5

(* The slots a page program takes its bytes to, and what they are then.    *)
LEMMA ProgrammedFacts ==
    ASSUME TypeOK, stage = "programming"
    PROVE  /\ \A s \in Slots : Programmed(s) \in Data
           /\ (adr % Page) + PageLen <= Page =>
                  \A s \in Slots :
                      /\ s < adr \/ s >= adr + PageLen => Programmed(s) = mem[s]
                      /\ \A j \in 1..PageLen : s = adr + j - 1
                             => Programmed(s) = mem[s] \cup packet[page * Page + j]
<1>1. /\ Len(packet) \in Nat \ {0} /\ PageLen \in 1..Page /\ page * Page \in Nat
      /\ page * Page + PageLen <= Len(packet) /\ packet \in Seq(Data)
      /\ mem \in [Slots -> Data] /\ adr \in Nat /\ Page \in Nat \ {0}
  BY PageFacts, ChipAssumption DEF TypeOK, Slots
<1>2. ASSUME NEW s \in Slots PROVE Programmed(s) \in Data
  <2>1. ASSUME NEW j \in 1..PageLen PROVE packet[page * Page + j] \in Data
    <3>1. page * Page + j \in 1..Len(packet)
      BY <1>1
    <3> QED BY <1>1, <3>1, ElementOfSeq
  <2> QED BY <1>1, <2>1 DEF Programmed, Data
<1>3. ASSUME NEW s \in Slots, (adr % Page) + PageLen <= Page
      PROVE  /\ s < adr \/ s >= adr + PageLen => Programmed(s) = mem[s]
             /\ \A j \in 1..PageLen : s = adr + j - 1
                    => Programmed(s) = mem[s] \cup packet[page * Page + j]
  <2>1. \A i \in 1..PageLen : Place(i) = adr + i - 1
    BY <1>3, PlaceStays
  <2>2. s \in Nat /\ PageLen \in Nat
    BY <1>1, ChipAssumption DEF Slots
  <2>3. ASSUME s < adr \/ s >= adr + PageLen PROVE Programmed(s) = mem[s]
    <3>1. {i \in 1..PageLen : Place(i) = s} = {}
      BY <1>1, <2>1, <2>2, <2>3
    <3> QED BY <3>1 DEF Programmed
  <2>4. ASSUME NEW j \in 1..PageLen, s = adr + j - 1
        PROVE  Programmed(s) = mem[s] \cup packet[page * Page + j]
    <3>1. {i \in 1..PageLen : Place(i) = s} = {j}
      BY <1>1, <2>1, <2>2, <2>4
    <3> QED BY <3>1 DEF Programmed
  <2> QED BY <2>3, <2>4
<1> QED BY <1>2, <1>3

(* What the chip does: an erase in the stage of that name, or one page of  *)
(* a packet, which leaves the slots before the packet as they are.         *)
LEMMA ExecuteFacts ==
    ASSUME IndInv, step = "deselect", Execute
    PROVE  /\ wel' \in BOOLEAN /\ busy' \subseteq Slots /\ mem' \in [Slots -> Data]
           /\ faults' \in 0..MaxFaults
           /\ heard # "page" /\ stage # "erasing" => mem' = mem
           /\ heard = "page" => /\ command = "prog" /\ stage = "programming"
                                /\ Good => \A i \in 1..spi_f_addr : mem'[i - 1] = mem[i - 1]
<1>0. /\ TypeOK /\ mem \in [Slots -> Data] /\ Phases /\ Wire
      /\ stage \in {"erasing", "programming", "verifying"}
  BY DEF IndInv, TypeOK, Phases
<1>1. heard \in {"none", command} \/ (heard = "page" /\ command = "prog")
  BY <1>0 DEF Wire
<1>2. CASE heard = "page"
  <2>1. command = "prog" /\ stage = "programming"
    BY <1>0, <1>1, <1>2 DEF TypeOK, Phases
  <2>2. PICK weak \in SUBSET PageOf(adr) :
           /\ weak # {} => faults < MaxFaults
           /\ faults' = IF weak = {} THEN faults ELSE faults + 1
           /\ mem' = [s \in Slots |-> IF s \in weak THEN mem[s] ELSE Programmed(s)]
    BY <1>2 DEF Execute
  <2>3. wel' = FALSE /\ busy' = PageOf(adr) /\ PageOf(adr) \subseteq Slots
    BY <1>2 DEF Execute, PageOf
  <2>4. mem' \in [Slots -> Data]
    BY <1>0, <2>1, <2>2, ProgrammedFacts
  <2>5. faults' \in 0..MaxFaults
    BY <1>0, <2>2, BoundAssumption DEF TypeOK
  <2>6. ASSUME Good, NEW i \in 1..spi_f_addr PROVE mem'[i - 1] = mem[i - 1]
    <3>1. /\ spi_f_addr \in Nat /\ Len(sent) = spi_f_addr + Len(packet) /\ Len(sent) <= Capacity
          /\ Len(packet) \in Nat \ {0} /\ Capacity \in Nat
          /\ page * Page \in Nat /\ page * Page < Len(packet)
      BY <1>0, <2>1, <2>6, PageFacts, ChipAssumption DEF IndInv, TypeOK, Carried, Good
    <3>2. adr = spi_f_addr + page * Page
      <4>1. adr = Aim % Capacity /\ Aim = spi_f_addr + page * Page
        BY <1>2, <2>1 DEF IndInv, Aimed, Aim
      <4>2. spi_f_addr + page * Page \in Nat /\ spi_f_addr + page * Page < Capacity
        BY <3>1
      <4> QED BY <3>1, <4>1, <4>2, SmallMod
    <3>3. i - 1 \in Slots /\ i - 1 < adr
      BY <3>1, <3>2 DEF Slots
    <3>4. (adr % Page) + PageLen <= Page
      BY <1>2, <2>6 DEF IndInv, Fits, Good
    <3>5. Programmed(i - 1) = mem[i - 1]
      BY <1>0, <2>1, <3>3, <3>4, ProgrammedFacts
    <3> QED BY <2>2, <3>3, <3>5
  <2> QED BY <1>2, <2>1, <2>3, <2>4, <2>5, <2>6
<1>3. CASE heard = "erase"
  <2>1. command = "erase" /\ stage = "erasing"
    BY <1>0, <1>1, <1>3 DEF Phases
  <2>2. wel' = FALSE /\ busy' = Slots /\ mem' = Erased /\ faults' = faults
    BY <1>3 DEF Execute
  <2> QED BY <1>0, <1>3, <2>1, <2>2 DEF Erased, Data, TypeOK
<1>4. CASE heard \notin {"page", "erase"}
  <2>1. wel' \in {wel, TRUE} /\ busy' = busy /\ mem' = mem /\ faults' = faults
    BY <1>4 DEF Execute
  <2> QED BY <1>0, <1>4, <2>1 DEF TypeOK
<1> QED BY <1>2, <1>3, <1>4

(* What the driver goes on to.                                             *)
LEMMA AfterFacts ==
    ASSUME IndInv, step = "deselect", After
    PROVE  \/ /\ step' = "select" /\ stage' = stage /\ UNCHANGED spi_f_addr
              /\ stage = "erasing" => command' \in {"erase", "status"} /\ page' = page
              /\ stage = "programming" => command' \in {"wren", "prog", "status"}
                                          /\ page' \in {page, page + 1}
                                          /\ (page' = page \/ page + 1 < Pages)
              /\ stage # "verifying"
           \/ /\ step' = "select" /\ stage = "programming" /\ stage' = "verifying"
              /\ command' = "read" /\ UNCHANGED <<page, spi_f_addr>>
              /\ command = "status"
           \/ /\ stage' = "waiting" /\ command' = "none" /\ step' = "none" /\ page' = 0
              /\ \/ stage = "erasing" /\ command = "status" /\ spi_f_addr' = spi_f_addr
                 \/ stage = "verifying" /\ command = "read"
                    /\ spi_f_addr' = spi_f_addr + Len(packet)
<1>1. /\ stage \in {"erasing", "programming", "verifying"}
      /\ stage = "erasing" => command \in {"wren", "erase", "status"}
      /\ stage = "programming" => command \in {"wren", "prog", "status"}
      /\ stage = "verifying" => command = "read"
      /\ spi_f_addr \in Nat
  BY DEF IndInv, TypeOK, Phases
<1>2. CASE command \in {"wren", "erase", "prog"}
  BY <1>1, <1>2 DEF After, Do
<1>3. CASE command = "status" /\ stage = "programming"
  BY <1>3 DEF After, Do, MorePages
<1>4. CASE command = "status" /\ stage = "erasing"
  BY <1>1, <1>4 DEF After, Do
<1>5. CASE command = "read"
  BY <1>1, <1>5 DEF After, Do
<1> QED BY <1>1, <1>2, <1>3, <1>4, <1>5

LEMMA DeselectStep ==
    ASSUME IndInv, Deselect
    PROVE  IndInv'
<1>1. /\ step = "deselect" /\ low' = FALSE /\ heard' = "none" /\ Execute /\ After
      /\ UNCHANGED <<packet, adr, sent, harm, peeks>>
      /\ Pages' = Pages
  BY DEF Deselect, Pages
<1>2. /\ wel' \in BOOLEAN /\ busy' \subseteq Slots /\ mem' \in [Slots -> Data]
      /\ faults' \in 0..MaxFaults
      /\ heard # "page" /\ stage # "erasing" => mem' = mem
      /\ heard = "page" => /\ command = "prog" /\ stage = "programming"
                           /\ Good => \A i \in 1..spi_f_addr : mem'[i - 1] = mem[i - 1]
  BY <1>1, ExecuteFacts
<1>3. /\ spi_f_addr \in Nat /\ Len(packet) \in Nat /\ page \in Nat
      /\ stage \in {"erasing", "programming", "verifying"}
  BY <1>1 DEF IndInv, TypeOK, Phases
<1>4. CASE /\ step' = "select" /\ stage' = stage /\ UNCHANGED spi_f_addr
           /\ stage = "erasing" => command' \in {"erase", "status"} /\ page' = page
           /\ stage = "programming" => command' \in {"wren", "prog", "status"}
                                       /\ page' \in {page, page + 1}
                                       /\ (page' = page \/ page + 1 < Pages)
           /\ stage # "verifying"
  <2>1. stage = "programming" => page' \in 0..(Pages - 1)
    <3> SUFFICES ASSUME stage = "programming" PROVE page' \in 0..(Pages - 1)
      OBVIOUS
    <3>1. page \in 0..(Pages - 1) /\ Pages \in Nat
      BY PageFacts DEF IndInv, TypeOK
    <3> QED BY <1>4, <3>1
  <2>2. page' \in Nat
    BY <1>3, <1>4
  <2>3. TypeOK'
    BY <1>1, <1>2, <1>3, <1>4, <2>1, <2>2 DEF IndInv, TypeOK
  <2>4. Phases' /\ Wire' /\ Aimed' /\ Fits' /\ Compared'
    BY <1>1, <1>3, <1>4 DEF Phases, Wire, Aimed, Fits, Compared
  <2>5. Carried'
    BY <1>1, <1>3, <1>4 DEF IndInv, Carried
  <2>6. Kept'
    <3> SUFFICES ASSUME Good, NEW i \in 1..spi_f_addr PROVE mem'[i - 1] = sent[i]
      BY <1>1, <1>4 DEF Kept, Good
    <3>1. mem[i - 1] = sent[i]
      BY <1>3 DEF IndInv, Kept
    <3>2. stage # "erasing"
      BY <1>3 DEF IndInv, Carried
    <3>3. mem'[i - 1] = mem[i - 1]
      BY <1>2, <3>2
    <3> QED BY <3>1, <3>3
  <2> QED BY <2>3, <2>4, <2>5, <2>6 DEF IndInv
<1>5. CASE /\ step' = "select" /\ stage = "programming" /\ stage' = "verifying"
           /\ command' = "read" /\ UNCHANGED <<page, spi_f_addr>>
           /\ command = "status"
  <2>1. TypeOK'
    BY <1>1, <1>2, <1>5 DEF IndInv, TypeOK
  <2>2. Phases' /\ Wire' /\ Aimed' /\ Fits' /\ Compared'
    BY <1>1, <1>5 DEF Phases, Wire, Aimed, Fits, Compared
  <2>3. Carried'
    BY <1>1, <1>5 DEF IndInv, Carried
  <2>4. mem' = mem
    BY <1>2, <1>5
  <2>5. Kept'
    BY <1>1, <1>5, <2>4 DEF IndInv, Kept, Good
  <2> QED BY <2>1, <2>2, <2>3, <2>5 DEF IndInv
<1>6. CASE /\ stage' = "waiting" /\ command' = "none" /\ step' = "none" /\ page' = 0
           /\ stage = "erasing" /\ command = "status" /\ spi_f_addr' = spi_f_addr
  <2>1. TypeOK'
    BY <1>1, <1>2, <1>3, <1>6 DEF IndInv, TypeOK
  <2>2. Phases' /\ Wire' /\ Aimed' /\ Fits' /\ Compared'
    BY <1>1, <1>6 DEF Phases, Wire, Aimed, Fits, Compared
  <2>3. spi_f_addr = 0 /\ sent = <<>>
    BY <1>6 DEF IndInv, Carried
  <2>4. Carried' /\ Kept'
    BY <1>1, <1>6, <2>3 DEF Carried, Kept
  <2> QED BY <2>1, <2>2, <2>4 DEF IndInv
<1>7. CASE /\ stage' = "waiting" /\ command' = "none" /\ step' = "none" /\ page' = 0
           /\ stage = "verifying" /\ command = "read"
           /\ spi_f_addr' = spi_f_addr + Len(packet)
  <2>1. TypeOK'
    <3>1. spi_f_addr' \in Nat /\ page' \in Nat
      BY <1>3, <1>7
    <3>2. TypeOK /\ stage' = "waiting" /\ command' = "none" /\ step' = "none"
          /\ UNCHANGED <<packet, adr, sent, harm, peeks>> /\ low' = FALSE /\ heard' = "none"
      BY <1>1, <1>7 DEF IndInv
    <3> QED BY <1>2, <3>1, <3>2 DEF TypeOK
  <2>2. Phases' /\ Wire' /\ Aimed' /\ Fits' /\ Compared'
    BY <1>1, <1>7 DEF Phases, Wire, Aimed, Fits, Compared
  <2>3. /\ Len(sent) = spi_f_addr + Len(packet)
        /\ \A j \in 1..Len(packet) : sent[spi_f_addr + j] = packet[j]
    BY <1>7 DEF IndInv, Carried
  <2>4. mem' = mem
    BY <1>2, <1>7
  <2>5. Kept'
    <3> SUFFICES ASSUME Good, NEW i \in 1..(spi_f_addr + Len(packet))
                 PROVE  mem[i - 1] = sent[i]
      BY <1>1, <1>7, <2>4 DEF Kept, Good
    <3>1. CASE i <= spi_f_addr
      BY <1>3, <1>7, <3>1 DEF IndInv, Kept
    <3>2. CASE i > spi_f_addr
      <4> DEFINE j == i - spi_f_addr
      <4>1. j \in 1..Len(packet) /\ spi_f_addr + j = i /\ spi_f_addr + j - 1 = i - 1
        BY <1>3, <3>2
      <4> HIDE DEF j
      <4>2. mem[spi_f_addr + j - 1] = packet[j]
        BY <1>1, <1>7, <4>1 DEF IndInv, Compared
      <4>3. sent[spi_f_addr + j] = packet[j]
        BY <2>3, <4>1
      <4> QED BY <4>1, <4>2, <4>3
    <3> QED BY <1>3, <3>1, <3>2
  <2>6. Carried'
    BY <1>1, <1>7, <2>3 DEF Carried
  <2> QED BY <2>1, <2>2, <2>5, <2>6 DEF IndInv
<1> QED BY <1>1, <1>4, <1>5, <1>6, <1>7, AfterFacts

(* ff_read takes the selection away, and with a page program it leaves its *)
(* mark; the chip gets ready.                                              *)
LEMMA ChipSteps ==
    ASSUME IndInv, FfRead \/ Ready
    PROVE  IndInv'
<1>1. UNCHANGED <<stage, command, step, packet, page, spi_f_addr, adr, sent, faults>>
      /\ Pages' = Pages /\ PageLen' = PageLen /\ Aim' = Aim
  BY DEF FfRead, Ready, thread, Pages, PageLen, Aim
<1>2. CASE Ready
  <2>1. UNCHANGED <<low, heard, wel, mem, harm, peeks>> /\ busy' = {}
    BY <1>2 DEF Ready
  <2> QED BY <1>1, <2>1
             DEF IndInv, TypeOK, Phases, Wire, Aimed, Fits, Carried, Kept, Compared, Good
<1>3. CASE FfRead
  <2>1. /\ low' = FALSE /\ heard' = "none" /\ peeks' \in 0..MaxPeeks
        /\ \/ UNCHANGED <<wel, busy, mem, harm>>
           \/ /\ harm' = harm \cup {"foreign"} /\ wel' = FALSE
              /\ busy' \subseteq Slots /\ mem' \in [Slots -> Data]
    <3>1. peeks' \in 0..MaxPeeks
      BY <1>3, BoundAssumption DEF FfRead, IndInv, TypeOK
    <3>2. CASE UNCHANGED <<wel, busy, mem, harm>>
      BY <1>3, <3>1, <3>2 DEF FfRead
    <3>3. CASE ~UNCHANGED <<wel, busy, mem, harm>>
      <4>1. /\ harm' = harm \cup {"foreign"} /\ wel' = FALSE
            /\ \E a \in IF step = "address" THEN Slots ELSE {adr} :
               \E junk \in [PageOf(a) -> Data] :
                  /\ busy' = PageOf(a)
                  /\ mem' = [s \in Slots |-> IF s \in PageOf(a) THEN mem[s] \cup junk[s]
                                                               ELSE mem[s]]
        BY <1>3, <3>3 DEF FfRead
      <4>2. PICK a : \E junk \in [PageOf(a) -> Data] :
                  /\ busy' = PageOf(a)
                  /\ mem' = [s \in Slots |-> IF s \in PageOf(a) THEN mem[s] \cup junk[s]
                                                               ELSE mem[s]]
        BY <4>1
      <4>3. PICK junk \in [PageOf(a) -> Data] :
                  /\ busy' = PageOf(a)
                  /\ mem' = [s \in Slots |-> IF s \in PageOf(a) THEN mem[s] \cup junk[s]
                                                               ELSE mem[s]]
        BY <4>2
      <4>4. busy' \subseteq Slots
        BY <4>3 DEF PageOf
      <4>5. mem' \in [Slots -> Data]
        BY <4>3 DEF IndInv, TypeOK, Data
      <4> QED BY <1>3, <3>1, <4>1, <4>4, <4>5 DEF FfRead
    <3> QED BY <3>2, <3>3
  <2>2. TypeOK'
    <3>1. mem' \in [Slots -> Data] /\ busy' \subseteq Slots
      BY <2>1 DEF IndInv, TypeOK
    <3>2. wel' \in BOOLEAN /\ low' \in BOOLEAN
      BY <2>1, Zenon DEF IndInv, TypeOK
    <3>3. harm' \subseteq {"floating", "foreign", "wrapped"} /\ heard' = "none"
          /\ peeks' \in 0..MaxPeeks
      BY <2>1 DEF IndInv, TypeOK
    <3>4. TypeOK
      BY <1>1 DEF IndInv
    <3> QED BY <1>1, <3>1, <3>2, <3>3, <3>4, Zenon DEF TypeOK
  <2>3. Phases' /\ Wire' /\ Aimed' /\ Fits' /\ Carried'
    BY <1>1, <2>1, <2>2 DEF IndInv, TypeOK, Phases, Wire, Aimed, Fits, Carried
  <2>4. Good' => Good /\ mem' = mem
    BY <1>1, <2>1 DEF Good
  <2>5. Kept' /\ Compared'
    BY <1>1, <2>1, <2>4 DEF IndInv, Kept, Compared
  <2> QED BY <2>2, <2>3, <2>5 DEF IndInv
<1> QED BY <1>2, <1>3

LEMMA FlashInvariance == Spec => []IndInv
<1>1. IndInv /\ [Next]_vars => IndInv'
  <2> SUFFICES ASSUME IndInv, [Next]_vars PROVE IndInv'
    OBVIOUS
  <2>1. ASSUME NEW n \in Sizes, NEW data \in [1..n -> Data], OnData(data) PROVE IndInv'
    BY <2>1, DataStep
  <2>2. CASE UNCHANGED vars
    BY <2>2 DEF vars, IndInv, TypeOK, Phases, Wire, Aimed, Aim, Fits, Carried, Kept, Compared,
                Good, Pages, PageLen
  <2> QED BY <2>1, <2>2, BeginStep, EndSteps, SelectStep, AddressStep, VerifyStep, DeselectStep,
             ChipSteps DEF Next, Driver
<1> QED BY InitInv, <1>1, PTL DEF Spec

(* Addresses stay in the chip, pages in the packet.                        *)
THEOREM FlashTypeCorrect == Spec => []TypeOK
<1>1. IndInv => TypeOK
  BY DEF IndInv
<1> QED BY <1>1, FlashInvariance, PTL

(* What ymodem_on_data has let through is in the chip when the session     *)
(* succeeds: as_verify finds whatever erase or page program did not take.  *)
THEOREM SuccessStored == Spec => []SuccessIsStored
<1>1. IndInv => SuccessIsStored
  BY DEF IndInv, Carried, Kept, Good, SuccessIsStored, Stored
<1> QED BY <1>1, FlashInvariance, PTL

(* A chip left selected by as_verify is deselected before the next command.*)
THEOREM CommandsClean == Spec => CommandsStartClean
<1>1. IndInv /\ [Next]_vars => [step = "select" /\ step' = "opcode" => ~low]_vars
  BY DEF IndInv, Phases, Wire
<1> QED BY <1>1, FlashInvariance, PTL DEF Spec, CommandsStartClean
----------------------------------------------------------------------------
(* The other half: a chip that is sound and left alone.  It takes every    *)
(* command, for WIP is clear and the write enable there when they are      *)
(* needed; what is before the driver in the chip is erased, and what is    *)
(* behind it in the packet is in the chip.                                 *)
Answering ==
    peeks = 0 =>
        /\ step \in {"opcode", "address", "data", "poll", "deselect"} => low
        /\ step \in {"address", "data", "poll"} => heard = command
        /\ step = "deselect" => heard = IF command = "prog" THEN "page" ELSE command
        /\ busy # {} => command = "status" /\ step \in {"select", "opcode", "poll"}
        /\ command \in {"erase", "prog"} => wel

Clean == peeks = 0 /\ faults = 0 /\ Good

\* Slots of the packet that are in the chip.
Reached == IF stage = "verifying" THEN Len(packet)
           ELSE page * Page + IF command = "status" THEN PageLen ELSE 0

BlankFrom(n) == \A s \in Slots : s >= n => mem[s] = {}
InChip(n) == \A j \in 1..Len(packet) : j <= n => mem[spi_f_addr + j - 1] = packet[j]

Written ==
    Clean =>
        /\ stage = "erasing" /\ command = "status" => BlankFrom(0)
        /\ stage = "waiting" => BlankFrom(spi_f_addr)
        /\ stage \in {"programming", "verifying"} =>
               BlankFrom(spi_f_addr + Reached) /\ InChip(Reached)

LEMMA AnsweringStep ==
    ASSUME IndInv, Answering, [Next]_vars
    PROVE  Answering'
<1> SUFFICES ASSUME peeks' = 0 PROVE Answering'
  BY DEF Answering
<1>0. TypeOK /\ Phases /\ Wire
  BY DEF IndInv
<1>1. CASE OnBegin
  BY <1>0, <1>1 DEF OnBegin, Do, Answering, Phases
<1>2. CASE \E n \in Sizes : \E data \in [1..n -> Data] : OnData(data)
  BY <1>0, <1>2 DEF OnData, Do, Answering, Phases, chip
<1>3. CASE EndOfSession("failed") \/ EndOfSession("finished") \/ Done \/ PowerLoss
  BY <1>0, <1>3 DEF EndOfSession, Done, PowerLoss, Answering, Phases, chip
<1>4. CASE Select
  BY <1>0, <1>4 DEF Select, Answering
<1>5. CASE Opcode
  <2>1. peeks = 0 /\ step = "opcode" /\ low /\ heard = "none"
    BY <1>0, <1>5 DEF Opcode, Answering, Wire
  <2>2. command \in {"wren", "erase", "prog", "status", "read"}
    BY <1>0, <2>1 DEF Phases, TypeOK
  <2>3. Accepts(command)
    BY <2>1, <2>2 DEF Accepts, Answering
  <2>4. heard' = command
    BY <1>5, <2>1, <2>3 DEF Opcode
  <2> QED BY <1>5, <2>1, <2>2, <2>4 DEF Opcode, Answering
<1>6. CASE Address
  BY <1>0, <1>6 DEF Address, Answering
<1>7. CASE SendPage
  BY <1>0, <1>7 DEF SendPage, Answering
<1>8. CASE Verify
  BY <1>0, <1>8 DEF Verify, Answering, chip
<1>9. CASE Poll \/ PollFloats
  BY <1>0, <1>9 DEF Poll, PollFloats, Answering, Phases, chip
<1>10. CASE Deselect
  <2>1. /\ peeks = 0 /\ step = "deselect" /\ low' = FALSE /\ busy = {} /\ Execute /\ After
        /\ heard = IF command = "prog" THEN "page" ELSE command
    BY <1>10 DEF Deselect, Answering
  <2>2. CASE command = "wren"
    BY <2>1, <2>2 DEF Execute, After, Do, Answering
  <2>3. CASE command \in {"erase", "prog"}
    BY <2>1, <2>3 DEF Execute, After, Do, Answering
  <2>4. CASE command \in {"status", "read"}
    <3>1. busy' = {}
      BY <2>1, <2>4 DEF Execute
    <3>2. command' \in {"wren", "read", "none"} /\ step' \in {"select", "none"}
      BY <2>1, <2>4 DEF After, Do
    <3> QED BY <3>1, <3>2 DEF Answering
  <2>5. command \in {"wren", "erase", "prog", "status", "read"}
    BY <1>0, <2>1 DEF Phases, TypeOK
  <2> QED BY <2>2, <2>3, <2>4, <2>5
<1>11. CASE Ready
  BY <1>11 DEF Ready, Answering, thread
<1>12. ~FfRead
  BY <1>0 DEF FfRead, TypeOK
<1>13. CASE UNCHANGED vars
  BY <1>13 DEF vars, Answering
<1> QED BY <1>1, <1>2, <1>3, <1>4, <1>5, <1>6, <1>7, <1>8, <1>9, <1>10, <1>11, <1>12, <1>13
        DEF Next, Driver

(* The last page of a packet ends with it.                                 *)
LEMMA LastPage ==
    ASSUME NEW l \in Nat \ {0}, NEW b \in Nat \ {0}
    PROVE  LET q == (l + b - 1) \div b IN
           (q - 1) * b + (IF l % b # 0 THEN l % b ELSE b) = l
<1> DEFINE q == (l + b - 1) \div b
           d == l \div b
           r == l % b
           x == (l + b - 1) % b
           n == IF r # 0 THEN r ELSE b
<1>1. /\ d \in Int /\ r \in 0..(b - 1) /\ l = b * d + r
      /\ q \in Int /\ x \in 0..(b - 1) /\ l + b - 1 = b * q + x
  <2>1. l + b - 1 \in Int /\ b > 0
    OBVIOUS
  <2> QED BY <2>1, Division
<1> SUFFICES (q - 1) * b + n = l
  OBVIOUS
<1>2. n = IF r # 0 THEN r ELSE b
  OBVIOUS
<1> HIDE DEF q, d, r, x, n
<1> DEFINE e == IF r # 0 THEN d + 1 ELSE d
<1>3. /\ e \in Int /\ l + b - n = b * e
      /\ b * q - b * e = n - 1 - x
  <2>1. CASE r = 0
    BY <1>1, <1>2, <2>1
  <2>2. CASE r # 0
    <3>1. b * (d + 1) = b * d + b
      BY <1>1
    <3> QED BY <1>1, <1>2, <2>2, <3>1
  <2> QED BY <2>1, <2>2
<1>4. n \in 1..b
  BY <1>1, <1>2
<1> HIDE DEF e
<1>5. ~(q < e)
  <2> SUFFICES ASSUME q < e PROVE FALSE
    OBVIOUS
  <2>1. b * 1 <= b * (e - q)
    BY <1>1, <1>3, Multiples
  <2>2. b * 1 = b /\ b * (e - q) = b * e - b * q
    BY <1>1, <1>3
  <2> QED BY <1>1, <1>3, <1>4, <2>1, <2>2
<1>6. ~(e < q)
  <2> SUFFICES ASSUME e < q PROVE FALSE
    OBVIOUS
  <2>1. b * 1 <= b * (q - e)
    BY <1>1, <1>3, Multiples
  <2>2. b * 1 = b /\ b * (q - e) = b * q - b * e
    BY <1>1, <1>3
  <2> QED BY <1>1, <1>3, <1>4, <2>1, <2>2
<1>7. e = q
  BY <1>1, <1>3, <1>5, <1>6
<1>8. (q - 1) * b = b * q - b
  BY <1>1
<1> QED BY <1>1, <1>3, <1>4, <1>7, <1>8

(* The address of a page, in a file that fits the chip.                    *)
LEMMA PageAddress ==
    ASSUME IndInv, stage = "programming", Good
    PROVE  /\ Aim % Capacity = IF command = "prog" THEN spi_f_addr + page * Page ELSE spi_f_addr
           /\ spi_f_addr \in Nat /\ spi_f_addr + Len(packet) <= Capacity
<1>1. /\ spi_f_addr \in Nat /\ Len(sent) = spi_f_addr + Len(packet) /\ Len(sent) <= Capacity
      /\ Len(packet) \in Nat \ {0} /\ Capacity \in Nat
      /\ page * Page \in Nat /\ page * Page < Len(packet)
  BY PageFacts, ChipAssumption DEF IndInv, TypeOK, Carried, Good
<1>2. Aim = IF command = "prog" THEN spi_f_addr + page * Page ELSE spi_f_addr
  BY <1>1 DEF Aim
<1>3. Aim \in Nat /\ Aim < Capacity
  BY <1>1, <1>2
<1> QED BY <1>1, <1>2, <1>3, SmallMod

(* A page program on a sound chip: the page is in the chip, what lies      *)
(* behind it is as blank as before.                                        *)
LEMMA WrittenPage ==
    ASSUME IndInv, Answering, Written, Deselect, command = "prog", Clean, Clean'
    PROVE  /\ \A s \in Slots : s >= spi_f_addr + page * Page + PageLen => mem'[s] = {}
           /\ \A j \in 1..Len(packet) : j <= page * Page + PageLen
                  => mem'[spi_f_addr + j - 1] = packet[j]
<1>1. /\ TypeOK /\ Phases /\ step = "deselect" /\ Execute /\ UNCHANGED <<packet, sent, harm, peeks>>
  BY DEF IndInv, Deselect
<1>2. stage = "programming" /\ heard = "page"
  BY <1>1 DEF Phases, TypeOK, Answering, Clean
<1>3. mem' = [s \in Slots |-> Programmed(s)]
  <2>1. PICK weak \in SUBSET PageOf(adr) :
           /\ faults' = IF weak = {} THEN faults ELSE faults + 1
           /\ mem' = [s \in Slots |-> IF s \in weak THEN mem[s] ELSE Programmed(s)]
    BY <1>1, <1>2 DEF Execute
  <2>2. weak = {}
    BY <2>1 DEF Clean
  <2> QED BY <2>1, <2>2
<1>4. /\ spi_f_addr \in Nat /\ spi_f_addr + Len(packet) <= Capacity
      /\ Len(packet) \in Nat \ {0} /\ Capacity \in Nat /\ PageLen \in Nat
      /\ page * Page \in Nat /\ page * Page + PageLen <= Len(packet)
  BY <1>1, <1>2, PageFacts, PageAddress, ChipAssumption DEF Clean
<1>5. adr = spi_f_addr + page * Page /\ (adr % Page) + PageLen <= Page
  BY <1>1, <1>2, PageAddress DEF IndInv, Aimed, Fits, Clean, Good
<1>6. BlankFrom(spi_f_addr + page * Page) /\ InChip(page * Page)
  <2>1. Reached = page * Page
    BY <1>2, <1>4 DEF Reached
  <2> QED BY <1>2, <2>1 DEF Written
<1>7. ASSUME NEW s \in Slots, s >= adr + PageLen PROVE mem'[s] = {}
  <2>1. mem[s] = {}
    BY <1>4, <1>5, <1>6, <1>7 DEF BlankFrom, Slots
  <2> QED BY <1>1, <1>2, <1>3, <1>5, <1>7, <2>1, ProgrammedFacts
<1>8. ASSUME NEW j \in 1..Len(packet), j <= page * Page + PageLen
      PROVE  mem'[spi_f_addr + j - 1] = packet[j]
  <2> DEFINE s == spi_f_addr + j - 1
  <2>1. s \in Slots
    BY <1>4 DEF Slots
  <2>2. CASE j <= page * Page
    <3>1. s < adr
      BY <1>4, <1>5, <2>2
    <3>2. Programmed(s) = mem[s]
      BY <1>1, <1>2, <1>5, <2>1, <3>1, ProgrammedFacts
    <3> QED BY <1>3, <1>6, <2>1, <2>2, <3>2 DEF InChip
  <2>3. CASE j > page * Page
    <3> DEFINE i == j - page * Page
    <3>1. i \in 1..PageLen /\ s = adr + i - 1 /\ page * Page + i = j /\ s >= spi_f_addr + page * Page
      BY <1>4, <1>5, <1>8, <2>3
    <3> HIDE DEF i, s
    <3>2. Programmed(s) = mem[s] \cup packet[page * Page + i]
      BY <1>1, <1>2, <1>5, <2>1, <3>1, ProgrammedFacts
    <3>3. mem[s] = {}
      BY <1>6, <2>1, <3>1 DEF BlankFrom
    <3> QED BY <1>3, <2>1, <3>1, <3>2, <3>3 DEF s
  <2> QED BY <1>4, <2>2, <2>3
<1> QED BY <1>5, <1>7, <1>8

LEMMA WrittenDeselect ==
    ASSUME IndInv, Answering, Written, Deselect, Clean, Clean'
    PROVE  Written'
<1>1. /\ TypeOK /\ Phases /\ step = "deselect" /\ Execute /\ After
      /\ UNCHANGED <<packet, sent, harm, peeks>>
      /\ heard = IF command = "prog" THEN "page" ELSE command
      /\ stage \in {"erasing", "programming", "verifying"}
      /\ PageLen' = IF page' = Pages - 1 /\ Len(packet) % Page # 0 THEN Len(packet) % Page ELSE Page
  BY DEF IndInv, Phases, TypeOK, Deselect, Answering, Clean, PageLen, Pages
<1>2. CASE command = "wren"
  <2>1. mem' = mem /\ command' \in {"erase", "prog"} /\ UNCHANGED <<stage, page, spi_f_addr>>
    BY <1>1, <1>2 DEF Execute, After, Do
  <2>2. stage # "verifying" /\ Reached' = page * Page + 0 /\ Reached = page * Page + 0
    BY <1>1, <1>2, <2>1 DEF Reached, Phases
  <2> QED BY <1>1, <2>1, <2>2 DEF Written, BlankFrom, InChip
<1>3. CASE command = "erase"
  <2>1. mem' = Erased /\ stage' = "erasing"
    BY <1>1, <1>3 DEF Execute, After, Do, Phases
  <2> QED BY <2>1 DEF Written, BlankFrom, Erased
<1>4. CASE command = "prog"
  <2>1. /\ stage = "programming" /\ command' = "status" /\ UNCHANGED <<stage, page, spi_f_addr>>
    BY <1>1, <1>4 DEF After, Do, Phases
  <2>2. Reached' = page * Page + PageLen
    BY <1>1, <2>1 DEF Reached, PageLen
  <2>3. page * Page \in Nat /\ PageLen \in Nat /\ spi_f_addr \in Nat
    BY <1>1, <2>1, PageFacts, ChipAssumption DEF TypeOK
  <2>4. spi_f_addr + (page * Page + PageLen) = spi_f_addr + page * Page + PageLen
    BY <2>3
  <2> QED BY <1>1, <1>4, <2>1, <2>2, <2>4, WrittenPage DEF Written, BlankFrom, InChip
<1>5. CASE command = "status" /\ stage = "erasing"
  <2>1. mem' = mem /\ stage' = "waiting" /\ spi_f_addr' = spi_f_addr + 0
    BY <1>1, <1>5 DEF Execute, After
  <2>2. spi_f_addr' = 0
    BY <1>5, <2>1 DEF IndInv, Carried
  <2>3. BlankFrom(0)
    BY <1>5 DEF Written
  <2> QED BY <2>1, <2>2, <2>3 DEF Written, BlankFrom
<1>6. CASE command = "status" /\ stage = "programming"
  <2>1. mem' = mem /\ spi_f_addr' = spi_f_addr
    BY <1>1, <1>6 DEF Execute, After, Do
  <2>2. BlankFrom(spi_f_addr + (page * Page + PageLen)) /\ InChip(page * Page + PageLen)
    BY <1>6 DEF Written, Reached
  <2>3. Reached' = page * Page + PageLen /\ stage' \in {"programming", "verifying"}
    <3>1. /\ page \in Nat /\ Pages \in Nat /\ page <= Pages - 1 /\ Page \in Nat \ {0}
          /\ Len(packet) \in Nat \ {0}
      BY <1>1, <1>6, PageFacts, ChipAssumption DEF TypeOK
    <3>2. CASE MorePages
      <4>1. stage' = "programming" /\ command' = "wren" /\ page' = page + 1
        BY <1>1, <1>6, <3>2 DEF After, Do
      <4>2. PageLen = Page
        BY <3>1, <3>2 DEF PageLen, MorePages
      <4>3. (page + 1) * Page + 0 = page * Page + Page
        BY <3>1
      <4> QED BY <4>1, <4>2, <4>3 DEF Reached
    <3>3. CASE ~MorePages
      <4>1. stage' = "verifying"
        BY <1>1, <1>6, <3>3 DEF After, Do
      <4>2. page = Pages - 1
        BY <3>1, <3>3 DEF MorePages
      <4>3. PageLen = IF Len(packet) % Page # 0 THEN Len(packet) % Page ELSE Page
        BY <4>2 DEF PageLen
      <4>4. Pages = (Len(packet) + Page - 1) \div Page
        BY DEF Pages
      <4>5. page * Page + PageLen = Len(packet)
        BY <3>1, <4>2, <4>3, <4>4, LastPage
      <4> QED BY <1>1, <4>1, <4>5 DEF Reached
    <3> QED BY <3>2, <3>3
  <2>4. stage' \notin {"erasing", "waiting"}
    BY <2>3
  <2> QED BY <1>1, <2>1, <2>2, <2>3, <2>4 DEF Written, BlankFrom, InChip
<1>7. CASE command = "read"
  <2>1. mem' = mem /\ stage' = "waiting" /\ spi_f_addr' = spi_f_addr + Len(packet)
    BY <1>1, <1>7 DEF Execute, After
  <2>2. BlankFrom(spi_f_addr + Len(packet))
    BY <1>1, <1>7 DEF Written, Reached, Phases
  <2> QED BY <2>1, <2>2 DEF Written, BlankFrom
<1>8. command \in {"wren", "erase", "prog", "status", "read"}
      /\ (command = "status" => stage # "verifying")
  BY <1>1 DEF Phases
<1> QED BY <1>1, <1>2, <1>3, <1>4, <1>5, <1>6, <1>7, <1>8

LEMMA WrittenStep ==
    ASSUME IndInv, Answering, Written, [Next]_vars
    PROVE  Written'
<1>0. TypeOK /\ Phases
  BY DEF IndInv
<1>1. CASE OnBegin
  BY <1>1 DEF OnBegin, Do, Written
<1> SUFFICES ASSUME Clean', ~OnBegin PROVE Written'
  BY <1>1 DEF Written
<1>2. CASE \E n \in Sizes : \E data \in [1..n -> Data] : OnData(data)
  <2>7. PICK n \in Sizes : \E data \in [1..n -> Data] : OnData(data)
    BY <1>2
  <2>1. PICK data \in [1..n -> Data] : OnData(data)
    BY <2>7
  <2>2. n \in Nat /\ data \in Seq(Data) /\ Len(data) = n
    BY ChipAssumption, SeqDef DEF Sizes
  <2>3. /\ stage = "waiting" /\ stage' = "programming" /\ command' = "wren" /\ page' = 0
        /\ sent' = sent \o data
        /\ UNCHANGED <<spi_f_addr, mem, harm, peeks, faults>>
    BY <2>1 DEF OnData, Do, chip
  <2>4. Len(sent') = Len(sent) + n /\ Len(sent) \in Nat
    <3>1. sent \in Seq(Data)
      BY <1>0 DEF TypeOK
    <3> QED BY <2>2, <2>3, <3>1, ConcatProperties
  <2>5. Clean
    BY <2>2, <2>3, <2>4, ChipAssumption DEF Clean, Good
  <2>6. Reached' = 0 /\ spi_f_addr + 0 = spi_f_addr
    BY <1>0, <2>3, ChipAssumption DEF Reached, TypeOK
  <2> QED BY <2>3, <2>5, <2>6 DEF Written, BlankFrom, InChip
<1>3. CASE EndOfSession("failed") \/ EndOfSession("finished") \/ Done \/ PowerLoss
  BY <1>3 DEF EndOfSession, Done, PowerLoss, Written
<1>4. CASE Select \/ Opcode \/ Address \/ SendPage \/ Verify \/ Poll \/ PollFloats \/ Ready
           \/ UNCHANGED vars
  <2>1. /\ UNCHANGED <<command, packet, page, spi_f_addr, mem, sent, peeks, faults>>
        /\ stage' \in {stage, "failed"} /\ harm \subseteq harm'
    BY <1>4 DEF Select, Opcode, Address, SendPage, Verify, Poll, PollFloats, Ready, chip, thread,
                vars
  <2>2. Clean
    BY <2>1 DEF Clean, Good
  <2>3. PageLen' = PageLen /\ (stage' = stage => Reached' = Reached)
    BY <2>1 DEF Reached, PageLen, Pages
  <2> QED BY <2>1, <2>2, <2>3 DEF Written, BlankFrom, InChip
<1>5. CASE Deselect
  <2>1. peeks = 0 /\ faults = 0
    <3>1. faults' = faults \/ faults' = faults + 1
      BY <1>5 DEF Deselect, Execute
    <3> QED BY <1>0, <1>5, <3>1 DEF Deselect, Clean, TypeOK
  <2>2. Clean
    BY <1>5, <2>1 DEF Deselect, Clean, Good
  <2> QED BY <1>5, <2>2, WrittenDeselect
<1>6. ~FfRead
  BY <1>0 DEF FfRead, Clean, TypeOK
<1> QED BY <1>2, <1>3, <1>4, <1>5, <1>6 DEF Next, Driver

(* as_prog waits where it must, enables each write and addresses each page *)
(* rightly: as_verify finds no difference on a chip that is sound.         *)
THEOREM SoundChipVerifies == Spec => []CleanVerifies
<1>1. Init => Answering /\ Written
  BY DEF Init, Answering, Written
<1>2. IndInv /\ Answering /\ Written /\ [Next]_vars => Answering' /\ Written'
  BY AnsweringStep, WrittenStep
<1>3. IndInv /\ Answering /\ Written => CleanVerifies
  <2> SUFFICES ASSUME IndInv, Answering, Written, Clean, stage = "verifying", step = "data"
               PROVE  Listening /\ Same
    BY DEF CleanVerifies, Clean, Good
  <2>1. command = "read" /\ Listening
    BY DEF IndInv, Phases, Answering, Clean, Listening
  <2>2. /\ spi_f_addr \in Nat /\ Len(packet) \in Nat \ {0} /\ Capacity \in Nat
        /\ spi_f_addr + Len(packet) <= Capacity
    BY PageFacts, ChipAssumption DEF Clean, Good, IndInv, TypeOK, Carried
  <2>3. adr = spi_f_addr
    <3>1. adr = Aim % Capacity /\ Aim = spi_f_addr + 0
      BY <2>1 DEF IndInv, Aimed, Aim, Listening
    <3>2. spi_f_addr < Capacity
      BY <2>2
    <3> QED BY <2>2, <3>1, <3>2, SmallMod
  <2>4. ASSUME NEW j \in 1..Len(packet) PROVE mem[(adr + j - 1) % Capacity] = packet[j]
    <3>1. (adr + j - 1) % Capacity = spi_f_addr + j - 1
      <4>1. spi_f_addr + j - 1 \in Nat /\ spi_f_addr + j - 1 < Capacity
        BY <2>2
      <4> QED BY <2>2, <2>3, <4>1, SmallMod
    <3>2. j <= Len(packet)
      BY <2>2
    <3> QED BY <3>1, <3>2 DEF Written, Reached, InChip
  <2> QED BY <2>1, <2>4 DEF Same
<1> QED BY <1>1, <1>2, <1>3, FlashInvariance, PTL DEF Spec
=============================================================================
