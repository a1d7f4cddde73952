------------------------- MODULE YmodemUpload_proofs -------------------------
(***************************************************************************)
(* Proofs about uploads: for any number of clicks, of units in a file and  *)
(* of faults on the line, and every timing of PC, line and board.          *)
(***************************************************************************)
EXTENDS YmodemUpload, SequenceTheorems, DivisionLemmas, TLAPS

\* What is on the line, with the units of its packets up to n.
Commands  == [type : {"command"}, kind : Kinds]
Packets(n) == [type : {"packet"}, by : Uploads, seq : Nat, unit : 0..n,
               state : {"good", "crc", "short"}]
Items(n)  == Commands \cup Packets(n) \cup [type : {"EOT"}]
Answers   == {"C", "ACK", "CAN"}

(* The closing packet, of unit Closing, is the one thing only an upload    *)
(* that is done can have put there.                                        *)
SomeDone == \E u \in Uploads : pc[u] = "done"
Known    == IF SomeDone THEN Closing ELSE Units

Scalars ==
    /\ pc \in [Uploads -> {"idle", "done", "failed"} \cup Waiting]
    /\ kind \in [Uploads -> Kinds] /\ sent \in [Uploads -> 0..Units]
    /\ prompt \in BOOLEAN /\ packetNumber \in 0..(Numbers - 1)
    /\ mode \in {"cmd", "ymodem"} /\ flag \in [Kinds -> BOOLEAN]
    /\ created \subseteq Kinds /\ active \in Kinds \cup {"none"}
    /\ stage \in {"none", "establishing", "established", "transmitting", "finishing",
                  "finished", "failed"}
    /\ tries \in 0..Tries
    /\ asserted \subseteq Kinds /\ faults \in 0..MaxFaults /\ delivered \subseteq Uploads
    /\ clean \in BOOLEAN

Lines == /\ up \in Seq(Items(Known)) /\ fifo \in Seq(Items(Known))
         /\ down \in Seq(Answers) /\ got \in Seq(Uploads \X (0..Closing))

Threads == /\ NothingLeftSet
           /\ created \cap asserted = {}
           /\ active \notin created /\ active \notin asserted
           /\ stage = "none" <=> active = "none"

IndInv == Scalars /\ Lines /\ Threads /\ FinishIsKnown

LEMMA KindFacts == "none" \notin Kinds /\ \A k \in Kinds : k \in {"mcu", "fpga"}
BY UploadAssumption

LEMMA ItemsGrow == Items(Units) \subseteq Items(Closing)
<1>1. 0..Units \subseteq 0..Closing
  BY UploadAssumption DEF Closing
<1> QED BY <1>1 DEF Items, Packets

LEMMA KnownRange ==
    /\ Known \in {Units, Closing} /\ Known' \in {Units, Closing}
    /\ Units \in Nat \ {0} /\ Closing \in Nat /\ Units < Closing
BY UploadAssumption DEF Known, Closing

LEMMA PCScalars ==
    ASSUME Scalars, NEW u \in Uploads, Click(u) \/ Answer(u) \/ DataReceived
    PROVE  Scalars'
<1> USE DEF Scalars, pcvars, board, history
<1>0. 0 \in 0..(Numbers - 1) /\ (packetNumber + 1) % Numbers \in 0..(Numbers - 1)
  <2>1. packetNumber + 1 \in Int /\ Numbers \in Nat /\ Numbers > 0
    BY UploadAssumption
  <2> QED BY <2>1
<1>1. CASE Click(u)
  BY <1>1 DEF Click, Waiting
<1>2. CASE Named(u) \/ NamedOK(u)
  BY <1>2 DEF Named, NamedOK, Waiting
<1>3. CASE SendUnit(u)
  <2>1. sent[u] + 1 \in 0..Units
    BY <1>3, UploadAssumption DEF SendUnit
  <2> QED BY <1>0, <1>3, <2>1 DEF SendUnit, Waiting
<1>4. CASE SendEot(u) \/ Refused(u)
  BY <1>4 DEF SendEot, Refused, Waiting
<1>5. CASE Close(u)
  BY <1>0, <1>5 DEF Close, Waiting
<1>6. CASE DataReceived
  BY <1>6 DEF DataReceived
<1> QED BY <1>1, <1>2, <1>3, <1>4, <1>5, <1>6 DEF Answer

LEMMA PCLines ==
    ASSUME Scalars, Lines, NEW u \in Uploads, Click(u) \/ Answer(u) \/ DataReceived
    PROVE  Lines' /\ (SomeDone => SomeDone')
<1>1. SomeDone => SomeDone'
  BY DEF SomeDone, Scalars, Click, Answer, DataReceived, Named, NamedOK, SendUnit, SendEot,
         Close, Refused, Reads, pcvars, Waiting
<1>2. Items(Known) \subseteq Items(Known')
  BY <1>1, ItemsGrow DEF Known
<1>3. up \in Seq(Items(Known')) /\ fifo \in Seq(Items(Known'))
  BY <1>2, SeqMonotonic DEF Lines
<1>4. up' = up \/ \E item \in Items(Known') : up' = Append(up, item)
  <2> USE DEF Packet, Items, Packets
  <2>0. packetNumber \in Nat /\ packetNumber' \in Nat
    <3>1. Scalars'
      BY PCScalars
    <3> QED BY <3>1, UploadAssumption DEF Scalars
  <2>1. CASE Click(u)
    <3>1. [type |-> "command", kind |-> kind[u]] \in Items(Known')
      BY DEF Commands, Scalars
    <3> HIDE DEF Items
    <3> QED BY <2>1, <3>1 DEF Click
  <2>2. CASE Named(u)
    <3>1. Packet(u, packetNumber, 0) \in Items(Known')
      BY <2>0, KnownRange
    <3> HIDE DEF Items, Packet
    <3> QED BY <2>2, <3>1 DEF Named
  <2>3. CASE SendUnit(u)
    <3>1. sent'[u] \in 0..Known'
      <4>1. sent'[u] \in 0..Units
        BY <2>3, UploadAssumption DEF SendUnit, Scalars
      <4> QED BY <4>1, KnownRange
    <3>2. Packet(u, packetNumber', sent'[u]) \in Items(Known')
      BY <2>0, <3>1
    <3> HIDE DEF Items, Packet
    <3> QED BY <2>3, <3>2 DEF SendUnit
  <2>4. CASE SendEot(u)
    <3>1. [type |-> "EOT"] \in Items(Known')
      OBVIOUS
    <3> HIDE DEF Items
    <3> QED BY <2>4, <3>1 DEF SendEot
  <2>5. CASE Close(u)
    <3>1. Known' = Closing
      BY <2>5 DEF Close, Known, SomeDone, Scalars
    <3>2. Packet(u, 0, Closing) \in Items(Known')
      BY <3>1, KnownRange
    <3> HIDE DEF Items, Packet
    <3> QED BY <2>5, <3>2 DEF Close
  <2>6. CASE NamedOK(u) \/ Refused(u) \/ DataReceived
    BY <2>6 DEF NamedOK, Refused, DataReceived
  <2> QED BY <2>1, <2>2, <2>3, <2>4, <2>5, <2>6 DEF Answer
<1>5. up' \in Seq(Items(Known'))
  BY <1>3, <1>4, AppendProperties
<1>6. down' \in Seq(Answers)
  <2>1. down' \in {down, <<>>} \/ (down # <<>> /\ down' = Tail(down))
    BY DEF Click, Answer, DataReceived, Named, NamedOK, SendUnit, SendEot, Close, Refused, Reads
  <2>2. down # <<>> => Tail(down) \in Seq(Answers)
    BY HeadTailProperties DEF Lines
  <2>3. down \in Seq(Answers) /\ <<>> \in Seq(Answers)
    BY EmptySeq DEF Lines
  <2> QED BY <2>1, <2>2, <2>3
<1>7. fifo' = fifo /\ got' = got
  BY DEF Click, Answer, DataReceived, Named, NamedOK, SendUnit, SendEot, Close, Refused, board
<1> QED BY <1>1, <1>3, <1>5, <1>6, <1>7 DEF Lines

(* The PC: what it takes from its input, what it sends, how far it is.     *)
LEMMA PCSteps ==
    ASSUME IndInv, NEW u \in Uploads, Click(u) \/ Answer(u) \/ DataReceived
    PROVE  IndInv'
<1>1. Scalars' /\ Lines' /\ (SomeDone => SomeDone')
  BY PCScalars, PCLines DEF IndInv
<1>2. UNCHANGED <<mode, active, flag, created, asserted, stage>>
  BY DEF Click, Answer, DataReceived, Named, NamedOK, SendUnit, SendEot,
         Close, Refused, board
<1>3. Threads'
  BY <1>2 DEF IndInv, Threads, NothingLeftSet
<1>4. FinishIsKnown'
  BY <1>1, <1>2 DEF IndInv, FinishIsKnown, SomeDone
<1> QED BY <1>1, <1>3, <1>4 DEF IndInv

(* The line loses and damages what is on it.                               *)
LEMMA LineSteps ==
    ASSUME IndInv, Lose \/ (\E s \in {"crc", "short"} : Damage(s))
    PROVE  IndInv'
<1>1. faults' \in 0..MaxFaults
  BY UploadAssumption DEF IndInv, Scalars, Lose, Damage, Fault
<1>2. UNCHANGED <<pcvars, down, board>> /\ Known' = Known
  BY DEF Lose, Damage, Known, SomeDone, pcvars
<1>3. up' \in Seq(Items(Known))
  <2>1. up # <<>> /\ up \in Seq(Items(Known))
    BY DEF Lose, Damage, IndInv, Lines
  <2>2. Head(up) \in Items(Known) /\ Tail(up) \in Seq(Items(Known))
    BY <2>1, HeadTailProperties
  <2>3. ASSUME NEW s \in {"crc", "short"}, Damage(s)
        PROVE  up' \in Seq(Items(Known))
    <3>1. Head(up) \in Packets(Known)
      BY <2>2, <2>3 DEF Damage, Items, Commands
    <3>2. [Head(up) EXCEPT !.state = s] \in Items(Known)
      BY <3>1 DEF Items, Packets
    <3> DEFINE h == [Head(up) EXCEPT !.state = s]
    <3>3. up' = <<h>> \o Tail(up)
      BY <2>3 DEF Damage
    <3> HIDE DEF h
    <3>4. h \in Items(Known)
      BY <3>2 DEF h
    <3>5. <<h>> \in Seq(Items(Known))
      BY <3>4
    <3> QED BY <2>2, <3>3, <3>5, ConcatProperties
  <2> QED BY <2>2, <2>3 DEF Lose
<1>4. Lines'
  BY <1>2, <1>3 DEF IndInv, Lines, board
<1>5. Scalars'
  BY <1>1, <1>2 DEF IndInv, Scalars, pcvars, board, history
<1>6. Threads' /\ FinishIsKnown'
  BY <1>2 DEF IndInv, Threads, NothingLeftSet, FinishIsKnown, pcvars, board
<1> QED BY <1>4, <1>5, <1>6 DEF IndInv

(* The serial thread: a command starts a thread of its kind unless there   *)
(* is one.                                                                 *)
LEMMA SerialSteps ==
    ASSUME IndInv, Serial
    PROVE  IndInv'
<1>1. UNCHANGED <<pcvars, down, mode, active, stage, tries, got, asserted, faults, history>>
      /\ Known' = Known
  BY DEF Serial, Command, ToFifo, Known, SomeDone, pcvars
<1>2. up # <<>> /\ up \in Seq(Items(Known)) /\ fifo \in Seq(Items(Known))
  BY DEF Serial, Command, ToFifo, IndInv, Lines
<1>3. Head(up) \in Items(Known) /\ Tail(up) \in Seq(Items(Known))
  BY <1>2, HeadTailProperties
<1>4. Lines'
  <2>1. up' = Tail(up) /\ fifo' \in {fifo, Append(fifo, Head(up))}
    BY DEF Serial, Command, ToFifo
  <2>2. Append(fifo, Head(up)) \in Seq(Items(Known))
    BY <1>2, <1>3, AppendProperties
  <2> QED BY <1>1, <1>2, <1>3, <2>1, <2>2 DEF IndInv, Lines
<1>5. UNCHANGED <<flag, created>>
      \/ \E k \in Kinds : ~flag[k] /\ created' = created \cup {k}
                          /\ flag' = [flag EXCEPT ![k] = TRUE]
  <2>1. CASE UNCHANGED <<flag, created>>
    BY <2>1
  <2>2. CASE ~UNCHANGED <<flag, created>>
    <3> DEFINE k == Head(up).kind
    <3>1. Head(up).type = "command" /\ ~flag[k] /\ created' = created \cup {k}
          /\ flag' = [flag EXCEPT ![k] = TRUE]
      BY <2>2 DEF Serial, Command, ToFifo
    <3>2. k \in Kinds
      BY <1>3, <3>1 DEF Items, Commands, Packets
    <3> HIDE DEF k
    <3> QED BY <3>1, <3>2
  <2> QED BY <2>1, <2>2
<1>6. CASE UNCHANGED <<flag, created>>
  BY <1>1, <1>4, <1>6
     DEF IndInv, Scalars, Threads, NothingLeftSet, FinishIsKnown, pcvars, history
<1>7. ASSUME NEW k \in Kinds, ~flag[k], created' = created \cup {k},
             flag' = [flag EXCEPT ![k] = TRUE]
      PROVE  IndInv'
  <2>1. k \notin created /\ k \notin asserted /\ k # active
    BY <1>7 DEF IndInv, Threads, NothingLeftSet
  <2>2. Scalars'
    BY <1>1, <1>7 DEF IndInv, Scalars, pcvars, history
  <2>3. \A j \in Kinds : flag'[j] <=> (j = k \/ flag[j])
    BY <1>7 DEF IndInv, Scalars
  <2>4. NothingLeftSet'
    BY <1>1, <1>7, <2>3 DEF IndInv, Threads, NothingLeftSet
  <2>5. Threads'
    BY <1>1, <1>7, <2>1, <2>4 DEF IndInv, Threads
  <2>6. FinishIsKnown'
    BY <1>1 DEF IndInv, FinishIsKnown, pcvars
  <2> QED BY <1>4, <2>2, <2>5, <2>6 DEF IndInv
<1> QED BY <1>5, <1>6, <1>7
----------------------------------------------------------------------------
\* The steps of a session that is under way.
Exchange == \/ AskAgain \/ Begin \/ Ignore \/ TakeUnit \/ TakeEot \/ Finish
            \/ CommandBreaks \/ Break \/ EraseFails \/ WriteFails

LEMMA ExchangeScalars ==
    ASSUME Scalars, Exchange
    PROVE  /\ Scalars' /\ UNCHANGED Rest /\ Known' = Known
           /\ stage # "none" /\ stage' # "none"
           /\ stage' = "finished" => Finish
<1> USE DEF Busy, Reading
<1>1. UNCHANGED Rest
  BY DEF Exchange, AskAgain, Begin, Ignore, TakeUnit, TakeEot, Finish, CommandBreaks, Break,
     EraseFails, WriteFails, Fails, Rest
<1>2. stage # "none" /\ stage' # "none"
  BY DEF Exchange, AskAgain, Begin, Ignore, TakeUnit, TakeEot, Finish, CommandBreaks, Break,
     EraseFails, WriteFails, Fails, TimedOut
<1>3. stage' = "finished" => Finish
  BY DEF Exchange, AskAgain, Begin, Ignore, TakeUnit, TakeEot, Finish, CommandBreaks, Break,
     EraseFails, WriteFails, Fails, TimedOut
<1>4. stage' \in {stage, "established", "transmitting", "finishing", "finished", "failed"}
  BY DEF Exchange, AskAgain, Begin, Ignore, TakeUnit, TakeEot, Finish, CommandBreaks, Break,
     EraseFails, WriteFails, Fails
<1>5. tries' \in 0..Tries
  <2>1. CASE AskAgain
    BY <2>1, UploadAssumption DEF AskAgain, Scalars
  <2>2. CASE ~AskAgain
    <3>1. tries' = tries
      BY <2>2 DEF Exchange, Begin, Ignore, TakeUnit, TakeEot, Finish, CommandBreaks, Break,
         EraseFails, WriteFails, Fails
    <3> QED BY <3>1 DEF Scalars
  <2> QED BY <2>1, <2>2
<1>6. faults' \in 0..MaxFaults
  <2>1. faults' = faults \/ Fault
    BY DEF Exchange, AskAgain, Begin, Ignore, TakeUnit, TakeEot, Finish, CommandBreaks, Break,
       EraseFails, WriteFails
  <2> QED BY <2>1, UploadAssumption DEF Fault, Scalars
<1>7. delivered' \subseteq Uploads /\ clean' = clean
  <2>1. /\ delivered' \in {delivered, delivered \cup {u \in Uploads : Whole(u)}}
        /\ clean' = clean
    BY DEF Exchange, AskAgain, Begin, Ignore, TakeUnit, TakeEot, Finish, CommandBreaks, Break,
       EraseFails, WriteFails, Fails, history
  <2> QED BY <2>1 DEF Scalars
<1>8. Known' = Known
  BY <1>1 DEF Known, SomeDone, Rest, pcvars
<1>9. Scalars'
  BY <1>1, <1>4, <1>5, <1>6, <1>7 DEF Scalars, Rest, pcvars
<1> QED BY <1>1, <1>2, <1>3, <1>8, <1>9

LEMMA ExchangeAnswers ==
    ASSUME Scalars, Lines, Exchange
    PROVE  down' \in Seq(Answers)
<1>1. \E s \in Seq(Answers) : down' \in {down, down \o s}
  <2>1. CASE AskAgain \/ TakeUnit \/ TakeEot \/ Finish
    <3>1. down' = Append(down, "C") \/ down' = Append(down, "ACK")
      BY <2>1 DEF AskAgain, TakeUnit, TakeEot, Finish
    <3>2. <<"C">> \in Seq(Answers) /\ <<"ACK">> \in Seq(Answers)
      BY DEF Answers
    <3>3. Append(down, "C") = down \o <<"C">> /\ Append(down, "ACK") = down \o <<"ACK">>
      <4>1. down \in Seq(Answers) /\ "C" \in Answers /\ "ACK" \in Answers
        BY DEF Lines, Answers
      <4> QED BY <4>1, AppendIsConcat
    <3> QED BY <3>1, <3>2, <3>3
  <2>2. CASE Begin
    <3>1. <<"ACK", "C">> \in Seq(Answers)
      BY DEF Answers
    <3> QED BY <2>2, <3>1 DEF Begin
  <2>3. CASE CommandBreaks
    <3> DEFINE more == IF tries + 3 <= Tries THEN 3 ELSE Tries - tries
    <3>1. more \in Nat
      BY UploadAssumption DEF Scalars
    <3>2. down' = down \o [i \in 1..more |-> "C"]
      BY <2>3 DEF CommandBreaks
    <3> HIDE DEF more
    <3>3. [i \in 1..more |-> "C"] \in Seq(Answers)
      BY <3>1, SeqDef DEF Answers
    <3> QED BY <3>2, <3>3
  <2>4. CASE WriteFails
    <3>1. [i \in 1..Cans |-> "CAN"] \in Seq(Answers)
      BY UploadAssumption, SeqDef DEF Answers
    <3> QED BY <2>4, <3>1 DEF WriteFails
  <2>5. CASE Ignore \/ Break \/ EraseFails
    <3>1. down' = down /\ <<>> \in Seq(Answers)
      BY <2>5, EmptySeq DEF Ignore, Break, EraseFails
    <3> QED BY <3>1
  <2> QED BY <2>1, <2>2, <2>3, <2>4, <2>5 DEF Exchange
<1> QED BY <1>1, ConcatProperties DEF Lines

LEMMA ExchangeLines ==
    ASSUME Scalars, Lines, Exchange
    PROVE  Lines'
<1>1. UNCHANGED Rest /\ Known' = Known
  BY ExchangeScalars
<1>2. fifo' \in Seq(Items(Known))
  <2>1. fifo' \in {fifo, <<>>} \/ (fifo # <<>> /\ fifo' = Tail(fifo))
    BY DEF Exchange, AskAgain, Begin, Ignore, TakeUnit, TakeEot, Finish, CommandBreaks, Break,
       EraseFails, WriteFails, Fails, Reading
  <2>2. fifo # <<>> => Tail(fifo) \in Seq(Items(Known))
    BY HeadTailProperties DEF Lines
  <2>3. fifo \in Seq(Items(Known)) /\ <<>> \in Seq(Items(Known))
    BY EmptySeq DEF Lines
  <2> QED BY <2>1, <2>2, <2>3
<1>3. got' \in Seq(Uploads \X (0..Closing))
  <2>1. CASE TakeUnit
    <3>1. Head(fifo) \in Items(Known) /\ Head(fifo).type = "packet"
      BY <2>1, HeadTailProperties DEF TakeUnit, Reading, Data, Lines
    <3>2. Head(fifo) \in Packets(Known)
      BY <3>1 DEF Items, Commands
    <3>3. 0..Known \subseteq 0..Closing
      BY KnownRange
    <3>4. <<Head(fifo).by, Head(fifo).unit>> \in Uploads \X (0..Closing)
      BY <3>2, <3>3 DEF Packets
    <3> QED BY <2>1, <3>4, AppendProperties DEF TakeUnit, Lines
  <2>2. CASE ~TakeUnit
    <3>1. got' \in {got, <<>>}
      BY <2>2 DEF Exchange, AskAgain, Begin, Ignore, TakeEot, Finish, CommandBreaks, Break,
         EraseFails, WriteFails
    <3> QED BY <3>1, EmptySeq DEF Lines
  <2> QED BY <2>1, <2>2
<1> QED BY <1>1, <1>2, <1>3, ExchangeAnswers DEF Lines, Rest

(* The session itself: only the closing packet finishes it.                *)
LEMMA ExchangeSteps ==
    ASSUME IndInv, Exchange
    PROVE  IndInv'
<1>1. /\ Scalars' /\ UNCHANGED Rest /\ Known' = Known
      /\ stage # "none" /\ stage' # "none"
      /\ stage' = "finished" => Finish
  BY ExchangeScalars DEF IndInv
<1>2. Lines'
  BY ExchangeLines DEF IndInv
<1>3. Threads'
  BY <1>1 DEF IndInv, Threads, NothingLeftSet, Rest
<1>4. FinishIsKnown'
  <2>1. ASSUME Finish PROVE SomeDone
    <3>1. Head(fifo) \in Items(Known)
      BY <2>1, HeadTailProperties DEF Finish, Reading, IndInv, Lines
    <3>2. Head(fifo).type = "packet" /\ Head(fifo).unit = Closing
      BY <2>1 DEF Finish, Closes
    <3>3. Closing \in 0..Known
      BY <3>1, <3>2 DEF Items, Commands, Packets
    <3> QED BY <3>3, KnownRange DEF Known
  <2>2. SomeDone' = SomeDone
    BY <1>1 DEF SomeDone, Rest, pcvars
  <2> QED BY <1>1, <2>1, <2>2 DEF FinishIsKnown, SomeDone
<1> QED BY <1>1, <1>2, <1>3, <1>4 DEF IndInv

(* The upgrade threads come and go.                                        *)
LEMMA ThreadSteps ==
    ASSUME IndInv, (\E k \in Kinds : Start(k) \/ StartAsserts(k)) \/ Leave \/ Reset
    PROVE  IndInv'
<1>1. UNCHANGED <<pcvars, up, got, faults, delivered>> /\ Known' = Known
  BY DEF Start, StartAsserts, Leave, Reset, history, Known, SomeDone, pcvars
<1>2. Lines'
  <2>1. down' \in {down, Append(down, "C")} /\ fifo' \in {fifo, <<>>}
    BY DEF Start, StartAsserts, Leave, Reset
  <2>2. Append(down, "C") \in Seq(Answers)
    BY AppendProperties DEF IndInv, Lines, Answers
  <2>3. <<>> \in Seq(Items(Known))
    BY EmptySeq
  <2> QED BY <1>1, <2>1, <2>2, <2>3 DEF IndInv, Lines
<1>3. ASSUME NEW k \in Kinds, Start(k)
      PROVE  Scalars' /\ Threads' /\ FinishIsKnown'
  <2>1. Scalars'
    <3>1. 1 \in 0..Tries
      BY UploadAssumption
    <3> QED BY <1>1, <1>3, <3>1 DEF Start, IndInv, Scalars, pcvars
  <2>2. /\ k \in created /\ created' = created \ {k} /\ active = "none" /\ active' = k
        /\ mode' = "ymodem" /\ stage' = "establishing" /\ UNCHANGED <<flag, asserted>>
        /\ "none" \notin Kinds
    BY <1>3, KindFacts DEF Start
  <2>3. Threads'
    BY <2>2 DEF IndInv, Threads, NothingLeftSet
  <2> QED BY <2>1, <2>2, <2>3 DEF FinishIsKnown
<1>4. ASSUME NEW k \in Kinds, StartAsserts(k)
      PROVE  Scalars' /\ Threads' /\ FinishIsKnown'
  <2>1. Scalars'
    BY <1>1, <1>4 DEF StartAsserts, IndInv, Scalars, pcvars, history
  <2>2. /\ k \in created /\ created' = created \ {k} /\ asserted' = asserted \cup {k}
        /\ active # "none" /\ mode' = "ymodem" /\ UNCHANGED <<flag, active, stage>>
    BY <1>4 DEF StartAsserts, Busy, IndInv, Threads
  <2>3. Threads'
    BY <2>2 DEF IndInv, Threads, NothingLeftSet
  <2> QED BY <1>1, <2>1, <2>2, <2>3 DEF IndInv, FinishIsKnown, pcvars
<1>5. CASE Leave
  <2>1. Scalars'
    BY <1>1, <1>5, UploadAssumption DEF Leave, IndInv, Scalars, pcvars, history
  <2>2. /\ active \in Kinds /\ flag' = [flag EXCEPT ![active] = FALSE] /\ active' = "none"
        /\ mode' = "cmd" /\ stage' = "none" /\ UNCHANGED <<created, asserted>>
        /\ "none" \notin Kinds
    BY <1>5, KindFacts DEF Leave, IndInv, Scalars
  <2>3. \A k \in Kinds : flag'[k] <=> (flag[k] /\ k # active)
    BY <2>2 DEF IndInv, Scalars
  <2>4. Threads'
    BY <2>2, <2>3 DEF IndInv, Scalars, Threads, NothingLeftSet
  <2> QED BY <1>2, <2>1, <2>2, <2>4 DEF IndInv, FinishIsKnown
<1>6. CASE Reset
  <2>1. Scalars'
    BY <1>1, <1>6, UploadAssumption DEF Reset, IndInv, Scalars, pcvars, history
  <2>2. /\ created' = {} /\ asserted' = {} /\ active' = "none" /\ mode' = "cmd"
        /\ stage' = "none" /\ flag' = [k \in Kinds |-> FALSE] /\ "none" \notin Kinds
    BY <1>6, KindFacts DEF Reset
  <2>3. Threads'
    BY <2>2 DEF Threads, NothingLeftSet
  <2> QED BY <1>2, <2>1, <2>2, <2>3 DEF IndInv, FinishIsKnown
<1> QED BY <1>2, <1>3, <1>4, <1>5, <1>6 DEF IndInv

LEMMA InitInv == Init => IndInv
<1> SUFFICES ASSUME Init PROVE IndInv
  OBVIOUS
<1>1. Scalars
  BY UploadAssumption DEF Init, Scalars, Waiting
<1>2. Lines
  BY EmptySeq DEF Init, Lines
<1>3. Threads /\ FinishIsKnown
  BY KindFacts DEF Init, Threads, NothingLeftSet, FinishIsKnown
<1> QED BY <1>1, <1>2, <1>3 DEF IndInv

LEMMA UploadInvariance == Spec => []IndInv
<1>1. IndInv /\ [Next]_vars => IndInv'
  <2> SUFFICES ASSUME IndInv, [Next]_vars PROVE IndInv'
    OBVIOUS
  <2>1. ASSUME NEW u \in Uploads, Click(u) \/ Answer(u) PROVE IndInv'
    BY <2>1, PCSteps
  <2>2. CASE DataReceived
    BY <2>2, UploadAssumption, PCSteps
  <2>3. CASE Lose \/ \E s \in {"crc", "short"} : Damage(s)
    BY <2>3, LineSteps
  <2>4. CASE Serial
    BY <2>4, SerialSteps
  <2>5. CASE Session
    BY <2>5, ExchangeSteps, ThreadSteps DEF Session, Exchange
  <2>6. CASE UNCHANGED vars
    BY <2>6 DEF vars, IndInv, Scalars, Lines, Known, SomeDone, Threads, NothingLeftSet,
                FinishIsKnown
  <2> QED BY <2>1, <2>2, <2>3, <2>4, <2>5, <2>6 DEF Next
<1> QED BY InitInv, <1>1, PTL DEF Spec

(* Every variable keeps its type: no packet number, no count of tries and  *)
(* no answer of the board leaves its range.                                *)
THEOREM UploadTypeCorrect == Spec => []TypeOK
<1>1. IndInv => TypeOK
  <2> SUFFICES ASSUME IndInv PROVE TypeOK
    OBVIOUS
  <2>1. \A i \in 1..Len(down) : down[i] \in {"C", "ACK", "CAN"}
    BY ElementOfSeq DEF IndInv, Lines, Answers
  <2>2. \A i \in 1..Len(got) : got[i] \in Uploads \X (0..Closing)
    BY ElementOfSeq DEF IndInv, Lines
  <2> QED BY <2>1, <2>2 DEF IndInv, Scalars, TypeOK
<1> QED BY <1>1, UploadInvariance, PTL

(* rym_recv_on_device finishes a session only on the packet that an upload *)
(* sends when it is done with its file.                                    *)
THEOREM FinishKnown == Spec => []FinishIsKnown
<1>1. IndInv => FinishIsKnown
  BY DEF IndInv
<1> QED BY <1>1, UploadInvariance, PTL

(* Whatever way a session ends, uart_mode and the two flags are left as    *)
(* the next command needs them.                                            *)
THEOREM FlagsGivenUp == Spec => []NothingLeftSet
<1>1. IndInv => NothingLeftSet
  BY DEF IndInv, Threads
<1> QED BY <1>1, UploadInvariance, PTL
----------------------------------------------------------------------------
(* What is between the PC and the session, and how it is kept: commands    *)
(* and packets that store nothing (names and closing packets) are harmless *)
(* wherever they are; an item of S is the last but for commands.           *)
queue == fifo \o up

States   == {"good", "crc", "short"}
Names    == [type : {"packet"}, by : Uploads, seq : Nat, unit : {0}, state : States]
Closings == [type : {"packet"}, by : Uploads, seq : {0}, unit : {Closing}, state : States]
Harmless == Commands \cup Names \cup Closings
Eot      == [type : {"EOT"}]
UnitOf(u, n) ==
    [type : {"packet"}, by : {u}, seq : Nat, unit : {n}, state : States]

Ends(q, S, B) ==
    /\ q \in Seq(S \cup B)
    /\ \A i, j \in 1..Len(q) : i < j /\ q[i] \in S => q[j] \in Commands

\* What the line makes of x; p is q worn, with d items less after the first c.
Worn(x, y) ==
    y = x \/ (x.type = "packet" /\ \E s \in States : y = [x EXCEPT !.state = s])
Part(p, q) ==
    \E c, d \in Nat : /\ Len(p) + d <= Len(q)
                      /\ \A i \in 1..Len(p) : Worn(q[IF i <= c THEN i ELSE i + d], p[i])
\* p is q without its beginning.
Rear(p, q) ==
    \E d \in Nat \ {0} : Len(p) + d <= Len(q) /\ \A i \in 1..Len(p) : p[i] = q[i + d]

Closed(S) == \A x \in S : \A y : Worn(x, y) => y \in S

LEMMA ClosedSets ==
    /\ Closed(Commands) /\ Closed(Harmless) /\ Closed(Eot)
    /\ \A u \in Uploads, n \in 1..Units : Closed(UnitOf(u, n))
<1>1. Closed(Commands) /\ Closed(Eot)
  BY DEF Closed, Worn, Commands, Eot
<1>2. Closed(Harmless)
  <2>1. ASSUME NEW x \in Harmless \ Commands, NEW s \in States
        PROVE  [x EXCEPT !.state = s] \in Harmless
    BY <2>1 DEF Harmless, Commands, Names, Closings
  <2> QED BY <2>1 DEF Closed, Worn, Harmless, Commands
<1>3. ASSUME NEW u \in Uploads, NEW n \in 1..Units PROVE Closed(UnitOf(u, n))
  BY DEF Closed, Worn, UnitOf
<1> QED BY <1>1, <1>2, <1>3

LEMMA Disjoint ==
    /\ Commands \subseteq Harmless
    /\ Commands \cap Eot = {} /\ Harmless \cap Eot = {}
    /\ \A u \in Uploads, n \in 1..Units : UnitOf(u, n) \cap Harmless = {}
<1>1. Closing \notin 1..Units /\ 0 \notin 1..Units
  BY UploadAssumption DEF Closing
<1> QED BY <1>1 DEF Harmless, Commands, Names, Closings, Eot, UnitOf

LEMMA SeqOf ==
    ASSUME NEW T, NEW S, NEW q \in Seq(T), \A i \in 1..Len(q) : q[i] \in S
    PROVE  q \in Seq(S)
<1>1. Len(q) \in Nat /\ q \in [1..Len(q) -> T]
  BY LenProperties
<1>2. q \in [1..Len(q) -> S]
  BY <1>1
<1> QED BY <1>1, <1>2, SeqDef

LEMMA PartSeq ==
    ASSUME NEW T, NEW S, NEW p \in Seq(T), NEW q \in Seq(S), Part(p, q), Closed(S)
    PROVE  p \in Seq(S)
<1>1. PICK c \in Nat, d \in Nat :
          /\ Len(p) + d <= Len(q)
          /\ \A i \in 1..Len(p) : Worn(q[IF i <= c THEN i ELSE i + d], p[i])
  BY DEF Part
<1>2. Len(p) \in Nat /\ Len(q) \in Nat
  BY LenProperties
<1>3. ASSUME NEW i \in 1..Len(p) PROVE p[i] \in S
  <2> DEFINE k == IF i <= c THEN i ELSE i + d
  <2>1. k \in 1..Len(q)
    BY <1>1, <1>2
  <2>2. Worn(q[k], p[i])
    BY <1>1
  <2>3. q[k] \in S
    BY <2>1, ElementOfSeq
  <2> QED BY <2>2, <2>3 DEF Closed
<1> QED BY <1>3, SeqOf

LEMMA PartEnds ==
    ASSUME NEW T, NEW S, NEW B, NEW p \in Seq(T), NEW q, Part(p, q), Ends(q, S, B),
           Closed(S), Closed(B), Closed(Commands), S \cap B = {}
    PROVE  Ends(p, S, B)
<1>1. PICK c \in Nat, d \in Nat :
          /\ Len(p) + d <= Len(q)
          /\ \A i \in 1..Len(p) : Worn(q[IF i <= c THEN i ELSE i + d], p[i])
  BY DEF Part
<1>2. q \in Seq(S \cup B) /\ Len(p) \in Nat /\ Len(q) \in Nat
  BY LenProperties DEF Ends
<1>3. p \in Seq(S \cup B)
  <2>1. Closed(S \cup B)
    BY DEF Closed
  <2> QED BY <1>2, <2>1, PartSeq
<1>4. ASSUME NEW i \in 1..Len(p), NEW j \in 1..Len(p), i < j, p[i] \in S
      PROVE  p[j] \in Commands
  <2> DEFINE k == IF i <= c THEN i ELSE i + d
             l == IF j <= c THEN j ELSE j + d
  <2>1. k \in 1..Len(q) /\ l \in 1..Len(q) /\ k < l
    BY <1>1, <1>2, <1>4
  <2>2. Worn(q[k], p[i]) /\ Worn(q[l], p[j])
    BY <1>1
  <2>3. q[k] \in S
    <3>1. q[k] \in S \cup B
      BY <1>2, <2>1, ElementOfSeq
    <3>2. q[k] \in B => p[i] \in B
      BY <2>2 DEF Closed
    <3> QED BY <1>4, <3>1, <3>2
  <2>4. q[l] \in Commands
    BY <2>1, <2>3 DEF Ends
  <2> QED BY <2>2, <2>4 DEF Closed
<1> QED BY <1>3, <1>4 DEF Ends

\* Behind the item of S there are only commands.
LEMMA RearEnds ==
    ASSUME NEW T, NEW S, NEW B, NEW p \in Seq(T), NEW q, Rear(p, q), Ends(q, S, B), q[1] \in S
    PROVE  p \in Seq(Commands)
<1>1. PICK d \in Nat \ {0} : Len(p) + d <= Len(q) /\ \A i \in 1..Len(p) : p[i] = q[i + d]
  BY DEF Rear
<1>2. Len(p) \in Nat /\ Len(q) \in Nat
  BY LenProperties DEF Ends
<1>3. ASSUME NEW i \in 1..Len(p) PROVE p[i] \in Commands
  <2>1. 1 \in 1..Len(q) /\ i + d \in 1..Len(q) /\ 1 < i + d
    BY <1>1, <1>2
  <2>2. q[i + d] \in Commands
    BY <2>1 DEF Ends
  <2> QED BY <1>1, <2>2
<1> QED BY <1>3, SeqOf

LEMMA RearPart == ASSUME NEW p, NEW q, Rear(p, q) PROVE Part(p, q)
<1>1. PICK d \in Nat \ {0} : Len(p) + d <= Len(q) /\ \A i \in 1..Len(p) : p[i] = q[i + d]
  BY DEF Rear
<1>2. 0 \in Nat /\ d \in Nat
  OBVIOUS
<1>3. \A i \in 1..Len(p) : Worn(q[IF i <= 0 THEN i ELSE i + d], p[i])
  BY <1>1 DEF Worn
<1> QED BY <1>1, <1>2, <1>3 DEF Part

\* An item of S or a command is added.
LEMMA AddLast ==
    ASSUME NEW S, NEW B, NEW x \in S, NEW q \in Seq(B), S \cap B = {}
    PROVE  Ends(Append(q, x), S, B)
<1> DEFINE p == Append(q, x)
<1>1. q \in Seq(S \cup B) /\ x \in S \cup B
  BY SeqMonotonic
<1>2. /\ p \in Seq(S \cup B) /\ Len(p) = Len(q) + 1 /\ Len(q) \in Nat
      /\ \A i \in 1..Len(q) : p[i] = q[i] /\ q[i] \in B
  BY <1>1, AppendProperties, LenProperties, ElementOfSeq
<1>3. \A i, j \in 1..Len(p) : i < j => p[i] \notin S
  BY <1>2
<1> HIDE DEF p
<1> QED BY <1>2, <1>3 DEF Ends

LEMMA AddCommand ==
    ASSUME NEW S, NEW B, NEW x \in Commands, NEW q, Ends(q, S, B),
           Commands \subseteq B, S \cap B = {}
    PROVE  Ends(Append(q, x), S, B)
<1> DEFINE p == Append(q, x)
<1>1. q \in Seq(S \cup B) /\ x \in S \cup B
  BY DEF Ends
<1>2. /\ p \in Seq(S \cup B) /\ Len(p) = Len(q) + 1 /\ Len(q) \in Nat
      /\ \A i \in 1..Len(q) : p[i] = q[i]
      /\ p[Len(q) + 1] = x
  BY <1>1, AppendProperties, LenProperties
<1>3. ASSUME NEW i \in 1..Len(p), NEW j \in 1..Len(p), i < j, p[i] \in S
      PROVE  p[j] \in Commands
  <2>1. i \in 1..Len(q) /\ (j \in 1..Len(q) \/ j = Len(q) + 1)
    BY <1>2, <1>3
  <2> HIDE DEF p
  <2> QED BY <1>2, <1>3, <2>1 DEF Ends
<1> HIDE DEF p
<1> QED BY <1>2, <1>3 DEF Ends
----------------------------------------------------------------------------
(* What a step does to the queue.                                          *)
LEMMA QueueFacts ==
    ASSUME NEW T, up \in Seq(T), fifo \in Seq(T)
    PROVE  /\ queue \in Seq(T) /\ Len(queue) = Len(fifo) + Len(up)
           /\ Len(fifo) \in Nat /\ Len(up) \in Nat
           /\ \A i \in 1..Len(queue) :
                 queue[i] = IF i <= Len(fifo) THEN fifo[i] ELSE up[i - Len(fifo)]
           /\ fifo # <<>> => queue[1] = Head(fifo) /\ Len(queue) > 0
<1>1. /\ queue \in Seq(T) /\ Len(queue) = Len(fifo) + Len(up)
      /\ \A i \in 1..(Len(fifo) + Len(up)) :
            queue[i] = IF i <= Len(fifo) THEN fifo[i] ELSE up[i - Len(fifo)]
  BY ConcatProperties DEF queue
<1>2. Len(fifo) \in Nat /\ Len(up) \in Nat
  BY LenProperties
<1>3. ASSUME fifo # <<>> PROVE queue[1] = Head(fifo) /\ Len(queue) > 0
  <2>1. Len(fifo) > 0 /\ Head(fifo) = fifo[1]
    BY <1>2, <1>3, EmptySeq
  <2> QED BY <1>1, <1>2, <2>1
<1> QED BY <1>1, <1>2, <1>3

\* The queue is left alone, or the session reads on, or has ended.
LEMMA SessionReads ==
    ASSUME NEW T, up \in Seq(T), fifo \in Seq(T), up' = up,
           fifo' \in {fifo, <<>>} \/ (fifo # <<>> /\ fifo' = Tail(fifo))
    PROVE  /\ queue' \in Seq(T) /\ Part(queue', queue)
           /\ fifo # <<>> /\ fifo' # fifo => Rear(queue', queue)
<1>0. /\ Len(queue) = Len(fifo) + Len(up) /\ Len(fifo) \in Nat /\ Len(up) \in Nat
      /\ \A i \in 1..Len(queue) :
            queue[i] = IF i <= Len(fifo) THEN fifo[i] ELSE up[i - Len(fifo)]
  BY QueueFacts
<1>1. CASE fifo' = fifo
  <2>1. queue' = queue
    BY <1>1 DEF queue
  <2>2. Part(queue, queue)
    <3>1. \A i \in 1..Len(queue) : Worn(queue[IF i <= 0 THEN i ELSE i + 0], queue[i])
      BY DEF Worn
    <3>2. Len(queue) + 0 <= Len(queue) /\ 0 \in Nat
      BY <1>0
    <3> QED BY <3>1, <3>2 DEF Part
  <2> QED BY <1>1, <2>1, <2>2, QueueFacts
<1>2. CASE fifo # <<>> /\ fifo' = <<>>
  <2>1. queue' = up
    BY <1>2, ConcatEmptySeq DEF queue
  <2>2. Len(fifo) \in Nat \ {0}
    BY <1>2, EmptySeq
  <2>3. Len(up) + Len(fifo) <= Len(queue) /\ \A i \in 1..Len(up) : up[i] = queue[i + Len(fifo)]
    <3>1. ASSUME NEW i \in 1..Len(up) PROVE up[i] = queue[i + Len(fifo)]
      <4>1. /\ i + Len(fifo) \in 1..Len(queue) /\ ~(i + Len(fifo) <= Len(fifo))
            /\ (i + Len(fifo)) - Len(fifo) = i
        BY <1>0
      <4> QED BY <1>0, <4>1
    <3> QED BY <1>0, <3>1
  <2>4. Rear(up, queue)
    BY <2>2, <2>3 DEF Rear
  <2> QED BY <2>1, <2>4, RearPart
<1>3. CASE fifo # <<>> /\ fifo' = Tail(fifo)
  <2>1. /\ fifo' \in Seq(T) /\ Len(fifo') = Len(fifo) - 1
        /\ \A i \in 1..Len(fifo') : fifo'[i] = fifo[i + 1]
    BY <1>3, HeadTailProperties
  <2>2. /\ queue' \in Seq(T) /\ Len(queue') = Len(fifo') + Len(up)
        /\ \A i \in 1..(Len(fifo') + Len(up)) :
              queue'[i] = IF i <= Len(fifo') THEN fifo'[i] ELSE up[i - Len(fifo')]
    BY <2>1, ConcatProperties DEF queue
  <2>3. Len(queue') + 1 <= Len(queue) /\ 1 \in Nat \ {0}
    BY <1>0, <2>1, <2>2
  <2>4. \A i \in 1..Len(queue') : queue'[i] = queue[i + 1]
    <3> SUFFICES ASSUME NEW i \in 1..Len(queue') PROVE queue'[i] = queue[i + 1]
      OBVIOUS
    <3>1. queue[i + 1] = IF i + 1 <= Len(fifo) THEN fifo[i + 1] ELSE up[i + 1 - Len(fifo)]
      BY <1>0, <2>1, <2>2
    <3>2. queue'[i] = IF i <= Len(fifo') THEN fifo'[i] ELSE up[i - Len(fifo')]
      BY <2>2
    <3>3. i - Len(fifo') = i + 1 - Len(fifo) /\ (i <= Len(fifo') <=> i + 1 <= Len(fifo))
      BY <1>0, <2>1, <2>2
    <3>4. i <= Len(fifo') => i \in 1..Len(fifo')
      BY <1>0, <2>1, <2>2
    <3> QED BY <2>1, <3>1, <3>2, <3>3, <3>4
  <2>5. Rear(queue', queue)
    BY <2>3, <2>4 DEF Rear
  <2> QED BY <2>2, <2>5, RearPart
<1> QED BY <1>1, <1>2, <1>3

\* The first item on the line is damaged, lost, dropped or passed on.
LEMMA LineReads ==
    ASSUME NEW T, up \in Seq(T), fifo \in Seq(T), up' \in Seq(T), up # <<>>,
           \/ fifo' = fifo /\ up' = Tail(up)
           \/ fifo' = Append(fifo, Head(up)) /\ up' = Tail(up)
           \/ /\ fifo' = fifo /\ Len(up') = Len(up) /\ Worn(up[1], up'[1])
              /\ \A i \in 2..Len(up) : up'[i] = up[i]
    PROVE  queue' \in Seq(T) /\ Part(queue', queue)
<1>0. /\ Len(queue) = Len(fifo) + Len(up) /\ Len(fifo) \in Nat /\ Len(up) \in Nat \ {0}
      /\ \A i \in 1..Len(queue) :
            queue[i] = IF i <= Len(fifo) THEN fifo[i] ELSE up[i - Len(fifo)]
  BY QueueFacts, EmptySeq
<1>1. ASSUME fifo' = fifo
      PROVE  /\ queue' \in Seq(T) /\ Len(queue') = Len(fifo) + Len(up')
             /\ \A i \in 1..Len(queue') :
                   queue'[i] = IF i <= Len(fifo) THEN fifo[i] ELSE up'[i - Len(fifo)]
  <2>1. /\ queue' \in Seq(T) /\ Len(queue') = Len(fifo) + Len(up')
        /\ \A i \in 1..(Len(fifo) + Len(up')) :
              queue'[i] = IF i <= Len(fifo) THEN fifo[i] ELSE up'[i - Len(fifo)]
    BY <1>1, ConcatProperties DEF queue
  <2> QED BY <2>1
<1>2. CASE fifo' = fifo /\ up' = Tail(up)
  <2>1. Len(up') = Len(up) - 1 /\ \A i \in 1..Len(up') : up'[i] = up[i + 1]
    BY <1>2, HeadTailProperties
  <2>2. Len(queue') + 1 <= Len(queue) /\ 1 \in Nat
    BY <1>0, <1>1, <1>2, <2>1
  <2>3. \A i \in 1..Len(queue') : Worn(queue[IF i <= Len(fifo) THEN i ELSE i + 1], queue'[i])
    <3> SUFFICES ASSUME NEW i \in 1..Len(queue')
                 PROVE  queue'[i] = queue[IF i <= Len(fifo) THEN i ELSE i + 1]
      BY DEF Worn
    <3>1. CASE i <= Len(fifo)
      <4>1. i \in 1..Len(queue)
        BY <1>0, <2>2, <3>1
      <4> QED BY <1>0, <1>1, <1>2, <3>1, <4>1
    <3>2. CASE ~(i <= Len(fifo))
      <4>1. i + 1 \in 1..Len(queue) /\ ~(i + 1 <= Len(fifo))
            /\ i - Len(fifo) \in 1..Len(up') /\ i + 1 - Len(fifo) = (i - Len(fifo)) + 1
        BY <1>0, <1>1, <1>2, <2>1, <3>2
      <4>2. queue[i + 1] = up[(i - Len(fifo)) + 1]
        BY <1>0, <4>1
      <4>3. queue'[i] = up'[i - Len(fifo)]
        BY <1>1, <1>2, <3>2
      <4> QED BY <2>1, <3>2, <4>1, <4>2, <4>3
    <3> QED BY <3>1, <3>2
  <2> QED BY <1>0, <1>1, <1>2, <2>2, <2>3 DEF Part
<1>3. CASE fifo' = Append(fifo, Head(up)) /\ up' = Tail(up)
  <2>1. Head(up) \in T /\ Len(up') = Len(up) - 1 /\ \A i \in 1..Len(up') : up'[i] = up[i + 1]
        /\ Head(up) = up[1]
    BY <1>3, HeadTailProperties
  <2>2. /\ fifo' \in Seq(T) /\ Len(fifo') = Len(fifo) + 1
        /\ \A i \in 1..Len(fifo) : fifo'[i] = fifo[i]
        /\ fifo'[Len(fifo) + 1] = up[1]
    BY <1>3, <2>1, AppendProperties
  <2>3. /\ queue' \in Seq(T) /\ Len(queue') = Len(fifo') + Len(up')
        /\ \A i \in 1..(Len(fifo') + Len(up')) :
              queue'[i] = IF i <= Len(fifo') THEN fifo'[i] ELSE up'[i - Len(fifo')]
    <3>1. queue' = fifo' \o up' /\ fifo' \in Seq(T) /\ up' \in Seq(T)
      BY <2>2 DEF queue
    <3> QED BY <3>1, ConcatProperties
  <2>4. Len(queue') = Len(queue)
    BY <1>0, <2>1, <2>2, <2>3
  <2>5. \A i \in 1..Len(queue') : Worn(queue[IF i <= 0 THEN i ELSE i + 0], queue'[i])
    <3> SUFFICES ASSUME NEW i \in 1..Len(queue') PROVE queue'[i] = queue[i]
      BY DEF Worn
    <3>1. CASE i <= Len(fifo)
      <4>1. i \in 1..Len(fifo) /\ i <= Len(fifo') /\ i \in 1..(Len(fifo') + Len(up'))
        BY <1>0, <2>2, <2>3, <3>1
      <4> QED BY <1>0, <2>2, <2>3, <2>4, <3>1, <4>1
    <3>2. CASE i = Len(fifo) + 1
      <4>1. i - Len(fifo) = 1 /\ ~(i <= Len(fifo)) /\ i <= Len(fifo')
            /\ i \in 1..(Len(fifo') + Len(up'))
        BY <1>0, <2>2, <2>3, <3>2
      <4> QED BY <1>0, <2>2, <2>3, <2>4, <3>2, <4>1
    <3>3. CASE i > Len(fifo) + 1
      <4>1. ~(i <= Len(fifo)) /\ ~(i <= Len(fifo')) /\ i \in 1..(Len(fifo') + Len(up'))
            /\ i - Len(fifo') \in 1..Len(up') /\ (i - Len(fifo')) + 1 = i - Len(fifo)
        BY <1>0, <2>1, <2>2, <2>3, <3>3
      <4>2. queue'[i] = up[(i - Len(fifo')) + 1]
        BY <2>1, <2>3, <4>1
      <4> QED BY <1>0, <2>4, <4>1, <4>2
    <3> QED BY <1>0, <3>1, <3>2, <3>3
  <2>6. Len(queue') + 0 <= Len(queue) /\ 0 \in Nat
    BY <1>0, <2>4
  <2> QED BY <2>3, <2>5, <2>6 DEF Part
<1>4. CASE /\ fifo' = fifo /\ Len(up') = Len(up) /\ Worn(up[1], up'[1])
           /\ \A i \in 2..Len(up) : up'[i] = up[i]
  <2>1. ASSUME NEW i \in 1..Len(up) PROVE Worn(up[i], up'[i])
    <3>1. CASE i = 1
      BY <1>4, <3>1
    <3>2. CASE i # 1
      <4>1. i \in 2..Len(up)
        BY <1>0, <3>2
      <4> QED BY <1>4, <4>1 DEF Worn
    <3> QED BY <3>1, <3>2
  <2>2. Len(queue') = Len(queue)
    BY <1>0, <1>1, <1>4
  <2>3. \A i \in 1..Len(queue') : Worn(queue[IF i <= 0 THEN i ELSE i + 0], queue'[i])
    <3> SUFFICES ASSUME NEW i \in 1..Len(queue') PROVE Worn(queue[i], queue'[i])
      OBVIOUS
    <3>1. CASE i <= Len(fifo)
      BY <1>0, <1>1, <1>4, <2>2, <3>1 DEF Worn
    <3>2. CASE ~(i <= Len(fifo))
      <4>1. i - Len(fifo) \in 1..Len(up)
        BY <1>0, <2>2, <3>2
      <4>2. queue[i] = up[i - Len(fifo)] /\ queue'[i] = up'[i - Len(fifo)]
        BY <1>0, <1>1, <1>4, <2>2, <3>2
      <4> QED BY <2>1, <4>1, <4>2
    <3> QED BY <3>1, <3>2
  <2>4. Len(queue') + 0 <= Len(queue) /\ 0 \in Nat
    BY <1>0, <2>2
  <2> QED BY <1>1, <1>4, <2>3, <2>4 DEF Part
<1> QED BY <1>2, <1>3, <1>4
----------------------------------------------------------------------------
(* The course of uploads that nothing has been left over for.  The board   *)
(* answers with C until a name has come, then with ACK and one C more: so  *)
(* one upload at most gets as far as sending units, and what it sends next *)
(* it sends when the last has been stored.                                 *)
Stored(x, n) == got = [i \in 1..n |-> <<x, i>>]

Between == stage \in {"none", "failed"}
Agreed  == Between \/ (stage = "established" /\ got = <<>>)
Plain   == queue \in Seq(Harmless)

\* No upload is sending units, and none is about to.
NoneSends == \A u \in Uploads : pc[u] \notin {"unit", "eot"}
NoneReady == \A u \in Uploads : pc[u] # "ready"
OnlySends(x) == \A u \in Uploads \ {x} : pc[u] \notin {"unit", "eot"}

\* The ACK of the name is the last but one thing the board has said.
NameTaken == /\ Len(down) > 1 /\ down[Len(down) - 1] = "ACK"
             /\ \A i \in 1..Len(down) : i # Len(down) - 1 => down[i] = "C"

Calling == /\ Between \/ stage = "establishing"
           /\ NoneSends /\ NoneReady /\ Plain
           /\ \A i \in 1..Len(down) : down[i] = "C"

Naming   == Agreed /\ NoneSends /\ NoneReady /\ Plain /\ NameTaken
Readying == Agreed /\ NoneSends /\ Plain /\ down \in {<<>>, <<"C">>}

First(x) == /\ stage = "established" /\ got = <<>> /\ OnlySends(x)
            /\ pc[x] = "unit" /\ sent[x] = 1 /\ down = <<>>
            /\ Ends(queue, UnitOf(x, 1), Harmless)

Sending(x, n) ==
    /\ stage = "transmitting" /\ Stored(x, n) /\ OnlySends(x)
    /\ \/ /\ pc[x] = "unit" /\ sent[x] = n /\ down \in {<<>>, <<"ACK">>}
          /\ queue \in Seq(Commands)
       \/ /\ pc[x] = "unit" /\ sent[x] = n + 1 /\ down = <<>>
          /\ Ends(queue, UnitOf(x, n + 1), Commands)
       \/ /\ pc[x] = "eot" /\ n = Units /\ down = <<>>
          /\ Ends(queue, Eot, Commands)

Ending(x) == /\ Between \/ (stage \in {"finishing", "finished"} /\ Whole(x))
             /\ x \in delivered /\ pc[x] \in {"eot", "done"} /\ OnlySends(x) /\ Plain
             /\ \A i \in 1..Len(down) : down[i] = "ACK"

(* A session that has failed in the middle leaves an upload that waits for *)
(* an answer, or has turned it down.                                       *)
Stuck == /\ Between /\ \E u \in Uploads : pc[u] \in {"unit", "eot"}
         /\ down = <<>> \/ (down = <<"ACK">> /\ \A u \in Uploads : pc[u] # "eot")
Refusing == Between /\ Plain /\ \A i \in 1..Len(down) : down[i] = "CAN"

Sends  == \E x \in Uploads, n \in 1..Units : Sending(x, n)
Course == \/ Calling \/ Naming \/ Readying
          \/ \E x \in Uploads : First(x)
          \/ Sends
          \/ \E x \in Uploads : Ending(x)
          \/ Stuck \/ Refusing

\* What holds besides of the uploads.
Unsent   == \A u \in Uploads : pc[u] \in {"idle", "begin", "named", "ready"} => sent[u] = 0
DoneOnly == \A u \in Uploads : pc[u] = "done" => u \in delivered

CleanInv == Unsent /\ (clean => Course /\ DoneOnly)
----------------------------------------------------------------------------
LEMMA Typing ==
    ASSUME IndInv
    PROVE  /\ up \in Seq(Items(Closing)) /\ fifo \in Seq(Items(Closing))
           /\ down \in Seq(Answers)
           /\ pc \in [Uploads -> {"idle", "done", "failed"} \cup Waiting]
           /\ sent \in [Uploads -> 0..Units] /\ Units \in Nat \ {0}
<1>1. up \in Seq(Items(Known)) /\ fifo \in Seq(Items(Known))
  BY DEF IndInv, Lines
<1>2. Items(Known) \subseteq Items(Closing)
  BY KnownRange, ItemsGrow
<1>3. up \in Seq(Items(Closing)) /\ fifo \in Seq(Items(Closing))
  BY <1>1, <1>2, SeqMonotonic
<1> QED BY <1>3, UploadAssumption DEF IndInv, Lines, Scalars

LEMMA TypingNext ==
    ASSUME IndInv'
    PROVE  up' \in Seq(Items(Closing)) /\ fifo' \in Seq(Items(Closing)) /\ down' \in Seq(Answers)
<1>1. up' \in Seq(Items(Known')) /\ fifo' \in Seq(Items(Known')) /\ down' \in Seq(Answers)
  BY DEF IndInv, Lines
<1>2. Items(Known') \subseteq Items(Closing)
  BY KnownRange, ItemsGrow
<1> QED BY <1>1, <1>2, SeqMonotonic

\* What the line or the session takes from the queue.
LEMMA Keeps ==
    ASSUME NEW T, queue' \in Seq(T), Part(queue', queue)
    PROVE  /\ Plain => Plain'
           /\ queue \in Seq(Commands) => queue' \in Seq(Commands)
           /\ \A x \in Uploads, n \in 1..Units :
                 /\ Ends(queue, UnitOf(x, n), Harmless) => Ends(queue', UnitOf(x, n), Harmless)
                 /\ Ends(queue, UnitOf(x, n), Commands) => Ends(queue', UnitOf(x, n), Commands)
           /\ Ends(queue, Eot, Commands) => Ends(queue', Eot, Commands)
<1>1. Plain => Plain'
  BY ClosedSets, PartSeq DEF Plain
<1>2. queue \in Seq(Commands) => queue' \in Seq(Commands)
  BY ClosedSets, PartSeq
<1>3. ASSUME NEW x \in Uploads, NEW n \in 1..Units
      PROVE  /\ Ends(queue, UnitOf(x, n), Harmless) => Ends(queue', UnitOf(x, n), Harmless)
             /\ Ends(queue, UnitOf(x, n), Commands) => Ends(queue', UnitOf(x, n), Commands)
  <2>1. Closed(UnitOf(x, n)) /\ Closed(Commands) /\ Closed(Harmless)
    BY ClosedSets
  <2>2. UnitOf(x, n) \cap Harmless = {} /\ UnitOf(x, n) \cap Commands = {}
    BY Disjoint
  <2> QED BY <2>1, <2>2, PartEnds
<1>4. Ends(queue, Eot, Commands) => Ends(queue', Eot, Commands)
  <2>1. Eot \cap Commands = {}
    BY Disjoint
  <2> QED BY <2>1, ClosedSets, PartEnds
<1> QED BY <1>1, <1>2, <1>3, <1>4

\* What PC and session do not take part in.
LEMMA LineCourse ==
    ASSUME IndInv, IndInv', Course,
           UNCHANGED <<pc, sent, stage, got, delivered>>, down' \in {down, <<>>},
           queue' \in Seq(Items(Closing)), Part(queue', queue)
    PROVE  Course'
<1>0. Units \in Nat \ {0}
  BY UploadAssumption
<1>1. /\ Plain => Plain'
      /\ queue \in Seq(Commands) => queue' \in Seq(Commands)
      /\ \A x \in Uploads, n \in 1..Units :
            /\ Ends(queue, UnitOf(x, n), Harmless) => Ends(queue', UnitOf(x, n), Harmless)
            /\ Ends(queue, UnitOf(x, n), Commands) => Ends(queue', UnitOf(x, n), Commands)
      /\ Ends(queue, Eot, Commands) => Ends(queue', Eot, Commands)
  BY Keeps
<1>2. /\ NoneSends' = NoneSends /\ NoneReady' = NoneReady /\ Between' = Between
      /\ Agreed' = Agreed /\ \A x \in Uploads : OnlySends(x)' = OnlySends(x)
  BY DEF NoneSends, NoneReady, Between, Agreed, OnlySends
<1>3. CASE Calling
  BY <1>1, <1>2, <1>3 DEF Calling, Course
<1>4. CASE Naming
  <2>1. CASE down' = down
    BY <1>1, <1>2, <1>4, <2>1 DEF Naming, NameTaken, Course
  <2>2. CASE down' = <<>>
    BY <1>1, <1>2, <1>4, <2>2 DEF Naming, Readying, Course
  <2> QED BY <2>1, <2>2
<1>5. CASE Readying
  BY <1>1, <1>2, <1>5 DEF Readying, Course
<1>6. ASSUME NEW x \in Uploads, First(x) PROVE Course'
  <2>1. 1 \in 1..Units
    BY <1>0
  <2>2. Ends(queue', UnitOf(x, 1), Harmless)
    BY <1>1, <1>6, <2>1 DEF First
  <2>3. First(x)'
    BY <1>2, <1>6, <2>2 DEF First
  <2> QED BY <2>3 DEF Course
<1>7. ASSUME NEW x \in Uploads, NEW n \in 1..Units, Sending(x, n) PROVE Course'
  <2>1. sent[x] = n + 1 => n + 1 \in 1..Units
    BY <1>0, Typing
  <2>2. Ends(queue, UnitOf(x, n + 1), Commands) /\ sent[x] = n + 1
        => Ends(queue', UnitOf(x, n + 1), Commands)
    BY <1>1, <2>1
  <2>3. Sending(x, n)'
    BY <1>1, <1>2, <1>7, <2>2 DEF Sending, Stored
  <2> QED BY <2>3 DEF Course, Sends
<1>8. ASSUME NEW x \in Uploads, Ending(x) PROVE Course'
  <2>1. Ending(x)'
    BY <1>1, <1>2, <1>8 DEF Ending, Whole
  <2> QED BY <2>1 DEF Course
<1>9. CASE Stuck
  BY <1>2, <1>9 DEF Stuck, Course
<1>10. CASE Refusing
  BY <1>1, <1>2, <1>10 DEF Refusing, Course
<1> QED BY <1>3, <1>4, <1>5, <1>6, <1>7, <1>8, <1>9, <1>10 DEF Course, Sends

LEMMA CourseLine ==
    ASSUME IndInv, IndInv', Course,
           DataReceived \/ Lose \/ (\E s \in {"crc", "short"} : Damage(s)) \/ Serial
    PROVE  Course'
<1>0. up \in Seq(Items(Closing)) /\ fifo \in Seq(Items(Closing)) /\ up' \in Seq(Items(Closing))
  BY Typing, TypingNext
<1>1. UNCHANGED <<pc, sent, stage, got, delivered>> /\ down' \in {down, <<>>}
  BY DEF DataReceived, Lose, Damage, Serial, Command, ToFifo, pcvars, board, history
<1>2. queue' \in Seq(Items(Closing)) /\ Part(queue', queue)
  <2>1. CASE DataReceived
    BY <1>0, <2>1, SessionReads DEF DataReceived, board
  <2>2. CASE Lose \/ Serial
    <3>1. /\ up # <<>> /\ up' = Tail(up)
          /\ fifo' = fifo \/ fifo' = Append(fifo, Head(up))
      <4>1. CASE Lose
        BY <4>1 DEF Lose, board
      <4>2. CASE Command
        BY <4>2 DEF Command
      <4>3. CASE ToFifo
        BY <4>3 DEF ToFifo
      <4> QED BY <2>2, <4>1, <4>2, <4>3 DEF Serial
    <3> QED BY <1>0, <3>1, LineReads
  <2>3. ASSUME NEW s \in {"crc", "short"}, Damage(s)
        PROVE  queue' \in Seq(Items(Closing)) /\ Part(queue', queue)
    <3> DEFINE x == [Head(up) EXCEPT !.state = s]
    <3>1. up # <<>> /\ up' = <<x>> \o Tail(up) /\ fifo' = fifo /\ Head(up).type = "packet"
      BY <2>3 DEF Damage, board
    <3>2. Worn(Head(up), x)
      BY <3>1 DEF Worn, States
    <3>3. Len(up') = Len(up) /\ up'[1] = x /\ Head(up) = up[1]
          /\ \A i \in 2..Len(up) : up'[i] = up[i]
      <4> HIDE DEF x
      <4>1. /\ Len(up) \in Nat \ {0} /\ Len(Tail(up)) = Len(up) - 1 /\ Head(up) = up[1]
            /\ \A i \in 1..Len(Tail(up)) : Tail(up)[i] = up[i + 1]
            /\ Tail(up) \in Seq(Items(Closing))
        BY <1>0, <3>1, HeadTailProperties, LenProperties, EmptySeq
      <4>2. <<x>> \in Seq({x} \cup Items(Closing)) /\ Tail(up) \in Seq({x} \cup Items(Closing))
            /\ Len(<<x>>) = 1 /\ <<x>>[1] = x
        BY <4>1, SeqMonotonic
      <4>3. /\ Len(up') = 1 + Len(Tail(up))
            /\ \A i \in 1..(1 + Len(Tail(up))) : up'[i] = IF i <= 1 THEN <<x>>[i] ELSE Tail(up)[i - 1]
        BY <3>1, <4>2, ConcatProperties
      <4>4. up'[1] = x
        BY <4>1, <4>2, <4>3
      <4>5. \A i \in 2..Len(up) : up'[i] = up[i]
        <5> SUFFICES ASSUME NEW i \in 2..Len(up) PROVE up'[i] = up[i]
          OBVIOUS
        <5>1. i - 1 \in 1..Len(Tail(up)) /\ (i - 1) + 1 = i /\ ~(i <= 1)
              /\ i \in 1..(1 + Len(Tail(up)))
          BY <4>1
        <5> QED BY <4>1, <4>3, <5>1
      <4> QED BY <4>1, <4>3, <4>4, <4>5
    <3> HIDE DEF x
    <3>4. Worn(up[1], up'[1])
      BY <3>2, <3>3
    <3> QED BY <1>0, <3>1, <3>3, <3>4, LineReads, Zenon
  <2> QED BY <2>1, <2>2, <2>3
<1> QED BY <1>1, <1>2, LineCourse
----------------------------------------------------------------------------
LEMMA OneItem ==
    ASSUME NEW x
    PROVE  /\ Head(<<x>>) = x /\ Tail(<<x>>) = <<>> /\ Append(<<>>, x) = <<x>>
           /\ <<x>> # <<>> /\ Len(<<x>>) = 1 /\ <<x>>[1] = x
OBVIOUS

\* What the PC leaves in its input when it takes one answer.
LEMMA ReadOne ==
    ASSUME down \in Seq(Answers), down # <<>>, down' = Tail(down)
    PROVE  /\ Len(down) \in Nat \ {0} /\ Len(down') = Len(down) - 1
           /\ Head(down) = down[1] /\ down' \in Seq(Answers)
           /\ \A i \in 1..Len(down') : down'[i] = down[i + 1] /\ i + 1 \in 1..Len(down)
           /\ \A a \in Answers : (\A i \in 1..Len(down) : down[i] = a)
                                 => Head(down) = a /\ \A i \in 1..Len(down') : down'[i] = a
<1>1. Len(down) \in Nat \ {0}
  BY EmptySeq, LenProperties
<1>2. Len(down') = Len(down) - 1 /\ Head(down) = down[1] /\ down' \in Seq(Answers)
  BY <1>1, HeadTailProperties
<1>3. \A i \in 1..Len(down') : down'[i] = down[i + 1] /\ i + 1 \in 1..Len(down)
  BY <1>1, <1>2, HeadTailProperties
<1>4. 1 \in 1..Len(down)
  BY <1>1
<1> QED BY <1>1, <1>2, <1>3, <1>4

LEMMA SendOne ==
    ASSUME NEW T, up \in Seq(T), fifo \in Seq(T), fifo' = fifo, NEW x, up' = Append(up, x)
    PROVE  queue' = Append(queue, x)
<1>1. up \in Seq(T \cup {x}) /\ fifo \in Seq(T \cup {x}) /\ x \in T \cup {x}
  BY SeqMonotonic
<1>2. up' = up \o <<x>> /\ <<x>> \in Seq(T \cup {x})
  BY <1>1, AppendIsConcat
<1>3. queue \in Seq(T \cup {x}) /\ Append(queue, x) = queue \o <<x>>
  BY <1>1, ConcatProperties, AppendIsConcat DEF queue
<1> QED BY <1>1, <1>2, <1>3, ConcatAssociative DEF queue

\* A click adds a command, which disturbs nothing.
LEMMA ClickCourse ==
    ASSUME IndInv, IndInv', Course, NEW v \in Uploads, Click(v)
    PROVE  Course'
<1>0. /\ up \in Seq(Items(Closing)) /\ fifo \in Seq(Items(Closing))
      /\ pc \in [Uploads -> {"idle", "done", "failed"} \cup Waiting]
      /\ sent \in [Uploads -> 0..Units] /\ Units \in Nat \ {0}
  BY Typing
<1>1. UNCHANGED <<sent, stage, got, fifo, delivered, down>>
  BY DEF Click, board, history
<1>2. /\ pc[v] = "idle" /\ pc'[v] = "begin"
      /\ \A u \in Uploads \ {v} : pc'[u] = pc[u]
  BY <1>0 DEF Click
<1>3. PICK item \in Commands : queue' = Append(queue, item)
  <2> DEFINE call == [type |-> "command", kind |-> kind[v]]
  <2>1. call \in Commands
    BY DEF IndInv, Scalars, Commands
  <2>2. queue' = Append(queue, call)
    <3> HIDE DEF call
    <3>1. up' = Append(up, call)
      BY DEF Click, call
    <3> QED BY <1>0, <1>1, <3>1, SendOne
  <2> QED BY <2>1, <2>2
<1>4. /\ Plain => Plain'
      /\ queue \in Seq(Commands) => queue' \in Seq(Commands)
      /\ \A x \in Uploads, n \in 1..Units :
            /\ Ends(queue, UnitOf(x, n), Harmless) => Ends(queue', UnitOf(x, n), Harmless)
            /\ Ends(queue, UnitOf(x, n), Commands) => Ends(queue', UnitOf(x, n), Commands)
      /\ Ends(queue, Eot, Commands) => Ends(queue', Eot, Commands)
  <2>1. /\ Commands \subseteq Harmless /\ Eot \cap Commands = {}
        /\ \A x \in Uploads, n \in 1..Units :
              UnitOf(x, n) \cap Harmless = {} /\ UnitOf(x, n) \cap Commands = {}
    BY Disjoint
  <2>2. Plain => Plain'
    BY <1>3, <2>1, AppendProperties DEF Plain
  <2>3. queue \in Seq(Commands) => queue' \in Seq(Commands)
    BY <1>3, AppendProperties
  <2>4. Ends(queue, Eot, Commands) => Ends(queue', Eot, Commands)
    BY <1>3, <2>1, AddCommand
  <2>5. ASSUME NEW x \in Uploads, NEW n \in 1..Units
        PROVE  /\ Ends(queue, UnitOf(x, n), Harmless) => Ends(queue', UnitOf(x, n), Harmless)
               /\ Ends(queue, UnitOf(x, n), Commands) => Ends(queue', UnitOf(x, n), Commands)
    BY <1>3, <2>1, AddCommand
  <2> QED BY <2>2, <2>3, <2>4, <2>5
<1>5. /\ NoneSends => NoneSends'
      /\ NoneReady => NoneReady'
      /\ Between' = Between /\ Agreed' = Agreed
      /\ \A x \in Uploads : OnlySends(x) => OnlySends(x)'
  <2>1. NoneSends => NoneSends'
    BY <1>2 DEF NoneSends
  <2>2. NoneReady => NoneReady'
    BY <1>2 DEF NoneReady
  <2>3. Between' = Between /\ Agreed' = Agreed
    BY <1>1 DEF Between, Agreed
  <2>4. \A x \in Uploads : OnlySends(x) => OnlySends(x)'
    BY <1>2 DEF OnlySends
  <2> QED BY <2>1, <2>2, <2>3, <2>4
<1>6. CASE Calling \/ Naming \/ Readying \/ Refusing
  <2>1. Plain'
    BY <1>4, <1>6 DEF Calling, Naming, Readying, Refusing
  <2>2. NameTaken => NameTaken'
    BY <1>1 DEF NameTaken
  <2>3. CASE Calling
    BY <1>1, <1>5, <2>1, <2>3 DEF Calling, Course
  <2>4. CASE Naming
    BY <1>5, <2>1, <2>2, <2>4 DEF Naming, Course
  <2>5. CASE Readying
    BY <1>1, <1>5, <2>1, <2>5 DEF Readying, Course
  <2>6. CASE Refusing
    BY <1>1, <1>5, <2>1, <2>6 DEF Refusing, Course
  <2> QED BY <1>6, <2>3, <2>4, <2>5, <2>6
<1>7. ASSUME NEW x \in Uploads, First(x) PROVE Course'
  <2>1. 1 \in 1..Units /\ x # v /\ pc'[x] = pc[x]
    BY <1>0, <1>2, <1>7 DEF First
  <2>2. First(x)'
    BY <1>1, <1>4, <1>5, <1>7, <2>1 DEF First
  <2> QED BY <2>2 DEF Course
<1>8. ASSUME NEW x \in Uploads, NEW n \in 1..Units, Sending(x, n) PROVE Course'
  <2>1. sent[x] = n + 1 => n + 1 \in 1..Units
    BY <1>0
  <2>2. x # v /\ pc'[x] = pc[x]
    BY <1>2, <1>8 DEF Sending
  <2>3. Ends(queue, UnitOf(x, n + 1), Commands) /\ sent[x] = n + 1
        => Ends(queue', UnitOf(x, n + 1), Commands)
    BY <1>4, <2>1
  <2>4. Sending(x, n)'
    BY <1>1, <1>4, <1>5, <1>8, <2>2, <2>3 DEF Sending, Stored
  <2> QED BY <2>4 DEF Course, Sends
<1>9. ASSUME NEW x \in Uploads, Ending(x) PROVE Course'
  <2>1. x # v /\ pc'[x] = pc[x]
    BY <1>2, <1>9 DEF Ending
  <2>2. Plain' /\ OnlySends(x)'
    BY <1>4, <1>5, <1>9 DEF Ending
  <2>3. Whole(x)' = Whole(x)
    BY <1>1 DEF Whole
  <2>4. Ending(x)'
    BY <1>1, <1>5, <1>9, <2>1, <2>2, <2>3 DEF Ending
  <2> QED BY <2>4 DEF Course
<1>10. CASE Stuck
  <2>1. PICK u \in Uploads : pc[u] \in {"unit", "eot"}
    BY <1>10 DEF Stuck
  <2>2. pc'[u] \in {"unit", "eot"}
    BY <1>2, <2>1
  <2>3. \A w \in Uploads : pc'[w] = "eot" => pc[w] = "eot"
    BY <1>2
  <2> QED BY <1>1, <1>5, <1>10, <2>2, <2>3 DEF Stuck, Course
<1> QED BY <1>6, <1>7, <1>8, <1>9, <1>10 DEF Course, Sends
\* An answer is taken: it sends the upload on, or makes it fail.
LEMMA AnswerCourse ==
    ASSUME IndInv, IndInv', Course, Unsent, DoneOnly, NEW v \in Uploads, Answer(v)
    PROVE  Course' /\ DoneOnly'
<1>0. /\ up \in Seq(Items(Closing)) /\ fifo \in Seq(Items(Closing)) /\ down \in Seq(Answers)
      /\ pc \in [Uploads -> {"idle", "done", "failed"} \cup Waiting]
      /\ sent \in [Uploads -> 0..Units] /\ Units \in Nat \ {0}
      /\ packetNumber \in Nat /\ packetNumber' \in Nat
  <2>1. packetNumber \in 0..(Numbers - 1) /\ packetNumber' \in 0..(Numbers - 1)
    BY DEF IndInv, Scalars
  <2>2. packetNumber \in Nat /\ packetNumber' \in Nat
    BY <2>1
  <2> QED BY <2>2, Typing
<1>1. /\ UNCHANGED <<stage, got, fifo, delivered>> /\ down # <<>> /\ down' = Tail(down)
      /\ \A u \in Uploads \ {v} : pc'[u] = pc[u]
      /\ Named(v) \/ NamedOK(v) \/ SendUnit(v) \/ SendEot(v) \/ Close(v) \/ Refused(v)
  BY <1>0 DEF Answer, Named, NamedOK, SendUnit, SendEot, Close, Refused, Reads, board, history
<1>2. /\ Len(down) \in Nat \ {0} /\ Len(down') = Len(down) - 1
      /\ Head(down) = down[1] /\ down' \in Seq(Answers)
      /\ \A i \in 1..Len(down') : down'[i] = down[i + 1] /\ i + 1 \in 1..Len(down)
      /\ \A a \in Answers : (\A i \in 1..Len(down) : down[i] = a)
                            => Head(down) = a /\ \A i \in 1..Len(down') : down'[i] = a
  BY <1>0, <1>1, ReadOne
<1>3. /\ Between' = Between /\ Agreed' = Agreed
      /\ \A x \in Uploads : Whole(x)' = Whole(x)
      /\ \A x \in Uploads, n \in 1..Units : Stored(x, n)' = Stored(x, n)
  BY <1>1 DEF Between, Agreed, Whole, Stored
\* What each answer does.
<1>4. ASSUME Named(v)
      PROVE  /\ pc[v] = "begin" /\ pc'[v] = "named" /\ Head(down) = "C"
             /\ Plain => Plain'
  <2>1. pc[v] = "begin" /\ pc'[v] = "named" /\ Head(down) = "C"
    BY <1>0, <1>4 DEF Named, Reads, Expected
  <2>2. Packet(v, packetNumber, 0) \in Harmless
    BY <1>0 DEF Packet, Harmless, Names, Closings, States
  <2>3. queue' = Append(queue, Packet(v, packetNumber, 0))
    BY <1>0, <1>1, <1>4, SendOne DEF Named
  <2> QED BY <2>1, <2>2, <2>3, AppendProperties DEF Plain
<1>5. ASSUME NamedOK(v) \/ Refused(v)
      PROVE  /\ queue' = queue /\ UNCHANGED sent
             /\ \/ pc[v] = "named" /\ pc'[v] = "ready" /\ Head(down) = "ACK"
                \/ pc[v] \in Waiting /\ pc'[v] = "failed" /\ Head(down) # Expected(pc[v])
  BY <1>0, <1>5 DEF NamedOK, Refused, Reads, Expected, queue, board
<1>6. ASSUME SendUnit(v)
      PROVE  /\ \/ pc[v] = "ready" /\ Head(down) = "C"
                \/ pc[v] = "unit" /\ Head(down) = "ACK"
             /\ pc'[v] = "unit" /\ sent[v] < Units /\ sent'[v] = sent[v] + 1
             /\ \A u \in Uploads \ {v} : sent'[u] = sent[u]
             /\ \E x \in UnitOf(v, sent[v] + 1) : queue' = Append(queue, x)
  <2>1. /\ \/ pc[v] = "ready" /\ Head(down) = "C"
           \/ pc[v] = "unit" /\ Head(down) = "ACK"
        /\ pc'[v] = "unit" /\ sent[v] < Units /\ sent'[v] = sent[v] + 1
        /\ \A u \in Uploads \ {v} : sent'[u] = sent[u]
    BY <1>0, <1>6 DEF SendUnit, Reads, Expected
  <2>2. Packet(v, packetNumber', sent'[v]) \in UnitOf(v, sent[v] + 1)
    BY <1>0, <2>1 DEF Packet, UnitOf, States
  <2>3. queue' = Append(queue, Packet(v, packetNumber', sent'[v]))
    BY <1>0, <1>1, <1>6, SendOne DEF SendUnit
  <2> QED BY <2>1, <2>2, <2>3
<1>7. ASSUME SendEot(v)
      PROVE  /\ pc[v] = "unit" /\ Head(down) = "ACK" /\ pc'[v] = "eot" /\ sent[v] = Units
             /\ \E x \in Eot : queue' = Append(queue, x)
  <2>1. pc[v] = "unit" /\ Head(down) = "ACK" /\ pc'[v] = "eot" /\ sent[v] = Units
    BY <1>0, <1>7 DEF SendEot, Reads, Expected
  <2>2. [type |-> "EOT"] \in Eot
    BY DEF Eot
  <2>3. queue' = Append(queue, [type |-> "EOT"])
    BY <1>0, <1>1, <1>7, SendOne DEF SendEot
  <2> QED BY <2>1, <2>2, <2>3
<1>8. ASSUME Close(v)
      PROVE  /\ pc[v] = "eot" /\ Head(down) = "ACK" /\ pc'[v] = "done"
             /\ Plain => Plain'
  <2>1. pc[v] = "eot" /\ Head(down) = "ACK" /\ pc'[v] = "done"
    BY <1>0, <1>8 DEF Close, Reads, Expected
  <2>2. Packet(v, 0, Closing) \in Harmless
    BY <1>0 DEF Packet, Harmless, Names, Closings, States
  <2>3. queue' = Append(queue, Packet(v, 0, Closing))
    BY <1>0, <1>1, <1>8, SendOne DEF Close
  <2> QED BY <2>1, <2>2, <2>3, AppendProperties DEF Plain
<1>9. queue' = queue => Plain' = Plain
  BY DEF Plain
\* Only an ACK of the EOT makes an upload done.
<1>10. DoneOnly' \/ Close(v)
  <2>1. ~Close(v) => pc'[v] # "done"
    BY <1>1, <1>4, <1>5, <1>6, <1>7
  <2> QED BY <1>1, <2>1 DEF DoneOnly
<1>11. CASE Calling
  <2>1. Head(down) = "C" /\ \A i \in 1..Len(down') : down'[i] = "C"
    BY <1>2, <1>11 DEF Calling, Answers
  <2>2. Named(v) \/ Refused(v)
    BY <1>1, <1>6, <1>7, <1>8, <1>11, <2>1 DEF Calling, NoneSends, NoneReady, NamedOK, Reads, Expected
  <2>3. Plain' /\ pc'[v] \in {"named", "failed"}
    BY <1>4, <1>5, <1>9, <1>11, <2>1, <2>2 DEF Calling
  <2>4. NoneSends' /\ NoneReady'
    BY <1>1, <1>11, <2>3 DEF Calling, NoneSends, NoneReady
  <2>5. Calling'
    BY <1>1, <1>3, <1>11, <2>1, <2>3, <2>4 DEF Calling
  <2> QED BY <1>8, <1>10, <1>11, <2>5 DEF Course, Calling, NoneSends
<1>12. CASE Naming
  <2>0. /\ Len(down) > 1 /\ down[Len(down) - 1] = "ACK"
        /\ \A i \in 1..Len(down) : i # Len(down) - 1 => down[i] = "C"
    BY <1>12 DEF Naming, NameTaken
  <2>1. ~Close(v) /\ ~SendUnit(v) /\ ~SendEot(v)
    BY <1>6, <1>7, <1>8, <1>12 DEF Naming, NoneSends, NoneReady
  <2>2. Plain'
    BY <1>1, <1>4, <1>5, <1>9, <1>12, <2>1 DEF Naming
  <2>3. pc'[v] \in {"named", "ready", "failed"}
    BY <1>1, <1>4, <1>5, <2>1
  <2>4. NoneSends'
    BY <1>1, <1>12, <2>3 DEF Naming, NoneSends
  <2>5. CASE Head(down) = "C"
    <3>1. Len(down) > 2
      <4>1. Len(down) = 2 => down[1] = "ACK"
        BY <2>0
      <4> QED BY <1>2, <2>0, <2>5, <4>1
    <3>2. NameTaken'
      <4>1. down'[Len(down') - 1] = "ACK"
        <5>1. Len(down') - 1 \in 1..Len(down') /\ (Len(down') - 1) + 1 = Len(down) - 1
          BY <1>2, <3>1
        <5> QED BY <1>2, <2>0, <5>1
      <4>2. ASSUME NEW i \in 1..Len(down'), i # Len(down') - 1 PROVE down'[i] = "C"
        <5>1. i + 1 \in 1..Len(down) /\ i + 1 # Len(down) - 1 /\ down'[i] = down[i + 1]
          BY <1>2, <4>2
        <5> QED BY <2>0, <5>1
      <4> QED BY <1>2, <3>1, <4>1, <4>2 DEF NameTaken
    <3>3. pc'[v] # "ready"
      BY <1>1, <1>4, <1>5, <2>1, <2>5
    <3>4. NoneReady'
      BY <1>1, <1>12, <3>3 DEF Naming, NoneReady
    <3> QED BY <1>3, <1>10, <1>12, <2>1, <2>2, <2>4, <3>2, <3>4 DEF Naming, Course
  <2>6. CASE Head(down) # "C"
    <3>1. Len(down) = 2
      <4>1. 1 \in 1..Len(down) /\ down[1] # "C"
        BY <1>2, <2>6
      <4>2. 1 = Len(down) - 1
        BY <2>0, <4>1
      <4>3. Len(down) \in Nat
        BY <1>2
      <4> QED BY <4>2, <4>3
    <3>2. 1 \in 1..Len(down') /\ Len(down') = 1 /\ down'[1] = "C"
      <4>1. 2 \in 1..Len(down) /\ 2 # Len(down) - 1
        BY <3>1
      <4>2. down[2] = "C"
        BY <2>0, <4>1
      <4>3. Len(down') = 1 /\ 1 \in 1..Len(down') /\ 1 + 1 = 2
        BY <1>2, <3>1
      <4> QED BY <1>2, <4>2, <4>3
    <3>3. down' = <<"C">>
      BY <1>2, <3>2
    <3> QED BY <1>3, <1>10, <1>12, <2>1, <2>2, <2>4, <3>3 DEF Naming, Readying, Course
  <2> QED BY <2>5, <2>6
<1>13. CASE Readying
  <2>1. down = <<"C">> /\ down' = <<>> /\ Head(down) = "C"
    BY <1>1, <1>13, OneItem DEF Readying
  <2>2. ~SendEot(v) /\ ~Close(v)
    BY <1>7, <1>8, <2>1
  <2>3. CASE SendUnit(v)
    <3>1. /\ pc[v] = "ready" /\ sent[v] = 0 /\ pc'[v] = "unit" /\ sent'[v] = 1
          /\ \E x \in UnitOf(v, 1) : queue' = Append(queue, x)
      <4>1. pc[v] = "ready" /\ sent[v] = 0
        BY <1>6, <2>1, <2>3 DEF Unsent
      <4> QED BY <1>6, <2>3, <4>1
    <3>2. Ends(queue', UnitOf(v, 1), Harmless)
      <4>1. UnitOf(v, 1) \cap Harmless = {}
        BY <1>0, Disjoint
      <4> QED BY <1>13, <3>1, <4>1, AddLast DEF Readying, Plain
    <3>3. OnlySends(v)'
      BY <1>1, <1>13 DEF Readying, NoneSends, OnlySends
    <3>4. CASE stage = "established"
      <4>1. got = <<>>
        BY <1>13, <3>4 DEF Readying, Agreed, Between
      <4>2. First(v)'
        BY <1>1, <2>1, <3>1, <3>2, <3>3, <3>4, <4>1 DEF First
      <4> QED BY <1>10, <2>2, <4>2 DEF Course
    <3>5. CASE stage # "established"
      <4>1. Between'
        BY <1>3, <1>13, <3>5 DEF Readying, Agreed
      <4>2. Stuck'
        BY <2>1, <3>1, <4>1 DEF Stuck
      <4> QED BY <1>10, <2>2, <4>2 DEF Course
    <3> QED BY <3>4, <3>5
  <2>4. CASE ~SendUnit(v)
    <3>1. Plain' /\ pc'[v] \in {"named", "ready", "failed"}
      BY <1>1, <1>4, <1>5, <1>9, <1>13, <2>2, <2>4 DEF Readying
    <3>2. NoneSends'
      BY <1>1, <1>13, <3>1 DEF Readying, NoneSends
    <3> QED BY <1>3, <1>10, <1>13, <2>1, <2>2, <3>1, <3>2 DEF Readying, Course
  <2> QED BY <2>3, <2>4
<1>14. ASSUME NEW x \in Uploads, First(x) PROVE Course' /\ DoneOnly'
  BY <1>1, <1>14 DEF First
<1>15. ASSUME NEW x \in Uploads, NEW n \in 1..Units, Sending(x, n)
       PROVE  Course' /\ DoneOnly'
  <2>1. /\ pc[x] = "unit" /\ sent[x] = n /\ queue \in Seq(Commands)
        /\ down = <<"ACK">> /\ down' = <<>> /\ Head(down) = "ACK"
    BY <1>1, <1>15, OneItem DEF Sending
  <2>2. ~Close(v)
    BY <1>8, <1>15, <2>1 DEF Sending, OnlySends
  <2>3. Sending(x, n)'
    <3>1. v # x => pc'[v] \in {"ready", "failed"} /\ queue' = queue /\ UNCHANGED sent
      <4>1. v # x => pc[v] \notin {"unit", "eot"}
        BY <1>15 DEF Sending, OnlySends
      <4> QED BY <1>1, <1>4, <1>5, <1>6, <1>7, <1>8, <2>1, <4>1
    <3>2. OnlySends(x)'
      BY <1>1, <1>15, <3>1 DEF Sending, OnlySends
    <3>3. CASE v # x
      BY <1>1, <1>3, <1>15, <2>1, <3>1, <3>2, <3>3 DEF Sending
    <3>4. CASE v = x /\ SendUnit(v)
      <4>1. n + 1 \in 1..Units /\ UnitOf(x, n + 1) \cap Commands = {}
        <5>1. n + 1 \in 1..Units
          BY <1>0, <1>6, <2>1, <3>4
        <5> QED BY <5>1, Disjoint
      <4>2. Ends(queue', UnitOf(x, n + 1), Commands)
        BY <1>6, <2>1, <3>4, <4>1, AddLast
      <4>3. pc'[x] = "unit" /\ sent'[x] = n + 1
        BY <1>6, <2>1, <3>4
      <4> QED BY <1>1, <1>3, <1>15, <2>1, <3>2, <4>2, <4>3 DEF Sending
    <3>5. CASE v = x /\ SendEot(v)
      <4>1. Ends(queue', Eot, Commands)
        <5>1. Eot \cap Commands = {}
          BY Disjoint
        <5>2. PICK y \in Eot : queue' = Append(queue, y)
          BY <1>7, <3>5
        <5> QED BY <2>1, <5>1, <5>2, AddLast
      <4>2. pc'[x] = "eot" /\ n = Units
        BY <1>7, <2>1, <3>5
      <4> QED BY <1>1, <1>3, <1>15, <2>1, <3>2, <4>1, <4>2 DEF Sending
    <3>6. v = x => SendUnit(v) \/ SendEot(v)
      BY <1>1, <1>4, <1>5, <2>1, <2>2 DEF Expected
    <3> QED BY <3>3, <3>4, <3>5, <3>6
  <2> QED BY <1>10, <2>2, <2>3 DEF Course, Sends
<1>16. ASSUME NEW x \in Uploads, Ending(x) PROVE Course' /\ DoneOnly'
  <2>1. Head(down) = "ACK" /\ \A i \in 1..Len(down') : down'[i] = "ACK"
    BY <1>2, <1>16 DEF Ending, Answers
  <2>2. pc[x] \in {"eot", "done"} /\ \A u \in Uploads \ {x} : pc[u] \notin {"unit", "eot"}
    BY <1>16 DEF Ending, OnlySends
  <2>3. ~SendUnit(v) /\ ~SendEot(v) /\ (Close(v) => v = x)
    BY <1>6, <1>7, <1>8, <2>1, <2>2
  <2>4. pc'[x] \in {"eot", "done"}
    <3>1. v = x => Close(v)
      BY <1>1, <1>4, <1>5, <2>1, <2>2, <2>3 DEF Expected, Waiting
    <3> QED BY <1>1, <1>8, <2>2, <3>1
  <2>5. Plain'
    BY <1>1, <1>4, <1>5, <1>8, <1>9, <1>16, <2>3 DEF Ending
  <2>6. OnlySends(x)'
    BY <1>1, <1>4, <1>5, <1>8, <2>2, <2>3 DEF OnlySends
  <2>7. Ending(x)'
    BY <1>1, <1>3, <1>16, <2>1, <2>4, <2>5, <2>6 DEF Ending
  <2>8. Close(v) => DoneOnly'
    BY <1>1, <1>16, <2>3 DEF Ending, DoneOnly
  <2> QED BY <1>10, <2>7, <2>8 DEF Course
<1>17. CASE Stuck
  <2>1. Head(down) = "ACK" /\ down' = <<>> /\ \A u \in Uploads : pc[u] # "eot"
    BY <1>1, <1>17, OneItem DEF Stuck
  <2>2. ~Close(v)
    BY <1>8, <2>1
  <2>3. PICK u \in Uploads : pc[u] = "unit"
    BY <1>17, <2>1 DEF Stuck
  <2>4. pc'[u] \in {"unit", "eot"}
    <3>1. u = v => SendUnit(v) \/ SendEot(v)
      BY <1>1, <1>4, <1>5, <2>1, <2>2, <2>3 DEF Expected
    <3> QED BY <1>1, <1>6, <1>7, <2>3, <3>1
  <2>5. Stuck'
    BY <1>3, <1>17, <2>1, <2>4 DEF Stuck
  <2> QED BY <1>10, <2>2, <2>5 DEF Course
<1>18. CASE Refusing
  <2>1. Head(down) = "CAN" /\ \A i \in 1..Len(down') : down'[i] = "CAN"
    BY <1>2, <1>18 DEF Refusing, Answers
  <2>2. Refused(v)
    BY <1>1, <1>4, <1>6, <1>7, <1>8, <2>1 DEF NamedOK, Reads, Expected
  <2>3. ~Close(v)
    BY <1>8, <2>1
  <2>4. Plain'
    BY <1>5, <1>9, <1>18, <2>2 DEF Refusing
  <2>5. Refusing'
    BY <1>3, <1>18, <2>1, <2>4 DEF Refusing
  <2> QED BY <1>10, <2>3, <2>5 DEF Course
<1> QED BY <1>11, <1>12, <1>13, <1>14, <1>15, <1>16, <1>17, <1>18 DEF Course, Sends
----------------------------------------------------------------------------
(* What the session reads is the first thing in the queue.                 *)
LEMMA ReadItem ==
    ASSUME IndInv, fifo # <<>>
    PROVE  /\ Plain => Head(fifo) \in Harmless
           /\ queue \in Seq(Commands) => Head(fifo) \in Commands
           /\ \A x \in Uploads, n \in 1..Units :
                 /\ Ends(queue, UnitOf(x, n), Harmless) => Head(fifo) \in UnitOf(x, n) \cup Harmless
                 /\ Ends(queue, UnitOf(x, n), Commands) => Head(fifo) \in UnitOf(x, n) \cup Commands
           /\ Ends(queue, Eot, Commands) => Head(fifo) \in Eot \cup Commands
           /\ queue[1] = Head(fifo)
<1>1. queue \in Seq(Items(Closing)) /\ queue[1] = Head(fifo) /\ Len(queue) > 0
      /\ Len(queue) \in Nat
  BY Typing, QueueFacts, LenProperties
<1>2. 1 \in 1..Len(queue)
  BY <1>1
<1> QED BY <1>1, <1>2, ElementOfSeq DEF Plain, Ends

\* In what is harmless the session finds no unit.
LEMMA NoUnit ==
    ASSUME NEW x \in Harmless
    PROVE  /\ x.type # "EOT"
           /\ stage = "established" => ~Data(x)
           /\ x \in Commands => ~Data(x) /\ x.type = "command"
<1>1. CASE x \in Commands
  BY <1>1 DEF Commands, Data
<1>2. CASE x \notin Commands
  <2>1. x.type = "packet" /\ x.state \in States /\ (x.unit = 0 \/ (x.unit = Closing /\ x.seq = 0))
    BY <1>2 DEF Harmless, Names, Closings
  <2>2. Closing # 0
    BY UploadAssumption DEF Closing
  <2>3. ASSUME Data(x), stage = "established" PROVE FALSE
    <3>1. x.type = "packet" /\ x.state = "good" /\ Paired(x) /\ ~Ignored(x)
      BY <2>3 DEF Data
    <3>2. x.seq # 0
      BY <2>1, <2>3, <3>1 DEF Ignored
    <3> QED BY <2>1, <2>2, <3>1, <3>2 DEF Paired
  <2> QED BY <1>2, <2>1, <2>3
<1> QED BY <1>1, <1>2
\* A session that fails: what has been sent is left behind.
LEMMA FailsCourse ==
    ASSUME IndInv, IndInv', Course, Exchange, stage' = "failed"
    PROVE  Course'
<1>0. /\ up \in Seq(Items(Closing)) /\ fifo \in Seq(Items(Closing)) /\ down \in Seq(Answers)
      /\ Units \in Nat \ {0} /\ Cans \in Nat \ {0} /\ sent \in [Uploads -> 0..Units]
  BY Typing, UploadAssumption
<1>1. /\ UNCHANGED <<pc, sent, up, delivered>> /\ Busy /\ Between' /\ fifo' = <<>>
      /\ Break \/ EraseFails \/ WriteFails \/ CommandBreaks
      /\ WriteFails \/ CommandBreaks \/ down' = down
  BY DEF Exchange, AskAgain, Begin, Ignore, TakeUnit, TakeEot, Finish, CommandBreaks, Break,
         EraseFails, WriteFails, Fails, Rest, pcvars, history, Reading, TimedOut, Busy, Between
<1>2. queue' \in Seq(Items(Closing)) /\ Part(queue', queue)
  BY <1>0, <1>1, SessionReads
<1>3. Plain => Plain'
  BY <1>2, Keeps
<1>4. /\ NoneSends' = NoneSends /\ NoneReady' = NoneReady /\ Agreed'
      /\ \A x \in Uploads : OnlySends(x)' = OnlySends(x)
  BY <1>1 DEF NoneSends, NoneReady, Agreed, OnlySends
<1>5. ASSUME WriteFails
      PROVE  /\ fifo # <<>> /\ Data(Head(fifo)) /\ stage \in {"established", "transmitting"}
             /\ Rear(queue', queue)
             /\ down = <<>> => \A i \in 1..Len(down') : down'[i] = "CAN"
  <2>1. /\ fifo # <<>> /\ Data(Head(fifo)) /\ stage \in {"established", "transmitting"}
        /\ down' = down \o [i \in 1..Cans |-> "CAN"]
    BY <1>5 DEF WriteFails, Reading
  <2>2. Rear(queue', queue)
    BY <1>0, <1>1, <2>1, SessionReads
  <2>3. down = <<>> => \A i \in 1..Len(down') : down'[i] = "CAN"
    <3>1. [i \in 1..Cans |-> "CAN"] \in Seq(Answers)
      BY <1>0, SeqDef DEF Answers
    <3>2. down = <<>> => down' = [i \in 1..Cans |-> "CAN"]
      BY <2>1, <3>1, ConcatEmptySeq
    <3> QED BY <1>0, <3>2
  <2> QED BY <2>1, <2>2, <2>3
<1>6. ASSUME CommandBreaks PROVE stage = "establishing"
  BY <1>6 DEF CommandBreaks
<1>7. CASE Calling
  <2>1. \A i \in 1..Len(down') : down'[i] = "C"
    <3>1. CASE down' = down
      BY <1>7, <3>1 DEF Calling
    <3>2. CASE CommandBreaks
      <4> DEFINE more == IF tries + 3 <= Tries THEN 3 ELSE Tries - tries
                 new == [i \in 1..more |-> "C"]
      <4>1. down' = down \o new /\ more \in Nat
        BY <3>2, UploadAssumption DEF CommandBreaks, IndInv, Scalars
      <4>2. new \in Seq(Answers) /\ Len(new) = more /\ \A i \in 1..more : new[i] = "C"
        BY <4>1, SeqDef DEF Answers
      <4>3. /\ Len(down') = Len(down) + more /\ Len(down) \in Nat
            /\ \A i \in 1..(Len(down) + more) :
                  down'[i] = IF i <= Len(down) THEN down[i] ELSE new[i - Len(down)]
        <5> HIDE DEF new, more
        <5>1. /\ Len(down') = Len(down) + Len(new)
              /\ \A i \in 1..(Len(down) + Len(new)) :
                    down'[i] = IF i <= Len(down) THEN down[i] ELSE new[i - Len(down)]
          BY <1>0, <4>1, <4>2, ConcatProperties
        <5>2. Len(down) \in Nat
          BY <1>0, LenProperties
        <5> QED BY <4>2, <5>1, <5>2
      <4> HIDE DEF new, more
      <4>4. ASSUME NEW i \in 1..Len(down') PROVE down'[i] = "C"
        <5>1. i <= Len(down) => i \in 1..Len(down) /\ down[i] = "C"
          BY <1>7, <4>3 DEF Calling
        <5>2. ~(i <= Len(down)) => i - Len(down) \in 1..more
          BY <4>1, <4>3
        <5> QED BY <4>2, <4>3, <5>1, <5>2
      <4> QED BY <4>4
    <3> QED BY <1>1, <1>5, <1>7, <3>1, <3>2 DEF Calling, Between
  <2> QED BY <1>1, <1>3, <1>4, <1>7, <2>1 DEF Calling, Course
<1>8. CASE Naming \/ Readying
  <2>1. Plain /\ stage = "established"
    BY <1>1, <1>8 DEF Naming, Readying, Agreed, Between, Busy
  <2>2. ~WriteFails
    BY <1>5, <2>1, ReadItem, NoUnit
  <2>3. down' = down
    BY <1>1, <1>6, <2>1, <2>2
  <2>4. NameTaken' = NameTaken
    BY <2>3 DEF NameTaken
  <2> QED BY <1>3, <1>4, <1>8, <2>3, <2>4 DEF Naming, Readying, Course
\* The unit that could not be written was the last thing sent.
<1>9. ASSUME NEW x \in Uploads, NEW n \in 1..Units, NEW B, WriteFails, down = <<>>,
             Ends(queue, UnitOf(x, n), B), Head(fifo) \in UnitOf(x, n)
      PROVE  Course'
  <2>1. queue[1] \in UnitOf(x, n)
    BY <1>5, <1>9, ReadItem
  <2>2. queue' \in Seq(Commands)
    BY <1>2, <1>5, <1>9, <2>1, RearEnds
  <2>3. Plain'
    BY <2>2, Disjoint, SeqMonotonic DEF Plain
  <2> QED BY <1>1, <1>5, <1>9, <2>3 DEF Refusing, Course
<1>10. ASSUME NEW x \in Uploads, First(x) PROVE Course'
  <2>1. CASE WriteFails
    <3>1. 1 \in 1..Units /\ Ends(queue, UnitOf(x, 1), Harmless) /\ down = <<>>
          /\ stage = "established"
      BY <1>0, <1>10 DEF First
    <3>2. Head(fifo) \in UnitOf(x, 1)
      BY <1>5, <2>1, <3>1, ReadItem, NoUnit
    <3> QED BY <1>9, <2>1, <3>1, <3>2
  <2>2. CASE ~WriteFails
    <3>1. down' = <<>> /\ pc'[x] = "unit"
      BY <1>1, <1>6, <1>10, <2>2 DEF First
    <3> QED BY <1>1, <3>1 DEF Stuck, Course
  <2> QED BY <2>1, <2>2
<1>11. ASSUME NEW x \in Uploads, NEW n \in 1..Units, Sending(x, n) PROVE Course'
  <2>1. CASE WriteFails
    <3>1. Head(fifo) \notin Commands \cup Eot
      BY <1>5, <2>1, NoUnit, Disjoint DEF Data, Eot
    <3>2. /\ sent[x] = n + 1 /\ down = <<>> /\ Ends(queue, UnitOf(x, n + 1), Commands)
      BY <1>5, <1>11, <2>1, <3>1, ReadItem DEF Sending
    <3>3. n + 1 \in 1..Units
      BY <1>0, <3>2
    <3>4. Head(fifo) \in UnitOf(x, n + 1)
      BY <1>5, <2>1, <3>1, <3>2, <3>3, ReadItem
    <3> QED BY <1>9, <2>1, <3>2, <3>3, <3>4
  <2>2. CASE ~WriteFails
    <3>1. down' = down
      BY <1>1, <1>6, <1>11, <2>2 DEF Sending
    <3>2. pc[x] \in {"unit", "eot"} /\ (pc[x] = "eot" => down = <<>>) /\ down \in {<<>>, <<"ACK">>}
      BY <1>11 DEF Sending
    <3>3. \A u \in Uploads : pc[u] = "eot" => u = x
      BY <1>11 DEF Sending, OnlySends
    <3> QED BY <1>1, <3>1, <3>2, <3>3 DEF Stuck, Course
  <2> QED BY <2>1, <2>2
<1>12. ASSUME NEW x \in Uploads, Ending(x) PROVE Course'
  <2>1. stage \in {"finishing", "finished"}
    BY <1>1, <1>12 DEF Ending, Between, Busy
  <2>2. down' = down
    BY <1>1, <1>5, <1>6, <2>1
  <2>3. Ending(x)'
    BY <1>1, <1>3, <1>4, <1>12, <2>2 DEF Ending
  <2> QED BY <2>3 DEF Course
<1>13. ~Stuck /\ ~Refusing
  BY <1>1 DEF Stuck, Refusing, Between, Busy
<1> QED BY <1>7, <1>8, <1>10, <1>11, <1>12, <1>13 DEF Course, Sends
LEMMA ExchangeCourse ==
    ASSUME IndInv, IndInv', Course, Exchange, stage' # "failed"
    PROVE  Course'
<1>0. /\ up \in Seq(Items(Closing)) /\ fifo \in Seq(Items(Closing)) /\ down \in Seq(Answers)
      /\ Units \in Nat \ {0} /\ sent \in [Uploads -> 0..Units]
  BY Typing
<1>1. /\ UNCHANGED <<pc, sent, up>> /\ Busy
      /\ AskAgain \/ Begin \/ Ignore \/ TakeUnit \/ TakeEot \/ Finish
      /\ fifo' \in {fifo, <<>>} \/ (fifo # <<>> /\ fifo' = Tail(fifo))
  BY DEF Exchange, AskAgain, Begin, Ignore, TakeUnit, TakeEot, Finish, CommandBreaks, Break,
         EraseFails, WriteFails, Fails, Rest, pcvars, Reading, Busy
<1>2. /\ queue' \in Seq(Items(Closing)) /\ Part(queue', queue)
      /\ fifo # <<>> /\ fifo' # fifo => Rear(queue', queue)
  BY <1>0, <1>1, SessionReads
<1>3. Plain => Plain'
  BY <1>2, Keeps
<1>4. /\ NoneSends' = NoneSends /\ NoneReady' = NoneReady
      /\ \A x \in Uploads : OnlySends(x)' = OnlySends(x)
  BY <1>1 DEF NoneSends, NoneReady, OnlySends
<1>5. ASSUME fifo # <<>>, fifo' = Tail(fifo) PROVE fifo' # fifo
  <2>1. Len(fifo') = Len(fifo) - 1 /\ Len(fifo) \in Nat
    BY <1>0, <1>5, HeadTailProperties, LenProperties
  <2> QED BY <2>1
<1>6. CASE AskAgain
  <2>1. stage = "establishing" /\ stage' = stage /\ down' = Append(down, "C")
    BY <1>6 DEF AskAgain
  <2>2. Calling
    BY <2>1 DEF Course, Naming, Readying, First, Sends, Sending, Ending, Stuck, Refusing, Agreed,
                Between
  <2>3. /\ Len(down') = Len(down) + 1 /\ Len(down) \in Nat /\ down'[Len(down) + 1] = "C"
        /\ \A i \in 1..Len(down) : down'[i] = down[i]
    BY <1>0, <2>1, AppendProperties, LenProperties DEF Answers
  <2>4. \A i \in 1..Len(down') : down'[i] = "C"
    BY <2>2, <2>3 DEF Calling
  <2>5. Calling'
    BY <1>3, <1>4, <2>1, <2>2, <2>4 DEF Calling
  <2> QED BY <2>5 DEF Course
<1>7. CASE Begin
  <2>1. stage = "establishing" /\ stage' = "established" /\ got' = <<>>
        /\ down' = down \o <<"ACK", "C">>
    BY <1>7 DEF Begin
  <2>2. Calling
    BY <2>1 DEF Course, Naming, Readying, First, Sends, Sending, Ending, Stuck, Refusing, Agreed,
                Between
  <2>3. NameTaken'
    <3>1. <<"ACK", "C">> \in Seq(Answers)
      BY DEF Answers
    <3>2. /\ Len(down) \in Nat /\ Len(down') = Len(down) + 2
          /\ \A i \in 1..Len(down) : down'[i] = down[i]
          /\ down'[Len(down) + 1] = "ACK" /\ down'[Len(down) + 2] = "C"
      BY <1>0, <2>1, <3>1, ConcatProperties, LenProperties
    <3>3. \A i \in 1..Len(down) : down'[i] = "C"
      BY <2>2, <3>2 DEF Calling
    <3> QED BY <3>2, <3>3 DEF NameTaken
  <2>4. Naming'
    BY <1>3, <1>4, <2>1, <2>2, <2>3 DEF Calling, Naming, Agreed
  <2> QED BY <2>4 DEF Course
<1>8. CASE Ignore
  <2>1. stage = "established" /\ UNCHANGED <<stage, got, down, delivered>>
    BY <1>8 DEF Ignore, Ignored, history
  <2> QED BY <1>1, <1>2, <2>1, LineCourse
<1>9. CASE TakeUnit
  <2>1. /\ fifo # <<>> /\ fifo' = Tail(fifo) /\ Data(Head(fifo))
        /\ stage \in {"established", "transmitting"} /\ stage' = "transmitting"
        /\ got' = Append(got, <<Head(fifo).by, Head(fifo).unit>>)
        /\ down' = Append(down, "ACK")
    BY <1>9 DEF TakeUnit, Reading
  <2>2. Rear(queue', queue)
    BY <1>2, <1>5, <2>1
  <2>3. Head(fifo) \notin Commands
    BY <2>1, NoUnit, Disjoint
  <2>4. ASSUME NEW x \in Uploads, NEW n \in 1..Units, NEW B, Stored(x, n - 1), down = <<>>,
               Ends(queue, UnitOf(x, n), B), Head(fifo) \in UnitOf(x, n), OnlySends(x),
               pc[x] = "unit", sent[x] = n
        PROVE  Course'
    <3>1. queue' \in Seq(Commands)
      <4>1. queue[1] \in UnitOf(x, n)
        BY <2>1, <2>4, ReadItem
      <4> QED BY <1>2, <2>2, <2>4, <4>1, RearEnds
    <3>2. Stored(x, n)'
      <4>1. got' = Append([i \in 1..(n - 1) |-> <<x, i>>], <<x, n>>)
        BY <2>1, <2>4 DEF Stored, UnitOf
      <4>2. got' = [i \in 1..n |-> <<x, i>>]
        BY <4>1
      <4> QED BY <4>2 DEF Stored
    <3>3. down' = <<"ACK">>
      BY <2>1, <2>4, OneItem
    <3>4. Sending(x, n)'
      BY <1>1, <1>4, <2>1, <2>4, <3>1, <3>2, <3>3 DEF Sending
    <3> QED BY <3>4 DEF Course, Sends
  <2>5. ASSUME NEW x \in Uploads, First(x) PROVE Course'
    <3>1. 1 \in 1..Units /\ 1 - 1 = 0
      BY <1>0
    <3>2. Stored(x, 0)
      BY <2>5 DEF First, Stored
    <3>3. Head(fifo) \in UnitOf(x, 1)
      BY <2>1, <2>5, <3>1, ReadItem, NoUnit DEF First
    <3> QED BY <2>4, <2>5, <3>1, <3>2, <3>3 DEF First
  <2>6. ASSUME NEW x \in Uploads, NEW n \in 1..Units, Sending(x, n) PROVE Course'
    <3>1. Head(fifo) \notin Eot
      BY <2>1 DEF Data, Eot
    <3>2. /\ pc[x] = "unit" /\ sent[x] = n + 1 /\ down = <<>>
          /\ Ends(queue, UnitOf(x, n + 1), Commands)
      BY <2>1, <2>3, <2>6, <3>1, ReadItem DEF Sending
    <3>3. n + 1 \in 1..Units /\ (n + 1) - 1 = n
      BY <1>0, <3>2
    <3>4. Head(fifo) \in UnitOf(x, n + 1)
      BY <2>1, <2>3, <3>2, <3>3, ReadItem
    <3>5. Stored(x, n) /\ OnlySends(x)
      BY <2>6 DEF Sending
    <3> QED BY <2>4, <3>2, <3>3, <3>4, <3>5
  <2>7. ~Naming /\ ~Readying
    <3>1. Plain => stage # "established"
      BY <2>1, ReadItem, NoUnit
    <3> QED BY <2>1, <3>1 DEF Naming, Readying, Agreed, Between
  <2> QED BY <2>1, <2>5, <2>6, <2>7
          DEF Course, Calling, Sends, Ending, Stuck, Refusing, Between
<1>10. CASE TakeEot
  <2>1. /\ fifo # <<>> /\ fifo' = Tail(fifo) /\ Head(fifo).type = "EOT"
        /\ stage \in {"established", "transmitting"} /\ stage' = "finishing"
        /\ delivered' = delivered \cup {u \in Uploads : Whole(u)} /\ got' = got
        /\ down' = Append(down, "ACK")
    BY <1>10 DEF TakeEot, Reading
  <2>2. Head(fifo) \notin Harmless
    BY <2>1, NoUnit
  <2>3. Head(fifo) \notin Commands /\ \A x \in Uploads, n \in 1..Units : Head(fifo) \notin UnitOf(x, n)
    BY <2>1, <2>2, Disjoint DEF UnitOf
  <2>4. PICK x \in Uploads, n \in 1..Units : Sending(x, n)
    <3>1. ~Plain
      BY <2>1, <2>2, ReadItem
    <3>2. ASSUME NEW x \in Uploads, First(x) PROVE FALSE
      <4>1. 1 \in 1..Units
        BY <1>0
      <4> QED BY <2>1, <2>2, <2>3, <3>2, <4>1, ReadItem DEF First
    <3> QED BY <2>1, <3>1, <3>2
            DEF Course, Calling, Naming, Readying, Sends, Ending, Stuck, Refusing, Between
  <2>5. pc[x] = "eot" /\ n = Units /\ down = <<>> /\ Ends(queue, Eot, Commands)
    <3>1. queue \notin Seq(Commands)
      BY <2>1, <2>3, ReadItem
    <3>2. ~(sent[x] = n + 1 /\ Ends(queue, UnitOf(x, n + 1), Commands))
      <4>1. sent[x] = n + 1 => n + 1 \in 1..Units
        BY <1>0
      <4> QED BY <2>1, <2>3, <4>1, ReadItem
    <3> QED BY <2>4, <3>1, <3>2 DEF Sending
  <2>6. Whole(x) /\ OnlySends(x)
    BY <2>4, <2>5 DEF Sending, Stored, Whole
  <2>7. Plain'
    <3>1. queue[1] \in Eot
      BY <2>1, <2>3, <2>5, ReadItem
    <3>2. queue' \in Seq(Commands)
      BY <1>2, <1>5, <2>1, <2>5, <3>1, RearEnds
    <3> QED BY <3>2, Disjoint, SeqMonotonic DEF Plain
  <2>8. \A i \in 1..Len(down') : down'[i] = "ACK"
    <3>1. down' = <<"ACK">>
      BY <2>1, <2>5, OneItem
    <3> QED BY <3>1, OneItem
  <2>9. Ending(x)'
    BY <1>1, <1>4, <2>1, <2>5, <2>6, <2>7, <2>8 DEF Ending, Whole
  <2> QED BY <2>9 DEF Course
<1>11. CASE Finish
  <2>1. /\ stage = "finishing" /\ stage' = "finished" /\ UNCHANGED <<got, delivered>>
        /\ down' = Append(down, "ACK")
    BY <1>11 DEF Finish, history
  <2>2. PICK x \in Uploads : Ending(x)
    BY <2>1 DEF Course, Calling, Naming, Readying, First, Sends, Sending, Stuck, Refusing, Agreed,
                Between
  <2>3. /\ Len(down') = Len(down) + 1 /\ Len(down) \in Nat /\ down'[Len(down) + 1] = "ACK"
        /\ \A i \in 1..Len(down) : down'[i] = down[i]
    BY <1>0, <2>1, AppendProperties, LenProperties DEF Answers
  <2>4. \A i \in 1..Len(down') : down'[i] = "ACK"
    BY <2>2, <2>3 DEF Ending
  <2>5. Whole(x)'
    BY <2>1, <2>2 DEF Ending, Between, Whole
  <2>6. Ending(x)'
    BY <1>1, <1>3, <1>4, <2>1, <2>2, <2>4, <2>5 DEF Ending
  <2> QED BY <2>6 DEF Course
<1> QED BY <1>1, <1>6, <1>7, <1>8, <1>9, <1>10, <1>11

(* The threads: a session that begins clean finds nobody half way.         *)
LEMMA ThreadsCourse ==
    ASSUME IndInv, IndInv', Course, clean',
           (\E k \in Kinds : Start(k) \/ StartAsserts(k)) \/ Leave \/ Reset
    PROVE  Course'
<1>0. up \in Seq(Items(Closing)) /\ fifo \in Seq(Items(Closing))
  BY Typing
<1>1. UNCHANGED <<pc, sent, up, got, delivered>>
  BY DEF Start, StartAsserts, Leave, Reset, pcvars, history
<1>2. ASSUME NEW k \in Kinds, Start(k) PROVE Course'
  <2>1. /\ stage = "none" /\ stage' = "establishing" /\ fifo' = <<>> /\ down' = <<"C">>
        /\ \A u \in Uploads : pc[u] \notin {"named", "ready", "unit", "eot"}
    BY <1>2, OneItem DEF Start, IndInv, Threads, Waiting
  <2>2. Plain
    BY <2>1 DEF Course, Calling, Naming, Readying, First, Sends, Sending, Ending, Stuck, Refusing
  <2>3. Plain'
    BY <1>0, <1>1, <2>1, <2>2, SessionReads, Keeps
  <2>4. NoneSends' /\ NoneReady'
    BY <1>1, <2>1 DEF NoneSends, NoneReady
  <2>5. \A i \in 1..Len(down') : down'[i] = "C"
    BY <2>1, OneItem
  <2>6. Calling'
    BY <2>1, <2>3, <2>4, <2>5 DEF Calling
  <2> QED BY <2>6 DEF Course
<1>3. CASE \E k \in Kinds : StartAsserts(k)
  <2>1. UNCHANGED <<stage, down, fifo>>
    BY <1>3 DEF StartAsserts
  <2> QED BY <1>0, <1>1, <2>1, SessionReads, LineCourse
<1>4. CASE Leave \/ Reset
  <2>1. stage \in {"finished", "failed"} /\ stage' = "none" /\ UNCHANGED <<down, fifo>>
    BY <1>4 DEF Leave, Reset
  <2>2. /\ Plain' = Plain /\ NoneSends' = NoneSends /\ NoneReady' = NoneReady
        /\ NameTaken' = NameTaken /\ Between'
        /\ \A x \in Uploads : OnlySends(x)' = OnlySends(x)
    BY <1>1, <2>1 DEF Plain, queue, NoneSends, NoneReady, NameTaken, Between, OnlySends
  <2>3. CASE Calling
    BY <2>1, <2>2, <2>3 DEF Calling, Course
  <2>4. CASE Naming
    BY <2>1, <2>2, <2>4 DEF Naming, Agreed, Course
  <2>5. CASE Readying
    BY <2>1, <2>2, <2>5 DEF Readying, Agreed, Course
  <2>6. ASSUME NEW x \in Uploads, Ending(x) PROVE Course'
    <3>1. Ending(x)'
      BY <1>1, <2>1, <2>2, <2>6 DEF Ending
    <3> QED BY <3>1 DEF Course
  <2>7. CASE Stuck
    BY <1>1, <2>1, <2>2, <2>7 DEF Stuck, Course
  <2>8. CASE Refusing
    BY <2>1, <2>2, <2>8 DEF Refusing, Course
  <2> QED BY <2>1, <2>3, <2>4, <2>5, <2>6, <2>7, <2>8 DEF Course, First, Sends, Sending
<1> QED BY <1>2, <1>3, <1>4
\* What the PC has sent and what it knows to be stored, a step further.
LEMMA UnsentKept ==
    ASSUME IndInv, Unsent, Next
    PROVE  Unsent'
<1>0. /\ pc \in [Uploads -> {"idle", "done", "failed"} \cup Waiting]
      /\ sent \in [Uploads -> 0..Units]
  BY DEF IndInv, Scalars
<1>1. ASSUME NEW u \in Uploads, Click(u) \/ (Answer(u) /\ ~SendUnit(u)) PROVE Unsent'
  <2>1. sent' = sent
    BY <1>1 DEF Click, Answer, Named, NamedOK, SendEot, Close, Refused
  <2>2. /\ \A v \in Uploads \ {u} : pc'[v] = pc[v]
        /\ pc'[u] \in {"begin", "named", "ready"} => pc[u] \in {"idle", "begin", "named"}
        /\ pc'[u] # "idle"
    BY <1>0, <1>1 DEF Click, Answer, Named, NamedOK, SendEot, Close, Refused, Reads
  <2> QED BY <2>1, <2>2 DEF Unsent
<1>2. ASSUME NEW u \in Uploads, SendUnit(u) PROVE Unsent'
  <2>1. /\ \A v \in Uploads \ {u} : pc'[v] = pc[v] /\ sent'[v] = sent[v]
        /\ pc'[u] = "unit"
    BY <1>0, <1>2 DEF SendUnit
  <2> QED BY <2>1 DEF Unsent
<1>3. CASE DataReceived \/ Lose \/ (\E s \in {"crc", "short"} : Damage(s)) \/ Serial
  <2>1. UNCHANGED <<pc, sent>>
    BY <1>3 DEF DataReceived, Lose, Damage, Serial, Command, ToFifo, pcvars
  <2> QED BY <2>1 DEF Unsent
<1>4. CASE Session
  <2>1. UNCHANGED <<pc, sent>>
    <3>1. CASE Exchange
      BY <3>1, ExchangeScalars DEF IndInv, Rest, pcvars
    <3>2. CASE (\E k \in Kinds : Start(k) \/ StartAsserts(k)) \/ Leave \/ Reset
      BY <3>2 DEF Start, StartAsserts, Leave, Reset, pcvars
    <3> QED BY <1>4, <3>1, <3>2 DEF Session, Exchange
  <2> QED BY <2>1 DEF Unsent
<1> QED BY <1>1, <1>2, <1>3, <1>4 DEF Next, Answer

LEMMA BoardDoneOnly ==
    ASSUME IndInv, DoneOnly,
           DataReceived \/ Lose \/ (\E s \in {"crc", "short"} : Damage(s)) \/ Serial \/ Session
    PROVE  DoneOnly'
<1>1. CASE DataReceived \/ Lose \/ (\E s \in {"crc", "short"} : Damage(s)) \/ Serial
  <2>1. UNCHANGED <<pc, delivered>>
    BY <1>1 DEF DataReceived, Lose, Damage, Serial, Command, ToFifo, pcvars, board, history
  <2> QED BY <2>1 DEF DoneOnly
<1>2. CASE Exchange
  <2>1. pc' = pc
    BY <1>2, ExchangeScalars DEF IndInv, Rest, pcvars
  <2>2. delivered \subseteq delivered'
    BY <1>2 DEF Exchange, AskAgain, Begin, Ignore, TakeUnit, TakeEot, Finish, CommandBreaks,
                Break, EraseFails, WriteFails, Fails, history
  <2> QED BY <2>1, <2>2 DEF DoneOnly
<1>3. CASE (\E k \in Kinds : Start(k) \/ StartAsserts(k)) \/ Leave \/ Reset
  <2>1. UNCHANGED <<pc, delivered>>
    BY <1>3 DEF Start, StartAsserts, Leave, Reset, pcvars, history
  <2> QED BY <2>1 DEF DoneOnly
<1> QED BY <1>1, <1>2, <1>3 DEF Session, Exchange

\* A course once left is not taken up again.
LEMMA CleanFalls ==
    ASSUME Next, clean'
    PROVE  clean
<1>1. ASSUME NEW u \in Uploads, Click(u) \/ Answer(u) PROVE clean
  BY <1>1 DEF Click, Answer, Named, NamedOK, SendUnit, SendEot, Close, Refused, board, history
<1>2. CASE DataReceived \/ Lose \/ (\E s \in {"crc", "short"} : Damage(s)) \/ Serial
  BY <1>2 DEF DataReceived, Lose, Damage, Serial, Command, ToFifo, board, history
<1>3. CASE Exchange
  BY <1>3 DEF Exchange, AskAgain, Begin, Ignore, TakeUnit, TakeEot, Finish, CommandBreaks,
              Break, EraseFails, WriteFails, Fails, history
<1>4. CASE (\E k \in Kinds : Start(k) \/ StartAsserts(k)) \/ Leave \/ Reset
  BY <1>4 DEF Start, StartAsserts, Leave, Reset, history
<1> QED BY <1>1, <1>2, <1>3, <1>4 DEF Next, Session, Exchange

LEMMA CleanInit == Init => CleanInv
<1> SUFFICES ASSUME Init PROVE CleanInv
  OBVIOUS
<1>1. Unsent /\ DoneOnly /\ NoneSends /\ NoneReady
  BY DEF Init, Unsent, DoneOnly, NoneSends, NoneReady
<1>2. Plain
  <2>1. <<>> \o <<>> = <<>> /\ <<>> \in Seq(Harmless)
    BY EmptySeq
  <2> QED BY <2>1 DEF Init, Plain, queue
<1>3. Between /\ \A i \in 1..Len(down) : down[i] = "C"
  <2>1. Len(<<>>) = 0
    OBVIOUS
  <2> QED BY <2>1 DEF Init, Between
<1> QED BY <1>1, <1>2, <1>3 DEF CleanInv, Course, Calling

LEMMA CleanKept == Spec => [](IndInv /\ CleanInv)
<1>1. IndInv /\ IndInv' /\ CleanInv /\ [Next]_vars => CleanInv'
  <2> SUFFICES ASSUME IndInv, IndInv', CleanInv, [Next]_vars PROVE CleanInv'
    OBVIOUS
  <2>1. CASE UNCHANGED vars
    BY <2>1 DEF vars, CleanInv, Unsent, DoneOnly, Course, Calling, Naming, Readying, First, Sends,
                Sending, Ending, Stuck, Refusing, Between, Agreed, Plain, NoneSends, NoneReady,
                OnlySends, NameTaken, Stored, Whole, queue
  <2>2. CASE Next
    <3> SUFFICES ASSUME clean' PROVE Course' /\ DoneOnly'
      BY <2>2, UnsentKept DEF CleanInv
    <3>1. Unsent /\ Course /\ DoneOnly
      BY <2>2, CleanFalls DEF CleanInv
    <3>2. ASSUME NEW u \in Uploads, Click(u) PROVE Course' /\ DoneOnly'
      <4>1. Course'
        BY <3>1, <3>2, ClickCourse
      <4>2. pc' = [pc EXCEPT ![u] = "begin"] /\ delivered' = delivered
        BY <3>2 DEF Click, board, history
      <4>3. pc \in [Uploads -> {"idle", "done", "failed"} \cup Waiting]
        BY DEF IndInv, Scalars
      <4> QED BY <3>1, <4>1, <4>2, <4>3 DEF DoneOnly
    <3>3. ASSUME NEW u \in Uploads, Answer(u) PROVE Course' /\ DoneOnly'
      BY <3>1, <3>3, AnswerCourse
    <3>4. CASE DataReceived \/ Lose \/ (\E s \in {"crc", "short"} : Damage(s)) \/ Serial
      BY <3>1, <3>4, CourseLine, BoardDoneOnly
    <3>5. CASE Session
      <4>1. DoneOnly'
        BY <3>1, <3>5, BoardDoneOnly
      <4>2. CASE Exchange
        BY <3>1, <4>1, <4>2, FailsCourse, ExchangeCourse
      <4>3. CASE (\E k \in Kinds : Start(k) \/ StartAsserts(k)) \/ Leave \/ Reset
        BY <3>1, <4>1, <4>3, ThreadsCourse
      <4> QED BY <3>5, <4>2, <4>3 DEF Session, Exchange
    <3> QED BY <2>2, <3>2, <3>3, <3>4, <3>5 DEF Next
  <2> QED BY <2>1, <2>2
<1> QED BY CleanInit, UploadInvariance, <1>1, PTL DEF Spec
----------------------------------------------------------------------------
(* Of a single upload no second session can come: one command, one thread. *)
NoCall == \A i \in 1..Len(up) : up[i].type # "command"

Uncalled(u) == pc[u] = "idle" /\ stage = "none" /\ created = {} /\ up = <<>> /\ down = <<>>
Called(u)   == /\ pc[u] = "begin" /\ stage = "none" /\ down = <<>>
               /\ \/ created = {} /\ \E k \in Kinds : up = <<[type |-> "command", kind |-> k]>>
                  \/ up = <<>> /\ \E k \in Kinds : created = {k}
CallRead(u) == pc[u] # "idle" /\ created = {} /\ NoCall

SoleCall ==
    \A u \in Uploads : Alone(u) => clean /\ (Uncalled(u) \/ Called(u) \/ CallRead(u))

\* Commands are looked for exactly while there is no session.
LEMMA ModeFacts ==
    ASSUME IndInv
    PROVE  mode = "cmd" <=> stage = "none"
BY DEF IndInv, Scalars, Threads, NothingLeftSet

LEMMA SendNoCall ==
    ASSUME up \in Seq(Items(Closing)), NoCall, NEW item, item.type # "command",
           up' = Append(up, item)
    PROVE  NoCall'
<1>1. /\ Len(up) \in Nat /\ Len(up') = Len(up) + 1 /\ up'[Len(up) + 1] = item
      /\ \A i \in 1..Len(up) : up'[i] = up[i]
  BY LenProperties, AppendProperties
<1> QED BY <1>1 DEF NoCall

LEMMA TakeNoCall ==
    ASSUME up \in Seq(Items(Closing)), NoCall, up # <<>>, up' = Tail(up)
    PROVE  NoCall' /\ Head(up).type # "command"
<1>1. Len(up) \in Nat \ {0}
  BY EmptySeq, LenProperties
<1>2. /\ Len(up') = Len(up) - 1 /\ Head(up) = up[1]
      /\ \A i \in 1..Len(up') : up'[i] = up[i + 1] /\ i + 1 \in 1..Len(up)
  BY <1>1, HeadTailProperties
<1> QED BY <1>1, <1>2 DEF NoCall

\* The steps of the PC.
LEMMA SolePC ==
    ASSUME IndInv, SoleCall, NEW v \in Uploads, Click(v) \/ Answer(v)
    PROVE  SoleCall'
<1>0. /\ up \in Seq(Items(Closing))
      /\ pc \in [Uploads -> {"idle", "done", "failed"} \cup Waiting]
      /\ kind[v] \in Kinds
  BY Typing DEF IndInv, Scalars
<1> SUFFICES ASSUME NEW u \in Uploads, Alone(u)'
             PROVE  clean' /\ (Uncalled(u)' \/ Called(u)' \/ CallRead(u)')
  BY DEF SoleCall
<1>1. pc'[v] # "idle" /\ \A w \in Uploads : pc'[w] = "idle" => pc[w] = "idle"
  BY <1>0 DEF Click, Answer, Named, NamedOK, SendUnit, SendEot, Close, Refused, Reads
<1>2. u = v /\ Alone(u)
  BY <1>1 DEF Alone
<1>3. clean /\ (Uncalled(u) \/ Called(u) \/ CallRead(u))
  BY <1>2 DEF SoleCall
<1>4. clean' = clean /\ stage' = stage /\ created' = created
  BY DEF Click, Answer, Named, NamedOK, SendUnit, SendEot, Close, Refused, board, history
<1>5. CASE Click(v)
  <2>1. Uncalled(u)
    BY <1>2, <1>3, <1>5 DEF Click, Called, CallRead
  <2>2. up' = <<[type |-> "command", kind |-> kind[v]]>> /\ pc'[v] = "begin" /\ down' = down
    BY <1>0, <1>5, <2>1 DEF Click, Uncalled
  <2> QED BY <1>0, <1>2, <1>3, <1>4, <2>1, <2>2 DEF Uncalled, Called
<1>6. CASE Answer(v)
  <2>1. down # <<>>
    BY <1>6 DEF Answer, Named, NamedOK, SendUnit, SendEot, Close, Refused, Reads
  <2>2. CallRead(u)
    BY <1>3, <2>1 DEF Uncalled, Called
  <2>3. up' = up \/ \E item : item.type # "command" /\ up' = Append(up, item)
    BY <1>6 DEF Answer, Named, NamedOK, SendUnit, SendEot, Close, Refused, Packet
  <2>4. NoCall'
    <3>1. CASE up' = up
      BY <2>2, <3>1 DEF CallRead, NoCall
    <3>2. ASSUME NEW item, item.type # "command", up' = Append(up, item) PROVE NoCall'
      BY <1>0, <2>2, <3>2, SendNoCall DEF CallRead
    <3> QED BY <2>3, <3>1, <3>2
  <2> QED BY <1>1, <1>2, <1>3, <1>4, <2>2, <2>4 DEF CallRead
<1> QED BY <1>5, <1>6

\* The line and the serial thread.
LEMMA SoleLine ==
    ASSUME IndInv, SoleCall,
           DataReceived \/ Lose \/ (\E s \in {"crc", "short"} : Damage(s)) \/ Serial
    PROVE  SoleCall'
<1>0. up \in Seq(Items(Closing)) /\ (mode = "cmd" <=> stage = "none")
  BY Typing, ModeFacts
<1>1. UNCHANGED <<pc, stage, clean>> /\ down' \in {down, <<>>}
  BY DEF DataReceived, Lose, Damage, Serial, Command, ToFifo, pcvars, board, history
<1> SUFFICES ASSUME NEW u \in Uploads, Alone(u)'
             PROVE  clean' /\ (Uncalled(u)' \/ Called(u)' \/ CallRead(u)')
  BY DEF SoleCall
<1>2. Alone(u) /\ clean /\ (Uncalled(u) \/ Called(u) \/ CallRead(u))
  BY <1>1 DEF SoleCall, Alone
<1>3. CASE DataReceived
  <2>1. UNCHANGED <<up, created>>
    BY <1>3 DEF DataReceived, board
  <2> QED BY <1>1, <1>2, <1>3, <2>1 DEF Uncalled, Called, CallRead, NoCall, DataReceived
<1>4. ASSUME NEW s \in {"crc", "short"}, Damage(s)
      PROVE  clean' /\ (Uncalled(u)' \/ Called(u)' \/ CallRead(u)')
  <2> DEFINE x == [Head(up) EXCEPT !.state = s]
  <2>1. /\ up # <<>> /\ created' = created /\ Head(up).type = "packet"
        /\ up' = <<x>> \o Tail(up)
    BY <1>4 DEF Damage, board
  <2>2. ~Uncalled(u) /\ ~Called(u)
    <3>1. \A k : Head(<<[type |-> "command", kind |-> k]>>).type = "command"
      OBVIOUS
    <3> QED BY <2>1, <3>1 DEF Uncalled, Called
  <2>3. NoCall'
    <3>1. Head(up) \in Items(Closing) /\ Tail(up) \in Seq(Items(Closing)) /\ Len(up) \in Nat \ {0}
      BY <1>0, <2>1, HeadTailProperties, EmptySeq, LenProperties
    <3>2. x.type # "command"
      BY <2>1
    <3> HIDE DEF x
    <3>3. /\ <<x>> \in Seq({x} \cup Items(Closing)) /\ Tail(up) \in Seq({x} \cup Items(Closing))
          /\ Len(<<x>>) = 1 /\ <<x>>[1] = x
      BY <3>1, SeqMonotonic
    <3>4. /\ Len(up') = 1 + Len(Tail(up))
          /\ \A i \in 1..(1 + Len(Tail(up))) : up'[i] = IF i <= 1 THEN <<x>>[i] ELSE Tail(up)[i - 1]
      BY <2>1, <3>3, ConcatProperties
    <3>5. /\ Len(Tail(up)) = Len(up) - 1
          /\ \A i \in 1..Len(Tail(up)) : Tail(up)[i] = up[i + 1]
      BY <1>0, <2>1, HeadTailProperties
    <3>6. \A i \in 1..Len(up) : up[i].type # "command"
      BY <1>2, <2>2 DEF CallRead, NoCall
    <3> SUFFICES ASSUME NEW i \in 1..Len(up') PROVE up'[i].type # "command"
      BY DEF NoCall
    <3>7. CASE i = 1
      BY <3>1, <3>2, <3>3, <3>4, <3>5, <3>7
    <3>8. CASE i # 1
      <4>1. i - 1 \in 1..Len(Tail(up)) /\ i \in 1..(1 + Len(Tail(up))) /\ ~(i <= 1)
            /\ (i - 1) + 1 = i /\ i \in 1..Len(up)
        BY <3>1, <3>4, <3>5, <3>8
      <4> QED BY <3>4, <3>5, <3>6, <4>1
    <3> QED BY <3>7, <3>8
  <2> QED BY <1>1, <1>2, <2>1, <2>2, <2>3 DEF CallRead
<1>5. CASE Lose \/ Serial
  <2>1. up # <<>> /\ up' = Tail(up) /\ ~Uncalled(u)
    BY <1>5 DEF Lose, Serial, Command, ToFifo, Uncalled
  <2>2. CASE CallRead(u)
    <3>1. NoCall' /\ Head(up).type # "command"
      BY <1>0, <2>1, <2>2, TakeNoCall DEF CallRead
    <3>2. created' = created
      BY <1>5, <3>1 DEF Lose, Serial, Command, ToFifo, board
    <3> QED BY <1>1, <1>2, <2>2, <3>1, <3>2 DEF CallRead
  <2>3. CASE Called(u)
    <3>1. PICK k \in Kinds : created = {} /\ up = <<[type |-> "command", kind |-> k]>>
      BY <2>1, <2>3 DEF Called
    <3>2. up' = <<>> /\ Head(up).kind = k /\ Head(up).type = "command"
      BY <2>1, <3>1
    <3>3. created' \in {{}, {k}}
      BY <1>5, <3>1, <3>2 DEF Lose, Serial, Command, ToFifo, board
    <3>4. down' = <<>>
      BY <1>1, <2>3 DEF Called
    <3>5. CASE created' = {k}
      BY <1>1, <1>2, <2>3, <3>2, <3>4, <3>5 DEF Called
    <3>6. CASE created' = {}
      <4>1. NoCall'
        <5>1. Len(<<>>) = 0
          OBVIOUS
        <5> QED BY <3>2, <5>1 DEF NoCall
      <4> QED BY <1>1, <1>2, <2>3, <3>6, <4>1 DEF Called, CallRead
    <3> QED BY <3>3, <3>5, <3>6
  <2> QED BY <1>2, <2>1, <2>2, <2>3
<1> QED BY <1>3, <1>4, <1>5

\* The session: the one thread there is starts it.
LEMMA SoleSession ==
    ASSUME IndInv, SoleCall, Session
    PROVE  SoleCall'
<1>1. UNCHANGED <<pc, up>>
  <2>1. CASE Exchange
    BY <2>1, ExchangeScalars DEF IndInv, Rest, pcvars
  <2>2. CASE (\E k \in Kinds : Start(k) \/ StartAsserts(k)) \/ Leave \/ Reset
    BY <2>2 DEF Start, StartAsserts, Leave, Reset, pcvars
  <2> QED BY <2>1, <2>2 DEF Session, Exchange
<1> SUFFICES ASSUME NEW u \in Uploads, Alone(u)'
             PROVE  clean' /\ (Uncalled(u)' \/ Called(u)' \/ CallRead(u)')
  BY DEF SoleCall
<1>2. Alone(u) /\ clean /\ (Uncalled(u) \/ Called(u) \/ CallRead(u))
  BY <1>1 DEF SoleCall, Alone
<1>3. NoCall' = NoCall
  BY <1>1 DEF NoCall
<1>4. CASE Exchange \/ Leave \/ Reset
  <2>1. stage # "none" /\ created' = created /\ clean' = clean
    <3>1. CASE Exchange
      <4>1. clean' = clean
        BY <3>1 DEF Exchange, AskAgain, Begin, Ignore, TakeUnit, TakeEot, Finish, CommandBreaks,
                    Break, EraseFails, WriteFails, Fails, history
      <4> QED BY <3>1, <4>1, ExchangeScalars DEF IndInv, Rest
    <3>2. CASE Leave \/ Reset
      BY <3>2 DEF Leave, Reset, history
    <3> QED BY <1>4, <3>1, <3>2
  <2> QED BY <1>1, <1>2, <1>3, <2>1 DEF Uncalled, Called, CallRead
<1>5. ASSUME NEW k \in Kinds, Start(k) \/ StartAsserts(k)
      PROVE  clean' /\ (Uncalled(u)' \/ Called(u)' \/ CallRead(u)')
  <2>1. k \in created /\ created' = created \ {k}
    BY <1>5 DEF Start, StartAsserts
  <2>2. Called(u)
    BY <1>2, <2>1 DEF Uncalled, CallRead
  <2>3. Start(k) /\ created = {k} /\ up = <<>> /\ down = <<>>
    BY <1>5, <2>1, <2>2 DEF Called, StartAsserts, Busy
  <2>4. \A w \in Uploads : pc[w] \in {"idle", "begin"}
    BY <1>2, <2>2 DEF Alone, Called
  <2>5. clean'
    <3>1. \A w \in Uploads : pc[w] \notin Waiting \ {"begin"}
      BY <2>4 DEF Waiting
    <3> QED BY <1>2, <2>3, <3>1 DEF Start
  <2>6. NoCall'
    <3>1. Len(<<>>) = 0
      OBVIOUS
    <3> QED BY <1>1, <2>3, <3>1 DEF NoCall
  <2> QED BY <1>1, <2>1, <2>2, <2>3, <2>5, <2>6 DEF Called, CallRead
<1> QED BY <1>4, <1>5 DEF Session, Exchange

LEMMA SoleKept == Spec => [](IndInv /\ SoleCall)
<1>1. Init => SoleCall
  BY DEF Init, SoleCall, Uncalled
<1>2. IndInv /\ SoleCall /\ [Next]_vars => SoleCall'
  <2> SUFFICES ASSUME IndInv, SoleCall, [Next]_vars PROVE SoleCall'
    OBVIOUS
  <2>1. ASSUME NEW u \in Uploads, Click(u) \/ Answer(u) PROVE SoleCall'
    BY <2>1, SolePC
  <2>2. CASE DataReceived \/ Lose \/ (\E s \in {"crc", "short"} : Damage(s)) \/ Serial
    BY <2>2, SoleLine
  <2>3. CASE Session
    BY <2>3, SoleSession
  <2>4. CASE UNCHANGED vars
    BY <2>4 DEF vars, SoleCall, Alone, Uncalled, Called, CallRead, NoCall
  <2> QED BY <2>1, <2>2, <2>3, <2>4 DEF Next
<1> QED BY <1>1, <1>2, UploadInvariance, PTL DEF Spec
----------------------------------------------------------------------------
\* What the two invariants say of the two properties.
LEMMA Conclusion ==
    ASSUME IndInv, CleanInv, SoleCall
    PROVE  CommitsWholeFile /\ SaysDoneOfWhole
<1>1. Undisturbed => clean
  BY DEF Undisturbed, SoleCall
<1>2. Undisturbed => Course /\ DoneOnly
  BY <1>1 DEF CleanInv
<1>3. ASSUME stage = "finished", Undisturbed PROVE \E u \in Uploads : Whole(u)
  <2>1. PICK x \in Uploads : pc[x] = "done"
    BY <1>3 DEF IndInv, FinishIsKnown
  <2>2. PICK u \in Uploads : Ending(u)
    BY <1>2, <1>3 DEF Course, Calling, Naming, Readying, First, Sends, Sending, Stuck, Refusing,
                      Between, Agreed
  <2> QED BY <1>3, <2>2 DEF Ending, Between
<1> QED BY <1>2, <1>3 DEF CommitsWholeFile, SaysDoneOfWhole, DoneOnly

(* Any number of uploads, whatever is lost or damaged on the way and       *)
(* however late the PC answers: a session of mcu_upgrade.c or              *)
(* fpga_upgrade.c that ends in the reset has stored one file, whole and in *)
(* order, unless it or one before it was begun with something left over.   *)
THEOREM UploadCommits == Spec => []CommitsWholeFile
<1> QED BY CleanKept, SoleKept, Conclusion, PTL

(* And YmodemUploadFile reports done only of a file that the board has     *)
(* stored whole.                                                           *)
THEOREM UploadSaysDone == Spec => []SaysDoneOfWhole
<1> QED BY CleanKept, SoleKept, Conclusion, PTL

(* A tool that has been asked for one upload only never leaves anything    *)
(* for another session: it sends one command, and of one command comes one *)
(* thread.                                                                 *)
THEOREM SingleIsClean == Spec => [](\A u \in Uploads : Alone(u) => clean)
<1>1. SoleCall => \A u \in Uploads : Alone(u) => clean
  BY DEF SoleCall
<1> QED BY <1>1, SoleKept, PTL
----------------------------------------------------------------------------
(* Retries.  A name whose number is not 0 is turned down, and before its   *)
(* name has been taken nothing else of an upload is sent.                  *)
Barred == Commands \cup [type : {"packet"}, by : Uploads, seq : Nat \ {0}, unit : {0},
                         state : States]

Locked == /\ packetNumber # 0
          /\ up \in Seq(Barred) /\ fifo \in Seq(Barred) /\ down \in Seq({"C"})
          /\ \A u \in Uploads : pc[u] \in {"idle", "begin", "named", "failed"}

LEMMA BarredItems ==
    ASSUME NEW x \in Barred
    PROVE  /\ ~Begins(x) /\ ~Ignored(x) /\ ~Data(x) /\ ~Closes(x) /\ x.type # "EOT"
           /\ x.type = "command" => x \in Commands
           /\ \A s \in States : x.type = "packet" => [x EXCEPT !.state = s] \in Barred
<1>1. CASE x \in Commands
  BY <1>1 DEF Commands, Begins, Ignored, Data, Closes
<1>2. CASE x \notin Commands
  <2>1. x \in [type : {"packet"}, by : Uploads, seq : Nat \ {0}, unit : {0}, state : States]
    BY <1>2 DEF Barred
  <2>2. x.unit = 0 /\ x.seq # 0 /\ x.type = "packet" /\ Closing # 0
    BY <2>1, UploadAssumption DEF Closing
  <2>3. \A s \in States : [x EXCEPT !.state = s] \in Barred
    BY <2>1 DEF Barred
  <2> QED BY <2>2, <2>3 DEF Begins, Ignored, Data, Closes, Paired
<1> QED BY <1>1, <1>2

LEMMA LockedPC ==
    ASSUME IndInv, Locked, NEW v \in Uploads, Click(v) \/ Answer(v)
    PROVE  Locked'
<1>0. /\ pc \in [Uploads -> {"idle", "done", "failed"} \cup Waiting]
      /\ kind[v] \in Kinds /\ packetNumber \in Nat
  BY DEF IndInv, Scalars
<1>1. fifo' = fifo
  BY DEF Click, Answer, Named, NamedOK, SendUnit, SendEot, Close, Refused, board
<1>2. CASE Click(v)
  <2>1. [type |-> "command", kind |-> kind[v]] \in Barred
    BY <1>0 DEF Barred, Commands
  <2>2. up' \in Seq(Barred)
    BY <1>2, <2>1, AppendProperties DEF Click, Locked
  <2>3. packetNumber' = packetNumber /\ down' = down /\ pc' = [pc EXCEPT ![v] = "begin"]
    BY <1>2 DEF Click
  <2> QED BY <1>0, <1>1, <2>2, <2>3 DEF Locked
<1>3. CASE Answer(v)
  <2>1. down # <<>> /\ down' = Tail(down)
    BY <1>3 DEF Answer, Named, NamedOK, SendUnit, SendEot, Close, Refused, Reads
  <2>2. Head(down) = "C" /\ down' \in Seq({"C"})
    BY <2>1, HeadTailProperties DEF Locked
  <2>3. Named(v) \/ Refused(v)
    BY <1>3, <2>2 DEF Answer, NamedOK, SendUnit, SendEot, Close, Reads, Expected, Locked
  <2>4. CASE Named(v)
    <3>1. Packet(v, packetNumber, 0) \in Barred
      BY <1>0 DEF Packet, Barred, States, Locked
    <3>2. up' \in Seq(Barred)
      BY <2>4, <3>1, AppendProperties DEF Named, Locked
    <3>3. packetNumber' = packetNumber /\ pc' = [pc EXCEPT ![v] = "named"]
      BY <2>4 DEF Named
    <3> QED BY <1>0, <1>1, <2>2, <3>2, <3>3 DEF Locked
  <2>5. CASE Refused(v)
    <3>1. UNCHANGED <<packetNumber, up>> /\ pc' = [pc EXCEPT ![v] = "failed"]
      BY <2>5 DEF Refused
    <3> QED BY <1>0, <1>1, <2>2, <3>1 DEF Locked
  <2> QED BY <2>3, <2>4, <2>5
<1> QED BY <1>2, <1>3

LEMMA LockedLine ==
    ASSUME IndInv, Locked,
           DataReceived \/ Lose \/ (\E s \in {"crc", "short"} : Damage(s)) \/ Serial
    PROVE  Locked'
<1>1. UNCHANGED <<pc, packetNumber>> /\ down' \in {down, <<>>}
  BY DEF DataReceived, Lose, Damage, Serial, Command, ToFifo, pcvars
<1>2. down' \in Seq({"C"})
  BY <1>1, EmptySeq DEF Locked
<1>3. up # <<>> => Head(up) \in Barred /\ Tail(up) \in Seq(Barred)
  BY HeadTailProperties DEF Locked
<1>4. CASE DataReceived
  <2>1. UNCHANGED <<up, fifo>>
    BY <1>4 DEF DataReceived, board
  <2> QED BY <1>1, <1>2, <2>1 DEF Locked
<1>5. CASE Lose \/ Serial
  <2>1. up # <<>> /\ up' = Tail(up) /\ fifo' \in {fifo, Append(fifo, Head(up))}
    <3>1. CASE Lose
      BY <3>1 DEF Lose, board
    <3>2. CASE Command
      BY <3>2 DEF Command
    <3>3. CASE ToFifo
      BY <3>3 DEF ToFifo
    <3> QED BY <1>5, <3>1, <3>2, <3>3 DEF Serial
  <2>2. Append(fifo, Head(up)) \in Seq(Barred)
    BY <1>3, <2>1, AppendProperties DEF Locked
  <2> QED BY <1>1, <1>2, <1>3, <2>1, <2>2 DEF Locked
<1>6. ASSUME NEW s \in {"crc", "short"}, Damage(s) PROVE Locked'
  <2> DEFINE x == [Head(up) EXCEPT !.state = s]
  <2>1. up # <<>> /\ Head(up).type = "packet" /\ up' = <<x>> \o Tail(up) /\ fifo' = fifo
    BY <1>6 DEF Damage, board
  <2>2. x \in Barred
    BY <1>3, <2>1, BarredItems DEF States
  <2>3. up' \in Seq(Barred)
    <3> HIDE DEF x
    <3>1. <<x>> \in Seq(Barred) /\ Tail(up) \in Seq(Barred)
      BY <1>3, <2>1, <2>2
    <3> QED BY <2>1, <3>1, ConcatProperties
  <2> QED BY <1>1, <1>2, <2>1, <2>3 DEF Locked
<1> QED BY <1>4, <1>5, <1>6

LEMMA LockedSession ==
    ASSUME IndInv, Locked, Session
    PROVE  Locked'
<1>1. fifo # <<>> => Head(fifo) \in Barred /\ Tail(fifo) \in Seq(Barred)
  BY HeadTailProperties DEF Locked
<1>2. CASE Exchange
  <2>1. UNCHANGED <<pc, packetNumber, up>>
    BY <1>2, ExchangeScalars DEF IndInv, Rest, pcvars
  <2>2. fifo # <<>> => /\ ~Begins(Head(fifo)) /\ ~Ignored(Head(fifo)) /\ ~Data(Head(fifo))
                       /\ ~Closes(Head(fifo)) /\ Head(fifo).type # "EOT"
    BY <1>1, BarredItems
  <2>3. ~Begin /\ ~Ignore /\ ~TakeUnit /\ ~TakeEot /\ ~Finish /\ ~EraseFails /\ ~WriteFails
    BY <2>2 DEF Begin, Ignore, TakeUnit, TakeEot, Finish, EraseFails, WriteFails, Reading
  <2>4. AskAgain \/ CommandBreaks \/ Break
    BY <1>2, <2>3 DEF Exchange
  <2>5. fifo' \in {fifo, <<>>} \/ (fifo # <<>> /\ fifo' = Tail(fifo))
    BY <2>4 DEF AskAgain, CommandBreaks, Break, Fails
  <2>6. fifo' \in Seq(Barred)
    BY <1>1, <2>5, EmptySeq DEF Locked
  <2>7. down' \in Seq({"C"})
    <3>1. CASE AskAgain
      BY <3>1, AppendProperties DEF AskAgain, Locked
    <3>2. CASE CommandBreaks
      <4> DEFINE more == IF tries + 3 <= Tries THEN 3 ELSE Tries - tries
                 new == [i \in 1..more |-> "C"]
      <4>1. down' = down \o new /\ more \in Nat
        BY <3>2, UploadAssumption DEF CommandBreaks, IndInv, Scalars
      <4>2. new \in Seq({"C"})
        BY <4>1, SeqDef
      <4> HIDE DEF new, more
      <4> QED BY <4>1, <4>2, ConcatProperties DEF Locked
    <3>3. CASE Break
      BY <3>3 DEF Break, Locked
    <3> QED BY <2>4, <3>1, <3>2, <3>3
  <2> QED BY <2>1, <2>6, <2>7 DEF Locked
<1>3. CASE (\E k \in Kinds : Start(k) \/ StartAsserts(k)) \/ Leave \/ Reset
  <2>1. UNCHANGED <<pc, packetNumber, up>> /\ fifo' \in {fifo, <<>>}
        /\ down' \in {down, Append(down, "C")}
    BY <1>3 DEF Start, StartAsserts, Leave, Reset, pcvars
  <2>2. Append(down, "C") \in Seq({"C"})
    BY AppendProperties DEF Locked
  <2> QED BY <2>1, <2>2, EmptySeq DEF Locked
<1> QED BY <1>2, <1>3 DEF Session, Exchange

(* After an upload has failed in mid-file no later one is ever done, and   *)
(* no session finished: YmodemUploadFile sends the name with the number    *)
(* where the failed one has left it, and rym_recv_on_device begins with 0. *)
THEOREM RetriesAllFail == Spec => RetriesFail
<1>1. Stranded => Locked
  BY EmptySeq DEF Stranded, Locked
<1>2. IndInv /\ Locked /\ [Next]_vars => Locked'
  <2> SUFFICES ASSUME IndInv, Locked, [Next]_vars PROVE Locked'
    OBVIOUS
  <2>1. ASSUME NEW u \in Uploads, Click(u) \/ Answer(u) PROVE Locked'
    BY <2>1, LockedPC
  <2>2. CASE DataReceived \/ Lose \/ (\E s \in {"crc", "short"} : Damage(s)) \/ Serial
    BY <2>2, LockedLine
  <2>3. CASE Session
    BY <2>3, LockedSession
  <2>4. CASE UNCHANGED vars
    BY <2>4 DEF vars, Locked
  <2> QED BY <2>1, <2>2, <2>3, <2>4 DEF Next
<1>3. IndInv /\ Locked => stage # "finished" /\ \A u \in Uploads : pc[u] # "done"
  <2>1. Locked => \A u \in Uploads : pc[u] # "done"
    BY DEF Locked
  <2> QED BY <2>1 DEF IndInv, FinishIsKnown
<1> QED BY <1>1, <1>2, <1>3, UploadInvariance, PTL DEF Spec, RetriesFail
=============================================================================
