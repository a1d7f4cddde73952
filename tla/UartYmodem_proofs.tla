-------------------------- MODULE UartYmodem_proofs --------------------------
(***************************************************************************)
(* Proofs about the receive FIFO, for every size and every chunking of the *)
(* line and of the reads.                                                  *)
(***************************************************************************)
EXTENDS UartYmodem, SequenceTheorems, TLAPS

(* Index arithmetic: where the next byte goes and what it does to Count.   *)
LEMMA CountRange ==
    ASSUME TypeOK
    PROVE  Count \in 0..(Size - 1) /\ (Count = 0 <=> put_index = get_index)
BY SizeAssumption DEF TypeOK, Count

LEMMA SlotRange ==
    ASSUME TypeOK, NEW k \in 0..(Size - 1)
    PROVE  Slot(k) \in 0..(Size - 1)
BY SizeAssumption DEF TypeOK, Slot

LEMMA PutSlot ==
    ASSUME TypeOK
    PROVE  put_index = Slot(Count)
BY SizeAssumption DEF TypeOK, Slot, Count

LEMMA SlotsDiffer ==
    ASSUME TypeOK, NEW j \in 0..(Size - 1), NEW k \in 0..(Size - 1), j # k
    PROVE  Slot(j) # Slot(k)
BY SizeAssumption DEF TypeOK, Slot

(* What the two indices do to Count when the one that is put goes on, and  *)
(* when it takes the other along.                                          *)
Between(p, g) == IF p >= g THEN p - g ELSE Size - (g - p)

LEMMA IndexGoesOn ==
    ASSUME NEW p \in 0..(Size - 1), NEW g \in 0..(Size - 1)
    PROVE  /\ NextIndex(p) \in 0..(Size - 1)
           /\ NextIndex(p) = g <=> Between(p, g) = Size - 1
           /\ NextIndex(p) # g => Between(NextIndex(p), g) = Between(p, g) + 1
           /\ NextIndex(p) = g => Between(NextIndex(p), NextIndex(g)) = Size - 1
<1>1. Size \in Nat /\ Size > 1 /\ p \in Nat /\ g \in Nat /\ p < Size /\ g < Size
  BY SizeAssumption
<1>2. CASE p + 1 >= Size
  <2>1. p = Size - 1 /\ NextIndex(p) = 0
    BY <1>1, <1>2 DEF NextIndex
  <2>2. NextIndex(0) = 1
    BY <1>1 DEF NextIndex
  <2> QED BY <1>1, <2>1, <2>2 DEF Between
<1>3. CASE p + 1 < Size
  <2>1. NextIndex(p) = p + 1
    BY <1>1, <1>3 DEF NextIndex
  <2>2. CASE g = p + 1
    <3>1. Between(p, g) = Size - 1
      BY <1>1, <2>2 DEF Between
    <3>2. Between(g, NextIndex(g)) = Size - 1
      BY <1>1, <2>2 DEF Between, NextIndex
    <3> QED BY <1>1, <1>3, <2>1, <2>2, <3>1, <3>2
  <2>3. CASE g # p + 1
    BY <1>1, <1>3, <2>1, <2>3 DEF Between
  <2> QED BY <2>2, <2>3
<1> QED BY <1>1, <1>2, <1>3

LEMMA InitInv == Init => IndInv
<1> SUFFICES ASSUME Init PROVE IndInv
  OBVIOUS
<1>1. TypeOK
  <2>1. open \in BOOLEAN /\ is_full \in BOOLEAN
    BY Zenon DEF Init
  <2> QED BY <2>1, SizeAssumption DEF Init, TypeOK
<1>2. Count = 0
  BY DEF Init, Count
<1> QED BY <1>1, <1>2, SizeAssumption,
        LineAssumption DEF Init, IndInv, LifeCycle, Accounted, FullIsFull, NoLostWakeup, Halted
----------------------------------------------------------------------------
(* Steps that leave the FIFO alone.                                        *)
LEMMA RingKept ==
    ASSUME IndInv, UNCHANGED ring, UNCHANGED history
    PROVE  Count' = Count /\ Accounted' /\ FullIsFull'
<1>1. Count' = Count /\ \A k : Slot(k)' = Slot(k)
  BY DEF Count, Slot, ring
<1> QED BY <1>1 DEF IndInv, Accounted, FullIsFull, ring, history

LEMMA QuietSteps ==
    ASSUME IndInv,
           \/ \E k \in 1..MaxChunk : Deliver(k)
           \/ Notify \/ OpenFlag \/ CloseFree \/ CloseNull \/ CloseFlag
           \/ \E k \in 1..MaxRead : Ask(k)
           \/ ReadDone \/ ReadEmpty \/ Take \/ Timeout \/ UNCHANGED vars
    PROVE  IndInv'
<1>1. UNCHANGED ring /\ UNCHANGED history
  BY DEF Deliver, Notify, OpenFlag, CloseFree, CloseNull, CloseFlag, Ask, ReadDone,
         ReadEmpty, Take, Timeout, vars, ring, history
<1>2. Count' = Count /\ Accounted' /\ FullIsFull'
  BY <1>1, RingKept
<1>3. Count \in Nat /\ TypeOK /\ LifeCycle /\ NoLostWakeup /\ FullIsFull
  BY CountRange, SizeAssumption DEF IndInv
<1>4. Empty <=> Count = 0
  BY <1>3, CountRange, SizeAssumption DEF Empty, FullIsFull, TypeOK
<1>5. ASSUME NEW k \in 1..MaxChunk, Deliver(k) PROVE IndInv'
  <2>1. TypeOK'
    BY <1>1, <1>3, <1>5, LineAssumption DEF TypeOK, Deliver, ring, history
  <2>2. LifeCycle'
    BY <1>1, <1>2, <1>3, <1>5 DEF LifeCycle, Deliver, Halted, TypeOK, history
  <2>3. NoLostWakeup'
    BY <1>2, <1>3, <1>5 DEF NoLostWakeup, Deliver
  <2> QED BY <1>2, <2>1, <2>2, <2>3 DEF IndInv
<1>6. ASSUME Notify PROVE IndInv'
  <2>1. TypeOK'
    BY <1>1, <1>3, <1>6 DEF TypeOK, Notify, ring, history
  <2>2. LifeCycle'
    BY <1>1, <1>2, <1>3, <1>6 DEF LifeCycle, Notify, Halted, TypeOK, history
  <2>3. NoLostWakeup'
    BY <1>2, <1>3, <1>6 DEF NoLostWakeup, LifeCycle, Notify, TypeOK
  <2> QED BY <1>2, <2>1, <2>2, <2>3 DEF IndInv
<1>7. ASSUME OpenFlag \/ CloseFree \/ CloseNull \/ CloseFlag PROVE IndInv'
  <2>1. TypeOK'
    <3>1. open' \in BOOLEAN
      BY <1>3, <1>7, Zenon DEF TypeOK, OpenFlag, CloseFree, CloseNull, CloseFlag
    <3> QED BY <3>1, <1>1, <1>3, <1>7
            DEF TypeOK, OpenFlag, CloseFree, CloseNull, CloseFlag, ring, history
  <2>2. LifeCycle'
    BY <1>1, <1>2, <1>3, <1>7
    DEF LifeCycle, OpenFlag, CloseFree, CloseNull, CloseFlag, Runs, Halted, TypeOK, history
  <2>3. NoLostWakeup'
    BY <1>2, <1>3, <1>7 DEF NoLostWakeup, OpenFlag, CloseFree, CloseNull, CloseFlag
  <2> QED BY <1>2, <2>1, <2>2, <2>3 DEF IndInv
<1>8. ASSUME \/ \E k \in 1..MaxRead : Ask(k)
             \/ ReadDone \/ ReadEmpty \/ Take \/ Timeout
      PROVE  IndInv'
  <2>1. TypeOK'
    BY <1>1, <1>3, <1>8, LineAssumption
    DEF TypeOK, Ask, ReadDone, ReadEmpty, Take, Timeout, ring, history
  <2>2. LifeCycle'
    BY <1>1, <1>2, <1>3, <1>8
    DEF LifeCycle, Ask, ReadDone, ReadEmpty, Take, Timeout, Runs, Halted, TypeOK, history
  <2>3. NoLostWakeup'
    BY <1>2, <1>3, <1>4, <1>8
    DEF NoLostWakeup, Ask, ReadDone, ReadEmpty, Take, Timeout, Runs, TypeOK
  <2> QED BY <1>2, <2>1, <2>2, <2>3 DEF IndInv
<1>9. CASE UNCHANGED vars
  BY <1>1, <1>2, <1>3, <1>9
  DEF IndInv, TypeOK, LifeCycle, NoLostWakeup, Halted, vars, ring, history
<1> QED BY <1>5, <1>6, <1>7, <1>8, <1>9
----------------------------------------------------------------------------
LEMMA StoreStep ==
    ASSUME IndInv, StoreByte
    PROVE  IndInv'
<1> DEFINE full == Count = Size - 1
<1>1. TypeOK /\ LifeCycle /\ Accounted /\ FullIsFull /\ NoLostWakeup /\ Count \in 0..(Size - 1)
  BY CountRange DEF IndInv
<1>2. TypeOK'
  <2>1. is_full' \in BOOLEAN
    BY <1>1, Zenon DEF TypeOK, StoreByte
  <2>2. put_index' \in 0..(Size - 1) /\ get_index' \in 0..(Size - 1)
    BY <1>1, IndexGoesOn DEF TypeOK, StoreByte
  <2>3. buffer' \in [0..(Size - 1) -> Nat]
    BY <1>1 DEF TypeOK, StoreByte
  <2> QED BY <1>1, <2>1, <2>2, <2>3 DEF TypeOK, StoreByte, Storing
<1>3. put_index' = get_index <=> full
  BY <1>1, IndexGoesOn DEF TypeOK, StoreByte, Count, Between
<1>4. Count' = IF full THEN Count ELSE Count + 1
  <2>1. Count = Between(put_index, get_index) /\ Count' = Between(put_index', get_index')
    BY DEF Count, Between
  <2>2. put_index \in 0..(Size - 1) /\ get_index \in 0..(Size - 1)
        /\ put_index' = NextIndex(put_index)
        /\ get_index' = IF put_index' = get_index THEN NextIndex(get_index) ELSE get_index
    BY <1>1 DEF TypeOK, StoreByte
  <2> QED BY <1>3, <2>1, <2>2, IndexGoesOn
<1>5. lost' = (IF full THEN lost + 1 ELSE lost) /\ rcvd' = rcvd + 1 /\ read' = read
  BY <1>3 DEF StoreByte
<1>6. \A k \in 0..(Size - 1) : full /\ k + 1 < Size => Slot(k)' = Slot(k + 1)
  BY <1>1, <1>3, SizeAssumption DEF TypeOK, StoreByte, NextIndex, Slot
<1>7. \A k \in 0..(Size - 1) : ~full => Slot(k)' = Slot(k)
  BY <1>3 DEF StoreByte, Slot
<1>8. Accounted'
  <2>1. rcvd' = read' + lost' + Count'
    BY <1>1, <1>4, <1>5, SizeAssumption DEF Accounted, TypeOK
  <2>2. ASSUME NEW k \in 0..(Count' - 1)
        PROVE  buffer'[Slot(k)'] = read' + lost' + k + 1
    <3> DEFINE j == IF full THEN k + 1 ELSE k
    <3>1. j \in 0..Count /\ j \in 0..(Size - 1) /\ k \in 0..(Size - 1)
      BY <1>1, <1>4, SizeAssumption
    <3>2. Slot(k)' = Slot(j)
      <4>1. CASE full
        BY <3>1, <4>1, <1>6, SizeAssumption
      <4>2. CASE ~full
        BY <3>1, <4>2, <1>7
      <4> QED BY <4>1, <4>2
    <3>3. buffer' = [buffer EXCEPT ![Slot(Count)] = rcvd + 1] /\ Slot(Count) \in DOMAIN buffer
      BY <1>1, PutSlot, SlotRange DEF StoreByte, TypeOK
    <3>4. CASE j = Count
      <4>1. buffer'[Slot(j)] = rcvd + 1
        BY <3>3, <3>4
      <4> QED BY <3>1, <3>2, <3>4, <4>1, <1>1, <1>5 DEF Accounted, TypeOK
    <3>5. CASE j < Count
      <4>1. Slot(j) # Slot(Count)
        BY <3>1, <3>5, <1>1, SlotsDiffer
      <4>2. buffer'[Slot(j)] = buffer[Slot(j)]
        BY <3>3, <4>1
      <4>3. buffer[Slot(j)] = read + lost + j + 1
        BY <3>1, <3>5, <1>1 DEF Accounted
      <4> QED BY <3>1, <3>2, <4>2, <4>3, <1>1, <1>5 DEF TypeOK
    <3> QED BY <3>1, <3>4, <3>5, <1>1
  <2> QED BY <2>1, <2>2 DEF Accounted
<1>9. FullIsFull'
  BY <1>1, <1>3, <1>4, SizeAssumption DEF FullIsFull, StoreByte
<1>10. LifeCycle'
  BY <1>1, <1>4, SizeAssumption, LineAssumption DEF LifeCycle, StoreByte, Storing, Halted, TypeOK
<1>11. NoLostWakeup'
  BY DEF NoLostWakeup, StoreByte, Storing
<1> QED BY <1>2, <1>8, <1>9, <1>10, <1>11 DEF IndInv

LEMMA ReadStep ==
    ASSUME IndInv, ReadByte
    PROVE  IndInv'
<1>1. /\ TypeOK /\ LifeCycle /\ Accounted /\ FullIsFull /\ NoLostWakeup
      /\ Count \in 0..(Size - 1) /\ (Count = 0 <=> put_index = get_index)
  BY CountRange DEF IndInv
<1>2. Count > 0
  BY <1>1, SizeAssumption DEF ReadByte, Empty, FullIsFull
<1>3. TypeOK'
  <2>1. is_full' \in BOOLEAN
    BY Zenon DEF ReadByte
  <2> QED BY <2>1, <1>1, SizeAssumption DEF TypeOK, ReadByte, NextIndex
<1>4. Count' = Count - 1
  BY <1>1, <1>2, SizeAssumption DEF TypeOK, ReadByte, NextIndex, Count
<1>5. \A k \in 0..(Size - 2) : Slot(k)' = Slot(k + 1)
  BY <1>1, SizeAssumption DEF TypeOK, ReadByte, NextIndex, Slot
<1>6. Accounted'
  <2>1. rcvd' = read' + lost' + Count'
    BY <1>1, <1>4, SizeAssumption DEF Accounted, TypeOK, ReadByte
  <2>2. ASSUME NEW k \in 0..(Count' - 1)
        PROVE  buffer'[Slot(k)'] = read' + lost' + k + 1
    <3>1. k \in 0..(Size - 2) /\ k + 1 \in 0..(Count - 1)
      BY <1>1, <1>4, SizeAssumption
    <3>2. buffer[Slot(k + 1)] = read + lost + (k + 1) + 1
      BY <3>1, <1>1 DEF Accounted
    <3> QED BY <3>1, <3>2, <1>1, <1>5 DEF ReadByte, TypeOK
  <2> QED BY <2>1, <2>2 DEF Accounted
<1>7. FullIsFull'
  BY DEF FullIsFull, ReadByte
<1>8. LifeCycle'
  BY <1>1 DEF LifeCycle, ReadByte, Runs, Halted
<1>9. NoLostWakeup'
  BY DEF NoLostWakeup, ReadByte, Runs
<1> QED BY <1>3, <1>6, <1>7, <1>8, <1>9 DEF IndInv

LEMMA OpenStep ==
    ASSUME IndInv, OpenFifo
    PROVE  IndInv'
<1>1. TypeOK /\ LifeCycle
  BY DEF IndInv
<1>2. TypeOK'
  <2>1. is_full' \in BOOLEAN
    BY Zenon DEF OpenFifo
  <2> QED BY <2>1, <1>1, SizeAssumption DEF TypeOK, OpenFifo
<1>3. Count' = 0
  BY DEF Count, OpenFifo
<1>4. Accounted' /\ FullIsFull' /\ NoLostWakeup'
  BY <1>3, SizeAssumption DEF Accounted, FullIsFull, NoLostWakeup, OpenFifo
<1>5. LifeCycle'
  BY <1>1, LineAssumption DEF LifeCycle, OpenFifo, Runs, Halted
<1> QED BY <1>2, <1>4, <1>5 DEF IndInv
----------------------------------------------------------------------------
(* Queues of consecutive bytes: what Append and Tail make of them.         *)
Window(b, c) == [k \in 1..c |-> b + k]

LEMMA WindowSeq ==
    ASSUME NEW b \in Nat, NEW c \in Nat
    PROVE  Window(b, c) \in Seq(Nat) /\ Len(Window(b, c)) = c
BY DEF Window

LEMMA WindowAppend ==
    ASSUME NEW b \in Nat, NEW c \in Nat
    PROVE  Append(Window(b, c), b + c + 1) = Window(b, c + 1)
<1>0. c + 1 \in Nat
  OBVIOUS
<1>1. /\ Window(b, c) \in Seq(Nat) /\ Len(Window(b, c)) = c
      /\ Window(b, c + 1) \in Seq(Nat) /\ Len(Window(b, c + 1)) = c + 1
  BY <1>0, WindowSeq, Zenon
<1> DEFINE s == Append(Window(b, c), b + c + 1)
<1>2. s \in Seq(Nat) /\ Len(s) = c + 1
  BY <1>1
<1>3. \A k \in 1..(c + 1) : s[k] = Window(b, c + 1)[k]
  <2>1. \A k \in 1..c : s[k] = Window(b, c)[k]
    BY <1>1
  <2>2. s[c + 1] = b + c + 1
    BY <1>1
  <2>3. /\ \A k \in 1..c : Window(b, c)[k] = b + k
        /\ \A k \in 1..(c + 1) : Window(b, c + 1)[k] = b + k
    BY DEF Window
  <2> HIDE DEF s
  <2>4. \A k \in 1..(c + 1) : k \in 1..c \/ k = c + 1
    OBVIOUS
  <2> QED BY <2>1, <2>2, <2>3, <2>4
<1> DEFINE t == Window(b, c + 1)
<1>4. s \in Seq(Nat) /\ t \in Seq(Nat) /\ Len(s) = Len(t) /\ \A k \in 1..Len(s) : s[k] = t[k]
  BY <1>1, <1>2, <1>3
<1> HIDE DEF s, t
<1>5. s = t
  BY ONLY <1>4, SeqEqual
<1> QED BY <1>5 DEF s, t

LEMMA WindowTail ==
    ASSUME NEW b \in Nat, NEW c \in Nat, c > 0
    PROVE  Tail(Window(b, c)) = Window(b + 1, c - 1)
<1>0. b + 1 \in Nat /\ c - 1 \in Nat
  OBVIOUS
<1>1. /\ Window(b, c) \in Seq(Nat) /\ Len(Window(b, c)) = c
      /\ Window(b + 1, c - 1) \in Seq(Nat) /\ Len(Window(b + 1, c - 1)) = c - 1
  BY <1>0, WindowSeq, Zenon
<1>2. Window(b, c) # <<>>
  BY <1>1
<1> DEFINE t == Tail(Window(b, c))
<1>3. /\ t \in Seq(Nat) /\ Len(t) = c - 1
      /\ \A k \in 1..(c - 1) : t[k] = Window(b, c)[k + 1]
  BY <1>1, <1>2, HeadTailProperties
<1>4. \A k \in 1..(c - 1) : t[k] = Window(b + 1, c - 1)[k]
  BY <1>3 DEF Window
<1> DEFINE w == Window(b + 1, c - 1)
<1>5. t \in Seq(Nat) /\ w \in Seq(Nat) /\ Len(t) = Len(w) /\ \A k \in 1..Len(t) : t[k] = w[k]
  BY <1>1, <1>3, <1>4
<1> HIDE DEF t, w
<1>6. t = w
  BY ONLY <1>5, SeqEqual
<1> QED BY <1>6 DEF t, w

(* The FIFO holds the bytes after those read and those given up.           *)
LEMMA ContentsWindow ==
    IndInv /\ fifo = "live" => /\ Contents = Window(read + lost, Count)
                              /\ read + lost \in Nat /\ Count \in 0..(Size - 1)
<1> SUFFICES ASSUME IndInv, fifo = "live"
             PROVE  /\ Contents = Window(read + lost, Count)
                    /\ read + lost \in Nat /\ Count \in 0..(Size - 1)
  OBVIOUS
<1>1. TypeOK /\ Accounted /\ Count \in 0..(Size - 1)
  BY CountRange DEF IndInv
<1>2. ASSUME NEW k \in 1..Count PROVE buffer[Slot(k - 1)] = read + lost + k
  <2>1. k - 1 \in 0..(Count - 1)
    BY <1>1, SizeAssumption
  <2>2. buffer[Slot(k - 1)] = read + lost + (k - 1) + 1
    BY <2>1, <1>1 DEF Accounted
  <2> QED BY <2>1, <2>2, <1>1 DEF TypeOK
<1>3. Contents = [k \in 1..Count |-> buffer[Slot(k - 1)]]
  BY DEF Contents
<1>4. Contents = [k \in 1..Count |-> read + lost + k]
  BY <1>2, <1>3
<1> QED BY <1>1, <1>4 DEF Window, TypeOK

LEMMA ContentsWindowNext ==
    IndInv' /\ fifo' = "live" => Contents' = Window(read' + lost', Count')
<1>1. (IndInv /\ fifo = "live" => /\ Contents = Window(read + lost, Count)
                                  /\ read + lost \in Nat /\ Count \in 0..(Size - 1))'
  BY ContentsWindow, PTL
<1> QED BY <1>1

LEMMA StorePuts ==
    ASSUME IndInv, IndInv', StoreByte
    PROVE  Contents' = IF Len(Contents) < Size - 1
                            THEN Append(Contents, rcvd + 1)
                            ELSE Append(Tail(Contents), rcvd + 1)
<1> DEFINE b == read + lost
           c == Count
<1>0. fifo = "live" /\ fifo' = "live"
  BY DEF IndInv, LifeCycle, StoreByte, Storing
<1>1. /\ Contents = Window(b, c) /\ b \in Nat /\ c \in 0..(Size - 1)
      /\ Contents' = Window(read' + lost', Count')
  BY <1>0, ContentsWindow, ContentsWindowNext
<1>2. TypeOK /\ rcvd + 1 = b + c + 1
  BY <1>0 DEF IndInv, TypeOK, Accounted
<1>a. /\ Count = Between(put_index, get_index) /\ Count' = Between(put_index', get_index')
      /\ put_index \in 0..(Size - 1) /\ get_index \in 0..(Size - 1)
      /\ put_index' = NextIndex(put_index)
      /\ get_index' = IF put_index' = get_index THEN NextIndex(get_index) ELSE get_index
  BY <1>2 DEF TypeOK, StoreByte, Count, Between
<1>3. put_index' = get_index <=> c = Size - 1
  BY <1>a, IndexGoesOn
<1>4. /\ c = Size - 1 => read' + lost' = b + 1 /\ Count' = c
      /\ c # Size - 1 => read' + lost' = b /\ Count' = c + 1
  <2>1. CASE put_index' = get_index
    <3>1. read' + lost' = b + 1
      BY <1>2, <2>1 DEF StoreByte, TypeOK
    <3>2. Count' = c
      BY <1>3, <1>a, <2>1, IndexGoesOn
    <3> QED BY <3>1, <3>2, <1>3, <2>1
  <2>2. CASE put_index' # get_index
    <3>1. read' + lost' = b
      BY <1>2, <2>2 DEF StoreByte, TypeOK
    <3>2. Count' = c + 1
      BY <1>a, <2>2, IndexGoesOn
    <3> QED BY <3>1, <3>2, <1>3, <2>2
  <2> QED BY <2>1, <2>2
<1>5. c \in Nat /\ c + 1 \in Nat /\ Size > 1 /\ Size \in Nat
  BY <1>1, SizeAssumption
<1> HIDE DEF b, c
<1>6. Len(Window(b, c)) = c
  BY <1>1, <1>5, WindowSeq
<1>7. CASE c = Size - 1
  <2>1. Tail(Window(b, c)) = Window(b + 1, c - 1)
    BY <1>1, <1>5, <1>7, WindowTail
  <2>2. b + 1 \in Nat /\ c - 1 \in Nat
    BY <1>1, <1>5, <1>7
  <2>3. Append(Window(b + 1, c - 1), (b + 1) + (c - 1) + 1) = Window(b + 1, (c - 1) + 1)
    BY <2>2, WindowAppend
  <2>4. (b + 1) + (c - 1) + 1 = rcvd + 1 /\ (c - 1) + 1 = c
    BY <1>1, <1>2, <1>5
  <2>5. Append(Tail(Window(b, c)), rcvd + 1) = Window(b + 1, c)
    BY <2>1, <2>3, <2>4
  <2>6. Contents' = Window(b + 1, c) /\ ~(Len(Contents) < Size - 1)
    BY <1>1, <1>4, <1>5, <1>6, <1>7
  <2>7. Append(Tail(Contents), rcvd + 1) = Window(b + 1, c)
    BY <1>1, <2>5
  <2> QED BY <2>6, <2>7
<1>8. CASE c # Size - 1
  <2>1. c < Size - 1
    BY <1>1, <1>5, <1>8
  <2>2. Append(Window(b, c), rcvd + 1) = Window(b, c + 1)
    BY <1>1, <1>2, <1>5, WindowAppend
  <2> QED BY <1>1, <1>4, <1>6, <1>8, <2>1, <2>2
<1> QED BY <1>7, <1>8

LEMMA ReadGets ==
    ASSUME IndInv, IndInv', ReadByte
    PROVE  Contents # <<>> /\ Contents' = Tail(Contents)
<1> DEFINE b == read + lost
           c == Count
<1>0. fifo = "live" /\ fifo' = "live"
  BY DEF IndInv, TypeOK, LifeCycle, ReadByte, Runs
<1>1. /\ Contents = Window(b, c) /\ b \in Nat /\ c \in 0..(Size - 1)
      /\ Contents' = Window(read' + lost', Count')
  BY <1>0, ContentsWindow, ContentsWindowNext
<1>2. TypeOK /\ FullIsFull
  BY DEF IndInv
<1>3. c > 0 /\ Count' = c - 1 /\ read' + lost' = b + 1
  <2>1. c > 0
    BY <1>1, <1>2, SizeAssumption DEF ReadByte, Empty, FullIsFull, TypeOK, Count
  <2> QED BY <2>1, <1>2, SizeAssumption DEF TypeOK, ReadByte, NextIndex, Count
<1>4. Len(Window(b, c)) = c /\ c \in Nat
  BY <1>1, WindowSeq, SizeAssumption
<1>5. Window(b, c) # <<>>
  BY <1>3, <1>4
<1> QED BY <1>1, <1>2, <1>3, <1>4, <1>5, WindowTail

LEMMA OthersKeep ==
    ASSUME IndInv, IndInv', [Next]_vars, ~StoreByte, ~ReadByte
    PROVE  \/ Contents' = Contents /\ (fifo' = "live" <=> fifo = "live")
           \/ Contents' = <<>> /\ fifo = "live" /\ fifo' # "live"
           \/ Contents' = <<>> /\ fifo # "live" /\ fifo' = "live"
<1>1. CASE UNCHANGED ring /\ fifo' = fifo
  <2>1. Contents' = Contents
    BY <1>1 DEF Contents, Count, Slot, ring
  <2> QED BY <1>1, <2>1
<1>2. CASE fifo' # "live"
  <2>1. Contents' = <<>>
    BY <1>2 DEF Contents
  <2>2. fifo # "live" => Contents = <<>>
    BY DEF Contents
  <2> QED BY <1>2, <2>1, <2>2
<1>3. CASE OpenFifo
  <2>1. Count' = 0
    BY <1>3 DEF OpenFifo, Count
  <2>2. Contents' = Window(read' + lost', 0)
    BY <1>3, <2>1, ContentsWindowNext DEF OpenFifo
  <2>3. Contents' = <<>>
    BY <2>2 DEF Window
  <2>4. fifo # "live" /\ fifo' = "live"
    BY <1>3 DEF IndInv, LifeCycle, OpenFifo, Runs
  <2> QED BY <2>3, <2>4
<1>4. \/ UNCHANGED ring /\ fifo' = fifo
      \/ fifo' # "live"
      \/ OpenFifo
  BY DEF Next, Serial, Session, Reading, Deliver, Notify, OpenFlag, CloseFree, CloseNull,
         CloseFlag, Ask, ReadDone, ReadEmpty, Take, Timeout, vars, ring
<1> QED BY <1>1, <1>2, <1>3, <1>4
----------------------------------------------------------------------------
(* IndInv is an invariant of the device and its two threads.               *)
THEOREM FifoInvariance == Spec => []IndInv
<1>1. Init => IndInv
  BY InitInv
<1>2. IndInv /\ [Next]_vars => IndInv'
  BY QuietSteps, StoreStep, ReadStep, OpenStep DEF Next, Serial, Session, Reading
<1> QED BY <1>1, <1>2, PTL DEF Spec

(* The ring buffer implements the queue that gives up its oldest byte.     *)
THEOREM FifoIsQueue == Spec => ImplementsQueue
<1>1. Init => Queue!Init
  BY DEF Init, Queue!Init, Contents
<1>2. IndInv /\ IndInv' /\ [Next]_vars => [Queue!Next]_<<fifo = "live", Contents>>
  <2> SUFFICES ASSUME IndInv, IndInv', [Next]_vars
               PROVE  \/ Queue!Next
                      \/ (fifo' = "live" <=> fifo = "live") /\ Contents' = Contents
    BY Zenon
  <2>1. CASE StoreByte
    <3>1. rcvd + 1 \in 1..MaxBytes /\ fifo = "live" /\ fifo' = "live"
      BY <2>1, LineAssumption DEF IndInv, LifeCycle, TypeOK, StoreByte, Storing
    <3>2. Queue!Put(rcvd + 1)
      BY <2>1, <3>1, StorePuts DEF Queue!Put
    <3> QED BY <3>1, <3>2 DEF Queue!Next
  <2>2. CASE ReadByte
    <3>1. fifo = "live" /\ fifo' = "live"
      BY <2>2 DEF IndInv, TypeOK, LifeCycle, ReadByte, Runs
    <3>2. Queue!Get
      BY <2>2, <3>1, ReadGets DEF Queue!Get
    <3> QED BY <3>2 DEF Queue!Next
  <2>3. CASE ~StoreByte /\ ~ReadByte
    BY <2>3, OthersKeep DEF Queue!Next, Queue!Open, Queue!Close
  <2> QED BY <2>1, <2>2, <2>3
<1> QED BY <1>1, <1>2, FifoInvariance, PTL DEF Spec, ImplementsQueue, Queue!Spec

(* The indices of the FIFO stay inside its buffer.                         *)
THEOREM FifoTypeCorrect == Spec => []TypeOK
<1>1. IndInv => TypeOK
  BY DEF IndInv
<1> QED BY <1>1, FifoInvariance, PTL

(* No byte is skipped, seen twice or read early, in a FIFO of any size.    *)
THEOREM BytesAccounted == Spec => []Accounted
<1>1. IndInv => Accounted
  BY DEF IndInv
<1> QED BY <1>1, FifoInvariance, PTL

(* is_full never makes a reader take a byte from an empty FIFO.            *)
THEOREM FullFlagSound == Spec => []FullIsFull
<1>1. IndInv => FullIsFull
  BY DEF IndInv
<1> QED BY <1>1, FifoInvariance, PTL

(* rt_sem_take never puts the session to sleep on bytes that have come.    *)
THEOREM WakeupKept == Spec => []NoLostWakeup
<1>1. IndInv => NoLostWakeup
  BY DEF IndInv
<1> QED BY <1>1, FifoInvariance, PTL

(* No thread's FIFO is freed while it works on it, whatever the other does. *)
THEOREM NoUseAfterFree == Spec => []InUseIsLive
<1>1. IndInv => InUseIsLive
  BY DEF IndInv, LifeCycle, TypeOK, InUseIsLive
<1> QED BY <1>1, FifoInvariance, PTL
=============================================================================
