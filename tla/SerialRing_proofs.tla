--------------------------- MODULE SerialRing_proofs ---------------------------
(***************************************************************************)
(* The ring between the DMA and the serial thread: for every size of it,   *)
(* and however late the three interrupts are, the bytes that have come are *)
(* what the thread holds, then what is counted in the ring, then what the  *)
(* DMA has put behind that.                                                *)
(***************************************************************************)
EXTENDS SerialLine_proofs, DivisionLemmas

\* The queue has room for the messages of the bytes that come while the
\* thread is behind, and of three interrupts that were late.
Unhurried == QueueSize >= Lag + 2 /\ QueueSize >= 4

Filled    == Received(put_index, get_index, is_full)
Uncounted == IF dma >= last_index THEN dma - last_index ELSE dma - last_index + Ring

\* Where in the ring the byte is that came k bytes before the last one, if
\* the DMA goes on at end.
Behind(end, k) == IF k < end THEN end - 1 - k ELSE end - 1 - k + Ring

One(flag) == IF flag THEN 1 ELSE 0
Ups(a, b, c, d) == One(a) + One(b) + One(c) + One(d)

Typed == /\ BytesInv /\ events \in 0..MaxEvents
         /\ {quiet, ht, tc, idle, is_full, overrun, phantom} \subseteq BOOLEAN
         /\ queue \in Seq(1..Ring) /\ pc \in {"wait", "unpack"}
         /\ uart_mode \in {"cmd", "ymodem"} /\ coming \in Seq(Bytes)

\* Messages tell at least what is there to read, the last one of them all.
Told == /\ put_index = last_index
        /\ is_full => put_index = get_index
        /\ IF queue = <<>> THEN Filled = 0 ELSE Filled <= queue[Len(queue)]
        /\ pc = "wait" => rx_buffer = <<>>

\* What is not counted yet has an interrupt to come.
Noticed == /\ dma < last_index => tc /\ (dma # 0 => queue = <<>>)
           /\ dma # last_index => ~quiet \/ idle
           /\ Sound /\ ht => dma # last_index
           /\ Len(queue) + Ups(ht, tc, idle, ~quiet) <= QueueSize

InRing == /\ Filled + Uncounted <= Ring
          /\ Len(coming) = Len(rx_buffer) + Filled + Uncounted
          /\ \A i \in 1..Len(rx_buffer) : coming[i] = rx_buffer[i]
          /\ \A k \in 0..(Filled + Uncounted - 1) : coming[Len(coming) - k] = buffer[Behind(dma, k)]

RingInv == Typed /\ Told /\ Noticed /\ IF Sound THEN InRing ELSE coming = <<>>

LEMMA Wraps ==
    ASSUME NEW a \in (-Ring)..(2 * Ring - 1)
    PROVE  a % Ring = IF a < 0 THEN a + Ring ELSE IF a < Ring THEN a ELSE a - Ring
<1>1. Ring \in Nat \ {0}
  BY RingAssumption
<1>2. CASE a < 0
  <2>1. a + Ring \in 0..(Ring - 1) /\ Ring * (-1) + (a + Ring) = a
    BY <1>1, <1>2
  <2>2. (Ring * (-1) + (a + Ring)) % Ring = a + Ring
    BY <1>1, <2>1, Remainder
  <2> QED BY <1>2, <2>1, <2>2
<1>3. CASE a >= Ring
  <2>1. a - Ring \in 0..(Ring - 1) /\ Ring * 1 + (a - Ring) = a
    BY <1>1, <1>3
  <2>2. (Ring * 1 + (a - Ring)) % Ring = a - Ring
    BY <1>1, <2>1, Remainder
  <2> QED BY <1>1, <1>3, <2>1, <2>2
<1>4. CASE a \in 0..(Ring - 1)
  BY <1>1, <1>4, SmallMod
<1> QED BY <1>1, <1>2, <1>3, <1>4

LEMMA ReceivedIs ==
    ASSUME NEW p \in 0..(Ring - 1), NEW g \in 0..(Ring - 1), NEW f
    PROVE  /\ Received(p, g, f) = IF p = g THEN IF f THEN Ring ELSE 0
                                  ELSE IF p > g THEN p - g ELSE p - g + Ring
           /\ Received(p, g, f) \in 0..Ring
<1>1. Ring \in Nat /\ p \in Nat /\ g \in Nat /\ p < Ring /\ g < Ring
  BY RingAssumption
<1>2. p - g \in (-Ring)..(2 * Ring - 1)
  BY <1>1
<1>3. (p - g) % Ring = IF p - g < 0 THEN p - g + Ring ELSE IF p - g < Ring THEN p - g ELSE p - g - Ring
  BY <1>2, Wraps
<1> QED BY <1>1, <1>3 DEF Received

LEMMA Indices ==
    ASSUME Typed
    PROVE  /\ Ring \in Nat /\ Ring > 1 /\ Ring < 65536
           /\ dma \in Nat /\ dma < Ring /\ last_index \in Nat /\ last_index < Ring
           /\ put_index \in Nat /\ put_index < Ring /\ get_index \in Nat /\ get_index < Ring
           /\ Uncounted \in 0..(Ring - 1)
           /\ Filled = IF put_index = get_index THEN IF is_full THEN Ring ELSE 0
                       ELSE IF put_index > get_index THEN put_index - get_index
                       ELSE put_index - get_index + Ring
           /\ Filled \in 0..Ring
<1>1. Ring \in Nat /\ Ring > 1 /\ Ring < 65536
      /\ {dma, last_index, put_index, get_index} \subseteq 0..(Ring - 1)
  BY RingAssumption DEF Typed, BytesInv
<1>2. put_index \in 0..(Ring - 1) /\ get_index \in 0..(Ring - 1)
  BY <1>1
<1>3. /\ Filled = IF put_index = get_index THEN IF is_full THEN Ring ELSE 0
                  ELSE IF put_index > get_index THEN put_index - get_index
                  ELSE put_index - get_index + Ring
      /\ Filled \in 0..Ring
  BY <1>2, ReceivedIs DEF Filled
<1> QED BY <1>1, <1>3 DEF Uncounted

----------------------------------------------------------------------------
(* An interrupt: what the ring holds after it.                             *)
Heard(len) == len = DmaLength \/ (len = dma - last_index /\ dma >= last_index)

LEMMA CountIs ==
    ASSUME Typed, Told, NEW len, Heard(len), len # 0, UpdatePutIndex(len)
    PROVE  LET end  == len = DmaLength /\ dma = 0
               full == \/ is_full
                       \/ get_index <= put_index /\ end /\ get_index = 0
                       \/ get_index > put_index /\ (end \/ dma >= get_index)
           IN  /\ put_index' = dma /\ is_full' = full
               /\ get_index' = IF full THEN dma ELSE get_index
<1> DEFINE sum == put_index + len
           raw == sum % 65536
           end == len = DmaLength /\ dma = 0
<1>1. /\ Ring \in Nat /\ Ring > 1 /\ Ring < 65536
      /\ dma \in Nat /\ dma < Ring /\ last_index \in Nat /\ last_index < Ring
      /\ get_index \in Nat /\ get_index < Ring
      /\ put_index = last_index
  BY Indices DEF Told
<1>2. sum = IF end THEN Ring ELSE dma
  BY <1>1 DEF Heard, DmaLength
<1>3. raw = sum /\ sum \in Nat
  <2>1. sum \in Nat /\ sum < 65536
    BY <1>1, <1>2
  <2> QED BY <2>1, SmallMod
<1>4. raw % Ring = dma
  <2>1. dma % Ring = dma /\ Ring % Ring = 0
    <3>1. dma \in (-Ring)..(2 * Ring - 1) /\ Ring \in (-Ring)..(2 * Ring - 1)
      BY <1>1
    <3>2. dma % Ring = dma
      BY <1>1, <3>1, Wraps
    <3>3. Ring % Ring = Ring - Ring
      BY <1>1, <3>1, Wraps
    <3> QED BY <1>1, <3>2, <3>3
  <2> QED BY <1>2, <1>3, <2>1
<1>5. /\ put_index' = raw % Ring
      /\ is_full' = (\/ is_full
                     \/ get_index <= put_index /\ raw >= Ring /\ raw % Ring >= get_index
                     \/ get_index > put_index  /\ raw >= get_index)
      /\ get_index' = IF is_full' THEN raw % Ring ELSE get_index
  BY DEF UpdatePutIndex
<1>6. raw = IF end THEN Ring ELSE dma
  BY <1>2, <1>3
<1> HIDE DEF raw, sum, end
<1>7. (raw >= Ring /\ dma >= get_index) <=> (end /\ get_index = 0)
  BY <1>1, <1>6 DEF end
<1>8. get_index <= Ring /\ (raw >= get_index <=> end \/ dma >= get_index)
  BY <1>1, <1>6 
<1>9. is_full' = (\/ is_full
                  \/ get_index <= put_index /\ end /\ get_index = 0
                  \/ get_index > put_index  /\ (end \/ dma >= get_index))
  BY <1>4, <1>5, <1>7, <1>8
<1> QED BY <1>4, <1>5, <1>9 DEF end

LEMMA CountRing ==
    ASSUME Typed, Told, Noticed, NEW len, Heard(len), Count(len)
    PROVE  /\ put_index' = dma /\ last_index' = dma /\ dma' = dma
           /\ get_index' \in 0..(Ring - 1) /\ is_full' \in BOOLEAN
           /\ is_full' => put_index' = get_index'
           /\ Filled' \in 0..Ring /\ Uncounted' = 0
           /\ IF len = 0 THEN queue' = queue /\ Filled' = Filled
              ELSE Filled' > 0 /\ queue' = IF Len(queue) < QueueSize THEN Append(queue, Filled')
                                           ELSE queue
           /\ Filled + Uncounted <= Ring /\ (len # 0 => ~(dma = 0 /\ last_index = 0))
                  => Filled' = Filled + Uncounted
<1>1. /\ Ring \in Nat /\ Ring > 1
      /\ dma \in Nat /\ dma < Ring /\ last_index \in Nat /\ last_index < Ring
      /\ get_index \in Nat /\ get_index < Ring /\ put_index = last_index
      /\ is_full \in BOOLEAN /\ (is_full => put_index = get_index)
      /\ Filled = IF put_index = get_index THEN IF is_full THEN Ring ELSE 0
                  ELSE IF put_index > get_index THEN put_index - get_index
                  ELSE put_index - get_index + Ring
      /\ Filled \in 0..Ring
  BY Indices DEF Told, Typed
<1>2. last_index' = dma /\ dma' = dma
  BY DEF Count, pcline
<1>3. Uncounted' = 0
  BY <1>1, <1>2 DEF Uncounted
<1>4. dma < last_index /\ dma # 0 => get_index = put_index /\ ~is_full
  BY <1>1, RingAssumption DEF Noticed, Told
<1>5. CASE len = 0
  <2>1. UNCHANGED <<put_index, get_index, is_full, queue>>
    BY <1>5 DEF Count, fifo
  <2>2. dma = last_index
    BY <1>1, <1>5 DEF Heard, DmaLength
  <2>3. Filled' = Filled
    BY <2>1 DEF Filled
  <2>4. Uncounted = 0
    BY <1>1, <2>2 DEF Uncounted
  <2> QED BY <1>1, <1>2, <1>3, <1>5, <2>1, <2>2, <2>3, <2>4
<1>6. CASE len # 0
  <2> DEFINE end  == len = DmaLength /\ dma = 0
             full == \/ is_full
                     \/ get_index <= put_index /\ end /\ get_index = 0
                     \/ get_index > put_index /\ (end \/ dma >= get_index)
  <2>1. put_index' = dma /\ is_full' = full /\ get_index' = IF full THEN dma ELSE get_index
    BY <1>6, CountIs DEF Count
  <2>2. queue' = IF Len(queue) < QueueSize THEN Append(queue, Filled') ELSE queue
    BY <1>6 DEF Count, Filled
  <2>3. end \/ dma > last_index \/ (dma < last_index /\ dma # 0)
    BY <1>1, <1>6 DEF Heard, DmaLength
  <2>e. end => dma = 0
    OBVIOUS
  <2> HIDE DEF end
  <2>4. get_index' \in 0..(Ring - 1) /\ is_full' \in BOOLEAN /\ put_index' \in 0..(Ring - 1)
    BY <1>1, <2>1
  <2>5. /\ Filled' = IF put_index' = get_index' THEN IF is_full' THEN Ring ELSE 0
                     ELSE IF put_index' > get_index' THEN put_index' - get_index'
                     ELSE put_index' - get_index' + Ring
        /\ Filled' \in 0..Ring
    BY <2>4, ReceivedIs DEF Filled
  <2>6. CASE full
    <3>1. put_index' = dma /\ get_index' = dma /\ is_full' = TRUE
      BY <2>1, <2>6
    <3>2. Filled' = Ring
      BY <2>5, <3>1
    <3>3. ASSUME Filled + Uncounted <= Ring, ~(dma = 0 /\ last_index = 0)
          PROVE  Filled + Uncounted = Ring
      <4>1. CASE is_full
        BY <1>1, <3>3, <4>1 DEF Uncounted
      <4>2. CASE ~is_full /\ get_index <= put_index /\ end /\ get_index = 0
        BY <1>1, <2>e, <3>3, <4>2 DEF Uncounted
      <4>3. CASE ~is_full /\ get_index > put_index /\ (end \/ dma >= get_index)
        BY <1>1, <2>e, <3>3, <4>3 DEF Uncounted
      <4> QED BY <1>1, <2>6, <4>1, <4>2, <4>3
    <3> QED BY <1>1, <1>2, <1>3, <1>6, <2>2, <2>4, <3>1, <3>2, <3>3
  <2>7. CASE ~full
    <3>1. put_index' = dma /\ get_index' = get_index /\ is_full' = FALSE /\ is_full = FALSE
      BY <1>1, <2>1, <2>7
    <3>2. /\ get_index <= put_index => ~end \/ get_index # 0
          /\ get_index > put_index => ~end /\ dma < get_index
      BY <1>1, <2>7
    <3>3. dma # get_index
      BY <1>1, <1>4, <2>3, <2>e, <3>2
    <3>4. Filled' > 0
      BY <1>1, <2>5, <3>1, <3>3
    <3>5. ASSUME Filled + Uncounted <= Ring, ~(dma = 0 /\ last_index = 0)
          PROVE  Filled' = Filled + Uncounted
      <4>1. Filled' = IF dma > get_index THEN dma - get_index ELSE dma - get_index + Ring
        BY <2>5, <3>1, <3>3
      <4>2. Filled = IF last_index = get_index THEN 0
                     ELSE IF last_index > get_index THEN last_index - get_index
                     ELSE last_index - get_index + Ring
        BY <1>1, <3>1
      <4>3. Uncounted = IF dma >= last_index THEN dma - last_index ELSE dma - last_index + Ring
        BY DEF Uncounted
      <4>4. last_index = put_index
        BY <1>1
      <4> HIDE DEF full
      <4> QED BY <1>1, <1>4, <2>3, <2>e, <3>2, <3>5, <4>1, <4>2, <4>3, <4>4
    <3> QED BY <1>1, <1>2, <1>3, <1>6, <2>2, <2>4, <2>5, <3>1, <3>4, <3>5
  <2> QED BY <2>6, <2>7
<1> QED BY <1>5, <1>6

(* Messages, and interrupts that may bring one more.                       *)
LEMMA UpsFacts ==
    ASSUME NEW a, NEW b, NEW c, NEW d
    PROVE  /\ Ups(a, b, c, d) \in 0..4
           /\ a \/ b \/ c \/ d => Ups(a, b, c, d) > 0
BY DEF Ups, One

LEMMA OneForOne ==
    ASSUME NEW m \in Int, NEW m1 \in Int, NEW u \in Int, NEW u1 \in Int, NEW q \in Int,
           m1 <= m + 1, u1 + 1 = u, m + u <= q
    PROVE  m1 + u1 <= q
OBVIOUS

LEMMA NoMore ==
    ASSUME NEW m \in Int, NEW m1 \in Int, NEW u \in Int, NEW u1 \in Int, NEW q \in Int,
           m1 <= m, u1 <= u, m + u <= q
    PROVE  m1 + u1 <= q
OBVIOUS

LEMMA CountStep ==
    ASSUME RingInv, Unhurried, HalfCplt \/ Cplt \/ UartIsr
    PROVE  RingInv'
<1>1. Typed /\ Told /\ Noticed /\ (IF Sound THEN InRing ELSE coming = <<>>)
  BY DEF RingInv
<1>2. PICK len : Heard(len) /\ Count(len) /\ (UartIsr => len = dma - last_index)
  <2>1. CASE (HalfCplt \/ Cplt) /\ ~UartIsr
    BY <2>1 DEF HalfCplt, Cplt, Heard
  <2>2. CASE UartIsr
    <3>1. dma >= last_index
      BY <1>1, <2>2, Indices DEF UartIsr, Noticed
    <3> QED BY <2>2, <3>1 DEF UartIsr, Heard
  <2> QED BY <2>1, <2>2
<1>3. BytesInv'
  BY <1>1, BytesStep DEF Next, Board, Typed
<1>4. /\ put_index' = dma /\ last_index' = dma /\ dma' = dma
      /\ is_full' \in BOOLEAN /\ (is_full' => put_index' = get_index')
      /\ Filled' \in 0..Ring /\ Uncounted' = 0
      /\ IF len = 0 THEN queue' = queue /\ Filled' = Filled
         ELSE Filled' > 0 /\ queue' = IF Len(queue) < QueueSize THEN Append(queue, Filled')
                                      ELSE queue
      /\ Filled + Uncounted <= Ring /\ (len # 0 => ~(dma = 0 /\ last_index = 0))
             => Filled' = Filled + Uncounted
  BY <1>1, <1>2, CountRing
<1>5. UNCHANGED <<todo, events, buffer, quiet, pc, rx_buffer, uart_mode, overrun>>
  BY <1>2 DEF Count, pcline
<1>6. \/ ht /\ ht' = FALSE /\ UNCHANGED <<tc, idle, phantom, coming>>
      \/ tc /\ ~ht /\ tc' = FALSE /\ UNCHANGED <<ht, idle>>
      \/ idle /\ ~ht /\ ~tc /\ idle' = FALSE /\ UNCHANGED <<ht, tc, phantom, coming>>
  BY DEF HalfCplt, Cplt, UartIsr
<1>s. /\ phantom' \in BOOLEAN /\ coming' \in {coming, <<>>}
      /\ Sound' => /\ Sound /\ coming' = coming
                   /\ len # 0 => ~(dma = 0 /\ last_index = 0)
      /\ ~Sound' => coming' = <<>>
  <2>1. CASE HalfCplt
    <3>1. UNCHANGED <<phantom, coming>> /\ ht
      BY <2>1 DEF HalfCplt
    <3> QED BY <1>1, <1>5, <3>1 DEF Sound, Noticed, Typed
  <2>2. CASE Cplt
    <3>1. CASE dma = 0 /\ last_index = 0
      BY <1>1, <1>5, <2>2, <3>1 DEF Cplt, Sound
    <3>2. CASE ~(dma = 0 /\ last_index = 0)
      <4>1. phantom' = phantom /\ coming' = IF phantom THEN <<>> ELSE coming
        BY <1>1, <2>2, <3>2 DEF Cplt, Typed
      <4> QED BY <1>1, <1>5, <3>2, <4>1 DEF Sound, Typed
    <3> QED BY <3>1, <3>2
  <2>3. CASE UartIsr
    <3>1. UNCHANGED <<phantom, coming>> /\ len = dma - last_index
      BY <1>2, <2>3 DEF UartIsr
    <3> QED BY <1>1, <1>5, <3>1 DEF Sound, Typed
  <2> QED BY <2>1, <2>2, <2>3
<1>7. Len(queue) < QueueSize
  <2>1. Ups(ht, tc, idle, ~quiet) \in 0..4 /\ Ups(ht, tc, idle, ~quiet) > 0
    BY <1>6, UpsFacts
  <2>2. Len(queue) + Ups(ht, tc, idle, ~quiet) <= QueueSize /\ Len(queue) \in Nat
    BY <1>1 DEF Noticed, Typed
  <2> QED BY <2>1, <2>2, RingAssumption
<1>8. queue' = IF len = 0 THEN queue ELSE Append(queue, Filled')
  BY <1>4, <1>7
<1>9. Typed'
  <2>1. queue' \in Seq(1..Ring)
    <3>1. queue \in Seq(1..Ring) /\ (len # 0 => Filled' \in 1..Ring)
      BY <1>1, <1>4, RingAssumption DEF Typed
    <3>2. len # 0 => Append(queue, Filled') \in Seq(1..Ring)
      BY <3>1, AppendProperties
    <3> QED BY <1>8, <3>1, <3>2
  <2>2. {quiet, ht, tc, idle, is_full, overrun, phantom}' \subseteq BOOLEAN
    <3>1. {ht', tc', idle'} \subseteq BOOLEAN
      BY <1>1, <1>6 DEF Typed
    <3> QED BY <1>1, <1>4, <1>5, <1>s, <3>1 DEF Typed
  <2>3. coming' \in Seq(Bytes)
    <3>1. coming \in Seq(Bytes) /\ <<>> \in Seq(Bytes)
      BY <1>1 DEF Typed
    <3> QED BY <1>s, <3>1
  <2> QED BY <1>1, <1>3, <1>5, <2>1, <2>2, <2>3 DEF Typed
<1>10. Told'
  <2>1. /\ put_index' = last_index' /\ (is_full' => put_index' = get_index')
        /\ pc' = "wait" => rx_buffer' = <<>>
    BY <1>1, <1>4, <1>5 DEF Told
  <2>2. CASE len = 0
    BY <1>1, <1>4, <2>1, <2>2 DEF Told
  <2>3. CASE len # 0
    <3>1. queue' = Append(queue, Filled') /\ queue \in Seq(1..Ring) /\ Filled' \in 0..Ring
      BY <1>1, <1>4, <1>8, <2>3 DEF Typed
    <3>2. queue' # <<>> /\ queue'[Len(queue')] = Filled'
      BY <3>1
    <3>3. Filled' <= queue'[Len(queue')]
      BY <3>1, <3>2, RingAssumption
    <3> QED BY <2>1, <3>2, <3>3 DEF Told
  <2> QED BY <2>2, <2>3
<1>11. Noticed'
  <2>1. dma' = last_index' /\ ~(dma' < last_index')
    BY <1>1, <1>4, Indices
  <2>2. Len(queue) \in Int /\ Len(queue') \in Int /\ Len(queue') <= Len(queue) + 1
    BY <1>1, <1>8 DEF Typed
  <2>3. Ups(ht', tc', idle', ~quiet') + 1 = Ups(ht, tc, idle, ~quiet)
    BY <1>5, <1>6 DEF Ups, One
  <2>4. Len(queue) + Ups(ht, tc, idle, ~quiet) <= QueueSize /\ QueueSize \in Int
    BY <1>1, RingAssumption DEF Noticed
  <2>5. Len(queue') + Ups(ht', tc', idle', ~quiet') <= QueueSize
    <3>1. Ups(ht, tc, idle, ~quiet) \in Int /\ Ups(ht', tc', idle', ~quiet') \in Int
      BY UpsFacts
    <3> QED BY <2>2, <2>3, <2>4, <3>1, OneForOne
  <2>6. ~(Sound' /\ ht')
    BY <1>1, <1>4, <1>5, <1>6 DEF Noticed, Sound
  <2> QED BY <2>1, <2>5, <2>6 DEF Noticed
<1>12. IF Sound' THEN InRing' ELSE coming' = <<>>
  <2>1. CASE ~Sound'
    BY <1>s, <2>1
  <2>2. CASE Sound'
    <3>1. Sound /\ InRing /\ coming' = coming /\ (len # 0 => ~(dma = 0 /\ last_index = 0))
      BY <1>1, <1>s, <2>2
    <3>3. Filled' = Filled + Uncounted /\ Filled' + Uncounted' = Filled + Uncounted
      BY <1>1, <1>4, <3>1, Indices DEF InRing
    <3>4. InRing'
      <4>2. rx_buffer' = rx_buffer /\ buffer' = buffer /\ coming' = coming /\ dma' = dma
        BY <1>4, <1>5, <3>1
      <4>3. {Filled, Uncounted, Filled', Uncounted', Len(rx_buffer)} \subseteq Int
        <5>1. rx_buffer \in Seq(Bytes)
          BY <1>1 DEF Typed, BytesInv
        <5>4. Filled \in 0..Ring /\ Uncounted \in 0..(Ring - 1) /\ Ring \in Int
          BY <1>1, Indices
        <5>2. Filled' = Filled + Uncounted /\ Uncounted' = 0
          BY <1>4, <3>3
        <5>3. Len(rx_buffer) \in Int /\ Filled \in Int /\ Uncounted \in Int
          BY <5>1, <5>4, LenProperties
        <5> QED BY <5>2, <5>3
      <4>4. Filled' + Uncounted' <= Ring /\ Len(coming') = Len(rx_buffer') + Filled' + Uncounted'
        <5>1. Filled + Uncounted <= Ring /\ Len(coming) = Len(rx_buffer) + Filled + Uncounted
          BY <3>1 DEF InRing
        <5>2. Len(coming') = Len(coming) /\ Len(rx_buffer') = Len(rx_buffer)
          BY <4>2
        <5>3. Len(rx_buffer) \in Int /\ Filled \in Int /\ Uncounted \in Int
          BY <4>3
        <5>4. Filled' = Filled + Uncounted /\ Uncounted' = 0 /\ Ring \in Int
          BY <1>4, <3>3, RingAssumption
        <5> QED BY <5>1, <5>2, <5>3, <5>4
      <4>5. \A k \in 0..(Filled' + Uncounted' - 1) :
                coming'[Len(coming') - k] = buffer'[Behind(dma', k)]
        <5> SUFFICES ASSUME NEW k \in 0..(Filled' + Uncounted' - 1)
                     PROVE  coming'[Len(coming') - k] = buffer'[Behind(dma', k)]
          OBVIOUS
        <5>1. k \in 0..(Filled + Uncounted - 1)
          BY <3>3, <4>3
        <5>2. coming[Len(coming) - k] = buffer[Behind(dma, k)]
          BY <3>1, <5>1 DEF InRing
        <5> QED BY <4>2, <5>2
      <4> QED BY <3>1, <4>2, <4>4, <4>5 DEF InRing
    <3> QED BY <2>2, <3>4
  <2> QED BY <2>1, <2>2
<1> QED BY <1>9, <1>10, <1>11, <1>12 DEF RingInv
----------------------------------------------------------------------------
(* A byte: it is the last one in the ring, and one more not counted.       *)
LEMMA DrainedRing ==
    ASSUME RingInv, Drained
    PROVE  InRing
<1>1. Typed /\ Told /\ Noticed /\ (IF Sound THEN InRing ELSE coming = <<>>)
  BY DEF RingInv
<1>2. Filled = 0 /\ dma = last_index /\ rx_buffer = <<>>
  BY <1>1 DEF Drained, Told, Noticed, Pending
<1>3. Uncounted = 0
  BY <1>1, <1>2, Indices DEF Uncounted
<1>4. CASE ~Sound
  <2>1. coming = <<>> /\ Len(coming) = 0 /\ Len(rx_buffer) = 0
    BY <1>1, <1>2, <1>4
  <2> QED BY <1>2, <1>3, <2>1, RingAssumption DEF InRing
<1> QED BY <1>1, <1>4

LEMMA NextPlace ==
    ASSUME Typed
    PROVE  (dma + 1) % Ring = IF dma + 1 = Ring THEN 0 ELSE dma + 1
<1>1. dma + 1 \in (-Ring)..(2 * Ring - 1) /\ dma \in Nat /\ dma < Ring /\ Ring \in Nat
  BY Indices
<1> QED BY <1>1, Wraps

LEMMA ReceiveNoticed ==
    ASSUME Typed, Told, Noticed, Unhurried, NEW d \in Bytes, Receive(d)
    PROVE  Noticed'
<1>1. /\ UNCHANGED <<idle, last_index, queue>> /\ quiet' = FALSE
      /\ dma' = IF dma + 1 = Ring THEN 0 ELSE dma + 1
      /\ ht' = (ht \/ dma' = Ring \div 2) /\ tc' = (tc \/ dma' = 0)
      /\ phantom' = FALSE
      /\ overrun' = (dma' = last_index \/ Len(coming) = Len(rx_buffer) + Ring)
      /\ Len(queue) <= IF Pending THEN 0 ELSE Lag
  BY NextPlace DEF Receive
<1>2. {ht, tc, idle} \subseteq BOOLEAN /\ Len(queue) \in Nat /\ queue \in Seq(1..Ring)
  BY DEF Typed
<1>3. tc => queue = <<>>
  BY <1>1, <1>2 DEF Pending
<1>4. dma' < last_index' => tc' /\ (dma' # 0 => queue' = <<>>)
  <2> SUFFICES ASSUME dma' < last_index' PROVE tc' /\ (dma' # 0 => queue' = <<>>)
    OBVIOUS
  <2>1. CASE dma' = 0
    BY <1>1, <2>1
  <2>2. CASE dma' # 0
    <3>1. dma' = dma + 1 /\ last_index' = last_index
      BY <1>1, <2>2
    <3>2. dma < last_index
      BY <3>1, Indices
    <3>3. tc
      BY <3>2 DEF Noticed
    <3> QED BY <1>1, <1>3, <3>3
  <2> QED BY <2>1, <2>2
<1>5. Sound' => dma' # last_index'
  BY <1>1 DEF Sound
<1>6. ~(dma' = Ring \div 2 /\ dma' = 0)
  <2>1. Ring \div 2 # 0
    BY RingAssumption, Division
  <2> QED BY <2>1
<1>7. Len(queue') + Ups(ht', tc', idle', ~quiet') <= QueueSize
  <2>1. Ups(ht', tc', idle', ~quiet') \in 0..4 /\ Len(queue') \in Nat /\ QueueSize \in Nat
    BY <1>1, <1>2, UpsFacts, RingAssumption
  <2>2. CASE Pending
    <3>1. Len(queue') <= 0 /\ 0 + 4 <= QueueSize /\ Ups(ht', tc', idle', ~quiet') <= 4
      BY <1>1, <1>2, <2>1, <2>2 DEF Unhurried
    <3> QED BY <2>1, <3>1, NoMore
  <2>3. CASE ~Pending
    <3>1. Ups(ht', tc', idle', ~quiet') <= 2
      BY <1>1, <1>2, <1>6, <2>3 DEF Ups, One, Pending
    <3>2. Len(queue') <= Lag /\ Lag + 2 <= QueueSize /\ Lag \in Nat
      BY <1>1, <1>2, <2>1, <2>3, LineAssumption DEF Unhurried
    <3> QED BY <2>1, <3>1, <3>2, NoMore
  <2> QED BY <2>2, <2>3
<1> QED BY <1>1, <1>4, <1>5, <1>7 DEF Noticed

LEMMA ReceiveRing ==
    ASSUME Typed, Told, InRing, NEW d \in Bytes, Receive(d), Sound'
    PROVE  InRing'
<1>1. /\ UNCHANGED <<last_index, put_index, get_index, is_full, rx_buffer>>
      /\ dma' = IF dma + 1 = Ring THEN 0 ELSE dma + 1
      /\ buffer' = [buffer EXCEPT ![dma] = d]
      /\ overrun' = (dma' = last_index \/ Len(coming) = Len(rx_buffer) + Ring)
      /\ coming' = IF overrun' THEN <<>> ELSE Append(coming, d)
      /\ pc = "wait"
  BY NextPlace DEF Receive, fifo
<1>2. dma' # last_index /\ Len(coming) # Len(rx_buffer) + Ring /\ coming' = Append(coming, d)
  BY <1>1 DEF Sound
<1>3. rx_buffer = <<>> /\ Len(rx_buffer) = 0
  BY <1>1 DEF Told
<1>4. /\ Ring \in Nat /\ dma \in Nat /\ dma < Ring /\ last_index \in Nat /\ last_index < Ring
      /\ Filled \in Nat /\ Uncounted \in Nat
  BY Indices
<1>5. Filled' = Filled
  BY <1>1 DEF Filled
<1>6. Uncounted' = Uncounted + 1
  BY <1>1, <1>2, <1>4 DEF Uncounted
<1> DEFINE T == Filled + Uncounted
<1>7. T \in Nat /\ T < Ring /\ Len(coming) = T /\ Filled' + Uncounted' = T + 1
  <2>1. Filled + Uncounted <= Ring /\ Len(coming) = Len(rx_buffer) + Filled + Uncounted
    BY DEF InRing
  <2> QED BY <1>2, <1>3, <1>4, <1>5, <1>6, <2>1
<1>8. /\ Len(coming') = T + 1 /\ coming'[T + 1] = d
      /\ \A i \in 1..T : coming'[i] = coming[i]
  <2>1. coming \in Seq(Bytes)
    BY DEF Typed
  <2> HIDE DEF T
  <2> QED BY <1>2, <1>7, <2>1
<1>9. ASSUME NEW k \in 0..T
      PROVE  coming'[T + 1 - k] = buffer'[Behind(dma', k)]
  <2>1. buffer \in [0..(Ring - 1) -> Bytes]
    BY DEF Typed, BytesInv
  <2>2. CASE k = 0
    <3>1. Behind(dma', k) = dma /\ T + 1 - k = T + 1
      BY <1>1, <1>4, <1>7, <2>2 DEF Behind
    <3>2. buffer'[dma] = d
      BY <1>1, <1>4, <2>1
    <3> QED BY <1>8, <3>1, <3>2
  <2>3. CASE k # 0
    <3>1. /\ Behind(dma', k) = Behind(dma, k - 1) /\ Behind(dma, k - 1) # dma
          /\ Behind(dma, k - 1) \in 0..(Ring - 1)
      BY <1>1, <1>4, <1>7, <2>3 DEF Behind
    <3>2. coming[Len(coming) - (k - 1)] = buffer[Behind(dma, k - 1)]
      <4>1. k - 1 \in 0..(Filled + Uncounted - 1)
        BY <1>4, <1>7, <2>3
      <4> QED BY <4>1 DEF InRing
    <3>3. Len(coming) - (k - 1) = T + 1 - k /\ T + 1 - k \in 1..T
      BY <1>7, <2>3
    <3> QED BY <1>1, <1>8, <2>1, <3>1, <3>2, <3>3
  <2> QED BY <2>2, <2>3
<1>10. \A k \in 0..(Filled' + Uncounted' - 1) :
          coming'[Len(coming') - k] = buffer'[Behind(dma', k)]
  <2> SUFFICES ASSUME NEW k \in 0..(Filled' + Uncounted' - 1)
               PROVE  coming'[Len(coming') - k] = buffer'[Behind(dma', k)]
    OBVIOUS
  <2>1. k \in 0..T
    BY <1>4, <1>5, <1>6, <1>7
  <2>2. coming'[T + 1 - k] = buffer'[Behind(dma', k)]
    BY <1>9, <2>1
  <2>3. Len(coming') = T + 1
    BY <1>8
  <2> HIDE DEF T
  <2> QED BY <1>7, <2>2, <2>3
<1>11. /\ Filled' + Uncounted' <= Ring
       /\ Len(coming') = Len(rx_buffer') + Filled' + Uncounted'
  BY <1>1, <1>3, <1>4, <1>5, <1>6, <1>7, <1>8
<1>12. \A i \in 1..Len(rx_buffer') : coming'[i] = rx_buffer'[i]
  BY <1>1, <1>3
<1> QED BY <1>10, <1>11, <1>12 DEF InRing

LEMMA ReceiveStep ==
    ASSUME RingInv, Unhurried, NEW d \in Bytes, Receive(d), BytesInv', events' \in 0..MaxEvents
    PROVE  RingInv'
<1>1. Typed /\ Told /\ Noticed /\ (IF Sound THEN InRing ELSE coming = <<>>)
  BY DEF RingInv
<1>2. InRing
  BY <1>1, DrainedRing DEF Receive
<1>3. UNCHANGED <<idle, last_index, put_index, get_index, is_full, queue, pc, rx_buffer, uart_mode>>
  BY DEF Receive, fifo
<1>4. Typed'
  <2>1. /\ ht' = (ht \/ dma' = Ring \div 2) /\ tc' = (tc \/ dma' = 0) /\ quiet' = FALSE
        /\ phantom' = FALSE
        /\ overrun' = (dma' = last_index \/ Len(coming) = Len(rx_buffer) + Ring)
        /\ coming' = IF overrun' THEN <<>> ELSE Append(coming, d)
    BY DEF Receive
  <2>2. coming' \in Seq(Bytes)
    <3>1. coming \in Seq(Bytes)
      BY <1>1 DEF Typed
    <3>2. Append(coming, d) \in Seq(Bytes) /\ <<>> \in Seq(Bytes)
      BY <3>1
    <3> QED BY <2>1, <3>2
  <2>3. {quiet', ht', tc', overrun', phantom'} \subseteq BOOLEAN
    BY <1>1, <2>1 DEF Typed
  <2> QED BY <1>1, <1>3, <2>2, <2>3 DEF Typed
<1>5. Told'
  BY <1>1, <1>3 DEF Told, Filled
<1>6. Noticed'
  BY <1>1, ReceiveNoticed
<1>7. Sound' => InRing'
  BY <1>1, <1>2, ReceiveRing
<1>8. ~Sound' => coming' = <<>>
  <2>1. phantom' = FALSE /\ coming' = IF overrun' THEN <<>> ELSE Append(coming, d)
    BY DEF Receive
  <2> QED BY <2>1 DEF Sound
<1> QED BY <1>4, <1>5, <1>6, <1>7, <1>8 DEF RingInv
----------------------------------------------------------------------------
(* The serial thread takes what is counted, and passes it on.              *)
LEMMA ReadTakes ==
    ASSUME Typed, Told, Read
    PROVE  LET n == Least(Head(queue), Filled) IN
           /\ n \in 0..Filled /\ (Filled > 0 => n > 0)
           /\ get_index' = IF get_index + n < Ring THEN get_index + n ELSE get_index + n - Ring
           /\ is_full' = FALSE /\ Filled' = Filled - n
           /\ Len(rx_buffer') = n
           /\ \A j \in 1..n : rx_buffer'[j] = buffer[(get_index + j - 1) % Ring]
<1> DEFINE n == Least(Head(queue), Filled)
<1>1. /\ Ring \in Nat /\ Ring > 1 /\ put_index \in Nat /\ put_index < Ring
      /\ get_index \in Nat /\ get_index < Ring /\ is_full \in BOOLEAN
      /\ Filled = IF put_index = get_index THEN IF is_full THEN Ring ELSE 0
                  ELSE IF put_index > get_index THEN put_index - get_index
                  ELSE put_index - get_index + Ring
      /\ Filled \in 0..Ring
      /\ is_full => put_index = get_index
  BY Indices DEF Typed, Told
<1>2. Head(queue) \in 1..Ring
  BY HeadTailProperties DEF Read, Typed
<1>3. n \in 0..Filled /\ (Filled > 0 => n > 0)
  BY <1>1, <1>2 DEF Least
<1>4. /\ rx_buffer' = [j \in 1..n |-> buffer[(get_index + j - 1) % Ring]]
      /\ get_index' = (get_index + n) % Ring /\ is_full' = (is_full /\ n = 0)
      /\ put_index' = put_index
  BY DEF Read, Filled
<1> HIDE DEF n
<1>5. get_index' = IF get_index + n < Ring THEN get_index + n ELSE get_index + n - Ring
  <2>1. get_index + n \in (-Ring)..(2 * Ring - 1)
    BY <1>1, <1>3
  <2>2. (get_index + n) % Ring = IF get_index + n < 0 THEN get_index + n + Ring
                                 ELSE IF get_index + n < Ring THEN get_index + n
                                 ELSE get_index + n - Ring
    BY <1>1, <1>3, <2>1, Wraps
  <2> QED BY <1>1, <1>3, <1>4, <2>2
<1>6. is_full' = FALSE
  <2>1. is_full => n > 0
    BY <1>1, <1>3
  <2>2. CASE is_full
    <3>1. ~(n = 0)
      BY <1>1, <1>3, <2>1, <2>2
    <3> QED BY <1>4, <3>1
  <2>3. CASE is_full = FALSE
    BY <1>4, <2>3
  <2> QED BY <1>1, <2>2, <2>3
<1>7. Filled' = Filled - n
  <2>1. put_index' \in 0..(Ring - 1) /\ get_index' \in 0..(Ring - 1)
    BY <1>1, <1>3, <1>4, <1>5
  <2>2. Filled' = IF put_index' = get_index' THEN IF is_full' THEN Ring ELSE 0
                  ELSE IF put_index' > get_index' THEN put_index' - get_index'
                  ELSE put_index' - get_index' + Ring
    BY <2>1, ReceivedIs DEF Filled
  <2>3. CASE Filled = 0
    BY <1>1, <1>3, <1>4, <1>5, <1>6, <2>2, <2>3
  <2>4. CASE Filled > 0
    BY <1>1, <1>3, <1>4, <1>5, <1>6, <2>2, <2>4
  <2> QED BY <1>1, <2>3, <2>4
<1>8. Len(rx_buffer') = n /\ \A j \in 1..n : rx_buffer'[j] = buffer[(get_index + j - 1) % Ring]
  BY <1>1, <1>3, <1>4
<1> QED BY <1>3, <1>5, <1>6, <1>7, <1>8 DEF n

LEMMA ReadStep ==
    ASSUME RingInv, Read
    PROVE  RingInv'
<1> DEFINE n == Least(Head(queue), Filled)
<1>1. Typed /\ Told /\ Noticed /\ (IF Sound THEN InRing ELSE coming = <<>>)
  BY DEF RingInv
<1>2. /\ n \in 0..Filled /\ (Filled > 0 => n > 0)
      /\ is_full' = FALSE /\ Filled' = Filled - n
      /\ Len(rx_buffer') = n
      /\ \A j \in 1..n : rx_buffer'[j] = buffer[(get_index + j - 1) % Ring]
  BY <1>1, ReadTakes
<1>3. n = Head(queue) \/ n = Filled
  BY DEF Least
<1> HIDE DEF n
<1>4. /\ UNCHANGED <<todo, events, buffer, dma, quiet, ht, tc, idle, last_index, put_index,
                     uart_mode, coming, overrun, phantom>>
      /\ pc = "wait" /\ pc' = "unpack" /\ queue # <<>> /\ queue' = Tail(queue)
  BY DEF Read, pcline, flags
<1>5. /\ queue \in Seq(1..Ring) /\ queue' \in Seq(1..Ring)
      /\ Len(queue') = Len(queue) - 1
      /\ \A i \in 1..Len(queue') : queue'[i] = queue[i + 1]
      /\ Head(queue) = queue[1] /\ Len(queue) \in Nat /\ Len(queue) > 0
  BY <1>1, <1>4, HeadTailProperties DEF Typed
<1>6. BytesInv'
  BY <1>1, ReadBytes DEF Typed
<1>7. Typed'
  BY <1>1, <1>2, <1>4, <1>5, <1>6 DEF Typed
<1>8. Filled \in Nat /\ Uncounted \in Nat /\ Uncounted' = Uncounted /\ Filled \in 0..Ring
  BY <1>1, <1>4, Indices DEF Uncounted
<1>9. Told'
  <2>1. Filled <= queue[Len(queue)]
    BY <1>1, <1>4 DEF Told
  <2>2. CASE queue' = <<>>
    <3>1. Len(queue) = 1 /\ Filled <= Head(queue) /\ Head(queue) \in Nat
      <4>1. Len(queue') = 0
        BY <2>2
      <4>2. Len(queue) = 1
        BY <1>5, <4>1
      <4>3. queue[1] \in 1..Ring
        <5>1. 1 \in 1..Len(queue)
          BY <4>2
        <5> QED BY <1>5, <5>1, ElementOfSeq
      <4> QED BY <1>5, <2>1, <4>2, <4>3, RingAssumption
    <3>2. Filled' = 0
      BY <1>2, <1>3, <1>8, <3>1
    <3> QED BY <1>1, <1>2, <1>4, <2>2, <3>2 DEF Told
  <2>3. CASE queue' # <<>>
    <3>1. queue'[Len(queue')] = queue[Len(queue)] /\ queue[Len(queue)] \in Nat
      <4>1. Len(queue') \in 1..Len(queue') /\ Len(queue') + 1 = Len(queue)
        BY <1>5, <2>3
      <4>2. Len(queue) \in 1..Len(queue)
        BY <1>5
      <4>3. queue[Len(queue)] \in 1..Ring
        BY <1>5, <4>2, ElementOfSeq
      <4>4. queue'[Len(queue')] = queue[Len(queue') + 1]
        BY <1>5, <4>1
      <4> QED BY <4>1, <4>3, <4>4, RingAssumption
    <3>2. Filled' <= queue'[Len(queue')]
      BY <1>2, <1>8, <2>1, <3>1
    <3> QED BY <1>1, <1>2, <1>4, <2>3, <3>2 DEF Told
  <2> QED BY <2>2, <2>3
<1>10. Noticed'
  <2>1. ~(dma < last_index)
    BY <1>1 DEF Read, Noticed, Pending
  <2>2. Len(queue') + Ups(ht', tc', idle', ~quiet') <= QueueSize
    <3>1. Ups(ht, tc, idle, ~quiet) \in Int
      BY UpsFacts
    <3>2. Ups(ht', tc', idle', ~quiet') = Ups(ht, tc, idle, ~quiet)
      BY <1>4
    <3>3. Len(queue) + Ups(ht, tc, idle, ~quiet) <= QueueSize
      BY <1>1 DEF Noticed
    <3>4. Len(queue') <= Len(queue) /\ Len(queue') \in Int /\ Len(queue) \in Int /\ QueueSize \in Int
      BY <1>5, RingAssumption
    <3>5. Ups(ht, tc, idle, ~quiet) <= Ups(ht, tc, idle, ~quiet)
      BY <3>1
    <3>6. Len(queue') + Ups(ht, tc, idle, ~quiet) <= QueueSize
      BY <3>1, <3>3, <3>4, <3>5, NoMore
    <3> QED BY <3>2, <3>6
  <2> QED BY <1>1, <1>4, <2>1, <2>2 DEF Noticed, Sound
<1>11. ASSUME Sound, InRing PROVE InRing'
  <2>1. rx_buffer = <<>> /\ Len(rx_buffer) = 0
    BY <1>1, <1>4 DEF Told
  <2> DEFINE T == Filled + Uncounted
  <2>2. T \in Nat /\ T <= Ring /\ Len(coming) = T
    BY <1>8, <1>11, <2>1, RingAssumption DEF InRing
  <2>3. Filled' + Uncounted' = T - n /\ n \in Nat /\ n <= T
    BY <1>2, <1>8
  <2>4. Filled' + Uncounted' <= Ring /\ Len(coming') = Len(rx_buffer') + Filled' + Uncounted'
    <3>1. /\ Len(rx_buffer') = n /\ Len(coming') = Filled + Uncounted
          /\ Filled + Uncounted <= Ring
      BY <1>2, <1>4, <2>2
    <3>2. Filled' = Filled - n /\ Uncounted' = Uncounted /\ n \in Nat /\ n <= Filled
      BY <1>2, <1>8
    <3> QED BY <1>8, <3>1, <3>2, RingAssumption
  <2>5. ASSUME NEW j \in 1..n PROVE coming'[j] = rx_buffer'[j]
    <3>1. rx_buffer'[j] = buffer[(get_index + j - 1) % Ring]
      BY <1>2
    <3>2. T - j \in 0..(T - 1) /\ T - (T - j) = j /\ j \in Nat /\ j > 0 /\ j <= Filled
      BY <1>2, <1>8, <2>2, <2>3
    <3>3. coming[j] = buffer[Behind(dma, T - j)]
      <4>1. T - j \in 0..(Filled + Uncounted - 1)
        BY <1>8, <3>2
      <4>2. coming[Len(coming) - (T - j)] = buffer[Behind(dma, T - j)]
        BY <1>11, <4>1 DEF InRing
      <4> HIDE DEF T
      <4> QED BY <2>2, <3>2, <4>2
    <3>4. (get_index + j - 1) % Ring = Behind(dma, T - j)
      <4>1. /\ Ring \in Nat /\ Ring > 1 /\ dma \in Nat /\ dma < Ring
            /\ last_index \in Nat /\ last_index < Ring /\ get_index \in Nat /\ get_index < Ring
            /\ put_index = last_index
            /\ Filled = IF put_index = get_index THEN IF is_full THEN Ring ELSE 0
                        ELSE IF put_index > get_index THEN put_index - get_index
                        ELSE put_index - get_index + Ring
        BY <1>1, Indices DEF Told
      <4>2. get_index + j - 1 \in (-Ring)..(2 * Ring - 1)
        BY <1>8, <3>2, <4>1
      <4>3. (get_index + j - 1) % Ring = IF get_index + j - 1 < Ring THEN get_index + j - 1
                                         ELSE get_index + j - 1 - Ring
        BY <3>2, <4>1, <4>2, Wraps
      <4> QED BY <1>8, <2>2, <3>2, <4>1, <4>3 DEF Behind, Uncounted
    <3> QED BY <1>4, <3>1, <3>3, <3>4
  <2>6. ASSUME NEW k \in 0..(Filled' + Uncounted' - 1)
        PROVE  coming'[Len(coming') - k] = buffer'[Behind(dma', k)]
    <3>1. k \in 0..(Filled + Uncounted - 1)
      BY <1>2, <1>8, <2>3
    <3> QED BY <1>4, <1>11, <3>1 DEF InRing
  <2> QED BY <1>2, <2>4, <2>5, <2>6 DEF InRing
<1>12. IF Sound' THEN InRing' ELSE coming' = <<>>
  BY <1>1, <1>4, <1>11 DEF Sound
<1> QED BY <1>7, <1>9, <1>10, <1>12 DEF RingInv

\* The first m bytes the thread holds have been passed on.
LEMMA PassedStep ==
    ASSUME RingInv, NEW m \in Nat, m > 0, m <= Len(rx_buffer), pc = "unpack",
           rx_buffer' = SubSeq(rx_buffer, m + 1, Len(rx_buffer)), Passed(m), BytesInv',
           UNCHANGED <<pcline, quiet, flags, last_index, fifo, queue, pc, uart_mode, overrun, phantom>>
    PROVE  RingInv'
<1>1. Typed /\ Told /\ Noticed /\ (IF Sound THEN InRing ELSE coming = <<>>)
  BY DEF RingInv
<1>2. /\ UNCHANGED <<todo, events, buffer, dma, quiet, ht, tc, idle, last_index, put_index,
                     get_index, is_full, queue, pc, uart_mode, overrun, phantom>>
      /\ Filled' = Filled /\ Uncounted' = Uncounted /\ (Sound' <=> Sound)
  BY DEF pcline, flags, fifo, Filled, Uncounted, Sound
<1>3. rx_buffer \in Seq(Bytes) /\ coming \in Seq(Bytes) /\ Filled \in Nat /\ Uncounted \in Nat
  <2>1. Filled \in 0..Ring /\ Uncounted \in 0..(Ring - 1)
    BY <1>1, Indices
  <2>2. Filled \in Nat /\ Uncounted \in Nat
    BY <2>1
  <2> QED BY <1>1, <2>2, Zenon DEF Typed, BytesInv
<1>4. /\ Len(rx_buffer') = Len(rx_buffer) - m
      /\ \A i \in 1..Len(rx_buffer') : rx_buffer'[i] = rx_buffer[i + m]
  BY <1>3
<1>5. ASSUME Sound, InRing
      PROVE  /\ coming' \in Seq(Bytes) /\ Len(coming') = Len(coming) - m
             /\ \A i \in 1..Len(coming') : coming'[i] = coming[i + m]
  <2>1. coming' = SubSeq(coming, m + 1, Len(coming))
    BY <1>5 DEF Passed
  <2>2. Len(coming) \in Nat /\ m <= Len(coming)
    <3>1. Len(coming) = Len(rx_buffer) + Filled + Uncounted
      BY <1>5 DEF InRing
    <3> QED BY <1>3, <3>1
  <2> QED BY <1>3, <2>1, <2>2
<1>6. ~Sound => coming' = coming
  BY DEF Passed
<1>7. coming' \in Seq(Bytes)
  BY <1>1, <1>3, <1>5, <1>6
<1>8. Typed' /\ Told' /\ Noticed'
  BY <1>1, <1>2, <1>7 DEF Typed, Told, Noticed
<1>9. ASSUME Sound, InRing PROVE InRing'
  <2>1. /\ Filled + Uncounted <= Ring /\ Len(coming) = Len(rx_buffer) + Filled + Uncounted
        /\ Len(coming') = Len(coming) - m
        /\ \A i \in 1..Len(coming') : coming'[i] = coming[i + m]
    BY <1>5, <1>9 DEF InRing
  <2>2. Len(coming') = Len(rx_buffer') + Filled' + Uncounted' /\ Filled' + Uncounted' <= Ring
    <3>1. Len(coming') = (Len(rx_buffer) + Filled + Uncounted) - m
      BY <2>1
    <3>2. Len(rx_buffer') = Len(rx_buffer) - m /\ Len(rx_buffer) \in Nat
      BY <1>3, <1>4
    <3>3. Filled' = Filled /\ Uncounted' = Uncounted /\ Filled + Uncounted <= Ring /\ m \in Nat
      BY <1>2, <2>1
    <3> QED BY <1>3, <3>1, <3>2, <3>3
  <2>3. ASSUME NEW i \in 1..Len(rx_buffer') PROVE coming'[i] = rx_buffer'[i]
    <3>1. i \in 1..Len(coming') /\ i + m \in 1..Len(rx_buffer)
      BY <1>2, <1>3, <1>4, <2>1, <2>2
    <3>2. coming[i + m] = rx_buffer[i + m]
      BY <1>9, <3>1 DEF InRing
    <3> QED BY <1>4, <2>1, <3>1, <3>2
  <2>4. ASSUME NEW k \in 0..(Filled' + Uncounted' - 1)
        PROVE  coming'[Len(coming') - k] = buffer'[Behind(dma', k)]
    <3>1. k \in 0..(Filled + Uncounted - 1)
      BY <1>2
    <3>2. coming[Len(coming) - k] = buffer[Behind(dma, k)]
      BY <1>9, <3>1 DEF InRing
    <3>3. Len(coming') - k \in 1..Len(coming') /\ Len(coming') - k + m = Len(coming) - k
      BY <1>2, <1>3, <1>4, <2>1, <2>2, <3>1
    <3> QED BY <1>2, <2>1, <3>2, <3>3
  <2> QED BY <2>2, <2>3, <2>4 DEF InRing
<1> QED BY <1>1, <1>2, <1>6, <1>8, <1>9 DEF RingInv
LEMMA UnpackRing ==
    ASSUME RingInv, Unpack \/ PassOn
    PROVE  RingInv'
<1>1. Typed
  BY DEF RingInv
<1>2. rx_buffer \in Seq(Bytes) /\ rx_buffer # <<>> /\ Len(rx_buffer) \in Nat /\ Len(rx_buffer) > 0
  BY <1>1 DEF Typed, BytesInv, Unpack, PassOn
<1>3. BytesInv'
  BY <1>1, BytesStep DEF Typed, Next, Board
<1>4. /\ pc = "unpack"
      /\ UNCHANGED <<pcline, quiet, flags, last_index, fifo, queue, pc, uart_mode, overrun, phantom>>
  BY DEF Unpack, PassOn
<1>5. CASE Unpack
  <2>1. rx_buffer' = SubSeq(rx_buffer, 1 + 1, Len(rx_buffer)) /\ Passed(1)
    BY <1>2, <1>5 DEF Unpack
  <2> QED BY <1>2, <1>3, <1>4, <2>1, PassedStep
<1>6. CASE PassOn
  <2>1. rx_buffer' = SubSeq(rx_buffer, Len(rx_buffer) + 1, Len(rx_buffer)) /\ Passed(Len(rx_buffer))
    BY <1>2, <1>6, SubSeqEmpty DEF PassOn
  <2> QED BY <1>2, <1>3, <1>4, <2>1, PassedStep
<1> QED BY <1>5, <1>6

(* What leaves ring and messages alone.                                    *)
LEMMA ElsewhereStep ==
    ASSUME RingInv, BytesInv', events' \in 0..MaxEvents,
           UNCHANGED <<buffer, dma, ht, tc, last_index, fifo, queue, rx_buffer, coming,
                       overrun, phantom>>,
           \/ UNCHANGED <<quiet, idle>>
           \/ ~quiet /\ quiet' = TRUE /\ idle' = TRUE,
           uart_mode' \in {"cmd", "ymodem"},
           pc' = pc \/ (pc' = "wait" /\ rx_buffer = <<>>)
    PROVE  RingInv'
<1>1. Typed /\ Told /\ Noticed /\ (IF Sound THEN InRing ELSE coming = <<>>)
  BY DEF RingInv
<1>2. /\ UNCHANGED <<put_index, get_index, is_full>>
      /\ Filled' = Filled /\ Uncounted' = Uncounted /\ (Sound' <=> Sound)
  BY DEF fifo, Filled, Uncounted, Sound
<1>3. Typed'
  BY <1>1, <1>2 DEF Typed
<1>4. Told'
  BY <1>1, <1>2 DEF Told
<1>5. Len(queue') + Ups(ht', tc', idle', ~quiet') <= QueueSize
  <2>1. Ups(ht', tc', idle', ~quiet') <= Ups(ht, tc, idle, ~quiet)
    BY DEF Ups, One
  <2>2. Ups(ht, tc, idle, ~quiet) \in Int /\ Ups(ht', tc', idle', ~quiet') \in Int
    BY UpsFacts
  <2>3. Len(queue) + Ups(ht, tc, idle, ~quiet) <= QueueSize
    BY <1>1 DEF Noticed
  <2>4. Len(queue) \in Int /\ queue' = queue /\ QueueSize \in Int /\ Len(queue) <= Len(queue)
    BY <1>1, RingAssumption DEF Typed
  <2> QED BY <2>1, <2>2, <2>3, <2>4, NoMore
<1>6. Noticed'
  BY <1>1, <1>2, <1>5 DEF Noticed
<1>7. IF Sound' THEN InRing' ELSE coming' = <<>>
  BY <1>1, <1>2 DEF InRing
<1> QED BY <1>3, <1>4, <1>6, <1>7 DEF RingInv

LEMMA RingStep ==
    ASSUME RingInv, Unhurried, [Next]_vars
    PROVE  RingInv'
<1>1. Typed /\ BytesInv /\ BytesInv'
  BY BytesStep DEF RingInv, Typed
<1>2. events \in 0..MaxEvents /\ uart_mode \in {"cmd", "ymodem"}
  BY <1>1 DEF Typed
<1>3. ASSUME NEW c \in Commands, Write(c) PROVE RingInv'
  BY <1>1, <1>2, <1>3, ElsewhereStep DEF Write, flags, above
<1>4. CASE Arrive
  <2>1. Head(todo) \in Bytes /\ Receive(Head(todo))
    BY <1>1, <1>4, HeadTailProperties DEF Arrive, BytesInv
  <2>2. events' \in 0..MaxEvents
    BY <1>2, <1>4, LineAssumption DEF Arrive, Receive
  <2> QED BY <1>1, <2>1, <2>2, ReceiveStep
<1>5. CASE BreakOff
  <2>1. events' \in 0..MaxEvents
    BY <1>2, <1>5, LineAssumption DEF BreakOff
  <2> QED BY <1>1, <1>2, <1>5, <2>1, ElsewhereStep DEF BreakOff, flags, above
<1>6. ASSUME NEW d \in Bytes, Noise(d) PROVE RingInv'
  <2>1. events' \in 0..MaxEvents
    BY <1>2, <1>6, LineAssumption DEF Noise
  <2> QED BY <1>1, <1>6, <2>1, ReceiveStep DEF Noise
<1>7. CASE LineIdle
  BY <1>1, <1>2, <1>7, ElsewhereStep DEF LineIdle, pcline, above
<1>8. CASE HalfCplt \/ Cplt \/ UartIsr
  BY <1>8, CountStep
<1>9. CASE Read
  BY <1>9, ReadStep
<1>10. CASE Unpack \/ PassOn
  BY <1>10, UnpackRing
<1>11. CASE Again
  BY <1>1, <1>2, <1>11, ElsewhereStep DEF Again, pcline, flags, above
<1>12. CASE Switch
  <2>1. events' \in 0..MaxEvents /\ uart_mode' \in {"cmd", "ymodem"}
    BY <1>2, <1>12, LineAssumption DEF Switch
  <2> QED BY <1>1, <1>12, <2>1, ElsewhereStep DEF Switch, flags
<1>13. CASE UNCHANGED vars
  BY <1>1, <1>2, <1>13, ElsewhereStep DEF vars, fifo
<1> QED BY <1>3, <1>4, <1>5, <1>6, <1>7, <1>8, <1>9, <1>10, <1>11, <1>12, <1>13 DEF Next, Board

LEMMA RingStart ==
    ASSUME Init, Unhurried
    PROVE  RingInv
<1>1. Ring \in Nat /\ Ring > 1 /\ QueueSize \in Nat /\ MaxEvents \in Nat /\ STX_L \in Bytes
  BY RingAssumption, LineAssumption, BytesAssumption
<1>2. Typed
  <2>1. BytesInv
    BY <1>1 DEF Init, BytesInv
  <2>2. queue \in Seq(1..Ring) /\ coming \in Seq(Bytes)
    BY DEF Init
  <2>3. {quiet, ht, tc, idle, is_full, overrun, phantom} \subseteq BOOLEAN
    BY DEF Init
  <2>4. events \in 0..MaxEvents
    BY <1>1 DEF Init
  <2>5. pc \in {"wait", "unpack"} /\ uart_mode \in {"cmd", "ymodem"}
    BY DEF Init
  <2> QED BY <2>1, <2>2, <2>3, <2>4, <2>5 DEF Typed
<1>3. Filled = 0
  BY DEF Init, Filled, Received
<1>4. Uncounted = 0
  BY <1>1 DEF Init, Uncounted
<1>5. Told
  BY <1>3 DEF Init, Told
<1>6. Noticed
  <2>1. Len(queue) = 0
    BY DEF Init
  <2> QED BY <1>1, <2>1 DEF Init, Noticed, Ups, One, Sound
<1>7. InRing
  <2>1. Len(coming) = 0 /\ Len(rx_buffer) = 0
    BY DEF Init
  <2> QED BY <1>1, <1>3, <1>4, <2>1 DEF InRing
<1>8. Sound
  BY DEF Init, Sound
<1> QED BY <1>2, <1>5, <1>6, <1>7, <1>8 DEF RingInv

LEMMA RingInvariance == Unhurried => (Spec => []RingInv)
<1> SUFFICES ASSUME Unhurried PROVE Spec => []RingInv
  OBVIOUS
<1>1. Init => RingInv
  BY RingStart
<1>2. RingInv /\ [Next]_vars => RingInv'
  BY RingStep
<1> QED BY <1>1, <1>2, PTL DEF Spec
----------------------------------------------------------------------------
(* No byte is passed on twice or out of its turn, and none is left out,    *)
(* unless the DMA has overrun the reader or the end of the transfer was    *)
(* counted twice.                                                          *)
THEOREM BytesInOrder == Unhurried => (Spec => []HandedInOrder)
<1> SUFFICES ASSUME Unhurried PROVE Spec => []HandedInOrder
  OBVIOUS
<1>1. RingInv => HandedInOrder
  <2> SUFFICES ASSUME RingInv, Sound
               PROVE  /\ Len(rx_buffer) <= Len(coming)
                      /\ rx_buffer = SubSeq(coming, 1, Len(rx_buffer))
    BY DEF HandedInOrder
  <2>1. Typed /\ InRing
    BY DEF RingInv
  <2>2. rx_buffer \in Seq(Bytes) /\ coming \in Seq(Bytes) /\ Filled \in Nat /\ Uncounted \in Nat
    BY <2>1, Indices DEF Typed, BytesInv
  <2>3. Len(coming) = Len(rx_buffer) + Filled + Uncounted
    BY <2>1 DEF InRing
  <2>4. Len(rx_buffer) <= Len(coming) /\ Len(rx_buffer) \in Nat /\ Len(coming) \in Nat
    BY <2>2, <2>3
  <2> DEFINE s == SubSeq(coming, 1, Len(rx_buffer))
  <2>5. s \in Seq(Bytes) /\ Len(s) = Len(rx_buffer) /\ \A i \in 1..Len(rx_buffer) : s[i] = coming[i]
    BY <2>2, <2>4
  <2>6. \A i \in 1..Len(rx_buffer) : s[i] = rx_buffer[i]
    BY <2>1, <2>5 DEF InRing
  <2> HIDE DEF s
  <2>7. s = rx_buffer
    BY <2>2, <2>5, <2>6, SeqEqual
  <2> QED BY <2>4, <2>7 DEF s
<1> QED BY <1>1, RingInvariance, PTL

(* When thread and interrupts have nothing left to do, the ring is empty:  *)
(* no message was too small or dropped, even after an overrun.             *)
THEOREM RingDrained == Unhurried => (Spec => []NothingLeftBehind)
<1> SUFFICES ASSUME Unhurried PROVE Spec => []NothingLeftBehind
  OBVIOUS
<1>1. RingInv => NothingLeftBehind
  <2> SUFFICES ASSUME RingInv, Drained
               PROVE  Filled = 0 /\ put_index = dma /\ coming = <<>>
    BY DEF NothingLeftBehind, Filled
  <2>1. Typed /\ Told /\ Noticed /\ InRing
    BY DrainedRing DEF RingInv
  <2>2. Filled = 0 /\ put_index = last_index /\ last_index = dma /\ rx_buffer = <<>>
    BY <2>1 DEF Drained, Told, Noticed, Pending
  <2>3. Uncounted = 0
    BY <2>1, <2>2, Indices DEF Uncounted
  <2>4. Len(coming) = 0 /\ coming \in Seq(Bytes)
    <3>1. Len(coming) = Len(rx_buffer) + Filled + Uncounted /\ Len(rx_buffer) = 0
      BY <2>1, <2>2 DEF InRing
    <3> QED BY <2>1, <2>2, <2>3, <3>1 DEF Typed
  <2> QED BY <2>2, <2>4
<1> QED BY <1>1, RingInvariance, PTL
----------------------------------------------------------------------------
\* The decoder never holds a whole body, and the history no more than asked.
DecoderTyped ==
    /\ packer \in Packer /\ called \in Seq(Bytes)
    /\ window \in Seq(Bytes) /\ Len(window) <= Body + 3
    /\ packer.state = 1 => Len(packer.data) < Body

LEMMA DecoderTypedStep ==
    ASSUME BytesInv, DecoderTyped, [Next]_vars
    PROVE  DecoderTyped'
<1>1. CASE Unpack
  <2> DEFINE d == Head(rx_buffer)
  <2>1. /\ packer' = Decoded(packer, d) /\ window' = LastOf(Append(window, d))
        /\ called' = IF Calls(packer, d) THEN Append(packer.data, d) ELSE <<>>
        /\ d \in Bytes
    BY <1>1 DEF Unpack, BytesInv
  <2> HIDE DEF d
  <2>2. /\ packer.head_flag \in 0..2 /\ packer.state \in 0..1 /\ packer.data \in Seq(Bytes)
        /\ packer.state = 1 => Len(packer.data) < Body
        /\ Body \in Nat /\ Body > 2
    BY BodyAssumption DEF DecoderTyped, Packer
  <2>3. /\ Append(packer.data, d) \in Seq(Bytes) /\ <<>> \in Seq(Bytes)
        /\ Len(Append(packer.data, d)) = Len(packer.data) + 1 /\ Len(packer.data) \in Nat
    BY <2>1, <2>2
  <2>4. packer' \in Packer
    BY <2>1, <2>2, <2>3 DEF Decoded, Packer
  <2>5. packer'.state = 1 => Len(packer'.data) < Body
    <3>1. /\ packer'.state = IF Opens(packer, d) THEN 1 ELSE IF Fills(packer, d) THEN 0 ELSE packer.state
          /\ packer'.data = IF Opens(packer, d) THEN <<>>
                            ELSE IF Stores(packer, d) THEN Append(packer.data, d) ELSE packer.data
      BY <2>1 DEF Decoded
    <3>2. Stores(packer, d) => packer.state = 1
      BY DEF Stores
    <3>3. Fills(packer, d) <=> Stores(packer, d) /\ Len(packer.data) + 1 = Body
      BY DEF Fills
    <3> QED BY <2>2, <2>3, <3>1, <3>2, <3>3
  <2>6. called' \in Seq(Bytes)
    BY <2>1, <2>3
  <2>7. window' \in Seq(Bytes) /\ Len(window') <= Body + 3
    <3>1. window \in Seq(Bytes) /\ Len(window) \in Nat /\ Len(window) <= Body + 3
      BY DEF DecoderTyped
    <3>2. /\ Append(window, d) \in Seq(Bytes) /\ Append(window, d) # <<>>
          /\ Len(Append(window, d)) = Len(window) + 1
      BY <2>1, <3>1
    <3>3. Tail(Append(window, d)) \in Seq(Bytes) /\ Len(Tail(Append(window, d))) = Len(window)
      BY <3>1, <3>2, HeadTailProperties
    <3> QED BY <2>1, <2>2, <3>1, <3>2, <3>3 DEF LastOf
  <2> QED BY <2>4, <2>5, <2>6, <2>7 DEF DecoderTyped
<1>2. CASE ~Unpack
  <2>1. UNCHANGED <<packer, called, window>>
    BY <1>2 DEF Next, Write, Arrive, BreakOff, Noise, Receive, LineIdle, Board, HalfCplt, Cplt,
       UartIsr, Count, Read, PassOn, Again, Switch, above, vars
  <2> QED BY <2>1 DEF DecoderTyped
<1> QED BY <1>1, <1>2

(* Indices stay in the ring, messages are of 1 to Ring bytes, and of a     *)
(* frame the decoder holds less than a whole body.                         *)
THEOREM LineTypeCorrect == Unhurried => (Spec => []TypeOK)
<1> SUFFICES ASSUME Unhurried PROVE Spec => []TypeOK
  OBVIOUS
<1>1. Init => DecoderTyped
  BY BodyAssumption DEF Init, DecoderTyped, Packer, Fresh
<1>2. RingInv /\ DecoderTyped /\ [Next]_vars => DecoderTyped'
  BY DecoderTypedStep DEF RingInv, Typed
<1>3. RingInv /\ DecoderTyped => TypeOK
  BY DEF RingInv, Typed, BytesInv, DecoderTyped, TypeOK
<1> QED BY <1>1, <1>2, <1>3, RingInvariance, PTL DEF Spec
===============================================================================
