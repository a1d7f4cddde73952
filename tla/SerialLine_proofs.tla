-------------------------- MODULE SerialLine_proofs --------------------------
(***************************************************************************)
(* The frame decoder finds every command that is whole: for every length   *)
(* of a body, every set of commands and every check, and whatever the line *)
(* and the ring have made of the bytes before.                             *)
(***************************************************************************)
EXTENDS SerialLine, SequenceTheorems, TLAPS

\* The window w ends with the header and the first k bytes of c.
Ends(w, c, k) ==
    /\ Len(w) >= k + 3
    /\ w[Len(w) - k - 2] = STX_L /\ w[Len(w) - k - 1] = STX_R /\ w[Len(w) - k] = STX_F
    /\ \A i \in 1..k : w[Len(w) - k + i] = c[i]

(* The decoder p is where the bytes w have brought it: one and two bytes   *)
(* into a header, or so many bytes into the body of a command.             *)
AfterL(p, w)  == Len(w) > 0 /\ w[Len(w)] = STX_L => p.head_flag = 1
AfterLR(p, w) == Len(w) > 1 /\ w[Len(w) - 1] = STX_L /\ w[Len(w)] = STX_R => p.head_flag = 2
InBody(p, w, c, k) ==
    Ends(w, c, k) =>
        /\ p.state = 1 /\ p.data = SubSeq(c, 1, k)
        /\ p.head_flag = IF k > 0 /\ c[k] = STX_L THEN 1 ELSE 0
Follows(p, w) ==
    /\ w \in Seq(Bytes)
    /\ AfterL(p, w) /\ AfterLR(p, w)
    /\ \A c \in Commands : \A k \in 0..(Body - 1) : InBody(p, w, c, k)

DecoderInv == Follows(packer, window) /\ ResyncsAtOnce

LEMMA CommandFacts ==
    ASSUME NEW c \in Commands
    PROVE  /\ c \in Seq(Bytes) /\ Len(c) = Body
           /\ \A i \in 1..(Body - 1) : ~(c[i] = STX_L /\ c[i + 1] = STX_R)
           /\ Checked(c)
<1>1. c \in [1..Body -> Bytes] /\ Intact(c) /\ Checked(c)
  BY CommandAssumption
<1>2. c \in Seq(Bytes) /\ Len(c) = Body
  BY <1>1, BodyAssumption, SeqDef
<1> QED BY <1>1, <1>2 DEF Intact

\* v is w moved on by d: seen from its end, it is d and then w.
Moved(w, d, v) ==
    /\ v \in Seq(Bytes) /\ Len(v) > 0 /\ v[Len(v)] = d /\ Len(v) <= Len(w) + 1
    /\ \A j \in 1..(Len(v) - 1) : v[Len(v) - j] = w[Len(w) - j + 1]

LEMMA WindowMoves ==
    ASSUME NEW w \in Seq(Bytes), NEW d \in Bytes, NEW v, v = LastOf(Append(w, d))
    PROVE  Moved(w, d, v)
<1> DEFINE a == Append(w, d)
<1>1. /\ a \in Seq(Bytes) /\ Len(a) = Len(w) + 1 /\ a[Len(a)] = d
      /\ \A i \in 1..Len(w) : a[i] = w[i]
  OBVIOUS
<1> HIDE DEF a
<1>2. CASE v = a
  <2>1. v \in Seq(Bytes) /\ Len(v) = Len(w) + 1 /\ Len(w) \in Nat /\ v[Len(v)] = d
    BY <1>1, <1>2, LenProperties
  <2>2. ASSUME NEW j \in 1..(Len(v) - 1) PROVE v[Len(v) - j] = w[Len(w) - j + 1]
    <3>1. Len(v) - j \in 1..Len(w) /\ Len(v) - j = Len(w) - j + 1
      BY <2>1
    <3> QED BY <1>1, <1>2, <3>1
  <2> QED BY <2>1, <2>2 DEF Moved
<1>3. CASE v # a
  <2>1. v = Tail(a) /\ Len(a) > Body + 3
    BY <1>3 DEF LastOf, a
  <2>2. /\ v \in Seq(Bytes) /\ Len(v) = Len(a) - 1
        /\ \A i \in 1..Len(v) : v[i] = a[i + 1]
    BY <1>1, <2>1, BodyAssumption
  <2>3. Len(v) = Len(w) /\ Len(v) > 0
    BY <1>1, <2>1, <2>2, BodyAssumption
  <2>4. v[Len(v)] = d
    BY <1>1, <2>2, <2>3
  <2>5. ASSUME NEW j \in 1..(Len(v) - 1) PROVE v[Len(v) - j] = w[Len(w) - j + 1]
    <3>1. Len(v) - j \in 1..Len(v) /\ Len(v) - j + 1 \in 1..Len(w)
      BY <2>2, <2>3
    <3> QED BY <1>1, <2>2, <2>3, <3>1
  <2> QED BY <1>1, <2>2, <2>3, <2>4, <2>5 DEF Moved
<1> QED BY <1>2, <1>3

(* One byte back, a window in the body of c was so too.                    *)
LEMMA EndsBefore ==
    ASSUME NEW w \in Seq(Bytes), NEW v, NEW d, Moved(w, d, v),
           NEW c, NEW k \in Nat \ {0}, Ends(v, c, k)
    PROVE  Ends(w, c, k - 1) /\ d = c[k]
<1>1. /\ v \in Seq(Bytes) /\ Len(v) > 0 /\ v[Len(v)] = d /\ Len(v) <= Len(w) + 1
      /\ \A j \in 1..(Len(v) - 1) : v[Len(v) - j] = w[Len(w) - j + 1]
  BY DEF Moved
<1>2. Ends(v, c, k)
  OBVIOUS
<1>3. /\ Len(v) \in Nat /\ Len(w) \in Nat /\ Len(v) >= k + 3 /\ Len(w) >= (k - 1) + 3
      /\ k \in Nat /\ k > 0
  BY <1>1, <1>2 DEF Ends
<1>4. d = c[k]
  <2>1. Len(v) - k + k = Len(v) /\ k \in 1..k
    BY <1>3
  <2> QED BY <1>1, <1>2, <2>1 DEF Ends
<1>5. /\ w[Len(w) - (k - 1) - 2] = STX_L
      /\ w[Len(w) - (k - 1) - 1] = STX_R
      /\ w[Len(w) - (k - 1)] = STX_F
  <2>1. {k, k + 1, k + 2} \subseteq 1..(Len(v) - 1)
    BY <1>3
  <2>2. /\ v[Len(v) - k] = w[Len(w) - k + 1]
        /\ v[Len(v) - (k + 1)] = w[Len(w) - (k + 1) + 1]
        /\ v[Len(v) - (k + 2)] = w[Len(w) - (k + 2) + 1]
    BY <1>1, <2>1
  <2>3. /\ Len(v) - (k + 1) = Len(v) - k - 1 /\ Len(v) - (k + 2) = Len(v) - k - 2
        /\ Len(w) - k + 1 = Len(w) - (k - 1)
        /\ Len(w) - (k + 1) + 1 = Len(w) - (k - 1) - 1
        /\ Len(w) - (k + 2) + 1 = Len(w) - (k - 1) - 2
    BY <1>3
  <2> QED BY <1>2, <2>2, <2>3 DEF Ends
<1>6. ASSUME NEW i \in 1..(k - 1) PROVE w[Len(w) - (k - 1) + i] = c[i]
  <2>1. k - i \in 1..(Len(v) - 1) /\ i \in 1..k
    BY <1>3
  <2>2. v[Len(v) - (k - i)] = w[Len(w) - (k - i) + 1]
    BY <1>1, <2>1
  <2>3. /\ Len(v) - (k - i) = Len(v) - k + i
        /\ Len(w) - (k - i) + 1 = Len(w) - (k - 1) + i
    BY <1>3
  <2>4. v[Len(v) - k + i] = c[i]
    BY <1>2, <2>1 DEF Ends
  <2> QED BY <2>2, <2>3, <2>4
<1> QED BY <1>3, <1>4, <1>5, <1>6 DEF Ends

(* A byte of the body: it is stored, and the last one closes the body.     *)
LEMMA BodyByte ==
    ASSUME NEW p, NEW c \in Commands, NEW k \in 0..(Body - 1),
           p.state = 1, p.data = SubSeq(c, 1, k),
           p.head_flag = IF k > 0 /\ c[k] = STX_L THEN 1 ELSE 0
    PROVE  LET d == c[k + 1] IN
           /\ Stores(p, d) /\ ~Opens(p, d) /\ ~Skips(p, d)
           /\ Append(p.data, d) = SubSeq(c, 1, k + 1)
           /\ Fills(p, d) <=> k + 1 = Body
<1>1. /\ c \in Seq(Bytes) /\ Len(c) = Body /\ k \in Nat /\ Body \in Nat /\ k < Body
      /\ \A i \in 1..(Body - 1) : ~(c[i] = STX_L /\ c[i + 1] = STX_R)
  BY CommandFacts, BodyAssumption
<1>2. ~Opens(p, c[k + 1])
  BY DEF Opens
<1>3. ~Skips(p, c[k + 1])
  <2>1. k > 0 => k \in 1..(Body - 1)
    BY <1>1
  <2> QED BY <1>1, <2>1 DEF Skips
<1>4. Append(p.data, c[k + 1]) = SubSeq(c, 1, k + 1)
  BY <1>1, AppendProperties, SubSeqProperties
<1>5. Len(p.data) = k
  BY <1>1
<1> QED BY <1>1, <1>2, <1>3, <1>4, <1>5 DEF Stores, Fills

LEMMA DecoderFollows ==
    ASSUME NEW p, NEW w, NEW d \in Bytes, Follows(p, w),
           NEW v, Moved(w, d, v), NEW q, q = Decoded(p, d)
    PROVE  Follows(q, v)
<1>0. w \in Seq(Bytes) /\ Len(w) \in Nat /\ Len(v) \in Nat
  BY DEF Follows, Moved
<1>1. /\ v \in Seq(Bytes) /\ Len(v) > 0 /\ v[Len(v)] = d /\ Len(v) <= Len(w) + 1
      /\ \A j \in 1..(Len(v) - 1) : v[Len(v) - j] = w[Len(w) - j + 1]
  BY DEF Moved
<1>2. /\ q.head_flag = IF d = STX_L THEN 1 ELSE IF Skips(p, d) THEN 2 ELSE 0
      /\ q.state = IF Opens(p, d) THEN 1 ELSE IF Fills(p, d) THEN 0 ELSE p.state
      /\ q.data = IF Opens(p, d) THEN <<>> ELSE IF Stores(p, d) THEN Append(p.data, d) ELSE p.data
  BY DEF Decoded
<1>3. ASSUME NEW c \in Commands, NEW k \in 1..(Body - 1), Ends(v, c, k)
      PROVE  q.state = 1 /\ q.data = SubSeq(c, 1, k)
             /\ q.head_flag = IF k > 0 /\ c[k] = STX_L THEN 1 ELSE 0
  <2>1. k \in Nat \ {0} /\ k - 1 \in 0..(Body - 1) /\ (k - 1) + 1 = k /\ k # Body /\ k > 0
    BY BodyAssumption
  <2>2. Ends(w, c, k - 1) /\ d = c[k]
    BY <1>0, <1>3, <2>1, EndsBefore
  <2>3. InBody(p, w, c, k - 1)
    BY <2>1 DEF Follows
  <2>4. /\ Stores(p, d) /\ ~Opens(p, d) /\ ~Skips(p, d) /\ ~Fills(p, d)
        /\ Append(p.data, d) = SubSeq(c, 1, k) /\ p.state = 1
    BY <2>1, <2>2, <2>3, BodyByte DEF InBody
  <2> QED BY <1>2, <2>1, <2>2, <2>4
<1>5. AfterL(q, v)
  BY <1>1, <1>2 DEF AfterL
<1>6. AfterLR(q, v)
  <2> SUFFICES ASSUME Len(v) > 1, v[Len(v) - 1] = STX_L, v[Len(v)] = STX_R
               PROVE  q.head_flag = 2
    BY DEF AfterLR
  <2>1. Len(w) > 0 /\ w[Len(w)] = STX_L
    <3>1. 1 \in 1..(Len(v) - 1) /\ Len(w) - 1 + 1 = Len(w)
      BY <1>0
    <3> QED BY <1>0, <1>1, <3>1
  <2>2. p.head_flag = 1
    BY <2>1 DEF Follows, AfterL
  <2> QED BY <1>1, <1>2, <2>2, BytesAssumption DEF Skips
<1>7. ASSUME NEW c \in Commands, Ends(v, c, 0)
      PROVE  q.state = 1 /\ q.data = <<>> /\ q.head_flag = 0
  <2>1. /\ Len(v) >= 3 /\ v[Len(v) - 2] = STX_L /\ v[Len(v) - 1] = STX_R /\ d = STX_F
    BY <1>0, <1>1, <1>7 DEF Ends
  <2>2. Len(w) > 1 /\ w[Len(w) - 1] = STX_L /\ w[Len(w)] = STX_R
    <3>1. {1, 2} \subseteq 1..(Len(v) - 1) /\ Len(w) - 1 + 1 = Len(w) /\ Len(w) - 2 + 1 = Len(w) - 1
      BY <1>0, <2>1
    <3> QED BY <1>0, <1>1, <2>1, <3>1
  <2>3. p.head_flag = 2
    BY <2>2 DEF Follows, AfterLR
  <2> QED BY <1>2, <2>1, <2>3, BytesAssumption DEF Opens, Skips
<1>8. ASSUME NEW c \in Commands, NEW k \in 0..(Body - 1)
      PROVE  InBody(q, v, c, k)
  <2> SUFFICES ASSUME Ends(v, c, k)
               PROVE  q.state = 1 /\ q.data = SubSeq(c, 1, k)
                      /\ q.head_flag = IF k > 0 /\ c[k] = STX_L THEN 1 ELSE 0
    BY DEF InBody
  <2>1. CASE k = 0
    <3>1. SubSeq(c, 1, 0) = <<>> /\ ~(0 > 0)
      BY SubSeqEmpty
    <3>2. q.state = 1 /\ q.data = <<>> /\ q.head_flag = 0
      BY <1>7, <2>1
    <3> QED BY <2>1, <3>1, <3>2
  <2>2. CASE k # 0
    <3>1. k \in 1..(Body - 1)
      BY <2>2, BodyAssumption
    <3> QED BY <1>3, <3>1
  <2> QED BY <2>1, <2>2
<1> QED BY <1>1, <1>5, <1>6, <1>8 DEF Follows

(* With the last byte of a command the callback gets it.                   *)
LEMMA CommandCalls ==
    ASSUME NEW p, NEW w, NEW d \in Bytes, Follows(p, w),
           NEW c \in Commands, Moved(w, d, Header \o c)
    PROVE  Calls(p, d) /\ Append(p.data, d) = c
<1>1. /\ c \in Seq(Bytes) /\ Len(c) = Body /\ Checked(c) /\ Body \in Nat /\ Body > 2
      /\ w \in Seq(Bytes)
  BY CommandFacts, BodyAssumption DEF Follows
<1> DEFINE v == Header \o c
<1>2. /\ Len(v) = Body + 3 /\ v[1] = STX_L /\ v[2] = STX_R /\ v[3] = STX_F
      /\ \A i \in 1..Body : v[3 + i] = c[i]
  BY <1>1, BytesAssumption DEF Header
<1>3. Moved(w, d, v)
  OBVIOUS
<1> HIDE DEF v
<1>4. Ends(v, c, Body)
  <2>1. Len(v) - Body = 3 /\ Len(v) - Body - 1 = 2 /\ Len(v) - Body - 2 = 1
    BY <1>1, <1>2
  <2> QED BY <1>1, <1>2, <2>1 DEF Ends
<1>5. Body \in Nat \ {0} /\ Body - 1 \in 0..(Body - 1) /\ (Body - 1) + 1 = Body
  BY <1>1
<1>6. Ends(w, c, Body - 1) /\ d = c[Body]
  BY <1>1, <1>3, <1>4, <1>5, EndsBefore
<1>7. InBody(p, w, c, Body - 1)
  BY <1>5 DEF Follows
<1>8. Fills(p, d) /\ Append(p.data, d) = SubSeq(c, 1, Body)
  BY <1>5, <1>6, <1>7, BodyByte DEF InBody
<1>9. SubSeq(c, 1, Body) = c
  BY <1>1
<1> QED BY <1>1, <1>8, <1>9 DEF Calls
----------------------------------------------------------------------------
\* What the serial thread has read are bytes; the ring holds nothing else.
BytesInv == /\ todo \in Seq(Bytes)
            /\ buffer \in [0..(Ring - 1) -> Bytes]
            /\ {dma, last_index, put_index, get_index} \subseteq 0..(Ring - 1)
            /\ queue \in Seq(Nat)
            /\ rx_buffer \in Seq(Bytes)

LEMMA UnpackStep ==
    ASSUME BytesInv, DecoderInv, Unpack
    PROVE  DecoderInv'
<1> DEFINE d == Head(rx_buffer)
<1>1. /\ packer' = Decoded(packer, d) /\ window' = LastOf(Append(window, d))
      /\ called' = IF Calls(packer, d) THEN Append(packer.data, d) ELSE <<>>
      /\ d \in Bytes
  BY DEF Unpack, BytesInv
<1> HIDE DEF d
<1>2. Follows(packer, window) /\ window \in Seq(Bytes)
  BY DEF DecoderInv, Follows
<1>3. Moved(window, d, window')
  BY <1>1, <1>2, WindowMoves
<1>4. Follows(packer, window)'
  BY <1>1, <1>2, <1>3, DecoderFollows
<1>5. ASSUME NEW c \in Commands, window' = Header \o c PROVE called' = c
  BY <1>1, <1>2, <1>3, <1>5, CommandCalls
<1> QED BY <1>4, <1>5 DEF DecoderInv, ResyncsAtOnce
LEMMA RingIndex ==
    ASSUME NEW a \in Int
    PROVE  a % Ring \in 0..(Ring - 1) /\ a % 65536 \in Int
BY RingAssumption

LEMMA ReceivedNat ==
    ASSUME NEW p \in Int, NEW g \in Int, NEW full
    PROVE  Received(p, g, full) \in Nat
<1>1. (p - g) % Ring \in Nat
  BY RingIndex, RingAssumption
<1> QED BY <1>1, RingAssumption DEF Received

LEMMA CountBytes ==
    ASSUME BytesInv, NEW len \in Int, Count(len)
    PROVE  BytesInv'
<1>1. /\ UNCHANGED <<todo, buffer, dma, rx_buffer>> /\ last_index' = dma
  BY DEF Count, pcline
<1>2. {put_index', get_index'} \subseteq 0..(Ring - 1)
  <2>1. CASE len = 0
    BY <2>1 DEF Count, fifo, BytesInv
  <2>2. CASE len # 0
    <3> DEFINE raw == (put_index + len) % 65536
    <3>1. put_index + len \in Int
      BY RingAssumption DEF BytesInv
    <3>2. raw % Ring \in 0..(Ring - 1)
      BY <3>1, RingIndex
    <3>3. put_index' = raw % Ring /\ get_index' \in {raw % Ring, get_index}
      BY <2>2 DEF Count, UpdatePutIndex
    <3> HIDE DEF raw
    <3> QED BY <3>2, <3>3 DEF BytesInv
  <2> QED BY <2>1, <2>2
<1>3. queue' \in Seq(Nat)
  <2>1. put_index' \in Int /\ get_index' \in Int
    BY <1>2, RingAssumption
  <2>2. Received(put_index', get_index', is_full') \in Nat
    BY <2>1, ReceivedNat
  <2>3. queue' = queue \/ queue' = Append(queue, Received(put_index', get_index', is_full'))
    BY DEF Count
  <2>4. queue \in Seq(Nat)
    BY DEF BytesInv
  <2>5. CASE queue' = queue
    BY <2>4, <2>5
  <2>6. CASE queue' = Append(queue, Received(put_index', get_index', is_full'))
    BY <2>2, <2>4, <2>6, AppendProperties
  <2> QED BY <2>3, <2>5, <2>6
<1> QED BY <1>1, <1>2, <1>3 DEF BytesInv

LEMMA ReadBytes ==
    ASSUME BytesInv, Read
    PROVE  BytesInv'
<1> DEFINE n == Least(Head(queue), Received(put_index, get_index, is_full))
<1>1. n \in Nat /\ get_index \in Int /\ Tail(queue) \in Seq(Nat)
  <2>1. put_index \in Int /\ get_index \in Int
    BY RingAssumption DEF BytesInv
  <2>2. Received(put_index, get_index, is_full) \in Nat
    BY <2>1, ReceivedNat
  <2>3. Head(queue) \in Nat /\ Tail(queue) \in Seq(Nat)
    BY HeadTailProperties DEF Read, BytesInv
  <2> QED BY <2>1, <2>2, <2>3 DEF Least
<1>2. /\ rx_buffer' = [j \in 1..n |-> buffer[(get_index + j - 1) % Ring]]
      /\ get_index' = (get_index + n) % Ring /\ queue' = Tail(queue)
      /\ UNCHANGED <<todo, buffer, dma, last_index, put_index>>
  BY DEF Read, pcline
<1> HIDE DEF n
<1>3. rx_buffer' \in Seq(Bytes)
  <2>1. \A j \in 1..n : buffer[(get_index + j - 1) % Ring] \in Bytes
    <3> SUFFICES ASSUME NEW j \in 1..n PROVE buffer[(get_index + j - 1) % Ring] \in Bytes
      OBVIOUS
    <3>1. get_index + j - 1 \in Int
      BY <1>1
    <3>2. (get_index + j - 1) % Ring \in 0..(Ring - 1)
      BY <3>1, RingIndex
    <3> QED BY <3>2 DEF BytesInv
  <2>2. rx_buffer' \in [1..n -> Bytes]
    BY <1>2, <2>1
  <2> QED BY <1>1, <2>2, SeqDef
<1>4. get_index' \in 0..(Ring - 1)
  <2>1. get_index + n \in Int
    BY <1>1
  <2> QED BY <1>2, <2>1, RingIndex
<1> QED BY <1>1, <1>2, <1>3, <1>4 DEF BytesInv

LEMMA ReceiveBytes ==
    ASSUME BytesInv, NEW d \in Bytes, Receive(d), todo' \in Seq(Bytes)
    PROVE  BytesInv'
<1>1. (dma + 1) % Ring \in 0..(Ring - 1)
  <2>1. dma + 1 \in Int
    BY RingAssumption DEF BytesInv
  <2> QED BY <2>1, RingIndex
<1> QED BY <1>1 DEF Receive, BytesInv, fifo

LEMMA BytesStep ==
    ASSUME BytesInv, [Next]_vars
    PROVE  BytesInv'
<1>1. ASSUME NEW c \in Commands, Write(c) PROVE BytesInv'
  <2>1. Header \o c \in Seq(Bytes)
    BY CommandFacts, BytesAssumption DEF Header
  <2> QED BY <1>1, <2>1 DEF Write, BytesInv, fifo, above
<1>2. CASE Arrive
  <2>1. Head(todo) \in Bytes /\ Tail(todo) \in Seq(Bytes)
    BY <1>2, HeadTailProperties DEF Arrive, BytesInv
  <2> QED BY <1>2, <2>1, ReceiveBytes DEF Arrive
<1>3. CASE BreakOff
  BY <1>3 DEF BreakOff, BytesInv, fifo, above
<1>4. ASSUME NEW d \in Bytes, Noise(d) PROVE BytesInv'
  BY <1>4, ReceiveBytes DEF Noise, BytesInv
<1>5. CASE LineIdle
  BY <1>5 DEF LineIdle, BytesInv, pcline, fifo, above
<1>6. CASE HalfCplt \/ Cplt \/ UartIsr
  <2>1. DmaLength \in Int /\ dma - last_index \in Int
    BY RingAssumption DEF DmaLength, BytesInv
  <2> QED BY <1>6, <2>1, CountBytes DEF HalfCplt, Cplt, UartIsr
<1>7. CASE Read
  BY <1>7, ReadBytes
<1>8. CASE Unpack \/ PassOn
  <2>1. rx_buffer' = Tail(rx_buffer) \/ rx_buffer' = <<>>
    BY <1>8 DEF Unpack, PassOn
  <2>2. rx_buffer' \in Seq(Bytes)
    <3>1. rx_buffer \in Seq(Bytes) /\ rx_buffer # <<>>
      BY <1>8 DEF Unpack, PassOn, BytesInv
    <3>2. Tail(rx_buffer) \in Seq(Bytes) /\ <<>> \in Seq(Bytes)
      BY <3>1, HeadTailProperties
    <3> QED BY <2>1, <3>2
  <2> QED BY <1>8, <2>2 DEF Unpack, PassOn, BytesInv, pcline, fifo
<1>9. CASE Again \/ Switch
  BY <1>9 DEF Again, Switch, BytesInv, pcline, fifo, above
<1>10. CASE UNCHANGED vars
  BY <1>10 DEF vars, BytesInv
<1> QED BY <1>1, <1>2, <1>3, <1>4, <1>5, <1>6, <1>7, <1>8, <1>9, <1>10 DEF Next, Board

LEMMA DecoderStep ==
    ASSUME BytesInv, DecoderInv, [Next]_vars
    PROVE  DecoderInv'
<1>1. CASE Unpack
  BY <1>1, UnpackStep
<1>2. CASE ~Unpack
  <2>1. UNCHANGED <<packer, called, window>>
    BY <1>2 DEF Next, Write, Arrive, BreakOff, Noise, Receive, LineIdle, Board, HalfCplt, Cplt,
       UartIsr, Count, Read, PassOn, Again, Switch, above, vars
  <2> QED BY <2>1 DEF DecoderInv, ResyncsAtOnce
<1> QED BY <1>1, <1>2

(* Whatever has come before, lost, made up, broken off or swallowed by a   *)
(* YMODEM session, the decoder of upacker calls back with every command    *)
(* that reaches it whole.                                                  *)
THEOREM CommandsGetThrough == Spec => []ResyncsAtOnce
<1>1. Init => BytesInv /\ DecoderInv
  <2> SUFFICES ASSUME Init PROVE BytesInv /\ DecoderInv
    OBVIOUS
  <2>1. BytesInv
    BY RingAssumption, BytesAssumption DEF Init, BytesInv
  <2>2. window = <<>> /\ Len(window) = 0
    BY DEF Init
  <2>3. Follows(packer, window)
    BY <2>2 DEF Follows, AfterL, AfterLR, InBody, Ends
  <2>4. \A c \in Commands : window # Header \o c
    BY <2>2, CommandFacts, BytesAssumption, BodyAssumption DEF Header
  <2> QED BY <2>1, <2>3, <2>4 DEF DecoderInv, ResyncsAtOnce
<1>2. BytesInv /\ DecoderInv /\ [Next]_vars => (BytesInv /\ DecoderInv)'
  BY BytesStep, DecoderStep
<1>3. DecoderInv => ResyncsAtOnce
  BY DEF DecoderInv
<1> QED BY <1>1, <1>2, <1>3, PTL DEF Spec
=============================================================================
