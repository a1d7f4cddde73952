--------------------------- MODULE FotaCopy_proofs ---------------------------
(***************************************************************************)
(* Proofs about the copy loop: for every buffer, header and partition size *)
(* and every package, well placed or not.                    *)
(***************************************************************************)
EXTENDS FotaCopy, DivisionLemmas, TLAPS

(* One buffer further is again the end of a buffer.                        *)
LEMMA EdgeStep ==
    ASSUME NEW x \in Nat, BufEdge(x)
    PROVE  BufEdge(x + Buf)
<1>1. PICK m \in 0..x : x = m * Buf
  BY DEF BufEdge
<1>2. x + Buf = (m + 1) * Buf
  BY <1>1, SizeAssumption
<1>3. m + 1 \in 0..(x + Buf)
  BY SizeAssumption
<1> QED BY <1>2, <1>3 DEF BufEdge

LEMMA Wrap ==
    /\ Buf % Buf = 0
    /\ \A k \in Nat : k < Buf => k % Buf = k
BY SizeAssumption

(* What LayoutAssumption says of the package being installed.              *)
LEMMA LayoutFacts ==
    ASSUME pkg \in Layouts
    PROVE  /\ n \in Nat /\ n > 0 /\ Com \in Nat /\ Com > 0
           /\ pkg.plain \in BOOLEAN
           /\ \A b \in 1..(n + 1) : Start(b) \in Nat
           /\ \A b \in 1..n : End(b) = Start(b + 1)
           /\ Start(1) = 0 /\ Start(n + 1) = Com
           /\ \A b, c \in 1..(n + 1) : b < c => Start(b) < Start(c)
           /\ ~pkg.plain => \A b, c \in 1..(n + 1) : b < c => Start(b) + Hdr < Start(c)
           /\ pkg.plain => \A b \in 1..n :
                 IF b = n THEN Com <= Start(b) + Buf ELSE Start(b + 1) = Start(b) + Buf
<1> DEFINE len == Len(pkg.off)
<1>1. /\ pkg.plain \in BOOLEAN
      /\ pkg.off \in Seq(Nat) /\ len > 1 /\ pkg.off[1] = 0
      /\ \A b, c \in 1..len : b < c =>
            IF pkg.plain THEN pkg.off[b] < pkg.off[c] ELSE pkg.off[b] + Hdr < pkg.off[c]
      /\ pkg.plain => \A b \in 1..(len - 1) :
            IF b + 1 = len THEN pkg.off[b + 1] <= pkg.off[b] + Buf
                           ELSE pkg.off[b + 1] = pkg.off[b] + Buf
  BY LayoutAssumption
<1>2. len \in Nat /\ n = len - 1 /\ n + 1 = len
  BY <1>1 DEF n
<1>3. \A b \in 1..len : pkg.off[b] \in Nat
  BY <1>1
<1>4. n \in Nat /\ n > 0 /\ Com = pkg.off[len] /\ Com \in Nat
  BY <1>1, <1>2, <1>3 DEF Com
<1>5. \A b, c \in 1..(n + 1) : b < c => Start(b) < Start(c)
  <2> SUFFICES ASSUME NEW b \in 1..len, NEW c \in 1..len, b < c
               PROVE  pkg.off[b] < pkg.off[c]
    BY <1>2 DEF Start
  <2>1. IF pkg.plain THEN pkg.off[b] < pkg.off[c] ELSE pkg.off[b] + Hdr < pkg.off[c]
    BY <1>1
  <2>2. pkg.off[b] \in Nat /\ pkg.off[c] \in Nat
    BY <1>3
  <2> QED BY <2>1, <2>2, SizeAssumption
<1>6. Com > 0
  BY <1>1, <1>2, <1>4, <1>5 DEF Start
<1>7. pkg.plain => \A b \in 1..n :
          IF b = n THEN Com <= Start(b) + Buf ELSE Start(b + 1) = Start(b) + Buf
  BY <1>1, <1>2, <1>4 DEF Start
<1> QED BY <1>1, <1>2, <1>3, <1>4, <1>5, <1>6, <1>7 DEF Start, End, Com

(* Blocks do not overlap: only one starts at a place.                      *)
LEMMA OneBlock ==
    ASSUME pkg \in Layouts, NEW b \in 1..n, NEW c \in 1..(n + 1), Start(b) = Start(c)
    PROVE  b = c
BY LayoutFacts

(* On track and short of the end, the next header is that of the next      *)
(* block; at the end there is none.                                        *)
LEMMA NextBlock ==
    ASSUME pkg \in Layouts, TypeOK, OnTrack, ~pkg.plain
    PROVE  /\ Here < Com => Len(out) < n
           /\ Len(out) < n => BlockAt(Here) = {Len(out) + 1}
           /\ Len(out) = n => BlockAt(Here) = {} /\ Here = Com
<1>1. Len(out) \in Nat /\ Len(out) <= n /\ Here = Start(Len(out) + 1)
  BY DEF TypeOK, OnTrack
<1>2. n \in Nat /\ Com \in Nat /\ Start(n + 1) = Com
  BY LayoutFacts
<1>3. \A b \in 1..n : Start(b) = Here => b = Len(out) + 1
  BY <1>1, <1>2, OneBlock
<1>4. Len(out) < n => Len(out) + 1 \in 1..n
  BY <1>1, <1>2
<1>5. Here < Com => Len(out) < n
  BY <1>1, <1>2
<1> QED BY <1>1, <1>2, <1>3, <1>4, <1>5 DEF BlockAt

LEMMA InOrderNext ==
    ASSUME out \in Seq(0..n), InOrder, out' = Append(out, Len(out) + 1)
    PROVE  InOrder' /\ Len(out') = Len(out) + 1
<1>1. Len(out) \in Nat /\ Len(out') = Len(out) + 1
  OBVIOUS
<1>2. \A k \in 1..Len(out') : out'[k] = k
  BY <1>1 DEF InOrder
<1> QED BY <1>1, <1>2 DEF InOrder

(* The ways in which a block shows that its package is badly placed.       *)
LEMMA Misplaced ==
    ASSUME pkg \in Layouts, NEW b \in 1..n, NEW e \in Nat, BufEdge(e), e < Com,
           \/ ~FitsBuffer(b)
           \/ Start(b) + Hdr = e
           \/ Start(b) <= e /\ e < End(b) /\ End(b) > e + Buf
           \/ Start(b) < e /\ e < Start(b) + Hdr /\ End(b) >= e + Buf
    PROVE  ~WellPlaced
<1>1. e \in Edges
  BY LayoutFacts DEF Edges
<1>2. Start(b) \in Nat /\ End(b) \in Nat
  BY LayoutFacts
<1> QED BY <1>1, <1>2, SizeAssumption DEF WellPlaced

(* A step that leaves the package alone leaves its layout alone.           *)
LEMMA SameLayout ==
    ASSUME pkg' = pkg
    PROVE  /\ n' = n /\ Com' = Com
           /\ WellPlaced' <=> WellPlaced
           /\ \A b : Start(b)' = Start(b)
           /\ \A b : End(b)' = End(b)
BY DEF n, Com, WellPlaced, FitsBuffer, Edges, Start, End

LEMMA SameRepeats ==
    ASSUME pkg' = pkg
    PROVE  RepeatsOnlyFlush' <=>
             \A k \in 1..Len(out') : \A j \in 1..(k - 1) :
                out'[j] # Garbage /\ out'[k] # Garbage =>
                    \/ out'[j] < out'[k]
                    \/ out'[j] = out'[k] /\ k = j + 1 /\ FlushHeader(out'[j] + 1)
BY DEF RepeatsOnlyFlush, FlushHeader, Edges, Start, Com, n

(* What the invariant says of the positions, and what a refill adds.       *)
LEMMA LoopFacts ==
    ASSUME IndInv
    PROVE  /\ pkg \in Layouts /\ TypeOK /\ pkg.plain \in BOOLEAN
           /\ raw \in Nat /\ hdr \in 0..Buf /\ Here \in Int
           /\ out \in Seq(0..n) /\ Len(out) \in Nat
           /\ n \in Nat /\ Com \in Nat /\ Com > 0
           /\ Buf \in Nat /\ Hdr \in Nat /\ 0 < Hdr /\ Hdr < Buf
           /\ pc \notin {"verify", "rejected"} => BufEdge(raw)
           /\ BufEdge(raw) => BufEdge(raw + Buf)
<1>1. raw \in Nat /\ hdr \in 0..Buf /\ pkg \in Layouts /\ TypeOK /\ out \in Seq(0..n)
  BY DEF IndInv, TypeOK
<1>2. BufEdge(raw) => BufEdge(raw + Buf)
  BY <1>1, EdgeStep
<1>3. Here \in Int
  BY <1>1, SizeAssumption DEF Here
<1> QED BY <1>1, <1>2, <1>3, LayoutFacts, SizeAssumption DEF TypeOK

(* The type of a step that appends one piece, or none.                     *)
LEMMA TypeStep ==
    ASSUME IndInv, pkg' = pkg, hdr' \in 0..Buf, raw' \in Nat,
           pc' \in {"verify", "rejected", "loop", "check", "done", "failed", "error", "stray"},
           pc' \notin {"verify", "rejected"} => BufEdge(raw'),
           out' = out \/ \E c \in 0..n : out' = Append(out, c)
    PROVE  pkg' \in Layouts /\ TypeOK'
<1>1. n' = n /\ (BufEdge(raw)' <=> BufEdge(raw'))
  BY SameLayout DEF BufEdge
<1>2. out' \in Seq(0..n)
  <2>1. out \in Seq(0..n)
    BY LoopFacts
  <2>2. \A c \in 0..n : Append(out, c) \in Seq(0..n)
    BY <2>1
  <2> QED BY <2>1, <2>2
<1> QED BY <1>1, <1>2, LoopFacts DEF TypeOK
----------------------------------------------------------------------------
(* What a header leads to: a block if one starts there, and its end.       *)
LEMMA PieceAt ==
    ASSUME pkg \in Layouts, ~pkg.plain, NEW p \in Int,
           NEW e \in Ends(p), NEW c \in Pieces(p)
    PROVE  /\ e \in Int /\ p + Hdr < e
           /\ c \in 0..n
           /\ c # Garbage => c \in 1..n /\ Start(c) = p /\ End(c) = e
           /\ c = Garbage => BlockAt(p) = {}
<1>1. n \in Nat /\ Hdr \in Nat /\ Cap \in Nat
  BY LayoutFacts, SizeAssumption
<1>2. CASE BlockAt(p) = {}
  <2>1. c = Garbage /\ \E size \in 1..(Cap + 1) : e = p + Hdr + size
    BY <1>2 DEF Ends, Pieces
  <2> QED BY <1>1, <1>2, <2>1 DEF Garbage
<1>3. CASE BlockAt(p) # {}
  <2>1. c \in 1..n /\ Start(c) = p /\ \E b \in 1..n : Start(b) = p /\ e = End(b)
    BY <1>3 DEF Ends, Pieces, BlockAt
  <2>2. e = End(c)
    BY <1>1, <2>1, OneBlock
  <2>3. c \in 1..(n + 1) /\ c + 1 \in 1..(n + 1) /\ c < c + 1
    BY <1>1, <2>1
  <2>4. End(c) = Start(c + 1) /\ Start(c) + Hdr < Start(c + 1) /\ Start(c + 1) \in Nat
    BY <2>1, <2>3, LayoutFacts
  <2> QED BY <1>1, <2>1, <2>2, <2>4 DEF Garbage
<1> QED BY <1>2, <1>3

(* What the branches that decode have in common: e is where the block that *)
(* the header counts ends, c what it decodes to.  The next header is       *)
(* looked for at e, or at the start of the buffer when e is its end.       *)
Turn(e, c) ==
    /\ pc = "loop" /\ pc' = "loop" /\ ~pkg.plain /\ pkg' = pkg /\ raw < Com
    /\ e \in Ends(Here) /\ c \in Pieces(Here) /\ out' = Append(out, c)
    /\ raw' \in Nat /\ BufEdge(raw') /\ hdr' \in 0..Buf
    /\ raw' = raw \/ (raw' = raw + Buf /\ raw < e)
    /\ Here < Here' /\ Here' <= raw + Buf
    /\ Here' = e \/ (hdr' = 0 /\ Here < raw /\ raw < Here + Hdr /\ e = raw + Buf)

LEMMA Turns ==
    ASSUME IndInv, FirstInBuffer \/ InsideBuffer \/ CrossesBuffer \/ SplitHeader
    PROVE  \E e, c : Turn(e, c)
<1>1. /\ pc = "loop" /\ pc' = "loop" /\ ~pkg.plain /\ pkg' = pkg /\ raw < Com /\ Decode
  BY DEF FirstInBuffer, InsideBuffer, CrossesBuffer, SplitHeader, Packed, Looping
<1>2. PICK c \in Pieces(Here) : out' = Append(out, c)
  BY <1>1 DEF Decode
<1>3. /\ Here = raw - Buf + hdr /\ Here' = raw' - Buf + hdr'
      /\ raw \in Nat /\ hdr \in 0..Buf /\ Buf \in Nat /\ Hdr \in Nat /\ 0 < Hdr /\ Hdr < Buf
      /\ BufEdge(raw) /\ BufEdge(raw + Buf) /\ pkg \in Layouts /\ Here \in Int
  BY <1>1, LoopFacts DEF Here
<1>4. \A e \in Ends(Here) : e \in Int /\ Here + Hdr < e
  BY <1>1, <1>2, <1>3, PieceAt
<1>5. CASE FirstInBuffer
  <2>1. PICK e \in Ends(Here) : e <= raw + Buf /\ hdr' = e - raw
    BY <1>5 DEF FirstInBuffer, Holds
  <2>2. raw' = raw + Buf /\ Here = raw
    BY <1>3, <1>5 DEF FirstInBuffer, Refill
  <2>3. e \in Int /\ Here + Hdr < e
    BY <1>4
  <2>4. raw < e /\ hdr' \in 0..Buf /\ Here' = e /\ raw' \in Nat
    BY <1>3, <2>1, <2>2, <2>3
  <2> QED BY <1>1, <1>2, <1>3, <2>1, <2>2, <2>3, <2>4 DEF Turn
<1>6. CASE InsideBuffer
  <2>1. PICK e \in Ends(Here) : e <= raw /\ hdr' = e - raw + Buf
    BY <1>6 DEF InsideBuffer
  <2>2. raw' = raw
    BY <1>6 DEF InsideBuffer
  <2>3. e \in Int /\ Here + Hdr < e
    BY <1>4
  <2>4. hdr' \in 0..Buf /\ Here' = e /\ Here' <= raw + Buf
    BY <1>3, <2>1, <2>2, <2>3
  <2> QED BY <1>1, <1>2, <1>3, <2>1, <2>2, <2>3, <2>4 DEF Turn
<1>7. CASE CrossesBuffer
  <2>1. PICK e \in Ends(Here) : e > raw /\ e <= raw + Buf /\ hdr' = e - raw
    BY <1>7 DEF CrossesBuffer, Holds
  <2>2. raw' = raw + Buf
    BY <1>7 DEF CrossesBuffer, Refill
  <2>3. e \in Int /\ Here + Hdr < e
    BY <1>4
  <2>4. hdr' \in 0..Buf /\ Here' = e /\ raw' \in Nat
    BY <1>3, <2>1, <2>2, <2>3
  <2> QED BY <1>1, <1>2, <1>3, <2>1, <2>2, <2>3, <2>4 DEF Turn
<1>8. CASE SplitHeader
  <2>1. PICK e \in Ends(Here) : e <= raw + Buf /\ hdr' = (e - raw) % Buf
    BY <1>8 DEF SplitHeader, Holds
  <2>2. raw' = raw + Buf /\ Here < raw /\ raw < Here + Hdr /\ raw' \in Nat
    BY <1>3, <1>8 DEF SplitHeader, Refill
  <2>3. e \in Int /\ Here + Hdr < e /\ raw < e
    BY <1>3, <1>4, <2>2
  <2>4. CASE e < raw + Buf
    <3>1. e - raw \in Nat /\ e - raw < Buf
      BY <1>3, <2>3, <2>4
    <3>2. hdr' = e - raw
      BY <2>1, <3>1, Wrap
    <3>3. hdr' \in 0..Buf /\ Here' = e
      BY <1>3, <2>2, <2>3, <3>1, <3>2
    <3> QED BY <1>1, <1>2, <1>3, <2>1, <2>2, <2>3, <3>3 DEF Turn
  <2>5. CASE e = raw + Buf
    <3>1. e - raw = Buf
      BY <1>3, <2>5
    <3>2. hdr' = 0
      BY <2>1, <3>1, Wrap
    <3>3. Here' = raw /\ hdr' \in 0..Buf
      BY <1>3, <2>2, <3>2
    <3> QED BY <1>1, <1>2, <1>3, <2>2, <2>3, <2>5, <3>2, <3>3 DEF Turn
  <2> QED BY <1>3, <2>1, <2>3, <2>4, <2>5
<1> QED BY <1>5, <1>6, <1>7, <1>8
----------------------------------------------------------------------------
(* An element of a sequence.                                               *)
LEMMA ElementOf ==
    ASSUME NEW S, NEW s \in Seq(S), NEW k \in 1..Len(s)
    PROVE  s[k] \in S
OBVIOUS

(* A block that starts where the loop looks comes after all it has written.*)
LEMMA NewPiece ==
    ASSUME pkg \in Layouts, out \in Seq(0..n), RepeatsOnlyFlush, Behind, Here \in Int,
           pkg' = pkg,
           NEW c \in 0..n, c # Garbage => Start(c) = Here, out' = Append(out, c)
    PROVE  /\ RepeatsOnlyFlush'
           /\ \A k \in 1..Len(out') : out'[k] # Garbage => Start(out'[k]) <= Here
           /\ c # Garbage => \A k \in 1..Len(out) : out[k] # c
<1>1. /\ n \in Nat /\ Len(out) \in Nat /\ Len(out') = Len(out) + 1
      /\ \A k \in 1..Len(out) : out'[k] = out[k] /\ out[k] \in 0..n
      /\ out'[Len(out) + 1] = c
  <2>1. \A k \in 1..Len(out) : out[k] \in 0..n
    BY ElementOf
  <2> QED BY <2>1, LayoutFacts
<1>2. ASSUME NEW k \in 1..Len(out), out[k] # Garbage, c # Garbage
      PROVE  out[k] < c
  <2>1. out[k] \in 1..(n + 1) /\ c \in 1..(n + 1)
    BY <1>1, <1>2 DEF Garbage
  <2>2. Start(out[k]) < Start(c) /\ Start(out[k]) \in Nat /\ Start(c) \in Nat
    BY <1>2, <2>1, LayoutFacts DEF Behind
  <2>3. c < out[k] => Start(c) < Start(out[k])
    BY <2>1, LayoutFacts
  <2>4. c # out[k]
    BY <2>2
  <2> QED BY <2>1, <2>2, <2>3, <2>4
<1>3. RepeatsOnlyFlush'
  <2> SUFFICES ASSUME NEW k \in 1..Len(out'), NEW j \in 1..(k - 1),
                      out'[j] # Garbage, out'[k] # Garbage
               PROVE  \/ out'[j] < out'[k]
                      \/ out'[j] = out'[k] /\ k = j + 1 /\ FlushHeader(out'[j] + 1)
    BY SameRepeats
  <2>1. CASE k = Len(out) + 1
    <3>1. j \in 1..Len(out) /\ out'[j] = out[j] /\ out'[k] = c
      BY <1>1, <2>1
    <3> QED BY <1>2, <3>1
  <2>2. CASE k # Len(out) + 1
    <3>1. k \in 1..Len(out) /\ j \in 1..Len(out) /\ out'[j] = out[j] /\ out'[k] = out[k]
      <4>1. Len(out) \in Nat /\ k \in 1..(Len(out) + 1) /\ j \in 1..(k - 1)
        BY <1>1
      <4>2. k \in 1..Len(out) /\ j \in 1..Len(out)
        BY <2>2, <4>1
      <4> QED BY <1>1, <4>2
    <3> QED BY <3>1 DEF RepeatsOnlyFlush
  <2> QED BY <2>1, <2>2
<1>4. ASSUME NEW k \in 1..Len(out'), out'[k] # Garbage
      PROVE  Start(out'[k]) <= Here
  <2>1. CASE k = Len(out) + 1
    <3>1. out'[k] = c /\ Start(c) = Here
      BY <1>1, <1>4, <2>1
    <3>2. c \in 1..(n + 1)
      BY <1>1, <1>4, <3>1 DEF Garbage
    <3> QED BY <3>1, <3>2, LayoutFacts
  <2>2. CASE k # Len(out) + 1
    <3>1. k \in 1..Len(out) /\ out'[k] = out[k]
      BY <1>1, <2>2
    <3>2. Start(out[k]) < Here
      BY <1>4, <3>1 DEF Behind
    <3>3. out[k] \in 1..(n + 1)
      BY <1>1, <1>4, <3>1 DEF Garbage
    <3>4. Start(out[k]) \in Nat
      BY <3>3, LayoutFacts
    <3> QED BY <3>1, <3>2, <3>4
  <2> QED BY <2>1, <2>2
<1>5. c # Garbage => \A k \in 1..Len(out) : out[k] # c
  BY <1>1, <1>2
<1> QED BY <1>3, <1>4, <1>5

(* What was at or before Here is behind it once the loop has gone on.      *)
LEMMA FurtherBehind ==
    ASSUME pkg \in Layouts, pkg' = pkg, out' \in Seq(0..n), Here \in Int, Here' \in Int,
           Here < Here',
           \A k \in 1..Len(out') : out'[k] # Garbage => Start(out'[k]) <= Here
    PROVE  Behind'
<1>1. \A b : Start(b)' = Start(b)
  BY SameLayout
<1>2. ASSUME NEW k \in 1..Len(out'), out'[k] # Garbage
      PROVE  Start(out'[k]) < Here'
  <2>1. out'[k] \in 0..n
    BY ElementOf
  <2>2. n \in Nat
    BY LayoutFacts
  <2>3. out'[k] \in 1..(n + 1)
    BY <1>2, <2>1, <2>2 DEF Garbage
  <2>4. Start(out'[k]) \in Nat
    BY <2>3, LayoutFacts
  <2> QED BY <1>2, <2>4
<1>3. \A k \in 1..Len(out') : out'[k] # Garbage => pkg'.off[out'[k]] < Here'
  BY <1>2 DEF Start
<1> QED BY <1>3 DEF Behind, Start, Garbage

----------------------------------------------------------------------------
LEMMA CopyInit == Init => IndInv
<1> SUFFICES ASSUME Init PROVE IndInv
  OBVIOUS
<1>1. pkg \in Layouts /\ pc = "verify" /\ raw = 0 /\ hdr = Buf /\ out = <<>>
  BY DEF Init
<1>2. n \in Nat /\ Com \in Nat
  BY <1>1, LayoutFacts
<1>3. BufEdge(0)
  <2>1. 0 = 0 * Buf
    BY SizeAssumption
  <2> QED BY <2>1 DEF BufEdge
<1>4. Len(out) = 0 /\ out \in Seq(0..n)
  BY <1>1
<1>5. TypeOK
  BY <1>1, <1>4, SizeAssumption DEF TypeOK
<1>6. ReadInv
  BY <1>1, <1>2, <1>3 DEF ReadInv, CanRead
<1>7. OrderInv
  BY <1>1, <1>4 DEF OrderInv, RepeatsOnlyFlush
<1>8. PlaceInv
  BY <1>1, <1>4 DEF PlaceInv, KeepsItsPlace, InOrder
<1> QED BY <1>1, <1>5, <1>6, <1>7, <1>8 DEF IndInv

(* One buffer read more: no other buffer starts in what it adds.           *)
LEMMA VerifyReadStep == IndInv /\ VerifyRead => IndInv'
<1> SUFFICES ASSUME IndInv, VerifyRead PROVE IndInv'
  OBVIOUS
<1>1. /\ pc = "verify" /\ raw < Com /\ raw + Buf <= Room
      /\ pkg' = pkg /\ pc' = pc /\ hdr' = hdr /\ out' = out
      /\ raw' = IF raw + Buf > Com THEN Com ELSE raw + Buf
  BY DEF VerifyRead
<1>2. /\ raw \in Nat /\ Com \in Nat /\ Buf \in Nat /\ 0 < Buf /\ hdr \in 0..Buf
      /\ BufEdge(raw) /\ BufEdge(raw + Buf) /\ CanRead(raw)
  BY <1>1, LoopFacts DEF IndInv, ReadInv
<1>3. raw' \in Nat /\ raw' <= Com /\ raw' <= raw + Buf /\ (raw' < Com => raw' = raw + Buf)
  BY <1>1, <1>2
<1>4. ASSUME NEW e \in Nat, e < raw', BufEdge(e) PROVE e + Buf <= Room
  <2>0. e < raw + Buf
    BY <1>2, <1>3, <1>4
  <2>1. CASE e < raw
    BY <1>2, <1>4, <2>1 DEF CanRead
  <2>2. CASE e >= raw
    <3>1. PICK i \in 0..e : e = i * Buf
      BY <1>4 DEF BufEdge
    <3>2. PICK m \in 0..raw : raw = m * Buf
      BY <1>2 DEF BufEdge
    <3>3. i \in Nat /\ m \in Nat /\ e = Buf * i /\ raw = Buf * m
          /\ Buf * (m + 1) = Buf * m + Buf
      BY <1>2, <1>3, <3>1, <3>2
    <3>4. ~(m + 1 <= i)
      <4> SUFFICES ASSUME m + 1 <= i PROVE FALSE
        OBVIOUS
      <4>1. Buf * (m + 1) <= Buf * i
        BY <1>2, <3>3, Multiples
      <4>2. raw + Buf <= e
        BY <1>2, <3>3, <4>1
      <4> QED BY <1>2, <2>0, <4>2
    <3>5. Buf * i <= Buf * m
      BY <1>2, <3>3, <3>4, Multiples
    <3> QED BY <1>1, <1>2, <2>2, <3>3, <3>5
  <2> QED BY <1>2, <1>3, <2>1, <2>2
<1>5. Com' = Com /\ (BufEdge(raw)' <=> BufEdge(raw')) /\ (CanRead(raw)' <=> CanRead(raw'))
  BY <1>1, SameLayout DEF BufEdge, CanRead
<1>6. ReadInv'
  <2>1. CanRead(raw')
    <3>1. \A x \in Nat : \A e \in 0..(x - 1) : e \in Nat /\ e < x
      OBVIOUS
    <3> QED BY <1>3, <1>4, <3>1 DEF CanRead
  <2> QED BY <1>1, <1>2, <1>3, <1>5, <2>1 DEF ReadInv
<1>7. pkg' \in Layouts /\ TypeOK'
  BY <1>1, <1>2, <1>3, TypeStep
<1>8. OrderInv'
  BY <1>1, SameRepeats DEF IndInv, OrderInv, RepeatsOnlyFlush
<1>9. PlaceInv'
  BY <1>1, SameLayout DEF IndInv, PlaceInv, KeepsItsPlace, InOrder
<1> QED BY <1>6, <1>7, <1>8, <1>9 DEF IndInv

LEMMA StartStep == IndInv /\ StartCopy => IndInv'
<1> SUFFICES ASSUME IndInv, StartCopy PROVE IndInv'
  OBVIOUS
<1>1. /\ pc = "verify" /\ raw >= Com /\ pc' = "loop" /\ raw' = 0
      /\ pkg' = pkg /\ hdr' = hdr /\ out' = out /\ hdr = Buf /\ out = <<>>
  BY DEF StartCopy, IndInv, OrderInv
<1>2. raw = Com /\ CanRead(Com)
  <2>1. raw <= Com /\ CanRead(raw)
    BY <1>1 DEF IndInv, ReadInv
  <2>2. raw = Com
    BY <1>1, <2>1, LoopFacts
  <2> QED BY <2>1, <2>2
<1>3. BufEdge(0)
  <2>1. 0 = 0 * Buf
    BY SizeAssumption
  <2> QED BY <2>1 DEF BufEdge
<1>4. Com' = Com /\ n' = n /\ (CanRead(Com)' <=> CanRead(Com)) /\ (\A b : Start(b)' = Start(b))
  BY <1>1, SameLayout DEF CanRead
<1>5. ReadInv'
  BY <1>1, <1>2, <1>4 DEF ReadInv
<1>6. pkg' \in Layouts /\ TypeOK'
  BY <1>1, <1>3, LoopFacts, TypeStep
<1>7. Here' = 0 /\ Len(out) = 0
  <2>1. Here' = 0 - Buf + Buf
    BY <1>1 DEF Here
  <2> QED BY <1>1, <2>1, SizeAssumption
<1>8. OrderInv'
  <2>1. RepeatsOnlyFlush'
    BY <1>1, SameRepeats DEF IndInv, OrderInv, RepeatsOnlyFlush
  <2>2. Behind' /\ AtLast'
    BY <1>1, <1>7, SizeAssumption DEF Behind, AtLast
  <2> QED BY <1>1, <2>1, <2>2 DEF OrderInv
<1>9. PlaceInv'
  <2>1. Start(1) = 0 /\ n \in Nat
    BY LoopFacts, LayoutFacts
  <2>2. InOrder'
    BY <1>1, <1>7 DEF InOrder
  <2>3. AtChunk' /\ OnTrack'
    BY <1>1, <1>4, <1>7, <2>1, <2>2 DEF AtChunk, OnTrack
  <2> QED BY <1>1, <2>2, <2>3 DEF PlaceInv, KeepsItsPlace
<1> QED BY <1>5, <1>6, <1>8, <1>9 DEF IndInv
----------------------------------------------------------------------------
(* Where a well-placed package puts its next block.                        *)
LEMMA NextPiece ==
    ASSUME IndInv, pc = "loop", ~pkg.plain, WellPlaced, raw < Com
    PROVE  /\ OnTrack /\ Len(out) + 1 \in 1..n /\ Here <= raw
           /\ BlockAt(Here) = {Len(out) + 1}
           /\ Pieces(Here) = {Len(out) + 1} /\ Ends(Here) = {End(Len(out) + 1)}
<1>1. OnTrack
  BY DEF IndInv, PlaceInv
<1>2. Here = raw - Buf + hdr /\ raw \in Nat /\ hdr \in 0..Buf /\ Buf \in Nat /\ Com \in Nat
  BY LoopFacts DEF Here
<1>3. Here <= raw /\ Here < Com
  BY <1>2
<1>4. Len(out) < n /\ BlockAt(Here) = {Len(out) + 1}
  BY <1>1, <1>3, LoopFacts, NextBlock
<1>5. Len(out) + 1 \in 1..n
  BY <1>4, LoopFacts
<1> QED BY <1>1, <1>3, <1>4, <1>5 DEF Pieces, Ends

(* A step within the loop that goes on in its package.                     *)
LEMMA LoopStep ==
    ASSUME IndInv, pc = "loop", pc' = "loop", pkg' = pkg, raw' \in Nat, BufEdge(raw'),
           hdr' \in 0..Buf, NEW c \in 0..n, out' = Append(out, c),
           OrderInv', PlaceInv'
    PROVE  IndInv'
<1>1. pkg' \in Layouts /\ TypeOK'
  BY TypeStep
<1>2. ReadInv'
  BY SameLayout DEF IndInv, ReadInv, CanRead
<1> QED BY <1>1, <1>2 DEF IndInv

LEMMA TurnStep ==
    ASSUME IndInv, NEW e, NEW c, Turn(e, c)
    PROVE  IndInv'
<1>1. /\ pc = "loop" /\ pc' = "loop" /\ ~pkg.plain /\ pkg' = pkg /\ raw < Com
      /\ e \in Ends(Here) /\ c \in Pieces(Here) /\ out' = Append(out, c)
      /\ raw' \in Nat /\ BufEdge(raw') /\ hdr' \in 0..Buf /\ Here < Here'
      /\ Here' = e \/ (hdr' = 0 /\ Here < raw /\ raw < Here + Hdr /\ e = raw + Buf)
  BY DEF Turn
<1>2. /\ e \in Int /\ c \in 0..n
      /\ c # Garbage => c \in 1..n /\ Start(c) = Here /\ End(c) = e
  BY <1>1, LoopFacts, PieceAt
<1>3. /\ RepeatsOnlyFlush'
      /\ \A k \in 1..Len(out') : out'[k] # Garbage => Start(out'[k]) <= Here
      /\ c # Garbage => \A k \in 1..Len(out) : out[k] # c
  BY <1>1, <1>2, LoopFacts, NewPiece DEF IndInv, OrderInv
<1>4. Here' \in Int /\ out' \in Seq(0..n) /\ Len(out') = Len(out) + 1 /\ out' # <<>>
      /\ out'[Len(out')] = c /\ \A k \in 1..(Len(out') - 1) : out'[k] = out[k]
  <2>1. Here' = raw' - Buf + hdr'
    BY DEF Here
  <2>2. Here' \in Int
    BY <1>1, <2>1, SizeAssumption
  <2>3. out \in Seq(0..n) /\ Len(out) \in Nat
    BY LoopFacts
  <2>4. out' \in Seq(0..n) /\ Len(out') = Len(out) + 1 /\ out'[Len(out) + 1] = c
    BY <1>1, <1>2, <2>3
  <2>5. \A k \in 1..Len(out) : out'[k] = out[k]
    BY <1>1, <2>3
  <2>6. Len(out') - 1 = Len(out) /\ out' # <<>>
    BY <2>3, <2>4
  <2> QED BY <2>2, <2>4, <2>5, <2>6
<1>5. OrderInv'
  <2>1. Behind'
    BY <1>1, <1>3, <1>4, LoopFacts, FurtherBehind
  <2>2. AtLast'
    <3>1. c # Garbage => Here' = End(c) \/ hdr' = 0
      BY <1>1, <1>2
    <3>2. c # Garbage => \A k \in 1..(Len(out') - 1) : out'[k] # c
      <4>1. Len(out') - 1 = Len(out)
        BY <1>4, LoopFacts
      <4> QED BY <1>3, <1>4, <4>1
    <3>3. \A b : End(b)' = End(b)
      BY <1>1, SameLayout
    <3>4. c # Garbage => Here' = pkg'.off[c + 1] \/ hdr' = 0
      BY <1>1, <3>1 DEF End
    <3> QED BY <1>4, <3>2, <3>4 DEF AtLast, End, Garbage
  <2> QED BY <1>1, <1>3, <2>1, <2>2 DEF OrderInv
<1>6. WellPlaced => InOrder' /\ OnTrack'
  <2> SUFFICES ASSUME WellPlaced PROVE InOrder' /\ OnTrack'
    OBVIOUS
  <2>1. OnTrack /\ c = Len(out) + 1 /\ e = End(c) /\ c \in 1..n /\ Start(c) = Here
    BY <1>1, <1>2, NextPiece DEF Garbage
  <2>2. InOrder' /\ Len(out') = c
    BY <1>1, <2>1, LoopFacts, InOrderNext DEF OnTrack
  <2>3. ~(Here < raw /\ raw < Here + Hdr /\ e = raw + Buf)
    <3> SUFFICES ASSUME Here < raw, raw < Here + Hdr, e = raw + Buf PROVE FALSE
      OBVIOUS
    <3>1. Start(c) < raw /\ raw < Start(c) + Hdr /\ End(c) >= raw + Buf
      BY <2>1, LoopFacts
    <3> QED BY <1>1, <2>1, <3>1, LoopFacts, Misplaced
  <2>4. Here' = Start(c + 1)
    BY <1>1, <2>1, <2>3, LoopFacts, LayoutFacts
  <2>5. n' = n /\ (\A b : Start(b)' = Start(b)) /\ c <= n
    BY <1>1, <2>1, SameLayout, LoopFacts
  <2> QED BY <2>2, <2>4, <2>5 DEF OnTrack
<1>7. PlaceInv'
  BY <1>1, <1>6, SameLayout DEF PlaceInv, KeepsItsPlace
<1> QED BY <1>1, <1>2, <1>5, <1>7, LoopStep

LEMMA FlushStep == IndInv /\ HeaderFlush => IndInv'
<1> SUFFICES ASSUME IndInv, HeaderFlush PROVE IndInv'
  OBVIOUS
<1> DEFINE last == out[Len(out)]
<1>1. /\ pc = "loop" /\ pc' = "loop" /\ ~pkg.plain /\ pkg' = pkg /\ raw < Com
      /\ hdr + Hdr = Buf /\ hdr' = Buf /\ raw' = raw /\ out' = Append(out, last)
  BY DEF HeaderFlush, Packed, Looping
<1>2. /\ raw \in Nat /\ hdr \in 0..Buf /\ Buf \in Nat /\ Hdr \in Nat /\ 0 < Hdr /\ Hdr < Buf
      /\ BufEdge(raw) /\ pkg \in Layouts /\ out \in Seq(0..n) /\ n \in Nat /\ Com \in Nat
  BY <1>1, LoopFacts
<1>3. hdr < Buf /\ hdr # 0 /\ Here = raw - Hdr /\ Here' = raw
  <2>1. Here = raw - Buf + hdr /\ Here' = raw' - Buf + hdr'
    BY DEF Here
  <2> QED BY <1>1, <1>2, <2>1
<1>4. /\ out # <<>>
      /\ last # Garbage => Here = End(last) /\ \A k \in 1..(Len(out) - 1) : out[k] # last
  BY <1>1, <1>3 DEF IndInv, OrderInv, AtLast
<1>5. Len(out) \in Nat /\ Len(out) > 0 /\ last \in 0..n /\ Len(out') = Len(out) + 1
      /\ out'[Len(out) + 1] = last /\ \A k \in 1..Len(out) : out'[k] = out[k]
  <2>1. Len(out) \in 1..Len(out)
    BY <1>2, <1>4
  <2>2. last \in 0..n
    BY <1>2, <2>1, ElementOf
  <2> QED BY <1>1, <1>2, <2>1, <2>2
<1> HIDE DEF last
<1>6. last # Garbage => FlushHeader(last + 1)
  <2> SUFFICES ASSUME last # Garbage PROVE FlushHeader(last + 1)
    OBVIOUS
  <2>1. last \in 1..n /\ Here = Start(last + 1)
    BY <1>2, <1>4, <1>5, LayoutFacts DEF Garbage
  <2>2. last # n
    BY <1>1, <1>2, <1>3, <2>1, LayoutFacts
  <2>3. last + 1 \in 1..n /\ Start(last + 1) + Hdr = raw
    BY <1>2, <1>3, <2>1, <2>2
  <2>4. raw \in Edges
    BY <1>1, <1>2 DEF Edges
  <2> QED BY <2>3, <2>4 DEF FlushHeader
<1>7. RepeatsOnlyFlush'
  <2> SUFFICES ASSUME NEW k \in 1..Len(out'), NEW j \in 1..(k - 1),
                      out'[j] # Garbage, out'[k] # Garbage
               PROVE  \/ out'[j] < out'[k]
                      \/ out'[j] = out'[k] /\ k = j + 1 /\ FlushHeader(out'[j] + 1)
    BY <1>1, SameRepeats
  <2>0. Len(out) \in Nat /\ k \in 1..(Len(out) + 1) /\ j \in 1..(k - 1)
    BY <1>5
  <2>1. RepeatsOnlyFlush
    BY DEF IndInv, OrderInv
  <2>2. CASE k # Len(out) + 1
    <3>1. k \in 1..Len(out) /\ j \in 1..Len(out)
      BY <2>0, <2>2
    <3>2. out'[j] = out[j] /\ out'[k] = out[k]
      BY <1>5, <3>1
    <3> QED BY <2>1, <3>1, <3>2 DEF RepeatsOnlyFlush
  <2>3. CASE k = Len(out) + 1 /\ j = Len(out)
    <3>1. out'[j] = last /\ out'[k] = last
      BY <1>5, <2>3 DEF last
    <3> QED BY <1>6, <2>3, <3>1
  <2>4. CASE k = Len(out) + 1 /\ j # Len(out)
    <3>1. j \in 1..(Len(out) - 1) /\ j \in 1..Len(out) /\ Len(out) \in 1..Len(out)
      BY <2>0, <2>4
    <3>2. out'[j] = out[j] /\ out'[k] = last /\ out[Len(out)] = last
      BY <1>5, <2>4, <3>1 DEF last
    <3>3. out[j] # last
      BY <1>4, <3>1, <3>2
    <3>4. out[j] < out[Len(out)]
      BY <2>1, <3>1, <3>2, <3>3 DEF RepeatsOnlyFlush
    <3> QED BY <3>2, <3>4
  <2> QED BY <2>2, <2>3, <2>4
<1>8. OrderInv'
  <2>1. \A k \in 1..Len(out') : out'[k] # Garbage => Start(out'[k]) <= Here
    <3> SUFFICES ASSUME NEW k \in 1..Len(out'), out'[k] # Garbage
                 PROVE  Start(out'[k]) <= Here
      OBVIOUS
    <3>1. \E i \in 1..Len(out) : out'[k] = out[i]
      <4>1. Len(out) \in Nat /\ Len(out) > 0 /\ k \in 1..(Len(out) + 1)
        BY <1>5
      <4>2. k \in 1..Len(out) \/ k = Len(out) + 1
        BY <4>1
      <4>3. Len(out) \in 1..Len(out)
        BY <4>1
      <4> QED BY <1>5, <4>2, <4>3 DEF last
    <3>2. PICK i \in 1..Len(out) : out'[k] = out[i]
      BY <3>1
    <3>3. Start(out[i]) < Here
      BY <1>1, <3>2 DEF IndInv, OrderInv, Behind
    <3>4. out[i] \in 0..n
      BY <1>2, ElementOf
    <3>5. out[i] # 0
      BY <3>2 DEF Garbage
    <3>6. out[i] \in 1..(n + 1)
      <4>1. n \in Nat
        BY <1>2
      <4> QED BY <3>4, <3>5, <4>1
    <3>7. Start(out[i]) \in Nat
      BY <1>2, <3>6, LayoutFacts
    <3>8. Start(out[i]) <= Here
      BY <1>2, <1>3, <3>3, <3>7
    <3> QED BY <3>2, <3>8
  <2>2. Here \in Int /\ Here' \in Int /\ Here < Here' /\ out' \in Seq(0..n)
    BY <1>1, <1>2, <1>3, <1>5
  <2>3. Behind'
    BY <1>1, <1>2, <2>1, <2>2, FurtherBehind
  <2>4. AtLast'
    BY <1>1, <1>2 DEF AtLast
  <2> QED BY <1>1, <1>7, <2>3, <2>4 DEF OrderInv
<1>9. ~WellPlaced
  <2> SUFFICES ASSUME WellPlaced PROVE FALSE
    OBVIOUS
  <2>1. Len(out) + 1 \in 1..n /\ BlockAt(Here) = {Len(out) + 1}
    BY <1>1, NextPiece
  <2>2. Start(Len(out) + 1) = Here
    BY <2>1 DEF BlockAt
  <2>3. Start(Len(out) + 1) + Hdr = raw
    BY <1>2, <1>3, <2>2
  <2> QED BY <1>1, <1>2, <2>1, <2>3, Misplaced
<1>10. PlaceInv'
  BY <1>1, <1>9, SameLayout DEF PlaceInv, KeepsItsPlace
<1>11. hdr' \in 0..Buf /\ raw' \in Nat /\ BufEdge(raw')
  BY <1>1, <1>2
<1> QED BY <1>1, <1>5, <1>8, <1>10, <1>11, LoopStep DEF last

(* The copy leaves its buffers in a badly placed package only.             *)
LEMMA HeldByBuffer ==
    ASSUME IndInv, pc = "loop", ~pkg.plain, raw < Com, NEW e \in Ends(Here), ~Holds(e)
    PROVE  ~WellPlaced
<1> SUFFICES ASSUME WellPlaced PROVE FALSE
  OBVIOUS
<1> DEFINE b == Len(out) + 1
<1>1. b \in 1..n /\ Here <= raw /\ BlockAt(Here) = {b} /\ e = End(b)
  BY NextPiece
<1>2. Start(b) = Here
  BY <1>1 DEF BlockAt
<1> HIDE DEF b
<1>3. /\ pkg \in Layouts /\ raw \in Nat /\ Buf \in Nat /\ Here \in Int /\ BufEdge(raw)
      /\ Cap \in Nat /\ Hdr \in Nat /\ End(b) \in Nat /\ Start(b) \in Nat
  BY <1>1, LoopFacts, LayoutFacts, SizeAssumption
<1>4. CASE e > raw + Buf
  BY <1>1, <1>2, <1>3, <1>4, Misplaced
<1>5. CASE e <= raw + Buf
  <2>1. ~(End(b) - Here - Hdr <= Cap)
    BY <1>1, <1>5 DEF Holds
  <2>2. ~FitsBuffer(b)
    BY <1>2, <1>3, <2>1 DEF FitsBuffer
  <2> QED BY <1>1, <1>3, <2>2, Misplaced
<1>6. e \in Nat
  BY <1>1, <1>3
<1> QED BY <1>3, <1>4, <1>5, <1>6

LEMMA PlainStep == IndInv /\ PlainChunk => IndInv'
<1> SUFFICES ASSUME IndInv, PlainChunk PROVE IndInv'
  OBVIOUS
<1> DEFINE b == Len(out) + 1
<1>1. /\ pc = "loop" /\ raw < Com /\ pkg.plain /\ raw' = raw + Buf
      /\ out' = Append(out, b) /\ pkg' = pkg /\ pc' = pc /\ hdr' = hdr
  BY DEF PlainChunk, Looping, Refill
<1>2. AtChunk /\ out \in Seq(0..n) /\ Len(out) \in Nat /\ n \in Nat
  BY <1>1, LoopFacts DEF IndInv, PlaceInv
<1>3. raw = Start(b) /\ Len(out) < n /\ hdr = Buf
  <2>1. Start(n + 1) = Com /\ Com \in Nat
    BY LoopFacts, LayoutFacts
  <2> QED BY <1>1, <1>2, <2>1, LoopFacts DEF AtChunk
<1>4. b \in 1..n /\ b \in 0..n
  BY <1>2, <1>3
<1>5. InOrder' /\ Len(out') = b
  BY <1>1, <1>2, InOrderNext DEF AtChunk
<1>6. n' = n /\ Com' = Com /\ (\A c : Start(c)' = Start(c)) /\ (WellPlaced' <=> WellPlaced)
  BY <1>1, SameLayout
<1>7. raw' = Start(b + 1) \/ (b = n /\ raw' >= Com)
  <2>1. IF b = n THEN Com <= Start(b) + Buf ELSE Start(b + 1) = Start(b) + Buf
    BY <1>1, <1>4, LoopFacts, LayoutFacts
  <2> QED BY <1>1, <1>3, <2>1, LoopFacts, SizeAssumption
<1>8. AtChunk'
  BY <1>1, <1>3, <1>4, <1>5, <1>6, <1>7, LoopFacts DEF AtChunk
<1>9. PlaceInv'
  BY <1>1, <1>5, <1>8 DEF PlaceInv, KeepsItsPlace
<1>10. Here = Start(b) /\ Here \in Int /\ Here' \in Int /\ Here < Here'
       /\ raw' \in Nat /\ BufEdge(raw') /\ hdr' \in 0..Buf /\ out' \in Seq(0..n)
  <2>1. Here = raw - Buf + hdr /\ Here' = raw' - Buf + hdr'
    BY DEF Here
  <2>2. raw' \in Nat /\ BufEdge(raw')
    BY <1>1, LoopFacts
  <2>3. out' \in Seq(0..n)
    BY <1>1, <1>2, <1>4
  <2>4. raw \in Nat /\ Buf \in Nat /\ Buf > 0
    BY LoopFacts
  <2>5. Here = raw /\ Here' = raw + Buf /\ hdr' \in 0..Buf
    BY <1>1, <1>3, <2>1, <2>4
  <2>6. Here \in Int /\ Here' \in Int /\ Here < Here'
    BY <2>4, <2>5
  <2> QED BY <1>3, <2>2, <2>3, <2>5, <2>6
<1> HIDE DEF b
<1>11. OrderInv'
  <2>1. RepeatsOnlyFlush /\ Behind /\ pkg \in Layouts
    BY <1>1 DEF IndInv, OrderInv
  <2>2. /\ RepeatsOnlyFlush'
        /\ \A k \in 1..Len(out') : out'[k] # Garbage => Start(out'[k]) <= Here
    BY <1>1, <1>2, <1>4, <1>10, <2>1, NewPiece
  <2>3. Behind'
    BY <1>1, <1>10, <2>1, <2>2, FurtherBehind
  <2>4. AtLast'
    BY <1>1, <1>3, LoopFacts DEF AtLast
  <2> QED BY <1>1, <2>2, <2>3, <2>4 DEF OrderInv
<1> QED BY <1>1, <1>4, <1>9, <1>10, <1>11, LoopStep
----------------------------------------------------------------------------
(* A step out of the verification or the loop.                             *)
LEMMA LeavesStep ==
    ASSUME IndInv, UNCHANGED <<pkg, raw, hdr>>,
           pc' \in {"check", "done", "failed", "error", "stray", "rejected"},
           pc' # "rejected" => pc \in {"loop", "check"},
           out' = out \/ \E c \in 0..n : out' = Append(out, c),
           RepeatsOnlyFlush', WellPlaced => pc' # "stray" /\ InOrder',
           pc' = "check" => /\ WellPlaced => Len(out') <= n
                            /\ pkg.plain => InOrder' /\ Len(out') = n,
           pc' = "done" /\ WellPlaced => Len(out') = n
    PROVE  IndInv'
<1>1. n' = n /\ (WellPlaced' <=> WellPlaced)
  BY SameLayout
<1>2. pkg' \in Layouts /\ TypeOK'
  <2>1. pc' # "rejected" => BufEdge(raw')
    BY LoopFacts
  <2>2. hdr' \in 0..Buf /\ raw' \in Nat
    BY LoopFacts
  <2> QED BY <2>1, <2>2, TypeStep
<1>3. ReadInv' /\ OrderInv'
  BY DEF ReadInv, OrderInv
<1>4. PlaceInv'
  BY <1>1 DEF PlaceInv, KeepsItsPlace
<1> QED BY <1>2, <1>3, <1>4 DEF IndInv

(* And one that leaves what is written alone.                              *)
LEMMA PcStep ==
    ASSUME IndInv, UNCHANGED <<pkg, raw, hdr, out>>,
           pc' \in {"check", "done", "failed", "error", "stray", "rejected"},
           pc' # "rejected" => pc \in {"loop", "check"},
           WellPlaced => pc' # "stray",
           pc' = "check" => /\ WellPlaced => Len(out) <= n
                            /\ pkg.plain => InOrder /\ Len(out) = n,
           pc' = "done" /\ WellPlaced => Len(out) = n
    PROVE  IndInv'
<1>1. InOrder' <=> InOrder
  BY DEF InOrder
<1>2. RepeatsOnlyFlush'
  BY SameRepeats DEF IndInv, OrderInv, RepeatsOnlyFlush
<1>3. WellPlaced => InOrder
  BY DEF IndInv, PlaceInv, KeepsItsPlace
<1>4. Len(out') = Len(out)
  OBVIOUS
<1> QED BY <1>1, <1>2, <1>3, <1>4, LeavesStep

LEMMA NoTailStep == IndInv /\ NoTail => IndInv'
<1> SUFFICES ASSUME IndInv, NoTail PROVE IndInv'
  OBVIOUS
<1>1. /\ pc = "loop" /\ raw >= Com
      /\ pc' = "check" /\ UNCHANGED <<pkg, raw, hdr, out>>
  BY DEF NoTail, AtEnd
<1>2. CASE pkg.plain
  <2>1. AtChunk /\ Len(out) \in Nat
    BY <1>1, <1>2, LoopFacts DEF IndInv, PlaceInv
  <2>2. Len(out) = n
    <3>1. CASE Len(out) < n
      <4>1. Start(Len(out) + 1) < Start(n + 1) /\ Start(n + 1) = Com
        <5>1. Len(out) + 1 \in 1..(n + 1) /\ n + 1 \in 1..(n + 1) /\ Len(out) + 1 < n + 1
          <6>1. n \in Nat
            BY LoopFacts
          <6> QED BY <2>1, <3>1, <6>1
        <5> QED BY <5>1, LoopFacts, LayoutFacts
      <4>2. raw = Start(Len(out) + 1)
        BY <2>1, <3>1, LoopFacts DEF AtChunk
      <4>3. raw < Com /\ raw \in Nat /\ Com \in Nat
        BY <4>1, <4>2, LoopFacts
      <4> QED BY <1>1, <4>3
    <3> QED BY <2>1, <3>1, LoopFacts DEF AtChunk
  <2> QED BY <1>1, <2>1, <2>2, LoopFacts, PcStep DEF AtChunk
<1>3. CASE ~pkg.plain
  <2>1. WellPlaced => OnTrack
    BY <1>1, <1>3 DEF IndInv, PlaceInv
  <2> QED BY <1>1, <1>3, <2>1, PcStep DEF OnTrack
<1> QED BY <1>2, <1>3

LEMMA TailBlockStep == IndInv /\ TailBlock => IndInv'
<1> SUFFICES ASSUME IndInv, TailBlock PROVE IndInv'
  OBVIOUS
<1>1. pc = "loop" /\ ~pkg.plain /\ pc' = "check" /\ UNCHANGED <<pkg, raw, hdr>>
  BY DEF TailBlock, InTail, AtEnd
<1>2. PICK b \in 1..n : Start(b) = Here /\ out' = Append(out, b)
  BY DEF TailBlock, BlockAt
<1>3. b \in 0..n /\ b <= n
  BY <1>2, LoopFacts
<1>4. RepeatsOnlyFlush'
  BY <1>1, <1>2, <1>3, LoopFacts, NewPiece DEF IndInv, OrderInv
<1>5. WellPlaced => InOrder' /\ Len(out') <= n
  <2> SUFFICES ASSUME WellPlaced PROVE InOrder' /\ Len(out') <= n
    OBVIOUS
  <2>1. OnTrack
    BY <1>1 DEF IndInv, PlaceInv
  <2>2. b \in BlockAt(Here)
    BY <1>2 DEF BlockAt
  <2>3. Len(out) < n \/ Len(out) = n
    BY <2>1, LoopFacts DEF OnTrack
  <2>4. b = Len(out) + 1
    BY <1>1, <2>1, <2>2, <2>3, LoopFacts, NextBlock
  <2> QED BY <1>2, <1>3, <2>1, <2>4, LoopFacts, InOrderNext DEF OnTrack
<1> QED BY <1>1, <1>2, <1>3, <1>4, <1>5, LeavesStep

LEMMA TailFillStep == IndInv /\ TailFill => IndInv'
<1> SUFFICES ASSUME IndInv, TailFill PROVE IndInv'
  OBVIOUS
<1>1. /\ pc = "loop" /\ ~pkg.plain /\ UNCHANGED <<pkg, raw, hdr, out>>
      /\ pc' \in {"failed", "check"}
  BY DEF TailFill, InTail, AtEnd
<1>2. WellPlaced => OnTrack
  BY <1>1 DEF IndInv, PlaceInv
<1> QED BY <1>1, <1>2, PcStep DEF OnTrack

LEMMA TailGarbageStep == IndInv /\ TailGarbage => IndInv'
<1> SUFFICES ASSUME IndInv, TailGarbage PROVE IndInv'
  OBVIOUS
<1>1. /\ pc = "loop" /\ ~pkg.plain /\ UNCHANGED <<pkg, raw, hdr>>
      /\ BlockAt(Here) = {} /\ Here # Com
      /\ pc' \in {"check", "stray"} /\ (out' = out \/ out' = Append(out, Garbage))
  BY DEF TailGarbage, InTail, AtEnd
<1>2. ~WellPlaced
  <2> SUFFICES ASSUME WellPlaced PROVE FALSE
    OBVIOUS
  <2>1. OnTrack
    BY <1>1 DEF IndInv, PlaceInv
  <2>2. Len(out) < n \/ Len(out) = n
    BY <2>1, LoopFacts DEF OnTrack
  <2> QED BY <1>1, <2>1, <2>2, LoopFacts, NextBlock
<1>3. Garbage \in 0..n
  BY LoopFacts DEF Garbage
<1>4. CASE out' = out
  BY <1>1, <1>2, <1>4, PcStep
<1>5. CASE out' = Append(out, Garbage)
  <2>1. RepeatsOnlyFlush'
    BY <1>1, <1>3, <1>5, LoopFacts, NewPiece DEF IndInv, OrderInv
  <2> QED BY <1>1, <1>2, <1>3, <1>5, <2>1, LeavesStep
<1> QED BY <1>1, <1>4, <1>5

(* What a well-placed package has written is no garbage.                   *)
LEMMA NoGarbage ==
    ASSUME InOrder, Len(out) \in Nat
    PROVE  ~HasGarbage
BY DEF InOrder, HasGarbage, Garbage

LEMMA CheckStep == IndInv /\ CheckTotal => IndInv'
<1> SUFFICES ASSUME IndInv, CheckTotal PROVE IndInv'
  OBVIOUS
<1>1. /\ pc = "check" /\ UNCHANGED <<pkg, raw, hdr, out>> /\ pc' \in {"done", "failed"}
      /\ pc' = "done" => TotalReached \/ HasGarbage
  BY DEF CheckTotal
<1>2. pc' = "done" /\ WellPlaced => Len(out) = n
  <2> SUFFICES ASSUME pc' = "done", WellPlaced PROVE Len(out) = n
    OBVIOUS
  <2>1. InOrder /\ Len(out) <= n /\ (pkg.plain => Len(out) = n)
    BY <1>1 DEF IndInv, PlaceInv, KeepsItsPlace
  <2>2. TotalReached
    BY <1>1, <2>1, LoopFacts, NoGarbage
  <2> QED BY <2>1, <2>2, LoopFacts DEF TotalReached
<1> QED BY <1>1, <1>2, PcStep

LEMMA OverrunStep == IndInv /\ Overrun => IndInv'
<1> SUFFICES ASSUME IndInv, Overrun PROVE IndInv'
  OBVIOUS
<1>1. /\ pc = "loop" /\ pc' = "stray" /\ ~pkg.plain /\ raw < Com
      /\ UNCHANGED <<pkg, raw, hdr, out>> /\ \E e \in Ends(Here) : ~Holds(e)
  BY DEF Overrun, Packed, Looping
<1>2. ~WellPlaced
  BY <1>1, HeldByBuffer
<1> QED BY <1>1, <1>2, PcStep

LEMMA CopyStep == IndInv /\ [Next]_vars => IndInv'
<1> SUFFICES ASSUME IndInv, [Next]_vars PROVE IndInv'
  OBVIOUS
<1>1. CASE CopyError
  BY <1>1, PcStep DEF CopyError
<1>2. CASE VerifyFails
  BY <1>2, PcStep DEF VerifyFails
<1>3. CASE FirstInBuffer \/ InsideBuffer \/ CrossesBuffer \/ SplitHeader
  BY <1>3, Turns, TurnStep
<1>4. CASE UNCHANGED vars
  <2>1. pc' = pc /\ pkg' = pkg /\ raw' = raw /\ hdr' = hdr /\ out' = out
    BY <1>4 DEF vars
  <2>2. n' = n /\ Com' = Com /\ (WellPlaced' <=> WellPlaced)
        /\ (\A b : Start(b)' = Start(b)) /\ (\A b : End(b)' = End(b))
    BY <2>1, SameLayout
  <2>3. Here' = Here /\ (BufEdge(raw)' <=> BufEdge(raw)) /\ (InOrder' <=> InOrder)
    BY <2>1 DEF Here, BufEdge, InOrder
  <2>4. (OnTrack' <=> OnTrack) /\ (AtChunk' <=> AtChunk)
    BY <2>1, <2>2, <2>3 DEF OnTrack, AtChunk
  <2>5. TypeOK'
    BY <2>1, <2>2, <2>3 DEF IndInv, TypeOK
  <2>6. ReadInv'
    BY <2>1, <2>2, <2>3 DEF IndInv, ReadInv, CanRead
  <2>7. RepeatsOnlyFlush'
    BY <2>1, SameRepeats DEF IndInv, OrderInv, RepeatsOnlyFlush
  <2>8. (Behind' <=> Behind) /\ (AtLast' <=> AtLast)
    BY <2>1, <2>3 DEF Behind, AtLast, Start, End
  <2>9. OrderInv'
    BY <2>1, <2>7, <2>8 DEF IndInv, OrderInv
  <2>10. PlaceInv'
    BY <2>1, <2>2, <2>3, <2>4 DEF IndInv, PlaceInv, KeepsItsPlace
  <2> QED BY <2>1, <2>5, <2>6, <2>9, <2>10 DEF IndInv
<1> QED BY <1>1, <1>2, <1>3, <1>4, VerifyReadStep, StartStep, PlainStep, FlushStep, OverrunStep,
           NoTailStep, TailBlockStep, TailFillStep, TailGarbageStep, CheckStep
        DEF Next, Work

(* IndInv is an invariant of the copy loop.                                *)
THEOREM CopyInvariance == Spec => []IndInv
<1>1. Init => IndInv
  BY CopyInit
<1>2. IndInv /\ [Next]_vars => IndInv'
  BY CopyStep
<1> QED BY <1>1, <1>2, PTL DEF Spec

(* The loop's positions stay in their buffers, and buffers are whole.      *)
THEOREM CopyTypeCorrect == Spec => []TypeOK
<1>1. IndInv => TypeOK
  BY DEF IndInv
<1> QED BY <1>1, CopyInvariance, PTL

(* rt_fota_upgrade's loop never loses its place in a well-placed package,  *)
(* nor copies beyond its buffers, and succeeds with all the blocks only.   *)
THEOREM PlaceKept == Spec => []KeepsItsPlace
<1>1. IndInv => KeepsItsPlace
  BY DEF IndInv, PlaceInv
<1> QED BY <1>1, CopyInvariance, PTL

(* In any package, however much garbage the loop takes for block sizes     *)
(* before a copy leaves its buffers, rt_fota_upgrade writes no block out   *)
(* of order and none twice but the one before a header that ends with a    *)
(* buffer.                                                                 *)
THEOREM RepeatsKept == Spec => []RepeatsOnlyFlush
<1>1. IndInv => RepeatsOnlyFlush
  BY DEF IndInv, OrderInv
<1> QED BY <1>1, CopyInvariance, PTL

(* Where rt_fota_part_fw_verify could read the package, so can the copy:   *)
(* no read past the partition fails it once the application is erased.     *)
THEOREM ReadsStayInside == Spec => []CopyReadsInside
<1>1. IndInv => CopyReadsInside
  <2> SUFFICES ASSUME IndInv, pc = "loop", raw < Com PROVE raw + Buf <= Room
    BY DEF CopyReadsInside
  <2>1. raw \in 0..(Com - 1) /\ BufEdge(raw)
    BY LoopFacts
  <2> QED BY <2>1 DEF IndInv, ReadInv, CanRead
<1> QED BY <1>1, CopyInvariance, PTL
----------------------------------------------------------------------------
(* Which packages install.  After the last read the loop stands behind the *)
(* block that reaches into that buffer.                                    *)
EndInv ==
    WellPlaced =>
        /\ pc = "loop" /\ ~pkg.plain /\ raw >= Com
               => raw = LastEdge + Buf /\ Len(out) = Bridge
        /\ pc = "check" => IF pkg.plain THEN raw >= Com ELSE Len(out) >= n <=> Reached
        /\ pc = "done" => pkg.plain \/ Reached
        /\ pc = "failed" => ~pkg.plain /\ ~Reached

(* The last buffer that is read begins at LastEdge, and no other does.     *)
LEMMA LastBuffer ==
    ASSUME pkg \in Layouts
    PROVE  /\ LastEdge \in Nat /\ LastEdge < Com /\ Com <= LastEdge + Buf
           /\ \A x \in Nat : BufEdge(x) /\ x < Com /\ Com <= x + Buf => x = LastEdge
<1> DEFINE q == (Com - 1) \div Buf
           r == (Com - 1) % Buf
<1>1. Com \in Nat /\ Com > 0 /\ Buf \in Nat \ {0}
  BY LayoutFacts, SizeAssumption
<1>2. q \in Int /\ r \in 0..(Buf - 1) /\ Com - 1 = Buf * q + r
  <2>1. Com - 1 \in Int /\ Buf > 0
    BY <1>1
  <2> QED BY <1>1, <2>1, Division
<1>3. LastEdge = Buf * q
  BY DEF LastEdge
<1> HIDE DEF q, r
<1>4. q \in Nat
  <2> SUFFICES ASSUME q < 0 PROVE FALSE
    BY <1>2
  <2>1. Buf * 1 <= Buf * (-q)
    BY <1>1, <1>2, Multiples
  <2>2. Buf * 1 = Buf /\ Buf * (-q) = -(Buf * q)
    BY <1>1, <1>2
  <2> QED BY <1>1, <1>2, <2>1, <2>2
<1>5. LastEdge \in Nat /\ LastEdge < Com /\ Com <= LastEdge + Buf
  <2>1. Buf * q \in Nat
    BY <1>1, <1>4
  <2> QED BY <1>1, <1>2, <1>3, <2>1
<1>6. ASSUME NEW x \in Nat, BufEdge(x), x < Com, Com <= x + Buf
      PROVE  x = LastEdge
  <2>1. PICK m \in 0..x : x = m * Buf
    BY <1>6 DEF BufEdge
  <2>2. m \in Nat /\ m * Buf = Buf * m /\ Buf * (m + 1) = Buf * m + Buf
        /\ Buf * (q + 1) = Buf * q + Buf
    BY <1>1, <1>4
  <2>3. ~(m < q)
    <3> SUFFICES ASSUME m < q PROVE FALSE
      OBVIOUS
    <3>1. Buf * (m + 1) <= Buf * q
      BY <1>1, <1>4, <2>2, Multiples
    <3> QED BY <1>1, <1>3, <1>5, <1>6, <2>1, <2>2, <3>1
  <2>4. ~(q < m)
    <3> SUFFICES ASSUME q < m PROVE FALSE
      OBVIOUS
    <3>1. Buf * (q + 1) <= Buf * m
      BY <1>1, <1>4, <2>2, Multiples
    <3> QED BY <1>1, <1>3, <1>5, <1>6, <2>1, <2>2, <3>1
  <2> QED BY <1>3, <1>4, <2>1, <2>2, <2>3, <2>4
<1> QED BY <1>5, <1>6

(* The first block to end behind LastEdge is the one Bridge chooses.       *)
LEMMA BridgeIs ==
    ASSUME pkg \in Layouts, NEW b \in 1..n, Start(b) <= LastEdge, End(b) > LastEdge
    PROVE  Bridge = b
<1>1. /\ n \in Nat /\ LastEdge \in Nat
      /\ \A c \in 1..(n + 1) : Start(c) \in Nat
      /\ \A c \in 1..n : End(c) = Start(c + 1)
      /\ \A c, d \in 1..(n + 1) : c < d => Start(c) < Start(d)
  BY LayoutFacts, LastBuffer
<1>2. ASSUME NEW c \in 1..n, End(c) > LastEdge PROVE b <= c
  <2> SUFFICES ASSUME c < b PROVE FALSE
    BY <1>1
  <2>1. c + 1 \in 1..(n + 1) /\ b \in 1..(n + 1) /\ c + 1 <= b
    BY <1>1
  <2>2. End(c) <= Start(b)
    BY <1>1, <2>1
  <2>3. End(c) \in Nat /\ Start(b) \in Nat
    BY <1>1, <2>1
  <2> QED BY <1>1, <1>2, <2>2, <2>3
<1>3. \A c \in 1..n : (End(c) > LastEdge /\ \A d \in 1..n : End(d) > LastEdge => c <= d) => c = b
  BY <1>1, <1>2
<1> QED BY <1>2, <1>3 DEF Bridge

(* The read that brings the last buffer is for the block that reaches into *)
(* it.                                                                     *)
LEMMA LastRead ==
    ASSUME IndInv, IndInv', WellPlaced, pc = "loop", pc' = "loop", ~pkg.plain, pkg' = pkg,
           raw < Com, raw' = raw + Buf, raw' >= Com,
           NEW b \in 1..n, Start(b) <= raw, End(b) > raw, out' = Append(out, b)
    PROVE  raw' = LastEdge + Buf /\ Len(out') = Bridge
<1>1. pkg \in Layouts /\ raw \in Nat /\ BufEdge(raw) /\ Com \in Nat
  BY LoopFacts
<1>2. raw = LastEdge
  BY <1>1, LastBuffer
<1>3. b = Bridge
  BY <1>1, <1>2, BridgeIs
<1>4. InOrder' /\ Len(out') \in Nat /\ Len(out') > 0 /\ out'[Len(out')] = b
  <2>1. InOrder'
    BY SameLayout DEF IndInv, PlaceInv, KeepsItsPlace
  <2>2. out \in Seq(0..n)
    BY LoopFacts
  <2> QED BY <2>1, <2>2
<1>5. Len(out') = b
  BY <1>4 DEF InOrder
<1> QED BY <1>2, <1>3, <1>5

LEMMA SameEnd ==
    ASSUME pkg' = pkg
    PROVE  LastEdge' = LastEdge /\ Bridge' = Bridge /\ (Reached' <=> Reached)
BY DEF LastEdge, Bridge, Reached, Start, End, n, Com

(* A step of the loop.                                                     *)
LEMMA EndLoop ==
    ASSUME IndInv, IndInv', EndInv,
           FirstInBuffer \/ InsideBuffer \/ CrossesBuffer \/ SplitHeader
    PROVE  EndInv'
<1>1. PICK e, c : Turn(e, c)
  BY Turns
<1>2. /\ pc = "loop" /\ pc' = "loop" /\ ~pkg.plain /\ pkg' = pkg /\ raw < Com
      /\ c \in Pieces(Here) /\ out' = Append(out, c) /\ e \in Ends(Here)
      /\ raw' = raw \/ (raw' = raw + Buf /\ raw < e)
  BY <1>1 DEF Turn
<1>3. Com' = Com /\ (WellPlaced' <=> WellPlaced)
  BY <1>2, SameLayout
<1> SUFFICES ASSUME WellPlaced, raw' >= Com
             PROVE  raw' = LastEdge + Buf /\ Len(out') = Bridge
  BY <1>2, <1>3, SameEnd DEF EndInv
<1>4. raw' = raw + Buf /\ raw < e
  BY <1>2, LoopFacts
<1>5. /\ c = Len(out) + 1 /\ c \in 1..n /\ e = End(c) /\ Here <= raw
      /\ BlockAt(Here) = {Len(out) + 1}
  BY <1>2, NextPiece
<1>6. Start(c) <= raw /\ End(c) > raw
  <2>1. Start(c) = Here
    BY <1>5 DEF BlockAt
  <2>2. Start(c) \in Nat /\ End(c) \in Nat
    BY <1>5, LoopFacts, LayoutFacts
  <2> QED BY <1>4, <1>5, <2>1, <2>2, LoopFacts
<1> QED BY <1>2, <1>4, <1>5, <1>6, LastRead

(* What comes after the loop.                                              *)
LEMMA EndTail ==
    ASSUME IndInv, IndInv', EndInv, NoTail \/ TailBlock \/ TailFill \/ TailGarbage
    PROVE  EndInv'
<1>1. /\ pc = "loop" /\ raw >= Com /\ UNCHANGED <<pkg, raw, hdr>>
      /\ n' = n /\ Com' = Com /\ (WellPlaced' <=> WellPlaced)
      /\ pc' \in {"check", "failed", "stray"} /\ (pc' = "failed" => ~pkg.plain)
  BY SameLayout DEF NoTail, TailBlock, TailFill, TailGarbage, InTail, AtEnd
<1>2. CASE pkg.plain
  BY <1>1, <1>2 DEF EndInv
<1> SUFFICES ASSUME ~pkg.plain, WellPlaced
             PROVE  /\ pc' = "check" => (Len(out') >= n <=> Reached)
                    /\ pc' = "failed" => ~Reached
  BY <1>1, <1>2, SameEnd DEF EndInv
<1>3. /\ pkg \in Layouts /\ TypeOK /\ OnTrack /\ hdr \in 0..Buf /\ n \in Nat /\ Com \in Nat
      /\ raw = LastEdge + Buf /\ Len(out) = Bridge /\ Bridge \in Nat /\ Bridge <= n
      /\ LastEdge + hdr = Start(Bridge + 1) /\ Here = LastEdge + hdr
      /\ LastEdge \in Nat /\ Com <= LastEdge + Buf /\ Buf \in Nat /\ Hdr \in Nat
  <2>1. /\ pkg \in Layouts /\ TypeOK /\ hdr \in 0..Buf /\ n \in Nat /\ Com \in Nat
    BY LoopFacts
  <2>2. OnTrack
    BY <1>1 DEF IndInv, PlaceInv
  <2>3. raw = LastEdge + Buf /\ Len(out) = Bridge
    BY <1>1 DEF EndInv
  <2>4. Len(out) \in Nat
    BY <2>1 DEF TypeOK
  <2>5. LastEdge \in Nat /\ Com <= LastEdge + Buf
    BY <2>1, LastBuffer
  <2> QED BY <2>1, <2>2, <2>3, <2>4, <2>5, SizeAssumption DEF OnTrack, Here
<1>4. /\ Bridge < n => BlockAt(Here) = {Bridge + 1} /\ Start(Bridge + 1) + Hdr < Com
      /\ Bridge = n => BlockAt(Here) = {} /\ Here = Com
  <2>1. /\ Bridge < n => BlockAt(Here) = {Bridge + 1}
        /\ Bridge = n => BlockAt(Here) = {} /\ Here = Com
    BY <1>3, NextBlock
  <2>2. ASSUME Bridge < n PROVE Start(Bridge + 1) + Hdr < Com
    <3>1. Bridge + 1 \in 1..(n + 1) /\ n + 1 \in 1..(n + 1) /\ Bridge + 1 < n + 1
      BY <1>3, <2>2
    <3> QED BY <1>3, <3>1, LayoutFacts
  <2> QED BY <2>1, <2>2
<1>5. CASE NoTail
  <2>1. hdr + Hdr >= Buf /\ out' = out
    BY <1>3, <1>5 DEF NoTail, TailInBuffer
  <2>2. Bridge = n
    BY <1>3, <1>4, <2>1
  <2>3. LastEdge + Buf - Com <= Hdr
    BY <1>3, <1>4, <2>1, <2>2
  <2> QED BY <1>3, <1>5, <2>1, <2>2, <2>3 DEF NoTail, Reached
<1>6. CASE TailBlock
  <2>1. PICK b \in BlockAt(Here) : out' = Append(out, b)
    BY <1>6 DEF TailBlock
  <2>2. Bridge < n
    BY <1>3, <1>4, <2>1
  <2>3. Len(out') = Bridge + 1
    BY <1>3, <2>1 DEF TypeOK
  <2> QED BY <1>3, <1>6, <2>2, <2>3 DEF TailBlock, Reached
<1>7. CASE TailFill
  <2>1. /\ out' = out /\ hdr + Hdr < Buf /\ Here = Com
        /\ pc' = IF pkg.fill = "zeros" THEN "failed" ELSE "check"
    BY <1>7 DEF TailFill, InTail, TailInBuffer
  <2>2. Bridge = n
    BY <1>3, <1>4, <2>1
  <2>3. ~(LastEdge + Buf - Com <= Hdr)
    BY <1>3, <1>4, <2>1, <2>2
  <2>4. pkg.fill \in {"zeros", "erased"}
    BY <1>3, LayoutAssumption
  <2> QED BY <1>3, <1>4, <2>1, <2>2, <2>3, <2>4 DEF Reached
<1>8. CASE TailGarbage
  <2>1. BlockAt(Here) = {} /\ Here # Com
    BY <1>8 DEF TailGarbage
  <2>2. Bridge < n \/ Bridge = n
    BY <1>3
  <2> QED BY <1>4, <2>1, <2>2
<1> QED BY <1>5, <1>6, <1>7, <1>8

LEMMA EndStep ==
    ASSUME IndInv, IndInv', EndInv, [Next]_vars
    PROVE  EndInv'
<1>1. CASE CheckTotal
  <2>1. /\ pc = "check" /\ pkg' = pkg /\ (WellPlaced' <=> WellPlaced)
        /\ \/ pc' = "done" /\ (TotalReached \/ HasGarbage)
           \/ pc' = "failed" /\ (~TotalReached \/ HasGarbage)
    BY <1>1, SameLayout DEF CheckTotal
  <2>2. WellPlaced => ~HasGarbage
    BY LoopFacts, NoGarbage DEF IndInv, PlaceInv, KeepsItsPlace
  <2> QED BY <2>1, <2>2, SameEnd DEF EndInv, TotalReached
<1>2. CASE StartCopy
  <2>1. pc' = "loop" /\ raw' = 0 /\ Com' = Com
    BY <1>2, SameLayout DEF StartCopy
  <2> QED BY <2>1, LoopFacts DEF EndInv
<1>3. CASE VerifyRead \/ VerifyFails \/ CopyError \/ Overrun
  BY <1>3 DEF VerifyRead, VerifyFails, CopyError, Overrun, EndInv
<1>4. CASE PlainChunk
  BY <1>4 DEF PlainChunk, Looping, EndInv
<1>5. CASE HeaderFlush
  <2>1. pc' = "loop" /\ raw' = raw /\ raw < Com /\ Com' = Com
    BY <1>5, SameLayout DEF HeaderFlush, Packed, Looping
  <2> QED BY <2>1, LoopFacts DEF EndInv
<1>6. CASE UNCHANGED vars
  BY <1>6, SameLayout, SameEnd DEF vars, EndInv
<1> QED BY <1>1, <1>2, <1>3, <1>4, <1>5, <1>6, EndLoop, EndTail DEF Next, Work

(* Which well-placed packages the loop installs, and which it turns down   *)
(* after the application is erased: the precise form of what one more      *)
(* block after the last read comes to.                                     *)
THEOREM InstallsJustThese == Spec => []InstallsExactly
<1>1. Init => EndInv
  <2> SUFFICES ASSUME Init PROVE EndInv
    OBVIOUS
  <2>1. pc = "verify"
    BY DEF Init
  <2> QED BY <2>1 DEF EndInv
<1>2. IndInv /\ IndInv' /\ EndInv /\ [Next]_vars => EndInv'
  BY EndStep
<1>3. IndInv /\ EndInv => InstallsExactly
  BY DEF EndInv, InstallsExactly
<1> QED BY <1>1, <1>2, <1>3, CopyInvariance, PTL DEF Spec
----------------------------------------------------------------------------
(* The turns of the loop are bounded.                                      *)
LEMMA FurtherOn ==
    ASSUME IndInv, Work, pc = "loop", pc' = "loop"
    PROVE  Here < Here' /\ Here' <= Com + Buf
<1>1. /\ raw \in Nat /\ hdr \in 0..Buf /\ Com \in Nat
      /\ Buf \in Nat /\ Hdr \in Nat /\ 0 < Hdr /\ Hdr < Buf
      /\ Here = raw - Buf + hdr /\ Here' = raw' - Buf + hdr'
  BY LoopFacts DEF Here
<1>2. CASE FirstInBuffer \/ InsideBuffer \/ CrossesBuffer \/ SplitHeader
  <2>1. Here < Here' /\ Here' <= raw + Buf /\ raw < Com
    BY <1>2, Turns DEF Turn
  <2>2. Here' \in Int
    <3>1. raw' \in Nat /\ hdr' \in 0..Buf
      BY <1>2, Turns DEF Turn
    <3> QED BY <1>1, <3>1
  <2> QED BY <1>1, <2>1, <2>2
<1>3. CASE PlainChunk
  BY <1>1, <1>3 DEF PlainChunk, Looping, Refill
<1>4. CASE HeaderFlush
  BY <1>1, <1>4 DEF HeaderFlush, Packed, Looping
<1>5. ~(VerifyRead \/ VerifyFails \/ StartCopy \/ Overrun \/ NoTail \/ TailBlock \/ TailFill
        \/ TailGarbage \/ CheckTotal)
  BY DEF VerifyRead, VerifyFails, StartCopy, Overrun, NoTail, TailBlock, TailFill, TailGarbage,
     CheckTotal
<1> QED BY <1>2, <1>3, <1>4, <1>5 DEF Work

(* rt_fota_upgrade looks for no block header twice, and for none more than *)
(* one buffer behind the package: the loop cannot turn for ever, whatever  *)
(* the package and whatever it takes for the sizes of its blocks.          *)
THEOREM CopyAdvances == Spec => Advances
<1>1. IndInv /\ [Next]_vars
      => [pc = "loop" /\ pc' = "loop" => Here < Here' /\ Here' <= Com + Buf]_vars
  <2>1. CopyError => pc' # "loop"
    BY DEF CopyError
  <2> QED BY <2>1, FurtherOn DEF Next
<1> QED BY <1>1, CopyInvariance, PTL DEF Spec, Advances
=============================================================================
