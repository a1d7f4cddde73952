------------------------------- MODULE FotaCopy -------------------------------
(***************************************************************************)
(* The copy loop of rt_fota_upgrade: how a compressed package is cut out   *)
(* of the fixed-size buffers it is read in, and what the loop and its tail *)
(* make of the last buffer; before it, the reads of rt_fota_part_fw_verify *)
(* that let a package through to it.  RtFota takes the whole loop as "the  *)
(* first Decodes[i] chunks, in order"; this module says when that is so.   *)
(*                                                                         *)
(* A compressed package is a row of blocks, each a size field of Hdr bytes *)
(* and the bytes it counts; a plain one is cut into buffers.  off[b] is    *)
(* where block b starts in the package, off[n + 1] is com_size.  The block *)
(* in crypt_buf is found by its place.  Anywhere but at the start of a     *)
(* block the loop takes other bytes for a size, which may be any number,   *)
(* and goes on; it is followed until a memcpy or a decompression leaves    *)
(* its buffers ("stray"), from where on the program has no meaning and     *)
(* nothing is claimed.                                                     *)
(***************************************************************************)
EXTENDS Integers, Sequences

CONSTANTS
    Buf,      \* RT_FOTA_ALGO_BUFF_SIZE
    Hdr,      \* RT_FOTA_BLOCK_HEADER_SIZE
    Cap,      \* what cmprs_buff holds: RT_FOTA_CMPRS_BUFFER_SIZE and its padding
    Room,     \* bytes of the partition after the header
    Layouts   \* the packages: [plain, off, fill]

ASSUME SizeAssumption ==
    /\ Buf \in Nat /\ Hdr \in Nat /\ Cap \in Nat /\ Room \in Nat
    /\ 0 < Hdr /\ Hdr < Buf /\ Buf <= Cap

\* A multiple of the buffer size: where in the package one buffer ends.
BufEdge(x) == \E m \in 0..x : x = m * Buf

ASSUME LayoutAssumption ==
    \A p \in Layouts :
        /\ p.plain \in BOOLEAN /\ p.fill \in {"zeros", "erased"}
        /\ p.off \in Seq(Nat) /\ Len(p.off) > 1 /\ p.off[1] = 0
        /\ \A b, c \in 1..Len(p.off) : b < c =>
               IF p.plain THEN p.off[b] < p.off[c] ELSE p.off[b] + Hdr < p.off[c]
        /\ p.plain => \A b \in 1..(Len(p.off) - 1) :
               IF b + 1 = Len(p.off) THEN p.off[b + 1] <= p.off[b] + Buf
                                     ELSE p.off[b + 1] = p.off[b] + Buf

VARIABLES
    pkg,   \* the package in the partition
    pc,    \* "verify", "loop", "check", or how it ended: "rejected" by the
           \* verification, "done" RT_FOTA_NO_ERR, "failed" RT_FOTA_GENERAL_ERR,
           \* "error" a return from within, "stray" out of the buffers
    raw,   \* fw_raw_pos (in the verification body_pos): bytes read so far
    hdr,   \* block_hdr_pos: where in crypt_buf the next header starts
    out    \* the pieces written to "app", the last one still in cmprs_buff:
           \* blocks, or Garbage where no block started

vars == <<pkg, pc, raw, hdr, out>>

n      == Len(pkg.off) - 1
Start(b) == pkg.off[b]
End(b)   == pkg.off[b + 1]
Com    == pkg.off[n + 1]

\* What "a block" decodes to that is none.
Garbage == 0

\* Where in the package the byte crypt_buf[block_hdr_pos] comes from.
Here == raw - Buf + hdr

BlockAt(p) == {b \in 1..n : Start(b) = p}
\* cmprs_buff can hold a whole buffer, so only a block over two can be too big.
FitsBuffer(b) == End(b) - Start(b) - Hdr <= Cap

\* What a header at p leads to: the end of its block and the block; or any
\* size, those above Cap being all alike (0 does not decompress: CopyError).
Ends(p)   == IF BlockAt(p) # {} THEN {End(b) : b \in BlockAt(p)}
                                ELSE {p + Hdr + size : size \in 1..(Cap + 1)}
Pieces(p) == IF BlockAt(p) # {} THEN BlockAt(p) ELSE {Garbage}

\* The bytes counted by the header are in crypt_buf, once it is read again,
\* and have room in cmprs_buff.
Holds(e) == e <= raw + Buf /\ e - Here - Hdr <= Cap
----------------------------------------------------------------------------
Init == /\ pkg \in Layouts
        /\ pc = "verify" /\ raw = 0 /\ hdr = Buf /\ out = <<>>

\* Mutant: the verification asks only for what is left of the package.
VerifyReadsRest ==
    /\ pc = "verify" /\ raw < Com
    /\ raw' = IF raw + Buf > Com THEN Com ELSE raw + Buf
    /\ raw' <= Room
    /\ UNCHANGED <<pkg, pc, hdr, out>>

\* The CRC is taken of the package only, but whole buffers are read.
VerifyRead ==
    /\ pc = "verify" /\ raw < Com /\ raw + Buf <= Room
    /\ raw' = IF raw + Buf > Com THEN Com ELSE raw + Buf
    /\ UNCHANGED <<pkg, pc, hdr, out>>

\* A read past the partition or one that fails, or a wrong CRC.
VerifyFails == /\ pc = "verify" /\ pc' = "rejected"
               /\ UNCHANGED <<pkg, raw, hdr, out>>

\* The package is accepted, and the application erased.
StartCopy == /\ pc = "verify" /\ raw >= Com
             /\ pc' = "loop" /\ raw' = 0
             /\ UNCHANGED <<pkg, hdr, out>>
----------------------------------------------------------------------------
Looping == pc = "loop" /\ raw < Com
Packed  == Looping /\ ~pkg.plain

\* rt_fota_read_part: the next buffer; always a whole one, or an error.
Refill == raw + Buf <= Room /\ raw' = raw + Buf

\* Decompress what is in cmprs_buff and write it.
Decode == \E c \in Pieces(Here) : out' = Append(out, c)

\* Any allocation, read, decompression or write may fail.
CopyError == /\ pc = "loop" /\ pc' = "error"
             /\ UNCHANGED <<pkg, raw, hdr, out>>

PlainChunk == /\ Looping /\ pkg.plain /\ Refill
              /\ out' = Append(out, Len(out) + 1)
              /\ UNCHANGED <<pkg, pc, hdr>>

\* The next block starts a new buffer.
FirstInBuffer ==
    /\ Packed /\ hdr >= Buf /\ Refill
    /\ \E e \in Ends(Here) : Holds(e) /\ hdr' = e - raw
    /\ Decode
    /\ UNCHANGED <<pkg, pc>>

\* Header and body are both in the buffer.
InsideBuffer ==
    /\ Packed /\ hdr + Hdr < Buf
    /\ \E e \in Ends(Here) : e <= raw /\ hdr' = e - raw + Buf
    /\ Decode
    /\ UNCHANGED <<pkg, pc, raw>>

\* Mutant: the position is still counted from the buffer the body began in.
CrossNoWrap ==
    /\ Packed /\ hdr + Hdr < Buf /\ Refill
    /\ \E e \in Ends(Here) : e > raw /\ Holds(e) /\ hdr' = e - raw + Buf
    /\ Decode
    /\ UNCHANGED <<pkg, pc>>

\* The body goes on in the next buffer.
CrossesBuffer ==
    /\ Packed /\ hdr + Hdr < Buf /\ Refill
    /\ \E e \in Ends(Here) : e > raw /\ Holds(e) /\ hdr' = e - raw
    /\ Decode
    /\ UNCHANGED <<pkg, pc>>

\* Mutant: the loop waits for a body byte that is not in this buffer.
FlushWaits == Packed /\ hdr + Hdr = Buf /\ UNCHANGED vars

\* Mutant: the position stays on the header that has been read.
FlushStays == /\ Packed /\ hdr + Hdr = Buf
              /\ out' = Append(out, out[Len(out)])
              /\ UNCHANGED <<pkg, pc, raw, hdr>>

\* The header ends with the buffer: the inner while loop is over before it
\* comes to the body, so the piece still in cmprs_buff is written once more,
\* and the body taken for a header in the next turn.
HeaderFlush ==
    /\ Packed /\ hdr + Hdr = Buf
    /\ hdr' = Buf
    /\ out' = Append(out, out[Len(out)])
    /\ UNCHANGED <<pkg, pc, raw>>

\* Mutant: the position after a split header is counted from its first byte.
SplitFromHeader ==
    /\ Packed /\ hdr < Buf /\ hdr + Hdr > Buf /\ Refill
    /\ \E e \in Ends(Here) : Holds(e) /\ hdr' = (e - Here) % Buf
    /\ Decode
    /\ UNCHANGED <<pkg, pc>>

\* The header itself goes on in the next buffer; the position is taken % Buf.
SplitHeader ==
    /\ Packed /\ hdr < Buf /\ hdr + Hdr > Buf /\ Refill
    /\ \E e \in Ends(Here) : Holds(e) /\ hdr' = (e - raw) % Buf
    /\ Decode
    /\ UNCHANGED <<pkg, pc>>

\* The memcpy of one of the four branches above runs out of crypt_buf or
\* cmprs_buff; garbage can also decompress to more than dcprs_buff holds.
Overrun ==
    /\ Packed /\ hdr + Hdr # Buf
    /\ \E e \in Ends(Here) : ~Holds(e)
    /\ pc' = "stray"
    /\ UNCHANGED <<pkg, raw, hdr, out>>
----------------------------------------------------------------------------
(* After the last read: at most one more block, and nothing else looked at. *)
AtEnd == pc = "loop" /\ raw >= Com
TailInBuffer == hdr + Hdr < Buf

\* Mutant: what is left in the last buffer is never looked at.
TailIgnored == /\ AtEnd /\ pc' = "check"
               /\ UNCHANGED <<pkg, raw, hdr, out>>

NoTail == /\ AtEnd
          /\ pkg.plain \/ ~TailInBuffer
          /\ pc' = "check"
          /\ UNCHANGED <<pkg, raw, hdr, out>>

InTail == AtEnd /\ ~pkg.plain /\ TailInBuffer

TailBlock ==
    /\ InTail
    /\ \E b \in BlockAt(Here) : out' = Append(out, b)
    /\ pc' = "check"
    /\ UNCHANGED <<pkg, raw, hdr>>

\* Mutant: only the copy depends on the size, not the decompression, and the
\* piece still in cmprs_buff is written once more.
FillWritesOld ==
    /\ InTail /\ Here = Com
    /\ pc' = "check" /\ out' = Append(out, out[Len(out)])
    /\ UNCHANGED <<pkg, raw, hdr>>

\* Right behind the package: erased flash reads as a size that cannot fit, the
\* zeros of the sender's padding as an empty block, which does not decompress.
TailFill ==
    /\ InTail /\ Here = Com
    /\ pc' = IF pkg.fill = "zeros" THEN "failed" ELSE "check"
    /\ UNCHANGED <<pkg, raw, hdr, out>>

\* Off the places of headers: a size that fits what is left, or one too big.
TailGarbage ==
    /\ InTail /\ BlockAt(Here) = {} /\ Here # Com
    /\ \/ pc' = "check" /\ out' \in {out, Append(out, Garbage)}
       \/ pc' = "stray" /\ out' = out
    /\ UNCHANGED <<pkg, raw, hdr>>

\* total_copy_size against raw_size; what garbage adds to it may be anything.
TotalReached == IF pkg.plain THEN raw >= Com ELSE Len(out) >= n
HasGarbage   == \E k \in 1..Len(out) : out[k] = Garbage
CheckTotal ==
    /\ pc = "check"
    /\ \/ pc' = "done"   /\ (TotalReached \/ HasGarbage)
       \/ pc' = "failed" /\ (~TotalReached \/ HasGarbage)
    /\ UNCHANGED <<pkg, raw, hdr, out>>
----------------------------------------------------------------------------
Work == \/ VerifyRead \/ VerifyFails \/ StartCopy
        \/ PlainChunk \/ FirstInBuffer \/ InsideBuffer \/ CrossesBuffer
        \/ HeaderFlush \/ SplitHeader \/ Overrun
        \/ NoTail \/ TailBlock \/ TailFill \/ TailGarbage \/ CheckTotal

Next == Work \/ CopyError

Spec == Init /\ [][Next]_vars

\* The boot thread runs the loop, and nothing else keeps it from running.
FairSpec == Spec /\ WF_vars(Work)
----------------------------------------------------------------------------
TypeOK ==
    /\ pc \in {"verify", "rejected", "loop", "check", "done", "failed", "error", "stray"}
    /\ raw \in Nat /\ (pc \notin {"verify", "rejected"} => BufEdge(raw))
    /\ hdr \in 0..Buf
    /\ out \in Seq(0..n)

InOrder == \A k \in 1..Len(out) : out[k] = k

(* A package the loop can follow: no block needs more than one new buffer, *)
(* no header ends with a buffer, and a block whose header is split over    *)
(* two buffers ends before the second one does.                            *)
Edges == {e \in 0..Com : BufEdge(e)}
WellPlaced ==
    \A b \in 1..n :
        /\ FitsBuffer(b)
        /\ \A e \in Edges :
              /\ Start(b) + Hdr # e
              /\ Start(b) <= e /\ e < End(b) => End(b) <= e + Buf
              /\ Start(b) < e /\ e < Start(b) + Hdr => End(b) < e + Buf

(* Of a well-placed package every block is written at most once, in order, *)
(* whatever buffers it falls into, and no copy leaves its buffer: no       *)
(* branch of the loop loses its place.  RT_FOTA_NO_ERR then means all the  *)
(* blocks.                                                                 *)
KeepsItsPlace ==
    WellPlaced => pc # "stray" /\ InOrder /\ (pc = "done" => Len(out) = n)

(* Of any package, also after garbage has been taken for a size and the    *)
(* loop has come upon a header again: the blocks that are written are      *)
(* written in their order and once each, but for the one before a header   *)
(* that ends with a buffer, which is written twice in a row.               *)
FlushHeader(b) == b \in 1..n /\ Start(b) + Hdr \in Edges
RepeatsOnlyFlush ==
    \A k \in 1..Len(out) : \A j \in 1..(k - 1) :
        out[j] # Garbage /\ out[k] # Garbage =>
            \/ out[j] < out[k]
            \/ out[j] = out[k] /\ k = j + 1 /\ FlushHeader(out[j] + 1)

(* The first block that is not complete before the last buffer is the last *)
(* one the loop decodes; the tail takes one more.                          *)
LastEdge == Buf * ((Com - 1) \div Buf)
Bridge   == CHOOSE b \in 1..n : End(b) > LastEdge /\ \A c \in 1..n : End(c) > LastEdge => b <= c
Reached  == \/ Bridge + 1 = n
            \/ Bridge = n /\ (pkg.fill = "erased" \/ LastEdge + Buf - Com <= Hdr)

(* The inductive invariant, in three parts beside the type.  Verification  *)
(* has read whole buffers up to where it is, and the copy starts when that *)
(* is all of them.                                                         *)
CanRead(x) == \A e \in 0..(x - 1) : BufEdge(e) => e + Buf <= Room
ReadInv ==
    /\ pc = "verify" => raw <= Com /\ (raw < Com => BufEdge(raw)) /\ CanRead(raw)
    /\ pc = "loop" => CanRead(Com)

(* The loop has every block it wrote behind it; when it looks for a header *)
(* in the buffer it stands at the end of the last one, or at the start of  *)
(* the buffer after a split block that ended with it.                      *)
Behind == \A k \in 1..Len(out) : out[k] # Garbage => Start(out[k]) < Here
AtLast == hdr < Buf =>
             /\ out # <<>>
             /\ LET last == out[Len(out)] IN last # Garbage =>
                    /\ Here = End(last) \/ hdr = 0
                    /\ \A k \in 1..(Len(out) - 1) : out[k] # last
OrderInv ==
    /\ RepeatsOnlyFlush
    /\ pc = "verify" => hdr = Buf /\ out = <<>>
    /\ pc = "loop" => Behind /\ AtLast

(* Of a well-placed package it stands at the start of the next block.      *)
OnTrack == InOrder /\ Len(out) <= n /\ Here = Start(Len(out) + 1)
AtChunk == /\ InOrder /\ Len(out) <= n /\ hdr = Buf
           /\ raw = Start(Len(out) + 1) \/ (Len(out) = n /\ raw >= Com)
PlaceInv ==
    /\ KeepsItsPlace
    /\ pc = "loop" => IF pkg.plain THEN AtChunk ELSE WellPlaced => OnTrack
    /\ pc = "check" => /\ WellPlaced => Len(out) <= n
                       /\ pkg.plain => InOrder /\ Len(out) = n

IndInv == pkg \in Layouts /\ TypeOK /\ ReadInv /\ OrderInv /\ PlaceInv

(* Which well-placed packages install: exactly those that end in the last  *)
(* buffer with one block after the one that reaches into it, or with none  *)
(* and no padding behind.                                                  *)
InstallsExactly ==
    pc \in {"done", "failed"} /\ WellPlaced => (pc = "done" <=> pkg.plain \/ Reached)

(* The copy asks for whole buffers, also for the last, and gets them where *)
(* the verification did: the application is not erased for a package that  *)
(* lies in the partition but whose last buffer does not.                   *)
CopyReadsInside == pc = "loop" /\ raw < Com => raw + Buf <= Room

(* Each turn of the loop looks for its next header further on in the       *)
(* package, and never more than a buffer behind its end, also where it     *)
(* took garbage for a size: this is what bounds the turns.                 *)
Advances ==
    [][pc = "loop" /\ pc' = "loop" => Here < Here' /\ Here' <= Com + Buf]_vars

(* The loop comes to an end on every package, well placed or not, that     *)
(* does not lead it out of its buffers.                                    *)
CopyEnds == [](pc # "stray") => <>(pc \in {"rejected", "done", "failed", "error"})

(* The comment above the size check: the total "must be greater than or    *)
(* equal to raw_size".  It is not, for packages whose last buffer holds    *)
(* more than one whole block.                                              *)
DecodedReachesRawSize == WellPlaced /\ pc = "check" => TotalReached
=============================================================================
