------------------------------ MODULE MCFotaCopy ------------------------------
(* Every compressed package of up to MaxBlocks blocks of 1..MaxBlock bytes, *)
(* with either fill, and every plain one, up to one byte more than the     *)
(* partition holds: in some the last buffer lies only partly in it.        *)
EXTENDS FotaCopy, SequencesExt

CONSTANTS MaxBlocks, MaxBlock

MCOff(s)   == [b \in 1..(Len(s) + 1) |->
                  FoldLeft(LAMBDA sum, size : sum + Hdr + size, 0, SubSeq(s, 1, b - 1))]
MCPlain(c) == [b \in 1..((c + Buf - 1) \div Buf + 1) |->
                  IF (b - 1) * Buf < c THEN (b - 1) * Buf ELSE c]

MCSizes == UNION {[1..k -> 1..MaxBlock] : k \in 1..MaxBlocks}

MCLayouts ==
    [plain : {FALSE}, fill : {"zeros", "erased"},
     off : {off \in {MCOff(s) : s \in MCSizes} : off[Len(off)] <= Room + 1}] \cup
    [plain : {TRUE}, fill : {"erased"}, off : {MCPlain(c) : c \in 1..(Room + 1)}]
=============================================================================
