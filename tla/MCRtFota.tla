------------------------------- MODULE MCRtFota -------------------------------
(* Model values for RtFota: a one-chunk release and a larger one, a package *)
(* in an unsupported format, one whose last block the loop does not reach,  *)
(* one too large for "app" and one the header check turns down.             *)
EXTENDS RtFota

CONSTANTS small, large, gzip, short, huge, alien, LargeChunks

MCVersion == [i \in Images |->
                 CASE i = small -> "1.0.7" [] i = large -> "1.0.8" [] OTHER -> "1.0.9"]
MCChunks  == [i \in Images |->
                 CASE i \in {large, short} -> LargeChunks [] i = huge -> 5 [] OTHER -> 1]
MCDecodes == [i \in Images |-> IF i = short THEN LargeChunks - 1 ELSE MCChunks[i]]
MCAccepted == Images \ {alien}
MCRejected == Images \cap {gzip}
=============================================================================
