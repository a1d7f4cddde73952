----------------------------- MODULE MCSerialLine -----------------------------
(* Bytes that tell the header from the rest, and a check that changes with *)
(* any one of the bytes it covers, as the exclusive or of crc_16 does.     *)
EXTENDS SerialLine

MCBytes == {"fe", "ef", "ff", "x", "y"}
Code == [d \in MCBytes |-> CASE d = "fe" -> 1 [] d = "ef" -> 2 [] d = "ff" -> 3
                             [] d = "x" -> 0 [] d = "y" -> 4]
MCCheckOf == [s \in [1..3 -> MCBytes] |->
                  CHOOSE d \in MCBytes : Code[d] = (Code[s[1]] + Code[s[2]] + Code[s[3]]) % 5]

\* One command, with the first byte of a header in it.
MCCommands == {<<"fe", "x", "y", "x", "x">>}
=============================================================================
