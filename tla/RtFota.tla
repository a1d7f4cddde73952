-------------------------------- MODULE RtFota --------------------------------
(***************************************************************************)
(* The boot loader of the main board (applications/rt_fota.c) and the      *)
(* three flash partitions it shares with the application: "app" holds the  *)
(* program, "fm" (fm_area) the downloaded package, "df" (df_area) the      *)
(* factory package.  The model follows a unit over any number of boots;    *)
(* power may be lost between any two steps and in the middle of every      *)
(* flash operation.  The application is modelled by what it does to "fm":  *)
(* the download of protocol/mcu_upgrade.c.                                 *)
(*                                                                         *)
(* Flash is counted in chunks of 4096 bytes, the unit in which             *)
(* rt_fota_upgrade copies.  Chunk n of image i is <<i, n>>; a package is a *)
(* header followed by the chunks of its image.                             *)
(***************************************************************************)
EXTENDS Integers

CONSTANTS
    Images,        \* the packages the packaging tool has produced
    NoImage,       \* not an image: erased flash, or nothing
    Version,       \* Version[i]: the download_version field of i's header
    Fresh,         \* current_version as the packaging tool writes it
    Accepted,      \* images whose header says type "RBL" and partition "app"
    Rejected,      \* images whose fota_algo is XOR or GZIP
    Chunks,        \* Chunks[i]: raw_size of i, in chunks
    Decodes,       \* Decodes[i]: the chunks the copy loop gets out of i
    AppChunks,     \* length of "app"
    SectorChunks,  \* erase unit of the on-chip flash
    PackChunks,    \* body chunks "fm" and "df" have room for
    Faults,        \* TRUE: flash operations and rt_malloc may fail
    Keys,          \* keys the operator may press: subset of {"default", "enter"}
    Commands       \* shell commands used: subset of {"probe", "clone", "exec", "ymdown"}

ASSUME ImageAssumption ==
    /\ NoImage \notin Images
    /\ Version \in [Images -> STRING] /\ Fresh \in STRING
    /\ \A i \in Images : Version[i] # Fresh
    /\ Accepted \subseteq Images /\ Rejected \subseteq Images
    /\ Chunks \in [Images -> Nat \ {0}]
    /\ Decodes \in [Images -> Nat]
    /\ \A i \in Images : Decodes[i] <= Chunks[i]

ASSUME FlashAssumption ==
    /\ AppChunks \in Nat \ {0} /\ SectorChunks \in Nat \ {0}
    /\ AppChunks % SectorChunks = 0
    /\ PackChunks \in Nat \ {0}

ASSUME EnvironmentAssumption ==
    /\ Faults \in BOOLEAN
    /\ Keys \subseteq {"default", "enter"}
    /\ Commands \subseteq {"probe", "clone", "exec", "ymdown"}

VARIABLES
    app,     \* flash: the chunks of "app"
    pack,    \* flash: header and body of "fm" and "df"
    pc,      \* where the processor is
    src,     \* RAM: the part_name under verification or installation
    head,    \* RAM: fota_part_head, the header last verified
    pos,     \* RAM: sectors erased, or units copied or written so far
    cache,   \* RAM: cache_buf of rt_fota_copy_version
    dl,      \* RAM: the image a transfer is delivering
    tgt,     \* RAM: the partition a transfer or a clone writes
    writer   \* history: the package "app" was last overwritten from

flash == <<app, pack>>
ram == <<src, head, pos, cache, dl, tgt>>
vars == <<app, pack, pc, src, head, pos, cache, dl, tgt, writer>>
----------------------------------------------------------------------------
\* Flash contents.  Garbage stands for whatever an interrupted operation leaves.
Packages == {"fm", "df"}
Blank    == <<NoImage, 0>>
Garbage  == <<NoImage, 1>>
Content  == (Images \X Nat) \cup {Blank, Garbage}
NoHead   == [img |-> NoImage, current |-> Fresh]
Header   == [img : Images, current : STRING] \cup {NoHead}
PackType == [head : Header, body : [1..PackChunks -> Content]]
NoCache  == [head |-> NoHead, first |-> Blank]

BlankApp  == [k \in 1..AppChunks |-> Blank]
BlankBody == [k \in 1..PackChunks |-> Blank]
BlankPack == [head |-> NoHead, body |-> BlankBody]
Package(i) == [head |-> [img |-> i, current |-> Fresh],
               body |-> [k \in 1..PackChunks |->
                            IF k <= Chunks[i] THEN <<i, k>> ELSE Blank]]
Program(old, new) == IF old = Blank THEN new ELSE Garbage

\* The outcome of rt_fota_part_fw_verify when no read fails.
Intact(i, body) == Chunks[i] <= PackChunks /\ \A k \in 1..Chunks[i] : body[k] = <<i, k>>
Verified(p) == LET i == pack[p].head.img
               IN  i \in Accepted /\ Intact(i, pack[p].body)

\* rt_fota_check_upgrade, on a header.
Differs(h) == h.img # NoImage /\ Version[h.img] # h.current
Pending(p) == Differs(pack[p].head)

AppIs(i)    == Chunks[i] <= AppChunks /\ \A k \in 1..Chunks[i] : app[k] = <<i, k>>
AppComplete == \E i \in Images : AppIs(i)

Sector(s)     == {k \in 1..AppChunks : k > s * SectorChunks /\ k <= (s + 1) * SectorChunks}
Fill(f, S, v) == [k \in DOMAIN f |-> IF k \in S THEN v ELSE f[k]]

\* Where rt_fota_thread_entry goes on when an installation fails.
AfterFailure == IF src = "fm" THEN "start" ELSE "shell"
----------------------------------------------------------------------------
Init ==
    /\ app \in {[k \in 1..AppChunks |-> IF k <= Chunks[i] THEN <<i, k>> ELSE Blank] :
                    i \in {j \in Images : Chunks[j] <= AppChunks}}
    /\ pack \in [Packages -> {BlankPack} \cup
                    {Package(i) : i \in {j \in Images : Chunks[j] <= PackChunks}}]
    /\ pc = "off"
    /\ src = "fm" /\ head = NoHead /\ pos = 0 /\ cache = NoCache
    /\ dl = NoImage /\ tgt = "fm"
    /\ writer = "df"

\* Reset vector of the boot loader: RAM starts from nothing.
Restart ==
    /\ pc' = "keys"
    /\ src' = "fm" /\ head' = NoHead /\ pos' = 0 /\ cache' = NoCache
    /\ dl' = NoImage /\ tgt' = "fm"

PowerOn == pc = "off" /\ Restart /\ UNCHANGED <<flash, writer>>

\* Mutant: the restore reads the partition it is going to erase.
DefaultKeyFromApp == /\ pc = "keys" /\ "default" \in Keys
                     /\ pc' = "verify" /\ src' = "app"
                     /\ UNCHANGED <<flash, head, pos, cache, dl, tgt, writer>>

DefaultKey == /\ pc = "keys" /\ "default" \in Keys
              /\ pc' = "verify" /\ src' = "df"
              /\ UNCHANGED <<flash, head, pos, cache, dl, tgt, writer>>

EnterKey == /\ pc = "keys" /\ "enter" \in Keys
            /\ pc' = "shell"
            /\ UNCHANGED <<flash, ram, writer>>

NoKey == /\ pc = "keys"
         /\ pc' = "verify" /\ src' = "fm"
         /\ UNCHANGED <<flash, head, pos, cache, dl, tgt, writer>>

\* Mutant: the CRC of the body is not compared.
VerifyHeaderOnly ==
    /\ pc = "verify" /\ pack[src].head.img \in Accepted
    /\ head' = pack[src].head /\ pos' = 0
    /\ pc' = IF src = "fm" THEN "check" ELSE "erase"
    /\ UNCHANGED <<flash, src, cache, dl, tgt, writer>>

VerifyOK == /\ pc = "verify" /\ Verified(src)
            /\ head' = pack[src].head
            /\ pc' = IF src = "fm" THEN "check" ELSE "erase"
            /\ pos' = 0
            /\ UNCHANGED <<flash, src, cache, dl, tgt, writer>>

VerifyFailed == /\ pc = "verify" /\ (~Verified(src) \/ Faults)
                /\ head' = NoHead
                /\ pc' = AfterFailure
                /\ UNCHANGED <<flash, src, pos, cache, dl, tgt, writer>>

\* Mutants: the versions are not compared; they are compared the wrong way round.
UpgradeAlways == /\ pc = "check" /\ pc' = "erase"
                 /\ UNCHANGED <<flash, ram, writer>>
CheckInverted == /\ pc = "check"
                 /\ pc' = IF Differs(head) THEN "start" ELSE "erase"
                 /\ UNCHANGED <<flash, ram, writer>>

CheckUpgrade == /\ pc = "check"
                /\ pc' = IF Differs(head) THEN "erase" ELSE "start"
                /\ UNCHANGED <<flash, ram, writer>>

\* rt_fota_erase_app_part: the range check comes before the first sector.
EraseTooLarge == /\ pc = "erase" /\ Chunks[head.img] > AppChunks
                 /\ pc' = AfterFailure
                 /\ UNCHANGED <<flash, ram, writer>>

Erasing == /\ pc = "erase" /\ Chunks[head.img] <= AppChunks
           /\ pos * SectorChunks < Chunks[head.img]

EraseSector == /\ Erasing
               /\ app' = Fill(app, Sector(pos), Blank)
               /\ pos' = pos + 1
               /\ writer' = src
               /\ UNCHANGED <<pack, pc, src, head, cache, dl, tgt>>

\* Mutants: the last sector is left out; the algorithm check is inverted.
EraseDoneEarly ==
    /\ pc = "erase" /\ Chunks[head.img] <= (pos + 1) * SectorChunks
    /\ pc' = IF head.img \in Rejected THEN AfterFailure ELSE "copy"
    /\ pos' = 0
    /\ UNCHANGED <<flash, src, head, cache, dl, tgt, writer>>
EraseDoneRejects ==
    /\ pc = "erase" /\ Chunks[head.img] <= pos * SectorChunks
    /\ pc' = IF head.img \in Rejected THEN "copy" ELSE AfterFailure
    /\ pos' = 0
    /\ UNCHANGED <<flash, src, head, cache, dl, tgt, writer>>

EraseDone == /\ pc = "erase" /\ Chunks[head.img] <= pos * SectorChunks
             /\ pc' = IF head.img \in Rejected THEN AfterFailure ELSE "copy"
             /\ pos' = 0
             /\ UNCHANGED <<flash, src, head, cache, dl, tgt, writer>>

CopyChunk == /\ pc = "copy" /\ pos < Decodes[head.img]
             /\ app' = [app EXCEPT ![pos + 1] = Program(@, pack[src].body[pos + 1])]
             /\ pos' = pos + 1
             /\ UNCHANGED <<pack, pc, src, head, cache, dl, tgt, writer>>

\* Mutant: total_copy_size is not compared with raw_size.
CopyDoneUnchecked ==
    /\ pc = "copy" /\ pos = Decodes[head.img]
    /\ pc' = IF src = "fm" THEN "commit" ELSE "start"
    /\ UNCHANGED <<flash, ram, writer>>

\* After the loop: total_copy_size against raw_size.
CopyDone == /\ pc = "copy" /\ pos = Decodes[head.img]
            /\ pc' = IF pos < Chunks[head.img] THEN AfterFailure
                     ELSE IF src = "fm" THEN "commit" ELSE "start"
            /\ UNCHANGED <<flash, ram, writer>>

\* Mutant: current_version is written back as it was.
CommitUnchanged ==
    /\ pc = "commit" /\ pc' = "commitWrite"
    /\ cache' = [head |-> pack["fm"].head, first |-> pack["fm"].body[1]]
    /\ pack' = [pack EXCEPT !["fm"].head = NoHead, !["fm"].body[1] = Blank]
    /\ UNCHANGED <<app, src, head, pos, dl, tgt, writer>>

\* rt_fota_copy_version: the header and the start of the body share a sector.
CommitErase == /\ pc = "commit"
               /\ cache' = [head  |-> [pack["fm"].head EXCEPT !.current = Version[pack["fm"].head.img]],
                            first |-> pack["fm"].body[1]]
               /\ pack' = [pack EXCEPT !["fm"].head = NoHead, !["fm"].body[1] = Blank]
               /\ pc' = "commitWrite"
               /\ UNCHANGED <<app, src, head, pos, dl, tgt, writer>>

CommitWrite == /\ pc = "commitWrite"
               /\ pack' = [pack EXCEPT !["fm"].head = cache.head,
                                       !["fm"].body[1] = cache.first]
               /\ pc' = "start"
               /\ UNCHANGED <<app, ram, writer>>

\* rt_fota_start_application looks at two words of the first chunk only.
VectorOK == app[1] # Blank
StartApplication ==
    /\ pc = "start" /\ VectorOK
    /\ pc' = IF AppComplete THEN "app" ELSE "hung"
    /\ UNCHANGED <<flash, ram, writer>>

\* Mutants: the download is tried again; the factory package is not tried.
RefusedAgain ==
    /\ pc = "start" /\ app[1] \in {Blank, Garbage}
    /\ pc' = "verify"
    /\ UNCHANGED <<flash, src, head, pos, cache, dl, tgt, writer>>
RefusedToShell ==
    /\ pc = "start" /\ app[1] \in {Blank, Garbage}
    /\ pc' = "shell"
    /\ UNCHANGED <<flash, src, head, pos, cache, dl, tgt, writer>>

StartRefused ==
    /\ pc = "start" /\ app[1] \in {Blank, Garbage}
    /\ IF src = "fm" THEN pc' = "verify" /\ src' = "df"
                     ELSE pc' = "shell" /\ UNCHANGED src
    /\ UNCHANGED <<flash, head, pos, cache, dl, tgt, writer>>
----------------------------------------------------------------------------
(* Transfers: the application's into "fm", the shell command ymdown's into *)
(* the package partition it names.  A half-written application ("hung") is *)
(* taken to do nothing.                                                    *)
Transfer == pc \in {"download", "ymdown"}
AbortedTo == IF pc = "download" THEN "app" ELSE "shell"

\* ymodem_on_begin of the application erases all of fm_area.
DownloadBegin(i) ==
    /\ pc = "app"
    /\ pack' = [pack EXCEPT !["fm"] = BlankPack]
    /\ pc' = "download" /\ dl' = i /\ tgt' = "fm" /\ pos' = 0
    /\ UNCHANGED <<app, src, head, cache, writer>>

\* ymodem_on_begin of the shell checks the size and erases only so much.
YmdownBegin(p, i) ==
    /\ pc = "shell" /\ "ymdown" \in Commands
    /\ Chunks[i] <= PackChunks
    /\ pack' = [pack EXCEPT ![p] = [head |-> NoHead,
                                     body |-> Fill(@.body, 1..Chunks[i], Blank)]]
    /\ pc' = "ymdown" /\ dl' = i /\ tgt' = p /\ pos' = 0
    /\ UNCHANGED <<app, src, head, cache, writer>>

\* ymodem_on_data; unit 0 is the header, unit n the n-th chunk.
TransferUnit ==
    /\ Transfer /\ pos <= Chunks[dl] /\ pos <= PackChunks
    /\ pack' = IF pos = 0
               THEN [pack EXCEPT ![tgt].head = Package(dl).head]
               ELSE [pack EXCEPT ![tgt].body[pos] = Program(@, <<dl, pos>>)]
    /\ pos' = pos + 1
    /\ UNCHANGED <<app, pc, src, head, cache, dl, tgt, writer>>

\* Timeout, CAN, a packet out of the partition's range.
TransferAbort ==
    /\ Transfer
    /\ pc' = AbortedTo
    /\ UNCHANGED <<flash, ram, writer>>

DownloadDone ==
    /\ pc = "download" /\ pos = Chunks[dl] + 1
    /\ Restart
    /\ UNCHANGED <<flash, writer>>

\* ymodem_ota resets only when the package it received verifies.
YmdownDone ==
    /\ pc = "ymdown" /\ pos = Chunks[dl] + 1
    /\ \/ Verified(tgt) /\ Restart
       \/ /\ ~Verified(tgt) \/ Faults
          /\ head' = NoHead /\ pc' = "shell"
          /\ UNCHANGED <<src, pos, cache, dl, tgt>>
    /\ UNCHANGED <<flash, writer>>
----------------------------------------------------------------------------
(* The other commands of the shell (rt_fota_info).  clone is restricted to *)
(* the two package partitions.                                             *)
Other(p) == IF p = "fm" THEN "df" ELSE "fm"

ShellProbe == /\ pc = "shell" /\ "probe" \in Commands
              /\ \/ Verified("df") /\ head' = pack["df"].head
                 \/ (~Verified("df") \/ Faults) /\ head' = NoHead
              /\ UNCHANGED <<flash, pc, src, pos, cache, dl, tgt, writer>>

ShellExec == /\ pc = "shell" /\ "exec" \in Commands
             /\ VectorOK
             /\ pc' = IF AppComplete THEN "app" ELSE "hung"
             /\ UNCHANGED <<flash, ram, writer>>

CloneBegin(p) == /\ pc = "shell" /\ "clone" \in Commands
                 /\ pack' = [pack EXCEPT ![p] = BlankPack]
                 /\ pc' = "clone" /\ tgt' = p /\ pos' = 0
                 /\ UNCHANGED <<app, src, head, cache, dl, writer>>

CloneUnit == /\ pc = "clone" /\ pos <= PackChunks
             /\ pack' = IF pos = 0
                        THEN [pack EXCEPT ![tgt].head = pack[Other(tgt)].head]
                        ELSE [pack EXCEPT ![tgt].body[pos] =
                                              Program(@, pack[Other(tgt)].body[pos])]
             /\ pos' = pos + 1
             /\ UNCHANGED <<app, pc, src, head, cache, dl, tgt, writer>>

CloneDone == /\ pc = "clone" /\ pos > PackChunks
             /\ pc' = "shell"
             /\ UNCHANGED <<flash, ram, writer>>
----------------------------------------------------------------------------
(* Flash operations cut short, by a power loss or by an error.             *)
\* An erase of "fm" or "df" cut short is like a finished one: the header's
\* sector goes first, and every later transfer erases again.
CutApp ==
    {app} \cup
    (IF Erasing
     THEN {Fill(app, Sector(pos), Garbage)} ELSE {}) \cup
    (IF pc = "copy" /\ pos < Decodes[head.img]
     THEN {[app EXCEPT ![pos + 1] = Garbage]} ELSE {})

\* Bytes go to flash in ascending order, so a header may be whole before
\* the chunk that follows it is.
CutPack ==
    {pack} \cup
    (IF pc \in {"commit", "commitWrite"}
     THEN {[pack EXCEPT !["fm"].head = NoHead, !["fm"].body[1] = Garbage]} ELSE {}) \cup
    (IF pc = "commitWrite"
     THEN {[pack EXCEPT !["fm"].head = cache.head, !["fm"].body[1] = Garbage]} ELSE {}) \cup
    (IF (Transfer \/ pc = "clone") /\ pos \in 1..PackChunks
     THEN {[pack EXCEPT ![tgt].body[pos] = Garbage]} ELSE {})

\* The package that has overwritten the application once its contents are a.
WriterNow(a) == IF pc = "erase" /\ a # app THEN src ELSE writer

PowerLoss ==
    /\ pc # "off" /\ pc' = "off"
    /\ app' \in CutApp /\ pack' \in CutPack
    /\ writer' = WriterNow(app')
    /\ UNCHANGED ram

\* Mutant: the result of rt_fota_upgrade is not looked at.
UpgradeFaultIgnored ==
    /\ Faults /\ pc \in {"erase", "copy"}
    /\ app' \in CutApp
    /\ writer' = WriterNow(app')
    /\ pc' = IF src = "fm" THEN "commit" ELSE "start"
    /\ UNCHANGED <<pack, ram>>

\* A failing erase, write, read or rt_malloc of rt_fota_upgrade.
UpgradeFault ==
    /\ Faults /\ pc \in {"erase", "copy"}
    /\ app' \in CutApp
    /\ writer' = WriterNow(app')
    /\ pc' = AfterFailure
    /\ UNCHANGED <<pack, ram>>

CommitFault ==
    /\ Faults /\ pc \in {"commit", "commitWrite"}
    /\ pack' \in CutPack
    /\ pc' = "start"
    /\ UNCHANGED <<app, ram, writer>>

\* A failing write ends a transfer or a clone.
TransferFault ==
    /\ Faults /\ (Transfer \/ pc = "clone")
    /\ pack' \in CutPack
    /\ pc' = AbortedTo
    /\ UNCHANGED <<app, ram, writer>>
----------------------------------------------------------------------------
Boot == \/ PowerOn \/ NoKey
        \/ VerifyOK \/ VerifyFailed \/ CheckUpgrade
        \/ EraseTooLarge \/ EraseSector \/ EraseDone
        \/ CopyChunk \/ CopyDone \/ CommitErase \/ CommitWrite
        \/ StartApplication \/ StartRefused

Operator == \/ DefaultKey \/ EnterKey
            \/ ShellProbe \/ ShellExec \/ CloneUnit \/ CloneDone \/ YmdownDone
            \/ \E p \in Packages : CloneBegin(p) \/ \E i \in Images : YmdownBegin(p, i)

Application == \/ \E i \in Images : DownloadBegin(i)
               \/ TransferUnit \/ TransferAbort \/ DownloadDone

Failure == PowerLoss \/ UpgradeFault \/ CommitFault \/ TransferFault

Next == Boot \/ Operator \/ Application \/ Failure

Spec == Init /\ [][Next]_vars

(* The boot thread is the only one with work to do, so it keeps going, and *)
(* every wait of a transfer has a timeout.  Power is lost finitely often.  *)
FairSpec == /\ Spec
            /\ WF_vars(Boot)
            /\ WF_vars(TransferUnit \/ TransferAbort \/ DownloadDone)
            /\ <>[][~PowerLoss]_vars
----------------------------------------------------------------------------
TypeOK ==
    /\ app \in [1..AppChunks -> Content]
    /\ pack \in [Packages -> PackType]
    /\ pc \in {"off", "keys", "verify", "check", "erase", "copy", "commit", "commitWrite",
               "start", "app", "hung", "download", "shell", "ymdown", "clone"}
    /\ src \in Packages /\ tgt \in Packages /\ writer \in Packages
    /\ head \in Header /\ pos \in Nat
    /\ cache \in [head : Header, first : Content]
    /\ dl \in Images \cup {NoImage}

(* Whatever is cut short, and whatever fails, an application that is not   *)
(* whole can be installed again: the package that was overwriting it still *)
(* verifies, and if that is the download, the next boot will still see its *)
(* version as new (rt_fota_upgrade before rt_fota_copy_version).           *)
NoSourceLost ==
    ~AppComplete => Verified(writer) /\ (writer = "fm" => Pending("fm"))

(* A download marked as installed (current_version = download_version) is  *)
(* installed: rt_fota_copy_version never runs ahead of the copy, and an    *)
(* application erased later is always on account of the other package.     *)
CommittedIsInstalled ==
    (pack["fm"].head.img # NoImage /\ ~Pending("fm") /\ writer = "fm")
        => AppIs(pack["fm"].head.img)

(* The header rt_fota_upgrade works from is the one in flash of the        *)
(* partition it copies, and that partition is still intact: nothing that   *)
(* runs between rt_fota_part_fw_verify and the copy makes it stale.        *)
HeadIsCurrent ==
    pc \in {"check", "erase", "copy", "commit"} =>
        Verified(src) /\ head = pack[src].head

(* Without defective packages and flash faults, rt_fota_start_application  *)
(* jumps into a half-written application only if that was left by a power  *)
(* loss while the factory package was being restored: two valid vector     *)
(* words are all it looks at, and no pending download forces a retry.      *)
HungOnlyAfterRestore == pc = "hung" => writer = "df"

(* The boot loader erases and programs "app" only from a package that has  *)
(* just verified, and from the download only while its version is new: a   *)
(* committed package is never installed a second time.                     *)
OverwritesOnlyForNews ==
    [][app' # app => /\ Verified(src)
                     /\ src = "fm" => Pending("fm")]_vars

(* Each chunk the loop copies lands on erased flash: the erase before it,  *)
(* rounded up to sectors, covers all the copy will program.                *)
CopiesOntoErased ==
    [][CopyChunk => app[pos + 1] = Blank]_vars

Installable(i) == /\ i \in Accepted \ Rejected
                  /\ Chunks[i] <= AppChunks /\ Decodes[i] = Chunks[i]

(* A new package that can be installed is running after the next boot the  *)
(* operator leaves alone, however often power is lost on the way.          *)
StagedGetsInstalled ==
    \A i \in Images : Installable(i) =>
        (pc = "keys" /\ Verified("fm") /\ Pending("fm") /\ pack["fm"].head.img = i)
            ~> (pc = "app" /\ AppIs(i))

(* A boot goes on: the steps for the download once and in order, then the  *)
(* steps for the factory package, and no more sectors or chunks than "app" *)
(* has.  No fall-back leads back to what has been tried, also when flash   *)
(* operations fail.                                                        *)
Order == [keys |-> 0, verify |-> 1, check |-> 2, erase |-> 3, copy |-> 4,
          commit |-> 5, commitWrite |-> 6, start |-> 7]
Booting == pc \in DOMAIN Order
Later == \/ src = "fm" /\ src' = "df"
         \/ src = src' /\ Order[pc] < Order[pc']
         \/ src = src' /\ pc = pc' /\ pos < pos' /\ pos' <= AppChunks
BootAdvances == [][Booting /\ Booting' => Later]_vars

(* A boot ends: in an application, in the shell, or by a power loss.       *)
BootEnds == (pc = "keys") ~> (pc \in {"app", "hung", "shell"})

(* XOR and GZIP are turned down only after the application is erased; the  *)
(* empty vector then sends the boot to the factory package, if there is    *)
(* one that can be installed.                                              *)
FallsBackToFactory ==
    \A i \in Images : Installable(i) =>
        (/\ pc = "keys" /\ Verified("df") /\ pack["df"].head.img = i
         /\ Verified("fm") /\ pack["fm"].head.img \in Rejected)
            ~> (pc = "app" /\ AppIs(i))
----------------------------------------------------------------------------
(* The inductive invariant behind NoSourceLost and CommittedIsInstalled:   *)
(* what holds at each point of rt_fota_upgrade and rt_fota_copy_version.   *)
(* Its last part presumes that the shell's two writing commands, which     *)
(* erase a package without regard to the application, are not used.        *)
RamPhase ==
    /\ pc \in {"check", "commit", "commitWrite"} => src = "fm"
    /\ pc = "check" => pos = 0
    /\ Transfer => dl \in Images
    /\ pc = "download" => tgt = "fm"

ErasePhase ==
    pc = "erase" =>
        /\ src = "fm" => Pending("fm")
        /\ pos > 0 => /\ writer = src
                      /\ Chunks[head.img] <= AppChunks
                      /\ \A k \in 1..AppChunks : k <= pos * SectorChunks => app[k] = Blank

CopyPhase ==
    pc = "copy" =>
        /\ src = "fm" => Pending("fm")
        /\ writer = src
        /\ Chunks[head.img] <= AppChunks
        /\ pos <= Decodes[head.img]
        /\ \A k \in 1..pos : app[k] = <<head.img, k>>
        /\ \A k \in (pos + 1)..Chunks[head.img] : app[k] = Blank

CommitPhase ==
    /\ pc \in {"commit", "commitWrite"} =>
           writer = "fm" /\ head.img \in Images /\ AppIs(head.img)
    /\ pc = "commitWrite" =>
           cache.head = [img |-> head.img, current |-> Version[head.img]]

RunPhase == pc \in {"app", "download"} => AppComplete

ReadOnlyShell == Commands \subseteq {"probe", "exec"}

IndInv == /\ TypeOK /\ HeadIsCurrent /\ RamPhase
          /\ ErasePhase /\ CopyPhase /\ CommitPhase /\ RunPhase
          /\ ReadOnlyShell => /\ pc \notin {"ymdown", "clone"}
                              /\ NoSourceLost /\ CommittedIsInstalled
----------------------------------------------------------------------------
(* The abstract view: what is installed, what is staged, what the default  *)
(* area holds.                                                             *)
InstalledNow == IF AppComplete THEN CHOOSE i \in Images : AppIs(i) ELSE NoImage
StagedNow   == IF Verified("fm") /\ Pending("fm") THEN pack["fm"].head.img ELSE NoImage
FactoryNow  == IF Verified("df") THEN pack["df"].head.img ELSE NoImage

Promise == INSTANCE UpgradePromise
             WITH installed <- InstalledNow, staged <- StagedNow, factory <- FactoryNow

(* Every step of the boot loader and of the download is a step the abstract *)
(* unit may take.                                                           *)
ImplementsPromise == Promise!Spec

(* And a unit without an application gets one, as long as no package is in *)
(* a format rt_fota_upgrade turns down after the erase.                     *)
NoneRejected == \A p \in Packages : pack[p].head.img \notin Rejected
ImplementsFairPromise == []NoneRejected => Promise!Fairness
=============================================================================
