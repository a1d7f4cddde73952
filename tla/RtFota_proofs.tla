---------------------------- MODULE RtFota_proofs ----------------------------
(***************************************************************************)
(* Proofs about the boot loader: for every set of packages, every size of  *)
(* the partitions and every placement of power losses and flash faults.    *)
(***************************************************************************)
EXTENDS RtFota, TLAPS

(* The part of the inductive invariant that needs no assumption about the  *)
(* commands the operator gives.                                            *)
BootInv == TypeOK /\ HeadIsCurrent /\ RamPhase

LEMMA ContentFacts ==
    /\ Blank \in Content /\ Garbage \in Content
    /\ \A i \in Images, n \in Nat : <<i, n>> \in Content
    /\ NoHead \in Header
    /\ \A i \in Images : \A v \in STRING : [img |-> i, current |-> v] \in Header
    /\ BlankPack \in PackType
    /\ \A i \in Images : Package(i) \in PackType
BY FlashAssumption, ImageAssumption
   DEF Content, Header, NoHead, Blank, Garbage, PackType, BlankPack, BlankBody, Package

(* Writing a header, or one chunk, leaves a package partition well typed.  *)
LEMMA HeadWrite ==
    ASSUME NEW P \in [Packages -> PackType], NEW p \in Packages, NEW h \in Header
    PROVE  [P EXCEPT ![p].head = h] \in [Packages -> PackType]
BY DEF PackType

LEMMA BodyWrite ==
    ASSUME NEW P \in [Packages -> PackType], NEW p \in Packages, NEW k, NEW c \in Content
    PROVE  [P EXCEPT ![p].body[k] = c] \in [Packages -> PackType]
BY DEF PackType

LEMMA SectorWrite ==
    ASSUME NEW P \in [Packages -> PackType], NEW p \in Packages, NEW h \in Header,
           NEW c \in Content
    PROVE  [P EXCEPT ![p].head = h, ![p].body[1] = c] \in [Packages -> PackType]
BY DEF PackType

LEMMA HeadRead ==
    ASSUME NEW P \in [Packages -> PackType], NEW p \in Packages
    PROVE  P[p].head \in Header
BY DEF PackType

LEMMA BodyRead ==
    ASSUME NEW P \in [Packages -> PackType], NEW p \in Packages, NEW k \in 1..PackChunks
    PROVE  P[p].body[k] \in Content
BY DEF PackType

LEMMA BootInit == Init => BootInv
<1> SUFFICES ASSUME Init PROVE BootInv
  OBVIOUS
<1> USE ImageAssumption, FlashAssumption, ContentFacts
<1>1. app \in [1..AppChunks -> Content]
  BY DEF Init
<1>2. pack \in [Packages -> PackType]
  BY DEF Init
<1>3. TypeOK
  BY <1>1, <1>2 DEF Init, TypeOK, NoCache, Packages
<1> QED BY <1>3 DEF Init, BootInv, HeadIsCurrent, RamPhase, Transfer

LEMMA TypeStep == BootInv /\ [Next]_vars => TypeOK'
<1> SUFFICES ASSUME BootInv, [Next]_vars PROVE TypeOK'
  OBVIOUS
<1>0. TypeOK /\ HeadIsCurrent /\ RamPhase
  BY DEF BootInv
<1> USE <1>0, ImageAssumption, FlashAssumption, ContentFacts
<1>1. CASE Boot
  <2>1. CASE PowerOn
    BY <2>1 DEF PowerOn, Restart, TypeOK, flash, NoCache, Packages
  <2>2. CASE NoKey
    BY <2>2 DEF NoKey, TypeOK, flash, Packages
  <2>3. CASE VerifyOK
    BY <2>3, HeadRead DEF VerifyOK, TypeOK, flash
  <2>4. CASE VerifyFailed
    BY <2>4 DEF VerifyFailed, AfterFailure, TypeOK, flash
  <2>5. CASE CheckUpgrade
    BY <2>5 DEF CheckUpgrade, TypeOK, flash, ram
  <2>6. CASE EraseTooLarge
    BY <2>6 DEF EraseTooLarge, AfterFailure, TypeOK, flash, ram
  <2>7. CASE EraseSector
    BY <2>7 DEF EraseSector, Erasing, Fill, TypeOK
  <2>8. CASE EraseDone
    BY <2>8 DEF EraseDone, AfterFailure, TypeOK, flash
  <2>9. CASE CopyChunk
    <3>1. head.img \in Images /\ Chunks[head.img] <= PackChunks
      BY <2>9 DEF CopyChunk, HeadIsCurrent, Verified, Intact
    <3>2. pos + 1 \in 1..PackChunks
      BY <2>9, <3>1 DEF CopyChunk, TypeOK
    <3>3. pack[src].body[pos + 1] \in Content
      BY <3>2, BodyRead DEF TypeOK
    <3>4. app' \in [1..AppChunks -> Content]
      <4>1. \A old : Program(old, pack[src].body[pos + 1]) \in Content
        BY <3>3 DEF Program
      <4> QED BY <2>9, <4>1 DEF CopyChunk, TypeOK
    <3> QED BY <2>9, <3>4 DEF CopyChunk, TypeOK
  <2>10. CASE CopyDone
    BY <2>10 DEF CopyDone, AfterFailure, TypeOK, flash, ram
  <2>11. CASE CommitErase
    <3>1. pack["fm"].head.img \in Images
      BY <2>11 DEF CommitErase, HeadIsCurrent, RamPhase, Verified
    <3>2. [pack["fm"].head EXCEPT !.current = Version[pack["fm"].head.img]] \in Header
      <4>1. pack["fm"].head \in [img : Images, current : STRING]
        BY <3>1 DEF TypeOK, PackType, Header, NoHead, Packages
      <4>2. Version[pack["fm"].head.img] \in STRING
        BY <3>1
      <4> QED BY <4>1, <4>2 DEF Header
    <3>3. pack["fm"].body[1] \in Content
      BY BodyRead DEF TypeOK, Packages
    <3>4. pack' \in [Packages -> PackType]
      BY <2>11, SectorWrite DEF CommitErase, TypeOK, Packages
    <3> QED BY <2>11, <3>2, <3>3, <3>4 DEF CommitErase, TypeOK
  <2>12. CASE CommitWrite
    <3>1. cache.head \in Header /\ cache.first \in Content /\ "fm" \in Packages
      BY DEF TypeOK, Packages
    <3>2. pack' \in [Packages -> PackType]
      BY <2>12, <3>1, SectorWrite DEF CommitWrite, TypeOK
    <3> QED BY <2>12, <3>2 DEF CommitWrite, TypeOK, ram
  <2>13. CASE StartApplication
    BY <2>13 DEF StartApplication, TypeOK, flash, ram
  <2>14. CASE StartRefused
    <3>1. src' \in Packages /\ pc' \in {"verify", "shell"}
      BY <2>14 DEF StartRefused, TypeOK, Packages
    <3> QED BY <2>14, <3>1 DEF StartRefused, TypeOK, flash
  <2> QED BY <1>1, <2>1, <2>2, <2>3, <2>4, <2>5, <2>6, <2>7, <2>8, <2>9, <2>10, <2>11,
             <2>12, <2>13, <2>14 DEF Boot
<1>2. CASE Operator
  <2>1. CASE DefaultKey
    BY <2>1 DEF DefaultKey, TypeOK, flash, Packages
  <2>2. CASE EnterKey
    BY <2>2 DEF EnterKey, TypeOK, flash, ram
  <2>3. CASE ShellProbe
    BY <2>3, HeadRead DEF ShellProbe, TypeOK, flash, Packages
  <2>4. CASE ShellExec
    BY <2>4 DEF ShellExec, TypeOK, flash, ram
  <2>5. CASE CloneUnit
    <3>1. pos = 0 => pack[Other(tgt)].head \in Header
      BY HeadRead DEF Other, TypeOK, Packages
    <3>2. pos # 0 => pack[Other(tgt)].body[pos] \in Content
      <4>1. Other(tgt) \in Packages
        BY DEF Other, Packages
      <4>2. pos # 0 => pos \in 1..PackChunks
        BY <2>5 DEF CloneUnit, TypeOK
      <4> QED BY <4>1, <4>2, BodyRead DEF TypeOK
    <3>3. pack' \in [Packages -> PackType]
      <4>1. CASE pos = 0
        BY <2>5, <3>1, <4>1, HeadWrite DEF CloneUnit, TypeOK
      <4>2. CASE pos # 0
        <5>1. \A old : Program(old, pack[Other(tgt)].body[pos]) \in Content
          BY <3>2, <4>2 DEF Program
        <5> QED BY <2>5, <5>1, <4>2, BodyWrite DEF CloneUnit, TypeOK
      <4> QED BY <4>1, <4>2
    <3> QED BY <2>5, <3>3 DEF CloneUnit, TypeOK
  <2>6. CASE CloneDone
    BY <2>6 DEF CloneDone, TypeOK, flash, ram
  <2>7. CASE YmdownDone
    BY <2>7 DEF YmdownDone, Restart, TypeOK, flash, NoCache, Packages
  <2>8. ASSUME NEW p \in Packages, CloneBegin(p) PROVE TypeOK'
    BY <2>8 DEF CloneBegin, TypeOK
  <2>9. ASSUME NEW p \in Packages, NEW i \in Images, YmdownBegin(p, i) PROVE TypeOK'
    <3>1. Fill(pack[p].body, 1..Chunks[i], Blank) \in [1..PackChunks -> Content]
      BY DEF Fill, TypeOK, PackType
    <3>2. [head |-> NoHead, body |-> Fill(pack[p].body, 1..Chunks[i], Blank)] \in PackType
      BY <3>1 DEF PackType
    <3> QED BY <2>9, <3>2 DEF YmdownBegin, TypeOK
  <2> QED BY <1>2, <2>1, <2>2, <2>3, <2>4, <2>5, <2>6, <2>7, <2>8, <2>9 DEF Operator
<1>3. CASE Application
  <2>1. ASSUME NEW i \in Images, DownloadBegin(i) PROVE TypeOK'
    BY <2>1 DEF DownloadBegin, TypeOK, Packages
  <2>2. CASE TransferUnit
    <3>1. dl \in Images
      BY <2>2 DEF TransferUnit, RamPhase
    <3>2. Package(dl).head \in Header
      BY <3>1 DEF Package
    <3>3. <<dl, pos>> \in Content
      BY <3>1 DEF TypeOK
    <3>4. \A old : Program(old, <<dl, pos>>) \in Content
      BY <3>3 DEF Program
    <3>5. pack' \in [Packages -> PackType]
      BY <2>2, <3>2, <3>4, HeadWrite, BodyWrite DEF TransferUnit, TypeOK
    <3> QED BY <2>2, <3>5 DEF TransferUnit, TypeOK
  <2>3. CASE TransferAbort
    BY <2>3 DEF TransferAbort, Transfer, AbortedTo, TypeOK, flash, ram
  <2>4. CASE DownloadDone
    BY <2>4 DEF DownloadDone, Restart, TypeOK, flash, NoCache, Packages
  <2> QED BY <1>3, <2>1, <2>2, <2>3, <2>4 DEF Application
<1>4. CASE Failure
  <2>1. CutApp \subseteq [1..AppChunks -> Content]
    BY DEF CutApp, Fill, TypeOK
  <2>2. CutPack \subseteq [Packages -> PackType]
    <3>1. cache.head \in Header /\ "fm" \in Packages /\ tgt \in Packages
      BY DEF TypeOK, Packages
    <3>2. [pack EXCEPT !["fm"].head = NoHead, !["fm"].body[1] = Garbage]
              \in [Packages -> PackType]
      BY <3>1, SectorWrite DEF TypeOK
    <3>3. [pack EXCEPT !["fm"].head = cache.head, !["fm"].body[1] = Garbage]
              \in [Packages -> PackType]
      BY <3>1, SectorWrite DEF TypeOK
    <3>4. [pack EXCEPT ![tgt].body[pos] = Garbage] \in [Packages -> PackType]
      BY <3>1, BodyWrite DEF TypeOK
    <3> QED BY <3>2, <3>3, <3>4 DEF CutPack, TypeOK
  <2>3. WriterNow(app') \in Packages
    BY DEF WriterNow, TypeOK
  <2>4. CASE PowerLoss
    BY <2>1, <2>2, <2>3, <2>4 DEF PowerLoss, TypeOK, ram
  <2>5. CASE UpgradeFault
    BY <2>1, <2>3, <2>5 DEF UpgradeFault, AfterFailure, TypeOK, ram
  <2>6. CASE CommitFault
    BY <2>2, <2>6 DEF CommitFault, TypeOK, ram
  <2>7. CASE TransferFault
    BY <2>2, <2>7 DEF TransferFault, AbortedTo, TypeOK, ram
  <2> QED BY <1>4, <2>4, <2>5, <2>6, <2>7 DEF Failure
<1>5. CASE UNCHANGED vars
  BY <1>5 DEF vars, flash, ram, TypeOK
<1> QED BY <1>1, <1>2, <1>3, <1>4, <1>5 DEF Next

(* The header in RAM stays that of the intact package being installed.     *)
LEMMA HeadStep == BootInv /\ [Next]_vars => (HeadIsCurrent /\ RamPhase)'
<1> SUFFICES ASSUME BootInv, [Next]_vars PROVE (HeadIsCurrent /\ RamPhase)'
  OBVIOUS
<1>0. TypeOK /\ HeadIsCurrent /\ RamPhase
  BY DEF BootInv
<1> USE <1>0 DEF HeadIsCurrent, RamPhase, Transfer
<1>1. CASE Boot
  <2>1. CASE PowerOn
    BY <2>1 DEF PowerOn, Restart
  <2>2. CASE NoKey
    BY <2>2 DEF NoKey
  <2>3. CASE VerifyOK
    BY <2>3 DEF VerifyOK, Verified, flash
  <2>4. CASE VerifyFailed
    BY <2>4 DEF VerifyFailed, AfterFailure
  <2>5. CASE CheckUpgrade
    BY <2>5 DEF CheckUpgrade, Verified, flash, ram
  <2>6. CASE EraseTooLarge
    BY <2>6 DEF EraseTooLarge, AfterFailure
  <2>7. CASE EraseSector
    BY <2>7 DEF EraseSector, Erasing, Verified
  <2>8. CASE EraseDone
    BY <2>8 DEF EraseDone, AfterFailure, Verified, flash
  <2>9. CASE CopyChunk
    BY <2>9 DEF CopyChunk, Verified
  <2>10. CASE CopyDone
    BY <2>10 DEF CopyDone, AfterFailure, Verified, flash, ram
  <2>11. CASE CommitErase
    BY <2>11 DEF CommitErase
  <2>12. CASE CommitWrite
    BY <2>12 DEF CommitWrite
  <2>13. CASE StartApplication
    BY <2>13 DEF StartApplication
  <2>14. CASE StartRefused
    BY <2>14 DEF StartRefused
  <2> QED BY <1>1, <2>1, <2>2, <2>3, <2>4, <2>5, <2>6, <2>7, <2>8, <2>9, <2>10, <2>11,
             <2>12, <2>13, <2>14 DEF Boot
<1>2. CASE Operator
  <2>1. ASSUME NEW p \in Packages, NEW i \in Images, YmdownBegin(p, i)
        PROVE  (HeadIsCurrent /\ RamPhase)'
    BY <2>1 DEF YmdownBegin
  <2>2. ASSUME NEW p \in Packages, CloneBegin(p) PROVE (HeadIsCurrent /\ RamPhase)'
    BY <2>2 DEF CloneBegin
  <2> QED BY <1>2, <2>1, <2>2 DEF Operator, DefaultKey, EnterKey, ShellProbe, ShellExec,
             CloneUnit, CloneDone, YmdownDone, Restart, ram
<1>3. CASE Application
  <2>1. ASSUME NEW i \in Images, DownloadBegin(i) PROVE (HeadIsCurrent /\ RamPhase)'
    BY <2>1 DEF DownloadBegin
  <2> QED BY <1>3, <2>1 DEF Application, TransferUnit, TransferAbort, AbortedTo,
             DownloadDone, Restart, ram
<1>4. CASE Failure
  BY <1>4 DEF Failure, PowerLoss, UpgradeFault, AfterFailure, CommitFault, TransferFault,
              AbortedTo, ram
<1>5. CASE UNCHANGED vars
  BY <1>5 DEF vars, flash, ram, Verified
<1> QED BY <1>1, <1>2, <1>3, <1>4, <1>5 DEF Next

LEMMA BootInvariance == Spec => []BootInv
<1>1. BootInv /\ [Next]_vars => BootInv'
  BY TypeStep, HeadStep DEF BootInv
<1> QED BY BootInit, <1>1, PTL DEF Spec

(* Every variable of the boot loader keeps its type: every write lands in  *)
(* the partition it is meant for, whatever the operator does.              *)
THEOREM TypeCorrect == Spec => []TypeOK
BY BootInvariance, PTL DEF BootInv

(* rt_fota_upgrade always works from the header of an intact package, also *)
(* with the shell's writing commands in use.                               *)
THEOREM HeaderCurrent == Spec => []HeadIsCurrent
BY BootInvariance, PTL DEF BootInv
-----------------------------------------------------------------------------
(* What holds at each point of rt_fota_upgrade and rt_fota_copy_version,   *)
(* whatever the operator does.                                             *)
Phases == ErasePhase /\ CopyPhase /\ CommitPhase /\ RunPhase

LEMMA PhaseStep == BootInv /\ Phases /\ [Next]_vars => Phases'
<1> SUFFICES ASSUME BootInv, Phases, [Next]_vars PROVE Phases'
  OBVIOUS
<1>0. TypeOK /\ HeadIsCurrent /\ RamPhase
  BY DEF BootInv
<1>a. head \in Header /\ pos \in Nat /\ src \in Packages /\ app \in [1..AppChunks -> Content]
  BY <1>0 DEF TypeOK
<1> USE <1>0, ImageAssumption, FlashAssumption
        DEF Phases, ErasePhase, CopyPhase, CommitPhase, RunPhase
<1>1. CASE Boot
  <2>1. CASE PowerOn \/ NoKey \/ VerifyOK \/ VerifyFailed \/ EraseTooLarge \/ StartRefused
    BY <2>1 DEF PowerOn, Restart, NoKey, VerifyOK, VerifyFailed, EraseTooLarge, StartRefused,
                AfterFailure
  <2>2. CASE CheckUpgrade
    <3>1. pc' = "erase" => Pending("fm")' /\ pos' = 0
      BY <2>2 DEF CheckUpgrade, HeadIsCurrent, RamPhase, Pending, flash, ram
    <3> QED BY <2>2, <3>1 DEF CheckUpgrade, flash, ram
  <2>3. CASE EraseSector
    <3>1. \A k \in 1..AppChunks : k <= pos' * SectorChunks => app'[k] = Blank
      <4> SUFFICES ASSUME NEW k \in 1..AppChunks, k <= (pos + 1) * SectorChunks
                   PROVE  app'[k] = Blank
        BY <2>3 DEF EraseSector
      <4>1. app'[k] = IF k \in Sector(pos) THEN Blank ELSE app[k]
        BY <2>3, <1>a DEF EraseSector, Fill
      <4>2. CASE k > pos * SectorChunks
        BY <4>1, <4>2 DEF Sector
      <4>3. CASE k <= pos * SectorChunks
        <5>1. pos > 0
          BY <4>3, <1>a
        <5> QED BY <2>3, <4>1, <4>3, <5>1 DEF EraseSector, Erasing
      <4> QED BY <4>2, <4>3, <1>a
    <3> QED BY <2>3, <3>1 DEF EraseSector, Erasing, Pending
  <2>4. CASE EraseDone
    <3>1. CASE head.img \in Rejected
      BY <2>4, <3>1 DEF EraseDone, AfterFailure
    <3>2. CASE head.img \notin Rejected
      <4>1. head.img \in Images
        BY <2>4 DEF EraseDone, HeadIsCurrent, Verified
      <4>2. Chunks[head.img] \in Nat \ {0} /\ Chunks[head.img] <= pos * SectorChunks
        BY <2>4, <4>1 DEF EraseDone
      <4>3. pos > 0
        BY <4>2, <1>a
      <4>4. /\ writer = src /\ Chunks[head.img] <= AppChunks
            /\ \A k \in 1..AppChunks : k <= pos * SectorChunks => app[k] = Blank
        BY <2>4, <4>3 DEF EraseDone
      <4>5. pos * SectorChunks \in Nat
        BY <1>a
      <4>6. \A k \in 1..Chunks[head.img] : app[k] = Blank
        BY <4>2, <4>4, <4>5
      <4>7. Decodes[head.img] \in Nat
        BY <4>1
      <4> QED BY <2>4, <3>2, <4>1, <4>4, <4>6, <4>7 DEF EraseDone, Pending, flash
    <3> QED BY <3>1, <3>2
  <2>5. CASE CopyChunk
    <3>1. Verified(src) /\ (src = "fm" => Pending("fm")) /\ head = pack[src].head
      BY <2>5 DEF CopyChunk, HeadIsCurrent
    <3>2. head.img \in Images /\ pack[src].body[pos + 1] = <<head.img, pos + 1>>
      BY <2>5, <3>1, <1>a DEF CopyChunk, Verified, Intact
    <3>3. pos + 1 \in 1..Chunks[head.img] /\ pos + 1 \in 1..AppChunks
      BY <2>5, <3>2, <1>a DEF CopyChunk
    <3>4. app' = [app EXCEPT ![pos + 1] = <<head.img, pos + 1>>]
      <4>1. app[pos + 1] = Blank
        BY <2>5, <3>3, <1>a DEF CopyChunk
      <4> QED BY <2>5, <3>2, <4>1 DEF CopyChunk, Program
    <3>5. \A k \in 1..(pos + 1) : app'[k] = <<head.img, k>>
      BY <2>5, <3>4, <3>3, <1>a DEF CopyChunk
    <3>6. \A k \in (pos + 2)..Chunks[head.img] : app'[k] = Blank
      BY <2>5, <3>4, <3>3, <1>a DEF CopyChunk
    <3>7. pos + 1 <= Decodes[head.img]
      BY <2>5, <3>2, <1>a DEF CopyChunk
    <3> QED BY <2>5, <3>1, <3>5, <3>6, <3>7 DEF CopyChunk, Pending
  <2>6. CASE CopyDone
    <3>1. head.img \in Images
      BY <2>6 DEF CopyDone, HeadIsCurrent, Verified
    <3>2. pos >= Chunks[head.img] => AppIs(head.img)
      BY <2>6, <3>1, <1>a DEF CopyDone, AppIs
    <3> QED BY <2>6, <3>1, <3>2 DEF CopyDone, AfterFailure, AppIs, flash, ram
  <2>7. CASE CommitErase
    <3>1. cache'.head = [img |-> head.img, current |-> Version[head.img]]
      <4>1. pack["fm"].head = head /\ head \in [img : Images, current : STRING]
        BY <2>7, <1>a DEF CommitErase, HeadIsCurrent, RamPhase, Header, NoHead
      <4> QED BY <2>7, <4>1 DEF CommitErase
    <3> QED BY <2>7, <3>1 DEF CommitErase, AppIs
  <2>8. CASE CommitWrite
    BY <2>8 DEF CommitWrite
  <2>9. CASE StartApplication
    BY <2>9 DEF StartApplication, AppComplete, AppIs, flash
  <2> QED BY <1>1, <2>1, <2>2, <2>3, <2>4, <2>5, <2>6, <2>7, <2>8, <2>9 DEF Boot
<1>2. CASE Operator
  <2>1. /\ pc' \in {"verify", "keys", "shell", "ymdown", "clone", "app", "hung"}
        /\ pc' = "app" => AppComplete'
    <3>1. CASE DefaultKey \/ EnterKey \/ ShellProbe \/ ShellExec
      BY <3>1 DEF DefaultKey, EnterKey, ShellProbe, ShellExec, flash, AppComplete, AppIs
    <3>2. CASE ~(DefaultKey \/ EnterKey \/ ShellProbe \/ ShellExec)
      BY <1>2, <3>2 DEF Operator, CloneUnit, CloneDone, YmdownDone, YmdownBegin, CloneBegin,
                        Restart, flash, AppComplete, AppIs
    <3> QED BY <3>1, <3>2
  <2> QED BY <2>1
<1>3. CASE Application
  <2>1. ASSUME NEW i \in Images, DownloadBegin(i) PROVE Phases'
    BY <2>1 DEF DownloadBegin, AppComplete, AppIs
  <2>2. CASE TransferUnit \/ TransferAbort \/ DownloadDone
    BY <2>2 DEF TransferUnit, TransferAbort, DownloadDone, Restart, Transfer, AbortedTo,
                flash, AppComplete, AppIs
  <2> QED BY <1>3, <2>1, <2>2 DEF Application
<1>4. CASE Failure
  BY <1>4 DEF Failure, PowerLoss, UpgradeFault, CommitFault, TransferFault, Transfer,
              AfterFailure, AbortedTo, AppComplete, AppIs
<1>5. CASE UNCHANGED vars
  BY <1>5 DEF vars, flash, ram, Pending, AppComplete, AppIs
<1> QED BY <1>1, <1>2, <1>3, <1>4, <1>5 DEF Next
-----------------------------------------------------------------------------
(* From here on the operator may use every key, but no writing command.    *)
Safe  == NoSourceLost /\ CommittedIsInstalled
Quiet == pc \notin {"ymdown", "clone"}

LEMMA IndInit == Init => IndInv
<1> SUFFICES ASSUME Init PROVE IndInv
  OBVIOUS
<1>1. BootInv
  BY BootInit
<1>2. PICK i \in Images : /\ Chunks[i] <= AppChunks
                          /\ app = [k \in 1..AppChunks |->
                                       IF k <= Chunks[i] THEN <<i, k>> ELSE Blank]
  BY DEF Init
<1>3. AppIs(i)
  BY <1>2, ImageAssumption, FlashAssumption DEF AppIs
<1>4. Safe
  BY <1>3 DEF Init, Safe, NoSourceLost, CommittedIsInstalled, AppComplete
<1> QED BY <1>1, <1>4 DEF Init, IndInv, BootInv, Safe, ErasePhase, CopyPhase, CommitPhase,
                          RunPhase

(* Nothing is lost by a step that leaves both flashes alone.               *)
LEMMA SafeStutter == Safe /\ UNCHANGED <<app, pack, writer>> => Safe'
BY DEF Safe, NoSourceLost, CommittedIsInstalled, AppComplete, AppIs, Verified, Pending

(* Nor by one that overwrites the application from an intact package,      *)
(* provided the download still counts as new.                              *)
LEMMA SafeOverwrite ==
    ASSUME Verified(src), src = "fm" => Pending("fm"), writer' = src, pack' = pack
    PROVE  Safe'
BY DEF Safe, NoSourceLost, CommittedIsInstalled, Verified, Pending

(* Nor, while the application is whole, by one that writes the download    *)
(* area without committing anything.                                       *)
LEMMA SafeDownload ==
    ASSUME AppComplete, Safe, app' = app, writer' = writer,
           \/ pack'["fm"].head = pack["fm"].head
           \/ pack'["fm"].head.img = NoImage
           \/ Differs(pack'["fm"].head)
    PROVE  Safe'
BY DEF Safe, NoSourceLost, CommittedIsInstalled, AppComplete, AppIs, Pending, Differs

LEMMA SafeStep ==
    ReadOnlyShell /\ BootInv /\ Phases /\ Quiet /\ Safe /\ [Next]_vars => Quiet' /\ Safe'
<1> SUFFICES ASSUME ReadOnlyShell, BootInv, Phases, Quiet, Safe, [Next]_vars
             PROVE  Quiet' /\ Safe'
  OBVIOUS
<1>0. TypeOK /\ HeadIsCurrent /\ RamPhase
  BY DEF BootInv
<1> USE <1>0, ImageAssumption, FlashAssumption DEF Quiet
<1>1. CASE Boot
  <2>1. CASE PowerOn
    BY <2>1, SafeStutter DEF PowerOn, Restart, flash
  <2>2. CASE NoKey
    BY <2>2, SafeStutter DEF NoKey, flash
  <2>3. CASE VerifyOK
    BY <2>3, SafeStutter DEF VerifyOK, flash
  <2>4. CASE VerifyFailed
    BY <2>4, SafeStutter DEF VerifyFailed, AfterFailure, flash
  <2>5. CASE CheckUpgrade
    BY <2>5, SafeStutter DEF CheckUpgrade, flash, ram
  <2>6. CASE EraseTooLarge
    BY <2>6, SafeStutter DEF EraseTooLarge, AfterFailure, flash, ram
  <2>7. CASE EraseSector
    <3>1. Verified(src) /\ (src = "fm" => Pending("fm"))
      BY <2>7 DEF EraseSector, Erasing, HeadIsCurrent, Phases, ErasePhase
    <3> QED BY <2>7, <3>1, SafeOverwrite DEF EraseSector, Erasing
  <2>8. CASE EraseDone
    BY <2>8, SafeStutter DEF EraseDone, AfterFailure, flash
  <2>9. CASE CopyChunk
    <3>1. Verified(src) /\ (src = "fm" => Pending("fm")) /\ writer = src
      BY <2>9 DEF CopyChunk, HeadIsCurrent, Phases, CopyPhase
    <3> QED BY <2>9, <3>1, SafeOverwrite DEF CopyChunk
  <2>10. CASE CopyDone
    BY <2>10, SafeStutter DEF CopyDone, AfterFailure, flash
  <2>11. CASE CommitErase
    <3>1. AppComplete
      BY <2>11 DEF CommitErase, AppComplete, Phases, CommitPhase
    <3>2. pack'["fm"].head.img = NoImage
      BY <2>11 DEF CommitErase, NoHead, TypeOK, Packages, PackType
    <3> QED BY <2>11, <3>1, <3>2, SafeDownload DEF CommitErase
  <2>12. CASE CommitWrite
    <3>1. pack'["fm"].head = cache.head
      BY <2>12 DEF CommitWrite, TypeOK, Packages, PackType
    <3>2. cache.head.img = head.img /\ head.img \in Images /\ AppIs(head.img)
      BY <2>12 DEF CommitWrite, Phases, CommitPhase
    <3>3. \A i \in Images : AppIs(i) <=> AppIs(i)'
      BY <2>12 DEF CommitWrite, AppIs
    <3> QED BY <2>12, <3>1, <3>2, <3>3
            DEF CommitWrite, Safe, NoSourceLost, CommittedIsInstalled, AppComplete
  <2>13. CASE StartApplication
    BY <2>13, SafeStutter DEF StartApplication, flash, ram
  <2>14. CASE StartRefused
    BY <2>14, SafeStutter DEF StartRefused, flash
  <2> QED BY <1>1, <2>1, <2>2, <2>3, <2>4, <2>5, <2>6, <2>7, <2>8, <2>9, <2>10, <2>11,
             <2>12, <2>13, <2>14 DEF Boot
<1>2. CASE Operator
  <2>1. UNCHANGED <<app, pack, writer>> /\ Quiet'
    BY <1>2 DEF Operator, ReadOnlyShell, DefaultKey, EnterKey, ShellProbe, ShellExec,
       CloneUnit, CloneDone, YmdownDone, YmdownBegin, CloneBegin, Restart, flash
  <2> QED BY <2>1, SafeStutter
<1>3. CASE Application
  <2>1. ASSUME NEW i \in Images, DownloadBegin(i) PROVE Quiet' /\ Safe'
    BY <2>1, SafeDownload
       DEF DownloadBegin, Phases, RunPhase, BlankPack, NoHead, AppComplete, AppIs, TypeOK, Packages
  <2>2. CASE TransferUnit
    <3>1. pc = "download" /\ dl \in Images /\ tgt = "fm" /\ AppComplete
      BY <2>2 DEF TransferUnit, Transfer, RamPhase, Phases, RunPhase
    <3>2. \/ pack'["fm"].head = pack["fm"].head
          \/ Differs(pack'["fm"].head)
      <4>1. CASE pos = 0
        <5>1. pack'["fm"].head = [img |-> dl, current |-> Fresh]
          BY <2>2, <3>1, <4>1 DEF TransferUnit, Package, TypeOK, Packages, PackType
        <5> QED BY <5>1, <3>1 DEF Differs
      <4>2. CASE pos # 0
        BY <2>2, <3>1, <4>2 DEF TransferUnit, TypeOK, Packages, PackType
      <4> QED BY <4>1, <4>2
    <3>3. Safe'
      BY <2>2, <3>1, <3>2, SafeDownload DEF TransferUnit
    <3> QED BY <2>2, <3>1, <3>3 DEF TransferUnit, AppComplete, AppIs
  <2>3. CASE TransferAbort
    BY <2>3, SafeStutter DEF TransferAbort, AbortedTo, Transfer, flash, AppComplete, AppIs
  <2>4. CASE DownloadDone
    BY <2>4, SafeStutter DEF DownloadDone, Restart, flash
  <2> QED BY <1>3, <2>1, <2>2, <2>3, <2>4 DEF Application
<1>4. CASE Failure
  <2>1. ASSUME app' \in CutApp, pack' = pack, writer' = WriterNow(app') PROVE Safe'
    <3>1. CASE app' = app
      BY <2>1, <3>1, SafeStutter DEF WriterNow
    <3>2. CASE app' # app
      <4>1. pc \in {"erase", "copy"}
        BY <2>1, <3>2 DEF CutApp, Erasing
      <4>2. Verified(src) /\ (src = "fm" => Pending("fm")) /\ writer' = src
        BY <2>1, <3>2, <4>1 DEF WriterNow, HeadIsCurrent, Phases,
           ErasePhase, CopyPhase
      <4> QED BY <2>1, <4>2, SafeOverwrite
    <3> QED BY <3>1, <3>2
  <2>2. ASSUME pack' \in CutPack, app' = app, writer' = writer,
               pc \in {"commit", "commitWrite", "download"} \/ pack' = pack
        PROVE  Safe'
    <3>1. CASE pack' = pack
      BY <2>2, <3>1, SafeStutter
    <3>2. CASE pack' # pack
      <4>1. pc \in {"commit", "commitWrite", "download"} /\ AppComplete
        BY <2>2, <3>2 DEF AppComplete, Phases, CommitPhase, RunPhase
      <4>2. \/ pack'["fm"].head = pack["fm"].head
            \/ pack'["fm"].head.img = NoImage
            \/ pc = "commitWrite" /\ pack'["fm"].head = cache.head
        <5>1. pack' \in CutPack /\ pack' # pack /\ pack \in [Packages -> PackType]
          BY <2>2, <3>2 DEF TypeOK
        <5> QED BY <5>1 DEF CutPack, NoHead, Packages, PackType, TypeOK
      <4>3. CASE pc = "commitWrite" /\ pack'["fm"].head = cache.head
        BY <2>2, <4>1, <4>3 DEF Phases, CommitPhase, Safe, NoSourceLost, CommittedIsInstalled, AppComplete, AppIs
      <4> QED BY <2>2, <4>1, <4>2, <4>3, SafeDownload
    <3> QED BY <3>1, <3>2
  <2>3. CASE PowerLoss
    <3>1. CASE app' = app
      <4>1. pc \in {"commit", "commitWrite", "download"} \/ pack' = pack
        BY <2>3 DEF PowerLoss, CutPack, Transfer
      <4> QED BY <2>2, <2>3, <3>1, <4>1 DEF PowerLoss, WriterNow
    <3>2. CASE app' # app
      <4>1. pack' = pack
        BY <2>3, <3>2 DEF PowerLoss, CutApp, CutPack, Erasing, Transfer
      <4> QED BY <2>1, <2>3, <4>1 DEF PowerLoss
    <3> QED BY <3>1, <3>2
  <2>4. CASE UpgradeFault
    BY <2>1, <2>4 DEF UpgradeFault, AfterFailure
  <2>5. CASE CommitFault
    BY <2>2, <2>5 DEF CommitFault, ram
  <2>6. CASE TransferFault
    <3>1. pc = "download" /\ Safe'
      BY <2>2, <2>6 DEF TransferFault, Transfer
    <3> QED BY <2>6, <3>1 DEF TransferFault, AbortedTo, AppComplete, AppIs
  <2> QED BY <1>4, <2>3, <2>4, <2>5, <2>6 DEF Failure, PowerLoss
<1>5. CASE UNCHANGED vars
  BY <1>5, SafeStutter DEF vars, flash, ram, Pending, AppComplete, AppIs
<1> QED BY <1>1, <1>2, <1>3, <1>4, <1>5 DEF Next

(* The inductive invariant holds throughout: what rt_fota_upgrade and      *)
(* rt_fota_copy_version have done at each point is what flash then holds.  *)
THEOREM IndInvariance == Spec => []IndInv
<1>1. IndInv /\ [Next]_vars => IndInv'
  BY PhaseStep, SafeStep, TypeStep, HeadStep
     DEF IndInv, BootInv, Phases, Safe, Quiet, ReadOnlyShell
<1> QED BY IndInit, <1>1, PTL DEF Spec

(* A half-installed application can always be installed again: the package *)
(* it comes from is intact and, if it is the download, still marked new.   *)
THEOREM SourceKept == ReadOnlyShell => (Spec => []NoSourceLost)
<1> SUFFICES ASSUME ReadOnlyShell PROVE Spec => []NoSourceLost
  OBVIOUS
<1>1. IndInv => NoSourceLost
  BY DEF IndInv
<1> QED BY IndInvariance, <1>1, PTL

(* rt_fota_copy_version marks a download as installed only once it is, and *)
(* it stays installed until another package overwrites it.                 *)
THEOREM CommitSound == ReadOnlyShell => (Spec => []CommittedIsInstalled)
<1> SUFFICES ASSUME ReadOnlyShell PROVE Spec => []CommittedIsInstalled
  OBVIOUS
<1>1. IndInv => CommittedIsInstalled
  BY DEF IndInv
<1> QED BY IndInvariance, <1>1, PTL

(* The application is overwritten only from a package that has verified    *)
(* and, from the download, only while it is new.                           *)
THEOREM OverwriteSound == Spec => OverwritesOnlyForNews
<1>1. IndInv /\ [Next]_vars => [app' # app => Verified(src) /\ (src = "fm" => Pending("fm"))]_vars
  <2> SUFFICES ASSUME IndInv, [Next]_vars, app' # app
               PROVE  Verified(src) /\ (src = "fm" => Pending("fm"))
    OBVIOUS
  <2>1. pc \in {"erase", "copy"}
    BY DEF Next, Boot, PowerOn, NoKey, VerifyOK, VerifyFailed, CheckUpgrade, EraseTooLarge,
       EraseSector, Erasing, EraseDone, CopyChunk, CopyDone, CommitErase, CommitWrite,
       StartApplication, StartRefused, Operator, DefaultKey, EnterKey, ShellProbe, ShellExec,
       CloneUnit, CloneDone, YmdownDone, CloneBegin, YmdownBegin, Application, DownloadBegin,
       TransferUnit, TransferAbort, DownloadDone, Failure, PowerLoss, UpgradeFault,
       CommitFault, TransferFault, CutApp, flash, vars
  <2> QED BY <2>1 DEF IndInv, HeadIsCurrent, ErasePhase, CopyPhase
<1> QED BY IndInvariance, <1>1, PTL DEF Spec, OverwritesOnlyForNews

(* The copy only ever programs erased flash.                               *)
THEOREM CopySound == Spec => CopiesOntoErased
<1>1. IndInv /\ [Next]_vars => [CopyChunk => app[pos + 1] = Blank]_vars
  <2> SUFFICES ASSUME IndInv, CopyChunk PROVE app[pos + 1] = Blank
    OBVIOUS
  <2>1. pos \in Nat /\ head.img \in Images
    BY ImageAssumption DEF IndInv, TypeOK, CopyChunk, HeadIsCurrent, Verified
  <2>2. pos + 1 \in (pos + 1)..Chunks[head.img]
    BY <2>1, ImageAssumption DEF CopyChunk
  <2>3. \A k \in (pos + 1)..Chunks[head.img] : app[k] = Blank
    BY DEF IndInv, CopyPhase, CopyChunk
  <2> QED BY <2>2, <2>3
<1> QED BY IndInvariance, <1>1, PTL DEF Spec, CopiesOntoErased
----------------------------------------------------------------------------
(* The refinement.  The abstract variables as functions of the contents of *)
(* flash, so that what is known of them holds before and after a step.     *)
AppOf(a, i)     == Chunks[i] <= AppChunks /\ \A k \in 1..Chunks[i] : a[k] = <<i, k>>
InstalledIn(a)  == IF \E i \in Images : AppOf(a, i) THEN CHOOSE i \in Images : AppOf(a, i)
                                                   ELSE NoImage
VerifiedIn(P, p) == LET i == P[p].head.img IN i \in Accepted /\ Intact(i, P[p].body)
StagedIn(P)     == IF VerifiedIn(P, "fm") /\ Differs(P["fm"].head) THEN P["fm"].head.img
                                                                  ELSE NoImage
FactoryIn(P)    == IF VerifiedIn(P, "df") THEN P["df"].head.img ELSE NoImage

LEMMA AbstractView ==
    /\ InstalledNow = InstalledIn(app) /\ InstalledNow' = InstalledIn(app')
    /\ StagedNow = StagedIn(pack) /\ StagedNow' = StagedIn(pack')
    /\ FactoryNow = FactoryIn(pack) /\ FactoryNow' = FactoryIn(pack')
BY DEF InstalledNow, AppComplete, AppIs, InstalledIn, AppOf, StagedNow, StagedIn, Verified,
   VerifiedIn, Pending, FactoryNow, FactoryIn

(* The first chunk of an application tells which one it is.                *)
LEMMA InstalledOne ==
    ASSUME NEW a, NEW i \in Images, AppOf(a, i)
    PROVE  InstalledIn(a) = i
<1>1. \A j \in Images : AppOf(a, j) => j = i
  <2> SUFFICES ASSUME NEW j \in Images, AppOf(a, j) PROVE j = i
    OBVIOUS
  <2>1. 1 \in 1..Chunks[i] /\ 1 \in 1..Chunks[j]
    BY ImageAssumption
  <2>2. a[1] = <<i, 1>> /\ a[1] = <<j, 1>>
    BY <2>1 DEF AppOf
  <2> QED BY <2>2
<1> QED BY <1>1 DEF InstalledIn

LEMMA InstalledNone ==
    ASSUME NEW a, \A i \in Images : ~AppOf(a, i)
    PROVE  InstalledIn(a) = NoImage
BY DEF InstalledIn

LEMMA InstalledSlot ==
    ASSUME NEW a
    PROVE  \/ InstalledIn(a) = NoImage
           \/ InstalledIn(a) \in Images /\ AppOf(a, InstalledIn(a))
<1>1. CASE \E i \in Images : AppOf(a, i)
  BY <1>1, InstalledOne
<1>2. CASE ~\E i \in Images : AppOf(a, i)
  BY <1>2, InstalledNone
<1> QED BY <1>1, <1>2

(* Erasing and damaging chunks never makes an application of them.         *)
LEMMA SpoilingKeeps ==
    ASSUME NEW a, NEW b,
           \A k \in 1..AppChunks : b[k] = a[k] \/ b[k] = Blank \/ b[k] = Garbage
    PROVE  InstalledIn(b) \in {InstalledIn(a), NoImage}
<1>1. CASE \E i \in Images : AppOf(b, i)
  <2>1. PICK i \in Images : AppOf(b, i)
    BY <1>1
  <2>2. AppOf(a, i)
    <3> SUFFICES ASSUME NEW k \in 1..Chunks[i] PROVE a[k] = <<i, k>>
      BY <2>1 DEF AppOf
    <3>1. b[k] = <<i, k>> /\ k \in 1..AppChunks
      BY <2>1, ImageAssumption, FlashAssumption DEF AppOf
    <3>2. i # NoImage
      BY ImageAssumption
    <3> QED BY <3>1, <3>2 DEF Blank, Garbage
  <2> QED BY <2>1, <2>2, InstalledOne
<1>2. CASE ~\E i \in Images : AppOf(b, i)
  BY <1>2, InstalledNone
<1> QED BY <1>1, <1>2

LEMMA StagedSlot ==
    ASSUME NEW P
    PROVE  \/ StagedIn(P) = NoImage
           \/ /\ StagedIn(P) = P["fm"].head.img /\ StagedIn(P) \in Images
              /\ P["fm"].body[1] = <<StagedIn(P), 1>>
<1> SUFFICES ASSUME VerifiedIn(P, "fm"), Differs(P["fm"].head)
             PROVE  P["fm"].head.img \in Images /\ P["fm"].body[1] = <<P["fm"].head.img, 1>>
  BY DEF StagedIn
<1>1. P["fm"].head.img \in Images
  BY ImageAssumption DEF VerifiedIn
<1>2. 1 \in 1..Chunks[P["fm"].head.img]
  BY <1>1, ImageAssumption
<1> QED BY <1>1, <1>2 DEF VerifiedIn, Intact
(* What a step may do to the flash of the application.                     *)
LEMMA AppChange ==
    ASSUME IndInv, [Next]_vars, app' # app
    PROVE  /\ pack' = pack /\ pc \in {"erase", "copy"}
           /\ \/ CopyChunk
              \/ \A k \in 1..AppChunks : app'[k] = app[k] \/ app'[k] = Blank \/ app'[k] = Garbage
<1>0. TypeOK
  BY DEF IndInv
<1>1. EraseSector \/ CopyChunk \/ PowerLoss \/ UpgradeFault
  BY DEF Next, Boot, PowerOn, NoKey, VerifyOK, VerifyFailed, CheckUpgrade, EraseTooLarge,
     EraseDone, CopyDone, CommitErase, CommitWrite, StartApplication, StartRefused, Operator,
     DefaultKey, EnterKey, ShellProbe, ShellExec, CloneUnit, CloneDone, YmdownDone, CloneBegin,
     YmdownBegin, Application, DownloadBegin, TransferUnit, TransferAbort, DownloadDone,
     Failure, CommitFault, TransferFault, flash, vars
<1>2. CASE EraseSector
  BY <1>0, <1>2 DEF EraseSector, Erasing, Fill, TypeOK
<1>3. CASE CopyChunk
  BY <1>3 DEF CopyChunk
<1>4. CASE app' \in CutApp
  <2>1. pc \in {"erase", "copy"}
    BY <1>4 DEF CutApp, Erasing
  <2>2. \A k \in 1..AppChunks : app'[k] = app[k] \/ app'[k] = Blank \/ app'[k] = Garbage
    BY <1>0, <1>4 DEF CutApp, Fill, TypeOK
  <2>3. PowerLoss => pack' = pack
    BY <2>1 DEF PowerLoss, CutPack, Transfer
  <2> QED BY <1>1, <1>2, <1>3, <2>1, <2>2, <2>3 DEF UpgradeFault
<1> QED BY <1>1, <1>2, <1>3, <1>4 DEF PowerLoss, UpgradeFault

(* The copy makes the application of the package, or none yet.             *)
LEMMA CopyInstalls ==
    ASSUME IndInv, CopyChunk
    PROVE  /\ InstalledIn(app) = NoImage
           /\ InstalledIn(app') \in {NoImage, head.img}
<1>1. /\ app \in [1..AppChunks -> Content] /\ pos \in Nat /\ head.img \in Images
      /\ Chunks[head.img] \in Nat \ {0} /\ Chunks[head.img] <= AppChunks
      /\ pos < Decodes[head.img] /\ Decodes[head.img] \in Nat
      /\ Decodes[head.img] <= Chunks[head.img]
  BY ImageAssumption DEF IndInv, TypeOK, CopyChunk, HeadIsCurrent, Verified, CopyPhase
<1>2. /\ pos + 1 \in 1..Chunks[head.img] /\ pos + 1 \in 1..AppChunks
      /\ pos + 1 \in (pos + 1)..Chunks[head.img]
  BY <1>1, FlashAssumption
<1>3. app[pos + 1] = Blank /\ \A k \in 1..pos : app[k] = <<head.img, k>>
  BY <1>2 DEF IndInv, CopyPhase, CopyChunk
<1>4. pack[src].body[pos + 1] = <<head.img, pos + 1>>
  BY <1>2 DEF IndInv, HeadIsCurrent, Verified, Intact, CopyChunk
<1>5. app' = [app EXCEPT ![pos + 1] = <<head.img, pos + 1>>]
  BY <1>3, <1>4 DEF CopyChunk, Program
<1>6. \A i \in Images : ~AppOf(app, i)
  <2> SUFFICES ASSUME NEW i \in Images, AppOf(app, i) PROVE FALSE
    OBVIOUS
  <2>1. 1 \in 1..Chunks[i] /\ i # NoImage
    BY ImageAssumption
  <2>2. app[1] = <<i, 1>> /\ app[1] # Blank
    BY <2>1 DEF AppOf, Blank
  <2>3. pos # 0
    <3> SUFFICES ASSUME pos = 0 PROVE FALSE
      OBVIOUS
    <3>1. pos + 1 = 1
      OBVIOUS
    <3> QED BY <1>3, <2>2, <3>1
  <2>4. i = head.img
    <3>1. 1 \in 1..pos
      BY <1>1, <2>3
    <3>2. app[1] = <<head.img, 1>>
      BY <1>3, <3>1
    <3> QED BY <2>2, <3>2
  <2>5. app[pos + 1] = <<i, pos + 1>>
    BY <1>2, <2>4 DEF AppOf
  <2> QED BY <1>3, <2>1, <2>5 DEF Blank
<1>7. ASSUME NEW i \in Images, AppOf(app', i) PROVE i = head.img
  <2>1. app'[1] = <<i, 1>>
    BY <1>7, ImageAssumption DEF AppOf
  <2>2. app'[1] = <<head.img, 1>>
    BY <1>1, <1>2, <1>3, <1>5
  <2> QED BY <2>1, <2>2
<1>8. InstalledIn(app) = NoImage
  BY <1>6, InstalledNone
<1>9. InstalledIn(app') \in {NoImage, head.img}
  BY <1>7, InstalledSlot
<1> QED BY <1>8, <1>9

LEMMA AppRefines ==
    ASSUME ReadOnlyShell, IndInv, [Next]_vars, app' # app
    PROVE  [Promise!Next]_(Promise!vars)
<1>1. /\ pack' = pack /\ pc \in {"erase", "copy"}
      /\ \/ CopyChunk
         \/ \A k \in 1..AppChunks : app'[k] = app[k] \/ app'[k] = Blank \/ app'[k] = Garbage
  BY AppChange
<1>2. /\ Verified(src) /\ head = pack[src].head /\ src \in Packages
      /\ src = "fm" => Pending("fm")
  BY <1>1 DEF IndInv, TypeOK, HeadIsCurrent, ErasePhase, CopyPhase
<1>3. /\ head.img \in Images /\ head.img # NoImage
      /\ StagedIn(pack) = head.img \/ FactoryIn(pack) = head.img
  BY <1>2, ImageAssumption
     DEF Packages, Verified, VerifiedIn, Pending, StagedIn, FactoryIn
<1>4. StagedNow' = StagedNow /\ FactoryNow' = FactoryNow
  BY <1>1, AbstractView
<1>5. CASE CopyChunk
  <2>1. InstalledNow = NoImage /\ InstalledNow' \in {NoImage, head.img}
    BY <1>5, CopyInstalls, AbstractView
  <2>2. CASE InstalledNow' = NoImage
    BY <1>4, <2>1, <2>2 DEF Promise!vars
  <2>3. CASE InstalledNow' = head.img
    <3>1. Promise!Install
      BY <1>3, <1>4, <2>1, <2>3, AbstractView DEF Promise!Install
    <3> QED BY <3>1 DEF Promise!Next
  <2> QED BY <2>1, <2>2, <2>3
<1>6. CASE \A k \in 1..AppChunks : app'[k] = app[k] \/ app'[k] = Blank \/ app'[k] = Garbage
  <2>1. InstalledNow' \in {InstalledNow, NoImage}
    BY <1>6, SpoilingKeeps, AbstractView
  <2>2. CASE InstalledNow' = InstalledNow
    BY <1>4, <2>2 DEF Promise!vars
  <2>3. CASE InstalledNow' = NoImage /\ InstalledNow # NoImage
    <3>1. Promise!GiveUp
      BY <1>3, <1>4, <2>3, AbstractView DEF Promise!GiveUp
    <3> QED BY <3>1 DEF Promise!Next
  <2> QED BY <2>1, <2>2, <2>3
<1> QED BY <1>1, <1>5, <1>6
(* What a step may do to a package: the application is whole, the factory  *)
(* package is left alone, and the download loses its stage or keeps one of *)
(* the two things that tell what is staged.                                *)
LEMMA PackChange ==
    ASSUME ReadOnlyShell, IndInv, [Next]_vars, pack' # pack
    PROVE  /\ app' = app /\ AppComplete
           /\ pack'["df"] = pack["df"]
           /\ \/ StagedIn(pack') = NoImage
              \/ pack'["fm"].head = pack["fm"].head
              \/ pack'["fm"].body[1] = pack["fm"].body[1]
<1>0. /\ TypeOK /\ pc \notin {"ymdown", "clone"} /\ NoImage \notin Images
      /\ pack \in [Packages -> PackType]
  BY ImageAssumption DEF IndInv, TypeOK
<1>1. \/ CommitErase \/ CommitWrite \/ TransferUnit \/ \E i \in Images : DownloadBegin(i)
      \/ pack' \in CutPack /\ (PowerLoss \/ CommitFault \/ TransferFault)
  BY <1>0 DEF Next, Boot, PowerOn, NoKey, VerifyOK, VerifyFailed, CheckUpgrade, EraseTooLarge,
     EraseSector, EraseDone, CopyChunk, CopyDone, StartApplication, StartRefused, Operator,
     DefaultKey, EnterKey, ShellProbe, ShellExec, CloneUnit, CloneDone, YmdownDone, CloneBegin,
     YmdownBegin, Application, TransferAbort, DownloadDone, ReadOnlyShell,
     Failure, PowerLoss, UpgradeFault, CommitFault, TransferFault, flash, vars
<1>2. pc \in {"commit", "commitWrite", "app", "download"}
  BY <1>0, <1>1 DEF CommitErase, CommitWrite, TransferUnit, DownloadBegin, CutPack, Transfer
<1>3. AppComplete
  BY <1>2 DEF IndInv, CommitPhase, RunPhase, AppComplete
<1>4. pc = "download" => tgt = "fm"
  BY DEF IndInv, RamPhase
<1>5. pc = "commitWrite" => ~Differs(cache.head)
  BY DEF IndInv, CommitPhase, Differs
<1>6. ASSUME NEW P, ~Differs(P["fm"].head)
      PROVE  StagedIn(P) = NoImage
  BY <1>6 DEF StagedIn
<1>7. ~Differs(NoHead)
  BY DEF Differs, NoHead
<1>8. CASE CommitErase
  <2>1. pack'["fm"].head = NoHead
    BY <1>0, <1>8 DEF CommitErase, PackType, Packages
  <2> QED BY <1>0, <1>3, <1>6, <1>7, <1>8, <2>1 DEF CommitErase, Packages
<1>9. CASE CommitWrite
  <2>1. pack'["fm"].head = cache.head
    BY <1>0, <1>9 DEF CommitWrite, PackType, Packages
  <2> QED BY <1>0, <1>3, <1>5, <1>6, <1>9, <2>1 DEF CommitWrite, Packages
<1>10. ASSUME NEW i \in Images, DownloadBegin(i)
       PROVE  app' = app /\ pack'["df"] = pack["df"] /\ StagedIn(pack') = NoImage
  <2>1. pack'["fm"].head = NoHead
    BY <1>0, <1>10 DEF DownloadBegin, BlankPack, Packages
  <2> QED BY <1>0, <1>6, <1>7, <1>10, <2>1 DEF DownloadBegin, Packages
<1>11. CASE TransferUnit
  <2>1. tgt = "fm"
    BY <1>0, <1>4, <1>11 DEF TransferUnit, Transfer
  <2>2. CASE pos = 0
    BY <1>0, <1>3, <1>11, <2>1, <2>2 DEF TransferUnit, PackType, Packages
  <2>3. CASE pos # 0
    BY <1>0, <1>3, <1>11, <2>1, <2>3 DEF TransferUnit, PackType, Packages
  <2> QED BY <2>2, <2>3
<1>12. CASE pack' \in CutPack /\ (PowerLoss \/ CommitFault \/ TransferFault)
  <2>1. app' = app
    BY <1>2, <1>12 DEF PowerLoss, CommitFault, TransferFault, CutApp, Erasing
  <2>2. CASE pc \in {"commit", "commitWrite"}
    <3>1. /\ pack'["df"] = pack["df"]
          /\ \/ pack'["fm"].head = pack["fm"].head
             \/ pack'["fm"].head = NoHead
             \/ pc = "commitWrite" /\ pack'["fm"].head = cache.head
      BY <1>0, <1>12, <2>2 DEF CutPack, Transfer, PackType, Packages
    <3> QED BY <1>3, <1>5, <1>6, <1>7, <2>1, <3>1
  <2>3. CASE pc \notin {"commit", "commitWrite"}
    BY <1>0, <1>2, <1>3, <1>4, <1>12, <2>1, <2>3 DEF CutPack, Transfer, PackType, Packages
  <2> QED BY <2>2, <2>3
<1> QED BY <1>1, <1>3, <1>8, <1>9, <1>10, <1>11, <1>12

LEMMA PackRefines ==
    ASSUME ReadOnlyShell, IndInv, [Next]_vars, pack' # pack
    PROVE  [Promise!Next]_(Promise!vars)
<1>1. /\ app' = app /\ AppComplete
      /\ pack'["df"] = pack["df"]
      /\ \/ StagedIn(pack') = NoImage
         \/ pack'["fm"].head = pack["fm"].head
         \/ pack'["fm"].body[1] = pack["fm"].body[1]
  BY PackChange
<1>2. InstalledNow' = InstalledNow /\ InstalledNow # NoImage
  <2>1. PICK i \in Images : AppOf(app, i)
    BY <1>1 DEF AppComplete, AppIs, AppOf
  <2> QED BY <1>1, <2>1, InstalledOne, AbstractView, ImageAssumption
<1>3. FactoryNow' = FactoryNow
  BY <1>1, AbstractView DEF FactoryIn, VerifiedIn
<1>4. \/ StagedIn(pack') = NoImage
      \/ StagedIn(pack') = StagedIn(pack)
      \/ StagedIn(pack) = NoImage /\ StagedIn(pack') \in Images
  BY <1>1, StagedSlot
<1>5. CASE StagedNow' = NoImage
  BY <1>2, <1>3, <1>5 DEF Promise!Unstage, Promise!Next
<1>6. CASE StagedNow' = StagedNow
  BY <1>2, <1>3, <1>6 DEF Promise!vars
<1>7. CASE StagedNow = NoImage /\ StagedNow' \in Images
  BY <1>2, <1>3, <1>7 DEF Promise!Stage, Promise!Next
<1> QED BY <1>4, <1>5, <1>6, <1>7, AbstractView

(* The boot loader, with every sector, header and power loss, implements   *)
(* the unit of UpgradePromise: it gives an application up only while a     *)
(* verified package is at hand, and what replaces it is one of the two.    *)
THEOREM PromiseKept == ReadOnlyShell => (Spec => ImplementsPromise)
<1> SUFFICES ASSUME ReadOnlyShell PROVE Spec => ImplementsPromise
  OBVIOUS
<1>1. Init => Promise!Init
  <2> SUFFICES ASSUME Init PROVE Promise!Init
    OBVIOUS
  <2>1. InstalledNow \in Images
    <3>1. PICK i \in Images :
             /\ Chunks[i] <= AppChunks
             /\ app = [k \in 1..AppChunks |-> IF k <= Chunks[i] THEN <<i, k>> ELSE Blank]
      BY DEF Init
    <3>2. \A k \in 1..Chunks[i] : k \in 1..AppChunks /\ k <= Chunks[i]
      BY <3>1, ImageAssumption, FlashAssumption
    <3>3. AppOf(app, i)
      BY <3>1, <3>2 DEF AppOf
    <3> QED BY <3>3, InstalledOne, AbstractView
  <2>2. StagedNow \in Images \cup {NoImage}
    BY StagedSlot, AbstractView
  <2>3. FactoryNow \in Images \cup {NoImage}
    BY ImageAssumption DEF FactoryNow, Verified
  <2> QED BY <2>1, <2>2, <2>3, ImageAssumption DEF Promise!Init, Promise!Slot
<1>2. IndInv /\ [Next]_vars => [Promise!Next]_(Promise!vars)
  <2> SUFFICES ASSUME IndInv, [Next]_vars PROVE [Promise!Next]_(Promise!vars)
    OBVIOUS
  <2>1. CASE app' = app /\ pack' = pack
    BY <2>1, AbstractView DEF Promise!vars
  <2> QED BY <2>1, AppRefines, PackRefines
<1> QED BY <1>1, <1>2, IndInvariance, PTL DEF Spec, ImplementsPromise, Promise!Spec
----------------------------------------------------------------------------
(* What rt_fota_start_application is left with when packages are sound,    *)
(* flash works and nobody uses exec: an incomplete application comes from  *)
(* a package that fits "app"; if it is the download, the boot goes on to   *)
(* write it again, and if that is turned down, the first sector is blank.  *)
Sound == /\ ~Faults /\ Commands \subseteq {"probe"}
         /\ \A i \in Accepted \ Rejected : Decodes[i] = Chunks[i]

HangInv ==
    /\ pc = "copy" => head.img \notin Rejected
    /\ ~AppComplete /\ writer = "fm" => Chunks[pack["fm"].head.img] <= AppChunks
    /\ pc = "start" /\ VectorOK /\ ~AppComplete => writer = "df"
    /\ pc = "hung" => writer = "df"

LEMMA WriterStep ==
    ASSUME IndInv, [Next]_vars, writer' # writer
    PROVE  Erasing /\ writer' = src /\ pack' = pack
<1>1. EraseSector \/ PowerLoss \/ UpgradeFault
  BY DEF Next, Boot, PowerOn, NoKey, VerifyOK, VerifyFailed, CheckUpgrade, EraseTooLarge,
     EraseDone, CopyChunk, CopyDone, CommitErase, CommitWrite, StartApplication, StartRefused,
     Operator, DefaultKey, EnterKey, ShellProbe, ShellExec, CloneUnit, CloneDone, YmdownDone,
     CloneBegin, YmdownBegin, Application, DownloadBegin, TransferUnit, TransferAbort,
     DownloadDone, Failure, CommitFault, TransferFault, vars
<1>2. CASE EraseSector
  BY <1>2 DEF EraseSector
<1>3. CASE PowerLoss \/ UpgradeFault
  <2>1. pc = "erase" /\ app' # app /\ writer' = src /\ app' \in CutApp
    BY <1>3 DEF PowerLoss, UpgradeFault, WriterNow
  <2>2. Erasing
    BY <2>1 DEF CutApp
  <2>3. pack' = pack
    BY <1>3, <2>1 DEF PowerLoss, UpgradeFault, CutPack, Transfer
  <2> QED BY <2>1, <2>2, <2>3
<1> QED BY <1>1, <1>2, <1>3

LEMMA WriterFits ==
    ASSUME Sound, IndInv, HangInv, [Next]_vars, ~AppComplete', writer' = "fm"
    PROVE  Chunks[pack'["fm"].head.img] <= AppChunks
<1>1. CASE writer' # writer
  <2>1. Erasing /\ src = "fm" /\ pack' = pack
    BY <1>1, WriterStep
  <2> QED BY <2>1 DEF Erasing, IndInv, HeadIsCurrent
<1>2. CASE writer' = writer /\ pack' # pack
  <2>1. app' = app /\ AppComplete
    BY <1>2, PackChange DEF Sound, ReadOnlyShell
  <2> QED BY <2>1 DEF AppComplete, AppIs
<1>3. CASE writer' = writer /\ pack' = pack /\ app' # app
  <2>1. pc \in {"erase", "copy"}
    BY <1>3, AppChange
  <2>2. CASE pc = "copy"
    BY <1>3, <2>2 DEF IndInv, HeadIsCurrent, CopyPhase
  <2>3. CASE pc = "erase"
    <3>1. app' = app \/ (Erasing /\ writer' = src)
      BY <1>3, <2>3 DEF Next, Boot, PowerOn, NoKey, VerifyOK, VerifyFailed, CheckUpgrade,
         EraseTooLarge, EraseSector, EraseDone, CopyChunk, CopyDone, CommitErase, CommitWrite,
         StartApplication, StartRefused, Operator, DefaultKey, EnterKey, ShellProbe, ShellExec,
         CloneUnit, CloneDone, YmdownDone, CloneBegin, YmdownBegin, Application, DownloadBegin,
         TransferUnit, TransferAbort, DownloadDone, Failure, PowerLoss, UpgradeFault,
         CommitFault, TransferFault, CutApp, WriterNow, flash, vars
    <3> QED BY <1>3, <2>3, <3>1 DEF Erasing, IndInv, HeadIsCurrent
  <2> QED BY <2>1, <2>2, <2>3
<1>4. CASE writer' = writer /\ pack' = pack /\ app' = app
  BY <1>4 DEF HangInv, AppComplete, AppIs
<1> QED BY <1>1, <1>2, <1>3, <1>4

(* All ways to the start of an application, but through a reset.           *)
LEMMA StartPhase ==
    ASSUME Sound, IndInv, HangInv, [Next]_vars, pc' = "start", VectorOK', ~AppComplete'
    PROVE  writer' = "df"
<1>0. /\ TypeOK /\ HeadIsCurrent /\ RamPhase /\ ErasePhase /\ CopyPhase /\ CommitPhase
      /\ NoSourceLost /\ ~Faults
  BY DEF IndInv, Sound, ReadOnlyShell
<1>1. \/ VerifyFailed \/ CheckUpgrade \/ EraseTooLarge \/ EraseDone \/ CopyDone \/ CommitWrite
      \/ UNCHANGED vars
  <2>1. CASE Boot
    BY <1>0, <2>1 DEF Boot, PowerOn, NoKey, VerifyOK, VerifyFailed, CheckUpgrade, EraseTooLarge, Erasing,
           EraseSector, EraseDone, CopyChunk, CopyDone, CommitErase, CommitWrite, StartApplication,
           StartRefused, AfterFailure, Restart
  <2>2. CASE Operator
    BY <1>0, <2>2 DEF Operator, DefaultKey, EnterKey, ShellProbe, ShellExec, CloneUnit, CloneDone, YmdownDone,
           CloneBegin, YmdownBegin, Restart, Sound
  <2>3. CASE Application
    BY <1>0, <2>3 DEF Application, DownloadBegin, TransferUnit, TransferAbort, DownloadDone, AbortedTo,
           Restart, Transfer
  <2>4. CASE Failure
    BY <1>0, <2>4 DEF Failure, PowerLoss, UpgradeFault, CommitFault, TransferFault, Sound
  <2> QED BY <2>1, <2>2, <2>3, <2>4 DEF Next
<1>2. UNCHANGED <<app, writer>>
  BY <1>1 DEF VerifyFailed, CheckUpgrade, EraseTooLarge, EraseDone, CopyDone, CommitWrite, flash,
     vars
<1>3. VectorOK /\ ~AppComplete /\ writer \in {"fm", "df"}
  BY <1>0, <1>2 DEF VectorOK, AppComplete, AppIs, TypeOK, Packages
<1> SUFFICES ASSUME writer = "fm" PROVE FALSE
  BY <1>2, <1>3
<1>4. Verified("fm") /\ Pending("fm") /\ Chunks[pack["fm"].head.img] <= AppChunks
  BY <1>0, <1>3 DEF NoSourceLost, HangInv
<1>5. CASE VerifyFailed
  BY <1>0, <1>4, <1>5 DEF VerifyFailed, AfterFailure
<1>6. CASE CheckUpgrade
  BY <1>0, <1>4, <1>6 DEF CheckUpgrade, HeadIsCurrent, RamPhase, Pending
<1>7. CASE EraseTooLarge
  <2>1. src = "fm" /\ head = pack["fm"].head /\ Chunks[head.img] > AppChunks
    BY <1>0, <1>7 DEF EraseTooLarge, AfterFailure, HeadIsCurrent
  <2>2. head.img \in Images
    BY <1>4, <2>1, ImageAssumption DEF Verified
  <2> QED BY <1>4, <2>1, <2>2, ImageAssumption, FlashAssumption
<1>8. CASE EraseDone
  <2>1. Chunks[head.img] \in Nat \ {0} /\ pos \in Nat
    BY <1>0, <1>8, ImageAssumption DEF EraseDone, HeadIsCurrent, Verified, TypeOK
  <2>2. pos > 0 /\ 1 <= pos * SectorChunks
    <3>1. Chunks[head.img] <= pos * SectorChunks /\ SectorChunks \in Nat
      BY <1>8, FlashAssumption DEF EraseDone
    <3>2. pos # 0
      BY <2>1, <3>1
    <3>3. pos * SectorChunks \in Nat
      BY <2>1, <3>1
    <3> QED BY <2>1, <3>1, <3>2, <3>3
  <2>3. app[1] = Blank
    BY <1>0, <1>8, <2>2, FlashAssumption DEF EraseDone, ErasePhase
  <2> QED BY <1>3, <2>3 DEF VectorOK
<1>9. CASE CopyDone
  <2>1. pos < Chunks[head.img] \/ src = "df"
    BY <1>0, <1>9 DEF CopyDone, AfterFailure, TypeOK, Packages
  <2>2. head.img \in Accepted \ Rejected /\ Decodes[head.img] = Chunks[head.img]
    BY <1>0, <1>9 DEF CopyDone, HeadIsCurrent, Verified, HangInv, Sound
  <2>3. src = "fm"
    BY <1>0, <1>9 DEF CopyDone, CopyPhase
  <2>4. Chunks[head.img] \in Nat /\ pos = Chunks[head.img]
    BY <1>9, <2>2, ImageAssumption DEF CopyDone
  <2> QED BY <2>1, <2>3, <2>4
<1>10. CASE CommitWrite
  BY <1>0, <1>3, <1>10 DEF CommitWrite, CommitPhase, AppComplete
<1>11. CASE UNCHANGED vars
  BY <1>3, <1>11 DEF vars, HangInv
<1> QED BY <1>1, <1>5, <1>6, <1>7, <1>8, <1>9, <1>10, <1>11

LEMMA HangStep ==
    ASSUME Sound, IndInv, HangInv, [Next]_vars
    PROVE  HangInv'
<1>1. ASSUME pc' = "copy" PROVE head'.img \notin Rejected
  <2>1. EraseDone \/ CopyChunk \/ UNCHANGED vars
    <3>1. CASE Boot
      BY <1>1, <3>1 DEF Boot, PowerOn, NoKey, VerifyOK, VerifyFailed, CheckUpgrade, EraseTooLarge, Erasing,
           EraseSector, EraseDone, CopyChunk, CopyDone, CommitErase, CommitWrite, StartApplication,
           StartRefused, AfterFailure, Restart
    <3>2. CASE Operator
      BY <1>1, <3>2 DEF Operator, DefaultKey, EnterKey, ShellProbe, ShellExec, CloneUnit, CloneDone, YmdownDone,
           CloneBegin, YmdownBegin, Restart, Sound
    <3>3. CASE Application
      BY <1>1, <3>3 DEF Application, DownloadBegin, TransferUnit, TransferAbort, DownloadDone, AbortedTo,
           Restart, Transfer
    <3>4. CASE Failure
      BY <1>1, <3>4 DEF Failure, PowerLoss, UpgradeFault, CommitFault, TransferFault, Sound
    <3> QED BY <3>1, <3>2, <3>3, <3>4 DEF Next
  <2> QED BY <1>1, <2>1 DEF EraseDone, AfterFailure, CopyChunk, vars, HangInv
<1>2. ASSUME pc' = "hung" PROVE writer' = "df"
  <2>1. StartApplication \/ UNCHANGED vars
    <3>1. CASE Boot
      BY <1>2, <3>1 DEF Boot, PowerOn, NoKey, VerifyOK, VerifyFailed, CheckUpgrade, EraseTooLarge, Erasing,
           EraseSector, EraseDone, CopyChunk, CopyDone, CommitErase, CommitWrite, StartApplication,
           StartRefused, AfterFailure, Restart
    <3>2. CASE Operator
      BY <1>2, <3>2 DEF Operator, DefaultKey, EnterKey, ShellProbe, ShellExec, CloneUnit, CloneDone, YmdownDone,
           CloneBegin, YmdownBegin, Restart, Sound
    <3>3. CASE Application
      BY <1>2, <3>3 DEF Application, DownloadBegin, TransferUnit, TransferAbort, DownloadDone, AbortedTo,
           Restart, Transfer
    <3>4. CASE Failure
      BY <1>2, <3>4 DEF Failure, PowerLoss, UpgradeFault, CommitFault, TransferFault, Sound
    <3> QED BY <3>1, <3>2, <3>3, <3>4 DEF Next
  <2> QED BY <1>2, <2>1 DEF StartApplication, vars, HangInv
<1> QED BY <1>1, <1>2, StartPhase, WriterFits DEF HangInv

(* A boot starts a half-written application only if a power loss has left  *)
(* it of a restore of the factory package: a download is always retried.   *)
THEOREM HangsOnlyAfterRestore == Sound => (Spec => []HungOnlyAfterRestore)
<1> SUFFICES ASSUME Sound PROVE Spec => []HungOnlyAfterRestore
  OBVIOUS
<1>1. Init => HangInv
  BY DEF Init, HangInv
<1>2. IndInv /\ HangInv /\ [Next]_vars => HangInv'
  BY HangStep
<1>3. HangInv => HungOnlyAfterRestore
  BY DEF HangInv, HungOnlyAfterRestore
<1> QED BY <1>1, <1>2, <1>3, IndInvariance, PTL DEF Spec
-----------------------------------------------------------------------------
(* Where a boot stands.  Keys are read before a partition is chosen.       *)
KeysFirst == pc = "keys" => src = "fm"

LEMMA KeysStep == KeysFirst /\ [Next]_vars => KeysFirst'
<1> SUFFICES ASSUME KeysFirst, [Next]_vars, pc' = "keys" PROVE src' = "fm"
  BY DEF KeysFirst
<1>1. CASE Boot
  BY <1>1 DEF Boot, PowerOn, Restart, NoKey, VerifyOK, VerifyFailed, CheckUpgrade,
     EraseTooLarge, EraseSector, Erasing, EraseDone, CopyChunk, CopyDone, CommitErase,
     CommitWrite, StartApplication, StartRefused, AfterFailure
<1>2. CASE Operator
  BY <1>2 DEF Operator, DefaultKey, EnterKey, ShellProbe, ShellExec, CloneUnit, CloneDone,
     CloneBegin, YmdownBegin, YmdownDone, Restart
<1>3. CASE Application
  BY <1>3 DEF Application, DownloadBegin, TransferUnit, TransferAbort, AbortedTo, Transfer,
     DownloadDone, Restart
<1>4. CASE Failure
  BY <1>4 DEF Failure, PowerLoss, UpgradeFault, CommitFault, TransferFault, AfterFailure,
     AbortedTo
<1>5. CASE UNCHANGED vars
  BY <1>5 DEF vars, KeysFirst
<1> QED BY <1>1, <1>2, <1>3, <1>4, <1>5 DEF Next

LEMMA OrderFacts ==
    /\ DOMAIN Order = {"keys", "verify", "check", "erase", "copy", "commit", "commitWrite",
                       "start"}
    /\ Order["keys"] = 0 /\ Order["verify"] = 1 /\ Order["check"] = 2
    /\ Order["erase"] = 3 /\ Order["copy"] = 4 /\ Order["commit"] = 5
    /\ Order["commitWrite"] = 6 /\ Order["start"] = 7
BY DEF Order

(* Each sector erased is one more, and there is one to erase only while    *)
(* the package, which fits, reaches into it.                               *)
LEMMA SectorCount == ASSUME IndInv, EraseSector PROVE pos < pos' /\ pos' <= AppChunks
<1>1. head.img \in Images /\ pos \in Nat
  BY ImageAssumption DEF IndInv, TypeOK, EraseSector, Erasing, HeadIsCurrent, Verified
<1>2. Chunks[head.img] \in Nat /\ SectorChunks \in Nat \ {0} /\ AppChunks \in Nat
  BY <1>1, ImageAssumption, FlashAssumption
<1>3. pos * SectorChunks < Chunks[head.img] /\ Chunks[head.img] <= AppChunks /\ pos' = pos + 1
  BY DEF EraseSector, Erasing
<1>4. pos <= pos * SectorChunks /\ pos * SectorChunks \in Nat
  BY <1>1, <1>2
<1> QED BY <1>1, <1>2, <1>3, <1>4

(* Each chunk copied is one more, and the image fits.                      *)
LEMMA ChunkCount == ASSUME IndInv, CopyChunk PROVE pos < pos' /\ pos' <= AppChunks
<1>1. head.img \in Images /\ pos \in Nat /\ Chunks[head.img] <= AppChunks
  BY ImageAssumption DEF IndInv, TypeOK, CopyChunk, CopyPhase, HeadIsCurrent, Verified
<1>2. Decodes[head.img] \in Nat /\ Decodes[head.img] <= Chunks[head.img]
      /\ Chunks[head.img] \in Nat /\ AppChunks \in Nat
  BY <1>1, ImageAssumption, FlashAssumption
<1> QED BY <1>1, <1>2 DEF CopyChunk

LEMMA BootStep ==
    ASSUME IndInv, KeysFirst, Next, Booting, Booting'
    PROVE  Later
<1>0. /\ pc \in DOMAIN Order /\ pc' \in DOMAIN Order /\ src \in {"fm", "df"}
      /\ pc \in {"check", "commit", "commitWrite"} => src = "fm"
      /\ pc = "keys" => src = "fm"
  BY DEF IndInv, TypeOK, RamPhase, Packages, Booting, KeysFirst
<1>1. CASE Boot
  <2>1. CASE NoKey
    BY <1>0, <2>1, OrderFacts DEF NoKey, Later
  <2>2. CASE VerifyOK
    BY <2>2, OrderFacts DEF VerifyOK, Later
  <2>3. CASE VerifyFailed
    BY <1>0, <2>3, OrderFacts DEF VerifyFailed, AfterFailure, Later
  <2>4. CASE CheckUpgrade
    BY <2>4, OrderFacts DEF CheckUpgrade, ram, Later
  <2>5. CASE EraseTooLarge
    BY <1>0, <2>5, OrderFacts DEF EraseTooLarge, AfterFailure, ram, Later
  <2>6. CASE EraseSector
    BY <2>6, SectorCount DEF EraseSector, Later
  <2>7. CASE EraseDone
    BY <1>0, <2>7, OrderFacts DEF EraseDone, AfterFailure, Later
  <2>8. CASE CopyChunk
    BY <2>8, ChunkCount DEF CopyChunk, Later
  <2>9. CASE CopyDone
    BY <1>0, <2>9, OrderFacts DEF CopyDone, AfterFailure, ram, Later
  <2>10. CASE CommitErase
    BY <2>10, OrderFacts DEF CommitErase, Later
  <2>11. CASE CommitWrite
    BY <2>11, OrderFacts DEF CommitWrite, ram, Later
  <2>12. CASE StartRefused
    BY <1>0, <2>12, OrderFacts DEF StartRefused, Later
  <2>13. CASE PowerOn \/ StartApplication
    BY <1>0, <2>13, OrderFacts DEF PowerOn, StartApplication
  <2> QED BY <1>1, <2>1, <2>2, <2>3, <2>4, <2>5, <2>6, <2>7, <2>8, <2>9, <2>10, <2>11, <2>12,
             <2>13 DEF Boot
<1>2. CASE Operator
  <2>1. DefaultKey
    BY <1>0, <1>2, OrderFacts DEF Operator, EnterKey, ShellProbe, ShellExec, CloneUnit,
       CloneDone, YmdownDone, CloneBegin, YmdownBegin
  <2> QED BY <1>0, <2>1 DEF DefaultKey, Later
<1>3. CASE Application
  BY <1>0, <1>3, OrderFacts DEF Application, DownloadBegin, TransferUnit, TransferAbort,
     DownloadDone, Transfer
<1>4. CASE Failure
  <2>1. CASE UpgradeFault
    BY <1>0, <2>1, OrderFacts DEF UpgradeFault, AfterFailure, ram, Later
  <2>2. CASE CommitFault
    BY <2>2, OrderFacts DEF CommitFault, ram, Later
  <2>3. CASE PowerLoss \/ TransferFault
    BY <1>0, <2>3, OrderFacts DEF PowerLoss, TransferFault, Transfer
  <2> QED BY <1>4, <2>1, <2>2, <2>3 DEF Failure
<1> QED BY <1>1, <1>2, <1>3, <1>4 DEF Next

(* Until it has started something, reached the shell or lost its power,    *)
(* every step of a boot brings it further through rt_fota_thread_entry,    *)
(* also when flash operations fail: there is no way round in a circle.     *)
THEOREM BootGoesOn == Spec => BootAdvances
<1>1. Init => KeysFirst
  BY DEF Init, KeysFirst
<1>2. KeysFirst /\ [Next]_vars => KeysFirst'
  BY KeysStep
<1>3. IndInv /\ KeysFirst /\ [Next]_vars => [Booting /\ Booting' => Later]_vars
  BY BootStep
<1> QED BY <1>1, <1>2, <1>3, IndInvariance, PTL DEF Spec, BootAdvances
=============================================================================
