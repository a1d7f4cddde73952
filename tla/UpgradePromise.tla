--------------------------- MODULE UpgradePromise ---------------------------
(***************************************************************************)
(* What the boot loader promises, without flash sectors, headers or boot   *)
(* phases: the unit has at most one installed application, at most one     *)
(* staged package and possibly a factory package.  The application is      *)
(* given up only while a package that can replace it is at hand, and what  *)
(* replaces it is one of those two packages.                               *)
(***************************************************************************)
CONSTANTS Images,   \* firmware images
          NoImage   \* "nothing usable here"

VARIABLES installed,  \* the image the application partition holds, if any
          staged,     \* the verified package waiting in the download area
          factory     \* the verified package in the default area

vars == <<installed, staged, factory>>

Slot == Images \cup {NoImage}

Init == /\ installed \in Slot
        /\ staged \in Slot
        /\ factory \in Slot
        /\ installed = NoImage => staged # NoImage \/ factory # NoImage

\* The running application downloads a package.
Stage(i) == /\ installed # NoImage
            /\ staged = NoImage
            /\ staged' = i
            /\ UNCHANGED <<installed, factory>>

\* The staged package is committed, or overwritten by a new download.
Unstage == /\ installed # NoImage
           /\ staged' = NoImage
           /\ UNCHANGED <<installed, factory>>

\* The boot loader starts to overwrite the application.
GiveUp == /\ installed # NoImage
          /\ staged # NoImage \/ factory # NoImage
          /\ installed' = NoImage
          /\ UNCHANGED <<staged, factory>>

\* The overwritten application is whole again.
Install == /\ installed = NoImage
           /\ installed' \in {staged, factory} \ {NoImage}
           /\ UNCHANGED <<staged, factory>>

Next == \/ \E i \in Images : Stage(i)
        \/ Unstage
        \/ GiveUp
        \/ Install

Spec == Init /\ [][Next]_vars

\* A unit without an application does not stay without one.
Fairness == WF_vars(Install)

FairSpec == Spec /\ Fairness
=============================================================================
