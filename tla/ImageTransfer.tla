--------------------------- MODULE ImageTransfer ---------------------------
(***************************************************************************)
(* What an upgrade of the coordinator promises, seen from outside: the     *)
(* coordinator collects the blocks of the image one after the other, may   *)
(* drop them and start again at any time, holds the image once it has all  *)
(* of them, and only then is the new version announced.                    *)
(***************************************************************************)
EXTENDS Naturals

CONSTANT NumBlocks     \* blocks of the image

VARIABLES
  accepted,            \* blocks of the image collected, in order
  installed,           \* 1: the coordinator holds the image on offer
  announced            \* 1: the gateway reports the new version

imageVars == <<accepted, installed, announced>>

Init == accepted = 0 /\ installed = 0 /\ announced = 0

\* The next block arrives.
Accept ==
  /\ accepted < NumBlocks
  /\ accepted' = accepted + 1
  /\ UNCHANGED <<installed, announced>>

\* A reset, a time out or a refusal: what was collected is lost.
StartAgain ==
  /\ accepted' = 0
  /\ UNCHANGED <<installed, announced>>

\* The last block is there and the coordinator keeps the image.
Install ==
  /\ accepted = NumBlocks
  /\ installed' = 1
  /\ UNCHANGED <<accepted, announced>>

Announce ==
  /\ installed = 1
  /\ announced' = 1
  /\ UNCHANGED <<accepted, installed>>

Next == Accept \/ StartAgain \/ Install \/ Announce

Spec == Init /\ [][Next]_imageVars
=============================================================================
