--------------------------- MODULE XmodemRefines ---------------------------
(***************************************************************************)
(* The upgrade of XmodemOta seen as the transfer of ImageTransfer.  What   *)
(* the ZC has collected is the longest part of it that is a beginning of   *)
(* the image: a call that reads through a handle it did not open may add   *)
(* other blocks behind it, which are no progress and are never installed.  *)
(***************************************************************************)
EXTENDS XmodemOta

\* A sequence of accepted blocks is the image up to its n-th block and no further.
EndsAt(got, n) ==
  /\ n = Len(got) \/ n >= NumBlocks \/ got[n + 1] # n + 1
  /\ \A k \in 1 .. n : got[k] = k

\* The blocks of the image it begins with.
Beginning(got) == CHOOSE n \in 0 .. Len(got) : EndsAt(got, n)

\* The gateway announces the version while its first image is on offer; what later
\* offers make of it is the subject of VersionOnlyAfterUpload.
Transfer == INSTANCE ImageTransfer WITH
  accepted <- Beginning(zc.got),
  installed <- installed,
  announced <- IF zcSoftVersion = "new" THEN 1 ELSE 0

\* The upgrade implements the transfer: whatever is lost, resent, read late or stored
\* between a test and its use, the blocks are collected in order, the image is kept only
\* when complete and the version announced only after that.
ImplementsTransfer == Transfer!Spec
=============================================================================
