---------------------------- MODULE MCXmodemOta ----------------------------
(* Model checking of XmodemOta: constants of the small instances. *)
EXTENDS XmodemOta

LoseSome == {"record", "EOT", "ACK", "complete"}

\* A gateway in the field that expects an upgrade, and one at its first power on
\* whose image information does not call for one.
TwoBoards == {[firstPowerOn |-> 0, needFlag |-> 0],
              [firstPowerOn |-> 1, needFlag |-> 1]}
OneBoard == {[firstPowerOn |-> 0, needFlag |-> 0]}
=============================================================================
