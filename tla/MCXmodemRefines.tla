-------------------------- MODULE MCXmodemRefines --------------------------
(* Model checking of XmodemRefines: the constants of the small instance. *)
EXTENDS XmodemRefines

LoseSome == {"record", "EOT", "ACK", "complete"}

\* A gateway in the field that expects an upgrade.
OneBoard == {[firstPowerOn |-> 0, needFlag |-> 0]}
=============================================================================
