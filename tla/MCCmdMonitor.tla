---------------------------- MODULE MCCmdMonitor ----------------------------
(* Model checking of CmdMonitor: constants of the small instances. *)
EXTENDS CmdMonitor

\* Two end points of one device, and one of them.
TwoGangs == {[addr |-> "a", ep |-> 1], [addr |-> "a", ep |-> 2]}
OneDevice == {[addr |-> "a", ep |-> 1]}
=============================================================================
