----------------------------- MODULE MCGateway -----------------------------
(* Model checking of Gateway: constants of the small instance. *)
EXTENDS Gateway

\* The heart beat, which has no payload, and a command with one.
TwoFills == {HeartFill, Loaded("OnOff", "ONOFF_CONTROL")}
=============================================================================
