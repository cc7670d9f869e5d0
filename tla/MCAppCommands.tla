--------------------------- MODULE MCAppCommands ---------------------------
(* Model checking of AppCommands: the constants of the small instance. *)
EXTENDS AppCommands

\* A door lock with two end points, and the enabling of its remote opening.
LockKeys ==
  {[cmd |-> "DOOR_UNLOCK", to |-> "lock", ep |-> 1], [cmd |-> "DOOR_UNLOCK", to |-> "lock", ep |-> 2],
   [cmd |-> "WRITE_ATTR", to |-> "lock", ep |-> 1]}
=============================================================================
