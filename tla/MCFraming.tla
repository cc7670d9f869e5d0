----------------------------- MODULE MCFraming -----------------------------
(* Model checking of Framing: the messages of the small instance. *)
EXTENDS Framing

Message(cmd, payload) == [cmd |-> cmd, payload |-> payload]

\* A plain message, one whose payload ends like the boot loader's prompt, and one with a
\* head byte in its payload.
ThreeMessages == {Message(1, <<7>>), Message(2, <<10, 67>>), Message(3, <<250, 6>>)}
=============================================================================
