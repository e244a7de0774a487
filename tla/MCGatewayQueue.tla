--------------------------- MODULE MCGatewayQueue ---------------------------
(***************************************************************************)
(* GatewayQueue for TLC: the classes of commands the app enqueues.         *)
(***************************************************************************)
EXTENDS GatewayQueue, TLC

Command(key, envelope) == [key |-> key, envelope |-> envelope]

\* A protocol switch, a state control, an unkeyed command, a keyed public key,
\* and a state control that happens to have the size of a public key.
MixedKinds == {Command("proto", FALSE), Command("led", FALSE),
               Command("", FALSE), Command("ecdh", TRUE), Command("led", TRUE)}

ThreadSymmetry == Permutations(Threads)
=============================================================================
