---------------------------- MODULE MC_Conductor ----------------------------
(* Conductor with two or three signed-in clients. *)
EXTENDS Conductor

CONSTANTS a, b, c

MCTwoClients == {a, b}
MCThreeClients == {a, b, c}

=============================================================================
