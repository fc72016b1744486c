---------------------------- MODULE MCOutboxRelay ---------------------------
(* Instances of OutboxRelay for TLC: instances of the application are alike. *)
EXTENDS OutboxRelay, TLC

RelaySymmetry == Permutations(Relays)
=============================================================================
