------------------------------ MODULE MCOutbox ------------------------------
(* Instances of Outbox for the model checker. *)
EXTENDS Outbox

CONSTANTS w1, w2
=============================================================================
