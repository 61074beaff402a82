-------------------------- MODULE MCActionPackages --------------------------
(* Instances of ActionPackages for the model checker. *)
EXTENDS ActionPackages

CONSTANTS p1, e1, e2, work, step1, r1
=============================================================================
