------------------------------ MODULE MCWorks ------------------------------
(* The instance of Works for the model checker that lets a user edit a step  *)
(* under a package.                                                          *)
EXTENDS Works

CONSTANTS s, p, e

\* One update of a plan step, that blocks it with a reason.
Blocking == {[status |-> "blocked", text |-> "some"]}
=============================================================================
