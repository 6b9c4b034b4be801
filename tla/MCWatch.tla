------------------------------ MODULE MCWatch ------------------------------
(* Instances of module Watch. *)
EXTENDS Watch

CONSTANTS f1, f2
=============================================================================
