----------------------------- MODULE MCStaging -----------------------------
(* Instance of Staging for TLC; processes are interchangeable.             *)
EXTENDS Staging, TLC

Sym == Permutations(Sessions)
=============================================================================
