---------------------------- MODULE MCMutations ----------------------------
(* Instances of Mutations for TLC. *)
EXTENDS Mutations

Drafting == {<<"draft", "done">>, <<"done", "review">>, <<"review", "done">>}
=============================================================================
