----------------------------- MODULE MCWorkflow -----------------------------
(* Three definitions of one workflow: the second renames the first stage and   *)
(* adds one, the third drops it.                                               *)
EXTENDS Workflow, TLC

CONSTANTS d1, d2, d3

Stage(i, g, w, p) == [id |-> i, gate |-> g, writes |-> w, prev |-> p]

MCDefs ==
    d1 :> << Stage("draft", <<"human", "ok">>, TRUE, {}),
             Stage("merge", <<"trust", "t">>, TRUE, {}) >>
 @@ d2 :> << Stage("write", <<"human", "ok">>, TRUE, {"draft"}),
             Stage("check", <<"agent", "lint">>, FALSE, {}),
             Stage("merge", <<"trust", "t">>, TRUE, {}) >>
 @@ d3 :> << Stage("merge", Nil, TRUE, {}) >>

MCStageIds == {"draft", "write", "check", "merge"}
=============================================================================
