----------------------------- MODULE MCActions -----------------------------
(* Two profiles that differ in which stage has the human gate; a second        *)
(* workflow, so that scope matters.                                            *)
EXTENDS Actions, TLC

CONSTANTS alice, bob

ActionsSym == Permutations({alice, bob})

Step(i, g, w) == [id |-> i, gate |-> g, writes |-> w]

StageValues ==
    "q1" :> ("write" :> <<Step("draft", <<"human", "ok">>, TRUE), Step("check", <<"agent", "ok">>, FALSE)>>
          @@ "post" :> <<Step("only", <<"trust", "safe">>, TRUE)>>)
 @@ "q2" :> ("write" :> <<Step("draft", <<"agent", "ok">>, TRUE), Step("check", <<"human", "ok">>, FALSE)>>
          @@ "post" :> <<Step("only", <<"human", "ok">>, FALSE)>>)

Per(cli, sdk, mcp) == [s \in Surfaces |-> CASE s = "cli" -> cli [] s = "sdk" -> sdk [] OTHER -> mcp]
Act(w, op, g, per) == [workflow |-> w, operation |-> op, gate |-> g, permissions |-> per]
Wide == Per("trusted-write", "trusted-write", "trusted-write")
Narrow == Per("staged-write", "read-only", "disabled")

ActionValues ==
    "q1" :> ("ok" :> Act("write", "gate", <<"human", "ok">>, Wide)
          @@ "step" :> Act("write", "advance", Unset, Narrow)
          @@ "look" :> Act("write", "status", Unset, Narrow)
          @@ "begin" :> Act("post", "start", Unset, Wide))
 @@ "q2" :> ("ok" :> Act("write", "gate", <<"agent", "ok">>, Wide)
          @@ "hand" :> Act("write", "submit", Unset, Wide)
          @@ "stop" :> Act("post", "cancel", Unset, Narrow))

Grants(cli, sdk, mcp) == [status |-> "ok", grants |-> Per(cli, sdk, mcp)]
ConfigValues == {[status |-> "absent"], [status |-> "unavailable"],
                 Grants("staged-write", "junk", Unset)}
=============================================================================
