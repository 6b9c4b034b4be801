------------------------------- MODULE MCLinks -------------------------------
(* Three pages; the title of one occurs in the title of another. *)
EXTENDS Links

LinkPages == {"graph", "graph-theory", "node"}
Alphabetical == <<"graph", "graph-theory", "node">>

\* Where the longer title is mentioned, the shorter one is too.
Titled == [ph \in {"Graph Theory", "Node"} |->
              IF ph = "Node" THEN {"node"} ELSE {"graph", "graph-theory"}]
=============================================================================
