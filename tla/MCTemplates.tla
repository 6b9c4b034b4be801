---------------------------- MODULE MCTemplates ----------------------------
(***************************************************************************)
(* Model-checking instance of TapClient.  Each behaviour looks at one part  *)
(* of the system closely and bounds the others: the publisher with its      *)
(* verify command, readers following a publisher, or a project installing   *)
(* and updating.                                                            *)
(***************************************************************************)
EXTENDS TapClient, TLC

CONSTANTS k1, k2, k3, t1, t2, d1, d2, r1, r2

VARIABLE focus

MCPackages == {[c |-> 1, d |-> d1], [c |-> 2, d |-> d2]}
MCPubKeys == {k1, k2, k3}
MCTapKeys == {t1, t2}
MCRefreshers == {r1, r2}
Sym == Permutations({r1, r2}) \cup Permutations({k2, k3})

Within(pubs, seqs, died, ops, bad) ==
    pubops' <= pubs /\ ws'.seq <= seqs /\ deaths' <= died /\ clientops' <= ops /\ mishaps' <= bad

MCInit == Init /\ focus \in {"publish", "follow", "install"}

MCNext ==
    /\ Next
    /\ UNCHANGED focus
    /\ served = {} => UNCHANGED clientvars
    /\ CASE focus = "publish" -> Within(3, 3, 1, 0, 0)
         [] focus = "follow" -> /\ Within(2, 3, 1, 3, 0)
                                /\ UNCHANGED <<verifier, project, job>>
         [] focus = "install" -> /\ Within(2, 2, 0, 5, 1) /\ clientops' + mishaps' <= 5
                                 /\ UNCHANGED verifier
                                 /\ Cardinality({r \in Refreshers : refresh'[r] # NoJob}) <= 1
                                 /\ ws'.tapKey = t1 /\ ws'.pubKey = k1
                                 /\ ws'.pending \subseteq {<<"revoke-package", d1>>}

MCSpec == MCInit /\ [][MCNext]_<<allvars, focus>>
============================================================================
