---------------------------- MODULE AtomicStore ----------------------------
(***************************************************************************)
(* What the executor promises of the page store ("partial application of   *)
(* an approved mutation batch is a bug", src/trust/executor.ts): the pages *)
(* change by one whole approved plan at a time, or by one direct write.    *)
(***************************************************************************)
EXTENDS Naturals, Sequences

CONSTANTS Targets, Bodies, Absent, Plans, DirectWrites

VARIABLE store

\* The last mutation of t in p decides.
ApplyPlan(s, p) ==
    [t \in Targets |->
        LET W == {j \in 1..Len(p) : p[j].target = t}
        IN  IF W = {} THEN s[t]
            ELSE p[CHOOSE j \in W : \A k \in W : k <= j].body]

Init == store \in [Targets -> Bodies \cup {Absent}]

Apply(p) == store' = ApplyPlan(store, p)

Write(w) == store' = [store EXCEPT ![w[1]] = w[2]]

Next ==
    \/ \E p \in Plans : Apply(p)
    \/ \E w \in DirectWrites : Write(w)

Spec == Init /\ [][Next]_store
=============================================================================
