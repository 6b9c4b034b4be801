----------------------------- MODULE MCJournal -----------------------------
(* Instances of Journal for TLC. *)
EXTENDS Journal

CONSTANTS a, b, v1, v2

Update(t, v) == [operation |-> "update", target |-> t, body |-> v]
Create(t, v) == [operation |-> "create", target |-> t, body |-> v]

\* A new page; two pages; one page twice (the record of the first must stay);
\* a plan whose second mutation may collide.
SomePlans == {<<Create(a, v1)>>, <<Update(a, v1), Update(b, v2)>>,
              <<Update(a, v2), Update(a, v1)>>, <<Update(b, v1), Create(a, v2)>>}

SomeDirect == {<<a, v2>>, <<b, v1>>}
=============================================================================
