----------------------------- MODULE MCCompile -----------------------------
(* Instances of module Compile. *)
EXTENDS Compile

CONSTANTS f1, f2, f3, a, b

\* One answer per content: f1 loses b, f2 gains a.
Stable ==
    [f \in Sources |-> [v \in Versions |->
        IF f = f1 THEN {IF v = 1 THEN {a, b} ELSE {a}}
        ELSE {IF v = 1 THEN {b} ELSE {a, b}}]]

\* f1 loses b, f2 never changes (it may still be deleted and come back).
Narrow ==
    [f \in Sources |-> [v \in Versions |->
        IF f = f1 \/ v = 1 THEN Stable[f][v] ELSE {}]]

\* One concept that both sources yield, or an empty extraction; only f1 is edited.
SharedOrEmpty ==
    [f \in Sources |-> [v \in Versions |->
        IF f = f1 \/ v = 1 THEN {{a}, {}} ELSE {}]]

\* f1 and f2 share a, f2 and f3 share b; only f1 is ever edited.
Chain ==
    [f \in Sources |-> [v \in Versions |->
        IF f = f1 THEN {{a}}
        ELSE IF v = 1 THEN {IF f = f2 THEN {a, b} ELSE {b}} ELSE {}]]

\* The same chain; f1 may come to yield b, and the extraction of f2 may be empty.
ChainOrEmpty ==
    [f \in Sources |-> [v \in Versions |->
        IF f = f1 THEN {IF v = 1 THEN {a} ELSE {b}}
        ELSE IF f = f2 /\ v = 1 THEN {{a, b}, {}} ELSE Chain[f][v]]]
=============================================================================
