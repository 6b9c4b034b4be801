--------------------------- MODULE MCProjectLock ---------------------------
(* Instances of ProjectLock for TLC. *)
EXTENDS ProjectLock, TLC

CONSTANTS t1, t2, t3

\* One task per process: a task is named by its process.
OwnPid == [t \in Tasks |-> t]

TaskSymmetry == Permutations(Tasks)
=============================================================================
