------------------------- MODULE ProjectLockProofs -------------------------
(***************************************************************************)
(* Theorems about ProjectLock, for any set of tasks and processes, any     *)
(* assignment of tasks to processes, any number of lives of a PID, and     *)
(* with or without start times.                                            *)
(***************************************************************************)
EXTENDS ProjectLock, TLAPS

-----------------------------------------------------------------------------
(* The inductive invariant behind MutexUnlessRaced. *)

\* A task between creating and removing the reclaim leaf finds its own leaf.
ReclaimIsOurs ==
    \A t \in Tasks : InReclaim(t) =>
        /\ reclaim # Null /\ reclaim.by = t
        /\ reclaim.start = start[PidOf[t]]

\* A task that has the main lock finds its own leaf at the path.
MainIsOurs ==
    \A t \in Tasks : Owns(t) =>
        /\ main # Null /\ main.by = t
        /\ main.start = start[PidOf[t]]

\* A reclaimer about to unlink the main leaf faces a dead process's leaf.
ReclaimsTheDead ==
    \A t \in Tasks :
        pc[t] = "unlinkMain" \/ (pc[t] = "vjudge" /\ deadRead[t]) =>
            main # Null /\ ~LiveLeaf(main)

\* No leaf carries a start time later than its PID's current life.
StartBound == main # Null => main.start <= start[PidOf[main.by]]

Sound == ReclaimIsOurs /\ MainIsOurs /\ ReclaimsTheDead

IInv == TypeOK /\ StartBound /\ (raced \/ Sound)

-----------------------------------------------------------------------------
\* readLockOwner returns a LockOwner or null.
LEMMA OwnerType ==
    ASSUME NEW file \in File
    PROVE  readLockOwner(file) \in LockOwner \cup {Null}
BY TasksAssumption DEF readLockOwner, serializeOwner, File, Leaf, LockOwner

\* A fresh leaf and a filled leaf are files.
LEMMA LeafType ==
    ASSUME TypeOK, NEW t \in Tasks
    PROVE  /\ EmptyLeaf(t) \in Leaf
           /\ \A f \in File : Fill(f, t) \in File
BY TasksAssumption DEF TypeOK, EmptyLeaf, Fill, File, Leaf

\* Type correctness, which also says that a dead process runs no task and that
\* the attempt counter stays within MAX_ACQUIRE_ATTEMPTS, is inductive.
LEMMA TypeStep == TypeOK /\ [Next]_vars => TypeOK'
<1> SUFFICES ASSUME TypeOK, [Next]_vars PROVE TypeOK'
  OBVIOUS
<1> USE TasksAssumption DEF MaxAcquireAttempts, files, procs, local
<1>1. ASSUME NEW t \in Tasks, StartAcquire(t) \/ Poll(t) PROVE TypeOK'
  <2>1. BeginCall(t) /\ alive[PidOf[t]]
    BY <1>1 DEF StartAcquire, Poll, TypeOK
  <2>2. alone' \in [Tasks -> BOOLEAN]
    BY <2>1, Zenon DEF BeginCall
  <2>3. pc' = [pc EXCEPT ![t] = "create"] /\ attempt' = [attempt EXCEPT ![t] = 1]
        /\ UNCHANGED <<main, reclaim, alive, start, got, won, deadRead, raced>>
    BY <2>1 DEF BeginCall, Goto
  <2> QED
    BY <2>1, <2>2, <2>3 DEF TypeOK, Labels, Acquiring
<1>2. ASSUME NEW t \in Tasks, TryCreate(t) \/ WriteOwner(t) PROVE TypeOK'
  BY <1>2, LeafType DEF TypeOK, TryCreate, WriteOwner, Goto, Labels, Acquiring,
     File
<1>3. ASSUME NEW t \in Tasks, ReadMain(t) \/ ReadReclaim(t) \/ ReverifyRead(t)
      PROVE TypeOK'
  <2>1. readLockOwner(main) \in LockOwner \cup {Null}
    BY OwnerType DEF TypeOK
  <2>2. readLockOwner(reclaim) \in LockOwner \cup {Null}
    BY OwnerType DEF TypeOK
  <2>3. DeadRecord(main) \in BOOLEAN /\ DeadRecord(reclaim) \in BOOLEAN
    BY DEF DeadRecord
  <2> QED
    BY <1>3, <2>1, <2>2, <2>3
       DEF TypeOK, ReadMain, ReadReclaim, ReverifyRead, ReadOwner, Goto, Labels,
           Acquiring
<1>4. ASSUME NEW t \in Tasks, JudgeMain(t) \/ JudgeReclaim(t) PROVE TypeOK'
  <2>1. \E l \in Labels \ {"idle"}, n \in 0..MaxAcquireAttempts :
            /\ pc' = [pc EXCEPT ![t] = l]
            /\ attempt' = [attempt EXCEPT ![t] = n]
    <3>1. attempt = [attempt EXCEPT ![t] = attempt[t]]
      BY DEF TypeOK
    <3> QED
      BY <1>4, <3>1 DEF TypeOK, JudgeMain, JudgeReclaim, NextAttempt, ReturnFalse,
         Goto, Labels, Acquiring
  <2>2. Forget(t) /\ pc[t] # "idle" /\ UNCHANGED <<files, procs, won, alone, raced>>
    BY <1>4 DEF JudgeMain, JudgeReclaim
  <2> QED
    BY <2>1, <2>2 DEF TypeOK, Forget
<1>5. ASSUME NEW t \in Tasks, TryCreateReclaim(t) \/ WriteReclaimOwner(t)
      PROVE TypeOK'
  BY <1>5, LeafType DEF TypeOK, TryCreateReclaim, WriteReclaimOwner, Goto, Labels,
     Acquiring, File
<1>6. ASSUME NEW t \in Tasks, UnlinkStaleReclaim(t) PROVE TypeOK'
  <2>1. LiveLeaf(reclaim) \in BOOLEAN
    BY DEF LiveLeaf
  <2> QED
    BY <1>6, <2>1 DEF TypeOK, UnlinkStaleReclaim, NextAttempt, ReturnFalse, Goto,
       Labels, Acquiring, File
<1>7. ASSUME NEW t \in Tasks, ReverifyJudge(t) PROVE TypeOK'
  BY <1>7 DEF TypeOK, ReverifyJudge, Forget, Goto, Labels, Acquiring
<1>8. ASSUME NEW t \in Tasks, UnlinkMain(t) \/ Recreate(t) \/ RewriteOwner(t)
      PROVE TypeOK'
  <2>1. CASE UnlinkMain(t)
    BY <2>1 DEF TypeOK, UnlinkMain, Goto, Labels, Acquiring, File
  <2>3. CASE Recreate(t)
    BY <2>3, LeafType DEF TypeOK, Recreate, Goto, Labels, Acquiring, File
  <2>2. CASE RewriteOwner(t)
    BY <2>2, LeafType DEF TypeOK, RewriteOwner, Goto, Labels, Acquiring
  <2> QED
    BY <1>8, <2>1, <2>2, <2>3
<1>9. ASSUME NEW t \in Tasks, ReleaseReclaim(t) PROVE TypeOK'
  BY <1>9 DEF TypeOK, ReleaseReclaim, NextAttempt, ReturnFalse, Goto, Labels,
     Acquiring, File
<1>10. ASSUME NEW t \in Tasks,
              Deadline(t) \/ GiveUp(t) \/ StartRelease(t) \/ ReleaseRead(t)
       PROVE TypeOK'
  BY <1>10 DEF TypeOK, Deadline, GiveUp, Return, StartRelease, ReleaseRead, Goto,
     Labels, Acquiring, Releasing
<1>11. ASSUME NEW t \in Tasks, ReleaseUnlink(t) PROVE TypeOK'
  BY <1>11 DEF TypeOK, ReleaseUnlink, Goto, Labels, File
<1>12. ASSUME NEW p \in Pids, Crash(p) PROVE TypeOK'
  <2>1. /\ won' \in [Tasks -> BOOLEAN]
        /\ deadRead' \in [Tasks -> BOOLEAN]
        /\ got' \in [Tasks -> LockOwner \cup {Null}]
        /\ pc' \in [Tasks -> Labels]
    BY <1>12 DEF TypeOK, Crash, Lost, Labels
  <2>2. attempt' \in [Tasks -> 0..MaxAcquireAttempts]
    BY <1>12 DEF TypeOK, Crash, Lost
  <2>3. /\ alive' \in [Pids -> BOOLEAN]
        /\ \A t \in Tasks : ~alive'[PidOf[t]] => pc'[t] = "idle"
    BY <1>12 DEF TypeOK, Crash, Lost
  <2> QED
    BY <1>12, <2>1, <2>2, <2>3 DEF TypeOK, Crash
<1>13. ASSUME NEW p \in Pids, Reuse(p) PROVE TypeOK'
  BY <1>13 DEF TypeOK, Reuse
<1>14. CASE UNCHANGED vars
  BY <1>14 DEF TypeOK, vars
<1> QED
  BY <1>1, <1>2, <1>3, <1>4, <1>5, <1>6, <1>7, <1>8, <1>9, <1>10, <1>11, <1>12,
     <1>13, <1>14 DEF Next, Step

\* Initially there are no files and no tasks inside the protocol.
LEMMA InitIInv == Init => IInv
<1> SUFFICES ASSUME Init PROVE IInv
  OBVIOUS
<1>1. TypeOK
  <2>1. /\ alive \in [Pids -> BOOLEAN] /\ won \in [Tasks -> BOOLEAN]
        /\ deadRead \in [Tasks -> BOOLEAN] /\ alone \in [Tasks -> BOOLEAN]
        /\ raced \in BOOLEAN /\ main \in File /\ reclaim \in File
        /\ got \in [Tasks -> LockOwner \cup {Null}]
    BY Zenon DEF Init, File
  <2>2. /\ start \in [Pids -> Nat]
        /\ attempt \in [Tasks -> 0..MaxAcquireAttempts]
        /\ pc \in [Tasks -> Labels]
        /\ \A t \in Tasks : pc[t] = "idle"
    BY DEF Init, Labels, MaxAcquireAttempts
  <2> QED
    BY <2>1, <2>2 DEF TypeOK
<1>2. StartBound
  BY DEF Init, StartBound
<1>3. Sound
  BY DEF Init, Sound, ReclaimIsOurs, MainIsOurs, ReclaimsTheDead, InReclaim, Owns
<1> QED
  BY <1>1, <1>2, <1>3 DEF IInv

\* Leaves are stamped with the current life of their PID, and lives only grow.
LEMMA StartBoundStep == TypeOK /\ StartBound /\ [Next]_vars => StartBound'
<1> SUFFICES ASSUME TypeOK, StartBound, [Next]_vars PROVE StartBound'
  OBVIOUS
<1> USE TasksAssumption DEF TypeOK, StartBound, File, Leaf, files, procs, local
<1>1. CASE UNCHANGED <<main, start>>
  BY <1>1
<1>2. ASSUME NEW t \in Tasks, TryCreate(t) \/ Recreate(t) PROVE StartBound'
  BY <1>2 DEF TryCreate, Recreate, EmptyLeaf
<1>3. ASSUME NEW t \in Tasks, WriteOwner(t) \/ RewriteOwner(t) PROVE StartBound'
  BY <1>3 DEF WriteOwner, RewriteOwner, Fill
<1>4. ASSUME NEW t \in Tasks, UnlinkMain(t) \/ ReleaseUnlink(t) PROVE StartBound'
  BY <1>4 DEF UnlinkMain, ReleaseUnlink
<1>5. ASSUME NEW p \in Pids, Reuse(p) PROVE StartBound'
  BY <1>5 DEF Reuse
<1>6. ASSUME NEW p \in Pids, Crash(p) PROVE UNCHANGED <<main, start>>
  BY <1>6 DEF Crash
<1>7. ASSUME NEW t \in Tasks,
             \/ StartAcquire(t) \/ Deadline(t) \/ GiveUp(t) \/ ReadMain(t)
             \/ JudgeMain(t) \/ TryCreateReclaim(t) \/ WriteReclaimOwner(t)
             \/ ReadReclaim(t) \/ JudgeReclaim(t) \/ UnlinkStaleReclaim(t)
             \/ ReverifyRead(t) \/ ReverifyJudge(t) \/ ReleaseReclaim(t)
             \/ Poll(t) \/ StartRelease(t) \/ ReleaseRead(t)
      PROVE  UNCHANGED <<main, start>>
  BY <1>7 DEF StartAcquire, Deadline, GiveUp, Return, ReadMain, ReadOwner,
     JudgeMain, TryCreateReclaim, WriteReclaimOwner, ReadReclaim, JudgeReclaim,
     UnlinkStaleReclaim, ReverifyRead, ReverifyJudge, ReleaseReclaim, Poll,
     BeginCall, StartRelease, ReleaseRead
<1> QED
  BY <1>1, <1>2, <1>3, <1>4, <1>5, <1>6, <1>7 DEF Next, Step, vars

-----------------------------------------------------------------------------
(* Sound is preserved by every step that leaves raced FALSE. *)

\* A step that only moves t between points outside the protocol's sections, or
\* keeps it in the same ones, changes nothing Sound speaks of.
LEMMA MoveStep ==
    ASSUME TypeOK, Sound, NEW t \in Tasks, NEW l,
           pc' = [pc EXCEPT ![t] = l], UNCHANGED <<main, reclaim, alive, start>>,
           \A u \in Tasks \ {t} : deadRead'[u] = deadRead[u] /\ won'[u] = won[u],
           InReclaim(t)' => InReclaim(t),
           Owns(t)' => Owns(t),
           l = "unlinkMain" => pc[t] = "vjudge" /\ deadRead[t],
           l = "vjudge" => (deadRead'[t] => DeadRecord(main))
    PROVE  Sound'
<1>1. \A u \in Tasks \ {t} : pc'[u] = pc[u]
  BY DEF TypeOK
<1>2. pc'[t] = l
  BY DEF TypeOK
<1>3. ReclaimIsOurs'
  BY <1>1 DEF Sound, ReclaimIsOurs, InReclaim
<1>4. MainIsOurs'
  BY <1>1 DEF Sound, MainIsOurs, Owns
<1>5. ReclaimsTheDead'
  BY <1>1, <1>2 DEF Sound, ReclaimsTheDead, LiveLeaf, DeadRecord
<1> QED
  BY <1>3, <1>4, <1>5 DEF Sound

\* The owner of the main lock runs, so its leaf is a live one.
LEMMA OwnedIsLive ==
    ASSUME TypeOK, Sound, NEW t \in Tasks, Owns(t)
    PROVE  LiveLeaf(main)
BY DEF TypeOK, Sound, MainIsOurs, Owns, LiveLeaf

\* A reclaimer runs, so its reclaim leaf is a live one.
LEMMA ReclaimerIsLive ==
    ASSUME TypeOK, Sound, NEW t \in Tasks, InReclaim(t)
    PROVE  LiveLeaf(reclaim)
BY DEF TypeOK, Sound, ReclaimIsOurs, InReclaim, LiveLeaf

\* The three parts of Sound survive every step that leaves raced FALSE.
LEMMA SoundStep ==
    ASSUME TypeOK, TypeOK', StartBound, Sound, Next, ~raced'
    PROVE  Sound'
<1> USE DEF files, procs, local
<1>1. ASSUME NEW t \in Tasks,
             \/ StartAcquire(t) \/ Poll(t) \/ Deadline(t) \/ GiveUp(t)
             \/ StartRelease(t) \/ ReleaseRead(t)
      PROVE  Sound'
  <2>1. PICK l \in Labels :
          /\ pc' = [pc EXCEPT ![t] = l]
          /\ l \in {"create", "idle", "relread", "relunlink"}
          /\ l \in {"relread", "relunlink"} => pc[t] \in {"held", "relread"}
    BY <1>1 DEF StartAcquire, Poll, BeginCall, Deadline, GiveUp, Return,
       StartRelease, ReleaseRead, Goto, Labels, Acquiring, Releasing
  <2>2. UNCHANGED <<main, reclaim, alive, start, deadRead, won>>
    BY <1>1 DEF StartAcquire, Poll, BeginCall, Deadline, GiveUp, Return,
       StartRelease, ReleaseRead
  <2>3. pc'[t] = l
    BY <2>1 DEF TypeOK
  <2>4. (InReclaim(t)' => InReclaim(t)) /\ (Owns(t)' => Owns(t))
    BY <2>1, <2>3 DEF InReclaim, Owns
  <2> QED
    BY <2>1, <2>2, <2>4, MoveStep
<1>2. ASSUME NEW t \in Tasks, ReadMain(t) \/ ReadReclaim(t) \/ ReverifyRead(t)
      PROVE  Sound'
  <2>1. PICK l \in {"judge", "rjudge", "vjudge"} :
          /\ pc' = [pc EXCEPT ![t] = l]
          /\ l = "vjudge" => pc[t] = "vread"
          /\ l = "vjudge" => deadRead'[t] = DeadRecord(main)
    BY <1>2 DEF ReadMain, ReadReclaim, ReverifyRead, ReadOwner, Goto, TypeOK
  <2>2. /\ UNCHANGED <<main, reclaim, alive, start, won>>
        /\ \A u \in Tasks \ {t} : deadRead'[u] = deadRead[u]
    BY <1>2 DEF ReadMain, ReadReclaim, ReverifyRead, ReadOwner, TypeOK
  <2>3. pc'[t] = l
    BY <2>1 DEF TypeOK
  <2>4. (InReclaim(t)' => InReclaim(t)) /\ (Owns(t)' => Owns(t))
    BY <2>1, <2>3 DEF InReclaim, Owns
  <2> QED
    BY <2>1, <2>2, <2>4, MoveStep
<1>3. ASSUME NEW t \in Tasks, JudgeMain(t) \/ JudgeReclaim(t) PROVE Sound'
  <2>1. PICK l \in {"rcreate", "runlink", "create", "wait", "busy"} :
          pc' = [pc EXCEPT ![t] = l]
    BY <1>3 DEF JudgeMain, JudgeReclaim, NextAttempt, ReturnFalse, Goto
  <2>2. /\ UNCHANGED <<main, reclaim, alive, start, won>>
        /\ \A u \in Tasks \ {t} : deadRead'[u] = deadRead[u]
    BY <1>3 DEF JudgeMain, JudgeReclaim, Forget, TypeOK
  <2>3. pc'[t] = l
    BY <2>1 DEF TypeOK
  <2>4. (InReclaim(t)' => InReclaim(t)) /\ (Owns(t)' => Owns(t))
    BY <2>1, <2>3 DEF InReclaim, Owns
  <2> QED
    BY <2>1, <2>2, <2>4, MoveStep
<1>4. ASSUME NEW t \in Tasks, ReverifyJudge(t) PROVE Sound'
  <2>1. PICK l \in {"unlinkMain", "rrelease"} :
          /\ pc' = [pc EXCEPT ![t] = l]
          /\ l = "unlinkMain" => deadRead[t]
    BY <1>4 DEF ReverifyJudge, Goto
  <2>2. /\ UNCHANGED <<main, reclaim, alive, start>> /\ ~won'[t]
        /\ \A u \in Tasks \ {t} : deadRead'[u] = deadRead[u] /\ won'[u] = won[u]
    BY <1>4 DEF ReverifyJudge, Forget, TypeOK
  <2>3. pc'[t] = l /\ pc[t] = "vjudge"
    BY <1>4, <2>1 DEF TypeOK, ReverifyJudge
  <2>4. (InReclaim(t)' => InReclaim(t)) /\ (Owns(t)' => Owns(t))
    BY <2>1, <2>2, <2>3 DEF InReclaim, Owns
  <2> QED
    BY <2>1, <2>2, <2>3, <2>4, MoveStep
<1>5. ASSUME NEW t \in Tasks, TryCreate(t) PROVE Sound'
  <2>1. CASE main # Null
    <3>1. pc' = [pc EXCEPT ![t] = "read"]
      BY <1>5, <2>1 DEF TryCreate, Goto
    <3>2. UNCHANGED <<main, reclaim, alive, start, won, deadRead>> /\ pc'[t] = "read"
      BY <1>5, <2>1, <3>1 DEF TryCreate, TypeOK
    <3>3. ~InReclaim(t)' /\ ~Owns(t)'
      BY <3>2 DEF InReclaim, Owns
    <3> QED
      BY <3>1, <3>2, <3>3, MoveStep
  <2>2. CASE main = Null
    <3>1. /\ pc' = [pc EXCEPT ![t] = "write"] /\ main' = EmptyLeaf(t)
          /\ UNCHANGED <<reclaim, alive, start, won, deadRead>>
      BY <1>5, <2>2 DEF TryCreate, Goto
    <3>2. pc'[t] = "write" /\ \A u \in Tasks \ {t} : pc'[u] = pc[u]
      BY <3>1 DEF TypeOK
    <3>3. ReclaimIsOurs'
      BY <3>1, <3>2 DEF Sound, ReclaimIsOurs, InReclaim
    <3>4. MainIsOurs'
      <4>1. main' # Null /\ main'.by = t /\ main'.start = start'[PidOf[t]]
        BY <3>1, LeafType, TasksAssumption DEF EmptyLeaf, Leaf
      <4>2. \A u \in Tasks \ {t} : ~Owns(u)'
        BY <2>2, <3>1, <3>2 DEF Sound, MainIsOurs, Owns
      <4> QED
        BY <4>1, <4>2 DEF MainIsOurs
    <3>5. ReclaimsTheDead'
      BY <2>2, <3>1, <3>2 DEF Sound, ReclaimsTheDead
    <3> QED
      BY <3>3, <3>4, <3>5 DEF Sound
  <2> QED
    BY <2>1, <2>2
<1>6. ASSUME NEW t \in Tasks, Recreate(t) PROVE Sound'
  <2> USE DEF Recreate
  <2>0. /\ UNCHANGED <<reclaim, alive, start, deadRead>>
        /\ ~won'[t] /\ \A u \in Tasks \ {t} : won'[u] = won[u]
    BY <1>6 DEF TypeOK
  <2>1. CASE main # Null
    <3>1. pc' = [pc EXCEPT ![t] = "rrelease"] /\ UNCHANGED main
      BY <1>6, <2>1 DEF Goto
    <3>2. pc'[t] = "rrelease" /\ InReclaim(t)
      BY <1>6, <3>1 DEF TypeOK, InReclaim
    <3>3. ~Owns(t)'
      BY <2>0, <3>2 DEF Owns
    <3> QED
      BY <2>0, <3>1, <3>2, <3>3, MoveStep
  <2>2. CASE main = Null
    <3>1. pc' = [pc EXCEPT ![t] = "rewrite"] /\ main' = EmptyLeaf(t)
      BY <1>6, <2>2 DEF Goto
    <3>2. pc'[t] = "rewrite" /\ \A u \in Tasks \ {t} : pc'[u] = pc[u]
      BY <3>1 DEF TypeOK
    <3>3. ReclaimIsOurs'
      BY <1>6, <2>0, <3>2 DEF Sound, ReclaimIsOurs, InReclaim
    <3>4. MainIsOurs'
      <4>1. main' # Null /\ main'.by = t /\ main'.start = start'[PidOf[t]]
        BY <2>0, <3>1, LeafType, TasksAssumption DEF EmptyLeaf, Leaf
      <4>2. \A u \in Tasks \ {t} : ~Owns(u)'
        BY <2>0, <2>2, <3>2 DEF Sound, MainIsOurs, Owns
      <4> QED
        BY <4>1, <4>2 DEF MainIsOurs
    <3>5. ReclaimsTheDead'
      BY <2>0, <2>2, <3>2 DEF Sound, ReclaimsTheDead
    <3> QED
      BY <3>3, <3>4, <3>5 DEF Sound
  <2> QED
    BY <2>1, <2>2
<1>7. ASSUME NEW t \in Tasks, WriteOwner(t) \/ RewriteOwner(t) PROVE Sound'
  <2>1. /\ UNCHANGED <<reclaim, alive, start, deadRead>>
        /\ \A u \in Tasks \ {t} : won'[u] = won[u] /\ pc'[u] = pc[u]
        /\ pc'[t] \in {"held", "rrelease"}
        /\ pc'[t] = "rrelease" => pc[t] = "rewrite"
        /\ Owns(t) /\ main' = Fill(main, t)
    BY <1>7 DEF WriteOwner, RewriteOwner, Goto, TypeOK, Owns
  <2>2. /\ main # Null /\ main.by = t /\ main.start = start[PidOf[t]]
        /\ LiveLeaf(main) /\ main \in Leaf
    BY <2>1, OwnedIsLive DEF Sound, MainIsOurs, TypeOK, File
  <2>3. main' # Null /\ main'.by = t /\ main'.start = main.start
    <3>1. main' = [main EXCEPT !.written = TRUE]
      BY <2>1, <2>2 DEF Fill
    <3>2. main' \in Leaf /\ main'.by = t /\ main'.start = main.start
      BY <2>2, <3>1 DEF Leaf
    <3> QED
      BY <3>2, TasksAssumption DEF Leaf
  <2>4. ReclaimIsOurs'
    BY <2>1 DEF Sound, ReclaimIsOurs, InReclaim
  <2>5. MainIsOurs'
    BY <2>1, <2>2, <2>3 DEF Sound, MainIsOurs, Owns
  <2>6. ReclaimsTheDead'
    BY <2>1, <2>2 DEF Sound, ReclaimsTheDead
  <2> QED
    BY <2>4, <2>5, <2>6 DEF Sound
<1>8. ASSUME NEW t \in Tasks, UnlinkMain(t) PROVE Sound'
  <2>1. /\ UNCHANGED <<reclaim, alive, start, won, deadRead>>
        /\ pc'[t] = "recreate" /\ InReclaim(t) /\ pc[t] = "unlinkMain"
        /\ \A u \in Tasks \ {t} : pc'[u] = pc[u]
    BY <1>8 DEF UnlinkMain, Goto, TypeOK, InReclaim
  <2>2. ~LiveLeaf(main)
    BY <2>1 DEF Sound, ReclaimsTheDead
  <2>3. ReclaimIsOurs'
    BY <2>1 DEF Sound, ReclaimIsOurs, InReclaim
  <2>4. MainIsOurs'
    <3>1. \A u \in Tasks : ~Owns(u)
      BY <2>2, OwnedIsLive
    <3> QED
      BY <2>1, <3>1 DEF MainIsOurs, Owns
  <2>5. ReclaimsTheDead'
    <3>1. \A u \in Tasks \ {t} : ~InReclaim(u)
      BY <2>1 DEF Sound, ReclaimIsOurs
    <3> QED
      BY <2>1, <3>1 DEF ReclaimsTheDead, InReclaim
  <2> QED
    BY <2>3, <2>4, <2>5 DEF Sound
<1>9. ASSUME NEW t \in Tasks, ReleaseUnlink(t) PROVE Sound'
  <2>1. /\ UNCHANGED <<reclaim, alive, start, won, deadRead>>
        /\ pc'[t] = "idle" /\ Owns(t)
        /\ \A u \in Tasks \ {t} : pc'[u] = pc[u]
    BY <1>9 DEF ReleaseUnlink, Goto, TypeOK, Owns
  <2>2. LiveLeaf(main) /\ main.by = t
    BY <2>1, OwnedIsLive DEF Sound, MainIsOurs
  <2>3. ReclaimIsOurs'
    BY <2>1 DEF Sound, ReclaimIsOurs, InReclaim
  <2>4. MainIsOurs'
    BY <2>1, <2>2 DEF Sound, MainIsOurs, Owns
  <2>5. ReclaimsTheDead'
    BY <2>1, <2>2 DEF Sound, ReclaimsTheDead
  <2> QED
    BY <2>3, <2>4, <2>5 DEF Sound
<1>10. ASSUME NEW t \in Tasks, TryCreateReclaim(t) PROVE Sound'
  <2>1. /\ UNCHANGED <<main, alive, start, won, deadRead>>
        /\ pc'[t] \in {"rwrite", "rread"}
        /\ pc'[t] = "rread" => UNCHANGED reclaim
        /\ pc'[t] = "rwrite" => reclaim = Null /\ reclaim' = EmptyLeaf(t)
        /\ \A u \in Tasks \ {t} : pc'[u] = pc[u]
    BY <1>10 DEF TryCreateReclaim, Goto, TypeOK
  <2>2. ReclaimIsOurs'
    <3>1. CASE pc'[t] = "rread"
      BY <2>1, <3>1 DEF Sound, ReclaimIsOurs, InReclaim
    <3>2. CASE pc'[t] = "rwrite"
      <4>1. reclaim' # Null /\ reclaim'.by = t /\ reclaim'.start = start'[PidOf[t]]
        <5>1. reclaim' = EmptyLeaf(t) /\ start' = start /\ EmptyLeaf(t) \in Leaf
          BY <2>1, <3>2, LeafType
        <5>2. reclaim' # Null
          BY <5>1, TasksAssumption DEF Leaf
        <5> QED
          BY <5>1, <5>2 DEF EmptyLeaf
      <4>2. \A u \in Tasks \ {t} : ~InReclaim(u)'
        BY <2>1, <3>2 DEF Sound, ReclaimIsOurs, InReclaim
      <4> QED
        BY <4>1, <4>2 DEF ReclaimIsOurs
    <3> QED
      BY <2>1, <3>1, <3>2
  <2>3. MainIsOurs'
    BY <2>1 DEF Sound, MainIsOurs, Owns
  <2>4. ReclaimsTheDead'
    BY <2>1 DEF Sound, ReclaimsTheDead, LiveLeaf
  <2> QED
    BY <2>2, <2>3, <2>4 DEF Sound
<1>11. ASSUME NEW t \in Tasks, WriteReclaimOwner(t) PROVE Sound'
  <2>1. /\ UNCHANGED <<main, alive, start, won, deadRead>>
        /\ pc'[t] = "vread" /\ InReclaim(t) /\ reclaim' = Fill(reclaim, t)
        /\ \A u \in Tasks \ {t} : pc'[u] = pc[u]
    BY <1>11 DEF WriteReclaimOwner, Goto, TypeOK, InReclaim
  <2>2. /\ reclaim # Null /\ reclaim.by = t /\ reclaim.start = start[PidOf[t]]
        /\ reclaim \in Leaf
    BY <2>1 DEF Sound, ReclaimIsOurs, TypeOK, File
  <2>3. reclaim' # Null /\ reclaim'.by = t /\ reclaim'.start = reclaim.start
    <3>1. reclaim' = [reclaim EXCEPT !.written = TRUE]
      BY <2>1, <2>2 DEF Fill
    <3>2. reclaim' \in Leaf /\ reclaim'.by = t /\ reclaim'.start = reclaim.start
      BY <2>2, <3>1 DEF Leaf
    <3> QED
      BY <3>2, TasksAssumption DEF Leaf
  <2>4. ReclaimIsOurs'
    BY <2>1, <2>2, <2>3 DEF Sound, ReclaimIsOurs, InReclaim
  <2>5. MainIsOurs'
    BY <2>1 DEF Sound, MainIsOurs, Owns
  <2>6. ReclaimsTheDead'
    BY <2>1 DEF Sound, ReclaimsTheDead, LiveLeaf
  <2> QED
    BY <2>4, <2>5, <2>6 DEF Sound
<1>12. ASSUME NEW t \in Tasks, UnlinkStaleReclaim(t) PROVE Sound'
  <2>1. /\ UNCHANGED <<main, alive, start, won, deadRead>> /\ ~LiveLeaf(reclaim)
        /\ pc'[t] \in {"create", "wait", "busy"}
        /\ \A u \in Tasks \ {t} : pc'[u] = pc[u]
    <3>1. UNCHANGED <<main, alive, start, won, deadRead>> /\ ~LiveLeaf(reclaim)
      BY <1>12 DEF UnlinkStaleReclaim, files, procs
    <3>2. \E l \in {"create", "wait", "busy"} : pc' = [pc EXCEPT ![t] = l]
      BY <1>12 DEF UnlinkStaleReclaim, NextAttempt, ReturnFalse, Goto
    <3>3. pc \in [Tasks -> Labels]
      BY DEF TypeOK
    <3>4. pc'[t] \in {"create", "wait", "busy"} /\ \A u \in Tasks \ {t} : pc'[u] = pc[u]
      BY <3>2, <3>3
    <3> QED
      BY <3>1, <3>4
  <2>2. \A u \in Tasks : ~InReclaim(u)
    BY <2>1, ReclaimerIsLive
  <2>3. ReclaimIsOurs'
    BY <2>1, <2>2 DEF ReclaimIsOurs, InReclaim
  <2>4. MainIsOurs'
    BY <2>1 DEF Sound, MainIsOurs, Owns
  <2>5. ReclaimsTheDead'
    BY <2>1 DEF Sound, ReclaimsTheDead, LiveLeaf
  <2> QED
    BY <2>3, <2>4, <2>5 DEF Sound
<1>13. ASSUME NEW t \in Tasks, ReleaseReclaim(t) PROVE Sound'
  <2>1. /\ UNCHANGED <<main, alive, start, deadRead>> /\ InReclaim(t)
        /\ pc'[t] \in {"held", "create", "wait", "busy"}
        /\ pc'[t] = "held" => Owns(t)
        /\ \A u \in Tasks \ {t} : pc'[u] = pc[u] /\ won'[u] = won[u]
    BY <1>13 DEF ReleaseReclaim, NextAttempt, ReturnFalse, Goto, TypeOK, InReclaim,
       Owns
  <2>2. \A u \in Tasks \ {t} : ~InReclaim(u)
    BY <2>1 DEF Sound, ReclaimIsOurs
  <2>3. ReclaimIsOurs'
    BY <2>1, <2>2 DEF ReclaimIsOurs, InReclaim
  <2>4. MainIsOurs'
    BY <2>1 DEF Sound, MainIsOurs, Owns
  <2>5. ReclaimsTheDead'
    BY <2>1 DEF Sound, ReclaimsTheDead, LiveLeaf
  <2> QED
    BY <2>3, <2>4, <2>5 DEF Sound
<1>14. ASSUME NEW p \in Pids, Crash(p) PROVE Sound'
  <2>1. /\ UNCHANGED <<main, reclaim, start>>
        /\ \A t \in Tasks : pc'[t] = "idle" \/ (pc'[t] = pc[t] /\ won'[t] = won[t]
                                                /\ deadRead'[t] = deadRead[t])
        /\ \A q \in Pids : alive'[q] => alive[q]
    BY <1>14 DEF Crash, Lost, TypeOK
  <2>2. LiveLeaf(main)' => LiveLeaf(main)
    BY <2>1, TasksAssumption DEF LiveLeaf, TypeOK, File, Leaf
  <2>3. ReclaimIsOurs'
    BY <2>1 DEF Sound, ReclaimIsOurs, InReclaim
  <2>4. MainIsOurs'
    BY <2>1 DEF Sound, MainIsOurs, Owns
  <2>5. ReclaimsTheDead'
    BY <2>1, <2>2 DEF Sound, ReclaimsTheDead
  <2> QED
    BY <2>3, <2>4, <2>5 DEF Sound
<1>15. ASSUME NEW p \in Pids, Reuse(p) PROVE Sound'
  <2>1. /\ UNCHANGED <<main, reclaim, pc, won, deadRead>> /\ ~alive[p]
        /\ alive' = [alive EXCEPT ![p] = TRUE]
        /\ start' = [start EXCEPT ![p] = @ + 1]
    BY <1>15 DEF Reuse
  <2>2. \A t \in Tasks : pc[t] # "idle" => PidOf[t] # p
    BY <2>1 DEF TypeOK
  <2>3. LiveLeaf(main)' => LiveLeaf(main)
    BY <2>1, TasksAssumption DEF LiveLeaf, TypeOK, File, Leaf, StartBound
  <2>4. ReclaimIsOurs'
    BY <2>1, <2>2, TasksAssumption DEF Sound, ReclaimIsOurs, InReclaim, TypeOK
  <2>5. MainIsOurs'
    BY <2>1, <2>2, TasksAssumption DEF Sound, MainIsOurs, Owns, TypeOK
  <2>6. ReclaimsTheDead'
    BY <2>1, <2>3 DEF Sound, ReclaimsTheDead
  <2> QED
    BY <2>4, <2>5, <2>6 DEF Sound
<1> QED
  BY <1>1, <1>2, <1>3, <1>4, <1>5, <1>6, <1>7, <1>8, <1>9, <1>10, <1>11, <1>12,
     <1>13, <1>14, <1>15 DEF Next, Step

\* raced is never reset.
LEMMA RacedStable == TypeOK /\ raced /\ [Next]_vars => raced'
BY DEF TypeOK, Next, Step, vars, StartAcquire, Deadline, GiveUp, Return, TryCreate,
   WriteOwner, ReadMain, ReadReclaim, ReverifyRead, ReadOwner, JudgeMain,
   TryCreateReclaim, WriteReclaimOwner, JudgeReclaim, UnlinkStaleReclaim,
   ReverifyJudge, UnlinkMain, Recreate, RewriteOwner, ReleaseReclaim, Poll,
   BeginCall, StartRelease, ReleaseRead, ReleaseUnlink, Crash, Reuse

-----------------------------------------------------------------------------
(* No live debris, also in the behaviours where the lock was raced for. *)

\* A holder's leaf names it, so releaseLock recognises it.
HeldIsWritten ==
    LiveLeaf(main) /\ pc[main.by] \in {"held", "relread", "relunlink", "rrelease"} =>
        main.written

ReclaimBound == reclaim # Null => reclaim.start <= start[PidOf[reclaim.by]]

\* A raced reclaimer may take a live leaf away, but nobody forgets one.
DebrisInv ==
    TypeOK /\ StartBound /\ ReclaimBound /\ HeldIsWritten /\ NoLiveDebris

\* A step of t that leaves both files alone, and keeps what t owns, keeps DebrisInv.
LEMMA DebrisMove ==
    ASSUME DebrisInv, TypeOK', NEW t \in Tasks,
           UNCHANGED <<main, reclaim, alive, start>>,
           \A u \in Tasks \ {t} : pc'[u] = pc[u] /\ won'[u] = won[u],
           InReclaim(t) => InReclaim(t)',
           Owns(t) => Owns(t)',
           pc'[t] \in {"held", "relread", "relunlink", "rrelease"} =>
               pc[t] \in {"held", "relread", "relunlink", "rrelease"} \/ ~Owns(t)
    PROVE  DebrisInv'
<1>1. LiveLeaf(main)' = LiveLeaf(main) /\ LiveLeaf(reclaim)' = LiveLeaf(reclaim)
  BY DEF LiveLeaf
<1>2. StartBound' /\ ReclaimBound'
  BY DEF DebrisInv, StartBound, ReclaimBound
<1>3. NoLiveDebris'
  BY <1>1 DEF DebrisInv, NoLiveDebris, Owns, InReclaim, LiveLeaf, TypeOK, File, Leaf
<1>4. HeldIsWritten'
  BY <1>1 DEF DebrisInv, HeldIsWritten, NoLiveDebris, LiveLeaf, TypeOK, File, Leaf
<1> QED
  BY <1>2, <1>3, <1>4 DEF DebrisInv

\* Every step of every task and process keeps DebrisInv.
LEMMA DebrisStep == DebrisInv /\ [Next]_vars => DebrisInv'
<1> SUFFICES ASSUME DebrisInv, [Next]_vars PROVE DebrisInv'
  OBVIOUS
<1>0. TypeOK /\ TypeOK' /\ StartBound'
  BY TypeStep, StartBoundStep DEF DebrisInv
<1> USE TasksAssumption DEF files, procs, local
<1>1. ASSUME NEW t \in Tasks,
             \/ StartAcquire(t) \/ Poll(t) \/ Deadline(t) \/ GiveUp(t)
             \/ ReadMain(t) \/ ReadReclaim(t) \/ ReverifyRead(t)
             \/ JudgeMain(t) \/ JudgeReclaim(t) \/ ReverifyJudge(t) \/ StartRelease(t)
      PROVE  DebrisInv'
  <2>1. /\ UNCHANGED <<main, reclaim, alive, start>>
        /\ \A u \in Tasks \ {t} : pc'[u] = pc[u] /\ won'[u] = won[u]
    BY <1>0, <1>1 DEF TypeOK, StartAcquire, Poll, BeginCall, Deadline, GiveUp, Return,
       ReadMain, ReadReclaim, ReverifyRead, ReadOwner, JudgeMain, JudgeReclaim,
       NextAttempt, ReverifyJudge, StartRelease, Goto
  <2>2. \/ /\ pc[t] \in {"idle", "wait", "busy", "read", "rread", "judge", "rjudge"}
           /\ pc'[t] \notin {"held", "relread", "relunlink", "rrelease"}
        \/ pc[t] \in {"vread", "vjudge"} /\ pc'[t] \in {"vjudge", "unlinkMain", "rrelease"}
        \/ pc[t] = "held" /\ pc'[t] = "relread"
    BY <1>0, <1>1 DEF TypeOK, StartAcquire, Poll, BeginCall, Deadline, GiveUp, Return,
       ReadMain, ReadReclaim, ReverifyRead, ReadOwner, JudgeMain, JudgeReclaim,
       NextAttempt, ReverifyJudge, StartRelease, Goto, ReturnFalse
  <2>3. (InReclaim(t) => InReclaim(t)') /\ (Owns(t) => Owns(t)')
    BY <2>2 DEF InReclaim, Owns
  <2> QED
    BY <1>0, <2>1, <2>2, <2>3, DebrisMove DEF Owns
<1>2. ASSUME NEW t \in Tasks, TryCreate(t) PROVE DebrisInv'
  <2>1. /\ UNCHANGED <<reclaim, alive, start, won>>
        /\ \A u \in Tasks \ {t} : pc'[u] = pc[u]
        /\ pc[t] = "create"
        /\ \/ main' = EmptyLeaf(t) /\ pc'[t] = "write"
           \/ main' = main /\ pc'[t] = "read"
    BY <1>0, <1>2 DEF TypeOK, TryCreate, Goto
  <2>2. CASE main' = main /\ pc'[t] = "read"
    BY <1>0, <2>1, <2>2, DebrisMove DEF InReclaim, Owns
  <2>3. CASE main' = EmptyLeaf(t) /\ pc'[t] = "write"
    <3>1. main'.by = t
      BY <2>3 DEF EmptyLeaf
    <3>2. ReclaimBound'
      BY <2>1 DEF DebrisInv, ReclaimBound
    <3>3. HeldIsWritten'
      BY <2>3, <3>1 DEF HeldIsWritten
    <3>4. NoLiveDebris'
      BY <1>0, <2>1, <2>3, <3>1 DEF DebrisInv, NoLiveDebris, Owns, InReclaim, LiveLeaf,
         TypeOK, File, Leaf
    <3> QED
      BY <1>0, <3>2, <3>3, <3>4 DEF DebrisInv
  <2> QED
    BY <2>1, <2>2, <2>3
<1>3. ASSUME NEW t \in Tasks, Recreate(t) PROVE DebrisInv'
  <2>1. /\ UNCHANGED <<reclaim, alive, start>> /\ ~won'[t]
        /\ \A u \in Tasks \ {t} : pc'[u] = pc[u] /\ won'[u] = won[u]
        /\ pc[t] = "recreate"
        /\ \/ main' = EmptyLeaf(t) /\ pc'[t] = "rewrite"
           \/ main' = main /\ pc'[t] = "rrelease"
    BY <1>0, <1>3 DEF TypeOK, Recreate, Goto
  <2>2. CASE main' = main /\ pc'[t] = "rrelease"
    BY <1>0, <2>1, <2>2, DebrisMove DEF InReclaim, Owns
  <2>3. CASE main' = EmptyLeaf(t) /\ pc'[t] = "rewrite"
    <3>1. main'.by = t
      BY <2>3 DEF EmptyLeaf
    <3>2. ReclaimBound'
      BY <2>1 DEF DebrisInv, ReclaimBound
    <3>3. HeldIsWritten'
      BY <2>3, <3>1 DEF HeldIsWritten
    <3>4. NoLiveDebris'
      BY <1>0, <2>1, <2>3, <3>1 DEF DebrisInv, NoLiveDebris, Owns, InReclaim, LiveLeaf,
         TypeOK, File, Leaf
    <3> QED
      BY <1>0, <3>2, <3>3, <3>4 DEF DebrisInv
  <2> QED
    BY <2>1, <2>2, <2>3
<1>4. ASSUME NEW t \in Tasks, WriteOwner(t) \/ RewriteOwner(t) PROVE DebrisInv'
  <2>1. /\ UNCHANGED <<reclaim, alive, start>> /\ main' = Fill(main, t)
        /\ \A u \in Tasks \ {t} : pc'[u] = pc[u] /\ won'[u] = won[u]
        /\ \/ pc[t] = "write" /\ pc'[t] = "held"
           \/ pc[t] = "rewrite" /\ pc'[t] = "rrelease" /\ won'[t]
    BY <1>0, <1>4 DEF TypeOK, WriteOwner, RewriteOwner, Goto
  <2>2. /\ LiveLeaf(main)' => LiveLeaf(main) /\ main'.by = main.by
        /\ LiveLeaf(main)' /\ main.by = t => main'.written
        /\ main.by # t => main' = main
    <3>1. CASE main = Null \/ main.by # t
      BY <2>1, <3>1 DEF Fill, LiveLeaf
    <3>2. CASE main # Null /\ main.by = t
      <4>1. main' = [main EXCEPT !.written = TRUE] /\ main \in Leaf
        BY <1>0, <2>1, <3>2 DEF Fill, TypeOK, File
      <4>2. main'.written /\ main'.by = main.by /\ main'.start = main.start
        BY <4>1 DEF Leaf
      <4> QED
        BY <2>1, <3>2, <4>2 DEF LiveLeaf
    <3> QED
      BY <3>1, <3>2
  <2>3. ReclaimBound'
    BY <2>1 DEF DebrisInv, ReclaimBound
  <2>4. HeldIsWritten'
    BY <1>0, <2>1, <2>2 DEF DebrisInv, HeldIsWritten, LiveLeaf, TypeOK, File, Leaf
  <2>5. LiveLeaf(main)' => Owns(main.by)'
    BY <1>0, <2>1, <2>2 DEF DebrisInv, NoLiveDebris, Owns, LiveLeaf, TypeOK, File, Leaf
  <2>6. LiveLeaf(reclaim)' => InReclaim(reclaim.by)'
    BY <1>0, <2>1 DEF DebrisInv, NoLiveDebris, InReclaim, LiveLeaf, TypeOK, File, Leaf
  <2> QED
    BY <1>0, <2>3, <2>4, <2>5, <2>6 DEF DebrisInv, NoLiveDebris
<1>5. ASSUME NEW t \in Tasks, TryCreateReclaim(t) PROVE DebrisInv'
  <2>1. /\ UNCHANGED <<main, alive, start, won>>
        /\ \A u \in Tasks \ {t} : pc'[u] = pc[u]
        /\ pc[t] = "rcreate"
        /\ \/ reclaim' = EmptyLeaf(t) /\ pc'[t] = "rwrite"
           \/ reclaim' = reclaim /\ pc'[t] = "rread"
    BY <1>0, <1>5 DEF TypeOK, TryCreateReclaim, Goto
  <2>2. CASE reclaim' = reclaim /\ pc'[t] = "rread"
    BY <1>0, <2>1, <2>2, DebrisMove DEF InReclaim, Owns
  <2>3. CASE reclaim' = EmptyLeaf(t) /\ pc'[t] = "rwrite"
    <3>1. reclaim'.by = t /\ reclaim'.start = start'[PidOf[t]]
      BY <2>1, <2>3 DEF EmptyLeaf
    <3>2. ReclaimBound'
      BY <1>0, <3>1 DEF ReclaimBound, TypeOK
    <3>3. HeldIsWritten'
      BY <1>0, <2>1, <2>3 DEF DebrisInv, HeldIsWritten, LiveLeaf, TypeOK, File, Leaf
    <3>4. NoLiveDebris'
      BY <1>0, <2>1, <2>3, <3>1 DEF DebrisInv, NoLiveDebris, Owns, InReclaim, LiveLeaf,
         TypeOK, File, Leaf
    <3> QED
      BY <1>0, <3>2, <3>3, <3>4 DEF DebrisInv
  <2> QED
    BY <2>1, <2>2, <2>3
<1>6. ASSUME NEW t \in Tasks, WriteReclaimOwner(t) PROVE DebrisInv'
  <2>1. /\ UNCHANGED <<main, alive, start, won>> /\ reclaim' = Fill(reclaim, t)
        /\ \A u \in Tasks \ {t} : pc'[u] = pc[u]
        /\ pc[t] = "rwrite" /\ pc'[t] = "vread"
    BY <1>0, <1>6 DEF TypeOK, WriteReclaimOwner, Goto
  <2>2. reclaim # Null => reclaim'.by = reclaim.by /\ reclaim'.start = reclaim.start
    BY <1>0, <2>1 DEF Fill, TypeOK, File, Leaf
  <2>3. reclaim = Null => reclaim' = Null
    BY <2>1 DEF Fill
  <2>4. ReclaimBound'
    BY <2>1, <2>2, <2>3 DEF DebrisInv, ReclaimBound
  <2>5. HeldIsWritten'
    BY <1>0, <2>1 DEF DebrisInv, HeldIsWritten, LiveLeaf, TypeOK, File, Leaf
  <2>6. NoLiveDebris'
    BY <1>0, <2>1, <2>2, <2>3 DEF DebrisInv, NoLiveDebris, Owns, InReclaim, LiveLeaf,
       TypeOK, File, Leaf
  <2> QED
    BY <1>0, <2>4, <2>5, <2>6 DEF DebrisInv
<1>7. ASSUME NEW t \in Tasks, UnlinkStaleReclaim(t) \/ ReleaseReclaim(t)
      PROVE  DebrisInv'
  <2>1. /\ UNCHANGED <<main, alive, start>> /\ reclaim' = Null
        /\ \A u \in Tasks \ {t} : pc'[u] = pc[u] /\ won'[u] = won[u]
        /\ \/ pc[t] = "runlink" /\ pc'[t] \in {"create", "wait", "busy"}
           \/ pc[t] = "rrelease" /\ won[t] /\ pc'[t] = "held"
           \/ pc[t] = "rrelease" /\ ~won[t] /\ pc'[t] \in {"create", "wait", "busy"}
    BY <1>0, <1>7 DEF TypeOK, UnlinkStaleReclaim, ReleaseReclaim, NextAttempt,
       ReturnFalse, Goto
  <2>2. ReclaimBound' /\ ~LiveLeaf(reclaim)'
    BY <2>1 DEF ReclaimBound, LiveLeaf
  <2>3. HeldIsWritten'
    BY <1>0, <2>1 DEF DebrisInv, HeldIsWritten, LiveLeaf, TypeOK, File, Leaf
  <2>4. NoLiveDebris'
    BY <1>0, <2>1, <2>2 DEF DebrisInv, NoLiveDebris, Owns, LiveLeaf, TypeOK, File, Leaf
  <2> QED
    BY <1>0, <2>2, <2>3, <2>4 DEF DebrisInv
<1>8. ASSUME NEW t \in Tasks, UnlinkMain(t) \/ ReleaseUnlink(t) PROVE DebrisInv'
  <2>1. /\ UNCHANGED <<reclaim, alive, start, won>> /\ main' = Null
        /\ \A u \in Tasks \ {t} : pc'[u] = pc[u]
        /\ \/ pc[t] = "unlinkMain" /\ pc'[t] = "recreate"
           \/ pc[t] = "relunlink" /\ pc'[t] = "idle"
    BY <1>0, <1>8 DEF TypeOK, UnlinkMain, ReleaseUnlink, Goto
  <2>2. ReclaimBound' /\ HeldIsWritten' /\ ~LiveLeaf(main)'
    BY <2>1 DEF DebrisInv, ReclaimBound, HeldIsWritten, LiveLeaf
  <2>3. NoLiveDebris'
    BY <1>0, <2>1, <2>2 DEF DebrisInv, NoLiveDebris, InReclaim, LiveLeaf, TypeOK, File,
       Leaf
  <2> QED
    BY <1>0, <2>2, <2>3 DEF DebrisInv
<1>9. ASSUME NEW t \in Tasks, ReleaseRead(t) PROVE DebrisInv'
  <2>1. /\ UNCHANGED <<main, reclaim, alive, start, won>> /\ pc[t] = "relread"
        /\ \A u \in Tasks \ {t} : pc'[u] = pc[u]
        /\ pc'[t] \in {"relunlink", "idle"}
        /\ readLockOwner(main) # Null /\ readLockOwner(main).pid = PidOf[t] =>
               pc'[t] = "relunlink"
    BY <1>0, <1>9 DEF TypeOK, ReleaseRead, Goto
  <2>2. CASE pc'[t] = "relunlink"
    BY <1>0, <2>1, <2>2, DebrisMove DEF InReclaim, Owns
  <2>3. CASE pc'[t] = "idle"
    <3>1. ~(LiveLeaf(main) /\ main.by = t)
      <4> SUFFICES ASSUME LiveLeaf(main), main.by = t PROVE FALSE
        OBVIOUS
      <4>1. main # Null /\ main.written
        BY <2>1 DEF DebrisInv, HeldIsWritten, LiveLeaf
      <4>2. readLockOwner(main) = serializeOwner(main)
        BY <4>1 DEF readLockOwner
      <4>3. serializeOwner(main) \in LockOwner /\ serializeOwner(main).pid = PidOf[t]
        BY <1>0 DEF serializeOwner, LockOwner, TypeOK, File, Leaf, LiveLeaf
      <4> QED
        BY <2>1, <2>3, <4>2, <4>3 DEF LockOwner
    <3>2. ReclaimBound'
      BY <2>1 DEF DebrisInv, ReclaimBound
    <3>3. HeldIsWritten'
      BY <1>0, <2>1, <2>3 DEF DebrisInv, HeldIsWritten, LiveLeaf, TypeOK, File, Leaf
    <3>4. NoLiveDebris'
      BY <1>0, <2>1, <2>3, <3>1 DEF DebrisInv, NoLiveDebris, Owns, InReclaim, LiveLeaf,
         TypeOK, File, Leaf
    <3> QED
      BY <1>0, <3>2, <3>3, <3>4 DEF DebrisInv
  <2> QED
    BY <2>1, <2>2, <2>3
<1>10. ASSUME NEW p \in Pids, Crash(p) PROVE DebrisInv'
  <2>1. /\ UNCHANGED <<main, reclaim, start>> /\ ~alive'[p]
        /\ \A q \in Pids : alive'[q] => alive[q]
        /\ \A t \in Tasks : PidOf[t] # p => pc'[t] = pc[t] /\ won'[t] = won[t]
    BY <1>0, <1>10 DEF TypeOK, Crash, Lost
  <2>2. /\ LiveLeaf(main)' => LiveLeaf(main) /\ main.by \in Tasks /\ PidOf[main.by] # p
        /\ LiveLeaf(reclaim)' =>
              LiveLeaf(reclaim) /\ reclaim.by \in Tasks /\ PidOf[reclaim.by] # p
    BY <1>0, <2>1 DEF LiveLeaf, TypeOK, File, Leaf
  <2>3. ReclaimBound'
    BY <2>1 DEF DebrisInv, ReclaimBound
  <2>4. HeldIsWritten' /\ NoLiveDebris'
    BY <2>1, <2>2 DEF DebrisInv, HeldIsWritten, NoLiveDebris, Owns, InReclaim
  <2> QED
    BY <1>0, <2>3, <2>4 DEF DebrisInv
<1>11. ASSUME NEW p \in Pids, Reuse(p) PROVE DebrisInv'
  <2>1. /\ UNCHANGED <<main, reclaim, pc, won>> /\ ~alive[p]
        /\ alive' = [alive EXCEPT ![p] = TRUE]
        /\ start' = [start EXCEPT ![p] = @ + 1]
    BY <1>11 DEF Reuse
  <2>2. LiveLeaf(main)' => LiveLeaf(main)
    BY <1>0, <2>1 DEF LiveLeaf, TypeOK, File, Leaf, DebrisInv, StartBound
  <2>3. LiveLeaf(reclaim)' => LiveLeaf(reclaim)
    BY <1>0, <2>1 DEF LiveLeaf, TypeOK, File, Leaf, DebrisInv, ReclaimBound
  <2>4. ReclaimBound'
    BY <1>0, <2>1 DEF DebrisInv, ReclaimBound, TypeOK, File, Leaf
  <2>5. HeldIsWritten' /\ NoLiveDebris'
    BY <2>1, <2>2, <2>3 DEF DebrisInv, HeldIsWritten, NoLiveDebris, Owns, InReclaim
  <2> QED
    BY <1>0, <2>4, <2>5 DEF DebrisInv
<1>12. CASE UNCHANGED vars
  BY <1>0, <1>12 DEF DebrisInv, ReclaimBound, HeldIsWritten, NoLiveDebris, Owns,
     InReclaim, LiveLeaf, vars
<1> QED
  BY <1>1, <1>2, <1>3, <1>4, <1>5, <1>6, <1>7, <1>8, <1>9, <1>10, <1>11, <1>12
     DEF Next, Step

-----------------------------------------------------------------------------
\* Type correctness of the lock protocol in every reachable state.
THEOREM LockTypeCorrect == Spec => []TypeOK
<1>1. Init => TypeOK
  BY InitIInv DEF IInv
<1>2. TypeOK /\ [Next]_vars => TypeOK'
  BY TypeStep
<1> QED
  BY <1>1, <1>2, PTL DEF Spec

\* The inductive invariant holds in every reachable state.
THEOREM LockInvariant == Spec => []IInv
<1>1. Init => IInv
  BY InitIInv
<1>2. IInv /\ [Next]_vars => IInv'
  <2> SUFFICES ASSUME IInv, [Next]_vars PROVE IInv'
    OBVIOUS
  <2>1. TypeOK' /\ StartBound'
    BY TypeStep, StartBoundStep DEF IInv
  <2>2. raced' \/ Sound'
    <3>1. CASE UNCHANGED vars
      BY <3>1 DEF vars, IInv, Sound, ReclaimIsOurs, MainIsOurs, ReclaimsTheDead,
         InReclaim, Owns, LiveLeaf
    <3>2. CASE Next
      BY <2>1, <3>2, SoundStep, RacedStable DEF IInv
    <3> QED
      BY <3>1, <3>2
  <2> QED
    BY <2>1, <2>2 DEF IInv
<1> QED
  BY <1>1, <1>2, PTL DEF Spec

\* The project lock and the reclaim lock exclude, for any number of processes,
\* tasks and crashes, unless a reclaimer acted on an absent or empty leaf, on an
\* owner that died between read and judgement, or on another's live reclaim leaf.
THEOREM LockExcludesUnlessRaced == Spec => []MutexUnlessRaced
<1>1. IInv => MutexUnlessRaced
  BY DEF IInv, MutexUnlessRaced, MutualExclusion, ReclaimExclusive, Sound,
     ReclaimIsOurs, MainIsOurs, Owns
<1> QED
  BY <1>1, LockInvariant, PTL

\* A live process leaves no leaf behind, raced or not: only crash debris is ever
\* stale (lock.ts reclaimStaleLock's finally, releaseLock).
THEOREM LiveProcessesCleanUp == Spec => []NoLiveDebris
<1>1. Init => DebrisInv
  <2> SUFFICES ASSUME Init PROVE DebrisInv
    OBVIOUS
  <2>1. TypeOK /\ StartBound
    BY InitIInv DEF IInv
  <2>2. main = Null /\ reclaim = Null
    BY DEF Init
  <2> QED
    BY <2>1, <2>2 DEF DebrisInv, ReclaimBound, HeldIsWritten, NoLiveDebris, LiveLeaf
<1>2. DebrisInv => NoLiveDebris
  BY DEF DebrisInv
<1> QED
  BY <1>1, <1>2, DebrisStep, PTL DEF Spec

-----------------------------------------------------------------------------
(* A caller that ran by itself gets the lock. *)

\* The record is not that of a running process, and never will be.
Gone(owner) ==
    /\ owner.start # Null
    /\ owner.start <= start[owner.pid]
    /\ ~alive[owner.pid] \/ owner.start # start[owner.pid]

\* Where a caller that has been alone since its call began can be: whatever record
\* it judges is a dead one, and the one attempt it may lose is the one that removes
\* the reclaim leaf.
Solo(t) ==
    /\ \A u \in Tasks \ {t} : pc[u] = "idle"
    /\ pc[t] \notin {"busy", "wait"}
    /\ pc[t] \in {"judge", "rjudge", "vjudge"} => got[t] = Null \/ Gone(got[t])
    /\ pc[t] \in {"create", "read", "judge", "rcreate"} =>
           attempt[t] = 1 \/ (attempt[t] = 2 /\ reclaim = Null)
    /\ pc[t] \in {"rread", "rjudge", "runlink"} => attempt[t] = 1
    /\ pc[t] = "recreate" => main = Null
    /\ pc[t] = "rrelease" => won[t]

SoloInv == DebrisInv /\ \A t \in Tasks : alone[t] => Solo(t)

\* The leaves a lone caller finds, while it holds neither, are of dead processes, and
\* so are the records it reads there.
LEMMA SoloReadsTheDead ==
    ASSUME DebrisInv, PsAvailable, NEW t \in Tasks, \A u \in Tasks \ {t} : pc[u] = "idle"
    PROVE  /\ ~Owns(t) => readLockOwner(main) = Null \/ Gone(readLockOwner(main))
           /\ ~InReclaim(t) => readLockOwner(reclaim) = Null \/ Gone(readLockOwner(reclaim))
<1> USE TasksAssumption DEF DebrisInv
<1>1. \A u \in Tasks \ {t} : ~Owns(u) /\ ~InReclaim(u)
  BY DEF Owns, InReclaim
<1>2. ~Owns(t) => ~LiveLeaf(main)
  BY <1>1 DEF NoLiveDebris, LiveLeaf, TypeOK, File, Leaf
<1>3. ~InReclaim(t) => ~LiveLeaf(reclaim)
  BY <1>1 DEF NoLiveDebris, LiveLeaf, TypeOK, File, Leaf
<1>4. ASSUME NEW f \in File, f # Null, ~LiveLeaf(f), f.start <= start[PidOf[f.by]]
      PROVE  readLockOwner(f) = Null \/ Gone(readLockOwner(f))
  <2>1. CASE ~f.written
    BY <1>4, <2>1 DEF readLockOwner
  <2>2. CASE f.written
    <3>1. /\ readLockOwner(f) = serializeOwner(f)
          /\ serializeOwner(f).pid = PidOf[f.by] /\ serializeOwner(f).start = f.start
      BY <1>4, <2>2 DEF readLockOwner, serializeOwner
    <3>2. f.start # Null
      BY <1>4 DEF File, Leaf
    <3> QED
      BY <1>4, <3>1, <3>2 DEF Gone, LiveLeaf
  <2> QED
    BY <2>1, <2>2
<1> QED
  BY <1>2, <1>3, <1>4 DEF StartBound, ReclaimBound, TypeOK, readLockOwner

\* Every step keeps SoloInv: a step of anybody else ends the caller's being alone.
LEMMA SoloStep == PsAvailable /\ SoloInv /\ [Next]_vars => SoloInv'
<1> SUFFICES ASSUME PsAvailable, SoloInv, [Next]_vars PROVE SoloInv'
  OBVIOUS
<1>0. DebrisInv /\ DebrisInv' /\ TypeOK /\ TypeOK'
  BY DebrisStep DEF SoloInv, DebrisInv
<1> USE TasksAssumption DEF files, procs, local
<1>1. ASSUME NEW t \in Tasks, StartAcquire(t) \/ Poll(t) PROVE SoloInv'
  <2>1. /\ pc' = [pc EXCEPT ![t] = "create"] /\ attempt' = [attempt EXCEPT ![t] = 1]
        /\ alone' = [u \in Tasks |-> u = t /\ \A v \in Tasks \ {t} : pc[v] = "idle"]
    BY <1>1 DEF StartAcquire, Poll, BeginCall, Goto
  <2>2. ASSUME NEW u \in Tasks, alone'[u] PROVE Solo(u)'
    BY <1>0, <2>1, <2>2 DEF TypeOK, Solo
  <2> QED
    BY <1>0, <2>2 DEF SoloInv
<1>2. ASSUME NEW t \in Tasks,
             \/ Step(t) /\ ~Poll(t)
             \/ Deadline(t) \/ GiveUp(t)
      PROVE  SoloInv'
  <2>1. /\ UNCHANGED <<alone, alive, start>> /\ pc[t] # "idle"
        /\ \A u \in Tasks \ {t} : pc'[u] = pc[u]
    BY <1>0, <1>2 DEF TypeOK, Step, Deadline, GiveUp, Return, TryCreate, WriteOwner,
       ReadMain, ReadReclaim, ReverifyRead, ReadOwner, JudgeMain, TryCreateReclaim,
       WriteReclaimOwner, JudgeReclaim, UnlinkStaleReclaim, ReverifyJudge, UnlinkMain,
       Recreate, RewriteOwner, ReleaseReclaim, NextAttempt, StartRelease, ReleaseRead,
       ReleaseUnlink, Goto
  <2>2. \A u \in Tasks \ {t} : ~alone'[u]
    BY <2>1 DEF SoloInv, Solo
  <2>3. ASSUME alone[t] PROVE Solo(t)'
    <3>0. Solo(t)
      BY <2>3 DEF SoloInv
    <3>1. \A u \in Tasks \ {t} : pc'[u] = "idle"
      BY <2>1, <3>0 DEF Solo
    <3>2. CASE TryCreate(t) \/ WriteOwner(t)
      BY <1>0, <3>0, <3>1, <3>2 DEF TypeOK, Solo, TryCreate, WriteOwner, Goto
    <3>3. CASE ReadMain(t) \/ ReverifyRead(t)
      <4>1. /\ pc[t] \in {"read", "vread"} /\ UNCHANGED <<attempt, reclaim, main>>
            /\ got'[t] = readLockOwner(main)
            /\ pc'[t] = IF pc[t] = "read" THEN "judge" ELSE "vjudge"
        BY <1>0, <3>3 DEF TypeOK, ReadMain, ReverifyRead, ReadOwner, Goto
      <4>2. got'[t] = Null \/ Gone(got'[t])
        BY <1>0, <3>0, <4>1, SoloReadsTheDead DEF Solo, Owns
      <4>3. got'[t] = Null \/ Gone(got[t])'
        BY <2>1, <4>2 DEF Gone
      <4> QED
        BY <3>0, <3>1, <4>1, <4>3 DEF Solo
    <3>4. CASE ReadReclaim(t)
      <4>1. /\ pc[t] = "rread" /\ UNCHANGED <<attempt, reclaim, main>>
            /\ got'[t] = readLockOwner(reclaim) /\ pc'[t] = "rjudge"
        BY <1>0, <3>4 DEF TypeOK, ReadReclaim, ReadOwner, Goto
      <4>2. got'[t] = Null \/ Gone(got'[t])
        BY <1>0, <3>0, <4>1, SoloReadsTheDead DEF Solo, InReclaim
      <4>3. got'[t] = Null \/ Gone(got[t])'
        BY <2>1, <4>2 DEF Gone
      <4> QED
        BY <3>0, <3>1, <4>1, <4>3 DEF Solo
    <3>5. CASE JudgeMain(t) \/ JudgeReclaim(t) \/ ReverifyJudge(t)
      <4>1. isLockStale(got[t])
        BY <3>0, <3>5 DEF Solo, Gone, isLockStale, isOwnerStale, JudgeMain,
           JudgeReclaim, ReverifyJudge
      <4>2. /\ UNCHANGED <<attempt, reclaim, main>>
            /\ \/ pc[t] = "judge" /\ pc'[t] = "rcreate"
               \/ pc[t] = "rjudge" /\ pc'[t] = "runlink"
               \/ pc[t] = "vjudge" /\ pc'[t] = "unlinkMain"
        BY <1>0, <3>5, <4>1 DEF TypeOK, JudgeMain, JudgeReclaim, ReverifyJudge, Goto
      <4> QED
        BY <3>0, <3>1, <4>2 DEF Solo
    <3>6. CASE TryCreateReclaim(t) \/ WriteReclaimOwner(t)
      BY <1>0, <3>0, <3>1, <3>6 DEF TypeOK, Solo, TryCreateReclaim, WriteReclaimOwner,
         Goto
    <3>7. CASE UnlinkStaleReclaim(t)
      <4>1. attempt[t] = 1 /\ reclaim' = Null
        BY <3>0, <3>7 DEF Solo, UnlinkStaleReclaim
      <4>2. pc'[t] = "create" /\ attempt'[t] = 2
        BY <1>0, <3>7, <4>1 DEF TypeOK, UnlinkStaleReclaim, NextAttempt,
           MaxAcquireAttempts, Goto
      <4> QED
        BY <3>1, <4>1, <4>2 DEF Solo
    <3>8. CASE UnlinkMain(t) \/ Recreate(t) \/ RewriteOwner(t)
      <4>1. \/ pc'[t] = "recreate" /\ main' = Null
            \/ pc'[t] = "rewrite"
            \/ pc'[t] = "rrelease" /\ won'[t]
        BY <1>0, <3>0, <3>8 DEF TypeOK, Solo, UnlinkMain, Recreate, RewriteOwner, Goto
      <4> QED
        BY <3>1, <4>1 DEF Solo
    <3>9. CASE ReleaseReclaim(t)
      <4>1. pc'[t] = "held"
        BY <1>0, <3>0, <3>9 DEF TypeOK, Solo, ReleaseReclaim, Goto
      <4> QED
        BY <3>1, <4>1 DEF Solo
    <3>10. CASE \/ StartRelease(t) \/ ReleaseRead(t) \/ ReleaseUnlink(t)
                \/ Deadline(t) \/ GiveUp(t)
      <4>1. pc'[t] \in {"relread", "relunlink", "idle"}
        BY <1>0, <3>10 DEF TypeOK, StartRelease, ReleaseRead, ReleaseUnlink, Deadline,
           GiveUp, Return, Goto
      <4> QED
        BY <3>1, <4>1 DEF Solo
    <3> QED
      BY <1>2, <3>2, <3>3, <3>4, <3>5, <3>6, <3>7, <3>8, <3>9, <3>10 DEF Step
  <2> QED
    BY <1>0, <2>1, <2>2, <2>3 DEF SoloInv
<1>3. ASSUME NEW p \in Pids, Crash(p) PROVE SoloInv'
  <2>1. /\ UNCHANGED <<main, reclaim, start, alone>>
        /\ \A q \in Pids : alive'[q] => alive[q]
        /\ \A t \in Tasks : \/ pc'[t] = "idle"
                            \/ /\ pc'[t] = pc[t] /\ won'[t] = won[t]
                               /\ got'[t] = got[t] /\ attempt'[t] = attempt[t]
        /\ \A t \in Tasks : pc[t] = "idle" => pc'[t] = "idle"
    BY <1>0, <1>3 DEF TypeOK, Crash, Lost
  <2>2. ASSUME NEW t \in Tasks, alone[t] PROVE Solo(t)'
    <3>1. Solo(t)
      BY <2>2 DEF SoloInv
    <3>2. CASE pc'[t] = "idle"
      BY <2>1, <3>1, <3>2 DEF Solo
    <3>3. CASE pc'[t] # "idle"
      <4>1. got[t] # Null /\ Gone(got[t]) => Gone(got[t])'
        BY <1>0, <2>1, <3>3 DEF Gone, TypeOK, LockOwner
      <4> QED
        BY <2>1, <3>1, <3>3, <4>1 DEF Solo
    <3> QED
      BY <3>2, <3>3
  <2> QED
    BY <1>0, <2>1, <2>2 DEF SoloInv
<1>4. ASSUME NEW p \in Pids, Reuse(p) PROVE SoloInv'
  <2>1. /\ UNCHANGED <<main, reclaim, pc, attempt, got, won, alone>> /\ ~alive[p]
        /\ alive' = [alive EXCEPT ![p] = TRUE]
        /\ start' = [start EXCEPT ![p] = @ + 1]
    BY <1>4 DEF Reuse
  <2>2. ASSUME NEW t \in Tasks, got[t] # Null, Gone(got[t]) PROVE Gone(got[t])'
    <3>1. got[t] \in LockOwner
      BY <1>0, <2>2 DEF TypeOK
    <3>2. got[t].start \in Nat /\ got[t].pid \in Pids
      BY <2>2, <3>1 DEF LockOwner, Gone
    <3> QED
      BY <1>0, <2>1, <2>2, <3>2 DEF Gone, TypeOK
  <2> QED
    BY <1>0, <2>1, <2>2 DEF SoloInv, Solo
<1>5. CASE UNCHANGED vars
  BY <1>0, <1>5 DEF SoloInv, Solo, Gone, vars
<1> QED
  BY <1>1, <1>2, <1>3, <1>4, <1>5 DEF Next, Step, StartAcquire, Poll

\* MAX_ACQUIRE_ATTEMPTS = 2 is enough, for any number of tasks, processes and crashes
\* before the call: a caller nobody disturbed is never told that the project is busy
\* (src/utils/lock.ts acquireLock).
THEOREM SoleCallerGetsTheLock == Spec => []SoleCallerAcquires
<1>1. CASE ~PsAvailable
  <2>1. SoleCallerAcquires
    BY <1>1 DEF SoleCallerAcquires
  <2> QED
    BY <1>1, PTL DEF SoleCallerAcquires
<1>2. CASE PsAvailable
  <2>1. Init => SoloInv
    <3> SUFFICES ASSUME Init PROVE SoloInv
      OBVIOUS
    <3>1. TypeOK /\ StartBound
      BY InitIInv DEF IInv
    <3>2. main = Null /\ reclaim = Null /\ \A t \in Tasks : ~alone[t]
      BY DEF Init
    <3> QED
      BY <3>1, <3>2 DEF SoloInv, DebrisInv, ReclaimBound, HeldIsWritten, NoLiveDebris,
         LiveLeaf
  <2>2. SoloInv => SoleCallerAcquires
    BY DEF SoloInv, Solo, SoleCallerAcquires
  <2>3. SoloInv /\ [Next]_vars => SoloInv'
    BY <1>2, SoloStep
  <2> QED
    BY <2>1, <2>2, <2>3, PTL DEF Spec
<1> QED
  BY <1>1, <1>2
=============================================================================
