---------------------------- MODULE ProjectLock ----------------------------
(***************************************************************************)
(* The project lock: src/utils/lock.ts with src/utils/lock-owner.ts.       *)
(*                                                                         *)
(* Every command that changes a project takes .llmwiki/lock first.  The    *)
(* lock is a file: creating it exclusively ('wx') takes it, and the bytes  *)
(* written into it afterwards name the owner.  A leaf whose owner is dead  *)
(* is "stale" and is removed under a second file, .llmwiki/lock.reclaim.   *)
(*                                                                         *)
(* Each file-system call is one step, because another process may run      *)
(* between any two awaits.  A task is one caller of acquireLock or         *)
(* acquireLockBlocking; tasks of one process share its PID.  A process may *)
(* crash at any step and its PID may be used again by a later process.     *)
(***************************************************************************)
EXTENDS Naturals, FiniteSets

CONSTANTS
    Tasks,          \* callers of the lock API
    Pids,           \* process ids
    PidOf,          \* the process each task runs in
    Blocking,       \* the tasks that call acquireLockBlocking
    PsAvailable,    \* `ps` yields start times (otherwise PID-only liveness)
    MaxStarts,      \* bound: lives of one PID
    Null            \* an absent file, an unreadable owner, an absent start time

ASSUME TasksAssumption ==
    /\ PidOf \in [Tasks -> Pids]
    /\ Blocking \subseteq Tasks
    /\ PsAvailable \in BOOLEAN
    /\ MaxStarts \in Nat \ {0}
    /\ Null \notin [by : Tasks, start : Nat, written : BOOLEAN]
    /\ Null \notin [pid : Pids, start : Nat \cup {Null}]
    /\ Null \notin Nat

VARIABLES
    main,       \* .llmwiki/lock
    reclaim,    \* .llmwiki/lock.reclaim
    alive,      \* alive[p]: PID p names a running process
    start,      \* start[p]: start time of the current life of p
    pc,         \* pc[t]: next file-system call of task t
    attempt,    \* attempt[t]: the loop counter of acquireLock
    got,        \* got[t]: owner record read last, or Null
    won,        \* won[t]: result of reclaimStaleLock, kept over its finally
    \* History, read by no action:
    deadRead,   \* deadRead[t]: the record in got[t] was a dead owner's when read
    alone,      \* alone[t]: nobody else was active since t's call began
    raced       \* a reclaimer has acted on one of the two unsound verdicts

files == <<main, reclaim>>
procs == <<alive, start>>
local == <<pc, attempt, got, won>>
vars  == <<main, reclaim, alive, start, pc, attempt, got, won,
           deadRead, alone, raced>>

-----------------------------------------------------------------------------
(* Leaves and owner records. *)

Leaf == [by : Tasks, start : Nat, written : BOOLEAN]
File == Leaf \cup {Null}

\* LockOwner: startTime is optional.
LockOwner == [pid : Pids, start : Nat \cup {Null}]

\* Fault: no second attempt after the stale reclaim leaf was cleaned up.
FaultSingleAttempt == 1

MaxAcquireAttempts == 2


\* What open(path, "wx") leaves at the path: an EMPTY file of this task's life.
EmptyLeaf(t) == [by |-> t, start |-> start[PidOf[t]], written |-> FALSE]

\* serializeOwner: the start time is omitted when ps cannot tell it.
serializeOwner(leaf) ==
    [pid   |-> PidOf[leaf.by],
     start |-> IF PsAvailable THEN leaf.start ELSE Null]

\* readLockOwner and parseOwner: absent or empty reads as no owner.
readLockOwner(file) ==
    IF file = Null THEN Null
    ELSE IF file.written THEN serializeOwner(file) ELSE Null

\* Fault: liveness by PID alone, as before the start time was recorded.
FaultPidOnlyStale(owner) == ~alive[owner.pid]

\* isOwnerStale: the PID is dead, or it names a later process.
isOwnerStale(owner) ==
    \/ ~alive[owner.pid]
    \/ owner.start # Null /\ owner.start # start[owner.pid]

\* isLockStale: no readable owner counts as stale.
isLockStale(owner) == owner = Null \/ isOwnerStale(owner)

\* The leaf was made by a process that still runs.
LiveLeaf(file) ==
    /\ file # Null
    /\ alive[PidOf[file.by]]
    /\ file.start = start[PidOf[file.by]]

\* The path holds the record of an owner that is dead.
DeadRecord(file) == file # Null /\ file.written /\ ~LiveLeaf(file)

-----------------------------------------------------------------------------
(* Control points of the code, grouped. *)

Acquiring == {"create", "write", "read", "judge", "rcreate", "rwrite",
              "rread", "rjudge", "runlink", "vread", "vjudge", "unlinkMain",
              "recreate", "rewrite", "rrelease", "wait"}
Releasing == {"relread", "relunlink"}

\* t has created .llmwiki/lock.reclaim and not yet removed it.
InReclaim(t) ==
    pc[t] \in {"rwrite", "vread", "vjudge", "unlinkMain", "recreate",
               "rewrite", "rrelease"}

\* t has created .llmwiki/lock and not yet given it up.
Owns(t) ==
    \/ pc[t] \in {"write", "rewrite", "held", "relread", "relunlink"}
    \/ pc[t] = "rrelease" /\ won[t]

Init ==
    /\ main = Null /\ reclaim = Null
    /\ alive = [p \in Pids |-> TRUE]
    /\ start = [p \in Pids |-> 1]
    /\ pc = [t \in Tasks |-> "idle"]
    /\ attempt = [t \in Tasks |-> 0]
    /\ got = [t \in Tasks |-> Null]
    /\ won = [t \in Tasks |-> FALSE]
    /\ deadRead = [t \in Tasks |-> FALSE]
    /\ alone = [t \in Tasks |-> FALSE]
    /\ raced = FALSE

Goto(t, l) == pc' = [pc EXCEPT ![t] = l]

\* acquireLock returns false: to the caller of the fail-fast form, or into the
\* poll loop of acquireLockBlocking.
ReturnFalse(t) == IF t \in Blocking THEN "wait" ELSE "busy"

\* Fault: the loop runs once too often.
FaultExtraAttempt(t) ==
    IF attempt[t] <= MaxAcquireAttempts
    THEN Goto(t, "create") /\ attempt' = [attempt EXCEPT ![t] = @ + 1]
    ELSE Goto(t, ReturnFalse(t)) /\ attempt' = [attempt EXCEPT ![t] = 0]

\* The end of an attempt that did not get the lock.
NextAttempt(t) ==
    IF attempt[t] < MaxAcquireAttempts
    THEN Goto(t, "create") /\ attempt' = [attempt EXCEPT ![t] = @ + 1]
    ELSE Goto(t, ReturnFalse(t)) /\ attempt' = [attempt EXCEPT ![t] = 0]

\* The entry of acquireLock.
BeginCall(t) ==
    /\ Goto(t, "create")
    /\ attempt' = [attempt EXCEPT ![t] = 1]
    /\ alone' = [u \in Tasks |->
                    u = t /\ \A v \in Tasks \ {t} : pc[v] = "idle"]
    /\ UNCHANGED <<files, procs, got, won, deadRead, raced>>

-----------------------------------------------------------------------------
(* acquireLock: the outer loop. *)

StartAcquire(t) ==
    /\ pc[t] = "idle" /\ alive[PidOf[t]]
    /\ BeginCall(t)

\* tryCreateLock, first half: open(lockPath, "wx").
TryCreate(t) ==
    /\ pc[t] = "create"
    /\ IF main = Null
       THEN main' = EmptyLeaf(t) /\ Goto(t, "write")
       ELSE UNCHANGED main /\ Goto(t, "read")
    /\ UNCHANGED <<reclaim, procs, attempt, got, won, deadRead, alone, raced>>

\* The bytes go to the inode that was opened: they show at the path only while
\* the path still names that inode.
Fill(file, t) ==
    IF file # Null /\ file.by = t THEN [file EXCEPT !.written = TRUE] ELSE file

\* tryCreateLock, second half: fd.writeFile(ownerRecord); the lock is held.
WriteOwner(t) ==
    /\ pc[t] = "write"
    /\ main' = Fill(main, t)
    /\ Goto(t, "held")
    /\ attempt' = [attempt EXCEPT ![t] = 0]
    /\ UNCHANGED <<reclaim, procs, got, won, deadRead, alone, raced>>

\* readLockOwner: the leaf is read now and judged after the handle is closed.
ReadOwner(t, file, from, to) ==
    /\ pc[t] = from
    /\ got' = [got EXCEPT ![t] = readLockOwner(file)]
    /\ deadRead' = [deadRead EXCEPT ![t] = DeadRecord(file)]
    /\ Goto(t, to)
    /\ UNCHANGED <<files, procs, attempt, won, alone, raced>>

\* The record read is a local of isLockStale, gone once it is judged.
Forget(t) ==
    /\ got' = [got EXCEPT ![t] = Null]
    /\ deadRead' = [deadRead EXCEPT ![t] = FALSE]

ReadMain(t) == ReadOwner(t, main, "read", "judge")

\* Fault: a stale leaf is unlinked without taking the reclaim lock.
FaultUnserializedReclaim(t) ==
    /\ pc[t] = "judge"
    /\ IF isLockStale(got[t])
       THEN Goto(t, "unlinkMain") /\ UNCHANGED attempt
       ELSE Goto(t, ReturnFalse(t)) /\ attempt' = [attempt EXCEPT ![t] = 0]
    /\ Forget(t)
    /\ UNCHANGED <<files, procs, won, alone, raced>>

\* A live owner ends the call; a stale one is reclaimed.
JudgeMain(t) ==
    /\ pc[t] = "judge"
    /\ IF isLockStale(got[t])
       THEN Goto(t, "rcreate") /\ UNCHANGED attempt
       ELSE Goto(t, ReturnFalse(t)) /\ attempt' = [attempt EXCEPT ![t] = 0]
    /\ Forget(t)
    /\ UNCHANGED <<files, procs, won, alone, raced>>

-----------------------------------------------------------------------------
(* acquireReclaimLock. *)

TryCreateReclaim(t) ==
    /\ pc[t] = "rcreate"
    /\ IF reclaim = Null
       THEN reclaim' = EmptyLeaf(t) /\ Goto(t, "rwrite")
       ELSE UNCHANGED reclaim /\ Goto(t, "rread")
    /\ UNCHANGED <<main, procs, attempt, got, won, deadRead, alone, raced>>

WriteReclaimOwner(t) ==
    /\ pc[t] = "rwrite"
    /\ reclaim' = Fill(reclaim, t)
    /\ Goto(t, "vread")
    /\ UNCHANGED <<main, procs, attempt, got, won, deadRead, alone, raced>>

ReadReclaim(t) == ReadOwner(t, reclaim, "rread", "rjudge")

JudgeReclaim(t) ==
    /\ pc[t] = "rjudge"
    /\ IF isLockStale(got[t])
       THEN Goto(t, "runlink") /\ UNCHANGED attempt
       ELSE NextAttempt(t)
    /\ Forget(t)
    /\ UNCHANGED <<files, procs, won, alone, raced>>

\* The stale reclaim leaf is removed by path, whatever the path names by now;
\* the attempt ends without the reclaim lock.
UnlinkStaleReclaim(t) ==
    /\ pc[t] = "runlink"
    /\ reclaim' = Null
    /\ raced' = (raced \/ LiveLeaf(reclaim))
    /\ NextAttempt(t)
    /\ UNCHANGED <<main, procs, got, won, deadRead, alone>>

-----------------------------------------------------------------------------
(* reclaimStaleLock, under the reclaim lock. *)

ReverifyRead(t) == ReadOwner(t, main, "vread", "vjudge")

\* Fault: the early return leaves the reclaim leaf behind (no finally).
FaultNoFinally(t) ==
    /\ pc[t] = "vjudge"
    /\ IF isLockStale(got[t])
       THEN /\ Goto(t, "unlinkMain")
            /\ raced' = (raced \/ ~deadRead[t])
            /\ UNCHANGED attempt
       ELSE NextAttempt(t) /\ UNCHANGED raced
    /\ Forget(t)
    /\ UNCHANGED <<files, procs, won, alone>>

\* A verdict is sound when the record was a dead owner's at the time of the
\* read; an absent or empty leaf, or an owner that died since, gives the same
\* verdict without that ground.
ReverifyJudge(t) ==
    /\ pc[t] = "vjudge"
    /\ IF isLockStale(got[t])
       THEN Goto(t, "unlinkMain") /\ raced' = (raced \/ ~deadRead[t])
       ELSE Goto(t, "rrelease") /\ UNCHANGED raced
    /\ won' = [won EXCEPT ![t] = FALSE]
    /\ Forget(t)
    /\ UNCHANGED <<files, procs, attempt, alone>>

UnlinkMain(t) ==
    /\ pc[t] = "unlinkMain"
    /\ main' = Null
    /\ Goto(t, "recreate")
    /\ UNCHANGED <<reclaim, procs, attempt, got, won, deadRead, alone, raced>>

Recreate(t) ==
    /\ pc[t] = "recreate"
    /\ IF main = Null
       THEN main' = EmptyLeaf(t) /\ Goto(t, "rewrite")
       ELSE UNCHANGED main /\ Goto(t, "rrelease")
    /\ won' = [won EXCEPT ![t] = FALSE]
    /\ UNCHANGED <<reclaim, procs, attempt, got, deadRead, alone, raced>>

RewriteOwner(t) ==
    /\ pc[t] = "rewrite"
    /\ main' = Fill(main, t)
    /\ won' = [won EXCEPT ![t] = TRUE]
    /\ Goto(t, "rrelease")
    /\ UNCHANGED <<reclaim, procs, attempt, got, deadRead, alone, raced>>

\* The finally block: the reclaim leaf is removed by path.
ReleaseReclaim(t) ==
    /\ pc[t] = "rrelease"
    /\ reclaim' = Null
    /\ IF won[t]
       THEN Goto(t, "held") /\ attempt' = [attempt EXCEPT ![t] = 0]
       ELSE NextAttempt(t)
    /\ won' = [won EXCEPT ![t] = FALSE]
    /\ UNCHANGED <<main, procs, got, deadRead, alone, raced>>

-----------------------------------------------------------------------------
(* The caller. *)

\* acquireLockBlocking: poll again, or throw LockBusyError at the deadline.
Poll(t) == pc[t] = "wait" /\ BeginCall(t)

Return(t, l) ==
    /\ pc[t] = l
    /\ Goto(t, "idle")
    /\ UNCHANGED <<files, procs, attempt, got, won, deadRead, alone, raced>>

Deadline(t) == Return(t, "wait")
GiveUp(t)   == Return(t, "busy")

\* The caller's finally block enters releaseLock.
StartRelease(t) ==
    /\ pc[t] = "held"
    /\ Goto(t, "relread")
    /\ UNCHANGED <<files, procs, attempt, got, won, deadRead, alone, raced>>

\* releaseLock: a leaf with another PID, or with none, is left alone.
ReleaseRead(t) ==
    /\ pc[t] = "relread"
    /\ LET owner == readLockOwner(main)
       IN  Goto(t, IF owner # Null /\ owner.pid = PidOf[t]
                   THEN "relunlink" ELSE "idle")
    /\ UNCHANGED <<files, procs, attempt, got, won, deadRead, alone, raced>>

ReleaseUnlink(t) ==
    /\ pc[t] = "relunlink"
    /\ main' = Null
    /\ Goto(t, "idle")
    /\ UNCHANGED <<reclaim, procs, attempt, got, won, deadRead, alone, raced>>

-----------------------------------------------------------------------------
(* Processes. *)

\* The locals f of the tasks of process p, back to their initial value.
Lost(p, f, init) == [t \in Tasks |-> IF PidOf[t] = p THEN init ELSE f[t]]

\* The process dies at any step: its files stay, its tasks are gone.
Crash(p) ==
    /\ alive[p] /\ start[p] < MaxStarts
    /\ alive' = [alive EXCEPT ![p] = FALSE]
    /\ pc' = Lost(p, pc, "idle")
    /\ attempt' = Lost(p, attempt, 0)
    /\ got' = Lost(p, got, Null)
    /\ won' = Lost(p, won, FALSE)
    /\ deadRead' = Lost(p, deadRead, FALSE)
    /\ UNCHANGED <<files, start, alone, raced>>

\* A later process gets the same PID, with a later start time.
Reuse(p) ==
    /\ ~alive[p]
    /\ alive' = [alive EXCEPT ![p] = TRUE]
    /\ start' = [start EXCEPT ![p] = @ + 1]
    /\ UNCHANGED <<files, local, deadRead, alone, raced>>

\* The steps a running task takes by itself.
Step(t) ==
    \/ TryCreate(t) \/ WriteOwner(t) \/ ReadMain(t) \/ JudgeMain(t)
    \/ TryCreateReclaim(t) \/ WriteReclaimOwner(t) \/ ReadReclaim(t)
    \/ JudgeReclaim(t) \/ UnlinkStaleReclaim(t)
    \/ ReverifyRead(t) \/ ReverifyJudge(t) \/ UnlinkMain(t) \/ Recreate(t)
    \/ RewriteOwner(t) \/ ReleaseReclaim(t)
    \/ Poll(t) \/ StartRelease(t) \/ ReleaseRead(t) \/ ReleaseUnlink(t)

Next ==
    \/ \E t \in Tasks : StartAcquire(t) \/ Step(t) \/ Deadline(t) \/ GiveUp(t)
    \/ \E p \in Pids : Crash(p) \/ Reuse(p)

Spec == Init /\ [][Next]_vars

\* A live process is scheduled and its file-system calls return; a holder
\* releases in its finally block and a poll loop polls again.  Nobody has to
\* start a call, time out, crash or be restarted.
FairSpec == Spec /\ \A t \in Tasks : WF_vars(Step(t))

-----------------------------------------------------------------------------
(* Properties. *)

Labels == Acquiring \cup Releasing \cup {"idle", "held", "busy"}

\* Every variable keeps its type; a dead process runs no task.
TypeOK ==
    /\ main \in File /\ reclaim \in File
    /\ alive \in [Pids -> BOOLEAN]
    /\ start \in [Pids -> Nat]
    /\ pc \in [Tasks -> Labels]
    /\ attempt \in [Tasks -> 0..MaxAcquireAttempts]
    /\ got \in [Tasks -> LockOwner \cup {Null}]
    /\ won \in [Tasks -> BOOLEAN]
    /\ deadRead \in [Tasks -> BOOLEAN]
    /\ alone \in [Tasks -> BOOLEAN]
    /\ raced \in BOOLEAN
    /\ \A t \in Tasks : ~alive[PidOf[t]] => pc[t] = "idle"

\* What the header of lock.ts promises: no two callers hold the project lock.
\* The code does not keep it (see the README): a leaf that is absent or empty
\* reads as stale, and the reclaimer then unlinks by path.
MutualExclusion ==
    \A t, u \in Tasks : pc[t] = "held" /\ pc[u] = "held" => t = u

\* What reclaimStaleLock relies on ("we're the only reclaimer"): no two callers
\* are between creating and removing the reclaim leaf.
ReclaimExclusive ==
    \A t, u \in Tasks : InReclaim(t) /\ InReclaim(u) => t = u

\* The lock excludes in every behaviour in which each reclaimer removed the
\* main leaf on the record of an owner that was dead when it was read, and
\* nobody removed a live reclaim leaf - through crashes at any step, PID reuse
\* and any number of tasks per process.
MutexUnlessRaced == raced \/ (MutualExclusion /\ ReclaimExclusive)

\* A live process leaves no leaf behind: whatever path through acquireLock,
\* reclaimStaleLock's finally and releaseLock a task took, a leaf of a live
\* process belongs to a task that still uses it.  Only crash debris is stale.
NoLiveDebris ==
    /\ LiveLeaf(main) => Owns(main.by)
    /\ LiveLeaf(reclaim) => InReclaim(reclaim.by)

\* MAX_ACQUIRE_ATTEMPTS is enough: a caller that ran by itself is never told
\* that the project is busy, even when a crash left both files behind.
SoleCallerAcquires ==
    PsAvailable => \A t \in Tasks : pc[t] \in {"busy", "wait"} => ~alone[t]

StaleMain == main # Null /\ ~LiveLeaf(main)

\* Crash debris does not wedge the project: while somebody polls for the lock, a
\* leaf of a dead process is removed, PID reuse notwithstanding.
StaleLockReclaimed ==
    (StaleMain /\ \E t \in Blocking : pc[t] \in Acquiring)
        ~> (~StaleMain \/ \A t \in Blocking : pc[t] \notin Acquiring)
=============================================================================
