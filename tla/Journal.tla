------------------------------ MODULE Journal ------------------------------
(***************************************************************************)
(* The page store's intent journal and the mutation executor:              *)
(* src/trust/journal.ts, journal-recovery.ts, journal-classify.ts,         *)
(* executor.ts and page-apply.ts, with the callers that open a batch of    *)
(* their own (artifacts/apply.ts, profile/templates/update-apply.ts) and   *)
(* those that write pages without one (import/run.ts, query-save.ts).      *)
(*                                                                         *)
(* One session runs at a time: all of this happens under the project lock  *)
(* (module ProjectLock).  A session is one command.  It may throw or die   *)
(* between any two file operations; atomicWrite's rename makes each file operation *)
(* itself atomic.                                                          *)
(***************************************************************************)
EXTENDS Naturals, Sequences

CONSTANTS
    Targets,        \* page paths, confined under the root
    Bodies,         \* page contents
    Absent,         \* content of a page that does not exist
    NotRecorded,    \* no journal entry for this target
    Ids,            \* batch ids
    Plans,          \* approved plans: sequences of mutations
    DirectWrites    \* <<target, body>> pairs the unjournalled writers write

Content  == Bodies \cup {Absent}
Mutation == [operation : {"create", "update"}, target : Targets, body : Bodies]

ASSUME JournalAssumption ==
    /\ Plans \subseteq Seq(Mutation) \ {<<>>}
    /\ DirectWrites \subseteq Targets \X Bodies
    /\ NotRecorded \notin Content
    /\ Absent \notin Bodies

\* artifact and update write exactly two files, each whole.
PairPlans ==
    {p \in Plans : /\ Len(p) = 2 /\ p[1].target # p[2].target
                   /\ \A j \in 1..2 : p[j].operation = "update"}

\* s after the first n mutations of p.
ApplyFirst(s, p, n) ==
    [t \in Targets |->
        LET W == {j \in 1..n : p[j].target = t}
        IN  IF W = {} THEN s[t]
            ELSE p[CHOOSE j \in W : \A k \in W : k <= j].body]

VARIABLES
    pageFile,   \* pageFile[t]: the bytes at t
    status,     \* status[i]: "none", or what .llmwiki/journal/<i>.json holds
    pre,        \* pre[i][t]: the pre-state batch i recorded for t
    phase,      \* what the session does next
    kind,       \* which command the session runs
    scan,       \* listed journal files still to be looked at
    cur,        \* the batch being reverted or applied
    left,       \* targets of cur still to be reverted
    plan,       \* the approved mutations of the batch
    saved,      \* how many of them have their pre-state recorded
    wrote,      \* how many of them are written
    \* History, read by no action:
    acked,      \* acked[t]: the content last reported as written
    exposed     \* targets written directly under a pending batch's entry

journal == <<status, pre>>
session == <<phase, kind, scan, cur, left, plan, saved, wrote>>
vars    == <<pageFile, status, pre, phase, kind, scan, cur, left, plan, saved, wrote,
             acked, exposed>>

\* "unsafe" is a file loadBatch rejects, or one that names a target outside the
\* root; "committed" is one an older build left behind.
Statuses == {"none", "pending", "committed", "unsafe"}

Blank == [t \in Targets |-> NotRecorded]

Recorded(i) == {t \in Targets : pre[i][t] # NotRecorded}

\* The entries a replay would act on.
Covering(t) == {i \in Ids : status[i] = "pending" /\ pre[i][t] # NotRecorded}

\* What a reader finds at t once the pending batch is reverted.
Recovered(t) ==
    IF Covering(t) = {} THEN pageFile[t]
    ELSE pre[CHOOSE i \in Covering(t) : TRUE][t]

\* Files an older build, or somebody else, may have left in the directory.
Init ==
    /\ pageFile \in [Targets -> Content]
    /\ status \in [Ids -> {"none", "committed", "unsafe"}]
    /\ pre = [i \in Ids |-> Blank]
    /\ phase = "idle" /\ kind = "none"
    /\ scan = {} /\ left = {}
    /\ cur \in Ids
    /\ plan = <<>> /\ saved = 0 /\ wrote = 0
    /\ acked = pageFile /\ exposed = {}

-----------------------------------------------------------------------------
(* Reading the journal directory: listBatchIds and readdir. *)

\* Enter the scan that executes before anything else, for command k.
ListJournal(k, p) ==
    /\ phase' = "scan" /\ kind' = k
    /\ scan' = {i \in Ids : status[i] # "none"}
    /\ plan' = p /\ saved' = 0 /\ wrote' = 0
    /\ UNCHANGED <<pageFile, journal, cur, left, acked, exposed>>

\* Fault: the executor does not replay before it opens its own batch.
FaultNoReplay(k, p) ==
    /\ phase = "idle" /\ phase' = "open" /\ kind' = k /\ scan' = {}
    /\ plan' = p /\ saved' = 0 /\ wrote' = 0
    /\ UNCHANGED <<pageFile, journal, cur, left, acked, exposed>>

\* applyApprovedMutationsLocked: a page batch (lifecycle's single page among
\* them), or an artifact's bytes and manifest.
StartApply(k, p) == phase = "idle" /\ ListJournal(k, p)

\* The strict commands: recover, compile and remote template update.
StartStrict(k, p) == phase = "idle" /\ ListJournal(k, p)

\* compile: every batch of the pipeline goes through the executor, which scans
\* again, now best-effort.
CompileBatch(p) == phase = "compile" /\ ListJournal("compileBatch", p)

\* These record the pre-state of every target before the first write.
Grouped == kind \in {"artifact", "update"}

Strict == {"recover", "compile", "update", "updateError"}

Leave(i) ==
    /\ scan' = scan \ {i}
    /\ UNCHANGED <<pageFile, phase, kind, cur, left, plan, saved, wrote, acked, exposed>>

RemoveBatch(i) ==
    /\ status' = [status EXCEPT ![i] = "none"]
    /\ pre' = [pre EXCEPT ![i] = Blank]

End == phase' = "idle" /\ kind' = "none" /\ scan' = {} /\ left' = {}
       /\ plan' = <<>> /\ saved' = 0 /\ wrote' = 0

\* A committed file: skipped by replayPending, pruned by recoverOneBatch.
ScanCommitted(i) ==
    /\ phase = "scan" /\ i \in scan /\ status[i] = "committed"
    /\ IF kind \in Strict THEN RemoveBatch(i) ELSE UNCHANGED journal
    /\ Leave(i)

\* Best-effort replay moves an unsafe file to quarantine/ and goes on.
QuarantineBatch(i) ==
    /\ phase = "scan" /\ i \in scan /\ status[i] = "unsafe" /\ kind \notin Strict
    /\ RemoveBatch(i)
    /\ Leave(i)

\* Strict recovery stops at it, and so does the command.
RefuseUnsafe(i) ==
    /\ phase = "scan" /\ i \in scan /\ status[i] = "unsafe" /\ kind \in Strict
    /\ End
    /\ UNCHANGED <<pageFile, journal, cur, acked, exposed>>

\* Fault: targets without an entry are reverted too.
FaultRevertAll(i) ==
    /\ phase = "scan" /\ i \in scan /\ status[i] = "pending"
    /\ phase' = "revert" /\ cur' = i /\ left' = Targets
    /\ UNCHANGED <<pageFile, journal, kind, scan, plan, saved, wrote, acked, exposed>>

\* resolvePending / revertPendingBatch, one entry at a time.
RevertBatch(i) ==
    /\ phase = "scan" /\ i \in scan /\ status[i] = "pending"
    /\ phase' = "revert" /\ cur' = i /\ left' = Recorded(i)
    /\ UNCHANGED <<pageFile, journal, kind, scan, plan, saved, wrote, acked, exposed>>

\* revertEntry: restore the bytes, or delete a page that was absent.
RevertEntry(t) ==
    /\ phase = "revert" /\ t \in left
    /\ pageFile' = [pageFile EXCEPT ![t] = pre[cur][t]]
    /\ left' = left \ {t}
    /\ UNCHANGED <<journal, phase, kind, scan, cur, plan, saved, wrote, acked, exposed>>

\* Fault: the journal is removed as soon as one entry was put back.
FaultResolveEarly ==
    /\ phase = "revert" /\ left # Recorded(cur)
    /\ RemoveBatch(cur)
    /\ phase' = "scan" /\ scan' = scan \ {cur} /\ left' = {}
    /\ UNCHANGED <<pageFile, kind, cur, plan, saved, wrote, acked, exposed>>

\* The journal file is deleted only after every entry.
ResolvePending ==
    /\ phase = "revert" /\ left = {}
    /\ RemoveBatch(cur)
    /\ phase' = "scan" /\ scan' = scan \ {cur}
    /\ UNCHANGED <<pageFile, kind, cur, left, plan, saved, wrote, acked, exposed>>

\* The directory is clean; the command goes on.
ScanDone ==
    /\ phase = "scan" /\ scan = {}
    /\ IF kind \in {"recover", "updateError"} THEN End
       ELSE /\ phase' = IF kind = "compile" THEN "compile" ELSE "open"
            /\ UNCHANGED <<kind, scan, left, plan, saved, wrote>>
    /\ UNCHANGED <<pageFile, journal, cur, acked, exposed>>

CompileDone ==
    /\ phase = "compile"
    /\ End
    /\ UNCHANGED <<pageFile, journal, cur, acked, exposed>>

-----------------------------------------------------------------------------
(* Applying a plan. *)

\* openBatch: a pending file without entries, under an id nobody uses.
OpenBatch(i) ==
    /\ phase = "open" /\ status[i] = "none"
    /\ status' = [status EXCEPT ![i] = "pending"]
    /\ cur' = i
    /\ phase' = IF Grouped THEN "record" ELSE "check"
    /\ UNCHANGED <<pageFile, pre, kind, scan, left, plan, saved, wrote, acked, exposed>>

\* applyPageMutationLocked, the checks before the write: a page that exists is
\* not created again.  The size and frontmatter floor is a SessionFails.
CheckMutation ==
    /\ phase = "check"
    /\ LET m == plan[wrote + 1]
       IN  m.operation = "create" => pageFile[m.target] = Absent
    /\ phase' = "record"
    /\ UNCHANGED <<pageFile, journal, kind, scan, cur, left, plan, saved, wrote, acked,
                   exposed>>

\* Fault: a later mutation of the same target records its state again.
FaultRecordAgain ==
    /\ phase = "record"
    /\ LET t == plan[saved + 1].target
       IN  pre' = [pre EXCEPT ![cur][t] = pageFile[t]]
    /\ saved' = saved + 1
    /\ phase' = IF Grouped /\ saved + 1 < Len(plan) THEN "record" ELSE "write"
    /\ UNCHANGED <<pageFile, status, kind, scan, cur, left, plan, wrote, acked,
                   exposed>>

\* recordPreState: the first record of a target in the batch counts.  The page
\* path writes after each record; artifact and update record every target first.
RecordPreState ==
    /\ phase = "record"
    /\ LET t == plan[saved + 1].target
       IN  pre' = IF pre[cur][t] = NotRecorded
                  THEN [pre EXCEPT ![cur][t] = pageFile[t]] ELSE pre
    /\ saved' = saved + 1
    /\ phase' = IF Grouped /\ saved + 1 < Len(plan) THEN "record" ELSE "write"
    /\ UNCHANGED <<pageFile, status, kind, scan, cur, left, plan, wrote, acked,
                   exposed>>

\* writeOne: atomicWrite of the body.
WriteOne ==
    /\ phase = "write"
    /\ LET m == plan[wrote + 1]
       IN  pageFile' = [pageFile EXCEPT ![m.target] = m.body]
    /\ wrote' = wrote + 1
    /\ phase' = IF wrote + 1 = Len(plan) THEN "commit"
             ELSE IF Grouped THEN "write" ELSE "check"
    /\ UNCHANGED <<journal, kind, scan, cur, left, plan, saved, acked, exposed>>

\* commitBatch: the journal file is unlinked; the call returns.
CommitBatch ==
    /\ phase = "commit"
    /\ RemoveBatch(cur)
    /\ acked' = ApplyFirst(acked, plan, wrote)
    /\ exposed' = exposed \ Recorded(cur)
    /\ IF kind = "compileBatch"
       THEN /\ phase' = "compile" /\ kind' = "compile"
            /\ plan' = <<>> /\ saved' = 0 /\ wrote' = 0
            /\ UNCHANGED <<scan, left>>
       ELSE End
    /\ UNCHANGED <<pageFile, cur>>

-----------------------------------------------------------------------------
(* Failure. *)

\* The process dies, or a call throws and the command's finally releases the
\* lock.  Whatever reached the disk stays there.
SessionFails ==
    /\ phase # "idle"
    /\ End
    /\ UNCHANGED <<pageFile, journal, cur, acked, exposed>>

\* writeUpdateTransaction catches the error and recovers at once.
UpdateError ==
    /\ kind = "update" /\ phase \in {"record", "write", "commit"}
    /\ ListJournal("updateError", <<>>)

\* writeAll of a trusted import and saveQueryPageLocked: one atomicWrite under
\* the project lock, without a journal and without a replay before it.
DirectWrite(w) ==
    /\ phase = "idle"
    /\ pageFile' = [pageFile EXCEPT ![w[1]] = w[2]]
    /\ acked' = [acked EXCEPT ![w[1]] = w[2]]
    /\ exposed' = IF Covering(w[1]) = {} THEN exposed \ {w[1]}
                  ELSE exposed \cup {w[1]}
    /\ UNCHANGED <<journal, session>>

Next ==
    \/ \E p \in Plans : StartApply("pages", p) \/ CompileBatch(p)
    \/ \E p \in PairPlans : StartApply("artifact", p) \/ StartStrict("update", p)
    \/ \E k \in {"recover", "compile"} : StartStrict(k, <<>>)
    \/ \E i \in Ids :
          \/ ScanCommitted(i) \/ QuarantineBatch(i) \/ RefuseUnsafe(i)
          \/ RevertBatch(i) \/ OpenBatch(i)
    \/ \E t \in Targets : RevertEntry(t)
    \/ ResolvePending \/ ScanDone \/ CompileDone
    \/ CheckMutation \/ RecordPreState \/ WriteOne \/ CommitBatch
    \/ SessionFails \/ UpdateError
    \/ \E w \in DirectWrites : DirectWrite(w)

Spec == Init /\ [][Next]_vars

-----------------------------------------------------------------------------
(* Properties. *)

\* Every variable keeps its type.
TypeOK ==
    /\ pageFile \in [Targets -> Content] /\ acked \in [Targets -> Content]
    /\ status \in [Ids -> Statuses]
    /\ pre \in [Ids -> [Targets -> Content \cup {NotRecorded}]]
    /\ phase \in {"idle", "scan", "revert", "compile", "open", "check", "record",
               "write", "commit"}
    /\ kind \in Strict \cup {"none", "pages", "artifact", "compileBatch"}
    /\ scan \subseteq Ids /\ left \subseteq Targets /\ exposed \subseteq Targets
    /\ cur \in Ids
    /\ plan \in Plans \cup {<<>>}
    /\ saved \in 0..Len(plan) /\ wrote \in 0..Len(plan)

\* There is never more than one pending batch: every openBatch comes after a
\* scan of the whole directory under the same lock.  Without this the revert of
\* two batches that touched one page would depend on readdir's order.
OnePending ==
    \A i, j \in Ids : status[i] = "pending" /\ status[j] = "pending" => i = j

\* Atomic and durable: whatever step a command failed at, and however often the
\* recovery itself failed, reverting the pending batch yields exactly what was
\* last reported as written - all of every batch that returned, nothing of one
\* that did not.  Pages written directly under a pending entry are excepted.
AckedSurvives == \A t \in Targets \ exposed : Recovered(t) = acked[t]

\* The store a reader sees after recovery.
view == [t \in Targets |-> Recovered(t)]

Store == INSTANCE AtomicStore WITH store <- view

\* The detailed store implements the abstract one: what recovery yields changes
\* only by one whole approved plan or by one direct write.
ImplementsAtomicStore == Store!Spec
=============================================================================
