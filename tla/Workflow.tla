------------------------------ MODULE Workflow ------------------------------
(***************************************************************************)
(* Workflow runs: src/workflows.  A run is one signed JSON record; every   *)
(* command reads it, checks and rewrites it under the project lock, so a   *)
(* command is one step.  The exception is submitStageOutput, which writes  *)
(* an intent, applies the output outside the record and then records it:   *)
(* it may die, or the profile may be edited, between any two of the three. *)
(***************************************************************************)
EXTENDS Integers, Sequences, FiniteSets

CONSTANTS
    RunIds,         \* the ids a run may be given
    Owners,         \* the identities commands run under
    StageIds,
    Defs,           \* Defs[d]: the stages of the workflow whose digest is d
    NoDef,          \* the profile does not declare the workflow
    Nil,            \* null, or a field that is absent
    InputSizes,     \* the weights inputs may have
    MaxRunEvents,   \* MAX_WORKFLOW_RUN_EVENTS
    MaxBytes,       \* MAX_WORKFLOW_RUN_BYTES, in the units of Bytes
    MaxActive,      \* MAX_ACTIVE_WORKFLOW_RUNS
    MaxTotal,       \* MAX_TOTAL_WORKFLOW_RUNS
    MaxTroubles     \* bound: crashes, I/O errors, lost keys, profile edits

DefDigests == DOMAIN Defs
RunStatus == {"pending", "running", "completed", "cancelled", "failed"}
StageStatus == {"pending", "running", "awaiting-gate", "completed", "failed"}
Gates == (UNION {{Defs[d][i].gate : i \in DOMAIN Defs[d]} : d \in DefDigests}) \ {Nil}

\* A stage of a definition: its id, gate, whether it writes an output, and the ids it
\* had in earlier definitions.
Stages == [id : StageIds, gate : Gates \cup {Nil}, writes : BOOLEAN, prev : SUBSET StageIds]

ASSUME WorkflowAssumption ==
    /\ \A d \in DefDigests : Defs[d] \in Seq(Stages) /\ Defs[d] # <<>>
    /\ NoDef \notin DefDigests
    /\ Owners # {} /\ Nil \notin StageIds
    /\ MaxRunEvents \in Nat /\ MaxRunEvents >= 4
    /\ MaxBytes \in Nat /\ MaxBytes >= 2
    /\ MaxActive \in Nat /\ MaxTotal \in Nat /\ MaxTroubles \in Nat
    /\ InputSizes \subseteq Nat

VARIABLES
    profile,    \* the digest the active profile declares, or NoDef
    run,        \* run[r]: the record in runs/<r>.json, or Nil
    key,        \* .runkey: the key on disk (0: none), and how many were minted
    session,    \* what the submitting session does next
    troubles,
    \* History, read by no action:
    landed,     \* landed[r][s]: writes of s that landed in its current attempt
    vouched,    \* vouched[r]: gates earned, and not retried since
    lost        \* runs whose record does not know of a write that landed

workflowVars == <<profile, run, key, session, troubles, landed, vouched, lost>>
runHistory == <<landed, vouched, lost>>

Idle == [step |-> "idle"]

WorkflowRun ==
    [status : RunStatus, stage : StageIds \cup {Nil},
     log : SUBSET (StageIds \X StageStatus), gates : SUBSET Gates,
     outputs : SUBSET StageIds, pending : StageIds \cup {Nil},
     owner : Owners \cup {Nil}, digest : DefDigests, known : SUBSET StageIds,
     inputs : Nat, version : Nat, events : Seq(Nat \X Nat), sig : Nat]

\* Null is no record.
ASSUME RecordAssumption == Nil \notin WorkflowRun

-----------------------------------------------------------------------------
(* Definitions and gates.  A stage is [id, gate, writes, prev]. *)

IdsOf(d) == {Defs[d][i].id : i \in DOMAIN Defs[d]}

stageDefOf(d, s) == CHOOSE x \in {Defs[d][i] : i \in DOMAIN Defs[d]} : x.id = s

\* nextStageId: null after the last one.
nextStageId(d, s) ==
    LET i == CHOOSE i \in DOMAIN Defs[d] : Defs[d][i].id = s
    IN  IF i = Len(Defs[d]) THEN Nil ELSE Defs[d][i + 1].id

\* A gate is <<kind, id>>.
isTrustGate(g) == g # Nil /\ g[1] = "trust"

\* actorSatisfies.
actorSatisfies(g, kind) == \/ g[1] = "human" /\ kind = "human"
                           \/ g[1] = "agent" /\ kind \in {"human", "agent"}

\* mapStageId: the id itself, the stage it was renamed to, or null.
mapStageId(s, d) ==
    LET Renamed == {x \in {Defs[d][i] : i \in DOMAIN Defs[d]} : s \in x.prev}
    IN  IF s \in IdsOf(d) THEN s
        ELSE IF Renamed = {} THEN Nil ELSE (CHOOSE x \in Renamed : TRUE).id

-----------------------------------------------------------------------------
(* The record: its events, its size, and what makes it readable. *)

isTerminalStatus(s) == s \in {"completed", "cancelled", "failed"}

CanAppend(x) == Len(x.events) < MaxRunEvents

appendStamped(x) ==
    [x EXCEPT !.version = @ + 1,
              !.events = Append(@, <<x.version, x.version + 1>>)]

\* compactEvents: the genesis, a marker spanning the gap, the last MaxRunEvents - 3.
compactEvents(x) ==
    LET tail == SubSeq(x.events, Len(x.events) - (MaxRunEvents - 3) + 1, Len(x.events))
    IN  [x EXCEPT !.events =
            <<x.events[1], <<x.events[1][2], tail[1][1]>>>> \o tail]

appendTerminalEvent(x) ==
    appendStamped(IF CanAppend(x) THEN x ELSE compactEvents(x))

\* What the serialized record weighs.
Bytes(x) == Len(x.events) + x.inputs + Cardinality(x.outputs) + Cardinality(x.log)

\* serializeRunWithinCap throws otherwise.
Fits(x) == Bytes(x) <= MaxBytes

minimizeTerminalRun(x) ==
    appendTerminalEvent([x EXCEPT !.inputs = 0, !.outputs = {}])

\* terminalTombstone: the owner and the intent go too.
terminalTombstone(x) ==
    [x EXCEPT !.stage = Nil, !.log = {}, !.known = {}, !.gates = {},
              !.inputs = 0, !.outputs = {}, !.owner = Nil, !.pending = Nil,
              !.version = @ + 1,
              !.events = <<x.events[1], <<x.version, x.version + 1>>>>]

\* Fault: a terminal record is written as it is.
FaultFit(x) == x

fitTerminalRun(x) ==
    IF Fits(x) THEN x
    ELSE IF Fits(minimizeTerminalRun(x)) THEN minimizeTerminalRun(x)
    ELSE terminalTombstone(x)

hasMonotonicVersionChain(x) ==
    /\ x.events # <<>> /\ x.events[1][1] = 0
    /\ \A i \in DOMAIN x.events :
          /\ x.events[i][1] <= x.events[i][2]
          /\ i > 1 => x.events[i - 1][2] <= x.events[i][1]
    /\ x.version = x.events[Len(x.events)][2]

\* parseRun, past what cannot happen to a file only this program writes.
WellFormed(x) == Fits(x) /\ hasMonotonicVersionChain(x)

\* readRun: absent, unavailable or ok.
readRun(r) == IF run[r] = Nil THEN "absent"
              ELSE IF key.disk # 0 /\ run[r].sig = key.disk /\ WellFormed(run[r])
                   THEN "ok" ELSE "unavailable"

\* loadOrCreateRunKey: a missing key is replaced by a fresh one.
loadOrCreateRunKey ==
    IF key.disk # 0 THEN key ELSE [disk |-> key.minted + 1, minted |-> key.minted + 1]

writeRun(r, x) ==
    /\ Fits(x)
    /\ key' = loadOrCreateRunKey
    /\ run' = [run EXCEPT ![r] = [x EXCEPT !.sig = loadOrCreateRunKey.disk]]

writeTerminalRun(r, x) == writeRun(r, fitTerminalRun(x))

\* History: r, when y has no trace of an output of x that landed in another stage.
Forgotten(r, x, y) ==
    {q \in {r} : \E s \in (x.outputs \cup {x.pending}) \ {x.stage, Nil} :
                    landed[r][s] > 0 /\ s \notin y.outputs \cup {y.pending}}

-----------------------------------------------------------------------------

WorkflowInit ==
    /\ profile \in DefDigests
    /\ run = [r \in RunIds |-> Nil]
    /\ key = [disk |-> 0, minted |-> 0]
    /\ session = Idle /\ troubles = 0
    /\ landed = [r \in RunIds |-> [s \in StageIds |-> 0]]
    /\ vouched = [r \in RunIds |-> {}]
    /\ lost = {}

\* withRunLock: the run reads back and the caller owns it.
withRunLock(a, r) == /\ session = Idle /\ readRun(r) = "ok"
                     /\ run[r].owner \in {Nil, a}

\* assertRunQuota: what cannot be read counts as active.
assertRunQuota ==
    LET Listed == {r \in RunIds : readRun(r) # "absent"}
        Active == {r \in Listed : readRun(r) = "ok" => ~isTerminalStatus(run[r].status)}
    IN  Cardinality(Listed) < MaxTotal /\ Cardinality(Active) < MaxActive

\* mintFreshRunId retries while the id is taken.
mintFreshRunId(r) == readRun(r) = "absent"

buildPendingRun(a, n) ==
    [status |-> "pending", stage |-> Defs[profile][1].id,
     log |-> IdsOf(profile) \X {"pending"}, gates |-> {}, outputs |-> {},
     pending |-> Nil, owner |-> a, digest |-> profile, known |-> IdsOf(profile),
     inputs |-> n, version |-> 0, events |-> <<<<0, 0>>>>, sig |-> 0]

startWorkflow(a, r, n) ==
    /\ session = Idle /\ profile # NoDef
    /\ assertRunQuota /\ mintFreshRunId(r)
    /\ writeRun(r, buildPendingRun(a, n))
    /\ UNCHANGED <<profile, session, troubles, runHistory>>

-----------------------------------------------------------------------------
(* Advancing, approving, ending, resuming. *)

\* resolveCurrentStage: by id in the active profile; the digest is not compared.
resolveCurrentStage(r) == profile # NoDef /\ run[r].stage \in IdsOf(profile)

\* The stage record it returns.
Current(r) == stageDefOf(profile, run[r].stage)

setStageStatus(x, s, st) ==
    [x EXCEPT !.log = {<<e[1], IF e[1] = s THEN st ELSE e[2]>> : e \in @}]

\* Fault: the output is enough.
FaultSatisfied(x, stage) == ~stage.writes \/ stage.id \in x.outputs

stageSatisfied(x, stage) ==
    /\ stage.gate = Nil \/ stage.gate \in x.gates
    /\ ~stage.writes \/ stage.id \in x.outputs

Begun(st) == IF st = "pending" THEN "running" ELSE st

completeAndStep(a, r) ==
    /\ withRunLock(a, r) /\ ~isTerminalStatus(run[r].status)
    /\ resolveCurrentStage(r) /\ stageSatisfied(run[r], Current(r))
    /\ CanAppend(run[r])
    /\ LET s == run[r].stage
           n == nextStageId(profile, s)
           x == setStageStatus(appendStamped(run[r]), s, "completed")
       IN  writeRun(r, IF n = Nil
                       THEN [x EXCEPT !.stage = Nil, !.status = "completed"]
                       ELSE [setStageStatus(x, n, "running") EXCEPT
                                !.stage = n, !.status = Begun(@)])
    /\ UNCHANGED <<profile, session, troubles, runHistory>>

\* No event, no version: only the marker.  A stage without a log entry gets none.
parkAwaitingGate(a, r) ==
    /\ withRunLock(a, r) /\ ~isTerminalStatus(run[r].status)
    /\ resolveCurrentStage(r) /\ ~stageSatisfied(run[r], Current(r))
    /\ writeRun(r, [setStageStatus(run[r], run[r].stage, "awaiting-gate") EXCEPT
                       !.status = Begun(@)])
    /\ UNCHANGED <<profile, session, troubles, runHistory>>

\* vouchGate: of the current stage, never a trust gate, by a fitting actor.
vouchGate(g, kind) == g # Nil /\ ~isTrustGate(g) /\ actorSatisfies(g, kind)

\* approveGate; approving twice changes nothing.
approveGate(a, r, kind) ==
    /\ withRunLock(a, r) /\ ~isTerminalStatus(run[r].status)
    /\ resolveCurrentStage(r) /\ vouchGate(Current(r).gate, kind)
    /\ Current(r).gate \notin run[r].gates
    /\ CanAppend(run[r])
    /\ LET x == appendStamped(run[r])
           parked == <<run[r].stage, "awaiting-gate">> \in x.log
       IN  writeRun(r, [(IF parked THEN setStageStatus(x, run[r].stage, "running") ELSE x)
                           EXCEPT !.gates = @ \cup {Current(r).gate}])
    /\ vouched' = [vouched EXCEPT ![r] =
                      @ \cup {g \in {Current(r).gate} : actorSatisfies(g, kind)}]
    /\ UNCHANGED <<profile, session, troubles, landed, lost>>

cancelledRun(x) == [appendTerminalEvent(x) EXCEPT !.status = "cancelled", !.stage = Nil]

cancelWorkflow(a, r) ==
    /\ withRunLock(a, r) /\ ~isTerminalStatus(run[r].status)
    /\ writeTerminalRun(r, cancelledRun(run[r]))
    /\ UNCHANGED <<profile, session, troubles, runHistory>>

\* The current stage fails, and stays current.
failedRun(x) == [appendTerminalEvent(setStageStatus(x, x.stage, "failed"))
                    EXCEPT !.status = "failed"]

markRunFailedLocked(r, x) ==
    /\ writeTerminalRun(r, failedRun(x))
    /\ lost' = lost \cup Forgotten(r, x, fitTerminalRun(failedRun(x)))

failWorkflow(a, r) ==
    /\ withRunLock(a, r) /\ ~isTerminalStatus(run[r].status)
    /\ markRunFailedLocked(r, run[r])
    /\ UNCHANGED <<profile, session, troubles, landed, vouched>>

\* clearStageForRetry: output, gate and intent of the stage are dropped.
clearStageForRetry(x, stage) ==
    [x EXCEPT !.outputs = @ \ {stage.id}, !.gates = @ \ {stage.gate},
              !.pending = IF @ = stage.id THEN Nil ELSE @]

\* resumeWorkflow of a failed run; a tombstone has no stage to restore.
resumeWorkflow(a, r) ==
    /\ withRunLock(a, r) /\ run[r].status = "failed"
    /\ run[r].stage = Nil \/ resolveCurrentStage(r)
    /\ CanAppend(run[r])
    /\ LET s == run[r].stage
           x == setStageStatus(run[r], s, "running")
       IN  /\ writeRun(r, [appendStamped(IF s = Nil THEN x
                                         ELSE clearStageForRetry(x, Current(r)))
                              EXCEPT !.status = "running"])
           /\ landed' = IF s = Nil THEN landed ELSE [landed EXCEPT ![r][s] = 0]
           /\ vouched' = IF s = Nil THEN vouched
                         ELSE [vouched EXCEPT ![r] = @ \ {Current(r).gate}]
    /\ UNCHANGED <<profile, session, troubles, lost>>

-----------------------------------------------------------------------------
(* submitStageOutput.  `granted': LLMWIKI_TRUSTED_WRITE names the project. *)

\* Fault: an output that may have landed is submitted again.
FaultNotApplied(x, s) == s \notin x.outputs

assertOutputNotApplied(x, s) == x.pending # s /\ s \notin x.outputs

submitUnderLock(a, r) ==
    /\ withRunLock(a, r) /\ ~isTerminalStatus(run[r].status)
    /\ resolveCurrentStage(r) /\ Current(r).writes
    /\ assertOutputNotApplied(run[r], run[r].stage)

\* A page the plan routes to review, or whose trust gate lacks the grant.
recordStaged(a, r) ==
    /\ submitUnderLock(a, r) /\ CanAppend(run[r])
    /\ writeRun(r, appendStamped(run[r]))
    /\ UNCHANGED <<profile, session, troubles, runHistory>>

\* A hard denial before the intent: the plan denies the page, a trust gate has no
\* grant for this kind, the artifact differs from what is there.
dispatchOrAutoFail(a, r) ==
    /\ submitUnderLock(a, r)
    /\ markRunFailedLocked(r, run[r])
    /\ UNCHANGED <<profile, session, troubles, landed, vouched>>

\* projectAppliedRun.
projectAppliedRun(x, s, gate) ==
    [appendStamped(x) EXCEPT !.outputs = @ \cup {s}, !.pending = Nil,
                             !.gates = @ \cup {g \in {gate} : isTrustGate(g)}]

\* preflightApplyRecord, step 1.
preflightApplyRecord(x, s, gate) ==
    CanAppend(x) /\ Fits(projectAppliedRun(x, s, gate))

\* trustGateRequiresStaging.
trustGateRequiresStaging(gate, granted) == isTrustGate(gate) /\ ~granted

\* It takes the place of the intent of another stage, if the run left one behind.
persistOutputIntent(a, r, granted) ==
    /\ submitUnderLock(a, r)
    /\ ~trustGateRequiresStaging(Current(r).gate, granted)
    /\ preflightApplyRecord(run[r], run[r].stage, Current(r).gate)
    /\ writeRun(r, [run[r] EXCEPT !.pending = run[r].stage])
    /\ session' = [step |-> "apply", id |-> r, stage |-> Current(r), before |-> run[r],
                   granted |-> granted]
    /\ lost' = lost \cup Forgotten(r, run[r], [run[r] EXCEPT !.pending = run[r].stage])
    /\ UNCHANGED <<profile, troubles, landed, vouched>>

applyLands ==
    /\ session.step = "apply"
    /\ landed' = [landed EXCEPT ![session.id][session.stage.id] = @ + 1]
    /\ session' = [session EXCEPT !.step = "record"]
    /\ UNCHANGED <<profile, run, key, troubles, vouched, lost>>

\* applyOrClearIntent, when apply throws before it wrote anything; a hard denial
\* then fails the run.
applyOrClearIntent(hard) ==
    /\ session.step = "apply"
    /\ IF hard THEN markRunFailedLocked(session.id, session.before)
               ELSE writeRun(session.id, session.before) /\ UNCHANGED lost
    /\ session' = Idle
    /\ UNCHANGED <<profile, troubles, landed, vouched>>

Trouble == troubles < MaxTroubles /\ troubles' = troubles + 1

\* The write lands, appending its audit event fails, and apply throws.
applyThrowsAfterLanding ==
    /\ session.step = "apply" /\ Trouble
    /\ landed' = [landed EXCEPT ![session.id][session.stage.id] = @ + 1]
    /\ writeRun(session.id, session.before)
    /\ lost' = lost \cup {session.id}
    /\ session' = Idle
    /\ UNCHANGED <<profile, vouched>>

\* The room was tried: nothing but an I/O error keeps it from being recorded.
recordApplied ==
    /\ session.step = "record"
    /\ CanAppend(session.before)
    /\ writeRun(session.id, projectAppliedRun(session.before, session.stage.id, session.stage.gate))
    /\ vouched' = [vouched EXCEPT ![session.id] =
                      @ \cup {g \in {session.stage.gate} : isTrustGate(g) /\ session.granted}]
    /\ session' = Idle
    /\ UNCHANGED <<profile, troubles, landed, lost>>

\* The process dies, or the last write fails: the lock is given up or reclaimed.
Die ==
    /\ session # Idle /\ Trouble
    /\ session' = Idle
    /\ UNCHANGED <<profile, run, key, runHistory>>

-----------------------------------------------------------------------------
(* Adapting a run to the active definition. *)

referencedStageIds(x) ==
    ({x.stage, x.pending} \cup {e[1] : e \in x.log} \cup x.outputs) \ {Nil}

\* computeAdaptationPlan: what has no stage in the definition.
unmappable(x, d) == {s \in referencedStageIds(x) : mapStageId(s, d) = Nil}

\* remapOutputs throws when two outputs get one key.
outputsCollide(x, d) ==
    \E s, t \in x.outputs : s # t /\ mapStageId(s, d) = mapStageId(t, d)
                                  /\ mapStageId(s, d) # Nil

\* remapPending; null when the stage is gone.
remapPending(s, d) == IF s = Nil THEN Nil ELSE mapStageId(s, d)

\* Gates keep their names; stages new in d get no log entry.
remapRun(x, d) ==
    LET s == IF x.stage = Nil THEN Nil ELSE mapStageId(x.stage, d)
    IN  [appendStamped(x) EXCEPT
            !.status = IF x.stage # Nil /\ s = Nil THEN "cancelled" ELSE @,
            !.stage = s,
            !.log = {<<mapStageId(e[1], d), e[2]>> :
                        e \in {f \in @ : mapStageId(f[1], d) # Nil}},
            !.outputs = {mapStageId(t, d) : t \in @} \ {Nil},
            !.pending = remapPending(@, d),
            !.known = IdsOf(d), !.digest = d]

adaptApply(a, r, confirm) ==
    /\ withRunLock(a, r) /\ ~isTerminalStatus(run[r].status)
    /\ profile # NoDef /\ profile # run[r].digest
    /\ unmappable(run[r], profile) = {} \/ confirm
    /\ ~outputsCollide(run[r], profile) /\ CanAppend(run[r])
    /\ writeRun(r, remapRun(run[r], profile))
    /\ landed' = [landed EXCEPT ![r] = [s \in StageIds |->
          LET From == {t \in StageIds : mapStageId(t, profile) = s /\ landed[r][t] > 0}
          IN  IF From = {} THEN 0 ELSE landed[r][CHOOSE t \in From : TRUE]]]
    /\ UNCHANGED <<profile, session, troubles, vouched, lost>>

\* The owner edits the profile, at any time.
EditProfile ==
    /\ Trouble /\ profile' \in (DefDigests \cup {NoDef}) \ {profile}
    /\ UNCHANGED <<run, key, session, runHistory>>

\* The key file is lost.
LoseKey ==
    /\ Trouble /\ key.disk # 0
    /\ key' = [key EXCEPT !.disk = 0]
    /\ UNCHANGED <<profile, run, session, runHistory>>

Command(a, r) ==
    \/ \E n \in InputSizes : startWorkflow(a, r, n)
    \/ completeAndStep(a, r)
    \/ parkAwaitingGate(a, r)
    \/ \E kind \in {"human", "agent"} : approveGate(a, r, kind)
    \/ cancelWorkflow(a, r)
    \/ failWorkflow(a, r)
    \/ resumeWorkflow(a, r)
    \/ recordStaged(a, r)
    \/ dispatchOrAutoFail(a, r)
    \/ \E granted \in BOOLEAN : persistOutputIntent(a, r, granted)
    \/ \E confirm \in BOOLEAN : adaptApply(a, r, confirm)

WorkflowNext ==
    \/ \E a \in Owners, r \in RunIds : Command(a, r)
    \/ applyLands
    \/ \E hard \in BOOLEAN : applyOrClearIntent(hard)
    \/ applyThrowsAfterLanding
    \/ recordApplied
    \/ Die
    \/ EditProfile
    \/ LoseKey

WorkflowSpec == WorkflowInit /\ [][WorkflowNext]_workflowVars

-----------------------------------------------------------------------------
(* workflow status. *)

stagesPreserved(x, d) == /\ x.stage = Nil \/ x.stage \in IdsOf(d)
                         /\ x.known \subseteq IdsOf(d)

classifyRun(x) ==
    IF isTerminalStatus(x.status) \/ profile = NoDef THEN "historical"
    ELSE IF profile = x.digest /\ stagesPreserved(x, profile) THEN "current"
    ELSE IF x.stage # Nil /\ mapStageId(x.stage, profile) = Nil
         THEN "blocked-by-config" ELSE "needs-adaptation"

-----------------------------------------------------------------------------
(* Properties. *)

Recorded == {r \in RunIds : run[r] # Nil}

\* The session of one submitStageOutput.
Submission == [step : {"apply", "record"}, id : RunIds, stage : Stages,
               before : WorkflowRun, granted : BOOLEAN]

\* The variables are what src/workflows/types.ts declares.
WorkflowTypeOK ==
    /\ profile \in DefDigests \cup {NoDef}
    /\ run \in [RunIds -> WorkflowRun \cup {Nil}]
    /\ key \in [disk : Nat, minted : Nat] /\ key.disk <= key.minted
    /\ troubles \in 0..MaxTroubles
    /\ session \in Submission \cup {Idle}
    /\ landed \in [RunIds -> [StageIds -> Nat]]
    /\ vouched \in [RunIds -> SUBSET Gates] /\ lost \subseteq RunIds

\* Whatever ended, filled up or compacted a run, its record is within both caps and
\* its events still chain, so the next read accepts it (store.ts parseRun).
StaysReadable ==
    \A r \in Recorded : WellFormed(run[r]) /\ Len(run[r].events) <= MaxRunEvents

\* A run's record is never replaced by an older one or by another run's, not even
\* when the key that signed it is gone (start.ts mintFreshRunId).
VersionsNeverRewind ==
    \A r \in Recorded : /\ run'[r] # Nil /\ run'[r].version >= run[r].version
                        /\ run'[r].version = run[r].version =>
                              run'[r].events = run[r].events

\* A satisfied gate was earned in the stage's present attempt: a human gate by a
\* human, an agent gate by a human or an agent, a trust gate by an output that was
\* applied under the operator's grant (gate.ts, stage-output-internals.ts,
\* resume.ts).
GatesEarned == \A r \in Recorded : run[r].gates \subseteq vouched[r]

\* One attempt of a stage writes its output once, however often submit is called,
\* crashes and is called again (stage-output.ts assertOutputNotApplied), unless the
\* record lost track of a write: apply threw after it, its intent was replaced by the
\* one of a later stage, or its run failed and was cut down to fit.
AppliedOnce ==
    \A r \in RunIds \ lost : \A s \in StageIds : landed[r][s] <= 1

\* What the current stage of an active run has written is in its record, as an
\* output or as the intent, unless the record lost track of a write
\* (stage-output-internals.ts, adapt.ts remapPending).
LandedAccounted ==
    \A r \in Recorded \ lost :
        ~isTerminalStatus(run[r].status) /\ run[r].stage # Nil
        /\ landed[r][run[r].stage] > 0 =>
           run[r].stage \in run[r].outputs \cup {run[r].pending}

\* A run leaves a stage behind only when this attempt of it wrote its output and its
\* gate was earned since, retries included (advance.ts stageSatisfied, resume.ts
\* clearStageForRetry); adapting and ending a run are not leaving a stage behind.
GenuineCompletion ==
    \A r \in Recorded :
       LET s == run[r].stage
       IN  /\ s # Nil /\ s # run'[r].stage
           /\ run'[r].status \in {"running", "completed"}
           /\ run'[r].digest = run[r].digest
           => /\ Current(r).gate # Nil => Current(r).gate \in vouched[r]
              /\ Current(r).writes => landed[r][s] > 0

\* Adapting leaves the run current or cancelled, never pointing at a stage the
\* definition does not have (adapt.ts: "the result classifies `current`").
AdaptedIsCurrent ==
    \A r \in Recorded : run'[r].digest # run[r].digest =>
       classifyRun(run[r])' \in {"current", "historical"}

\* The owner can cancel any active run that reads back, at both caps: the lock lets him
\* in and the write does not throw (events.ts appendTerminalEvent, store.ts
\* fitTerminalRun).
AlwaysEndable ==
    \A r \in Recorded :
        session = Idle /\ readRun(r) = "ok" /\ ~isTerminalStatus(run[r].status) =>
            \E a \in Owners : /\ withRunLock(a, r)
                              /\ Fits(fitTerminalRun(cancelledRun(run[r])))

\* A session that has applied an output has room to record it
\* (stage-output-internals.ts preflightApplyRecord).
RoomToRecord ==
    session.step = "record" =>
        /\ CanAppend(session.before)
        /\ Fits(projectAppliedRun(session.before, session.stage.id, session.stage.gate))

\* A run's record stays usable: well formed at its event cap, its gates vouched for,
\* and cancellable by somebody, also at its byte cap (store.ts, events.ts, cancel.ts).
RunSound == WorkflowTypeOK /\ StaysReadable /\ GatesEarned /\ AlwaysEndable

\* A stage output lands once, and the record knows of it or can still take it, through
\* a death between the write and the record, a retry and an adaptation to an edited
\* profile (stage-output.ts, stage-output-internals.ts).
OutputsAccounted == AppliedOnce /\ LandedAccounted /\ RoomToRecord

\* No command rewinds a record, leaves a stage that is not done, or adapts a run to
\* anything but the profile in force (advance.ts, resume.ts, adapt.ts, start.ts).
RunSteps == [][VersionsNeverRewind /\ GenuineCompletion /\ AdaptedIsCurrent]_workflowVars
=============================================================================
