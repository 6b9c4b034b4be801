------------------------------ MODULE Actions ------------------------------
(***************************************************************************)
(* The surfaces that drive workflow runs, and their authority: declared    *)
(* actions (run-action.ts) from the CLI, the SDK and MCP, the direct CLI   *)
(* and SDK commands, the human gate's confirmation, and `workflow status'. *)
(* A caller reads the profile, the local grant and the run without the     *)
(* lock and acts later, under it: others may move the run, and the owner   *)
(* may edit the profile and the grant, in between.  A record keeps the     *)
(* fields this is about; module Workflow has the record in full.           *)
(***************************************************************************)
EXTENDS Naturals, Sequences, FiniteSets

CONSTANTS
    Callers,        \* processes that hold at most one invocation each
    Identities,     \* currentActorIdentity of a caller
    RecordIds,
    WorkflowIds,
    Packs,          \* the profiles the project may have
    StageNames,
    GateNames,      \* the id of a gate, after its kind
    Stages,         \* Stages[p][w]: the stages of w in p, <<>> if not declared
    Declared,       \* Declared[p]: its workflowActions, a function
    LocalConfigs,   \* what .llmwiki-private/config.json may hold
    Unset,          \* undefined or null
    MaxOwnerEdits   \* bound: edits of profile and grant, records damaged

Capabilities == <<"disabled", "read-only", "staged-write", "trusted-write">>
Surfaces == {"cli", "sdk", "mcp", "viewer"}
Operations == {"status", "start", "resume", "advance", "cancel", "fail", "submit", "gate"}
GateValues == {"human", "agent", "trust"} \X GateNames
HumanGates == {g \in GateValues : g[1] = "human"}

StageDef == [id : StageNames, gate : {Unset} \cup GateValues, writes : BOOLEAN]

\* A record has the fields this module is about: `def' stands for the digest of the
\* stages the run was started with, `parked' for the awaiting-gate marker.
RunRecord == [workflow : WorkflowIds, owner : Identities \cup {Unset},
              status : {"pending", "running", "completed", "cancelled", "failed"},
              stage : StageNames \cup {Unset}, gates : SUBSET GateValues, outputs : SUBSET StageNames,
              parked : BOOLEAN, def : Seq(StageDef), readable : BOOLEAN]

\* validateStage: ids are unique, and a trust gate needs an output to satisfy it.
ASSUME StagesAssumption ==
    \A p \in Packs, w \in WorkflowIds :
       /\ Stages[p][w] \in Seq(StageDef)
       /\ \A i, j \in DOMAIN Stages[p][w] : Stages[p][w][i].id = Stages[p][w][j].id => i = j
       /\ \A i \in DOMAIN Stages[p][w] :
             Stages[p][w][i].gate \in GateValues /\ Stages[p][w][i].gate[1] = "trust"
                => Stages[p][w][i].writes

ASSUME UnsetAssumption ==
    Unset \notin GateValues \cup StageNames \cup RecordIds \cup WorkflowIds \cup RunRecord

ASSUME ActionsAssumption ==
    /\ \A p \in Packs : \A a \in DOMAIN Declared[p] :
          /\ Declared[p][a].operation \in Operations /\ Declared[p][a].workflow \in WorkflowIds
          /\ Declared[p][a].operation = "gate" => Declared[p][a].gate # Unset
    /\ MaxOwnerEdits \in Nat

VARIABLES
    activePack,  \* the active profile
    config,      \* the local config file
    record,      \* record[r]: the run's file, or Unset
    call,        \* call[c]: the invocation c is in, step "idle" if none
    ownerEdits,
    proven       \* history: <<r, id>> a person confirmed at a terminal

actionsVars == <<activePack, config, record, call, ownerEdits, proven>>

NoCall == [step |-> "idle"]
StagesNow(w) == Stages[activePack][w]

-----------------------------------------------------------------------------
(* The composed authority. *)

\* rankOf; -1 for a value outside the order, here 0.
rankOf(cap) == IF \E i \in DOMAIN Capabilities : Capabilities[i] = cap
               THEN CHOOSE i \in DOMAIN Capabilities : Capabilities[i] = cap ELSE 0

SURFACE_HARD_CAP == [s \in Surfaces |-> IF s \in {"cli", "sdk"} THEN "trusted-write"
                                                              ELSE "staged-write"]

\* A value outside the order makes the whole "disabled".
minCapability(caps) ==
    IF caps = {} \/ \E c \in caps : rankOf(c) = 0 THEN "disabled"
    ELSE CHOOSE c \in caps : \A d \in caps : rankOf(c) <= rankOf(d)

\* loadLocalGrant: no config and no entry grant the cap; anything broken, read-only.
loadLocalGrant(s) ==
    IF config.status = "absent" THEN SURFACE_HARD_CAP[s]
    ELSE IF config.status = "unavailable" THEN "read-only"
    ELSE IF config.grants[s] = Unset THEN SURFACE_HARD_CAP[s]
    ELSE IF rankOf(config.grants[s]) > 0 THEN config.grants[s] ELSE "read-only"

effectivePermission(requested, s) ==
    minCapability({requested, loadLocalGrant(s), SURFACE_HARD_CAP[s]})

canSatisfyHumanGate(effective, s, enabled) ==
    effective = "trusted-write" /\ SURFACE_HARD_CAP[s] = "trusted-write" /\ enabled

REQUIRED_CAPABILITY(op) == IF op = "status" THEN "read-only" ELSE "staged-write"

\* env: the gates LLMWIKI_ENABLED_HUMAN_GATES names.
enforceGateAuthority(def, effective, s, env) ==
    IF def.gate[1] # "human" THEN rankOf(effective) >= rankOf("staged-write")
    ELSE s = "cli" /\ canSatisfyHumanGate(effective, s, def.gate \in env)

enforceAuthority(def, effective, s, env) ==
    /\ effective # "disabled"
    /\ IF def.operation = "gate" THEN enforceGateAuthority(def, effective, s, env)
       ELSE rankOf(effective) >= rankOf(REQUIRED_CAPABILITY(def.operation))

-----------------------------------------------------------------------------
(* A run's record, and the operations on it under the project lock. *)

readable(r) == record[r] # Unset /\ record[r].readable
active(x) == x.status \in {"pending", "running"}

\* assertRunOwnership.
owns(who, x) == x.owner \in {Unset, who}

\* resolveCurrentStage.
hasStage(x) == \E i \in DOMAIN StagesNow(x.workflow) : StagesNow(x.workflow)[i].id = x.stage
indexOf(x) == CHOOSE i \in DOMAIN StagesNow(x.workflow) : StagesNow(x.workflow)[i].id = x.stage
stageOf(x) == StagesNow(x.workflow)[indexOf(x)]

outputRecorded(x) == ~stageOf(x).writes \/ x.stage \in x.outputs
gateSatisfied(x) == stageOf(x).gate = Unset \/ stageOf(x).gate \in x.gates

startRecord(w, who) ==
    [workflow |-> w, owner |-> who, status |-> "pending", stage |-> StagesNow(w)[1].id,
     gates |-> {}, outputs |-> {}, parked |-> FALSE, def |-> StagesNow(w), readable |-> TRUE]

advanceRecord(x) ==
    IF ~(gateSatisfied(x) /\ outputRecorded(x))
    THEN [x EXCEPT !.parked = TRUE, !.status = "running"]
    ELSE IF indexOf(x) = Len(StagesNow(x.workflow))
         THEN [x EXCEPT !.stage = Unset, !.status = "completed", !.parked = FALSE]
         ELSE [x EXCEPT !.stage = StagesNow(x.workflow)[indexOf(x) + 1].id,
                        !.status = "running", !.parked = FALSE]

\* clearStageForRetry.
resumeRecord(x) ==
    [x EXCEPT !.status = "running", !.parked = FALSE,
              !.outputs = @ \ {x.stage}, !.gates = @ \ {stageOf(x).gate}]

\* vouchGate: of the stage current now, by id, and by the kind that gate has now.
vouches(g, id, kind) ==
    /\ g # Unset /\ g[2] = id /\ g[1] # "trust"
    /\ kind = "human" \/ (g[1] = "agent" /\ kind = "agent")

approveRecord(x) == [x EXCEPT !.gates = @ \cup {stageOf(x).gate}, !.parked = FALSE]

\* The output is on record, and with it the trust gate of its stage.
recordOutput(x) ==
    [x EXCEPT !.outputs = @ \cup {x.stage},
              !.gates = @ \cup {g \in {stageOf(x).gate} \ {Unset} : g[1] = "trust"}]

\* What the operation of invocation i may make of record x: no other value, and none
\* where it throws.  A submitted output is applied, parked, or denied for good.
Results(i, x) ==
    CASE i.operation = "cancel"  -> {y \in {[x EXCEPT !.status = "cancelled", !.stage = Unset]} : active(x)}
      [] i.operation = "fail"    -> {y \in {[x EXCEPT !.status = "failed", !.parked = FALSE]} : active(x)}
      [] i.operation = "resume"  -> IF x.status = "failed" /\ hasStage(x) THEN {resumeRecord(x)} ELSE {}
      [] i.operation = "advance" -> IF active(x) /\ hasStage(x) THEN {advanceRecord(x)} ELSE {}
      [] i.operation = "gate"    -> IF active(x) /\ hasStage(x) /\ vouches(stageOf(x).gate, i.gate, i.kind)
                                    THEN {IF stageOf(x).gate \in x.gates THEN x ELSE approveRecord(x)} ELSE {}
      [] i.operation = "submit"  -> IF active(x) /\ hasStage(x) /\ stageOf(x).writes /\ x.stage \notin x.outputs
                                    THEN {recordOutput(x), x,
                                          [x EXCEPT !.status = "failed", !.parked = FALSE]} ELSE {}

-----------------------------------------------------------------------------
(* runAction. *)

Goto(c, i) == call' = [call EXCEPT ![c] = i]
End(c) == Goto(c, NoCall)

\* validateActionInputs and requireRunId: a run id for what acts on a run.
inputsFit(op, r) == IF op = "start" THEN r = Unset ELSE op # "status" => r # Unset

\* The profile is read once, here; an undeclared id is refused.
Invoke(c, s, who, a, r) ==
    /\ call[c] = NoCall /\ a \in DOMAIN Declared[activePack]
    /\ LET def == Declared[activePack][a]
       IN  /\ inputsFit(def.operation, r)
           /\ Goto(c, [step |-> "authorize", via |-> "action", surface |-> s, who |-> who,
                       def |-> def, operation |-> def.operation, workflow |-> def.workflow,
                       run |-> r, gate |-> IF def.gate = Unset THEN Unset ELSE def.gate[2],
                       kind |-> "agent", saw |-> Unset])
    /\ UNCHANGED <<activePack, config, record, ownerEdits, proven>>

\* A status reads and ends; a start needs no run.  The process's env is read here.
Authorize(c, env) ==
    LET i == call[c]
        effective == effectivePermission(i.def.permissions[i.surface], i.surface)
    IN  /\ i.step = "authorize"
        /\ IF ~enforceAuthority(i.def, effective, i.surface, env) \/ i.operation = "status" THEN End(c)
           ELSE Goto(c, [i EXCEPT !.step = IF i.operation = "start" THEN "perform" ELSE "scope",
                                  !.saw = config])
        /\ UNCHANGED <<activePack, config, record, ownerEdits, proven>>

\* Fault: any run the caller owns will do.
FaultScope(i) == readable(i.run) /\ owns(i.who, record[i.run])

\* scopedRunId: the run reads back, is of the action's workflow, and is the caller's.
scopedRunId(i) == /\ readable(i.run) /\ owns(i.who, record[i.run])
                  /\ record[i.run].workflow = i.workflow

\* Fault: a human gate is approved without asking.
FaultDispatch(i) == [i EXCEPT !.step = "perform", !.kind = i.def.gate[1]]

\* dispatchGate.
dispatchGate(i) == IF i.def.gate[1] = "human" THEN [i EXCEPT !.step = "confirm"]
                                              ELSE [i EXCEPT !.step = "perform", !.kind = "agent"]

Scope(c) ==
    LET i == call[c]
    IN  /\ i.step = "scope"
        /\ IF ~scopedRunId(i) THEN End(c)
           ELSE Goto(c, IF i.operation = "gate" THEN dispatchGate(i) ELSE [i EXCEPT !.step = "perform"])
        /\ UNCHANGED <<activePack, config, record, ownerEdits, proven>>

\* confirmHumanGateInteractively: both ends a terminal, and the token just shown.
confirmed(tty, answer) == tty /\ answer = "token"

\* The answer comes as late as the person likes; end of input is "other".
Confirm(c, tty, answer) ==
    LET i == call[c]
    IN  /\ i.step = "confirm"
        /\ tty => i.surface = "cli"     \* the SDK and MCP pass a closed io
        /\ IF confirmed(tty, answer) THEN Goto(c, [i EXCEPT !.step = "perform", !.kind = "human"]) ELSE End(c)
        /\ proven' = IF tty /\ answer = "token" THEN proven \cup {<<i.run, i.gate>>} ELSE proven
        /\ UNCHANGED <<activePack, config, record, ownerEdits>>

\* withRunLock: the run is read again, and the caller owns it.
Locked(i) ==
    IF readable(i.run) /\ owns(i.who, record[i.run]) /\ Results(i, record[i.run]) # {}
    THEN \E y \in Results(i, record[i.run]) : record' = [record EXCEPT ![i.run] = y]
    ELSE UNCHANGED record

\* startWorkflow: an id no file has; a workflow the profile lost is refused.
Started(i) ==
    LET Free == {r \in RecordIds : record[r] = Unset}
    IN  IF Free # {} /\ StagesNow(i.workflow) # <<>>
        THEN \E r \in Free : record' = [record EXCEPT ![r] = startRecord(i.workflow, i.who)]
        ELSE UNCHANGED record

Perform(c) ==
    /\ call[c].step = "perform"
    /\ IF call[c].operation = "start" THEN Started(call[c]) ELSE Locked(call[c])
    /\ End(c)
    /\ UNCHANGED <<activePack, config, ownerEdits, proven>>

-----------------------------------------------------------------------------
(* The direct commands: no declared action, no grant, and nothing read before  *)
(* the lock but by `gate approve'.  MCP has none.                              *)

Direct(who, op, w, r) ==
    [step |-> "perform", via |-> "direct", surface |-> "cli", who |-> who, operation |-> op,
     workflow |-> w, run |-> r, gate |-> Unset, kind |-> "agent", saw |-> Unset]

\* workflow start, and the SDK's startWorkflow.
StartCommand(who, w) ==
    /\ Started(Direct(who, "start", w, Unset))
    /\ UNCHANGED <<activePack, config, call, ownerEdits, proven>>

\* workflow advance, cancel, fail, resume, submit, and the SDK's methods.
Command(who, op, r) ==
    /\ Locked(Direct(who, op, Unset, r))
    /\ UNCHANGED <<activePack, config, call, ownerEdits, proven>>

\* sdkApproveGate refuses "human".
SdkApprove(who, r, id, kind) ==
    /\ kind # "human"
    /\ Locked([Direct(who, "gate", Unset, r) EXCEPT !.gate = id, !.kind = kind])
    /\ UNCHANGED <<activePack, config, call, ownerEdits, proven>>

\* resolveGateKind, without the lock; Unset where it throws.
resolvesTo(r, id) ==
    IF ~readable(r) THEN Unset
    ELSE IF ~hasStage(record[r]) THEN Unset
    ELSE IF stageOf(record[r]).gate \notin {<<k, id>> : k \in {"human", "agent", "trust"}} THEN Unset
    ELSE stageOf(record[r]).gate[1]

\* workflow gate approve: the prompt if the gate is a human one, else the --actor given.
ApproveCommand(c, who, r, id, kind) ==
    /\ call[c] = NoCall /\ resolvesTo(r, id) # Unset
    /\ LET i == [Direct(who, "gate", Unset, r) EXCEPT !.gate = id, !.kind = kind]
       IN  Goto(c, IF resolvesTo(r, id) = "human" THEN [i EXCEPT !.step = "confirm"] ELSE i)
    /\ UNCHANGED <<activePack, config, record, ownerEdits, proven>>

-----------------------------------------------------------------------------
(* The owner, and the disk. *)

OwnerEdit == ownerEdits < MaxOwnerEdits /\ ownerEdits' = ownerEdits + 1

EditPack == /\ OwnerEdit /\ activePack' \in Packs \ {activePack}
            /\ UNCHANGED <<config, record, call, proven>>

EditConfig == /\ OwnerEdit /\ config' \in LocalConfigs \ {config}
              /\ UNCHANGED <<activePack, record, call, proven>>

\* A record that no longer parses or verifies.
DamageRecord(r) == /\ OwnerEdit /\ readable(r)
             /\ record' = [record EXCEPT ![r].readable = FALSE]
             /\ UNCHANGED <<activePack, config, call, proven>>

ActionsInit ==
    /\ activePack \in Packs /\ config \in LocalConfigs
    /\ record = [r \in RecordIds |-> Unset]
    /\ call = [c \in Callers |-> NoCall]
    /\ ownerEdits = 0 /\ proven = {}

Invoking(c, who) ==
    \/ \E s \in Surfaces \ {"viewer"}, a \in DOMAIN Declared[activePack], r \in RecordIds \cup {Unset} :
          Invoke(c, s, who, a, r)
    \/ \E r \in RecordIds, id \in GateNames, kind \in {"agent", "system"} : ApproveCommand(c, who, r, id, kind)

Directly(who) ==
    \/ \E w \in WorkflowIds : StartCommand(who, w)
    \/ \E op \in Operations \ {"status", "start", "gate"}, r \in RecordIds : Command(who, op, r)
    \/ \E r \in RecordIds, id \in GateNames, kind \in {"agent", "system"} : SdkApprove(who, r, id, kind)

ActionsNext ==
    \/ \E c \in Callers :
          \/ \E who \in Identities : Invoking(c, who)
          \/ \E env \in SUBSET HumanGates : Authorize(c, env)
          \/ Scope(c) \/ Perform(c)
          \/ \E tty \in BOOLEAN, answer \in {"token", "other"} : Confirm(c, tty, answer)
    \/ \E who \in Identities : Directly(who)
    \/ EditPack \/ EditConfig
    \/ \E r \in RecordIds : DamageRecord(r)

ActionsSpec == ActionsInit /\ [][ActionsNext]_actionsVars

-----------------------------------------------------------------------------
(* workflow status. *)

classified(x) ==
    IF ~active(x) \/ StagesNow(x.workflow) = <<>> THEN "historical"
    ELSE IF x.def = StagesNow(x.workflow) /\ hasStage(x) THEN "current"
    ELSE IF hasStage(x) THEN "needs-adaptation" ELSE "blocked-by-config"

\* currentAwaitingGate and awaitingOutputOf: by the park marker and the stage.
parkHints(x) ==
    [gate   |-> IF x.parked THEN stageOf(x).gate ELSE Unset,
     output |-> x.parked /\ stageOf(x).writes /\ x.stage \notin x.outputs]

NoHints == [gate |-> Unset, output |-> FALSE]

\* statusForRun; the id, and the hints of a run that is current.
statusForRun(r) ==
    IF ~readable(r) THEN [id |-> r, workflow |-> Unset, problem |-> TRUE, store |-> FALSE, hints |-> NoHints]
    ELSE [id |-> r, workflow |-> record[r].workflow, problem |-> FALSE, store |-> FALSE,
          hints |-> IF classified(record[r]) = "current" THEN parkHints(record[r]) ELSE NoHints]

\* listRuns: every record there is, readable or not.
listRuns == {r \in RecordIds : record[r] # Unset}

workflowStatus == {statusForRun(r) : r \in listRuns}

redactedUnreadableRow == [id |-> Unset, workflow |-> Unset, problem |-> TRUE, store |-> TRUE, hints |-> NoHints]

workflowStatusForWorkflow(w) ==
    {row \in workflowStatus : row.store \/ row.workflow = w}
    \cup {row \in {redactedUnreadableRow} : \E q \in workflowStatus : ~q.store /\ q.workflow = Unset}

\* nextHintOf of a parked run.
nextHintOf(row) ==
    IF row.hints.gate # Unset /\ row.hints.gate[1] # "trust" THEN "approve"
    ELSE IF row.hints.output \/ row.hints.gate # Unset THEN "submit" ELSE "none"

-----------------------------------------------------------------------------
(* Properties. *)

\* The variables hold what the run store and the config reader produce.
ActionsTypeOK ==
    /\ activePack \in Packs /\ config \in LocalConfigs
    /\ record \in [RecordIds -> RunRecord \cup {Unset}]
    /\ \A r \in RecordIds : record[r] # Unset =>
          (record[r].status \in {"completed", "cancelled"} <=> record[r].stage = Unset)
    /\ \A c \in Callers : call[c].step \in {"idle", "authorize", "scope", "confirm", "perform"}

\* A human gate is satisfied only after a person typed the token shown for it at a
\* terminal, for this run: not through an action or method of another surface, not by
\* an agent's approval that was on its way while the stage or the profile changed
\* (run-action.ts: "EXACTLY ONE way to satisfy a human gate"; gate.ts vouchGate).
HumanProof ==
    \A r \in RecordIds : record[r] # Unset =>
        \A g \in record[r].gates : g[1] = "human" => <<r, g[2]>> \in proven

\* A declared action changes a run only if profile, grant and surface each let it, in
\* the config it read, and a config that could not be understood lets nothing change
\* (authority.ts minCapability, local-config.ts loadLocalGrant).
Authorized ==
    \A c \in Callers :
       (/\ call[c].step = "perform" /\ call'[c] = NoCall
        /\ call[c].via = "action" /\ record' # record) =>
          LET i == call[c]
              writes == {"staged-write", "trusted-write"}
          IN  /\ i.def.permissions[i.surface] \in writes
              /\ i.saw.status # "unavailable"
              /\ i.saw.status = "ok" => i.saw.grants[i.surface] \in writes \cup {Unset}

\* An action changes only runs of its own workflow, and whatever changes a run is its
\* owner's doing, though both are checked before the lock is taken (run-action.ts
\* scopedRunId, with-lock.ts withRunLock).
InScope ==
    \A c \in Callers, r \in RecordIds :
       (/\ call[c].step = "perform" /\ call'[c] = NoCall
        /\ record[r] # Unset /\ record'[r] # record[r]) =>
          /\ call[c].via = "action" => record[r].workflow = call[c].workflow
          /\ record[r].owner \in {Unset, call[c].who}

\* A workflow's status names every readable run of it and no other run, and says so
\* when some record cannot be read (status.ts workflowStatusForWorkflow).
StatusScoped ==
    \A w \in WorkflowIds :
        LET rows == workflowStatusForWorkflow(w)
        IN  /\ {row.id : row \in rows} \ {Unset} =
                  {r \in RecordIds : readable(r) /\ record[r].workflow = w}
            /\ (\E r \in RecordIds : record[r] # Unset /\ ~readable(r)) =>
                  \E row \in rows : row.problem

\* A parked run that cannot advance is given a next command, and that command, done by
\* its owner, can change the run - except that once the stage's gate is approved and
\* its output still missing, the hint keeps naming the gate (workflow-shared.ts
\* nextHintOf, which reads the park marker and not the approvals), and that a stage
\* whose output was recorded under a profile without its trust gate is told to submit
\* what submitStageOutput refuses as already applied.
HintMoves ==
    \A r \in listRuns : LET x == record[r] IN
        (/\ readable(r) /\ classified(x) = "current" /\ x.parked
         /\ ~(gateSatisfied(x) /\ outputRecorded(x)) /\ stageOf(x).gate \notin x.gates
         /\ ~(stageOf(x).gate \in GateValues /\ stageOf(x).gate[1] = "trust" /\ x.stage \in x.outputs)) =>
            LET hint == nextHintOf(statusForRun(r))
            IN  /\ hint # "none"
                /\ \E y \in Results([operation |-> IF hint = "approve" THEN "gate" ELSE "submit",
                                     gate |-> IF hint = "approve" THEN stageOf(x).gate[2] ELSE Unset,
                                     kind |-> "human"], x) : y # x

\* A human gate was confirmed by a human, status shows every run of its workflow, and
\* the command it prints for a parked run moves it (human-gate-confirm.ts, status.ts,
\* workflow-shared.ts).
ActionsSound == ActionsTypeOK /\ HumanProof /\ StatusScoped /\ HintMoves

\* A declared action changes a run only within its permission, the local grant, its
\* workflow and the run's owner, though all were read before the lock (run-action.ts).
CallsAuthorized == [][Authorized /\ InScope]_actionsVars
=============================================================================
