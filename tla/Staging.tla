------------------------------ MODULE Staging ------------------------------
(***************************************************************************)
(* The review queue and everything that feeds or drains it: typed staging  *)
(* (trust/staging.ts), candidates of the compiler, OKF import, connector   *)
(* runs, `review approve` / `review reject`, and SDK promotion.            *)
(*                                                                         *)
(* Several processes share the queue, its archive, the wiki pages and the  *)
(* state file.  Each takes the project lock (module ProjectLock; here the  *)
(* variable holder) but reads some things before it, and each may die      *)
(* between any two file operations.  A page write is one step: module      *)
(* Journal shows that its batch is atomic.                                 *)
(***************************************************************************)
EXTENDS Naturals, Sequences, FiniteSets, SequencesExt

CONSTANTS Nobody,       \* the lock is free
          Sessions,       \* processes: CLI, SDK or MCP sessions
          Slugs,        \* page slugs
          Sources,      \* source files a compiled candidate records
          Answers,     \* what the connector's server can answer
          PerSession,   \* DEFAULT_STAGED_WRITE_PER_SESSION
          MinInterval,  \* minRequestIntervalMs
          MaxCandidates, MaxOps, MaxFaults    \* bounds of the model

ASSUME StagingAssumption ==
    /\ Nobody \notin Sessions /\ Slugs # {}
    /\ PerSession \in Nat /\ MinInterval \in Nat
    /\ MaxCandidates \in Nat /\ MaxCandidates >= 2

VARIABLES pages,      \* target -> live page body
          queue,      \* pending candidates, oldest generatedAt first
          archive,    \* archived candidates
          recorded,   \* source -> slugs its state entry lists
          nextId,     \* candidate ids are random and never repeat
          declared,   \* the profile declares the entity type
          holder,     \* who holds the project lock
          turn, job,    \* each process's step and its locals
          age,        \* time since the connector's last-fetch stamp, capped
                      \* at MinInterval
          superseded, \* ghost: ids archived by a connector run
          lastConn,   \* ghost: id of the last draft a connector run staged
          died,       \* ghost: a process died or a restore failed
          ops,        \* operations started
          faults

stagingVars == <<pages, queue, archive, recorded, nextId, declared, holder, turn, job,
          age, superseded, lastConn, died, ops, faults>>

(* A body is <<kind, n>>: the connector's carry their provenance block.    *)
NoBody == <<"none", 0>>

Bodies == {"conn"} \X Answers \cup {"sdk", "okf", "held", "hand"} \X {1}

Dirs == {"concepts", "typed"}

Targets == Dirs \X Slugs

Draft == [dir : Dirs, slug : Slugs, body : Bodies, srcs : SUBSET Sources]

Candidate == [id : 1..MaxCandidates, dir : Dirs, slug : Slugs, body : Bodies, srcs : SUBSET Sources]

NoCandidate == [id |-> 0, dir |-> "concepts", slug |-> CHOOSE s \in Slugs : TRUE,
                body |-> NoBody, srcs |-> {}]

NoJob == [op |-> "none", id |-> 0, pin |-> NoBody, seen |-> NoCandidate, todo |-> {},
          unstated |-> {}, old |-> <<>>, docs |-> {}, then |-> "done", trusted |-> FALSE,
          content |-> NoBody]

(* The connector has one binding and one input, hence one target and one   *)
(* idempotency key.                                                        *)
ConnTarget == <<"typed", CHOOSE s \in Slugs : TRUE>>

isConnectorCandidate(c) == c.body[1] = "conn"

FaultTargetKey(c) == <<"concepts", c.slug>>

candidateTargetKey(c) == <<c.dir, c.slug>>

Pending == ToSet(queue)

Matching(key) == {c \in Pending : candidateTargetKey(c) = key}

(* The one of them generated first.                                        *)
Oldest(cs) == queue[Min({i \in DOMAIN queue : queue[i] \in cs})]

(* A candidate's file is named by its id.                                  *)
Without(q, id) == IF \E i \in DOMAIN q : q[i].id = id
                    THEN RemoveAt(q, CHOOSE i \in DOMAIN q : q[i].id = id)
                    ELSE q

readCandidate(id) == IF \E c \in Pending : c.id = id
                       THEN CHOOSE c \in Pending : c.id = id
                       ELSE NoCandidate

StagingInit ==
    /\ pages = [t \in Targets |-> NoBody]
    /\ \E s \in Slugs :
         queue \in {<<>>,   \* a legacy store may hold duplicates
                    [i \in 1..2 |-> [id |-> i, dir |-> "concepts", slug |-> s,
                                     body |-> <<"held", 1>>, srcs |-> Sources]]}
    /\ archive = {}
    /\ recorded = [s \in Sources |-> {}]
    /\ nextId = Len(queue) + 1
    /\ declared = TRUE
    /\ holder = Nobody
    /\ turn = [p \in Sessions |-> "idle"]
    /\ job = [p \in Sessions |-> NoJob]
    /\ age = MinInterval
    /\ superseded = {} /\ lastConn = 0 /\ died = FALSE /\ ops = 0 /\ faults = 0

ghosts == <<superseded, lastConn, died, ops, faults>>
stagingFiles  == <<pages, queue, archive, recorded, nextId>>
env    == <<declared, age>>

(* A process with nothing to do starts an operation.                       *)
Start(p, l) == /\ turn[p] = "idle" /\ ops < MaxOps
               /\ ops' = ops + 1
               /\ turn' = [turn EXCEPT ![p] = l]

Goto(p, l) == turn' = [turn EXCEPT ![p] = l]

(* The end of an operation: the lock is released in a finally block.       *)
Finish(p) == /\ holder' = IF holder = p THEN Nobody ELSE holder
             /\ turn' = [turn EXCEPT ![p] = "idle"]
             /\ job' = [job EXCEPT ![p] = NoJob]

(* What follows a step that several operations share.                      *)
After(p) == IF job[p].then = "done" THEN Finish(p)
                                    ELSE Goto(p, job[p].then) /\ UNCHANGED <<holder, job>>

Holds(p, l) == turn[p] = l /\ holder = p

-----------------------------------------------------------------------------
(* Starting an operation.                                                  *)

(* `review show`: the reader gets the draft-content-hash of what is there. *)
Show(p, c) ==
  /\ Start(p, "shown")
  /\ job' = [job EXCEPT ![p].id = c.id, ![p].pin = c.body]
  /\ UNCHANGED <<stagingFiles, env, holder, superseded, lastConn, died, faults>>

(* runReviewUnderLock: an unlocked read that fails fast, then the lock.    *)
PreCheck(p, op) ==
  /\ turn[p] = "shown"
  /\ IF readCandidate(job[p].id) = NoCandidate
       THEN Finish(p)
       ELSE /\ Goto(p, "lock")
            /\ job' = [job EXCEPT ![p].op = op, ![p].seen = readCandidate(job[p].id)]
            /\ UNCHANGED holder
  /\ UNCHANGED <<stagingFiles, env, ghosts>>

(* Operations that go straight for the lock.                               *)
Begin(p, op, id, trusted) ==
  /\ Start(p, "lock")
  /\ job' = [job EXCEPT ![p].op = op, ![p].id = id, ![p].trusted = trusted]
  /\ UNCHANGED <<stagingFiles, env, holder, superseded, lastConn, died, faults>>

Acquire(p) ==
  /\ turn[p] = "lock"
  /\ \/ holder = Nobody /\ holder' = p /\ Goto(p, job[p].op) /\ UNCHANGED job
     \/ holder # Nobody /\ job[p].op # "stage" /\ Finish(p)  \* stage blocks instead
  /\ UNCHANGED <<stagingFiles, env, ghosts>>

-----------------------------------------------------------------------------
(* writeCandidate: the oldest candidate of the target is rewritten under   *)
(* its id, then the other ones are deleted one at a time.                  *)
writeCandidate(p, draft, then, docs) ==
  LET key  == candidateTargetKey(draft)
      same == Matching(key)
      id   == IF same = {} THEN nextId ELSE Oldest(same).id
      c    == [id |-> id, dir |-> draft.dir, slug |-> draft.slug,
               body |-> draft.body, srcs |-> draft.srcs]
  IN /\ id <= MaxCandidates
     /\ queue' = Append(Without(queue, id), c)
     /\ nextId' = IF same = {} THEN nextId + 1 ELSE nextId
     /\ Goto(p, "dedupe")
     /\ job' = [job EXCEPT ![p].todo = {d \in same : d.id # id},
                           ![p].id = id, ![p].then = then, ![p].docs = docs]
     /\ UNCHANGED <<pages, archive, recorded>>

writeFreshCandidate(p, draft) ==
  /\ nextId <= MaxCandidates
  /\ queue' = Append(queue, [id |-> nextId, dir |-> draft.dir, slug |-> draft.slug,
                             body |-> draft.body, srcs |-> draft.srcs])
  /\ nextId' = nextId + 1
  /\ Goto(p, "dedupe")
  /\ job' = [job EXCEPT ![p].todo = {}, ![p].id = nextId, ![p].then = "done"]
  /\ UNCHANGED <<pages, archive, recorded>>

deleteDuplicates(p) ==
  /\ Holds(p, "dedupe")
  /\ IF job[p].todo = {}
       THEN After(p) /\ UNCHANGED queue
       ELSE /\ queue' = Without(queue, Oldest(job[p].todo).id)
            /\ job' = [job EXCEPT ![p].todo = @ \ {Oldest(@)}]
            /\ UNCHANGED <<holder, turn>>
  /\ UNCHANGED <<pages, archive, recorded, nextId, env, ghosts>>

(* What stageEntityPage checks; the plan has allowOverwrite FALSE, so a    *)
(* live page at the target blocks it.                                      *)
assertStagedWriteBudget == Len(queue) + 1 <= PerSession

PlanAllows(t, allowOverwrite) == allowOverwrite \/ pages[t] = NoBody

Stageable(t) == declared /\ PlanAllows(t, FALSE)

stageEntityPage(p) ==
  /\ Holds(p, "stage")
  /\ \E s \in Slugs :
       IF assertStagedWriteBudget /\ Stageable(<<"typed", s>>)
         THEN /\ writeCandidate(p, [dir |-> "typed", slug |-> s, body |-> <<"sdk", 1>>,
                                    srcs |-> {}], "done", {})
              /\ UNCHANGED holder
         ELSE Finish(p) /\ UNCHANGED stagingFiles
  /\ UNCHANGED <<env, ghosts>>

(* The compiler holds a concept for review; the candidate carries the      *)
(* state of every contributing source.                                     *)
HoldConcept(p) ==
  /\ Holds(p, "hold")
  /\ \E s \in Slugs :
       writeCandidate(p, [dir |-> "concepts", slug |-> s, body |-> <<"held", 1>>,
                          srcs |-> Sources], "done", {})
  /\ UNCHANGED <<env, holder, ghosts>>

-----------------------------------------------------------------------------
(* review approve, review reject, SDK promotion.                           *)

connectorPinMatches(c, supplied) == isConnectorCandidate(c) => c.body = supplied

(* applyTypedCandidate needs the profile to declare the type; both routes  *)
(* plan with allowOverwrite TRUE.                                          *)
Promotable(c) == /\ c # NoCandidate
                 /\ c.dir = "typed" => declared
                 /\ PlanAllows(candidateTargetKey(c), TRUE)

FaultUnderLock(p) == job[p].seen

loadCandidateUnderLock(p) == readCandidate(job[p].id)

approveUnderLock(p) ==
  /\ Holds(p, "approve")
  /\ LET c == loadCandidateUnderLock(p)
     IN IF Promotable(c) /\ connectorPinMatches(c, job[p].pin)
          THEN /\ pages' = [pages EXCEPT ![candidateTargetKey(c)] = c.body]
               /\ Goto(p, "states")
               /\ job' = [job EXCEPT ![p].seen = c,
                            ![p].unstated = IF c.dir = "typed" THEN {} ELSE c.srcs]
               /\ UNCHANGED <<queue, archive, recorded, nextId, holder>>
          ELSE Finish(p) /\ UNCHANGED stagingFiles
  /\ UNCHANGED <<env, ghosts>>

(* One state file write per source; then the refresh, which may throw      *)
(* (see Crash), and only then the candidate is removed.                    *)
FaultPersist(p) ==
  /\ Holds(p, "states")
  /\ \/ /\ \E f \in job[p].unstated :
             /\ recorded' = [recorded EXCEPT ![f] = @ \cup {job[p].seen.slug}]
             /\ job' = [job EXCEPT ![p].unstated = @ \ {f}]
        /\ queue' = Without(queue, job[p].id)
        /\ UNCHANGED turn
     \/ job[p].unstated = {} /\ Goto(p, "clear") /\ UNCHANGED <<recorded, job, queue>>
  /\ UNCHANGED <<pages, archive, nextId, env, holder, ghosts>>

persistCandidateSourceStates(p) ==
  /\ Holds(p, "states")
  /\ \/ /\ \E f \in job[p].unstated :
             /\ recorded' = [recorded EXCEPT ![f] = @ \cup {job[p].seen.slug}]
             /\ job' = [job EXCEPT ![p].unstated = @ \ {f}]
        /\ UNCHANGED turn
     \/ job[p].unstated = {} /\ Goto(p, "clear") /\ UNCHANGED <<recorded, job>>
  /\ UNCHANGED <<pages, queue, archive, nextId, env, holder, ghosts>>

ClearCandidate(p) ==
  /\ Holds(p, "clear")
  /\ queue' = Without(queue, job[p].id)
  /\ After(p)
  /\ UNCHANGED <<pages, archive, recorded, nextId, env, ghosts>>

moveCandidateToArchive(c) == /\ queue' = Without(queue, c.id)
                             /\ archive' = archive \cup {c}

rejectUnderLock(p) ==
  /\ Holds(p, "reject")
  /\ LET c == loadCandidateUnderLock(p)
     IN IF c = NoCandidate
          THEN UNCHANGED <<queue, archive>>
          ELSE moveCandidateToArchive(c)
  /\ Finish(p)
  /\ UNCHANGED <<pages, recorded, nextId, env, ghosts>>

promoteCandidateUnderLock(p) ==
  /\ Holds(p, "promote")
  /\ LET c == readCandidate(job[p].id)
     IN IF Promotable(c) /\ c.dir = "typed"
          THEN /\ pages' = [pages EXCEPT ![candidateTargetKey(c)] = c.body]
               /\ Goto(p, "clear")
               /\ UNCHANGED <<queue, archive, recorded, nextId, holder, job>>
          ELSE Finish(p) /\ UNCHANGED stagingFiles
  /\ UNCHANGED <<env, ghosts>>

-----------------------------------------------------------------------------
(* Connector run: gates and rate limit, a fetch without the lock, then     *)
(* staging under it.                                                       *)

(* gateConnectorRun up to the audit preflight, which takes and releases    *)
(* the lock.                                                               *)
gateConnectorRun(p) ==
  /\ declared /\ holder = Nobody
  /\ Start(p, "rate")
  /\ UNCHANGED <<stagingFiles, env, holder, job, superseded, lastConn, died, faults>>

(* enforceRequestInterval: the lock is taken, or the run gives up.         *)
enforceRequestInterval(p) ==
  /\ turn[p] = "rate"
  /\ IF holder # Nobody \/ age < MinInterval
       THEN Finish(p)
       ELSE holder' = p /\ Goto(p, "stamp") /\ UNCHANGED job
  /\ UNCHANGED <<stagingFiles, env, ghosts>>

updateRateStamp(p) ==
  /\ turn[p] = "stamp"
  /\ age' = 0
  /\ holder' = IF holder = p THEN Nobody ELSE holder
  /\ Goto(p, "fetch")
  /\ UNCHANGED <<stagingFiles, declared, job, ghosts>>

(* confinedFetch and composePreparedDraft; a refusal ends the run.         *)
Fetch(p) ==
  /\ turn[p] = "fetch"
  /\ \/ \E n \in Answers :
          /\ job' = [job EXCEPT ![p].op = "connector", ![p].content = <<"conn", n>>]
          /\ Goto(p, "lock")
          /\ UNCHANGED holder
     \/ Finish(p)
  /\ UNCHANGED <<stagingFiles, env, ghosts>>

Supersedable == {c \in Pending : isConnectorCandidate(c)}

(* Same content: a no-op.  Otherwise the audit preflight may refuse, and   *)
(* the earlier drafts are archived one at a time.                          *)
stagePreparedDraft(p) ==
  /\ Holds(p, "connector")
  /\ \/ /\ \/ \E c \in Supersedable : c.body = job[p].content
           \/ ~declared
        /\ Finish(p)
     \/ /\ \A c \in Supersedable : c.body # job[p].content
        /\ declared
        /\ Goto(p, "archive")
        /\ job' = [job EXCEPT ![p].todo = Supersedable, ![p].old = <<>>]
        /\ UNCHANGED holder
  /\ UNCHANGED <<stagingFiles, env, ghosts>>

(* Restoring puts candidates back under their ids.  They were pending      *)
(* before what is staged now; order matters only within one target.        *)
Restored(cs) == cs \o queue

archiveCandidatesWithUndo(p) ==
  /\ Holds(p, "archive")
  /\ \/ /\ job[p].todo # {}
        /\ LET c == Oldest(job[p].todo)
           IN /\ moveCandidateToArchive(c)
              /\ job' = [job EXCEPT ![p].todo = @ \ {c}, ![p].old = Append(@, c)]
              /\ superseded' = superseded \cup {c.id}
        /\ UNCHANGED <<turn, holder, faults>>
     \/ /\ job[p].todo # {} /\ faults < MaxFaults     \* the rename fails
        /\ faults' = faults + 1
        /\ queue' = Restored(job[p].old) /\ archive' = archive \ ToSet(job[p].old)
        /\ superseded' = superseded \ {c.id : c \in ToSet(job[p].old)}
        /\ Finish(p)
     \/ /\ job[p].todo = {}
        /\ Goto(p, "replace")
        /\ UNCHANGED <<queue, archive, job, superseded, holder, faults>>
  /\ UNCHANGED <<pages, recorded, nextId, env, lastConn, died, ops>>

RestoreArchived(p) == /\ queue' = Restored(job[p].old)
                      /\ superseded' = superseded \ {c.id : c \in ToSet(job[p].old)}
                      /\ archive' = archive \ ToSet(job[p].old)
                      /\ Finish(p)
                      /\ UNCHANGED <<pages, recorded, nextId>>

freshCandidateId(p) == job[p].old # <<>>

stageReplacementOrRestore(p) ==
  /\ Holds(p, "replace")
  /\ LET draft == [dir |-> ConnTarget[1], slug |-> ConnTarget[2],
                   body |-> job[p].content, srcs |-> {}]
     IN IF assertStagedWriteBudget /\ Stageable(ConnTarget)
          THEN /\ IF freshCandidateId(p) THEN writeFreshCandidate(p, draft)
                                         ELSE writeCandidate(p, draft, "done", {})
               /\ lastConn' = job'[p].id
               /\ UNCHANGED <<holder, superseded>>
          ELSE RestoreArchived(p) /\ UNCHANGED lastConn
  /\ UNCHANGED <<env, died, ops, faults>>

-----------------------------------------------------------------------------
(* OKF import.  A bundle holds at most one document of each kind: native   *)
(* (untyped), typed, and unknown (a type the profile does not declare).    *)

(* filterCollisions compares slugs over the whole queue,                   *)
(* filterTypedCollisions targets; an unknown document always passes.       *)
Keeps(kind, s) ==
  CASE kind = "native" -> /\ \A c \in Pending : c.slug # s
                          /\ pages[<<"concepts", s>>] = NoBody
    [] kind = "typed"  -> Matching(<<"typed", s>>) = {} /\ pages[<<"typed", s>>] = NoBody
    [] OTHER           -> TRUE

(* assertQueueCapacity refuses a bundle the queue has no room for, when    *)
(* the caller gave a cap and does not trust the bundle.                    *)
runOkfImport(p) ==
  /\ Holds(p, "import")
  /\ \E bundle \in SUBSET {"native", "typed", "unknown"}, s \in Slugs,
        capped \in BOOLEAN :
       LET docs == {<<k, s>> : k \in {k \in bundle : Keeps(k, s)}}
       IN IF job[p].trusted \/ ~capped \/ Len(queue) + Cardinality(docs) <= PerSession
            THEN /\ job' = [job EXCEPT ![p].docs = docs]
                 /\ Goto(p, "doc")
                 /\ UNCHANGED holder
            ELSE Finish(p)
  /\ UNCHANGED <<stagingFiles, env, ghosts>>

OkfDraft(dir, s) == [dir |-> dir, slug |-> s, body |-> <<"okf", 1>>, srcs |-> {}]

(* One document, the native ones first.  Native: written live when trusted, else staged.  Typed:  *)
(* staged, and promoted when trusted; a refusal (field contract, unknown   *)
(* type, live page) falls back to an untyped candidate, an exhausted       *)
(* budget aborts the import.  Unknown: always the untyped fallback.        *)
applyOneDoc(p) ==
  /\ Holds(p, "doc")
  /\ \E doc \in job[p].docs :
       LET kind == doc[1]
           s    == doc[2]
           rest == job[p].docs \ {doc}
       IN /\ kind # "native" => \A other \in rest : other[1] # "native"
          /\ \/ /\ kind = "native" /\ job[p].trusted
                /\ pages' = [pages EXCEPT ![<<"concepts", s>>] = <<"okf", 1>>]
                /\ job' = [job EXCEPT ![p].docs = rest]
                /\ UNCHANGED <<queue, archive, recorded, nextId, holder, turn>>
             \/ /\ kind = "typed" /\ assertStagedWriteBudget /\ Stageable(<<"typed", s>>)
                /\ writeCandidate(p, OkfDraft("typed", s),
                                  IF job[p].trusted THEN "promoteStaged" ELSE "doc", rest)
                /\ UNCHANGED holder
             \/ /\ kind = "typed" /\ ~assertStagedWriteBudget
                /\ Finish(p) /\ UNCHANGED stagingFiles
             \/ /\ \/ kind = "unknown"
                   \/ kind = "native" /\ ~job[p].trusted
                   \/ kind = "typed" /\ assertStagedWriteBudget
                /\ writeCandidate(p, OkfDraft("concepts", s), "doc", rest)
                /\ UNCHANGED holder
  /\ UNCHANGED <<env, ghosts>>

promoteStaged(p) ==
  /\ Holds(p, "promoteStaged")
  /\ LET c == readCandidate(job[p].id)
     IN IF Promotable(c)
          THEN /\ pages' = [pages EXCEPT ![candidateTargetKey(c)] = c.body]
               /\ Goto(p, "clear")
               /\ job' = [job EXCEPT ![p].then = "doc"]
          ELSE Goto(p, "doc") /\ UNCHANGED <<pages, job>>
  /\ UNCHANGED <<queue, archive, recorded, nextId, env, holder, ghosts>>

ImportDone(p) == /\ Holds(p, "doc") /\ job[p].docs = {}
                 /\ Finish(p) /\ UNCHANGED <<stagingFiles, env, ghosts>>

-----------------------------------------------------------------------------
(* The environment.                                                        *)

(* The process dies, or a call it makes throws: its lock is released or    *)
(* becomes stale and is reclaimed.                                         *)
Crash(p) ==
  /\ turn[p] # "idle" /\ faults < MaxFaults
  /\ faults' = faults + 1 /\ died' = TRUE
  /\ Finish(p)
  /\ UNCHANGED <<stagingFiles, env, superseded, lastConn, ops>>

(* Somebody writes a page by hand, or edits the profile.                   *)
HandWrite(t) ==
  /\ pages[t] = NoBody /\ faults < MaxFaults
  /\ pages' = [pages EXCEPT ![t] = <<"hand", 1>>]
  /\ faults' = faults + 1
  /\ UNCHANGED <<queue, archive, recorded, nextId, env, holder, turn, job,
                 superseded, lastConn, died, ops>>

Redeclare ==
  /\ faults < MaxFaults
  /\ declared' = ~declared /\ faults' = faults + 1
  /\ UNCHANGED <<stagingFiles, age, holder, turn, job, superseded, lastConn, died, ops>>

Tick == /\ age < MinInterval /\ age' = age + 1
        /\ UNCHANGED <<stagingFiles, declared, holder, turn, job, ghosts>>

Step(p) ==
  \/ \E c \in Pending : Show(p, c)
  \/ \E op \in {"approve", "reject"} : PreCheck(p, op)
  \/ \E c \in Pending : c.dir = "typed" /\ Begin(p, "promote", c.id, FALSE)
  \/ \E op \in {"stage", "hold"} : Begin(p, op, 0, FALSE)
  \/ \E trusted \in BOOLEAN : Begin(p, "import", 0, trusted)
  \/ Acquire(p)
  \/ stageEntityPage(p) \/ HoldConcept(p) \/ deleteDuplicates(p)
  \/ approveUnderLock(p) \/ persistCandidateSourceStates(p) \/ ClearCandidate(p)
  \/ rejectUnderLock(p) \/ promoteCandidateUnderLock(p)
  \/ gateConnectorRun(p) \/ enforceRequestInterval(p) \/ updateRateStamp(p) \/ Fetch(p)
  \/ stagePreparedDraft(p) \/ archiveCandidatesWithUndo(p) \/ stageReplacementOrRestore(p)
  \/ runOkfImport(p) \/ applyOneDoc(p) \/ promoteStaged(p) \/ ImportDone(p)

StagingNext == \/ \E p \in Sessions : Step(p) \/ Crash(p)
        \/ \E t \in Targets : HandWrite(t)
        \/ Redeclare \/ Tick

StagingSpec == StagingInit /\ [][StagingNext]_stagingVars

-----------------------------------------------------------------------------
(* Types, and: an id is pending or archived, never both or twice.          *)
StagingTypeOK ==
  /\ pages \in [Targets -> Bodies \cup {NoBody}]
  /\ Pending \cup archive \subseteq Candidate
  /\ \A i, j \in DOMAIN queue : queue[i].id = queue[j].id => i = j
  /\ \A c \in archive : /\ \A d \in archive : c.id = d.id => c = d
                        /\ \A d \in Pending : c.id # d.id
  /\ recorded \in [Sources -> SUBSET Slugs]
  /\ holder \in Sessions \cup {Nobody}
  /\ declared \in BOOLEAN

(* A crash inside `review approve` never strands a page: while a held      *)
(* concept's page is live and some contributing source does not record it, *)
(* a candidate for it still exists, pending (approving again completes it) *)
(* or archived (somebody rejected it after the crash).                     *)
ApprovalResumable ==
  \A s \in Slugs :
    /\ pages[<<"concepts", s>>] = <<"held", 1>>
    /\ \E f \in Sources : s \notin recorded[f]
    => \E c \in Pending \cup archive : candidateTargetKey(c) = <<"concepts", s>>

(* Supersede is all or nothing: unless a process died, a draft a connector *)
(* run archived is either back in the queue or was replaced by a later     *)
(* draft of the same key.                                                  *)
SupersedeAllOrNothing ==
  (~died /\ \A p \in Sessions : turn[p] \notin {"archive", "replace"})
    => \A c \in archive : c.id \in superseded => c.id < lastConn

(* Every request the rate limit lets through is at least MinInterval after *)
(* the one before, however two runs interleave.                            *)
RequestsSpaced == age' < age => age = MinInterval

(* Only a candidate that is pending at that moment, with that body, turns  *)
(* into a page: approve and promote re-read it under the lock, so one that *)
(* was rejected or rewritten meanwhile is never published.                 *)
OnlyPendingPublished ==
  \A t \in Targets : pages'[t] # pages[t] =>
    \/ pages'[t][1] = "hand"
    \/ \E p \in Sessions : Holds(p, "doc") /\ job[p].trusted
    \/ \E c \in Pending : candidateTargetKey(c) = t /\ c.body = pages'[t]

(* What `review approve` publishes of a connector's is what the approver   *)
(* was shown, although ids are rewritten in place by later drafts.         *)
PinHolds ==
  \A t \in Targets, p \in Sessions :
    (pages'[t] # pages[t] /\ Holds(p, "approve") /\ pages'[t][1] = "conn")
      => pages'[t] = job[p].pin

(* A candidate leaves the queue only for the archive, for its live page,   *)
(* or because another candidate for the same target takes its place.       *)
NothingDropped ==
  \A c \in Pending : c \in Pending' \/ c \in archive'
    \/ pages[<<c.dir, c.slug>>] # NoBody
    \/ \E d \in Pending' : <<d.dir, d.slug>> = <<c.dir, c.slug>>

(* No step adds a second pending candidate for a target.                   *)
OnePerTarget ==
  \A t \in Targets :
    LET N(q) == Cardinality({c \in ToSet(q) : <<c.dir, c.slug>> = t})
    IN N(queue') <= N(queue) \/ N(queue') <= 1

(* The review queue survives a death or a failure at any step of approve   *)
(* and of a connector's supersede (review-approve.ts, connectors/run.ts).  *)
QueueSound == StagingTypeOK /\ ApprovalResumable /\ SupersedeAllOrNothing

(* What becomes a page is what was pending and what the reviewer saw,      *)
(* although both are read before the lock (review-helpers.ts).             *)
PublishedAsApproved == [][OnlyPendingPublished /\ PinHolds]_stagingVars

(* No step of any process loses a candidate, doubles one, or sends a       *)
(* request too early (candidates.ts, rate-limit.ts).                       *)
QueueSteps == [][NothingDropped /\ OnePerTarget /\ RequestsSpaced]_stagingVars
=============================================================================
