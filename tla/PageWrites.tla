----------------------------- MODULE PageWrites -----------------------------
(***************************************************************************)
(* The one path by which the program writes a page: src/trust/checks.ts,   *)
(* decision.ts, planner.ts and page-apply.ts, for the surfaces that use    *)
(* it.  The planner runs the mandatory checks and, in a second look at the *)
(* disk, picks create or update; the executor checks again and writes.     *)
(* The project lock keeps other commands out, not the owner's editor,      *)
(* which may create, change or remove the page between any two looks.      *)
(***************************************************************************)
EXTENDS Integers

CONSTANTS
    SourceCap,      \* MAX_SOURCE_CHARS
    GeneratedCap,   \* GENERATED_PAGE_MAX_CHARS
    MaxChars,       \* bound: the longest body that is tried
    MaxHandEdits,   \* bound: edits by the owner
    Gone            \* no page, no candidate, nothing under way

\* A body: its length, and whether its frontmatter parses.
PageBodies == [chars : Nat, parses : BOOLEAN]

\* The names a page can be asked for under: slug-safe, a safe file name, neither.
Names == {"slug", "stem", "unsafe"}

\* Who writes pages, with what identity, origin, routing and intent.
SurfaceOf == [
    compile  |-> [entity |-> FALSE, origin |-> "compile",  routed |-> FALSE, allowOverwrite |-> TRUE],
    approve  |-> [entity |-> FALSE, origin |-> "review",   routed |-> FALSE, allowOverwrite |-> TRUE],
    promote  |-> [entity |-> TRUE,  origin |-> "review",   routed |-> FALSE, allowOverwrite |-> TRUE],
    workflow |-> [entity |-> TRUE,  origin |-> "workflow", routed |-> TRUE,  allowOverwrite |-> FALSE],
    sdk      |-> [entity |-> TRUE,  origin |-> "sdk",      routed |-> TRUE,  allowOverwrite |-> FALSE]]

\* A planned page mutation and how far it is.  A transition is not planned.
PageMutations ==
    [surface : DOMAIN SurfaceOf \cup {"lifecycle"},
     origin : {"compile", "review", "workflow", "sdk", "lifecycle"},
     name : {"slug", "stem"}, body : PageBodies,
     operation : {"none", "create", "update"}, step : {"probe", "apply", "write"}]

ASSUME PageWritesAssumption ==
    /\ SourceCap \in Nat /\ GeneratedCap \in Nat /\ SourceCap <= GeneratedCap
    /\ MaxChars \in Nat /\ MaxHandEdits \in Nat
    /\ Gone \notin PageMutations

VARIABLES
    target,     \* the page at the target path: its body, or Gone
    write,      \* the page mutation under way
    draft,      \* the typed candidate the SDK staged, or Gone
    handEdits,
    outcome,    \* how the last mutation ended
    touched     \* history: steps of this mutation before which the owner touched the page

pageVars == <<target, write, draft, handEdits, outcome, touched>>

Decisions == {"allow", "allow-with-warning", "stage-for-review", "quarantine", "deny"}
Results == [verdict : {"pass", "warn", "block"}, quarantine : BOOLEAN]

-----------------------------------------------------------------------------
(* The trust floor. *)

composeTrustDecision(results, routed) ==
    LET blocks == {r \in results : r.verdict = "block"}
    IN  IF blocks # {} THEN IF \E r \in blocks : r.quarantine THEN "quarantine"
                            ELSE IF routed THEN "stage-for-review" ELSE "deny"
        ELSE IF \E r \in results : r.verdict = "warn" THEN "allow-with-warning"
        ELSE "allow"

LIVE_WRITE_DECISIONS == {"allow", "allow-with-warning"}

\* Fault: what the SDK stages may be as long as a generated page.
FaultOriginCap(origin) == IF origin \in {"compile", "sdk"} THEN GeneratedCap ELSE SourceCap

resourceCapForOrigin(origin) == IF origin = "compile" THEN GeneratedCap ELSE SourceCap

\* checkIdentitySafe and checkDefaultIdentitySafe; a name that passes stays under the
\* root, so path confinement adds no block of its own here.
nameSafe(entity, name) == IF entity THEN name = "slug" ELSE name # "unsafe"

Verdict(ok) == [verdict |-> IF ok THEN "pass" ELSE "block", quarantine |-> FALSE]

checkResourceLimit(body, cap) == Verdict(body.chars <= cap)
checkFrontmatter(body) == Verdict(body.parses)
checkTargetCollision(s) == Verdict(target = Gone \/ SurfaceOf[s].allowOverwrite)

\* The identity check and the mandatory ones, on the page as it is now.
planDecision(s, name, body) ==
    composeTrustDecision(
        {Verdict(nameSafe(SurfaceOf[s].entity, name)), checkTargetCollision(s),
         checkResourceLimit(body, resourceCapForOrigin(SurfaceOf[s].origin)), checkFrontmatter(body)},
        SurfaceOf[s].routed)

\* effectiveMaxChars: a rewrite may be as long as the page already is.
effectiveMaxChars(w) ==
    LET cap == resourceCapForOrigin(w.origin)
    IN  IF w.operation = "update" /\ target # Gone /\ target.chars > cap THEN target.chars ELSE cap

\* Fault: the planner's word is taken for the body.
FaultFloor(w) == TRUE

assertFloorAtApply(w) ==
    composeTrustDecision({checkResourceLimit(w.body, effectiveMaxChars(w)), checkFrontmatter(w.body)}, FALSE)
        \in LIVE_WRITE_DECISIONS

-----------------------------------------------------------------------------
(* One mutation at a time, under the lock. *)

EndWrite(how) == write' = Gone /\ outcome' = how /\ touched' = {}

\* applyTypedCandidate plans the candidate as it was staged.
applyTypedCandidate(s, name, body) ==
    s = "promote" => draft # Gone /\ draft = [name |-> name, body |-> body]

\* stageEntityPage keeps the planned page as a candidate, which replaces one of the
\* same target.
keepDraft(w) == draft' = [name |-> w.name, body |-> w.body] /\ EndWrite("staged")

\* The checks of planPageMutation.  What they block is skipped (compile), parked
\* (workflow) or refused with an error, and nothing is written.
planPageMutation(s, name, body) ==
    /\ write = Gone
    /\ applyTypedCandidate(s, name, body)
    /\ IF planDecision(s, name, body) \in LIVE_WRITE_DECISIONS
       THEN /\ write' = [surface |-> s, origin |-> SurfaceOf[s].origin, name |-> name,
                         body |-> body, operation |-> "none", step |-> "probe"]
            /\ UNCHANGED <<outcome, touched>>
       ELSE EndWrite(IF s = "promote" THEN "unpromotable" ELSE "blocked")
    /\ UNCHANGED <<target, draft, handEdits>>

\* targetAlreadyExists, a look of its own, at the end of the plan.
targetAlreadyExists ==
    /\ write # Gone /\ write.step = "probe"
    /\ IF write.surface = "sdk"
       THEN keepDraft(write)
       ELSE /\ write' = [write EXCEPT !.operation = IF target = Gone THEN "create" ELSE "update",
                                      !.step = "apply"]
            /\ UNCHANGED <<draft, outcome, touched>>
    /\ UNCHANGED <<target, handEdits>>

\* applyLifecycleLocked reads the page and builds an update by hand: a field or two of
\* its frontmatter change, and no planner sees it.
buildLifecycleUpdate(chars) ==
    /\ write = Gone /\ target # Gone /\ target.parses
    /\ chars \in (target.chars - 1)..(target.chars + 1)
    /\ write' = [surface |-> "lifecycle", origin |-> "lifecycle", name |-> "slug",
                 body |-> [chars |-> chars, parses |-> TRUE], operation |-> "update", step |-> "apply"]
    /\ UNCHANGED <<target, draft, handEdits, outcome, touched>>

\* Fault: the planner's look is taken for the page's absence.
FaultCollides(w) == FALSE

createCollides(w) == w.operation = "create" /\ target # Gone

\* applyPageMutationLocked up to its write; what it refuses throws.
assertApply ==
    /\ write # Gone /\ write.step = "apply"
    /\ IF createCollides(write) \/ ~assertFloorAtApply(write) THEN EndWrite("refused")
       ELSE write' = [write EXCEPT !.step = "write"] /\ UNCHANGED <<outcome, touched>>
    /\ UNCHANGED <<target, draft, handEdits>>

\* writeOne; a promoted candidate is then deleted.
writeOne ==
    /\ write # Gone /\ write.step = "write"
    /\ target' = write.body
    /\ draft' = IF write.surface = "promote" THEN Gone ELSE draft
    /\ EndWrite("written")
    /\ UNCHANGED handEdits

\* The owner creates, changes or removes the page.
HandEdit(body) ==
    /\ handEdits < MaxHandEdits /\ body # target
    /\ target' = body /\ handEdits' = handEdits + 1
    /\ touched' = IF write = Gone THEN {} ELSE touched \cup {write.step}
    /\ UNCHANGED <<write, draft, outcome>>

PageInit ==
    /\ target = Gone /\ write = Gone /\ draft = Gone
    /\ handEdits = 0 /\ outcome = "none" /\ touched = {}

Tried == [chars : 1..MaxChars, parses : BOOLEAN]

PageNext ==
    \/ \E s \in DOMAIN SurfaceOf, name \in Names, body \in Tried : planPageMutation(s, name, body)
    \/ \E chars \in 1..(MaxChars + 1) : buildLifecycleUpdate(chars)
    \/ targetAlreadyExists \/ assertApply \/ writeOne
    \/ \E body \in Tried \cup {Gone} : HandEdit(body)

PageSpec == PageInit /\ [][PageNext]_pageVars

-----------------------------------------------------------------------------
(* Properties. *)

\* The state's type; a staged candidate and a typed write have a slug-safe name.
PageTypeOK ==
    /\ target \in PageBodies \cup {Gone}
    /\ write # Gone =>
          /\ write \in PageMutations
          /\ write.surface \notin {"compile", "approve"} => write.name = "slug"
    /\ draft # Gone => draft.name = "slug" /\ draft.body \in PageBodies
    /\ handEdits \in Nat
    /\ outcome \in {"none", "blocked", "unpromotable", "staged", "refused", "written"}
    /\ touched \subseteq {"probe", "apply", "write"}

\* A surface that declared no overwrite replaces a page only if the owner put it there
\* in one of two windows: between the planner's check and its second look, which then
\* calls the write an update, or between the executor's look and its rename
\* (checks.ts: "a strict create never silently overwrites"; page-apply.ts).
CreateNeverOverwrites ==
    [][(writeOne /\ target # Gone /\ write.surface = "workflow")
          => touched \cap {"probe", "write"} # {}]_pageVars

\* What the planner cleared, the executor refuses only because a page appeared where
\* it was to be created: the two never disagree on a cap or a body, also when the page
\* was removed or shortened in between (page-apply.ts "SAME origin->cap mapping").
PlanHolds ==
    (write # Gone /\ write.surface # "lifecycle" /\ assertApply /\ write' = Gone)
       => createCollides(write) /\ "apply" \in touched

\* No write of the program leaves a page that does not parse, or one above the cap of
\* its origin that is longer than it was - whatever built the mutation - unless the
\* owner shortened or removed the page under the executor.
FloorHolds ==
    writeOne =>
       /\ write.body.parses
       /\ \/ write.body.chars <= resourceCapForOrigin(write.origin)
          \/ target # Gone /\ write.body.chars <= target.chars
          \/ "write" \in touched

\* A candidate the SDK staged is never refused by the planner when it is promoted: it
\* would be stuck in review (staging.ts: "a blocked write never lands an un-promotable
\* candidate").
StagedPromotable == outcome # "unpromotable"

\* Types, names that are slugs on every surface that promises it, and no staged
\* candidate stuck in review.
PageSound == PageTypeOK /\ StagedPromotable

\* Planner and executor hold the same floor, however the page changes between them.
WriteHolds == [][PlanHolds /\ FloorHolds]_pageVars
=============================================================================
