------------------------------- MODULE Watch -------------------------------
(***************************************************************************)
(* llmwiki watch: src/commands/watch.ts.  File events are debounced, one   *)
(* compile runs at a time in this process, and events that arrive while it *)
(* runs are remembered by one flag.  Another process may compile too; the  *)
(* project lock decides between the two, and compileAndReport returns at   *)
(* once, without an exception, when the lock is taken.                     *)
(***************************************************************************)
EXTENDS Naturals

CONSTANTS
    Files,          \* sources the author edits
    OtherCompiles,  \* another process runs compile on the same project
    CompileFails    \* a compile may throw, before or after it has detected its changes

ASSUME WatchAssumption == {OtherCompiles, CompileFails} \subseteq BOOLEAN

VARIABLES
    dirty,          \* files whose content no compile has taken up
    events,         \* files with a chokidar event still to be delivered
    timer,          \* debounceTimer is set
    compiling,      \* triggerCompile's flag
    pending,        \* pendingRecompile
    phase,          \* where this process's compile is
    batch,          \* the changes the running compile detected
    other,          \* where the other process's compile is
    missed          \* history: this process's last compile lost the lock or threw

watchVars == <<dirty, events, timer, compiling, pending, phase, batch, other, missed>>

\* The project was compiled before watch started: ignoreInitial makes the watcher
\* blind to what changed earlier.
WatchInit ==
    /\ dirty = {} /\ events = {} /\ timer = FALSE
    /\ compiling = FALSE /\ pending = FALSE
    /\ phase = "none" /\ batch = {} /\ other = "none" /\ missed = FALSE

\* The author saves a file; the watcher is told later.
Edit(f) ==
    /\ dirty' = dirty \cup {f} /\ events' = events \cup {f}
    /\ UNCHANGED <<timer, compiling, pending, phase, batch, other, missed>>

\* scheduleCompile: any earlier timer is replaced.
scheduleCompile(f) ==
    /\ f \in events /\ events' = events \ {f}
    /\ timer' = TRUE
    /\ UNCHANGED <<dirty, compiling, pending, phase, batch, other, missed>>

\* Fault: an event during a compile is dropped.
FaultForget == FALSE

\* What triggerCompile leaves in pendingRecompile when a compile is running.
Remember == TRUE

\* The timer calls triggerCompile.
triggerCompile ==
    /\ timer /\ timer' = FALSE
    /\ IF compiling
       THEN pending' = Remember /\ UNCHANGED <<compiling, phase>>
       ELSE compiling' = TRUE /\ phase' = "acquire" /\ UNCHANGED pending
    /\ UNCHANGED <<dirty, events, batch, other, missed>>

\* compileAndReport takes the lock, or reports that it could not and returns.
AcquireLock ==
    /\ phase = "acquire"
    /\ phase' = IF other = "none" THEN "detect" ELSE "done"
    /\ missed' = (missed \/ other # "none")
    /\ UNCHANGED <<dirty, events, timer, compiling, pending, batch, other>>

DetectChanges ==
    /\ phase = "detect"
    /\ batch' = dirty /\ dirty' = {} /\ phase' = "run"
    /\ missed' = FALSE
    /\ UNCHANGED <<events, timer, compiling, pending, other>>

CompileEnds ==
    /\ phase = "run"
    /\ phase' = "done" /\ batch' = {}
    /\ UNCHANGED <<dirty, events, timer, compiling, pending, other, missed>>

\* runCompileOnce catches the error and goes on; the sources stay changed.
CompileThrows ==
    /\ CompileFails /\ phase \in {"detect", "run"}
    /\ dirty' = dirty \cup batch
    /\ phase' = "done" /\ batch' = {}
    /\ missed' = TRUE
    /\ UNCHANGED <<events, timer, compiling, pending, other>>

\* Fault: the flag is not cleared after the last compile.
FaultStuckFlag ==
    /\ phase = "done"
    /\ pending' = FALSE
    /\ phase' = IF pending THEN "acquire" ELSE "none"
    /\ UNCHANGED <<dirty, events, timer, compiling, batch, other, missed>>

\* After the await: compile again if something arrived meanwhile.
AfterCompile ==
    /\ phase = "done"
    /\ compiling' = pending /\ pending' = FALSE
    /\ phase' = IF pending THEN "acquire" ELSE "none"
    /\ UNCHANGED <<dirty, events, timer, batch, other, missed>>

LockFree == other = "none" /\ phase \notin {"detect", "run"}

OtherStarts ==
    /\ OtherCompiles /\ LockFree
    /\ other' = "detect"
    /\ UNCHANGED <<dirty, events, timer, compiling, pending, phase, batch, missed>>

OtherDetects ==
    /\ other = "detect"
    /\ batch' = dirty /\ dirty' = {} /\ other' = "run"
    /\ UNCHANGED <<events, timer, compiling, pending, phase, missed>>

OtherEnds ==
    /\ other = "run"
    /\ other' = "none" /\ batch' = {}
    /\ UNCHANGED <<dirty, events, timer, compiling, pending, phase, missed>>

OtherThrows ==
    /\ CompileFails /\ other # "none"
    /\ dirty' = dirty \cup batch
    /\ other' = "none" /\ batch' = {}
    /\ UNCHANGED <<events, timer, compiling, pending, phase, missed>>

Process ==
    \/ \E f \in Files : scheduleCompile(f)
    \/ triggerCompile \/ AcquireLock \/ DetectChanges \/ CompileEnds
    \/ CompileThrows \/ AfterCompile

WatchNext ==
    \/ \E f \in Files : Edit(f)
    \/ Process
    \/ OtherStarts \/ OtherDetects \/ OtherEnds \/ OtherThrows

WatchSpec == WatchInit /\ [][WatchNext]_watchVars

\* Events are delivered, an awaited compile ends and the timer fires: a pause of
\* DEBOUNCE_MS between two edits is assumed to come.
WatchFairSpec ==
    /\ WatchSpec
    /\ \A f \in Files : WF_watchVars(scheduleCompile(f))
    /\ WF_watchVars(triggerCompile) /\ WF_watchVars(AcquireLock) /\ WF_watchVars(DetectChanges)
    /\ WF_watchVars(CompileEnds) /\ WF_watchVars(AfterCompile)
    /\ WF_watchVars(OtherDetects) /\ WF_watchVars(OtherEnds)

\* The flags of the two closures agree with where the compile is.
WatchTypeOK ==
    /\ dirty \subseteq Files /\ events \subseteq Files /\ batch \subseteq Files
    /\ timer \in BOOLEAN /\ pending \in BOOLEAN /\ missed \in BOOLEAN
    /\ phase \in {"none", "acquire", "detect", "run", "done"}
    /\ other \in {"none", "detect", "run"}
    /\ compiling = (phase # "none") /\ (pending => compiling)

\* When the watcher has come to rest, an edit is left uncompiled only if its last
\* compile lost the lock or threw: neither the debounce timer nor the one flag that
\* stands for all the events of a running compile loses any.
NoEditForgotten ==
    events = {} /\ ~timer /\ phase = "none" => dirty = {} \/ missed

\* Every edit is eventually taken up by a compile, whatever was running when it was
\* made, unless a compile of the watcher lost the lock or threw.
EveryEditCompiled == \A f \in Files : f \in dirty ~> (f \notin dirty \/ missed)
=============================================================================
