----------------------------- MODULE TapClient -----------------------------
(***************************************************************************)
(* The reader's side of a template tap (src/profile/templates/taps) and the *)
(* project that installs from it (install.ts, update.ts, update-apply.ts,   *)
(* status.ts), composed with the publisher.                                 *)
(*                                                                         *)
(* Operator state is one file (tap) changed under the tap lock, and a cache *)
(* of indexes by sequence and of packages.  A refresh reads the state and   *)
(* fetches without the lock, then commits under it if the state is still    *)
(* the one it read; several may run at once, and any may die between its    *)
(* writes.  A fetch may return any tree that was ever served.  An install   *)
(* or update first resolves its packages without locks, for the user to     *)
(* review, and resolves them again under the project lock and the tap lock. *)
(*                                                                         *)
(* The template has one version per coordinate; a newer coordinate is a     *)
(* larger number.  One tap, one project, one template; a local or builtin   *)
(* package is the digest Builtin.  Hand edits of the profile during the     *)
(* locked part of an update are left out.                                   *)
(***************************************************************************)
EXTENDS Publisher

CONSTANTS
    Refreshers,       \* processes that refresh the tap
    NoTap, NoIndex, NoProfile, NoLock, Builtin, Edited,
    MaxTapStateItems, \* bound of the code: entries of one continuity collection
    MaxClientOps,     \* bound: commands started on the client
    MaxMishaps        \* bound: deaths, lost caches, expiries

ASSUME ClientAssumption ==
    /\ NoTap \notin Refreshers
    /\ NoIndex \notin Indexes

VARIABLES
    tap,        \* the tap's source state, or NoTap
    indexCache, \* cached indexes
    pkgCache,   \* cached envelopes, one for a coordinate and digest
    tapLock,    \* the refresher inside the tap lock, or NoTap
    refresh,    \* the refreshers
    expired,    \* sequences whose index has expired
    project,    \* profile, advisory lock and corpus of the project
    job,        \* the install or update command
    clientops, mishaps

clientvars == <<tap, indexCache, pkgCache, tapLock, refresh, expired, project, job, clientops, mishaps>>
allvars == <<pubvars, clientvars>>

NoJob == [at |-> "idle"]

ClientInit ==
    /\ tap = NoTap
    /\ indexCache = {}
    /\ pkgCache = {}
    /\ tapLock = NoTap
    /\ refresh = [r \in Refreshers |-> NoJob]
    /\ expired = {}
    /\ project = [prof |-> NoProfile, lock |-> NoLock, corpus |-> "empty"]
    /\ job = NoJob
    /\ clientops = 0
    /\ mishaps = 0

Init == PublisherInit /\ ClientInit

Starts == clientops < MaxClientOps /\ clientops' = clientops + 1
Mishap == mishaps < MaxMishaps /\ mishaps' = mishaps + 1
Unlocked == tapLock = NoTap

(***************************************************************************)
(* Managing the tap                                                         *)
(***************************************************************************)
newTapSource(key) ==
    [on |-> TRUE, key |-> key, retired |-> {}, acc |-> NoIndex, pins |-> EmptyPins]

(* The key comes from the user; the publisher hands out the current one.  A  *)
(* retained tap is only switched on again, for the key it has now.           *)
addTap ==
    /\ Starts /\ Unlocked
    /\ \/ tap = NoTap /\ tap' = newTapSource(ws.tapKey)
       \/ /\ tap # NoTap /\ ~tap.on /\ tap.key = ws.tapKey
          /\ tap' = [tap EXCEPT !.on = TRUE]
    /\ UNCHANGED <<pubvars, indexCache, pkgCache, tapLock, refresh, expired, project, job, mishaps>>

removeTap ==
    /\ Starts /\ Unlocked
    /\ tap # NoTap /\ tap.on
    /\ tap' = [tap EXCEPT !.on = FALSE]
    /\ UNCHANGED <<pubvars, indexCache, pkgCache, tapLock, refresh, expired, project, job, mishaps>>

forgetTap ==
    /\ Starts /\ Unlocked
    /\ tap # NoTap
    /\ tap' = NoTap
    /\ UNCHANGED <<pubvars, indexCache, pkgCache, tapLock, refresh, expired, project, job, mishaps>>

(***************************************************************************)
(* Refreshing                                                               *)
(***************************************************************************)
assertContinuityMatchesIndex(idx, source) ==
    idx.pub = source.pins.pub /\ idx.pkgs \subseteq source.pins.coords

(* The index the state accepted, out of the cache: the one of that sequence, *)
(* if it still is that very index.                                           *)
loadAcceptedIndex(source) ==
    {i \in indexCache :
        /\ i.seq = source.pins.seq
        /\ i = source.acc
        /\ i.signer = source.key
        /\ assertContinuityMatchesIndex(i, source)}

nextSource(source, idx) ==
    [source EXCEPT !.key = idx.signer,
                   !.retired = IF idx.signer = source.key THEN @ ELSE @ \cup {source.key},
                   !.acc = idx,
                   !.pins = advancePublisherPins(idx, @)]

verifyTapIndex(idx) == idx.seq \notin expired

(* What a fetched index leads to: a repair of a lost cache, a successor of   *)
(* the state that was read, or an error.                                     *)
Repairs(source, idx) ==
    /\ idx.seq = source.pins.seq
    /\ loadAcceptedIndex(source) = {}
    /\ idx = source.acc
    /\ idx.signer = source.key

Succeeds(source, idx) ==
    /\ idx.seq # source.pins.seq
    /\ AcceptsTapKey(idx, source.key, source.retired)
    /\ verifyTapIndex(idx)
    /\ Advances(idx, source.pins)

RefreshRead(r) ==
    /\ Starts
    /\ refresh[r].at = "idle"
    /\ tap # NoTap /\ tap.on
    /\ refresh' = [refresh EXCEPT ![r] = [at |-> "read", from |-> tap]]
    /\ UNCHANGED <<pubvars, tap, indexCache, pkgCache, tapLock, expired, project, job, mishaps>>

RefreshFetch(r) ==
    /\ refresh[r].at = "read"
    /\ \E t \in served :
           LET source == refresh[r].from
               next == IF t.idx.seq = source.pins.seq THEN source ELSE nextSource(source, t.idx)
           IN  refresh' = [refresh EXCEPT ![r] =
                   IF Repairs(source, t.idx) \/ Succeeds(source, t.idx)
                   THEN [at |-> "fetched", from |-> source, idx |-> t.idx, next |-> next]
                   ELSE NoJob]
    /\ UNCHANGED <<pubvars, tap, indexCache, pkgCache, tapLock, expired, project, job, clientops, mishaps>>

FaultUnchanged(source) == tap # NoTap

(* The state must still be the one the refresh started from. *)
SourceUnchanged(source) == tap = source

(* commitRefresh and commitCacheRepair: the cache is written before the      *)
(* state that points to it.                                                  *)
CommitCache(r) ==
    /\ refresh[r].at = "fetched" /\ Unlocked
    /\ IF SourceUnchanged(refresh[r].from)
       THEN /\ indexCache' = {i \in indexCache : i.seq # refresh[r].idx.seq} \cup {refresh[r].idx}
            /\ refresh' = [refresh EXCEPT ![r].at = "cached"]
            /\ tapLock' = r
       ELSE /\ refresh' = [refresh EXCEPT ![r] = NoJob]
            /\ UNCHANGED <<indexCache, tapLock>>
    /\ UNCHANGED <<pubvars, tap, pkgCache, expired, project, job, clientops, mishaps>>

assertTapStateCapacity(source) ==
    \A items \in {source.retired, source.pins.hist, source.pins.coords, source.pins.revP, source.pins.revK} :
        Cardinality(items) <= MaxTapStateItems

CommitState(r) ==
    /\ refresh[r].at = "cached"
    /\ LET next == refresh[r].next
       IN  IF next # refresh[r].from /\ assertTapStateCapacity(next)
           THEN tap' = next /\ indexCache' = {i \in indexCache : i.seq = next.pins.seq}
           ELSE UNCHANGED <<tap, indexCache>>
    /\ refresh' = [refresh EXCEPT ![r] = NoJob]
    /\ tapLock' = NoTap
    /\ UNCHANGED <<pubvars, pkgCache, expired, project, job, clientops, mishaps>>

(* A refresher dies; its lock is reclaimed. *)
RefreshDies(r) ==
    /\ Mishap
    /\ refresh[r].at # "idle"
    /\ refresh' = [refresh EXCEPT ![r] = NoJob]
    /\ tapLock' = IF tapLock = r THEN NoTap ELSE tapLock
    /\ UNCHANGED <<pubvars, tap, indexCache, pkgCache, expired, project, job, clientops>>

(* The cache directory is emptied; every index served so far expires. *)
CacheLost ==
    /\ Mishap
    /\ indexCache \cup pkgCache # {}
    /\ indexCache' = {} /\ pkgCache' = {}
    /\ UNCHANGED <<pubvars, tap, tapLock, refresh, expired, project, job, clientops>>

Expire ==
    /\ Mishap
    /\ {t.idx.seq : t \in served} \ expired # {}
    /\ expired' = {t.idx.seq : t \in served}
    /\ UNCHANGED <<pubvars, tap, indexCache, pkgCache, tapLock, refresh, project, job, clientops>>

(***************************************************************************)
(* Resolving packages                                                       *)
(***************************************************************************)
assertEntryActive(source, idx, p) == p.d \notin source.pins.revP /\ idx.pub \notin source.pins.revK

(* The entries of coordinate c a state and its cached index offer, as the    *)
(* resolution [c, d, k, seq] shown to the user.                              *)
Entries(source, c) ==
    UNION {{[c |-> c, d |-> p.d, k |-> i.pub, seq |-> i.seq] :
                p \in {q \in i.pkgs : q.c = c /\ assertEntryActive(source, i, q)}} :
           i \in loadAcceptedIndex(source)}

Available(source) == source # NoTap /\ source.on

(* packageEvidence: the cached envelope when it verifies, else a fetched one. *)
Verifies(env, e) == env.c = e.c /\ env.d = e.d /\ env.k = e.k

Cached(e) == {env \in pkgCache : Verifies(env, e)}
Fetched(e) == UNION {{env \in t.envs : Verifies(env, e)} : t \in served}

(* An offline resolution under the locks: what the caches hold right now. *)
resolveOffline(c) ==
    IF Available(tap) THEN {e \in Entries(tap, c) : Cached(e) # {}} ELSE {}

(* A command resolves one coordinate to install, or the installed and a      *)
(* newer one to update: the state and the index are read first ...           *)
Resolve(kind, cs) ==
    /\ Starts
    /\ job.at = "idle" /\ Available(tap)
    /\ \A c \in cs : Entries(tap, c) # {}
    /\ \E found \in [cs -> UNION {Entries(tap, c) : c \in cs}] :
           /\ \A c \in cs : found[c] \in Entries(tap, c)
           /\ \A c \in cs : Cached(found[c]) \cup Fetched(found[c]) # {}
           /\ job' = [at |-> "resolving", kind |-> kind, from |-> tap, found |-> found]
    /\ UNCHANGED <<pubvars, tap, indexCache, pkgCache, tapLock, refresh, expired, project, mishaps>>

(* ... and after the packages were fetched and verified the state must still *)
(* be the same before anything is cached and shown.                          *)
ResolveEnds ==
    /\ job.at = "resolving"
    /\ IF SourceUnchanged(job.from)
       THEN /\ pkgCache' = {e \in pkgCache : \A c \in DOMAIN job.found : e.c # c \/ e.d # job.found[c].d}
                             \cup {[c |-> c, d |-> job.found[c].d, k |-> job.found[c].k] : c \in DOMAIN job.found}
            /\ job' = [at |-> "reviewed", kind |-> job.kind, found |-> job.found]
       ELSE job' = NoJob /\ UNCHANGED pkgCache
    /\ UNCHANGED <<pubvars, tap, indexCache, tapLock, refresh, expired, project, clientops, mishaps>>

ResolveInstall(c) == Resolve("install", {c})

(* An update starts from the advisory lock, which must name a release the    *)
(* tap still resolves to the same bytes and key.                             *)
assertLockMatchesResolved(lock, e) == lock.d = e.d /\ lock.k = e.k

ResolveUpdate(c) ==
    /\ project.lock \notin {NoLock, Builtin}
    /\ c > project.lock.c
    /\ Resolve("update", {project.lock.c, c})
    /\ assertLockMatchesResolved(project.lock, job'.found[project.lock.c])
    /\ \A x \in DOMAIN job'.found : job'.found[x].seq \notin expired

(***************************************************************************)
(* Installing and updating, under the project lock and the tap lock         *)
(***************************************************************************)
(* assertSameRemoteResolution, assertResolutionUnchanged: what was reviewed  *)
(* is what resolves now.                                                     *)
SameResolution == \A c \in DOMAIN job.found : job.found[c] \in resolveOffline(c)

isTypedCorpusEmpty == project.corpus = "empty"

MayReplace(force) == (project.prof = NoProfile \/ force) /\ isTypedCorpusEmpty

(* installPackageLocked writes the profile, then tries to write the lock. *)
InstallRemote(force) ==
    /\ job.at = "reviewed" /\ job.kind = "install" /\ Unlocked
    /\ \E c \in DOMAIN job.found :
           /\ job.found[c].seq \notin expired
           /\ SameResolution
           /\ MayReplace(force)
           /\ project' = [project EXCEPT !.prof = job.found[c].d]
           /\ job' = [at |-> "installed", lock |-> job.found[c]]
    /\ UNCHANGED <<pubvars, tap, indexCache, pkgCache, tapLock, refresh, expired, clientops, mishaps>>

installLocalTemplate(force) ==
    /\ Starts
    /\ job.at = "idle"
    /\ MayReplace(force)
    /\ project' = [project EXCEPT !.prof = Builtin]
    /\ job' = [at |-> "installed", lock |-> Builtin]
    /\ UNCHANGED <<pubvars, tap, indexCache, pkgCache, tapLock, refresh, expired, mishaps>>

(* A lock that cannot be written leaves the install standing, and the old    *)
(* lock with it.                                                             *)
tryWriteLock ==
    /\ job.at = "installed"
    /\ \/ project' = [project EXCEPT !.lock = job.lock] /\ UNCHANGED mishaps
       \/ Mishap /\ UNCHANGED project
    /\ job' = NoJob
    /\ UNCHANGED <<pubvars, tap, indexCache, pkgCache, tapLock, refresh, expired, clientops>>

(* planTemplateUpdate: the active profile must be the installed release, and *)
(* nothing in the corpus may stand against the change.                       *)
UpdateCompatible(base) == project.prof = base.d /\ project.corpus # "blocked"

(* applyLocked: lock and profile are one journal batch, so both or neither. *)
applyRemoteTemplateUpdate ==
    /\ job.at = "reviewed" /\ job.kind = "update" /\ Unlocked
    /\ project.lock \notin {NoLock, Builtin}
    /\ project.lock.c \in DOMAIN job.found
    /\ LET base == job.found[project.lock.c]
           target == job.found[CHOOSE c \in DOMAIN job.found : c > project.lock.c]
       IN  /\ SameResolution
           /\ assertLockMatchesResolved(project.lock, base)
           /\ target.seq \notin expired
           /\ UpdateCompatible(base)
           /\ project' = [project EXCEPT !.prof = target.d, !.lock = target]
    /\ job' = NoJob
    /\ UNCHANGED <<pubvars, tap, indexCache, pkgCache, tapLock, refresh, expired, clientops, mishaps>>

(* The command refuses, is declined, or dies. *)
JobEnds ==
    /\ job.at \in {"resolving", "reviewed"}
    /\ job' = NoJob
    /\ UNCHANGED <<pubvars, tap, indexCache, pkgCache, tapLock, refresh, expired, project, clientops, mishaps>>

(* The user edits the profile; pages, candidates and runs come and go. *)
EditProfile ==
    /\ Starts
    /\ project.prof \notin {NoProfile, Edited}
    /\ project' = [project EXCEPT !.prof = Edited]
    /\ UNCHANGED <<pubvars, tap, indexCache, pkgCache, tapLock, refresh, expired, job, mishaps>>

Work ==
    /\ Starts
    /\ job.at # "installed"
    /\ \E k \in {"empty", "pages", "blocked"} \ {project.corpus} :
           project' = [project EXCEPT !.corpus = k]
    /\ UNCHANGED <<pubvars, tap, indexCache, pkgCache, tapLock, refresh, expired, job, mishaps>>

(***************************************************************************)
(* template status, offline and without locks                               *)
(***************************************************************************)
isRevoked(lock) == lock.d \in tap.pins.revP \/ lock.k \in tap.pins.revK

comparedRemoteStatus(lock) ==
    IF project.prof # lock.d THEN "locally-modified"
    ELSE IF tap.pins.seq \in expired THEN "installed-stale" ELSE "installed-clean"

(* A builtin release is known without a tap; a local one cannot be resolved   *)
(* again, and is left out with the journal's own states.                      *)
compareRelease == IF project.prof = Builtin THEN "installed-clean" ELSE "locally-modified"

collectTemplateStatus ==
    LET lock == project.lock
    IN  CASE lock = NoLock -> "untracked"
          [] lock = Builtin -> compareRelease
          [] lock \notin {NoLock, Builtin} /\ tap = NoTap -> "source-release-unavailable"
          [] OTHER ->
             IF isRevoked(lock) THEN "release-revoked"
             ELSE IF {e \in resolveOffline(lock.c) : assertLockMatchesResolved(lock, e)} = {}
             THEN "source-release-unavailable"
             ELSE comparedRemoteStatus(lock)

ClientNext ==
    \/ addTap \/ removeTap \/ forgetTap
    \/ \E r \in Refreshers :
           RefreshRead(r) \/ RefreshFetch(r) \/ CommitCache(r) \/ CommitState(r) \/ RefreshDies(r)
    \/ CacheLost \/ Expire
    \/ \E p \in Packages : ResolveInstall(p.c) \/ ResolveUpdate(p.c)
    \/ ResolveEnds \/ JobEnds
    \/ \E force \in BOOLEAN : InstallRemote(force) \/ installLocalTemplate(force)
    \/ tryWriteLock \/ applyRemoteTemplateUpdate
    \/ EditProfile \/ Work

Next == (PublisherNext /\ UNCHANGED clientvars) \/ ClientNext

Spec == Init /\ [][Next]_allvars

(***************************************************************************)
(* Properties                                                               *)
(***************************************************************************)
TypeOK ==
    /\ ws.tapKey \in Keys /\ ws.pubKey \in Keys /\ ws.seq \in 0..MaxSeq
    /\ ws.rots \cup ws.taprots \subseteq Rotations
    /\ bld.at \in {"idle", "reserved", "moved", "published"}
    /\ tap # NoTap => /\ tap.key \in TapKeys /\ tap.retired \subseteq TapKeys \ {tap.key}
                      /\ tap.pins.coords \subseteq Packages
                      /\ tap.pins.hist \subseteq PubKeys
    /\ \A i, j \in indexCache : i.seq = j.seq => i = j
    /\ tapLock \in Refreshers \cup {NoTap}
    /\ tapLock # NoTap => refresh[tapLock].at = "cached"

(* A reader can always follow a rotated publisher key: whatever index it     *)
(* accepted last, and however many it skipped, every later index signed by   *)
(* a tap key it can verify is one its pins accept.  Builds that died with     *)
(* their rotation live, and were built again, are no exception.              *)
Followable ==
    tap # NoTap =>
        \A t \in served :
            /\ t.idx.seq > tap.pins.seq
            /\ AcceptsTapKey(t.idx, tap.key, tap.retired)
            => Advances(t.idx, tap.pins)

(* An accepted index can be loaded again, from the cache or after a repair   *)
(* from the tree it came in: an accepted state is never one whose evidence    *)
(* no reader could verify.                                                   *)
AcceptedVerifies ==
    tap # NoTap /\ ~Unrefreshed(tap.pins) =>
        /\ tap.acc # NoIndex /\ tap.acc.seq = tap.pins.seq /\ tap.acc.signer = tap.key
        /\ assertContinuityMatchesIndex(tap.acc, tap)
        /\ tap.acc \in {t.idx : t \in served}

(* Trust only moves forward: short of forgetting the tap, no refresh takes   *)
(* back a sequence, a revocation, a retired key or a coordinate, not even a  *)
(* slow one that commits after a faster one.                                 *)
NoRollback ==
    tap # NoTap /\ tap' # NoTap =>
        /\ tap'.pins.seq >= tap.pins.seq
        /\ tap.pins.revP \subseteq tap'.pins.revP
        /\ tap.pins.revK \subseteq tap'.pins.revK
        /\ tap.retired \subseteq tap'.retired
        /\ tap.pins.coords \subseteq tap'.pins.coords

(* A release enters the project only while the tap is enabled, offers it at  *)
(* the sequence the user reviewed, and has revoked neither it nor the key    *)
(* its envelope is signed with: a removal or a revocation that arrives       *)
(* between the review and the installation stops it.                         *)
InstallsTrusted ==
    project'.prof # project.prof /\ project'.prof \notin {Builtin, Edited} =>
        /\ tap # NoTap /\ tap.on
        /\ project'.prof \notin tap.pins.revP
        /\ \E env \in pkgCache : env.d = project'.prof /\ env.k = tap.pins.pub /\ env.k \notin tap.pins.revK
        /\ \A c \in DOMAIN job.found : job.found[c].seq = tap.pins.seq

(* A hand-edited profile is replaced only by a forced install into an empty  *)
(* corpus; an update, which started from a clean profile when the user        *)
(* reviewed it, never replaces an edit made since, nor a profile under pages  *)
(* it would not fit.                                                          *)
EditsKept ==
    project.prof # project'.prof /\ project.prof \notin {NoProfile} =>
        \/ project.corpus = "empty" /\ job'.at = "installed"
        \/ /\ project.corpus # "blocked" /\ project.lock \notin {NoLock, Builtin}
           /\ project.prof = project.lock.d
        \/ project'.prof = Edited

(* A clean verdict is never given for a profile that is not, byte for byte,  *)
(* the payload of the locked release, nor for a release the reader has       *)
(* learned to be revoked since it was installed.                             *)
CleanIsVerified ==
    collectTemplateStatus \in {"installed-clean", "installed-stale"} /\ project.lock # Builtin =>
        /\ project.prof = project.lock.d
        /\ project.lock.d \notin tap.pins.revP
        /\ tap.pins.pub \notin tap.pins.revK

(* A reader of the tap: it can follow every later index, load again what it  *)
(* accepted, and calls clean only what it verified (continuity.ts,           *)
(* taps/refresh.ts, status.ts).                                              *)
ReaderSound == TypeOK /\ Followable /\ AcceptedVerifies /\ CleanIsVerified

(* No step of a refresh, an installation, an update or a verification takes  *)
(* trust back, installs what is no longer trusted, replaces an edit, or      *)
(* mixes two builds in one verdict.                                          *)
TrustSteps == [][NoRollback /\ InstallsTrusted /\ EditsKept /\ VerdictOneBuild]_allvars
============================================================================
