--------------------------- MODULE CompileProofs ----------------------------
(***************************************************************************)
(* The compile pipeline, for any sources, concepts and answers of the LLM, *)
(* and the watcher that runs it, for any set of files: when the watcher is *)
(* at rest, only a compile that lost the lock or threw can have left an    *)
(* edit behind.                                                            *)
(***************************************************************************)
EXTENDS Compile, Watch, TLAPS

-----------------------------------------------------------------------------
(* The invariant of every project. *)

Reaching == {"late", "freeze", "generate"}
Written  == {"persist", "cleanup", "flush"}

\* The change a run detected makes it read f, or remove f's entry.
Affected(f) == change[f] \in {"new", "changed", "deleted"}

\* A run starts from empty locals.
Fresh ==
    /\ pc \in {"idle", "delete", "approve"} => ext = [f \in Sources |-> NotExtracted]
    /\ pc \in {"idle", "delete", "late", "freeze"} => live = {}

\* Only a file that was read has extracted concepts.
Read == \A f \in Sources : ext[f].concepts # {} => ext[f].read # NoFile

\* What is being approved is a pending candidate.
Approving == pc = "approve" => \A x \in live : cand[x] # NoCand

\* A run compiles the sources it found changed, and those that share a recorded
\* concept with one of them.
Pulled ==
    pc \in {"delete"} \cup Reaching \cup Written =>
        /\ direct \subseteq Compiling(change)
        /\ \A g \in direct, f \in Sources :
              Concepts(st, g) \cap Concepts(st, f) # {} => Affected(f)

\* Until the run knows which extractions failed its draft is state.json without
\* deleted sources.
DraftKept ==
    pc \in {"delete", "late", "freeze"} =>
        /\ \A f \in Sources : change[f] # "deleted" => draft.sources[f] = st[f]
        /\ pc = "delete" => left \subseteq FilesByStatus(change, {"deleted"})

\* The run has read, or has still to read (left), every source that state.json says
\* contributes to a concept of a changed source, known or new.
Reached ==
    pc \in Reaching =>
        /\ \A f \in Compiling(change) : ext[f].read # NoFile /\ f \notin left
        /\ \A g \in direct : \A x \in Concepts(st, g) \cup ext[g].concepts :
              \A f \in Owners(st, x) :
                  change[f] = "deleted" \/ ext[f].read # NoFile \/ f \in left
        /\ pc # "late" => left = {}

\* No page is rebuilt of which a contributor failed to extract.
Spared ==
    pc = "generate" /\ ~review =>
        \A x \in todo \cup live : \A f \in Failed :
            x \in Concepts(st, f) => change[f] = "deleted"

PipeInv ==
    /\ TypeOK /\ Fresh /\ Read /\ Approving /\ Pulled /\ DraftKept /\ Reached
    /\ Spared

-----------------------------------------------------------------------------
(* Runs that finish, with or without review. *)

\* The LLM extracts the same from the same text.
OneAnswer ==
    \A f \in Sources, v \in Versions : \A C, D \in Extracts[f][v] : C = D

\* No session dies and the author waits for a run to end; where compile --review is
\* used, the LLM gives one answer per text.
Finishes == Settled /\ ~Failures /\ (ReviewRuns => OneAnswer)

\* The page of x stands for the present content of f.
Good(f, x) ==
    /\ page[x] # NoPage /\ ~page[x].orphaned
    /\ <<f, src[f]>> \in page[x].from

Covered(f, x) == Good(f, x) \/ <<f, x>> \in dropped

\* A compile recorded the present content of f.
Due(f) == by[f] = "compile" /\ Current(f)

\* A review run records nothing.
Reviewing == review => ReviewRuns /\ pc \notin Written

\* What a run read is what is there, and what it deletes is gone.
Truthful ==
    /\ \A f \in Sources : ext[f].read # NoFile =>
          ext[f].read = src[f] /\ ext[f].concepts \in Extracts[f][src[f]]
    /\ pc \notin {"idle", "approve"} =>
          \A f \in Sources : change[f] = "deleted" => src[f] = NoFile

\* The entries the draft holds: blank for a failed extraction, the compiled concepts for
\* one that succeeded, the recorded one for a source the run did not read.
Drafted ==
    pc \in {"generate"} \cup Written /\ ~review =>
        /\ \A f \in Failed : draft.sources[f].hash = BlankHash
        /\ \A f \in Sources :
              ext[f].read = NoFile /\ change[f] # "deleted" => draft.sources[f] = st[f]
        /\ pc \in {"cleanup", "flush"} =>
              \A f \in Succeeded : draft.sources[f] = CompiledEntry(f)

\* What a compile recorded of a text, extracting it again would yield.
Repeatable ==
    ReviewRuns =>
        \A f \in Sources : Due(f) =>
            \A C \in Extracts[f][src[f]] : Concepts(st, f) \subseteq C

\* An approval has published x and has still to record f.
AwaitsApproval(f, x) == pc = "approve" /\ x \in live /\ f \in left

\* Before its batch a run disturbs no page of a current source, and an approval only
\* those of sources it is about to record; after the batch, the pages match what the
\* draft will record.
PagesMatch ==
    /\ pc \notin Written =>
          \A f \in Sources : Due(f) =>
              \A x \in Concepts(st, f) : Covered(f, x) \/ AwaitsApproval(f, x)
    /\ pc \in Written =>
          \A f \in Sources :
             /\ ext[f].read = NoFile /\ Due(f) => \A x \in Concepts(st, f) : Covered(f, x)
             /\ f \in Succeeded => \A x \in ext[f].concepts \cap live : Good(f, x)

\* The entry of f stays as it is when the run ends.
Kept(f) == pc \in {"generate"} \cup Written /\ ~review => ext[f].read = NoFile

\* A candidate carries every current source that is recorded to own its concept, so
\* that its approval takes such a source over.
CandidatesCarry ==
    \A x \in Slugs : cand[x] # NoCand =>
        \A f \in Sources : Due(f) /\ Kept(f) /\ x \in Concepts(st, f) =>
            <<f, x>> \in dropped \/ \E s \in cand[x].states : s[1] = f

\* What goes live has no candidate any more, and what is held carries whatever was
\* extracted.
Settling ==
    /\ pc \in {"generate"} \cup Written =>
          \A x \in live : cand[x] = NoCand /\ x \notin todo
    /\ pc = "generate" /\ (review \/ PolicyOn) =>
          \A f \in Succeeded : \E s \in snap : s[1] = f

FinishInv ==
    /\ Reviewing /\ Truthful /\ Drafted /\ Repeatable /\ PagesMatch
    /\ CandidatesCarry /\ Settling

-----------------------------------------------------------------------------
(* Facts about the operators. *)

Exts == [Sources -> [read : Versions \cup {NoFile}, concepts : SUBSET Slugs]]

\* An extraction reads what it is asked to and leaves the other results alone.
LEMMA WhatIsExtracted ==
    ASSUME TypeOK, NEW F \in SUBSET Sources, \A f \in F : src[f] # NoFile,
           NEW e \in Extracted(F)
    PROVE  /\ e \in Exts
           /\ \A f \in F : /\ e[f].read = src[f] /\ e[f].read # NoFile
                          /\ e[f].concepts \in Extracts[f][src[f]]
           /\ \A f \in Sources \ F : e[f] = ext[f]
<1>1. PICK c \in [F -> SUBSET Slugs] :
        /\ e = [f \in Sources |-> IF f \in F THEN [read |-> src[f], concepts |-> c[f]]
                                  ELSE ext[f]]
        /\ \A f \in F : c[f] \in Extracts[f][src[f]]
  BY DEF Extracted
<1>2. src \in [Sources -> Versions \cup {NoFile}] /\ ext \in Exts
  BY DEF TypeOK, Exts
<1>3. ASSUME NEW f \in Sources
      PROVE  /\ e[f] \in [read : Versions \cup {NoFile}, concepts : SUBSET Slugs]
             /\ f \in F => e[f].read = src[f] /\ e[f].concepts \in Extracts[f][src[f]]
             /\ f \notin F => e[f] = ext[f]
  BY <1>1, <1>2, <1>3 DEF Exts
<1>4. e \in Exts
  BY <1>1, <1>3 DEF Exts
<1> QED
  BY <1>3, <1>4

\* Marking pages as orphaned keeps them pages, and touches only the slugs in S.
LEMMA WhatIsOrphaned ==
    ASSUME TypeOK, NEW S
    PROVE  /\ Orphan(S) \in [Slugs -> Page \cup {NoPage}]
           /\ \A x \in Slugs \ S : Orphan(S)[x] = page[x]
<1>1. page \in [Slugs -> Page \cup {NoPage}]
  BY DEF TypeOK
<1>2. ASSUME NEW x \in Slugs, page[x] # NoPage
      PROVE  [page[x] EXCEPT !.orphaned = TRUE] \in Page
  BY <1>1, <1>2 DEF Page
<1> QED
  BY <1>1, <1>2 DEF Orphan

\* The contents a merge is made of are contents of sources.
LEMMA WhatIsMerged ==
    ASSUME TypeOK, Read, NEW x \in Slugs
    PROVE  Merged(x) \in SUBSET (Sources \X Versions)
<1>1. ext \in Exts
  BY DEF TypeOK, Exts
<1>2. ASSUME NEW f \in Contributors(x)
      PROVE  f \in Sources /\ ext[f].read \in Versions
  BY <1>1, <1>2 DEF Contributors, Read, Exts
<1> QED
  BY <1>2 DEF Merged

\* An idle process has no locals to be wrong about.
LEMMA NoSession ==
    ASSUME Idle
    PROVE  (Fresh /\ Read /\ Approving /\ Pulled /\ DraftKept /\ Reached /\ Spared)'
<1>1. /\ pc' = "idle" /\ ext' = [f \in Sources |-> NotExtracted] /\ live' = {}
  BY DEF Idle
<1>2. Fresh' /\ Read'
  BY <1>1 DEF Fresh, Read, NotExtracted
<1>3. Approving' /\ Pulled' /\ DraftKept' /\ Reached' /\ Spared'
  BY <1>1 DEF Approving, Pulled, DraftKept, Reached, Spared, Reaching, Written
<1> QED
  BY <1>2, <1>3

\* Nor any of a wrong type.
LEMMA IdleTypes ==
    ASSUME Idle, TypeOK,
           src' \in [Sources -> Versions \cup {NoFile}],
           st' \in [Sources -> Entry \cup {NoEntry}],
           frozen' \subseteq Slugs,
           page' \in [Slugs -> Page \cup {NoPage}],
           cand' \in [Slugs -> Candidate \cup {NoCand}],
           unfinished' \in BOOLEAN,
           dropped' \subseteq Sources \X Slugs,
           by' \in [Sources -> {"none", "compile", "approve"}]
    PROVE  TypeOK'
<1>1. (draft \in [sources : [Sources -> Entry \cup {NoEntry}], frozen : SUBSET Slugs])'
  BY DEF Idle
<1>2. (ext \in Exts)'
  BY DEF Idle, Exts, NotExtracted
<1>3. (change \in [Sources -> {"new", "changed", "unchanged", "deleted", "none"}])'
  BY DEF Idle
<1> QED
  BY <1>1, <1>2, <1>3 DEF Idle, TypeOK, Exts

-----------------------------------------------------------------------------
(* Each step keeps the invariant of every project. *)

LEMMA PipeInit ==
    ASSUME CompileAssumption, Init
    PROVE  PipeInv
<1>1. 1 \in Versions
  BY DEF CompileAssumption, Versions
<1>2. TypeOK
  <2>1. src \in [Sources -> Versions \cup {NoFile}]
    BY <1>1 DEF Init
  <2>2. ext \in Exts
    BY DEF Init, Exts, NotExtracted
  <2>3. draft \in [sources : [Sources -> Entry \cup {NoEntry}], frozen : SUBSET Slugs]
    BY DEF Init
  <2> QED
    BY <2>1, <2>2, <2>3 DEF Init, TypeOK, Exts
<1>3. Fresh /\ Read
  BY DEF Init, Fresh, Read, NotExtracted
<1> QED
  BY <1>2, <1>3 DEF Init, PipeInv, Approving, Pulled, DraftKept, Reached, Spared,
                    Reaching, Written

\* The changes a run starts from: those it found, and those pulled in by them.
LEMMA PipeStart ==
    ASSUME PipeInv, NEW r \in BOOLEAN, NEW filter, Start(r, filter)
    PROVE  PipeInv'
<1> DEFINE kept == [f \in Sources |-> IF f \in filter THEN detectChanges[f] ELSE "none"]
<1>1. PICK S \in PendingUnchanged(kept) :
        LET c == [f \in Sources |-> IF f \in S THEN "unchanged" ELSE kept[f]]
            A == findAffectedSources(st, c)
        IN  /\ change' = [f \in Sources |-> IF f \in A THEN "changed" ELSE c[f]]
            /\ direct' = Compiling(c)
  BY DEF Start
<1> DEFINE c == [f \in Sources |-> IF f \in S THEN "unchanged" ELSE kept[f]]
           A == findAffectedSources(st, c)
<1>2. /\ change' = [f \in Sources |-> IF f \in A THEN "changed" ELSE c[f]]
      /\ direct' = Compiling(c)
  BY <1>1
<1>3. /\ pc = "idle" /\ pc' = "delete" /\ review' = r
      /\ draft' = [sources |-> st, frozen |-> frozen]
      /\ left' \subseteq FilesByStatus(change', {"deleted"})
      /\ UNCHANGED <<disk, ext, frz, todo, live, snap, history>>
  BY DEF Start
<1>4. ASSUME NEW f \in Sources
      PROVE  c[f] \in {"new", "changed", "unchanged", "deleted", "none"}
  BY <1>4 DEF detectChanges, classifyFile
<1> HIDE DEF kept
<1>5. \A f \in Sources : change'[f] \in {"new", "changed", "unchanged", "deleted", "none"}
  BY <1>2, <1>4
<1>6. direct' \subseteq Sources
  BY <1>2 DEF Compiling, FilesByStatus
<1>7. TypeOK'
  <2>1. draft' \in [sources : [Sources -> Entry \cup {NoEntry}], frozen : SUBSET Slugs]
    BY <1>3 DEF PipeInv, TypeOK
  <2>2. change' \in [Sources -> {"new", "changed", "unchanged", "deleted", "none"}]
    BY <1>2, <1>5
  <2>3. left' \subseteq Sources
    BY <1>3 DEF FilesByStatus
  <2> QED
    BY <1>3, <1>6, <2>1, <2>2, <2>3 DEF PipeInv, TypeOK, disk, history
<1>8. Fresh' /\ Read' /\ Approving'
  BY <1>3 DEF PipeInv, Fresh, Read, Approving
<1>9. Pulled'
  <2>1. ASSUME NEW g \in direct'
        PROVE  g \in Compiling(c) /\ c[g] \in {"new", "changed"} /\ g \notin A
    BY <1>2, <2>1 DEF Compiling, FilesByStatus, findAffectedSources
  <2>2. direct' \subseteq Compiling(change')
    BY <1>2, <1>6, <2>1 DEF Compiling, FilesByStatus
  <2>3. ASSUME NEW g \in direct', NEW f \in Sources,
               Concepts(st, g) \cap Concepts(st, f) # {},
               change'[f] \notin {"new", "changed", "deleted"}
        PROVE  FALSE
    <3>1. f \notin A /\ change'[f] = c[f]
      BY <1>2, <2>3
    <3>2. f \in A
      BY <2>1, <2>3, <3>1 DEF findAffectedSources
    <3> QED
      BY <3>1, <3>2
  <2>4. UNCHANGED st
    BY <1>3 DEF disk
  <2> QED
    BY <2>2, <2>3, <2>4 DEF Pulled, Affected, Concepts
<1>10. DraftKept'
  BY <1>3 DEF DraftKept, disk
<1>11. Reached' /\ Spared'
  BY <1>3 DEF Reached, Spared, Reaching
<1> QED
  BY <1>7, <1>8, <1>9, <1>10, <1>11 DEF PipeInv

LEMMA PipeMarkOrphaned ==
    ASSUME PipeInv, NEW f \in Sources, markOrphaned(f)
    PROVE  PipeInv'
<1>1. /\ pc = "delete" /\ f \in left /\ left' = left \ {f}
      /\ draft' = [draft EXCEPT !.sources[f] = NoEntry]
      /\ UNCHANGED <<src, st, frozen, cand, pc, review, change, ext, frz,
                     todo, live, snap, direct, history>>
  BY DEF markOrphaned
<1>2. /\ draft'.sources = [draft.sources EXCEPT ![f] = NoEntry]
      /\ draft' \in [sources : [Sources -> Entry \cup {NoEntry}], frozen : SUBSET Slugs]
  BY <1>1 DEF PipeInv, TypeOK
<1>3. page' \in [Slugs -> Page \cup {NoPage}]
  BY WhatIsOrphaned DEF PipeInv, markOrphaned
<1>4. TypeOK'
  BY <1>1, <1>2, <1>3 DEF PipeInv, TypeOK, history
<1>5. DraftKept'
  <2>1. f \in FilesByStatus(change, {"deleted"})
    BY <1>1 DEF PipeInv, DraftKept
  <2>2. change[f] = "deleted"
    BY <2>1 DEF FilesByStatus
  <2>3. draft.sources \in [Sources -> Entry \cup {NoEntry}]
    BY DEF PipeInv, TypeOK
  <2> QED
    BY <1>1, <1>2, <2>2, <2>3 DEF PipeInv, DraftKept
<1>6. Fresh' /\ Read' /\ Approving' /\ Reached' /\ Spared'
  BY <1>1 DEF PipeInv, Fresh, Read, Approving, Reached, Spared, Reaching
<1>7. Pulled'
  BY <1>1 DEF PipeInv, Pulled, Affected, Concepts
<1> QED
  BY <1>4, <1>5, <1>6, <1>7 DEF PipeInv

\* Extraction brings in every recorded owner of a concept that a changed source has
\* or has come to yield.
LEMMA PipeExtractDirect ==
    ASSUME PipeInv, ExtractDirect
    PROVE  PipeInv'
<1>1. /\ pc = "delete" /\ pc' = "late" /\ left = {}
      /\ frz' = findFrozenSlugs(draft.sources, draft.frozen, change)
      /\ ext' \in Extracted(Compiling(change))
      /\ left' = findLateAffectedSources(draft.sources, ext', change)
      /\ \A f \in Compiling(change) : src[f] # NoFile
      /\ UNCHANGED <<disk, review, draft, change, todo, live, snap, direct, history>>
  BY DEF ExtractDirect
<1>2. Compiling(change) \subseteq Sources
  BY DEF Compiling, FilesByStatus
<1>3. /\ ext' \in Exts
      /\ \A f \in Compiling(change) : ext'[f].read # NoFile
      /\ \A f \in Sources \ Compiling(change) : ext'[f] = ext[f]
  BY <1>1, <1>2, WhatIsExtracted DEF PipeInv
<1>4. \A f \in Sources \ Compiling(change) : ext'[f].concepts = {}
  BY <1>1, <1>3 DEF PipeInv, Fresh, NotExtracted
<1>5. TypeOK'
  <2>1. frz' \subseteq Slugs
    BY <1>1 DEF PipeInv, TypeOK, findFrozenSlugs
  <2>2. left' \subseteq Sources
    BY <1>1 DEF findLateAffectedSources
  <2> QED
    BY <1>1, <1>3, <2>1, <2>2 DEF PipeInv, TypeOK, Exts, disk, history
<1>6. Fresh' /\ Approving' /\ Spared'
  BY <1>1 DEF PipeInv, Fresh, Approving, Spared, disk
<1>7. Read'
  BY <1>3, <1>4 DEF Read
<1>8. Pulled'
  BY <1>1 DEF PipeInv, Pulled, Affected, Concepts, disk
<1>9. DraftKept'
  BY <1>1 DEF PipeInv, DraftKept, disk
<1>10. Reached'
  <2>1. \A f \in left' : f \in Sources /\ f \notin Compiling(change)
    BY <1>1 DEF findLateAffectedSources, Compiling, FilesByStatus
  <2>2. ASSUME NEW g \in direct, NEW x \in Concepts(st, g) \cup ext'[g].concepts,
               NEW f \in Owners(st, x), change[f] # "deleted", ext'[f].read = NoFile
        PROVE  f \in left'
    <3>1. f \in Sources /\ st[f] # NoEntry /\ x \in Concepts(st, f)
      BY <2>2 DEF Owners, Concepts
    <3>2. change[f] \notin {"new", "changed", "deleted"} /\ draft.sources[f] = st[f]
      BY <1>1, <1>3, <2>2, <3>1 DEF Compiling, FilesByStatus, PipeInv, DraftKept
    <3>3. g \in Compiling(change) /\ g \in Sources
      BY <1>1, <1>2 DEF PipeInv, Pulled
    <3>4. draft.sources[g] = st[g]
      BY <1>1, <3>3 DEF PipeInv, DraftKept, Compiling, FilesByStatus
    <3>5. x \notin Concepts(st, g)
      BY <1>1, <3>1, <3>2 DEF PipeInv, Pulled, Affected
    <3>6. x \in FreshSlugs(draft.sources, ext')
      BY <2>2, <3>3, <3>4, <3>5 DEF FreshSlugs, Concepts
    <3>7. x \in Concepts(draft.sources, f)
      BY <3>1, <3>2 DEF Concepts
    <3> QED
      BY <1>1, <3>1, <3>2, <3>6, <3>7 DEF findLateAffectedSources
  <2>3. UNCHANGED <<st, change, direct>>
    BY <1>1 DEF disk
  <2> QED
    BY <1>1, <1>3, <2>1, <2>2, <2>3 DEF Reached, Reaching, Concepts, Owners
<1> QED
  BY <1>5, <1>6, <1>7, <1>8, <1>9, <1>10 DEF PipeInv

LEMMA PipeExtractLate ==
    ASSUME PipeInv, ExtractLate
    PROVE  PipeInv'
<1>1. /\ pc = "late" /\ pc' = "freeze" /\ left' = {}
      /\ ext' \in Extracted(left)
      /\ \A f \in left : src[f] # NoFile
      /\ UNCHANGED <<disk, review, draft, change, frz, todo, live, snap, direct, history>>
  BY DEF ExtractLate
<1>2. left \subseteq Sources
  BY DEF PipeInv, TypeOK
<1>3. /\ ext' \in Exts
      /\ \A f \in left : ext'[f].read # NoFile
      /\ \A f \in Sources \ left : ext'[f] = ext[f]
  BY <1>1, <1>2, WhatIsExtracted DEF PipeInv
<1>4. TypeOK'
  BY <1>1, <1>3 DEF PipeInv, TypeOK, Exts, disk, history
<1>5. Fresh' /\ Approving' /\ Spared'
  BY <1>1 DEF PipeInv, Fresh, Approving, Spared, disk
<1>6. Read'
  BY <1>3 DEF PipeInv, Read
<1>7. Pulled'
  BY <1>1 DEF PipeInv, Pulled, Affected, Concepts, disk, Reaching
<1>8. DraftKept'
  BY <1>1 DEF PipeInv, DraftKept, disk
<1>9. Reached'
  <2>1. /\ \A f \in Compiling(change) : ext[f].read # NoFile /\ f \notin left
        /\ \A g \in direct : \A x \in Concepts(st, g) \cup ext[g].concepts :
              \A f \in Owners(st, x) :
                  change[f] = "deleted" \/ ext[f].read # NoFile \/ f \in left
    BY <1>1 DEF PipeInv, Reached, Reaching
  <2>2. \A g \in direct : g \in Compiling(change) /\ g \in Sources
    BY <1>1 DEF PipeInv, Pulled, Reaching, Compiling, FilesByStatus
  <2>3. \A g \in direct : ext'[g] = ext[g]
    BY <1>3, <2>1, <2>2
  <2>4. \A f \in Sources : ext[f].read # NoFile => ext'[f].read # NoFile
    BY <1>3
  <2>5. \A f \in Compiling(change) : f \in Sources
    BY DEF Compiling, FilesByStatus
  <2>6. \A x : Owners(st, x) \subseteq Sources
    BY DEF Owners
  <2>7. /\ \A f \in Compiling(change) : ext'[f].read # NoFile
        /\ \A g \in direct : \A x \in Concepts(st, g) \cup ext'[g].concepts :
              \A f \in Owners(st, x) : change[f] = "deleted" \/ ext'[f].read # NoFile
    BY <1>3, <2>1, <2>3, <2>4, <2>5, <2>6
  <2>8. UNCHANGED <<st, change, direct>>
    BY <1>1 DEF disk
  <2> QED
    BY <1>1, <2>7, <2>8 DEF Reached, Concepts, Owners
<1> QED
  BY <1>4, <1>5, <1>6, <1>7, <1>8, <1>9 DEF PipeInv

\* What is still to be generated leaves out the concepts of failed extractions.
LEMMA PipeFreeze ==
    ASSUME PipeInv, freezeFailedExtractions
    PROVE  PipeInv'
<1>1. /\ pc = "freeze" /\ pc' = "generate"
      /\ \A f \in Succeeded : src[f] # NoFile
      /\ frz' = IF review THEN frz ELSE frz \cup FrozenByFailure(draft.sources)
      /\ snap' = IF review \/ PolicyOn THEN {<<f, src[f]>> : f \in Succeeded} ELSE {}
      /\ todo' = {x \in Slugs : Contributors(x) # {}} \ frz'
      /\ UNCHANGED <<disk, review, change, ext, left, live, direct, history>>
  BY DEF freezeFailedExtractions
<1>2. draft' = IF review THEN draft
               ELSE [draft EXCEPT !.sources =
                       [f \in Sources |->
                           IF f \in Failed
                           THEN [hash |-> BlankHash,
                                 concepts |-> Concepts(draft.sources, f)]
                           ELSE draft.sources[f]]]
  BY DEF freezeFailedExtractions
<1>3. /\ \A f \in Sources : draft.sources[f] \in Entry \cup {NoEntry}
      /\ draft.sources \in [Sources -> Entry \cup {NoEntry}]
      /\ draft \in [sources : [Sources -> Entry \cup {NoEntry}], frozen : SUBSET Slugs]
  BY DEF PipeInv, TypeOK
<1>4. \A f \in Sources : Concepts(draft.sources, f) \subseteq Slugs
  BY <1>3 DEF Concepts, Entry
<1>5. \A f \in Sources : [hash |-> BlankHash, concepts |-> Concepts(draft.sources, f)] \in Entry
  BY <1>4 DEF Entry
<1>6. draft' \in [sources : [Sources -> Entry \cup {NoEntry}], frozen : SUBSET Slugs]
  BY <1>2, <1>3, <1>5
<1>7. TypeOK'
  <2>1. frz' \subseteq Slugs
    BY <1>1, <1>4 DEF PipeInv, TypeOK, FrozenByFailure, Failed
  <2>2. snap' \subseteq Sources \X Versions
    BY <1>1 DEF PipeInv, TypeOK, Succeeded
  <2> QED
    BY <1>1, <1>6, <2>1, <2>2 DEF PipeInv, TypeOK, disk, history
<1>8. Fresh' /\ Read' /\ Approving'
  BY <1>1 DEF PipeInv, Fresh, Read, Approving, disk
<1>9. Pulled'
  BY <1>1 DEF PipeInv, Pulled, Affected, Concepts, disk, Reaching
<1>10. DraftKept'
  BY <1>1 DEF DraftKept
<1>11. Reached'
  BY <1>1 DEF PipeInv, Reached, Reaching, Concepts, Owners, disk
<1>12. Spared'
  <2>1. ASSUME ~review, NEW x \in todo', NEW f \in Failed, x \in Concepts(st, f),
               change[f] # "deleted"
        PROVE  FALSE
    <3>1. f \in Sources /\ draft.sources[f] = st[f]
      BY <1>1, <2>1 DEF Failed, PipeInv, DraftKept
    <3>2. x \in FrozenByFailure(draft.sources)
      BY <2>1, <3>1 DEF FrozenByFailure, Concepts
    <3> QED
      BY <1>1, <2>1, <3>2
  <2>2. live' = {} /\ UNCHANGED <<st, ext, change, review>> /\ Failed' = Failed
    BY <1>1 DEF PipeInv, Fresh, disk, Failed
  <2>3. \A f : Concepts(st, f)' = Concepts(st, f)
    BY <2>2 DEF Concepts
  <2> QED
    BY <2>1, <2>2, <2>3 DEF Spared
<1> QED
  BY <1>7, <1>8, <1>9, <1>10, <1>11, <1>12 DEF PipeInv

\* The steps of the generation phase: a slug leaves todo, and may go live.
LEMMA PipeGenerate ==
    ASSUME PipeInv, NEW x \in Slugs, HoldPage(x) \/ SkipInvalidPage(x) \/ DeferLiveWrite(x)
    PROVE  PipeInv'
<1>1. /\ pc = "generate" /\ pc' = "generate" /\ x \in todo /\ todo' = todo \ {x}
      /\ live' \in {live, live \cup {x}}
      /\ UNCHANGED <<src, st, frozen, page, review, draft, change, ext, frz, left, snap,
                     direct, by, unfinished>>
  BY DEF HoldPage, SkipInvalidPage, DeferLiveWrite, disk, history
<1>2. cand' \in [Slugs -> Candidate \cup {NoCand}]
  <2>1. snap \subseteq Sources \X Versions
    BY DEF PipeInv, TypeOK
  <2>2. {s \in snap : s[1] \in Contributors(x)} \in SUBSET (Sources \X Versions)
    BY <2>1
  <2>3. [from |-> Merged(x), states |-> {s \in snap : s[1] \in Contributors(x)}] \in Candidate
    BY <2>2, WhatIsMerged DEF PipeInv, Candidate
  <2> QED
    BY <2>3 DEF PipeInv, TypeOK, HoldPage, SkipInvalidPage, DeferLiveWrite, disk
<1>3. dropped' \subseteq Sources \X Slugs
  BY DEF PipeInv, TypeOK, HoldPage, SkipInvalidPage, DeferLiveWrite, disk, history,
         BeyondReach, Owners
<1>4. TypeOK'
  BY <1>1, <1>2, <1>3 DEF PipeInv, TypeOK
<1>5. Fresh' /\ Read' /\ Approving' /\ DraftKept'
  BY <1>1 DEF PipeInv, Fresh, Read, Approving, DraftKept
<1>6. Pulled'
  BY <1>1 DEF PipeInv, Pulled, Affected, Concepts
<1>7. Reached'
  BY <1>1 DEF PipeInv, Reached, Concepts, Owners
<1>8. Spared'
  BY <1>1 DEF PipeInv, Spared, Failed, Concepts
<1> QED
  BY <1>4, <1>5, <1>6, <1>7, <1>8 DEF PipeInv

LEMMA PipeCommit ==
    ASSUME PipeInv, commitLivePageWrites
    PROVE  PipeInv'
<1>1. /\ pc = "generate" /\ pc' = "persist" /\ live' \subseteq live
      /\ page' = [x \in Slugs |-> IF x \in live'
                                  THEN [from |-> Merged(x), orphaned |-> FALSE]
                                  ELSE page[x]]
      /\ UNCHANGED <<src, st, frozen, cand, review, draft, change, ext, frz,
                     left, todo, snap, direct, by, unfinished>>
  BY DEF commitLivePageWrites
<1>2. page' \in [Slugs -> Page \cup {NoPage}]
  <2>1. \A x \in Slugs : [from |-> Merged(x), orphaned |-> FALSE] \in Page
    BY WhatIsMerged DEF PipeInv, Page
  <2> QED
    BY <1>1, <2>1 DEF PipeInv, TypeOK
<1>3. dropped' \subseteq Sources \X Slugs
  <2>1. live' \subseteq Slugs /\ dropped \subseteq Sources \X Slugs
    BY <1>1 DEF PipeInv, TypeOK
  <2>2. \A x : BeyondReach(x) \subseteq Sources
    BY DEF BeyondReach, Owners
  <2>3. dropped' = {d \in dropped : d[2] \notin live'}
                   \cup UNION {BeyondReach(x) \X {x} : x \in live'}
    BY DEF commitLivePageWrites
  <2>4. \A x \in live' : BeyondReach(x) \X {x} \subseteq Sources \X Slugs
    BY <2>1, <2>2
  <2> QED
    BY <2>1, <2>3, <2>4
<1>4. TypeOK'
  BY <1>1, <1>2, <1>3 DEF PipeInv, TypeOK
<1>5. Fresh' /\ Read' /\ Approving' /\ DraftKept' /\ Reached' /\ Spared'
  BY <1>1 DEF PipeInv, Fresh, Read, Approving, DraftKept, Reached, Reaching, Spared
<1>6. Pulled'
  BY <1>1 DEF PipeInv, Pulled, Affected, Concepts, Reaching, Written
<1> QED
  BY <1>4, <1>5, <1>6 DEF PipeInv

\* The steps that close a run, before state.json is written.
LEMMA PipeClose ==
    ASSUME PipeInv, persistExtractionStates \/ orphanUnownedFrozenPages
    PROVE  PipeInv'
<1>1. /\ pc \in {"persist", "cleanup"} /\ pc' \in {"cleanup", "flush"}
      /\ UNCHANGED <<src, st, frozen, cand, review, change, ext, frz, left, todo, live,
                     snap, direct, history>>
  BY DEF persistExtractionStates, orphanUnownedFrozenPages, disk
<1>2. page' \in [Slugs -> Page \cup {NoPage}]
  BY WhatIsOrphaned DEF PipeInv, TypeOK, persistExtractionStates, orphanUnownedFrozenPages,
                        disk
<1>3. draft' \in [sources : [Sources -> Entry \cup {NoEntry}], frozen : SUBSET Slugs]
  <2>1. CASE persistExtractionStates
    <3>1. /\ \A f \in Succeeded : src[f] # NoFile
          /\ draft' = [draft EXCEPT !.sources =
                         [f \in Sources |-> IF f \in Recorded THEN CompiledEntry(f)
                                            ELSE draft.sources[f]]]
      BY <2>1 DEF persistExtractionStates
    <3>2. \A f \in Recorded : CompiledEntry(f) \in Entry
      BY <3>1 DEF PipeInv, TypeOK, Recorded, Succeeded, CompiledEntry, Entry
    <3>3. draft \in [sources : [Sources -> Entry \cup {NoEntry}], frozen : SUBSET Slugs]
      BY DEF PipeInv, TypeOK
    <3> QED
      BY <3>1, <3>2, <3>3
  <2>2. CASE orphanUnownedFrozenPages
    <3>1. draft' = [draft EXCEPT !.frozen = StillFrozen]
      BY <2>2 DEF orphanUnownedFrozenPages
    <3>2. StillFrozen \subseteq Slugs
      BY DEF PipeInv, TypeOK, StillFrozen
    <3> QED
      BY <3>1, <3>2 DEF PipeInv, TypeOK
  <2> QED
    BY <2>1, <2>2
<1>4. TypeOK'
  BY <1>1, <1>2, <1>3 DEF PipeInv, TypeOK, history
<1>5. Fresh' /\ Read' /\ Approving' /\ DraftKept' /\ Reached' /\ Spared'
  BY <1>1 DEF PipeInv, Fresh, Read, Approving, DraftKept, Reached, Reaching, Spared
<1>6. Pulled'
  BY <1>1 DEF PipeInv, Pulled, Affected, Concepts, Reaching, Written
<1> QED
  BY <1>4, <1>5, <1>6 DEF PipeInv

\* The steps that end a session, the death of a process included.
LEMMA PipeEnd ==
    ASSUME PipeInv, FinishReview \/ Flush \/ deleteApprovedCandidate \/ Abandon
    PROVE  PipeInv'
<1>1. Idle /\ UNCHANGED <<src, page, dropped>>
  BY DEF FinishReview, Flush, deleteApprovedCandidate, Abandon, disk, history
<1>2. st' \in [Sources -> Entry \cup {NoEntry}] /\ frozen' \subseteq Slugs
  BY DEF PipeInv, TypeOK, FinishReview, Flush, deleteApprovedCandidate, Abandon, disk
<1>3. cand' \in [Slugs -> Candidate \cup {NoCand}] /\ unfinished' \in BOOLEAN
  BY DEF PipeInv, TypeOK, FinishReview, Flush, deleteApprovedCandidate, Abandon, disk,
         history
<1>4. by' \in [Sources -> {"none", "compile", "approve"}]
  BY DEF PipeInv, TypeOK, FinishReview, Flush, deleteApprovedCandidate, Abandon, history
<1>5. /\ src \in [Sources -> Versions \cup {NoFile}] /\ dropped \subseteq Sources \X Slugs
      /\ page \in [Slugs -> Page \cup {NoPage}]
  BY DEF PipeInv, TypeOK
<1>6. TypeOK'
  BY <1>1, <1>2, <1>3, <1>4, <1>5, IdleTypes DEF PipeInv
<1> QED
  BY <1>1, <1>6, NoSession DEF PipeInv

\* The review commands.
LEMMA PipeReview ==
    ASSUME PipeInv, NEW x \in Slugs, ApprovePage(x) \/ Reject(x)
    PROVE  PipeInv'
<1>1. CASE ApprovePage(x)
  <2>1. /\ pc = "idle" /\ pc' = "approve" /\ cand[x] # NoCand /\ live' = {x}
        /\ page' = [page EXCEPT ![x] = [from |-> cand[x].from, orphaned |-> FALSE]]
        /\ left' = {s[1] : s \in cand[x].states}
        /\ UNCHANGED <<src, st, frozen, cand, review, draft, change, ext, frz, todo,
                       snap, direct, history>>
    BY <1>1 DEF ApprovePage
  <2>2. cand[x] \in Candidate
    BY <2>1 DEF PipeInv, TypeOK
  <2>3. [from |-> cand[x].from, orphaned |-> FALSE] \in Page
    BY <2>2 DEF Candidate, Page
  <2>4. left' \subseteq Sources
    BY <2>1, <2>2 DEF Candidate
  <2>5. TypeOK'
    BY <2>1, <2>3, <2>4 DEF PipeInv, TypeOK, history
  <2>6. Fresh' /\ Read' /\ Approving'
    BY <2>1 DEF PipeInv, Fresh, Read, Approving
  <2>7. Pulled' /\ DraftKept' /\ Reached' /\ Spared'
    BY <2>1 DEF Pulled, DraftKept, Reached, Reaching, Written, Spared
  <2> QED
    BY <2>5, <2>6, <2>7 DEF PipeInv
<1>2. CASE Reject(x)
  <2>1. /\ pc = "idle" /\ cand' = [cand EXCEPT ![x] = NoCand]
        /\ UNCHANGED <<src, st, frozen, page, session, history>>
    BY <1>2 DEF Reject
  <2>2. TypeOK'
    BY <2>1 DEF PipeInv, TypeOK, session, history
  <2>3. Fresh' /\ Read' /\ Approving'
    BY <2>1 DEF PipeInv, Fresh, Read, Approving, session
  <2>4. Pulled' /\ DraftKept' /\ Reached' /\ Spared'
    BY <2>1 DEF Pulled, DraftKept, Reached, Reaching, Written, Spared, session
  <2> QED
    BY <2>2, <2>3, <2>4 DEF PipeInv
<1> QED
  BY <1>1, <1>2

LEMMA PipeApproved ==
    ASSUME PipeInv, NEW f \in Sources, addApprovedSlugToSourceState(f)
    PROVE  PipeInv'
<1>0. PICK x \in live : \E s \in cand[x].states :
          /\ s[1] = f
          /\ st' = [st EXCEPT ![f] = [hash |-> s[2], concepts |-> Concepts(st, f) \cup {x}]]
  BY DEF addApprovedSlugToSourceState
<1>1. PICK s \in cand[x].states :
          st' = [st EXCEPT ![f] = [hash |-> s[2], concepts |-> Concepts(st, f) \cup {x}]]
  BY <1>0
<1>2. /\ pc = "approve" /\ pc' = "approve" /\ left' = left \ {f}
      /\ by' = [by EXCEPT ![f] = "approve"]
      /\ UNCHANGED <<src, frozen, page, cand, review, draft, change, ext, frz, todo, live,
                     snap, direct, dropped, unfinished>>
  BY DEF addApprovedSlugToSourceState
<1>3. x \in Slugs /\ cand[x] \in Candidate
  BY <1>2 DEF PipeInv, TypeOK, Approving
<1>4. s[2] \in Versions
  BY <1>1, <1>3 DEF Candidate
<1>5. [hash |-> s[2], concepts |-> Concepts(st, f) \cup {x}] \in Entry
  BY <1>3, <1>4 DEF PipeInv, TypeOK, Concepts, Entry
<1>6. st' \in [Sources -> Entry \cup {NoEntry}]
  BY <1>1, <1>5 DEF PipeInv, TypeOK
<1>7. TypeOK'
  BY <1>2, <1>6 DEF PipeInv, TypeOK
<1>8. Fresh' /\ Read' /\ Approving'
  BY <1>2 DEF PipeInv, Fresh, Read, Approving
<1>9. Pulled' /\ DraftKept' /\ Reached' /\ Spared'
  BY <1>2 DEF Pulled, DraftKept, Reached, Reaching, Written, Spared
<1> QED
  BY <1>7, <1>8, <1>9 DEF PipeInv

LEMMA PipeAuthor ==
    ASSUME PipeInv, NEW f \in Sources, NEW v \in Versions \cup {NoFile}, Change(f, v)
    PROVE  PipeInv'
<1>1. /\ src' = [src EXCEPT ![f] = v] /\ unfinished' = FALSE
      /\ UNCHANGED <<st, frozen, page, cand, session, by, dropped>>
  BY DEF Change
<1>2. TypeOK'
  BY <1>1 DEF PipeInv, TypeOK, session
<1>3. Fresh' /\ Read' /\ Approving' /\ DraftKept'
  BY <1>1 DEF PipeInv, Fresh, Read, Approving, DraftKept, session
<1>4. Pulled'
  BY <1>1 DEF PipeInv, Pulled, Affected, Concepts, session
<1>5. Reached'
  BY <1>1 DEF PipeInv, Reached, Concepts, Owners, session
<1>6. Spared'
  BY <1>1 DEF PipeInv, Spared, Failed, Concepts, session
<1> QED
  BY <1>2, <1>3, <1>4, <1>5, <1>6 DEF PipeInv

LEMMA PipeStutter ==
    ASSUME PipeInv, UNCHANGED vars
    PROVE  PipeInv'
<1>1. TypeOK' /\ Fresh' /\ Read' /\ Approving' /\ DraftKept'
  BY DEF PipeInv, TypeOK, Fresh, Read, Approving, DraftKept, vars
<1>2. Pulled'
  BY DEF PipeInv, Pulled, Affected, Concepts, vars
<1>3. Reached'
  BY DEF PipeInv, Reached, Concepts, Owners, vars
<1>4. Spared'
  BY DEF PipeInv, Spared, Failed, Concepts, vars
<1> QED
  BY <1>1, <1>2, <1>3, <1>4 DEF PipeInv

LEMMA PipeStep ==
    ASSUME PipeInv, [Next]_vars
    PROVE  PipeInv'
<1>1. ASSUME NEW r \in BOOLEAN, NEW filter, Start(r, filter)
      PROVE  PipeInv'
  BY <1>1, PipeStart
<1>2. CASE Compile \/ CompileReview \/ Refresh
  BY <1>1, <1>2 DEF Compile, CompileReview, Refresh
<1>3. CASE Step
  <2>1. CASE \E f \in Sources : markOrphaned(f) \/ addApprovedSlugToSourceState(f)
    BY <2>1, PipeMarkOrphaned, PipeApproved
  <2>2. CASE ExtractDirect \/ ExtractLate \/ freezeFailedExtractions
    BY <2>2, PipeExtractDirect, PipeExtractLate, PipeFreeze
  <2>3. CASE \E x \in Slugs : HoldPage(x) \/ SkipInvalidPage(x) \/ DeferLiveWrite(x)
    BY <2>3, PipeGenerate
  <2>4. CASE commitLivePageWrites \/ persistExtractionStates \/ orphanUnownedFrozenPages
    BY <2>4, PipeCommit, PipeClose
  <2>5. CASE FinishReview \/ Flush \/ deleteApprovedCandidate \/ SourceVanished
    BY <2>5, PipeEnd DEF SourceVanished
  <2> QED
    BY <1>3, <2>1, <2>2, <2>3, <2>4, <2>5 DEF Step
<1>4. CASE \E x \in Slugs : ApprovePage(x) \/ Reject(x)
  BY <1>4, PipeReview
<1>5. CASE Fail
  BY <1>5, PipeEnd DEF Fail
<1>6. CASE Author
  BY <1>6, PipeAuthor DEF Author, EditSource, DeleteSource
<1>7. CASE UNCHANGED vars
  BY <1>7, PipeStutter
<1> QED
  BY <1>2, <1>3, <1>4, <1>5, <1>6, <1>7 DEF Next

LEMMA PipeInvariant == Spec => []PipeInv
<1>1. Init => PipeInv
  BY CompileAssumption, PipeInit
<1>2. PipeInv /\ [Next]_vars => PipeInv'
  BY PipeStep
<1> QED
  BY <1>1, <1>2, PTL DEF Spec

\* A concept of a changed source is merged from all its contributors: every one that
\* state.json knows of has been read, and none of them failed.
LEMMA WholeMerges ==
    ASSUME PipeInv
    PROVE  ChangedConceptsWhole
<1> SUFFICES ASSUME pc = "generate", ~review, NEW x \in live, NEW g \in direct,
                    x \in Concepts(st, g) \cup ext[g].concepts, NEW f \in Owners(st, x),
                    change[f] # "deleted", f \notin Succeeded
             PROVE  FALSE
  BY DEF ChangedConceptsWhole, MergedFromAll
<1>1. ext[f].read # NoFile
  BY DEF PipeInv, Reached, Reaching
<1>2. f \in Failed /\ x \in Concepts(st, f)
  BY <1>1 DEF Failed, Succeeded, Owners, Concepts
<1> QED
  BY <1>2 DEF PipeInv, Spared

\* In every project, whatever the LLM answers, whoever edits the sources and whenever,
\* and whichever runs die, the values of the pipeline have their types and a concept of
\* a source that changed is rebuilt from all its contributors (src/compiler/deps.ts).
THEOREM ConceptsAreRebuiltWhole == Spec => [](TypeOK /\ ChangedConceptsWhole)
<1>1. PipeInv => TypeOK /\ ChangedConceptsWhole
  BY WholeMerges DEF PipeInv
<1> QED
  BY <1>1, PipeInvariant, PTL

-----------------------------------------------------------------------------
(* Each step keeps the invariant of runs that finish. *)

LEMMA FinishInit ==
    ASSUME Init
    PROVE  FinishInv
<1>1. \A f \in Sources : by[f] = "none" /\ ext[f].read = NoFile
  BY DEF Init, NotExtracted
<1>2. pc = "idle" /\ ~review /\ \A x \in Slugs : cand[x] = NoCand
  BY DEF Init
<1> QED
  BY <1>1, <1>2 DEF FinishInv, Reviewing, Truthful, Drafted, Repeatable, PagesMatch,
                    CandidatesCarry, Settling, Due, Written

\* A step that writes no page and no entry keeps the pages of current sources.
LEMMA PagesAside ==
    ASSUME FinishInv, pc \notin Written, pc' \notin Written, pc # "approve",
           UNCHANGED <<src, st, page, by>>, dropped \subseteq dropped'
    PROVE  PagesMatch'
BY DEF FinishInv, PagesMatch, AwaitsApproval, Due, Current, Concepts, Covered, Good

\* Nor do candidates lose a source they carried.
LEMMA CandidatesAside ==
    ASSUME FinishInv, UNCHANGED <<src, st, by, cand>>, dropped \subseteq dropped',
           \A f \in Sources : Kept(f)' => Kept(f)
    PROVE  CandidatesCarry'
BY DEF FinishInv, CandidatesCarry, Due, Current, Concepts

\* A page rebuilt without a current source that the run did not read is one beyond the
\* reach of its dependency search.
LEMMA UnreadIsBeyond ==
    ASSUME PipeInv, FinishInv, pc = "generate", NEW f \in Sources, ext[f].read = NoFile,
           Current(f), NEW x \in Concepts(st, f)
    PROVE  f \in BeyondReach(x)
<1>1. f \in Owners(st, x)
  BY DEF Concepts, Owners
<1>2. change[f] # "deleted"
  BY DEF Current, FinishInv, Truthful
<1>3. left = {} /\ \A g \in direct : \A y \in Concepts(st, g) \cup ext[g].concepts :
        \A h \in Owners(st, y) :
            change[h] = "deleted" \/ ext[h].read # NoFile \/ h \in left
  BY DEF PipeInv, Reached, Reaching
<1>4. ~ \E g \in direct : x \in Concepts(st, g) \cup ext[g].concepts
  BY <1>1, <1>2, <1>3
<1> QED
  BY <1>1, <1>2, <1>4 DEF BeyondReach

\* What a process that finds a source gone leaves behind.
LEMMA FinishAbandon ==
    ASSUME FinishInv, pc \in {"delete", "late"}, Abandon
    PROVE  FinishInv'
<1>1. /\ pc' = "idle" /\ ~review' /\ ext' = [f \in Sources |-> NotExtracted]
      /\ UNCHANGED <<src, st, page, cand, by, dropped>>
  BY DEF Abandon, Idle, disk
<1>2. Reviewing' /\ Truthful' /\ Drafted' /\ Settling'
  BY <1>1 DEF Reviewing, Truthful, Drafted, Settling, Written, NotExtracted
<1>3. Repeatable'
  BY <1>1 DEF FinishInv, Repeatable, Due, Current, Concepts
<1>4. PagesMatch'
  BY <1>1, PagesAside DEF Written
<1>5. \A f \in Sources : Kept(f)
  BY DEF Kept, Written
<1>6. CandidatesCarry'
  BY <1>1, <1>5, CandidatesAside
<1> QED
  BY <1>2, <1>3, <1>4, <1>6 DEF FinishInv

\* No file a run read disappears under it.
LEMMA NothingVanishes ==
    ASSUME PipeInv, FinishInv, SourceVanished
    PROVE  pc \in {"delete", "late"} /\ Abandon
<1>1. \A f \in Succeeded : src[f] # NoFile
  BY DEF Succeeded, PipeInv, Read, FinishInv, Truthful
<1> QED
  BY <1>1 DEF SourceVanished

LEMMA FinishStart ==
    ASSUME PipeInv, FinishInv, NEW r \in BOOLEAN, NEW filter, Start(r, filter)
    PROVE  FinishInv'
<1> DEFINE kept == [f \in Sources |-> IF f \in filter THEN detectChanges[f] ELSE "none"]
<1>1. PICK S \in PendingUnchanged(kept) :
        LET c == [f \in Sources |-> IF f \in S THEN "unchanged" ELSE kept[f]]
            A == findAffectedSources(st, c)
        IN  /\ change' = [f \in Sources |-> IF f \in A THEN "changed" ELSE c[f]]
            /\ direct' = Compiling(c)
  BY DEF Start
<1>2. /\ pc = "idle" /\ pc' = "delete" /\ (review' => ReviewRuns)
      /\ UNCHANGED <<disk, ext, by, dropped>>
  BY DEF Start, history
<1>3. \A f \in Sources : kept[f] = "deleted" => src[f] = NoFile
  BY DEF detectChanges, classifyFile
<1> HIDE DEF kept
<1>4. \A f \in Sources : change'[f] = "deleted" => src[f] = NoFile
  BY <1>1, <1>3
<1>5. Reviewing' /\ Drafted' /\ Settling'
  BY <1>2 DEF Reviewing, Drafted, Settling, Written
<1>6. Truthful'
  BY <1>2, <1>4 DEF FinishInv, Truthful, disk
<1>7. Repeatable'
  BY <1>2 DEF FinishInv, Repeatable, Due, Current, Concepts, disk
<1>8. PagesMatch'
  BY <1>2, PagesAside DEF Written, disk
<1>9. \A f \in Sources : Kept(f)
  BY <1>2 DEF Kept, Written
<1>10. CandidatesCarry'
  BY <1>2, <1>9, CandidatesAside DEF disk
<1> QED
  BY <1>5, <1>6, <1>7, <1>8, <1>10 DEF FinishInv

\* Only concepts of deleted sources alone are orphaned, and a deleted source is not
\* current.
LEMMA FinishMarkOrphaned ==
    ASSUME PipeInv, FinishInv, NEW f \in Sources, markOrphaned(f)
    PROVE  FinishInv'
<1>1. /\ pc = "delete" /\ f \in left
      /\ UNCHANGED <<src, st, frozen, cand, pc, review, change, ext, frz,
                     todo, live, snap, direct, by, dropped>>
  BY DEF markOrphaned, history
<1>2. PICK S \in SUBSET SoleConcepts(draft.sources, f) : page' = Orphan(S)
  BY DEF markOrphaned
<1>3. Reviewing' /\ Truthful' /\ Drafted' /\ Settling'
  BY <1>1 DEF FinishInv, Reviewing, Truthful, Drafted, Settling, Written
<1>4. src[f] = NoFile
  <2>1. f \in FilesByStatus(change, {"deleted"})
    BY <1>1 DEF PipeInv, DraftKept
  <2> QED
    BY <1>1, <2>1 DEF FilesByStatus, FinishInv, Truthful
<1>5. ASSUME NEW g \in Sources, Current(g), NEW x \in Concepts(st, g)
      PROVE  x \in Slugs /\ x \notin S
  <2>1. change[g] # "deleted" /\ g # f
    BY <1>1, <1>4, <1>5 DEF Current, FinishInv, Truthful
  <2>2. draft.sources[g] = st[g]
    BY <1>1, <2>1 DEF PipeInv, DraftKept
  <2>3. g \in Owners(draft.sources, x)
    BY <1>5, <2>2 DEF Owners, Concepts
  <2>4. x \notin S
    BY <1>2, <2>1, <2>3 DEF SoleConcepts
  <2>5. x \in Slugs
    BY <1>5 DEF Concepts, PipeInv, TypeOK, Entry
  <2> QED
    BY <2>4, <2>5
<1>6. \A x \in Slugs \ S : page'[x] = page[x]
  BY <1>2, WhatIsOrphaned DEF PipeInv
<1>7. ASSUME NEW g \in Sources, Due(g)', NEW x \in Concepts(st', g)
      PROVE  Covered(g, x)'
  <2>1. Due(g) /\ Current(g) /\ x \in Concepts(st, g)
    BY <1>1, <1>7 DEF Due, Current, Concepts
  <2>2. Covered(g, x)
    BY <1>1, <2>1 DEF FinishInv, PagesMatch, AwaitsApproval, Written
  <2>3. page'[x] = page[x]
    BY <1>5, <1>6, <2>1
  <2> QED
    BY <1>1, <2>2, <2>3 DEF Covered, Good
<1>8. PagesMatch'
  BY <1>1, <1>7 DEF PagesMatch, Written, Concepts
<1>9. Repeatable'
  BY <1>1 DEF FinishInv, Repeatable, Due, Current, Concepts
<1>10. CandidatesCarry'
  BY <1>1, CandidatesAside DEF Kept
<1> QED
  BY <1>3, <1>8, <1>9, <1>10 DEF FinishInv

LEMMA FinishExtract ==
    ASSUME PipeInv, FinishInv, ExtractDirect \/ ExtractLate
    PROVE  FinishInv'
<1>1. /\ pc \in {"delete", "late"} /\ pc' \in {"late", "freeze"}
      /\ UNCHANGED <<disk, review, change, by, dropped>>
  BY DEF ExtractDirect, ExtractLate, history
<1>2. \A f \in Sources : ext'[f].read # NoFile =>
        ext'[f].read = src[f] /\ ext'[f].concepts \in Extracts[f][src[f]]
  <2>1. ASSUME NEW F \in SUBSET Sources, \A f \in F : src[f] # NoFile,
               ext' \in Extracted(F)
        PROVE  \A f \in Sources : ext'[f].read # NoFile =>
                 ext'[f].read = src[f] /\ ext'[f].concepts \in Extracts[f][src[f]]
    <3>1. /\ \A f \in F : ext'[f].read = src[f] /\ ext'[f].concepts \in Extracts[f][src[f]]
          /\ \A f \in Sources \ F : ext'[f] = ext[f]
      BY <2>1, WhatIsExtracted DEF PipeInv
    <3> QED
      BY <3>1 DEF FinishInv, Truthful
  <2>2. Compiling(change) \subseteq Sources /\ left \subseteq Sources
    BY DEF PipeInv, TypeOK, Compiling, FilesByStatus
  <2> QED
    BY <2>1, <2>2 DEF ExtractDirect, ExtractLate
<1>3. Truthful'
  BY <1>1, <1>2 DEF FinishInv, Truthful, disk
<1>4. Reviewing' /\ Drafted' /\ Settling'
  BY <1>1 DEF FinishInv, Reviewing, Drafted, Settling, Written
<1>5. Repeatable'
  BY <1>1 DEF FinishInv, Repeatable, Due, Current, Concepts, disk
<1>6. PagesMatch'
  BY <1>1, PagesAside DEF Written, disk
<1>7. \A f \in Sources : Kept(f)
  BY <1>1 DEF Kept, Written
<1>8. CandidatesCarry'
  BY <1>1, <1>7, CandidatesAside DEF disk
<1> QED
  BY <1>3, <1>4, <1>5, <1>6, <1>8 DEF FinishInv

LEMMA FinishFreeze ==
    ASSUME PipeInv, FinishInv, freezeFailedExtractions
    PROVE  FinishInv'
<1>1. /\ pc = "freeze" /\ pc' = "generate"
      /\ snap' = IF review \/ PolicyOn THEN {<<f, src[f]>> : f \in Succeeded} ELSE {}
      /\ UNCHANGED <<disk, review, change, ext, live, by, dropped>>
  BY DEF freezeFailedExtractions, history
<1>2. \A f \in Failed : f \in Sources /\ ext[f].read # NoFile
  BY DEF Failed
<1>3. ASSUME ~review
      PROVE  /\ \A f \in Failed : draft'.sources[f].hash = BlankHash
             /\ \A f \in Sources :
                   ext[f].read = NoFile /\ change[f] # "deleted" => draft'.sources[f] = st[f]
  <2>1. draft' = [draft EXCEPT !.sources =
                    [f \in Sources |->
                        IF f \in Failed
                        THEN [hash |-> BlankHash,
                              concepts |-> Concepts(draft.sources, f)]
                        ELSE draft.sources[f]]]
    BY <1>3 DEF freezeFailedExtractions
  <2>2. draft'.sources = [f \in Sources |->
                            IF f \in Failed
                            THEN [hash |-> BlankHash,
                                  concepts |-> Concepts(draft.sources, f)]
                            ELSE draft.sources[f]]
    BY <2>1 DEF PipeInv, TypeOK
  <2> QED
    BY <1>1, <1>2, <2>2 DEF PipeInv, DraftKept
<1>4. Drafted'
  BY <1>1, <1>3 DEF Drafted, Failed, disk
<1>5. Reviewing' /\ Truthful'
  BY <1>1 DEF FinishInv, Reviewing, Truthful, Written, disk
<1>6. Settling'
  <2>1. live' = {}
    BY <1>1 DEF PipeInv, Fresh
  <2>2. Succeeded' = Succeeded
    BY <1>1 DEF Succeeded
  <2>3. ASSUME review \/ PolicyOn, NEW f \in Succeeded
        PROVE  \E s \in snap' : s[1] = f
    <3>1. <<f, src[f]>> \in snap' /\ <<f, src[f]>>[1] = f
      BY <1>1, <2>3
    <3> QED
      BY <3>1
  <2> QED
    BY <1>1, <2>1, <2>2, <2>3 DEF Settling, Written
<1>7. Repeatable'
  BY <1>1 DEF FinishInv, Repeatable, Due, Current, Concepts, disk
<1>8. PagesMatch'
  BY <1>1, PagesAside DEF Written, disk
<1>9. \A f \in Sources : Kept(f)
  BY <1>1 DEF Kept, Written
<1>10. CandidatesCarry'
  BY <1>1, <1>9, CandidatesAside DEF disk
<1> QED
  BY <1>4, <1>5, <1>6, <1>7, <1>8, <1>10 DEF FinishInv

\* A page held for review carries each current source of its concept that the run read,
\* since a review run reads again what a compile recorded.
LEMMA FinishHold ==
    ASSUME PipeInv, FinishInv, NEW x \in Slugs, HoldPage(x)
    PROVE  CandidatesCarry'
<1>1. /\ pc = "generate" /\ pc' = "generate" /\ (review \/ PolicyOn)
      /\ cand' = [cand EXCEPT ![x] =
                    [from |-> Merged(x),
                     states |-> {s \in snap : s[1] \in Contributors(x)}]]
      /\ dropped' = dropped \cup (BeyondReach(x) \X {x})
      /\ UNCHANGED <<src, st, review, ext, by>>
  BY DEF HoldPage
<1>2. cand \in [Slugs -> Candidate \cup {NoCand}]
  BY DEF PipeInv, TypeOK
<1>3. ASSUME NEW y \in Slugs, cand'[y] # NoCand, NEW f \in Sources, Due(f), Kept(f),
             y \in Concepts(st, f)
      PROVE  <<f, y>> \in dropped' \/ \E s \in cand'[y].states : s[1] = f
  <2>1. CASE y # x
    <3>1. cand'[y] = cand[y]
      BY <1>1, <1>2, <2>1
    <3> QED
      BY <1>1, <1>3, <3>1 DEF FinishInv, CandidatesCarry
  <2>2. CASE y = x /\ ext[f].read = NoFile
    <3>1. f \in BeyondReach(x)
      BY <1>1, <1>3, <2>2, UnreadIsBeyond DEF Due
    <3> QED
      BY <1>1, <2>2, <3>1
  <2>3. CASE y = x /\ ext[f].read # NoFile
    <3>1. review /\ ReviewRuns
      BY <1>1, <1>3, <2>3 DEF Kept, FinishInv, Reviewing
    <3>2. ext[f].concepts \in Extracts[f][src[f]]
      BY <2>3 DEF FinishInv, Truthful
    <3>3. x \in ext[f].concepts
      BY <1>3, <2>3, <3>1, <3>2 DEF FinishInv, Repeatable
    <3>4. f \in Contributors(x) /\ f \in Succeeded
      BY <3>3 DEF Contributors, Succeeded
    <3>5. PICK s \in snap : s[1] = f
      BY <1>1, <3>4 DEF FinishInv, Settling
    <3>6. s \in cand'[x].states
      BY <1>1, <1>2, <3>4, <3>5
    <3> QED
      BY <2>3, <3>5, <3>6
  <2> QED
    BY <2>1, <2>2, <2>3
<1>4. \A f : Due(f)' = Due(f) /\ Kept(f)' = Kept(f) /\ Concepts(st, f)' = Concepts(st, f)
  BY <1>1 DEF Due, Current, Kept, Concepts
<1> QED
  BY <1>3, <1>4 DEF CandidatesCarry

\* The steps of the generation phase: a slug is held, refused or goes live.
LEMMA FinishGenerate ==
    ASSUME PipeInv, FinishInv, NEW x \in Slugs,
           HoldPage(x) \/ SkipInvalidPage(x) \/ DeferLiveWrite(x)
    PROVE  FinishInv'
<1>1. /\ pc = "generate" /\ pc' = "generate" /\ x \in todo /\ todo' = todo \ {x}
      /\ dropped \subseteq dropped'
      /\ UNCHANGED <<src, st, page, review, draft, change, ext, snap, by>>
  BY DEF HoldPage, SkipInvalidPage, DeferLiveWrite, disk, history
<1>2. cand \in [Slugs -> Candidate \cup {NoCand}]
  BY DEF PipeInv, TypeOK
<1>3. Reviewing' /\ Truthful'
  BY <1>1 DEF FinishInv, Reviewing, Truthful
<1>4. Drafted'
  BY <1>1 DEF FinishInv, Drafted, Failed
<1>5. Repeatable'
  BY <1>1 DEF FinishInv, Repeatable, Due, Current, Concepts
<1>6. PagesMatch'
  BY <1>1, PagesAside DEF Written
<1>7. CandidatesCarry'
  <2>1. CASE HoldPage(x)
    BY <2>1, FinishHold
  <2>2. CASE SkipInvalidPage(x)
    BY <1>1, <2>2, CandidatesAside DEF SkipInvalidPage, Kept, disk
  <2>3. CASE DeferLiveWrite(x)
    <3>1. cand' = [cand EXCEPT ![x] = NoCand] /\ UNCHANGED dropped
      BY <2>3 DEF DeferLiveWrite, history
    <3>2. \A y \in Slugs : cand'[y] # NoCand => cand'[y] = cand[y]
      BY <1>2, <3>1
    <3>3. \A f : Due(f)' = Due(f) /\ Kept(f)' = Kept(f)
                 /\ Concepts(st, f)' = Concepts(st, f)
      BY <1>1 DEF Due, Current, Kept, Concepts
    <3> QED
      BY <3>1, <3>2, <3>3 DEF FinishInv, CandidatesCarry
  <2> QED
    BY <2>1, <2>2, <2>3
<1>8. Settling'
  <2>1. Succeeded' = Succeeded
    BY <1>1 DEF Succeeded
  <2>2. \A y \in live : cand[y] = NoCand /\ y \notin todo
    BY <1>1 DEF FinishInv, Settling
  <2>3. live \subseteq Slugs
    BY DEF PipeInv, TypeOK
  <2>4. ASSUME NEW y \in live'
        PROVE  cand'[y] = NoCand /\ y \notin todo'
    BY <1>1, <1>2, <2>2, <2>3, <2>4 DEF HoldPage, SkipInvalidPage, DeferLiveWrite, disk
  <2> QED
    BY <1>1, <2>1, <2>4 DEF FinishInv, Settling
<1> QED
  BY <1>3, <1>4, <1>5, <1>6, <1>7, <1>8 DEF FinishInv

\* The batch.  A page of a source the run did not read is rebuilt only beyond the reach
\* of its dependency search; a page of one it read stands for what it read.
LEMMA FinishCommit ==
    ASSUME PipeInv, FinishInv, commitLivePageWrites
    PROVE  FinishInv'
<1>1. /\ pc = "generate" /\ pc' = "persist" /\ ~review /\ live' \subseteq live
      /\ page' = [x \in Slugs |-> IF x \in live'
                                  THEN [from |-> Merged(x), orphaned |-> FALSE]
                                  ELSE page[x]]
      /\ dropped' = {d \in dropped : d[2] \notin live'}
                    \cup UNION {BeyondReach(x) \X {x} : x \in live'}
      /\ UNCHANGED <<src, st, frozen, cand, review, draft, change, ext, frz,
                     left, todo, snap, direct, by, unfinished>>
  BY DEF commitLivePageWrites
<1>2. Reviewing' /\ Truthful'
  BY <1>1 DEF FinishInv, Reviewing, Truthful
<1>3. Drafted'
  BY <1>1 DEF FinishInv, Drafted, Failed, Written
<1>4. live' \subseteq Slugs
  BY <1>1 DEF PipeInv, TypeOK
<1>5. \A x \in live' : page'[x] = [from |-> Merged(x), orphaned |-> FALSE]
  BY <1>1, <1>4
<1>6. Repeatable'
  BY <1>1 DEF FinishInv, Repeatable, Due, Current, Concepts
<1>7. ASSUME NEW f \in Sources, ext[f].read = NoFile, Due(f), NEW x \in Concepts(st, f)
      PROVE  Covered(f, x)'
  <2>1. x \in Slugs
    BY <1>7 DEF Concepts, PipeInv, TypeOK, Entry
  <2>2. Covered(f, x)
    BY <1>1, <1>7 DEF FinishInv, PagesMatch, AwaitsApproval, Written
  <2>3. CASE x \notin live'
    <3>1. page'[x] = page[x] /\ UNCHANGED src
      BY <1>1, <2>1, <2>3
    <3>2. <<f, x>> \in dropped => <<f, x>> \in dropped'
      BY <1>1, <2>3
    <3> QED
      BY <2>2, <3>1, <3>2 DEF Covered, Good
  <2>4. CASE x \in live'
    <3>1. f \in BeyondReach(x)
      BY <1>1, <1>7, UnreadIsBeyond DEF Due
    <3>2. <<f, x>> \in dropped'
      BY <1>1, <2>4, <3>1
    <3> QED
      BY <3>2 DEF Covered
  <2> QED
    BY <2>3, <2>4
<1>8. ASSUME NEW f \in Succeeded, NEW x \in ext[f].concepts \cap live'
      PROVE  Good(f, x)'
  <2>1. f \in Sources /\ ext[f].read = src[f]
    BY <1>8 DEF Succeeded, FinishInv, Truthful, PipeInv, Read
  <2>2. <<f, src[f]>> \in Merged(x)
    BY <1>8, <2>1 DEF Merged, Contributors
  <2>3. Merged(x) \in SUBSET (Sources \X Versions)
    BY <1>4, <1>8, WhatIsMerged DEF PipeInv
  <2>4. page'[x] = [from |-> Merged(x), orphaned |-> FALSE]
    BY <1>5, <1>8
  <2>5. [from |-> Merged(x), orphaned |-> FALSE] \in Page
    BY <2>3 DEF Page
  <2>6. page'[x] # NoPage
    BY <2>4, <2>5, CompileAssumption
  <2>7. ~page'[x].orphaned /\ page'[x].from = Merged(x)
    BY <2>4
  <2>8. UNCHANGED src
    BY <1>1
  <2> QED
    BY <2>2, <2>6, <2>7, <2>8 DEF Good
<1>9. \A f : /\ Due(f)' = Due(f) /\ Kept(f)' = Kept(f)
             /\ Concepts(st, f)' = Concepts(st, f)
  BY <1>1 DEF Due, Current, Kept, Concepts, Written
<1>10. PagesMatch'
  <2>1. Succeeded' = Succeeded /\ pc' \in Written /\ UNCHANGED ext
    BY <1>1 DEF Succeeded, Written
  <2> QED
    BY <1>7, <1>8, <1>9, <2>1 DEF PagesMatch
<1>11. Settling'
  BY <1>1 DEF FinishInv, Settling, Written
<1>12. CandidatesCarry'
  <2>1. \A x \in Slugs : cand[x] # NoCand => x \notin live'
    BY <1>1 DEF FinishInv, Settling
  <2>2. \A x \in Slugs, f \in Sources :
          x \notin live' /\ <<f, x>> \in dropped => <<f, x>> \in dropped'
    BY <1>1
  <2>3. UNCHANGED cand
    BY <1>1
  <2> QED
    BY <1>9, <2>1, <2>2, <2>3 DEF FinishInv, CandidatesCarry
<1> QED
  BY <1>2, <1>3, <1>6, <1>10, <1>11, <1>12 DEF FinishInv

\* The entries of what was extracted.
LEMMA FinishPersist ==
    ASSUME PipeInv, FinishInv, persistExtractionStates
    PROVE  FinishInv'
<1>1. /\ pc = "persist" /\ pc' = "cleanup"
      /\ UNCHANGED <<disk, review, change, ext, frz, left, todo, live, snap, direct, by,
                     dropped>>
  BY DEF persistExtractionStates, history
<1>2. draft'.sources = [f \in Sources |-> IF f \in Succeeded THEN CompiledEntry(f)
                                          ELSE draft.sources[f]]
  BY DEF persistExtractionStates, Recorded, PipeInv, TypeOK
<1>3. Reviewing' /\ Truthful' /\ ~review
  BY <1>1 DEF FinishInv, Reviewing, Truthful, Written, disk
<1>4. Drafted'
  <2>1. \A f \in Failed : f \in Sources /\ f \notin Succeeded
    BY DEF Failed, Succeeded
  <2>2. \A f \in Sources : ext[f].read = NoFile => f \notin Succeeded
    BY DEF Succeeded, PipeInv, Read
  <2>3. \A f \in Succeeded : f \in Sources
    BY DEF Succeeded
  <2>4. /\ \A f \in Failed : draft'.sources[f].hash = BlankHash
        /\ \A f \in Sources :
              ext[f].read = NoFile /\ change[f] # "deleted" => draft'.sources[f] = st[f]
        /\ \A f \in Succeeded : draft'.sources[f] = CompiledEntry(f)
    BY <1>1, <1>2, <1>3, <2>1, <2>2, <2>3 DEF FinishInv, Drafted, Written
  <2>5. Failed' = Failed /\ Succeeded' = Succeeded
    BY <1>1 DEF Failed, Succeeded
  <2>6. \A f : CompiledEntry(f)' = CompiledEntry(f)
    BY <1>1 DEF CompiledEntry, disk
  <2> QED
    BY <1>1, <2>4, <2>5, <2>6 DEF Drafted, disk
<1>5. Repeatable'
  BY <1>1 DEF FinishInv, Repeatable, Due, Current, Concepts, disk
<1>6. PagesMatch'
  BY <1>1 DEF FinishInv, PagesMatch, Written, Due, Current, Concepts, Covered, Good,
              Succeeded, disk
<1>7. Settling'
  BY <1>1 DEF FinishInv, Settling, Written, disk
<1>8. \A f \in Sources : Kept(f)' => Kept(f)
  BY <1>1 DEF Kept, Written
<1>9. CandidatesCarry'
  BY <1>1, <1>8, CandidatesAside DEF disk
<1> QED
  BY <1>3, <1>4, <1>5, <1>6, <1>7, <1>9 DEF FinishInv

\* Only pages that no source of the draft claims are orphaned.
LEMMA FinishCleanup ==
    ASSUME PipeInv, FinishInv, orphanUnownedFrozenPages
    PROVE  FinishInv'
<1>1. /\ pc = "cleanup" /\ pc' = "flush"
      /\ UNCHANGED <<src, st, frozen, cand, review, change, ext, frz, left,
                     todo, live, snap, direct, by, dropped>>
  BY DEF orphanUnownedFrozenPages, history
<1>2. draft'.sources = draft.sources
  BY DEF orphanUnownedFrozenPages, PipeInv, TypeOK
<1>3. PICK S \in SUBSET UnownedFrozen : page' = Orphan(S)
  BY DEF orphanUnownedFrozenPages
<1>4. Reviewing' /\ Truthful' /\ ~review
  BY <1>1 DEF FinishInv, Reviewing, Truthful, Written
<1>5. Drafted'
  BY <1>1, <1>2 DEF FinishInv, Drafted, Failed, Succeeded, CompiledEntry, Written
<1>6. \A x \in Slugs \ S : page'[x] = page[x]
  BY <1>3, WhatIsOrphaned DEF PipeInv
<1>7. ASSUME NEW f \in Sources, NEW x \in Concepts(draft.sources, f)
      PROVE  x \notin S
  BY <1>3, <1>7 DEF UnownedFrozen, Owners, Concepts
<1>8. ASSUME NEW f \in Sources, ext[f].read = NoFile, Due(f), NEW x \in Concepts(st, f)
      PROVE  Covered(f, x)'
  <2>1. x \in Slugs
    BY <1>8 DEF Concepts, PipeInv, TypeOK, Entry
  <2>2. draft.sources[f] = st[f]
    BY <1>1, <1>4, <1>8 DEF Due, Current, FinishInv, Truthful, Drafted, Written
  <2>3. x \notin S
    BY <1>7, <1>8, <2>2 DEF Concepts
  <2>4. Covered(f, x) /\ page'[x] = page[x]
    BY <1>1, <1>6, <1>8, <2>1, <2>3 DEF FinishInv, PagesMatch, Written
  <2> QED
    BY <1>1, <2>4 DEF Covered, Good
<1>9. ASSUME NEW f \in Succeeded, NEW x \in ext[f].concepts \cap live
      PROVE  Good(f, x)'
  <2>1. x \in Slugs /\ f \in Sources
    BY <1>9 DEF PipeInv, TypeOK, Succeeded
  <2>2. draft.sources[f] = CompiledEntry(f)
    BY <1>1, <1>4, <1>9 DEF FinishInv, Drafted, Written
  <2>3. draft.sources[f] # NoEntry
    <3>1. CompiledEntry(f) \in Entry
      BY <2>1 DEF CompiledEntry, Entry, PipeInv, TypeOK, BlankHash, NoFile
    <3> QED
      BY <2>2, <3>1, CompileAssumption
  <2>4. x \notin S
    BY <1>7, <1>9, <2>1, <2>2, <2>3 DEF Concepts, CompiledEntry
  <2>5. Good(f, x) /\ page'[x] = page[x]
    BY <1>1, <1>6, <1>9, <2>1, <2>4 DEF FinishInv, PagesMatch, Written
  <2> QED
    BY <1>1, <2>5 DEF Good
<1>10. PagesMatch'
  <2>1. Succeeded' = Succeeded /\ pc' \in Written /\ UNCHANGED <<ext, live>>
    BY <1>1 DEF Succeeded, Written
  <2>2. \A f : Due(f)' = Due(f) /\ Concepts(st, f)' = Concepts(st, f)
    BY <1>1 DEF Due, Current, Concepts
  <2> QED
    BY <1>8, <1>9, <2>1, <2>2 DEF PagesMatch
<1>11. Repeatable' /\ Settling'
  BY <1>1 DEF FinishInv, Repeatable, Settling, Due, Current, Concepts, Written
<1>12. \A f \in Sources : Kept(f)' => Kept(f)
  BY <1>1 DEF Kept, Written
<1>13. CandidatesCarry'
  BY <1>1, <1>12, CandidatesAside
<1> QED
  BY <1>4, <1>5, <1>10, <1>11, <1>13 DEF FinishInv

\* What the draft records as current is covered by the pages written, and what was
\* compiled is carried by no candidate.
LEMMA FinishFlush ==
    ASSUME Finishes, PipeInv, FinishInv, Flush
    PROVE  FinishInv'
<1>1. /\ pc = "flush" /\ pc' = "idle" /\ ~review'
      /\ st' = draft.sources /\ ext' = [f \in Sources |-> NotExtracted]
      /\ by' = [f \in Sources |->
                  IF draft.sources[f] = NoEntry THEN "none"
                  ELSE IF ext[f].read # NoFile THEN "compile" ELSE by[f]]
      /\ UNCHANGED <<src, page, cand, dropped>>
  BY DEF Flush, Idle
<1>2. ~review
  BY <1>1 DEF FinishInv, Reviewing, Written
<1>3. Reviewing' /\ Truthful' /\ Drafted' /\ Settling'
  BY <1>1 DEF FinishInv, Reviewing, Truthful, Drafted, Settling, Written, NotExtracted
<1>4. ASSUME NEW f \in Sources, Due(f)'
      PROVE  \/ /\ f \in Succeeded /\ src[f] \in Versions
                /\ ext[f].concepts \in Extracts[f][src[f]]
                /\ Concepts(st', f) = ext[f].concepts \cap live
             \/ /\ ext[f].read = NoFile /\ Due(f)
                /\ Concepts(st', f) = Concepts(st, f)
  <2>1. src[f] # NoFile /\ draft.sources[f] # NoEntry /\ draft.sources[f].hash = src[f]
    BY <1>1, <1>4 DEF Due, Current
  <2>2. f \notin Failed
    BY <1>1, <1>2, <2>1 DEF FinishInv, Drafted, Written, NoFile, BlankHash
  <2>3. CASE f \in Succeeded
    <3>1. draft.sources[f] = CompiledEntry(f)
      BY <1>1, <1>2, <2>3 DEF FinishInv, Drafted, Written
    <3>2. Concepts(st', f) = ext[f].concepts \cap live
      BY <1>1, <2>1, <3>1 DEF Concepts, CompiledEntry
    <3>3. ext[f].concepts \in Extracts[f][src[f]]
      BY <2>3 DEF Succeeded, PipeInv, Read, FinishInv, Truthful
    <3>4. src[f] \in Versions
      BY <2>1 DEF PipeInv, TypeOK
    <3> QED
      BY <2>3, <3>2, <3>3, <3>4
  <2>4. CASE ext[f].read = NoFile
    <3>1. draft.sources[f] = st[f]
      BY <1>1, <1>2, <2>1, <2>4 DEF FinishInv, Drafted, Truthful, Written
    <3>2. by'[f] = by[f]
      BY <1>1, <2>1, <2>4
    <3> QED
      BY <1>1, <1>4, <2>1, <2>4, <3>1, <3>2 DEF Due, Current, Concepts
  <2> QED
    BY <2>2, <2>3, <2>4 DEF Failed, Succeeded
<1>5. PagesMatch'
  <2>1. ASSUME NEW f \in Sources, Due(f)', NEW x \in Concepts(st', f)
        PROVE  Covered(f, x)
    BY <1>1, <1>4, <2>1 DEF FinishInv, PagesMatch, Written, Covered
  <2>2. \A f, x : Covered(f, x)' = Covered(f, x)
    BY <1>1 DEF Covered, Good
  <2> QED
    BY <1>1, <2>1, <2>2 DEF PagesMatch, Written, Concepts
<1>6. Repeatable'
  <2>1. ASSUME ReviewRuns, NEW f \in Sources, Due(f)', NEW C \in Extracts[f][src[f]]
        PROVE  Concepts(st', f) \subseteq C
    <3>1. CASE ext[f].read = NoFile /\ Due(f) /\ Concepts(st', f) = Concepts(st, f)
      BY <2>1, <3>1 DEF FinishInv, Repeatable
    <3>2. CASE /\ src[f] \in Versions /\ ext[f].concepts \in Extracts[f][src[f]]
               /\ Concepts(st', f) = ext[f].concepts \cap live
      BY <2>1, <3>2 DEF Finishes, OneAnswer
    <3> QED
      BY <1>4, <2>1, <3>1, <3>2
  <2> QED
    BY <1>1, <2>1 DEF Repeatable, Concepts
<1>7. CandidatesCarry'
  <2>1. ASSUME NEW x \in Slugs, cand[x] # NoCand, NEW f \in Sources, Due(f)',
               x \in Concepts(st', f)
        PROVE  <<f, x>> \in dropped \/ \E s \in cand[x].states : s[1] = f
    <3>1. x \notin live
      BY <1>1, <2>1 DEF FinishInv, Settling, Written
    <3>2. ext[f].read = NoFile /\ Due(f) /\ x \in Concepts(st, f)
      BY <1>4, <2>1, <3>1
    <3> QED
      BY <2>1, <3>2 DEF FinishInv, CandidatesCarry, Kept
  <2> QED
    BY <1>1, <2>1 DEF CandidatesCarry, Concepts
<1> QED
  BY <1>3, <1>5, <1>6, <1>7 DEF FinishInv

\* A review run ends, and so does an approval: every source has been recorded.
LEMMA FinishEnd ==
    ASSUME FinishInv, FinishReview \/ deleteApprovedCandidate
    PROVE  FinishInv'
<1>1. /\ pc' = "idle" /\ ~review' /\ ext' = [f \in Sources |-> NotExtracted]
      /\ pc \in {"generate", "approve"} /\ (pc = "generate" => review)
      /\ (pc = "approve" => left = {})
      /\ UNCHANGED <<src, st, page, by, dropped>>
  BY DEF FinishReview, deleteApprovedCandidate, Idle, disk, history
<1>2. Reviewing' /\ Truthful' /\ Drafted' /\ Settling'
  BY <1>1 DEF Reviewing, Truthful, Drafted, Settling, Written, NotExtracted
<1>3. Repeatable'
  BY <1>1 DEF FinishInv, Repeatable, Due, Current, Concepts
<1>4. PagesMatch'
  BY <1>1 DEF FinishInv, PagesMatch, AwaitsApproval, Written, Due, Current, Concepts,
              Covered, Good
<1>5. \A f : Kept(f) /\ Due(f)' = Due(f) /\ Concepts(st, f)' = Concepts(st, f)
  BY <1>1 DEF Kept, Written, Due, Current, Concepts
<1>6. \A x \in Slugs : cand'[x] # NoCand => cand'[x] = cand[x]
  BY DEF FinishReview, deleteApprovedCandidate, disk
<1>7. CandidatesCarry'
  BY <1>1, <1>5, <1>6 DEF FinishInv, CandidatesCarry
<1> QED
  BY <1>2, <1>3, <1>4, <1>7 DEF FinishInv

\* An approval puts the sources its candidate carries in charge of it, and a current one
\* among them is no longer spoken for by a compile.
LEMMA FinishApproval ==
    ASSUME PipeInv, FinishInv, NEW x \in Slugs, ApprovePage(x)
    PROVE  FinishInv'
<1>1. /\ pc = "idle" /\ pc' = "approve" /\ cand[x] # NoCand /\ live' = {x}
      /\ page' = [page EXCEPT ![x] = [from |-> cand[x].from, orphaned |-> FALSE]]
      /\ left' = {s[1] : s \in cand[x].states}
      /\ UNCHANGED <<src, st, cand, review, change, ext, by, dropped>>
  BY DEF ApprovePage, history
<1>2. Reviewing' /\ Truthful' /\ Drafted' /\ Settling'
  BY <1>1 DEF FinishInv, Reviewing, Truthful, Drafted, Settling, Written
<1>3. Repeatable'
  BY <1>1 DEF FinishInv, Repeatable, Due, Current, Concepts
<1>4. \A f : Kept(f) /\ Due(f)' = Due(f) /\ Concepts(st, f)' = Concepts(st, f)
  BY <1>1 DEF Kept, Written, Due, Current, Concepts
<1>5. ASSUME NEW f \in Sources, Due(f), NEW y \in Concepts(st, f)
      PROVE  (Covered(f, y) \/ AwaitsApproval(f, y))'
  <2>1. y \in Slugs
    BY <1>5 DEF Concepts, PipeInv, TypeOK, Entry
  <2>2. CASE y = x
    <3>1. <<f, x>> \in dropped \/ f \in left'
      BY <1>1, <1>4, <1>5, <2>2 DEF FinishInv, CandidatesCarry
    <3> QED
      BY <1>1, <2>2, <3>1 DEF Covered, AwaitsApproval
  <2>3. CASE y # x
    <3>1. page'[y] = page[y]
      BY <1>1, <2>1, <2>3 DEF PipeInv, TypeOK
    <3>2. Covered(f, y)
      BY <1>1, <1>5 DEF FinishInv, PagesMatch, AwaitsApproval, Written
    <3> QED
      BY <1>1, <3>1, <3>2 DEF Covered, Good
  <2> QED
    BY <2>2, <2>3
<1>6. PagesMatch'
  BY <1>1, <1>4, <1>5 DEF PagesMatch, Written
<1>7. CandidatesCarry'
  BY <1>1, <1>4, CandidatesAside
<1> QED
  BY <1>2, <1>3, <1>6, <1>7 DEF FinishInv

LEMMA FinishApproved ==
    ASSUME PipeInv, FinishInv, NEW f \in Sources, addApprovedSlugToSourceState(f)
    PROVE  FinishInv'
<1>1. /\ pc = "approve" /\ left' = left \ {f}
      /\ by' = [by EXCEPT ![f] = "approve"]
      /\ UNCHANGED <<src, page, cand, pc, review, change, ext, live, dropped>>
  BY DEF addApprovedSlugToSourceState
<1>2. \A g \in Sources \ {f} : st'[g] = st[g] /\ by'[g] = by[g]
  BY DEF addApprovedSlugToSourceState, PipeInv, TypeOK
<1>3. by'[f] = "approve"
  BY <1>1 DEF PipeInv, TypeOK
<1>4. Reviewing' /\ Truthful' /\ Drafted' /\ Settling'
  BY <1>1 DEF FinishInv, Reviewing, Truthful, Drafted, Settling, Written
<1>5. ASSUME NEW g \in Sources, Due(g)'
      PROVE  g # f /\ Due(g) /\ Concepts(st', g) = Concepts(st, g)
  BY <1>1, <1>2, <1>3, <1>5 DEF Due, Current, Concepts
<1>6. Repeatable'
  BY <1>1, <1>5 DEF FinishInv, Repeatable, Concepts
<1>7. PagesMatch'
  <2>1. ASSUME NEW g \in Sources, Due(g)', NEW x \in Concepts(st', g)
        PROVE  (Covered(g, x) \/ AwaitsApproval(g, x))'
    <3>1. Covered(g, x) \/ AwaitsApproval(g, x)
      BY <1>1, <1>5, <2>1 DEF FinishInv, PagesMatch, Written
    <3> QED
      BY <1>1, <1>5, <2>1, <3>1 DEF Covered, Good, AwaitsApproval
  <2> QED
    BY <1>1, <2>1 DEF PagesMatch, Written, Concepts
<1>8. CandidatesCarry'
  <2>1. \A g : Kept(g)
    BY <1>1 DEF Kept, Written
  <2> QED
    BY <1>1, <1>5, <2>1 DEF FinishInv, CandidatesCarry, Concepts
<1> QED
  BY <1>4, <1>6, <1>7, <1>8 DEF FinishInv

LEMMA FinishReject ==
    ASSUME PipeInv, FinishInv, NEW x \in Slugs, Reject(x)
    PROVE  FinishInv'
<1>1. /\ pc = "idle" /\ cand' = [cand EXCEPT ![x] = NoCand]
      /\ UNCHANGED <<src, st, page, session, by, dropped>>
  BY DEF Reject, history
<1>2. Reviewing' /\ Truthful' /\ Drafted' /\ Settling'
  BY <1>1 DEF FinishInv, Reviewing, Truthful, Drafted, Settling, Written, session
<1>3. Repeatable'
  BY <1>1 DEF FinishInv, Repeatable, Due, Current, Concepts
<1>4. PagesMatch'
  BY <1>1, PagesAside DEF Written, session
<1>5. \A y \in Slugs : cand'[y] # NoCand => cand'[y] = cand[y]
  BY <1>1 DEF PipeInv, TypeOK
<1>6. \A f : Kept(f) /\ Due(f)' = Due(f) /\ Concepts(st, f)' = Concepts(st, f)
  BY <1>1 DEF Kept, Written, Due, Current, Concepts
<1>7. CandidatesCarry'
  BY <1>1, <1>5, <1>6 DEF FinishInv, CandidatesCarry
<1> QED
  BY <1>2, <1>3, <1>4, <1>7 DEF FinishInv

\* The author changes a source between runs, and never back to what is recorded.
LEMMA FinishAuthor ==
    ASSUME Finishes, PipeInv, FinishInv, NEW f \in Sources,
           NEW v \in Versions \cup {NoFile}, Change(f, v)
    PROVE  FinishInv'
<1>1. /\ pc = "idle" /\ (v # NoFile /\ st[f] # NoEntry => v # st[f].hash)
      /\ src' = [src EXCEPT ![f] = v]
      /\ UNCHANGED <<st, page, cand, session, by, dropped>>
  BY DEF Finishes, Change, MayChange
<1>2. \A g \in Sources : ext[g].read = NoFile
  BY <1>1 DEF PipeInv, Fresh, NotExtracted
<1>3. Reviewing' /\ Truthful' /\ Drafted' /\ Settling'
  BY <1>1, <1>2 DEF FinishInv, Reviewing, Truthful, Drafted, Settling, Written, session
<1>4. src'[f] = v /\ \A g \in Sources \ {f} : src'[g] = src[g]
  BY <1>1 DEF PipeInv, TypeOK
<1>5. ASSUME NEW g \in Sources, Due(g)'
      PROVE  g # f /\ Due(g) /\ src'[g] = src[g]
  BY <1>1, <1>4, <1>5 DEF Due, Current
<1>6. ASSUME NEW g \in Sources, Due(g)', NEW x \in Concepts(st, g)
      PROVE  Covered(g, x)'
  <2>1. Covered(g, x)
    BY <1>1, <1>5, <1>6 DEF FinishInv, PagesMatch, AwaitsApproval, Written
  <2> QED
    BY <1>1, <1>5, <1>6, <2>1 DEF Covered, Good
<1>7. PagesMatch'
  BY <1>1, <1>6 DEF PagesMatch, Written, session, Concepts
<1>8. Repeatable'
  BY <1>1, <1>5 DEF FinishInv, Repeatable, Concepts
<1>9. CandidatesCarry'
  <2>1. \A g : Kept(g)
    BY <1>1 DEF Kept, Written
  <2> QED
    BY <1>1, <1>5, <2>1 DEF FinishInv, CandidatesCarry, Concepts
<1> QED
  BY <1>3, <1>7, <1>8, <1>9 DEF FinishInv

LEMMA FinishStutter ==
    ASSUME FinishInv, UNCHANGED vars
    PROVE  FinishInv'
<1>1. Reviewing' /\ Truthful'
  BY DEF FinishInv, Reviewing, Truthful, vars
<1>2. Drafted'
  BY DEF FinishInv, Drafted, Failed, Succeeded, CompiledEntry, vars
<1>3. Repeatable' /\ Settling'
  BY DEF FinishInv, Repeatable, Settling, Succeeded, Due, Current, Concepts, vars
<1>4. PagesMatch'
  BY DEF FinishInv, PagesMatch, AwaitsApproval, Succeeded, Due, Current, Concepts, Covered,
         Good, vars
<1>5. \A f \in Sources : Kept(f)' => Kept(f)
  BY DEF Kept, vars
<1>6. CandidatesCarry'
  BY <1>5, CandidatesAside DEF vars
<1> QED
  BY <1>1, <1>2, <1>3, <1>4, <1>6 DEF FinishInv

LEMMA FinishStep ==
    ASSUME Finishes, PipeInv, FinishInv, [Next]_vars
    PROVE  FinishInv'
<1>1. ASSUME NEW r \in BOOLEAN, NEW filter, Start(r, filter)
      PROVE  FinishInv'
  BY <1>1, FinishStart
<1>2. CASE Compile \/ CompileReview \/ Refresh
  BY <1>1, <1>2 DEF Compile, CompileReview, Refresh
<1>3. CASE Step
  <2>1. CASE \E f \in Sources : markOrphaned(f) \/ addApprovedSlugToSourceState(f)
    BY <2>1, FinishMarkOrphaned, FinishApproved
  <2>2. CASE ExtractDirect \/ ExtractLate \/ freezeFailedExtractions
    BY <2>2, FinishExtract, FinishFreeze
  <2>3. CASE \E x \in Slugs : HoldPage(x) \/ SkipInvalidPage(x) \/ DeferLiveWrite(x)
    BY <2>3, FinishGenerate
  <2>4. CASE commitLivePageWrites \/ persistExtractionStates \/ orphanUnownedFrozenPages
    BY <2>4, FinishCommit, FinishPersist, FinishCleanup
  <2>5. CASE Flush
    BY <2>5, FinishFlush
  <2>6. CASE SourceVanished
    BY <2>6, NothingVanishes, FinishAbandon
  <2>7. CASE FinishReview \/ deleteApprovedCandidate
    BY <2>7, FinishEnd
  <2> QED
    BY <1>3, <2>1, <2>2, <2>3, <2>4, <2>5, <2>6, <2>7 DEF Step
<1>4. CASE \E x \in Slugs : ApprovePage(x) \/ Reject(x)
  BY <1>4, FinishApproval, FinishReject
<1>5. CASE Fail
  BY <1>5 DEF Finishes, Fail
<1>6. CASE Author
  BY <1>6, FinishAuthor DEF Author, EditSource, DeleteSource
<1>7. CASE UNCHANGED vars
  BY <1>7, FinishStutter
<1> QED
  BY <1>2, <1>3, <1>4, <1>5, <1>6, <1>7 DEF Next

LEMMA FinishSound ==
    ASSUME FinishInv
    PROVE  UpToDate
<1> SUFFICES ASSUME pc = "idle", AllCurrent, NEW f \in Sources, by[f] = "compile",
                    NEW x \in Concepts(st, f), <<f, x>> \notin dropped
             PROVE  Good(f, x)
  BY DEF UpToDate, Good
<1>1. Due(f)
  BY DEF AllCurrent, Current, Due, Concepts
<1> QED
  BY <1>1 DEF FinishInv, PagesMatch, AwaitsApproval, Covered, Written

\* Where runs finish and the author waits for them, with or without the review policy and
\* whatever the LLM answers (where compile --review is used: the same to the same text),
\* when compile says that all sources are up to date (src/compiler/index.ts), every concept
\* that a compile recorded has a page made from the present content of its source, whatever
\* was held, approved and rejected in between.
THEOREM FinishedRunsAreUpToDate == Finishes => (Spec => []UpToDate)
<1> SUFFICES ASSUME Finishes
             PROVE  Spec => []UpToDate
  OBVIOUS
<1>1. Init => FinishInv
  BY FinishInit
<1>2. PipeInv /\ FinishInv /\ [Next]_vars => FinishInv'
  BY FinishStep
<1>3. FinishInv => UpToDate
  BY FinishSound
<1> QED
  BY <1>1, <1>2, <1>3, PipeInvariant, PTL DEF Spec

\* There, everything the compile runs check as one holds.
THEOREM FinishedCompilesAreSound == Finishes => (Spec => []CompileSound)
<1> SUFFICES ASSUME Finishes
             PROVE  Spec => []CompileSound
  OBVIOUS
<1>1. TypeOK /\ ChangedConceptsWhole /\ UpToDate => CompileSound
  BY DEF CompileSound
<1> QED
  BY <1>1, FinishedRunsAreUpToDate, ConceptsAreRebuiltWhole, PTL

-----------------------------------------------------------------------------
(* The watcher. *)

\* The lock serializes the two compiles, and only a running one has a batch.
Serialized ==
    /\ other # "none" => phase \notin {"detect", "run"}
    /\ batch # {} => phase = "run" \/ other = "run"

\* Something will make the watcher look at the sources again.
WillLook == events # {} \/ timer \/ pending \/ phase \in {"acquire", "detect"}

\* An edit that no compile has taken up, or that the other process has taken up
\* and may yet give back by failing, still has the watcher's attention.
Attended ==
    ~missed => (dirty # {} \/ (batch # {} /\ other = "run") => WillLook)

WatchInv == WatchTypeOK /\ Serialized /\ Attended

\* WatchInv is inductive: every step of the watcher, of the author and of the other
\* process keeps it.
LEMMA WatchStep == WatchInv /\ [WatchNext]_watchVars => WatchInv'
<1> SUFFICES ASSUME WatchInv, [WatchNext]_watchVars PROVE WatchInv'
    OBVIOUS
<1> USE DEF WatchInv, WatchTypeOK, Serialized, Attended, WillLook
<1>1. CASE \E f \in Files : Edit(f)
    BY <1>1 DEF Edit
<1>2. CASE \E f \in Files : scheduleCompile(f)
    BY <1>2 DEF scheduleCompile
<1>3. CASE triggerCompile
    BY <1>3 DEF triggerCompile, Remember
<1>4. CASE AcquireLock
    BY <1>4 DEF AcquireLock
<1>5. CASE DetectChanges
    BY <1>5 DEF DetectChanges
<1>6. CASE CompileEnds
    BY <1>6 DEF CompileEnds
<1>7. CASE CompileThrows
    BY <1>7 DEF CompileThrows
<1>8. CASE AfterCompile
    BY <1>8 DEF AfterCompile
<1>9. CASE OtherStarts
    BY <1>9 DEF OtherStarts, LockFree
<1>10. CASE OtherDetects
    BY <1>10 DEF OtherDetects
<1>11. CASE OtherEnds
    BY <1>11 DEF OtherEnds
<1>12. CASE OtherThrows
    BY <1>12 DEF OtherThrows
<1>13. CASE UNCHANGED watchVars
    BY <1>13 DEF watchVars
<1> QED
    BY <1>1, <1>2, <1>3, <1>4, <1>5, <1>6, <1>7, <1>8, <1>9, <1>10, <1>11, <1>12,
       <1>13 DEF WatchNext, Process

\* At rest, an edit is uncompiled only if the watcher's last compile lost the lock
\* or threw (src/commands/watch.ts), for every set of files.
THEOREM NothingForgotten == WatchSpec => []NoEditForgotten
<1>1. WatchInit => WatchInv
    BY DEF WatchInit, WatchInv, WatchTypeOK, Serialized, Attended, WillLook
<1>2. WatchInv => NoEditForgotten
    BY DEF WatchInv, Attended, WillLook, NoEditForgotten, WatchTypeOK
<1> QED
    BY <1>1, <1>2, WatchStep, PTL DEF WatchSpec

\* The watcher's flags agree with where its compile is: `compiling' is set exactly
\* while one is under way, and `pendingRecompile' only then (src/commands/watch.ts).
THEOREM FlagsAgree == WatchSpec => []WatchTypeOK
<1>1. WatchInit => WatchInv
    BY DEF WatchInit, WatchInv, WatchTypeOK, Serialized, Attended, WillLook
<1>2. WatchInv => WatchTypeOK
    BY DEF WatchInv
<1> QED
    BY <1>1, <1>2, WatchStep, PTL DEF WatchSpec
=============================================================================
