----------------------------- MODULE EventStore -----------------------------
(***************************************************************************)
(* The append-only, hash-chained event log: src/events/store.ts,           *)
(* store-read.ts and store-record.ts.  wiki/graph/events.jsonl holds a     *)
(* header line and one line per event, .llmwiki/events.head the digest of  *)
(* the last event, written after it: the seal is the commit point.         *)
(*                                                                         *)
(* Appends run under the project lock (module ProjectLock), one at a time. *)
(* The process may die between two file operations, or inside a write to   *)
(* the log, which then keeps a partial last line; the head is replaced by  *)
(* a rename.  Somebody else may rewrite the log file, but not the head     *)
(* with it.                                                                *)
(***************************************************************************)
EXTENDS Naturals, Sequences

CONSTANTS
    Payloads,       \* what an event says
    NoEvent,        \* no append in progress
    MaxEvents,      \* the store's byte cap, in events
    MaxIds          \* bound: events ever written

ASSUME EventAssumption ==
    MaxEvents \in Nat /\ MaxIds \in Nat /\ NoEvent \notin Payloads

Genesis == 0        \* GENESIS_PREV_HASH, and the digest an absent head stands for

EventIds == 1..MaxIds

\* The id is a fresh ULID and the digest covers it, so it stands for the digest.
EventRecord == [id : EventIds, prev : EventIds \cup {Genesis}, payload : Payloads]

VARIABLES
    header,     \* the first line: "absent" (no file), "ok", or "torn"
    log,        \* the records with a valid checksum, in file order
    tail,       \* a partial or garbled last line follows them
    head,       \* the head anchor
    step,       \* where the append in progress is
    event,      \* its payload
    lastId,     \* the last ULID minted
    \* History, read by no action:
    sealed,     \* every event ever sealed, in order
    tampered    \* somebody else rewrote the log

store == <<header, log, tail, head>>
esvars == <<header, log, tail, head, step, event, lastId, sealed, tampered>>

eventPrevHash(l) == IF l = <<>> THEN Genesis ELSE l[Len(l)].id

ButLast(l) == SubSeq(l, 1, Len(l) - 1)

verifyEventChain(l) ==
    \A i \in 1..Len(l) : l[i].prev = IF i = 1 THEN Genesis ELSE l[i - 1].id

\* The head seals all of the log, all but its last record, or something else.
classifyHeadState(anchor, l) ==
    IF anchor = eventPrevHash(l) THEN "healthy"
    ELSE IF l # <<>> /\ anchor = eventPrevHash(ButLast(l)) THEN "one-ahead"
    ELSE "tamper"

\* parseHeader and parseRecords: a bad header throws, a bad last line does not.
Readable == header # "torn"

\* readEvents and checkEventChain: what lint reports of the store, which it reads
\* without the lock and without repairing it.
checkEventChain ==
    IF ~Readable THEN {"event-store-corrupt"}
    ELSE (IF tail THEN {"event-store-torn"} ELSE {})
         \cup (IF verifyEventChain(log) /\ head = eventPrevHash(log) THEN {}
               ELSE {"event-chain-broken"})

\* prepareEventStoreForAppend returns rather than throws.
Preparable ==
    /\ Readable
    /\ verifyEventChain(log)
    /\ classifyHeadState(head, log) # "tamper"

\* The records it keeps: the unsealed last one is dropped.
Kept == IF classifyHeadState(head, log) = "one-ahead" THEN ButLast(log) ELSE log

Repaired == tail \/ Kept # log

\* truncateToRecords rewrites the file atomically, header included, and only
\* when there is something to drop.
Repair ==
    /\ log' = Kept
    /\ tail' = FALSE
    /\ header' = IF Repaired THEN "ok" ELSE header

\* assertRecordWithinCap and assertStoreNotFull.
HasRoom(l) == Len(l) < MaxEvents

-----------------------------------------------------------------------------

EvInit ==
    /\ header = "absent" /\ log = <<>> /\ tail = FALSE /\ head = Genesis
    /\ step = "idle" /\ event = NoEvent /\ lastId = 0
    /\ sealed = <<>> /\ tampered = FALSE

\* preflightEventAppend: repairs the store, and throws while nothing is written
\* when the event would not fit.
preflightEventAppend(p) ==
    /\ step = "idle"
    /\ Preparable /\ Repair
    /\ IF HasRoom(Kept) THEN step' = "ready" /\ event' = p
       ELSE UNCHANGED <<step, event>>
    /\ UNCHANGED <<head, lastId, sealed, tampered>>

\* appendEventLocked up to appendLine's caps; appendEvent calls it without a
\* preflight.
StartAppend(p) ==
    /\ step \in {"idle", "ready"}
    /\ step = "ready" => p = event
    /\ Preparable /\ Repair
    /\ IF HasRoom(Kept) THEN step' = "append" /\ event' = p
       ELSE step' = "idle" /\ event' = NoEvent
    /\ UNCHANGED <<head, lastId, sealed, tampered>>

\* appendLine: the header of an empty file first.
WriteHeader ==
    /\ step = "append" /\ header = "absent"
    /\ header' = "ok"
    /\ UNCHANGED <<log, tail, head, step, event, lastId, sealed, tampered>>

NewRecord == [id |-> lastId + 1, prev |-> eventPrevHash(log), payload |-> event]

WriteRecord ==
    /\ step = "append" /\ header = "ok" /\ lastId < MaxIds
    /\ log' = Append(log, NewRecord)
    /\ lastId' = lastId + 1
    /\ step' = "seal"
    /\ UNCHANGED <<header, tail, head, event, sealed, tampered>>

\* sealHeadAnchor: the event is committed.
sealHeadAnchor ==
    /\ step = "seal"
    /\ head' = eventPrevHash(log)
    /\ sealed' = Append(sealed, log[Len(log)])
    /\ step' = "idle" /\ event' = NoEvent
    /\ UNCHANGED <<header, log, tail, lastId, tampered>>

\* The process dies, or a call throws, between two writes ...
Abort ==
    /\ step # "idle" /\ step' = "idle" /\ event' = NoEvent
    /\ UNCHANGED <<store, lastId, sealed, tampered>>

\* ... or inside one, which leaves part of a line.
TornHeader ==
    /\ step = "append" /\ header = "absent"
    /\ header' = "torn" /\ step' = "idle" /\ event' = NoEvent
    /\ UNCHANGED <<log, tail, head, lastId, sealed, tampered>>

TornRecord ==
    /\ step = "append" /\ header = "ok"
    /\ tail' = TRUE /\ step' = "idle" /\ event' = NoEvent
    /\ UNCHANGED <<header, log, head, lastId, sealed, tampered>>

\* Somebody drops records from the end of the log, garbles the last one,
\* removes one, or replaces one by another that carries a valid checksum.
Tamper ==
    /\ step = "idle" /\ log # <<>> /\ lastId < MaxIds
    /\ \/ \E n \in 0..(Len(log) - 1), torn \in BOOLEAN :
             log' = SubSeq(log, 1, n) /\ tail' = torn
       \/ \E n \in 1..(Len(log) - 1) :
             /\ log' = SubSeq(log, 1, n - 1) \o SubSeq(log, n + 1, Len(log))
             /\ UNCHANGED tail
       \/ \E n \in 1..Len(log), p \in Payloads :
             /\ log' = [log EXCEPT ![n].payload = p, ![n].id = lastId + 1]
             /\ UNCHANGED tail
    /\ tampered' = TRUE
    /\ lastId' = lastId + 1
    /\ UNCHANGED <<header, head, step, event, sealed>>

EvNext ==
    \/ \E p \in Payloads : preflightEventAppend(p) \/ StartAppend(p)
    \/ WriteHeader \/ WriteRecord \/ sealHeadAnchor
    \/ Abort \/ TornHeader \/ TornRecord \/ Tamper

EvSpec == EvInit /\ [][EvNext]_esvars

-----------------------------------------------------------------------------
(* Properties. *)

\* Every variable keeps its type.
EvTypeOK ==
    /\ header \in {"absent", "ok", "torn"}
    /\ log \in Seq(EventRecord) /\ sealed \in Seq(EventRecord)
    /\ tail \in BOOLEAN /\ tampered \in BOOLEAN
    /\ head \in EventIds \cup {Genesis}
    /\ step \in {"idle", "ready", "append", "seal"}
    /\ event \in Payloads \cup {NoEvent} /\ lastId \in 0..MaxIds

\* What every reader may trust: unless somebody else rewrote the file, the log
\* holds every sealed event, in order, followed by at most one record the head
\* does not seal - after a crash at any point of an append or of the repair of
\* an earlier one.  So an event, once sealed, is never lost or reordered.
SealedKept ==
    ~tampered => /\ head = eventPrevHash(sealed)
                 /\ log = sealed \/ (log # <<>> /\ ButLast(log) = sealed)

\* The next append always succeeds, unless the very first write to the file was
\* torn (parseHeader then throws for good) or the log was rewritten.
AppendRecovers == ~tampered /\ header # "torn" => Preparable

\* Whatever differs from what was sealed is reported: a log that lost, gained,
\* reordered or changed a record never passes lint, whoever changed it.
TamperReported == checkEventChain \subseteq {"event-store-torn"} => log = sealed

\* No laundering: the head is only ever moved over a log that holds exactly the
\* events sealed before and the new one.  A rewritten log is refused until it is
\* the original again, and its forged records are never sealed.
NoLaundering ==
    head' # head => log' = sealed' /\ ButLast(sealed') = sealed
=============================================================================
