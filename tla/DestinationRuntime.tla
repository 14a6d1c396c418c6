------------------------- MODULE DestinationRuntime -------------------------
(***************************************************************************)
(* The destination runtime (src/polymorph/runtime.py): concurrent workers  *)
(* that share one delivery ledger, one sealed spool and one destination    *)
(* connector.  A worker runs deliver / deliver_many (one chunk) or replay. *)
(* Every transaction of the ledger or the spool, and the connector call,   *)
(* is a step of its own, so a crash, an expired claim, another worker or   *)
(* a late commit of the destination can fall between any two of them.      *)
(*                                                                         *)
(* The destination is external.  A request stays in flight until it is     *)
(* applied or the connector proves it was not (WriteOutcome.NOT_COMMITTED);*)
(* a timeout or a crash of the worker proves nothing, and the request may  *)
(* still be applied later.  A destination that honours an idempotency      *)
(* contract applies one record at most once under that contract.           *)
(***************************************************************************)
EXTENDS DeliveryLedger

CONSTANTS Workers,    \* destination workers sharing the ledger
          Caps,       \* capability snapshots the connector may advertise
          MaxToken,   \* bound: claims per ledger row
          MaxFaults,  \* bound: crashes, stalls past a claim lease, storage errors
          Upgraded    \* start from a ledger an earlier release wrote

\* connectors/base.py ConnectorCapabilities, reduced to what decides retries.
Capabilities == [contract : Contracts \cup {NoContract},
                 batch    : BOOLEAN,
                 cross    : BOOLEAN]

NoCaps == [contract |-> NoContract, batch |-> FALSE, cross |-> FALSE]

ASSUME RuntimeConstants ==
    /\ Caps \subseteq Capabilities
    /\ Caps # {}
    /\ MaxToken \in Nat
    /\ MaxFaults \in Nat
    /\ Upgraded \in BOOLEAN

ScalarContract(c) == c.contract

\* A connector whose batch keys are trusted to match its scalar keys.
BatchContractIgnoresCross(c) == IF c.batch THEN c.contract ELSE NoContract

BatchContract(c) == IF c.batch /\ c.cross THEN c.contract ELSE NoContract

VARIABLES ledger,    \* delivery row of every identity
          spool,     \* records sealed in quarantine
          job,       \* what each worker is doing
          caps,      \* what the connector advertises now
          inflight,  \* writes handed to the destination, outcome still open
          effects,   \* rows applied per record and contract (external)
          receipt,   \* last receipt returned for a record
          forced,    \* identities an operator force-replayed past the gate
          faults     \* faults so far

vars == <<ledger, spool, job, caps, inflight, effects, receipt, forced, faults>>

Pcs == {"idle", "claimed", "rejecting", "unspool", "writing", "rolledback",
        "unknown", "cleanup", "rearm"}

Tokens == [Records -> Nat]
NoTokens == [r \in Records |-> 0]

Request == [tok : Tokens, contract : Contracts \cup {NoContract}]

JobFields ==
       [pc      : Pcs,
        batch   : BOOLEAN,                        \* one atomic batch attempt
        replay  : BOOLEAN,                        \* replay_attempt
        caps    : Capabilities,                   \* authorized_capabilities
        tok     : Tokens,                         \* claims held, 0 for none
        amb     : SUBSET Records,                 \* ambiguous, still to spool
        cur     : Records \cup {NoRecord},        \* record being rejected or rearmed
        exp     : DeliveryState \cup {"absent"},  \* entry.state replay() read
        hist    : Contracts \cup {NoContract},    \* entry.idempotency_contract_id
        force   : BOOLEAN,                        \* replay passed only by force
        dropped : BOOLEAN,                        \* the capability check failed
        safe    : BOOLEAN]                        \* write_retry_safe

\* A call that works on one record names it.
Job == {j \in JobFields :
          j.pc \in {"rejecting", "unspool", "rearm"} => j.cur \in Records}

IdleJob == [pc |-> "idle", batch |-> FALSE, replay |-> FALSE, caps |-> NoCaps,
            tok |-> NoTokens, amb |-> {}, cur |-> NoRecord, exp |-> "absent",
            hist |-> NoContract, force |-> FALSE, dropped |-> FALSE,
            safe |-> FALSE]

Receipt == [status : {"none", "delivered", "duplicate", "ambiguous", "quarantined"},
            safe   : BOOLEAN]
NoReceipt == [status |-> "none", safe |-> FALSE]

\* A lookup that has the digest in its WHERE clause and misses the conflict.
RowOfSameDigest(r) ==
    IF ledger[KeyOf[r]].digest = r THEN ledger[KeyOf[r]] ELSE AbsentRow

RowOf(r) == ledger[KeyOf[r]]
Held(j) == {r \in Records : j.tok[r] > 0}
KeysOf(S) == {KeyOf[r] : r \in S}

Drop(j, r) == [j EXCEPT !.tok[r] = 0, !.cur = NoRecord, !.pc = "claimed"]

\* The job once a record is settled: the call returns when none is left.
Continue(j) == IF j.amb = {} /\ Held(j) = {} THEN IdleJob ELSE j

\* The contract the ledger records with a first write.
AttemptContract(j) ==
    IF j.batch THEN BatchContract(j.caps) ELSE ScalarContract(j.caps)

\* A replay whose idempotency key is not the one of the first write.
WriteKeyFreshOnReplay(j) ==
    IF j.replay \/ (j.batch /\ ~j.caps.cross) THEN NoContract ELSE j.caps.contract

\* The contract under which the destination recognises the idempotency keys of
\* the request: batch keys equal scalar keys only where the connector says so.
WriteKey(j) == IF j.batch /\ ~j.caps.cross THEN NoContract ELSE j.caps.contract

RequestOf(j) == [tok |-> j.tok, contract |-> WriteKey(j)]

OwnsAll(j, state) == \A r \in Held(j) : Owns(RowOf(r), r, j.tok[r], state)

OwnsAllClaims(j, state) ==
    \A r \in Held(j) : OwnsClaim(RowOf(r), r, j.tok[r], state)

Transition(S, state) ==
    [k \in Keys |-> IF k \in KeysOf(S) THEN Moved(ledger[k], state) ELSE ledger[k]]

Returned(S, status, safe) ==
    [r \in Records |-> IF r \in S THEN [status |-> status, safe |-> safe]
                                  ELSE receipt[r]]

Fault == faults < MaxFaults /\ faults' = faults + 1

-----------------------------------------------------------------------------
(* deliver and deliver_many: one chunk of records with distinct identities. *)
(* A chunk of one record takes the scalar path; a larger one needs an      *)
(* atomic batch writer.                                                    *)

Chunk(S) ==
    /\ S # {}
    /\ \A a, b \in S : KeyOf[a] = KeyOf[b] => a = b
    /\ (\E a, b \in S : a # b) => caps.batch

\* The receipt of the claim itself: nothing else happens to the record.
ClaimReceipt(r) ==
    CASE Disposition(RowOf(r)) = "already_committed" ->
                [status |-> "duplicate", safe |-> FALSE]
      [] Disposition(RowOf(r)) = "in_progress" ->
                [status |-> "ambiguous", safe |-> FALSE]
      [] OTHER -> receipt[r]

Claimed(S) ==
    [k \in Keys |->
        LET r == CHOOSE r \in S : KeyOf[r] = k
        IN IF k \in KeysOf(S) /\ Granted(RowOf(r)) THEN ClaimedRow(RowOf(r), r)
                                                   ELSE ledger[k]]

\* Snapshot the capabilities and claim the chunk in one ledger transaction.
\* An identity reused with another digest rolls all of it back.
Deliver(w, S) ==
    /\ job[w].pc = "idle"
    /\ Chunk(S)
    /\ \A r \in S : /\ ~ReplayDetected(RowOf(r), r)
                    /\ Granted(RowOf(r)) => RowOf(r).token < MaxToken
    /\ ledger' = Claimed(S)
    /\ LET batch == \E a, b \in S : a # b
           j == [IdleJob EXCEPT
                   !.pc = "claimed",
                   !.batch = batch,
                   !.caps = caps,
                   !.tok = [r \in Records |->
                              IF r \in S /\ Granted(RowOf(r))
                              THEN RowOf(r).token + 1 ELSE 0],
                   !.amb = {r \in S : Disposition(RowOf(r)) = "ambiguous"},
                   !.safe = IF batch THEN BatchContract(caps) # NoContract
                                     ELSE ScalarContract(caps) # NoContract]
       IN job' = [job EXCEPT ![w] = Continue(j)]
    /\ receipt' = [r \in Records |-> IF r \in S THEN ClaimReceipt(r) ELSE receipt[r]]
    /\ UNCHANGED <<spool, caps, inflight, effects, forced, faults>>

\* The sealed spool.  One transaction of quarantine_many takes every record; a
\* record that is there already gets a new reason.  If remove_many fails, the
\* copies stay and the delivery counts all the same.
QuarantineMany(S) == spool' = spool \cup S

RemoveMany(S) ==
    \/ spool' = spool \ S /\ UNCHANGED faults
    \/ Fault /\ UNCHANGED spool

\* get; whatever is not the sealed record itself is an error.
Spooled(r) == r \in spool

\* An ambiguous record is sealed before its receipt is returned.
SpoolAmbiguous(w, r) ==
    /\ job[w].pc = "claimed"
    /\ r \in job[w].amb
    /\ QuarantineMany({r})
    /\ job' = [job EXCEPT ![w] = Continue([job[w] EXCEPT !.amb = @ \ {r}])]
    /\ receipt' = Returned({r}, "ambiguous", FALSE)
    /\ UNCHANGED <<ledger, caps, inflight, effects, forced, faults>>

-----------------------------------------------------------------------------
(* _deliver_claimed and _deliver_atomic_batch up to the write boundary.    *)

\* A claimed record that does not open, does not fit the plan or the target,
\* or does not resolve; or, with changed, capabilities that differ from the
\* snapshot or cannot be read.  Either way it is sealed first.
Reject(w, r, changed) ==
    /\ job[w].pc = "claimed"
    /\ job[w].amb = {}
    /\ job[w].tok[r] > 0
    /\ job[w].dropped => changed
    /\ QuarantineMany({r})
    /\ job' = [job EXCEPT ![w] = [@ EXCEPT !.pc = "rejecting", !.cur = r,
                                           !.dropped = changed]]
    /\ UNCHANGED <<ledger, caps, inflight, effects, receipt, forced, faults>>

RejectSafe(j) == IF j.dropped THEN ~j.replay ELSE ~j.batch /\ j.safe

\* The second half of _quarantine_before_write.  A lost claim is reconciled
\* with a commit by the worker that replaced this one.
MarkRejected(w) ==
    LET j == job[w]
        r == j.cur
        owned == OwnsClaim(RowOf(r), r, j.tok[r], ClaimState(j.replay))
        lost == Returned({r}, "ambiguous", FALSE)
    IN /\ j.pc = "rejecting"
       /\ \/ /\ owned
             /\ ledger' = Transition({r}, QuarantinedState(j.replay))
             /\ job' = [job EXCEPT ![w] = Continue(Drop(j, r))]
             /\ receipt' = Returned({r}, "quarantined", RejectSafe(j))
             /\ UNCHANGED faults
          \/ /\ ~owned /\ RowOf(r).state = "committed"
             /\ job' = [job EXCEPT ![w] = [@ EXCEPT !.pc = "unspool"]]
             /\ UNCHANGED <<ledger, receipt, faults>>
          \/ /\ ~owned /\ RowOf(r).state # "committed"
             /\ job' = [job EXCEPT ![w] = Continue(Drop(j, r))]
             /\ receipt' = lost
             /\ UNCHANGED <<ledger, faults>>
          \/ /\ ~owned /\ Fault  \* ledger.get fails too
             /\ job' = [job EXCEPT ![w] = Continue(Drop(j, r))]
             /\ receipt' = lost
             /\ UNCHANGED ledger
       /\ UNCHANGED <<spool, caps, inflight, effects, forced>>

\* Take the stale copy back out of quarantine.
Unspool(w) ==
    LET j == job[w]
    IN /\ j.pc = "unspool"
       /\ RemoveMany({j.cur})
       /\ job' = [job EXCEPT ![w] = Continue(Drop(j, j.cur))]
       /\ receipt' = Returned({j.cur}, "duplicate", FALSE)
       /\ UNCHANGED <<ledger, caps, inflight, effects, forced>>

WriteStarted(j) ==
    [k \in Keys |->
        IF k \notin KeysOf(Held(j)) THEN ledger[k]
        ELSE IF j.replay THEN StartReplayRow(ledger[k])
        ELSE StartWriteRow(ledger[k], j.batch, AttemptContract(j))]

\* The write boundary: every claim must still be fenced and unexpired, or no
\* record of the attempt is written.
StartWrite(w) ==
    LET j == job[w]
    IN /\ j.pc = "claimed"
       /\ j.amb = {}
       /\ ~j.dropped
       /\ j.caps = caps
       /\ IF OwnsAllClaims(j, ClaimState(j.replay))
          THEN /\ ledger' = WriteStarted(j)
               /\ inflight' = inflight \cup {RequestOf(j)}
               /\ job' = [job EXCEPT ![w] = [@ EXCEPT !.pc = "writing"]]
               /\ UNCHANGED receipt
          ELSE /\ job' = [job EXCEPT ![w] = IdleJob]
               /\ receipt' = Returned(Held(j), "ambiguous", FALSE)
               /\ UNCHANGED <<ledger, inflight>>
       /\ UNCHANGED <<spool, caps, effects, forced, faults>>

-----------------------------------------------------------------------------
(* The destination and the connector call.                                 *)

Deduplicates(q, r) == q.contract # NoContract /\ effects[r][q.contract] > 0

\* The destination applies a request, all of its records or none.
Apply(q) ==
    /\ q \in inflight
    /\ inflight' = inflight \ {q}
    /\ effects' = [r \in Records |->
                     IF q.tok[r] > 0 /\ ~Deduplicates(q, r)
                     THEN [effects[r] EXCEPT ![q.contract] = @ + 1]
                     ELSE effects[r]]
    /\ UNCHANGED <<ledger, spool, job, caps, receipt, forced, faults>>

\* The connector acknowledged the write.  If the outcome cannot be recorded,
\* because the claim was replaced or the ledger fails, the record is sealed.
Acked(w) ==
    LET j == job[w]
        owned == OwnsAll(j, WriteState(j.batch, j.replay))
    IN /\ j.pc = "writing"
       /\ RequestOf(j) \notin inflight
       /\ \/ /\ owned
             /\ ledger' = Transition(Held(j), "committed")
             /\ job' = [job EXCEPT ![w] = [@ EXCEPT !.pc = "cleanup"]]
             /\ UNCHANGED <<spool, receipt, faults>>
          \/ /\ \/ ~owned /\ UNCHANGED faults
                \/ owned /\ Fault
             /\ QuarantineMany(Held(j))
             /\ job' = [job EXCEPT ![w] = IdleJob]
             /\ receipt' = Returned(Held(j), "ambiguous", ~j.batch /\ j.safe)
             /\ UNCHANGED ledger
       /\ UNCHANGED <<caps, inflight, effects, forced>>

\* A rollback that is recorded before the record is sealed.
RolledBackUnsealed(w) ==
    /\ job[w].pc = "writing"
    /\ RequestOf(job[w]) \in inflight
    /\ inflight' = inflight \ {RequestOf(job[w])}
    /\ job' = [job EXCEPT ![w] = [@ EXCEPT !.pc = "rolledback"]]
    /\ UNCHANGED <<ledger, spool, caps, effects, receipt, forced, faults>>

\* WriteOutcome.NOT_COMMITTED: the connector proves that nothing was written.
RolledBack(w) ==
    /\ job[w].pc = "writing"
    /\ RequestOf(job[w]) \in inflight
    /\ inflight' = inflight \ {RequestOf(job[w])}
    /\ QuarantineMany(Held(job[w]))
    /\ job' = [job EXCEPT ![w] = [@ EXCEPT !.pc = "rolledback"]]
    /\ UNCHANGED <<ledger, caps, effects, receipt, forced, faults>>

\* Any other failure of the call leaves the outcome open.
Unknown(w) ==
    /\ job[w].pc = "writing"
    /\ QuarantineMany(Held(job[w]))
    /\ job' = [job EXCEPT ![w] = [@ EXCEPT !.pc = "unknown"]]
    /\ UNCHANGED <<ledger, caps, inflight, effects, receipt, forced, faults>>

\* Record an outcome other than success; a lost fence raises to the caller.
MarkFailed(w, pc, state, safe) ==
    LET j == job[w]
    IN /\ j.pc = pc
       /\ IF OwnsAll(j, WriteState(j.batch, j.replay))
          THEN /\ ledger' = Transition(Held(j), state)
               /\ receipt' = Returned(Held(j), "quarantined", safe)
          ELSE UNCHANGED <<ledger, receipt>>
       /\ job' = [job EXCEPT ![w] = IdleJob]
       /\ UNCHANGED <<spool, caps, inflight, effects, forced, faults>>

MarkRolledBack(w) ==
    MarkFailed(w, "rolledback", QuarantinedState(job[w].replay),
               job[w].replay => job[w].safe)

\* A timeout of a connector that is safe to retry counted as a success.
MarkUnknownAsCommitted(w) == MarkFailed(w, "unknown", "committed", job[w].safe)

MarkUnknown(w) ==
    MarkFailed(w, "unknown", UncertainState(job[w].batch, job[w].replay), job[w].safe)

\* Remove what is committed from quarantine and return the receipts.
Cleanup(w) ==
    LET j == job[w]
    IN /\ j.pc = "cleanup"
       /\ RemoveMany(Held(j))
       /\ job' = [job EXCEPT ![w] = IdleJob]
       /\ receipt' = Returned(Held(j), "delivered", FALSE)
       /\ UNCHANGED <<ledger, caps, inflight, effects, forced>>

-----------------------------------------------------------------------------
(* replay, scalar and explicit.                                            *)

\* The gate that a changed advertisement, not the recorded one, would satisfy.
ReplayAllowedByCurrentContract(row, c) ==
    CASE row.state = "quarantined" -> TRUE
      [] row.state = "claimed"     -> FALSE
      [] OTHER -> /\ ScalarContract(c) # NoContract
                  /\ row.batch => BatchContract(c) # NoContract

\* Without force: a known rollback, or the recorded contract advertised again,
\* for a batched first write across batch and scalar keys.
ReplayAllowed(row, c) ==
    CASE row.state = "quarantined" -> TRUE
      [] row.state = "claimed"     -> FALSE
      [] OTHER -> /\ row.contract # NoContract
                  /\ row.contract = ScalarContract(c)
                  /\ row.batch => BatchContract(c) # NoContract

\* Read the sealed record and its ledger entry and pass the gate, by force if
\* need be.  c is the snapshot taken before the entry was read; capabilities
\* may have changed since.
Replay(w, r, c) ==
    /\ job[w].pc = "idle"
    /\ Spooled(r)
    /\ RowOf(r).state \notin {"absent", "committed"}
    /\ RowOf(r).token < MaxToken
    /\ job' = [job EXCEPT ![w] = [IdleJob EXCEPT
                 !.pc = "rearm", !.caps = c, !.cur = r, !.exp = RowOf(r).state,
                 !.hist = RowOf(r).contract,
                 !.force = ~ReplayAllowed(RowOf(r), c)]]
    /\ UNCHANGED <<ledger, spool, caps, inflight, effects, receipt, forced, faults>>

\* A replay of a committed record only cleans up.
ReplayCommitted(w, r) ==
    /\ job[w].pc = "idle"
    /\ Spooled(r)
    /\ RowOf(r).state = "committed"
    /\ RemoveMany({r})
    /\ receipt' = Returned({r}, "duplicate", FALSE)
    /\ UNCHANGED <<ledger, job, caps, inflight, effects, forced>>

\* write_retry_safe of a rearmed attempt.
RearmedSafe(j, row) ==
    IF RearmState(j.exp) = "claimed" THEN ScalarContract(j.caps) # NoContract
    ELSE /\ j.hist # NoContract
         /\ j.hist = ScalarContract(j.caps)
         /\ row.batch => BatchContract(j.caps) # NoContract

\* rearm_for_retry compares the state replay() read, in a transaction of its
\* own, and then the record is delivered like a claimed one.
Rearm(w) ==
    LET j == job[w]
        r == j.cur
        row == RowOf(r)
    IN /\ j.pc = "rearm"
       /\ IF Rearmable(row, r, j.exp) /\ row.token < MaxToken
          THEN /\ ledger' = [ledger EXCEPT ![KeyOf[r]] = RearmRow(@)]
               /\ job' = [job EXCEPT ![w] = [IdleJob EXCEPT
                            !.pc = "claimed", !.caps = j.caps,
                            !.replay = RearmState(j.exp) = "replay_claimed",
                            !.force = j.force,
                            !.tok = [NoTokens EXCEPT ![r] = row.token + 1],
                            !.safe = RearmedSafe(j, row)]]
               /\ forced' = IF j.force THEN forced \cup {KeyOf[r]} ELSE forced
          ELSE /\ job' = [job EXCEPT ![w] = IdleJob]
               /\ UNCHANGED <<ledger, forced>>
       /\ UNCHANGED <<spool, caps, inflight, effects, receipt, faults>>

-----------------------------------------------------------------------------
(* The environment.                                                        *)

\* A worker dies, or a storage error propagates out of the call.
Crash(w) ==
    /\ job[w].pc # "idle"
    /\ Fault
    /\ job' = [job EXCEPT ![w] = IdleJob]
    /\ UNCHANGED <<ledger, spool, caps, inflight, effects, receipt, forced>>

ClaimHolders(k) ==
    {w \in Workers : \E r \in Records : KeyOf[r] = k /\ job[w].tok[r] = ledger[k].token}

\* A claim lease runs out.  It is a fault if a worker still relies on it.
Expire(k) ==
    /\ ActiveClaim(ledger[k])
    /\ ledger[k].token < MaxToken
    /\ IF ClaimHolders(k) = {} THEN UNCHANGED faults ELSE Fault
    /\ ledger' = [ledger EXCEPT ![k].live = FALSE]
    /\ UNCHANGED <<spool, job, caps, inflight, effects, receipt, forced>>

\* The connector advertises other capabilities.
Reconfigure(c) ==
    /\ c # caps
    /\ caps' = c
    /\ UNCHANGED <<ledger, spool, job, inflight, effects, receipt, forced, faults>>

NoEffects == [r \in Records |-> [c \in Contracts \cup {NoContract} |-> 0]]

FreshInit ==
    /\ ledger = [k \in Keys |-> AbsentRow]
    /\ spool = {}
    /\ effects = NoEffects

\* What an earlier release may have left of a record: replay provenance was
\* not recorded, so any state may follow a write that was applied.
LegacyRecord(r) ==
    /\ RowOf(r).digest = r =>
         \E state \in LegacyStates, batch, live \in BOOLEAN, token \in 0..1 :
           /\ ledger[KeyOf[r]] = MigratedRow(r, state, batch, token, live)
           /\ live => state = "claimed" /\ token > 0
           /\ state \in {"quarantined", "uncertain"} => r \in spool
           /\ state = "committed" => effects[r][NoContract] = 1
    /\ RowOf(r).digest # r => r \notin spool /\ effects[r] = NoEffects[r]

MigratedRows ==
    {AbsentRow} \cup
    {MigratedRow(r, state, batch, token, live) :
        r \in Records, state \in LegacyStates, batch \in BOOLEAN,
        token \in 0..1, live \in BOOLEAN}

LegacyInit ==
    /\ ledger \in [Keys -> MigratedRows]
    /\ \A k \in Keys : ledger[k].digest \in {NoRecord} \cup {r \in Records : KeyOf[r] = k}
    /\ spool \in SUBSET Records
    /\ effects \in [Records -> {NoEffects[r] : r \in Records}
                          \cup {[NoEffects[r] EXCEPT ![NoContract] = 1] : r \in Records}]
    /\ \A r \in Records : LegacyRecord(r)

Init ==
    /\ IF Upgraded THEN LegacyInit ELSE FreshInit
    /\ job = [w \in Workers |-> IdleJob]
    /\ caps \in Caps
    /\ inflight = {}
    /\ receipt = [r \in Records |-> NoReceipt]
    /\ forced = {}
    /\ faults = 0

\* The steps of a call that is under way.
Proceed(w) ==
    \/ \E r \in Records : SpoolAmbiguous(w, r)
    \/ \E r \in Records, changed \in BOOLEAN : Reject(w, r, changed)
    \/ MarkRejected(w)
    \/ Unspool(w)
    \/ StartWrite(w)
    \/ Acked(w)
    \/ RolledBack(w)
    \/ Unknown(w)
    \/ MarkRolledBack(w)
    \/ MarkUnknown(w)
    \/ Cleanup(w)
    \/ Rearm(w)

\* What happens while the connector's capabilities stay as they are.
DeliveryNext ==
    \/ \E w \in Workers, S \in SUBSET Records : Deliver(w, S)
    \/ \E w \in Workers, r \in Records, c \in Caps : Replay(w, r, c)
    \/ \E w \in Workers, r \in Records : ReplayCommitted(w, r)
    \/ \E w \in Workers : Proceed(w)
    \/ \E w \in Workers : Crash(w)
    \/ \E q \in inflight : Apply(q)
    \/ \E k \in Keys : Expire(k)

Next == DeliveryNext \/ \E c \in Caps : Reconfigure(c)

Spec == Init /\ [][Next]_vars

\* A call that is under way goes on, connector calls return or time out, a
\* lease that nobody holds runs out, and the relay hands a record out again
\* until it is acknowledged.
Fairness ==
    /\ \A w \in Workers : WF_vars(Proceed(w))
    /\ \A k \in Keys : WF_vars(ClaimHolders(k) = {} /\ Expire(k))
    /\ \A r \in Records : SF_vars(\E w \in Workers : Deliver(w, {r}))

FairSpec == Spec /\ Fairness

-----------------------------------------------------------------------------
(* Properties.                                                             *)

\* The state of the runtime has its type.
TypeOK ==
    /\ ledger \in [Keys -> Row]
    /\ spool \in SUBSET Records
    /\ job \in [Workers -> Job]
    /\ caps \in Caps
    /\ inflight \in SUBSET Request
    /\ effects \in [Records -> [Contracts \cup {NoContract} -> Nat]]
    /\ receipt \in [Records -> Receipt]
    /\ forced \in SUBSET Keys
    /\ faults \in Nat

\* The states an ordinary delivery or an ungated replay may write from.
PreWriteStates == {"absent", "claimed", "quarantined"}

\* The contracts under which the destination has, or may still get, the record.
Exposed(r) ==
    {c \in Contracts \cup {NoContract} :
        \/ effects[r][c] > 0
        \/ \E q \in inflight : q.tok[r] > 0 /\ q.contract = c}

\* A row in a state that allows a write without any gate (claim_many hands an
\* expired CLAIMED row out again, replay rearms QUARANTINED unconditionally)
\* belongs to a record the destination has never seen and can no longer get,
\* whatever workers crashed, stalled or were replaced before.
PreWriteClean ==
    \A r \in Records : RowOf(r).state \in PreWriteStates => Exposed(r) = {}

\* COMMITTED is recorded only for a record the destination really applied.
CommittedApplied ==
    \A r \in Records :
        RowOf(r).state = "committed" /\ RowOf(r).digest = r =>
            \E c \in Contracts \cup {NoContract} : effects[r][c] > 0

\* A row that waits for an operator has its sealed record in the spool, so the
\* order spool-then-ledger of the code never leaves a record without payload.
NothingLost ==
    \A r \in Records :
        /\ RowOf(r).digest = r
        /\ RowOf(r).state \in {"quarantined", "uncertain", "batch_uncertain",
                               "replay_quarantined", "replay_uncertain"}
        => r \in spool

\* Every sealed record belongs to the identity's ledger row, so replay() always
\* finds the entry it rearms, and a conflicting record is never sealed.
SpoolBound == \A r \in spool : RowOf(r).digest = r

\* Two digests that claim one identity never both reach the destination.
SingleIdentity ==
    \A a, b \in Records :
        KeyOf[a] = KeyOf[b] /\ Exposed(a) # {} /\ Exposed(b) # {} => a = b

\* A record is applied twice only after an operator forced a replay past the
\* gate: no crash, expiry, redelivery or ordinary replay repeats an effect.
AtMostOnceUnlessForced ==
    \A r \in Records : KeyOf[r] \notin forced =>
        \A c, d \in Contracts \cup {NoContract} :
            /\ effects[r][c] <= 1
            /\ effects[r][c] > 0 /\ effects[r][d] > 0 => c = d

\* A delivered or duplicate receipt, on which the relay entry and the outbox row
\* are acknowledged, is only given for a record committed under that digest.
ReceiptTruth ==
    \A r \in Records :
        receipt[r].status \in {"delivered", "duplicate"} =>
            RowOf(r).state = "committed" /\ RowOf(r).digest = r

\* A write under contract c cannot repeat an effect of the record.
Harmless(r, c) == Exposed(r) = {} \/ (c \in Contracts /\ Exposed(r) \subseteq {c})

\* Every write that starts, first or replayed, is one the destination has not
\* seen or will deduplicate, unless the identity was force-replayed before.
WritesAreIdempotent ==
    \A w \in Workers, r \in Records :
       job[w].pc = "claimed" /\ job'[w].pc = "writing" /\ job[w].tok[r] > 0
         /\ KeyOf[r] \notin forced
       => Harmless(r, WriteKey(job[w]))

\* retry_safe is said only when another write under the capabilities the call
\* ran with would be harmless, also while the request is still in flight.
RetrySafeTruth ==
    \A w \in Workers, r \in Records :
       receipt'[r] # receipt[r] /\ receipt'[r].safe /\ job'[w] # job[w]
         /\ job[w].tok[r] > 0 /\ KeyOf[r] \notin forced
       => Harmless(r, ScalarContract(job[w].caps))

\* The outcome of an attempt is its worker's to record: while a worker holds the
\* row's token, a step of anyone else leaves the state of the row alone unless
\* it takes a new token.  A stalled worker never settles its successor's write.
OutcomeOwned ==
    [][\A w \in Workers, r \in Records :
          /\ job[w].tok[r] > 0
          /\ job[w].tok[r] = RowOf(r).token
          /\ job'[w] = job[w]
          /\ RowOf(r)'.token = RowOf(r).token
          => RowOf(r)'.state = RowOf(r).state]_vars

\* A record the runtime accepted is not left to a dead worker: it is committed
\* or sealed for an operator, through crashes and expired claims.
Settles ==
    \A r \in Records :
        RowOf(r).digest = r ~> (RowOf(r).state = "committed" \/ r \in spool)

(* A record the ledger waits for is in the spool, the spool holds no other,*)
(* and without an operator's force a record is applied once and under one  *)
(* contract (deliver, deliver_many, replay).                               *)
DeliverySafe == NothingLost /\ SpoolBound /\ AtMostOnceUnlessForced

(* What callers acknowledge by is true: a receipt that says delivered or   *)
(* duplicate belongs to a committed row, and a committed row to a record   *)
(* the destination has.                                                    *)
OutcomeTruth == ReceiptTruth /\ CommittedApplied

(* A record goes out again only under a key the destination relates to its *)
(* first writing, and retry_safe is said only where that will be so        *)
(* (_write_claimed, _uncertain_receipt).                                   *)
ReplaySafe == [][WritesAreIdempotent /\ RetrySafeTruth]_vars

=============================================================================
