------------------------------ MODULE AuditLog ------------------------------
(***************************************************************************)
(* The audit trail (audit.py): a hash chain of events in a database, with  *)
(* usage metadata that triggers keep, quotas, optional signatures, and     *)
(* verification that summaries and exports rest on.  Writers share the     *)
(* database, each with its own quotas and signer.  An append is one        *)
(* immediate transaction, a verification one read transaction.             *)
(* A hash is modelled by what it commits to: the whole sequence of events  *)
(* up to its row.  The database may lose rows, and rows may be altered;    *)
(* whoever does that does not rewrite the chain.                           *)
(***************************************************************************)
EXTENDS Naturals, Sequences, FiniteSets, SequencesExt, FiniteSetsExt

CONSTANTS
    AuditWriters,    \* processes that append
    MaxEvents,       \* max_events of each of them
    MaxLogicalBytes, \* max_logical_bytes of each of them
    Signs,           \* whether each of them has a signer
    AuditEvents,     \* what an event can say
    InvalidEvents,   \* the ones among them that the format forbids
    EventBytes,      \* its encoded size with both hashes
    SignatureBytes,
    BatchEvents,     \* MAX_AUDIT_BATCH_EVENTS
    MaxBatch,        \* bound: events offered in one batch
    MaxAppends,      \* bound: batches offered
    MaxDamages       \* bound: rows lost or altered, upgrades of an old store

ASSUME AuditConstants ==
    /\ \A e \in AuditEvents : EventBytes[e] \in Nat \ {0}
    /\ \A w \in AuditWriters : Signs[w] \in BOOLEAN
    /\ {SignatureBytes, BatchEvents, MaxBatch, MaxAppends, MaxDamages} \subseteq Nat

VARIABLES
    chain,     \* audit_events by sequence
    serial,    \* the last value AUTOINCREMENT has given out
    usage,     \* audit_usage, its count above every serial if it is missing
    truth,     \* history: events whose append was acknowledged
    answer,    \* what the last verification said, and of which rows
    appends, damages

auditVars == <<chain, serial, usage, truth, answer, appends, damages>>

NoUsage == [count |-> MaxAppends * MaxBatch + 1, bytes |-> 0]
NoAnswer == [ok |-> FALSE, events |-> <<>>]

(* What a row takes: its event and its signature.                          *)
RowBytes(row) == EventBytes[row.event] + IF row.signed THEN SignatureBytes ELSE 0

LastSequence(rows) == Max({0} \cup DOMAIN rows)

(* The sum over a table.                                                   *)
BytesIn(rows) ==
    LET upTo[n \in 0..LastSequence(rows)] ==
          IF n = 0 THEN 0
          ELSE upTo[n - 1] + IF n \in DOMAIN rows THEN RowBytes(rows[n]) ELSE 0
    IN upTo[LastSequence(rows)]

(* A row commits to the events before it and to its own.                   *)
AuditRow(previous, event, signed) ==
    [event |-> event, previous |-> previous, hash |-> Append(previous, event), signed |-> signed]

-----------------------------------------------------------------------------
(* The triggers audit_usage_after_delete and audit_usage_after_update.     *)
UsageAfterDelete(u, row) == [count |-> u.count - 1, bytes |-> u.bytes - RowBytes(row)]

UsageAfterUpdate(u, old, new) == [u EXCEPT !.bytes = (@ - RowBytes(old)) + RowBytes(new)]

(* _initialize: a store of an earlier release is counted once.             *)
OpenStore ==
    /\ usage = NoUsage
    /\ usage' = [count |-> Cardinality(DOMAIN chain), bytes |-> BytesIn(chain)]
    /\ UNCHANGED <<chain, serial, truth, answer, appends, damages>>

(* append_many: the rows a batch would add, numbered as AUTOINCREMENT does.*)
NewRows(w, events, previous) ==
    [n \in serial + 1..serial + Len(events) |->
        AuditRow(previous \o SubSeq(events, 1, n - serial - 1), events[n - serial], Signs[w])]

(* AuditEvent.canonical_dict: every field is bounded and well formed.      *)
Canonical(event) == event \notin InvalidEvents

(* The batch is read to its end before the database is touched.            *)
Prepared(events) == Len(events) <= BatchEvents /\ \A i \in DOMAIN events : Canonical(events[i])

UsageMatches == usage.count = LastSequence(chain)

WithinQuota(w, added) ==
    /\ usage.count + Cardinality(DOMAIN added) <= MaxEvents[w]
    /\ usage.bytes + BytesIn(added) <= MaxLogicalBytes[w]

NumberedAnyhow(added) == TRUE

(* The postcondition: the new rows follow the old tail without a gap.      *)
NumberedOn(added) == Min(DOMAIN added) = LastSequence(chain) + 1

(* The batch is in the chain as a whole or the transaction is rolled back; *)
(* a rolled back transaction gives its numbers back.                       *)
AppendMany(w, events) ==
    LET last == LastSequence(chain)
        previous == IF last = 0 THEN <<>> ELSE chain[last].hash
        added == NewRows(w, events, previous)
        accepted == /\ Prepared(events)
                    /\ usage # NoUsage /\ UsageMatches
                    /\ WithinQuota(w, added) /\ NumberedOn(added)
    IN /\ appends < MaxAppends
       /\ appends' = appends + 1
       /\ IF accepted
          THEN /\ chain' = [n \in DOMAIN chain \cup DOMAIN added |->
                              IF n \in DOMAIN added THEN added[n] ELSE chain[n]]
               /\ serial' = Max(DOMAIN added)
               /\ usage' = [count |-> usage.count + Len(events),
                            bytes |-> usage.bytes + BytesIn(added)]
               /\ truth' = truth \o events
          ELSE UNCHANGED <<chain, serial, usage, truth>>
       /\ UNCHANGED <<answer, damages>>

-----------------------------------------------------------------------------
(* _verified_rows: no gap, each row's hash and the one before it; under a  *)
(* trusted key every row is signed.                                        *)
RowVerified(n, needSigned) ==
    /\ n = 1 + Cardinality({m \in DOMAIN chain : m < n})
    /\ chain[n].previous = IF n = 1 THEN <<>> ELSE chain[n - 1].hash
    /\ chain[n].hash = Append(chain[n].previous, chain[n].event)
    /\ needSigned => chain[n].signed

(* verify, summary and the exports: everything or an error.  Rows without a*)
(* gap are told by their numbers.                                          *)
VerifyChain(needSigned) ==
    /\ answer' = IF \A n \in DOMAIN chain : RowVerified(n, needSigned)
                 THEN [ok |-> TRUE,
                       events |-> [i \in 1..Cardinality(DOMAIN chain) |-> chain[i].event]]
                 ELSE NoAnswer
    /\ UNCHANGED <<chain, serial, usage, truth, appends, damages>>

-----------------------------------------------------------------------------
Damage == damages < MaxDamages /\ damages' = damages + 1

(* A row is deleted or its event altered, by a statement that fires the    *)
(* triggers if they are there.                                             *)
RowLost(n) ==
    /\ Damage
    /\ chain' = [m \in DOMAIN chain \ {n} |-> chain[m]]
    /\ usage' = IF usage = NoUsage THEN usage ELSE UsageAfterDelete(usage, chain[n])
    /\ answer' = NoAnswer
    /\ UNCHANGED <<serial, truth, appends>>

RowAltered(n, event) ==
    /\ Damage /\ event # chain[n].event
    /\ chain' = [chain EXCEPT ![n].event = event]
    /\ usage' = IF usage = NoUsage THEN usage
                ELSE UsageAfterUpdate(usage, chain[n], chain'[n])
    /\ answer' = NoAnswer
    /\ UNCHANGED <<serial, truth, appends>>

(* A store that an earlier release wrote has a chain and no usage metadata.*)
AuditInit ==
    /\ \E old \in {<<>>} \cup {<<e>> : e \in AuditEvents \ InvalidEvents} :
         /\ chain = [n \in 1..Len(old) |-> AuditRow(<<>>, old[n], FALSE)]
         /\ serial = Len(old) /\ truth = old
    /\ usage = NoUsage
    /\ answer = NoAnswer /\ appends = 0 /\ damages = 0

AuditNext ==
    \/ OpenStore
    \/ \E w \in AuditWriters, events \in BoundedSeq(AuditEvents, MaxBatch) \ {<<>>} :
         AppendMany(w, events)
    \/ \E needSigned \in BOOLEAN : VerifyChain(needSigned)
    \/ \E n \in DOMAIN chain : RowLost(n) \/ \E e \in AuditEvents : RowAltered(n, e)

AuditSpec == AuditInit /\ [][AuditNext]_auditVars

-----------------------------------------------------------------------------
(* The triggers and the transactions keep the usage metadata equal to what *)
(* the table holds, through appends, lost rows and altered ones.           *)
UsageTrue ==
    usage # NoUsage =>
        usage = [count |-> Cardinality(DOMAIN chain), bytes |-> BytesIn(chain)]

(* A chain that verifies is the beginning of what was appended, event for  *)
(* event: verification hides the loss of newest rows only.                 *)
VerifiedIsAppended == answer.ok => IsPrefix(answer.events, truth)

(* A store that has lost a row takes no event any more: the numbers given  *)
(* out tell even when the lost rows were the newest ones.                  *)
NoAppendAfterLoss ==
    truth' # truth => Cardinality(DOMAIN chain) = Len(truth)

(* A batch is appended whole, at its place, with every event well formed,  *)
(* and within the quotas of the writer that appends it.                    *)
AppendedWithinQuota ==
    truth' # truth =>
      \E w \in AuditWriters :
          /\ Cardinality(DOMAIN chain') <= MaxEvents[w]
          /\ BytesIn(chain') <= MaxLogicalBytes[w]
          /\ \A n \in DOMAIN chain' \ DOMAIN chain :
                chain'[n].event = truth'[n] /\ Canonical(truth'[n]) /\ chain'[n].signed = Signs[w]

(* The trail as a whole, after every append, loss and upgrade: usage,      *)
(* verification, numbering and quotas (AuditStore).                        *)
TrailTrue ==
    [][UsageTrue' /\ VerifiedIsAppended' /\ NoAppendAfterLoss /\ AppendedWithinQuota]_auditVars

=============================================================================
