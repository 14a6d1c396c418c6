------------------------------ MODULE Pipeline ------------------------------
(***************************************************************************)
(* The transfer path from the source to the target: the source agent and   *)
(* its outbox, a sender that offers pending records to the relay, and      *)
(* workers that lease, deliver and acknowledge (the steps of               *)
(* workflow_benchmark.py, each against its durable store).  The relay and  *)
(* the ledger are modelled in detail in RelayQueue and DestinationRuntime; *)
(* here they are what the steps see of them.  Every store operation is one *)
(* transaction; any process may die between two of them and start again    *)
(* with nothing but the stores.  A receipt that says delivered or duplicate*)
(* is acknowledged.                                                        *)
(***************************************************************************)
EXTENDS Naturals, Sequences, FiniteSets, SequencesExt

CONSTANTS
    Identities,   \* (tenant, connectors, transfer id, record id)
    Rows,         \* contents a source row can have when it is read
    Workers,
    WireBytes,    \* wire size of a record with each content
    MaxWireBytes, \* max_batch_wire_bytes of the outbox
    Limit,        \* limit of pending and of lease
    MaxSeals,     \* bound: records sealed
    MaxFaults     \* bound: deaths, early lease expiries, repeated stagings

PipelineAssumption ==
    /\ {MaxWireBytes, Limit, MaxSeals, MaxFaults} \subseteq Nat /\ Limit > 0
    /\ \A v \in Rows : WireBytes[v] \in 1..MaxWireBytes
    /\ IsFiniteSet(Identities) /\ "none" \notin Rows /\ "nobody" \notin Workers

ASSUME PipelineAssumptionHolds == PipelineAssumption

VARIABLES
    outbox,    \* sealed_source_outbox in the order of staged_at
    relay,     \* the queue in the order of received_at
    lease,     \* the worker that owns the lease of each sealed record
    ledger,    \* the sealed record the destination has committed, per identity
    target,    \* what the destination has been given, per identity
    source,    \* the batch in the memory of the source
    sending,   \* the batch in the memory of the sender
    worker,    \* what each worker is doing
    seals, faults

pipeVars == <<outbox, relay, lease, ledger, target, source, sending, worker, seals, faults>>

Nobody == "nobody"
NoRecord == [id |-> "none", seal |-> 0, row |-> "none"]
Resting == [phase |-> "rest", batch |-> <<>>, done |-> <<>>]

Ids(records) == {r.id : r \in Range(records)}
Fault == faults < MaxFaults /\ faults' = faults + 1

(* prepare_records: every call seals afresh, so that the same row read     *)
(* twice gives two different sealed records of one identity.               *)
Seal(ids, row) ==
    /\ source = <<>>
    /\ seals + Cardinality(ids) <= MaxSeals
    /\ LET order == SetToSeq(ids)
       IN source' = [i \in 1..Len(order) |->
                       [id |-> order[i], seal |-> seals + i, row |-> row]]
    /\ seals' = seals + Cardinality(ids)
    /\ UNCHANGED <<outbox, relay, lease, ledger, target, sending, worker, faults>>

(* The records of a sequence that are not in a set, in their order.        *)
Without(records, gone) ==
    LET upTo[n \in 0..Len(records)] ==
          IF n = 0 THEN <<>>
          ELSE IF records[n] \in gone THEN upTo[n - 1] ELSE Append(upTo[n - 1], records[n])
    IN upTo[Len(records)]

(* The records of a batch a store does not hold yet.                       *)
Missing(store, records) == Without(records, Range(store))

(* stage_many: an identity that is staged with other bytes fails the batch.*)
Stageable(records) ==
    \A r \in Range(records), q \in Range(outbox) : r.id = q.id => r = q

StageReplacing ==
    /\ source # <<>>
    /\ outbox' = SelectSeq(outbox, LAMBDA r : r.id \notin Ids(source)) \o source
    /\ source' = <<>>
    /\ UNCHANGED <<relay, lease, ledger, target, sending, worker, seals, faults>>

(* ... all of the batch is staged or none.  The source forgets the batch,  *)
(* or keeps it and stages the same bytes once more.                        *)
Stage ==
    /\ source # <<>>
    /\ outbox' = IF Stageable(source) THEN outbox \o Missing(outbox, source) ELSE outbox
    /\ \/ source' = <<>> /\ UNCHANGED faults
       \/ Stageable(source) /\ Fault /\ UNCHANGED source
    /\ UNCHANGED <<relay, lease, ledger, target, sending, worker, seals>>

BytesOf(records) ==
    LET upTo[n \in 0..Len(records)] ==
          IF n = 0 THEN 0 ELSE upTo[n - 1] + WireBytes[records[n].row]
    IN upTo[Len(records)]

PendingBelowTheLimit ==
    LET fits == {n \in 0..Len(outbox) :
                   n <= Limit /\ BytesOf(SubSeq(outbox, 1, n)) < MaxWireBytes}
    IN SubSeq(outbox, 1, CHOOSE n \in fits : \A m \in fits : m <= n)

(* pending: the oldest records, as many as the limit and the budget admit. *)
(* The constructor's bound on the budget makes the oldest one always fit.  *)
Pending ==
    LET fits == {n \in 0..Len(outbox) :
                   n <= Limit /\ BytesOf(SubSeq(outbox, 1, n)) <= MaxWireBytes}
    IN SubSeq(outbox, 1, CHOOSE n \in fits : \A m \in fits : m <= n)

ReadPending ==
    /\ sending = <<>> /\ Pending # <<>>
    /\ sending' = Pending
    /\ UNCHANGED <<outbox, relay, lease, ledger, target, source, worker, seals, faults>>

EnqueueAndForget ==
    /\ sending # <<>>
    /\ relay' = IF \A r \in Range(sending), q \in Range(relay) : r.id = q.id => r = q
                THEN relay \o Missing(relay, sending) ELSE relay
    /\ outbox' = SelectSeq(outbox, LAMBDA r : r \notin Range(sending))
    /\ sending' = <<>>
    /\ UNCHANGED <<lease, ledger, target, source, worker, seals, faults>>

(* enqueue_many: an identity queued with other bytes fails the batch.      *)
Enqueue ==
    /\ sending # <<>>
    /\ relay' = IF \A r \in Range(sending), q \in Range(relay) : r.id = q.id => r = q
                THEN relay \o Missing(relay, sending) ELSE relay
    /\ sending' = <<>>
    /\ UNCHANGED <<outbox, lease, ledger, target, source, worker, seals, faults>>

(* lease: the oldest records whose lease nobody holds.                     *)
Lease(w) ==
    LET free == Without(relay, {r \in Range(relay) : lease[r.seal] # Nobody})
        batch == SubSeq(free, 1, IF Len(free) < Limit THEN Len(free) ELSE Limit)
    IN /\ worker[w].phase = "rest" /\ batch # <<>>
       /\ lease' = [s \in 1..MaxSeals |-> IF \E r \in Range(batch) : r.seal = s
                                          THEN w ELSE lease[s]]
       /\ worker' = [worker EXCEPT ![w] = [phase |-> "deliver", batch |-> batch,
                                           done |-> <<>>]]
       /\ UNCHANGED <<outbox, relay, ledger, target, source, sending, seals, faults>>

Commits(r) == ledger[r.id] = NoRecord
Duplicate(r) == ledger[r.id] = r

(* deliver_many, one record at a time: it is written and committed, or is  *)
(* known to be committed; another record of a committed identity raises    *)
(* and the rest of the batch is not tried.                                 *)
Deliver(w) ==
    LET me == worker[w]
        r == Head(me.batch)
        next(batch, done) == [phase |-> IF batch # <<>> THEN "deliver" ELSE
                                        IF done # <<>> THEN "acknowledge" ELSE "rest",
                              batch |-> batch, done |-> done]
    IN /\ me.phase = "deliver"
       /\ \/ /\ Commits(r)
             /\ ledger' = [ledger EXCEPT ![r.id] = r]
             /\ target' = [target EXCEPT ![r.id] = Append(@, r.row)]
             /\ worker' = [worker EXCEPT ![w] = next(Tail(me.batch), Append(me.done, r))]
          \/ /\ Duplicate(r)
             /\ worker' = [worker EXCEPT ![w] = next(Tail(me.batch), Append(me.done, r))]
             /\ UNCHANGED <<ledger, target>>
          \/ /\ ~Commits(r) /\ ~Duplicate(r)
             /\ worker' = [worker EXCEPT ![w] = next(<<>>, me.done)]
             /\ UNCHANGED <<ledger, target>>
       /\ UNCHANGED <<outbox, relay, lease, source, sending, seals, faults>>

Owns(w, records) == \A r \in Range(records) : r \in Range(relay) /\ lease[r.seal] = w

(* ack_many of the relay: all leases must be current, or nothing happens   *)
(* and the worker gives up on its batch.                                   *)
AckRelay(w) ==
    /\ worker[w].phase = "acknowledge"
    /\ IF Owns(w, worker[w].done)
       THEN /\ relay' = Without(relay, Range(worker[w].done))
            /\ lease' = [s \in 1..MaxSeals |->
                           IF \E r \in Range(worker[w].done) : r.seal = s
                           THEN Nobody ELSE lease[s]]
            /\ worker' = [worker EXCEPT ![w].phase = "forget"]
       ELSE /\ worker' = [worker EXCEPT ![w] = Resting]
            /\ UNCHANGED <<relay, lease>>
    /\ UNCHANGED <<outbox, ledger, target, source, sending, seals, faults>>

(* ack_many of the outbox, after the relay's.                              *)
AckOutbox(w) ==
    /\ worker[w].phase = "forget"
    /\ outbox' = Without(outbox, Range(worker[w].done))
    /\ worker' = [worker EXCEPT ![w] = Resting]
    /\ UNCHANGED <<relay, lease, ledger, target, source, sending, seals, faults>>

WorkerDies(w) ==
    /\ worker[w] # Resting /\ Fault
    /\ worker' = [worker EXCEPT ![w] = Resting]
    /\ UNCHANGED <<outbox, relay, lease, ledger, target, source, sending, seals>>

SourceDies ==
    /\ source # <<>> /\ Fault
    /\ source' = <<>>
    /\ UNCHANGED <<outbox, relay, lease, ledger, target, sending, worker, seals>>

SenderDies ==
    /\ sending # <<>> /\ Fault
    /\ sending' = <<>>
    /\ UNCHANGED <<outbox, relay, lease, ledger, target, source, worker, seals>>

Leased(w) == {s \in 1..MaxSeals : lease[s] = w}

(* A worker's leases run out: after it has given up on them, or too early. *)
LeasesLapse(w) ==
    /\ Leased(w) # {} /\ worker[w].phase = "rest"
    /\ lease' = [s \in 1..MaxSeals |-> IF lease[s] = w THEN Nobody ELSE lease[s]]
    /\ UNCHANGED <<outbox, relay, ledger, target, source, sending, worker, seals, faults>>

LeasesLapseEarly(w) ==
    /\ Leased(w) # {} /\ worker[w].phase # "rest" /\ Fault
    /\ lease' = [s \in 1..MaxSeals |-> IF lease[s] = w THEN Nobody ELSE lease[s]]
    /\ UNCHANGED <<outbox, relay, ledger, target, source, sending, worker, seals>>

PipeInit ==
    /\ outbox = <<>> /\ relay = <<>>
    /\ lease = [s \in 1..MaxSeals |-> Nobody]
    /\ ledger = [id \in Identities |-> NoRecord]
    /\ target = [id \in Identities |-> <<>>]
    /\ source = <<>> /\ sending = <<>>
    /\ worker = [w \in Workers |-> Resting]
    /\ seals = 0 /\ faults = 0

SenderStep == ReadPending \/ Enqueue
WorkerStep(w) == Lease(w) \/ Deliver(w) \/ AckRelay(w) \/ AckOutbox(w)

PipeNext ==
    \/ \E ids \in SUBSET Identities \ {{}}, row \in Rows : Seal(ids, row)
    \/ Stage \/ SenderStep \/ SourceDies \/ SenderDies
    \/ \E w \in Workers : \/ WorkerStep(w) \/ WorkerDies(w)
                          \/ LeasesLapse(w) \/ LeasesLapseEarly(w)

PipeSpec == PipeInit /\ [][PipeNext]_pipeVars

(* A sender that is scheduled and workers that are scheduled; nobody has   *)
(* to seal anything.  Leases run out by the clock.                         *)
PipeFairness ==
    /\ WF_pipeVars(SenderStep)
    /\ \A w \in Workers : WF_pipeVars(WorkerStep(w)) /\ WF_pipeVars(LeasesLapse(w))

PipeFairSpec == PipeSpec /\ PipeFairness

-----------------------------------------------------------------------------
PipeTypeOK ==
    /\ \A store \in {outbox, relay} :
         \A i, j \in 1..Len(store) : store[i].id = store[j].id => i = j
    /\ seals \in 0..MaxSeals
    /\ \A s \in 1..MaxSeals : lease[s] \in Workers \cup {Nobody}
    /\ \A w \in Workers : worker[w].phase \in {"rest", "deliver", "acknowledge", "forget"}

(* The content the path has accepted under an identity: what the ledger    *)
(* has committed, else what is staged.                                     *)
Kept(id) ==
    IF ledger[id] # NoRecord THEN ledger[id].row
    ELSE IF id \in Ids(outbox)
         THEN (CHOOSE r \in Range(outbox) : r.id = id).row ELSE "none"

Promise == INSTANCE Handover
    WITH Names <- Identities, Contents <- Rows, Nothing <- "none",
         kept <- [id \in Identities |-> Kept(id)], written <- target

(* Staging, sending, leasing, delivering and acknowledging, by processes   *)
(* that die and repeat each other's work, hand over what was staged first, *)
(* lose none of it and write none of it twice: the transfer path           *)
(* implements Handover.                                                    *)
HandsOver == Promise!HandoverSpec

(* A record of an identity the destination has committed another record    *)
(* for: it is neither delivered nor acknowledged by anything.              *)
Stuck == \E r \in Range(outbox) \cup Range(relay) :
             ledger[r.id] # NoRecord /\ ledger[r.id] # r

(* A record in the relay is in the outbox too, or committed: losing the    *)
(* relay's database loses nothing that was not delivered.                  *)
RelayIsRecoverable ==
    \A r \in Range(relay) : r \in Range(outbox) \/ ledger[r.id] # NoRecord

(* Whatever is staged reaches the target and then leaves the outbox, unless*)
(* a re-sealed record of a committed identity stands in the way.           *)
StagedIsDelivered ==
    \A id \in Identities :
        /\ (id \in Ids(outbox)) ~> (target[id] # <<>> \/ Stuck)
        /\ (target[id] # <<>>) ~> (id \notin Ids(outbox) \/ Stuck)

(* The queues hold each identity once and the relay nothing that only it   *)
(* has.                                                                    *)
PathSafe == PipeTypeOK /\ RelayIsRecoverable

=============================================================================
