------------------------ MODULE MCDestinationRuntime ------------------------
(* Small instances of DestinationRuntime for TLC.                          *)
EXTENDS DestinationRuntime, TLC

CONSTANTS a, b, k1, k2, X, w1, w2

OneRecord == a :> k1
Conflict == a :> k1 @@ b :> k1
TwoRecords == a :> k1 @@ b :> k2

Plain      == [contract |-> NoContract, batch |-> FALSE, cross |-> FALSE]
Idempotent == [contract |-> X, batch |-> FALSE, cross |-> FALSE]
Batch      == [contract |-> X, batch |-> TRUE, cross |-> FALSE]
CrossBatch == [contract |-> X, batch |-> TRUE, cross |-> TRUE]

WithoutIdempotency == {Plain}
WithIdempotency == {Idempotent}
Switching == {Plain, Idempotent}
Batching == {Batch, CrossBatch}
OneBatch == {CrossBatch}

\* No action reads the receipts: runs whose properties do not either may
\* identify states that differ only in them.
WithoutReceipts == <<ledger, spool, job, caps, inflight, effects, forced, faults>>

\* Where Caps has one member, no capability can change.
SteadySpec == Init /\ [][DeliveryNext]_vars
FairSteadySpec == SteadySpec /\ Fairness

Symmetry == Permutations({w1, w2})
=============================================================================
