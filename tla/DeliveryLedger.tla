--------------------------- MODULE DeliveryLedger ---------------------------
(***************************************************************************)
(* The destination delivery ledger (src/polymorph/ledger.py) as operators  *)
(* on one row.  A row is the SQLite row of one transfer identity (tenant,  *)
(* destination connector, transfer id, record id).  Every operator is one  *)
(* BEGIN IMMEDIATE transaction of the class, so the modules that own a     *)
(* ledger variable apply it in one step.                                   *)
(*                                                                         *)
(* A record stands for its authenticated digest.  A claim token, a random  *)
(* URL-safe string in the code, is the number of claims the row has had:   *)
(* 0 is a row without fencing metadata, and a later claim never repeats an *)
(* earlier number.  live says that claim_expires_at is in the future; it   *)
(* is kept only in the two claimed states, the only ones that read it.     *)
(* batch says that current_write_batch_attempt_id is set.                  *)
(***************************************************************************)
EXTENDS Naturals

CONSTANTS Records,    \* sealed records, each one authenticated digest
          Keys,       \* transfer identities
          KeyOf,      \* the identity a record claims
          Contracts,  \* idempotency contract ids a connector may advertise
          NoContract, \* a NULL contract id
          NoRecord    \* the digest of a row that does not exist

ASSUME LedgerConstants ==
    /\ KeyOf \in [Records -> Keys]
    /\ NoContract \notin Contracts
    /\ NoRecord \notin Records

DeliveryState ==
    {"claimed", "write_started", "batch_write_started", "replay_claimed",
     "replay_write_started", "committed", "uncertain", "batch_uncertain",
     "replay_uncertain", "quarantined", "replay_quarantined"}

ClaimedStates == {"claimed", "replay_claimed"}
FirstWriteStates == {"write_started", "batch_write_started"}
WriteStartedStates == FirstWriteStates \cup {"replay_write_started"}

Row == [state    : DeliveryState \cup {"absent"},
        digest   : Records \cup {NoRecord},
        token    : Nat,
        live     : BOOLEAN,
        batch    : BOOLEAN,
        contract : Contracts \cup {NoContract}]

AbsentRow == [state |-> "absent", digest |-> NoRecord, token |-> 0,
              live |-> FALSE, batch |-> FALSE, contract |-> NoContract]

-----------------------------------------------------------------------------
(* claim_many, for one record of the group.                                *)

\* An identity reused with another digest aborts the whole transaction.
ReplayDetected(row, r) == row.state # "absent" /\ row.digest # r

ActiveClaim(row) == row.state \in ClaimedStates /\ row.token > 0 /\ row.live

\* A claim that never gives up on the worker that holds the row.
DispositionTrustsDeadClaims(row) ==
    CASE row.state = "absent"                        -> "new"
      [] row.state = "committed"                     -> "already_committed"
      [] row.state \in ClaimedStates /\ row.token > 0 -> "in_progress"
      [] OTHER                                       -> "ambiguous"

\* What a claim of an existing row for the same digest is told.
Disposition(row) ==
    CASE row.state = "absent"                        -> "new"
      [] row.state = "committed"                     -> "already_committed"
      [] ActiveClaim(row)                            -> "in_progress"
      [] row.state = "claimed" /\ row.token > 0 /\ ~row.live -> "recovered"
      [] OTHER                                       -> "ambiguous"

Granted(row) == Disposition(row) \in {"new", "recovered"}

\* A new row, or the fencing of an expired claim.  A recovered row keeps the
\* contract and attempt id an earlier rolled-back write left in it.
ClaimedRow(row, r) ==
    [row EXCEPT !.state = "claimed", !.digest = r, !.token = @ + 1, !.live = TRUE]

-----------------------------------------------------------------------------
(* _transition and _transition_many.                                       *)

\* A fence that trusts the state and forgets the token.
OwnsIgnoringToken(row, r, t, state) == row.digest = r /\ row.state = state

\* The WHERE clause of a fenced transition.
Owns(row, r, t, state) ==
    row.digest = r /\ row.token = t /\ row.state = state

\* require_unexpired, which only transitions out of a claimed state ask for.
OwnsClaim(row, r, t, state) == Owns(row, r, t, state) /\ row.live

Moved(row, state) == [row EXCEPT !.state = state, !.live = FALSE]

\* start_write and start_write_many record what the attempt was: its contract
\* and whether it was one atomic batch.
StartWriteRow(row, batch, contract) ==
    [Moved(row, IF batch THEN "batch_write_started" ELSE "write_started")
        EXCEPT !.batch = batch, !.contract = contract]

\* start_replay_write keeps the provenance of the first write.
StartReplayRow(row) == Moved(row, "replay_write_started")

\* The state a write leaves behind it, per kind of attempt.
ClaimState(replay) == IF replay THEN "replay_claimed" ELSE "claimed"

WriteState(batch, replay) ==
    CASE batch  -> "batch_write_started"
      [] replay -> "replay_write_started"
      [] OTHER  -> "write_started"

\* A lost answer to a first write recorded as a rollback.
UncertainStateAsRollback(batch, replay) ==
    IF replay THEN "replay_uncertain" ELSE "quarantined"

UncertainState(batch, replay) ==
    CASE batch  -> "batch_uncertain"
      [] replay -> "replay_uncertain"
      [] OTHER  -> "uncertain"

\* A replay that is rolled back and forgets that it was one.
QuarantinedStateForgetsReplay(replay) == "quarantined"

QuarantinedState(replay) == IF replay THEN "replay_quarantined" ELSE "quarantined"

-----------------------------------------------------------------------------
(* rearm_for_retry: only a known rollback goes back to an ordinary claim.  *)

Rearmable(row, r, expected) ==
    row.digest = r /\ row.state = expected /\ ~ActiveClaim(row)

RearmState(state) == IF state = "quarantined" THEN "claimed" ELSE "replay_claimed"

RearmRow(row) ==
    [row EXCEPT !.state = RearmState(@), !.token = @ + 1, !.live = TRUE]

-----------------------------------------------------------------------------
(* _initialize: the one-time replay_fencing_v1 migration of a ledger that  *)
(* an earlier release wrote.                                               *)

LegacyStates == {"claimed", "write_started", "uncertain", "committed", "quarantined"}

MigratedState(state, batch) ==
    CASE state = "claimed"                   -> "replay_claimed"
      [] state = "quarantined"               -> "replay_quarantined"
      [] state = "write_started" /\ batch    -> "batch_write_started"
      [] state = "uncertain" /\ batch        -> "batch_uncertain"
      [] OTHER                               -> state

\* The row of a record an earlier release left in a legacy state.  Its claim,
\* if it has a token at all, has an expiry the upgrade keeps.
MigratedRow(r, state, batch, token, live) ==
    [state |-> MigratedState(state, batch), digest |-> r, token |-> token,
     live |-> live, batch |-> batch, contract |-> NoContract]
=============================================================================
