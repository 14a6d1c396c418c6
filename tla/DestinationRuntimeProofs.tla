---------------------- MODULE DestinationRuntimeProofs ----------------------
(***************************************************************************)
(* Proofs about DestinationRuntime for every set of records, identities,   *)
(* workers and capabilities and every bound.  PreWriteClean is not         *)
(* inductive: a rollback puts a row back before the write boundary, so the *)
(* proof has to know that the worker that marks it still owns the only     *)
(* request that was ever made for the record, and that tokens fence every  *)
(* other one.  The conjuncts below say that.                               *)
(*                                                                         *)
(* Two invariants stand on that one.  OInv relates rows, spool, receipts   *)
(* and effects, and gives the truth of outcomes and that nothing is lost.  *)
(* CInv follows the key of a record from its first writing into the row,   *)
(* the jobs and the requests, and gives at most once for a connector that  *)
(* keeps to one contract.                                                  *)
(***************************************************************************)
EXTENDS DestinationRuntime, TLAPS

USE DEF QuarantineMany, RemoveMany, Spooled

\* A row exists exactly when it carries a digest.
RowExists == \A k \in Keys : ledger[k].state = "absent" <=> ledger[k].digest = NoRecord

\* No claim, request or effect of a record without its digest in the row, and
\* no token from the future.
TokenBound ==
    \A r \in Records :
        /\ \A w \in Workers : /\ job[w].tok[r] <= RowOf(r).token
                              /\ job[w].tok[r] > 0 => RowOf(r).digest = r
        /\ \A q \in inflight : /\ q.tok[r] <= RowOf(r).token
                               /\ q.tok[r] > 0 => RowOf(r).digest = r
        /\ \A c \in Contracts \cup {NoContract} :
               effects[r][c] > 0 => RowOf(r).digest = r

\* A token has one holder and one request, and the request is the holder's.
UniqueHolder ==
    \A v, w \in Workers, r \in Records :
        job[v].tok[r] = job[w].tok[r] /\ job[v].tok[r] > 0 => v = w

\* No two open requests were made under one token of a record.
UniqueRequest ==
    \A p, q \in inflight, r \in Records :
        p.tok[r] = q.tok[r] /\ p.tok[r] > 0 => p = q

\* While the worker that made an open request lives, it is still at the call or
\* has given it up as unknown.
RequestHolder ==
    \A q \in inflight, w \in Workers, r \in Records :
        job[w].tok[r] = q.tok[r] /\ q.tok[r] > 0 =>
            job[w].pc \in {"writing", "unknown"} /\ q = RequestOf(job[w])

\* While the first write of a record is open, only the request under the row's
\* own token can be in flight, nothing is applied before it, and a connector
\* that reported a rollback under that token told the truth.
FirstWrite ==
    \A r \in Records : RowOf(r).state \in FirstWriteStates =>
        /\ \A q \in inflight : q.tok[r] > 0 =>
               /\ q.tok[r] = RowOf(r).token
               /\ \A c \in Contracts \cup {NoContract} : effects[r][c] = 0
        /\ \A w \in Workers :
               job[w].pc = "rolledback" /\ job[w].tok[r] = RowOf(r).token
                 /\ job[w].tok[r] > 0
               => Exposed(r) = {}

\* The inductive invariant of the safety theorems.
IInv == /\ TypeOK
        /\ RowExists
        /\ TokenBound
        /\ UniqueHolder
        /\ UniqueRequest
        /\ RequestHolder
        /\ FirstWrite
        /\ PreWriteClean

-----------------------------------------------------------------------------
(* Type correctness.                                                       *)

\* A worker that does nothing is a well-formed worker.
LEMMA IdleJobType == IdleJob \in Job
  BY DEF IdleJob, Job, JobFields, NoCaps, Capabilities, NoTokens, Tokens, Pcs

\* What is left of a call once a record of it is settled is well formed.
LEMMA ContinueType ==
  ASSUME NEW j \in Job
  PROVE  Continue(j) \in Job
  BY IdleJobType DEF Continue

\* A call of replay that has passed its gate is well formed.
LEMMA RearmJobType ==
  ASSUME NEW i \in Job, NEW c \in Capabilities, NEW r \in Records,
         NEW state \in DeliveryState \cup {"absent"},
         NEW contract \in Contracts \cup {NoContract}, NEW force \in BOOLEAN
  PROVE  [i EXCEPT !.pc = "rearm", !.caps = c, !.cur = r, !.exp = state,
                   !.hist = contract, !.force = force] \in Job
  BY DEF Job, JobFields, Pcs

\* Letting go of one record leaves a well-formed call.
LEMMA DropType ==
  ASSUME NEW j \in Job, NEW r \in Records
  PROVE  Drop(j, r) \in Job
  BY DEF Drop, Job, JobFields, Tokens, Pcs

\* The row operators return rows.
LEMMA ClaimedRowType ==
  ASSUME NEW row \in Row, NEW r \in Records
  PROVE  ClaimedRow(row, r) \in Row
  <1>1. row.token \in Nat /\ row.token + 1 \in Nat
    BY DEF Row
  <1> QED BY <1>1 DEF Row, ClaimedRow, DeliveryState

\* A fenced transition to a ledger state returns a row.
LEMMA MovedType ==
  ASSUME NEW row \in Row, NEW state \in DeliveryState
  PROVE  Moved(row, state) \in Row
  BY DEF Row, Moved

\* start_replay_write returns a row.
LEMMA StartReplayRowType ==
  ASSUME NEW row \in Row
  PROVE  StartReplayRow(row) \in Row
  BY MovedType DEF StartReplayRow, DeliveryState

\* start_write and start_write_many return a row.
LEMMA StartWriteRowType ==
  ASSUME NEW row \in Row, NEW batch \in BOOLEAN,
         NEW contract \in Contracts \cup {NoContract}
  PROVE  StartWriteRow(row, batch, contract) \in Row
  <1>1. (IF batch THEN "batch_write_started" ELSE "write_started") \in DeliveryState
    BY DEF DeliveryState
  <1>2. Moved(row, IF batch THEN "batch_write_started" ELSE "write_started") \in Row
    BY <1>1, MovedType
  <1> QED BY <1>2 DEF StartWriteRow, Row

\* rearm_for_retry returns a row.
LEMMA RearmRowType ==
  ASSUME NEW row \in Row
  PROVE  RearmRow(row) \in Row
  <1>1. row.token \in Nat /\ row.token + 1 \in Nat
    BY DEF Row
  <1>2. RearmState(row.state) \in DeliveryState
    BY DEF RearmState, DeliveryState
  <1> QED BY <1>1, <1>2 DEF RearmRow, Row

\* A transition of several records keeps the ledger well formed.
LEMMA TransitionType ==
  ASSUME ledger \in [Keys -> Row], NEW S \in SUBSET Records, NEW state \in DeliveryState
  PROVE  Transition(S, state) \in [Keys -> Row]
  <1> SUFFICES ASSUME NEW k \in Keys PROVE Moved(ledger[k], state) \in Row
    BY DEF Transition
  <1> QED BY DEF Moved, Row, DeliveryState

\* Returned receipts are receipts.
LEMMA ReturnedType ==
  ASSUME receipt \in [Records -> Receipt], NEW S,
         NEW status \in {"none", "delivered", "duplicate", "ambiguous", "quarantined"},
         NEW safe \in BOOLEAN
  PROVE  Returned(S, status, safe) \in [Records -> Receipt]
  BY DEF Returned, Receipt

\* The states an attempt moves a row to are ledger states.
LEMMA TargetStates ==
  ASSUME NEW batch \in BOOLEAN, NEW replay \in BOOLEAN
  PROVE  /\ UncertainState(batch, replay) \in DeliveryState
         /\ QuarantinedState(replay) \in DeliveryState
         /\ "committed" \in DeliveryState
  BY DEF UncertainState, QuarantinedState, DeliveryState

\* What a worker hands to the destination is a request.
LEMMA RequestType ==
  ASSUME NEW j \in Job
  PROVE  /\ RequestOf(j) \in Request
         /\ AttemptContract(j) \in Contracts \cup {NoContract}
         /\ Held(j) \in SUBSET Records
  BY DEF RequestOf, Request, WriteKey, AttemptContract, BatchContract, ScalarContract,
         Job, JobFields, Capabilities, Held

\* Every step keeps the type: one case per action.
LEMMA TypeStep == TypeOK /\ [Next]_vars => TypeOK'
  <1> SUFFICES ASSUME TypeOK, [Next]_vars PROVE TypeOK'
    OBVIOUS
  <1> USE LedgerConstants, RuntimeConstants
  <1>j. \A w \in Workers : job[w] \in Job
    BY DEF TypeOK
  <1>k. \A r \in Records : KeyOf[r] \in Keys /\ RowOf(r) \in Row
    BY DEF TypeOK, RowOf
  <1>r. receipt \in [Records -> Receipt]
    BY DEF TypeOK
  <1>w. ASSUME NEW w \in Workers, NEW j \in Job, job' = [job EXCEPT ![w] = j]
        PROVE  job' \in [Workers -> Job]
    BY <1>w DEF TypeOK
  <1>f. Fault \/ faults' = faults => faults' \in Nat
    BY DEF Fault, TypeOK
  <1>1. ASSUME NEW w \in Workers, NEW S \in SUBSET Records, Deliver(w, S)
        PROVE  TypeOK'
    <2>1. ledger' \in [Keys -> Row]
      <3>1. ledger' = Claimed(S)
        BY <1>1 DEF Deliver
      <3>2. ASSUME NEW k \in Keys
            PROVE  Claimed(S)[k] \in Row
        <4> DEFINE r == CHOOSE r \in S : KeyOf[r] = k
        <4>1. CASE k \in KeysOf(S) /\ Granted(RowOf(r))
          <5>1. r \in Records
            BY <4>1 DEF KeysOf
          <5>2. RowOf(r) \in Row
            BY <5>1, LedgerConstants DEF TypeOK, RowOf
          <5>3. Claimed(S)[k] = ClaimedRow(RowOf(r), r)
            BY <4>1 DEF Claimed
          <5> QED BY <5>1, <5>2, <5>3, ClaimedRowType
        <4>2. CASE ~(k \in KeysOf(S) /\ Granted(RowOf(r)))
          BY <4>2 DEF Claimed, TypeOK
        <4> QED BY <4>1, <4>2
      <3>3. Claimed(S) = [k \in Keys |-> Claimed(S)[k]]
        BY DEF Claimed
      <3> QED BY <3>1, <3>2, <3>3
    <2>2. job' \in [Workers -> Job]
      <3> DEFINE tk == [r \in Records |-> IF r \in S /\ Granted(RowOf(r))
                                          THEN RowOf(r).token + 1 ELSE 0]
                 batch == \E a, b \in S : a # b
                 am == {r \in S : Disposition(RowOf(r)) = "ambiguous"}
                 sf == IF batch THEN BatchContract(caps) # NoContract
                                ELSE ScalarContract(caps) # NoContract
                 j == [IdleJob EXCEPT !.pc = "claimed", !.batch = batch, !.caps = caps,
                          !.tok = tk, !.amb = am, !.safe = sf]
      <3>1. tk \in Tokens
        <4>1. \A r \in Records : RowOf(r).token \in Nat
          BY <1>k DEF Row
        <4> QED BY <4>1 DEF Tokens
      <3>2. am \in SUBSET Records /\ batch \in BOOLEAN /\ sf \in BOOLEAN
        OBVIOUS
      <3>3. caps \in Capabilities
        BY DEF TypeOK
      <3> HIDE DEF tk, batch, am, sf
      <3>4. j \in Job
        BY <3>1, <3>2, <3>3, IdleJobType DEF Job, JobFields, Pcs
      <3>5. job' = [job EXCEPT ![w] = Continue(j)]
        BY <1>1 DEF Deliver, tk, batch, am, sf
      <3> HIDE DEF j
      <3> QED BY <3>4, <3>5, ContinueType, <1>w
    <2>3. receipt' \in [Records -> Receipt]
      <3>1. \A r \in Records : ClaimReceipt(r) \in Receipt
        BY DEF ClaimReceipt, Receipt, TypeOK
      <3>2. receipt' = [r \in Records |-> IF r \in S THEN ClaimReceipt(r) ELSE receipt[r]]
        BY <1>1 DEF Deliver
      <3> HIDE DEF ClaimReceipt
      <3> QED BY <3>1, <3>2 DEF TypeOK
    <2> QED BY <2>1, <2>2, <2>3, <1>1 DEF Deliver, TypeOK
  <1>2. ASSUME NEW w \in Workers, NEW r \in Records, SpoolAmbiguous(w, r)
        PROVE  TypeOK'
    <2>1. [job[w] EXCEPT !.amb = @ \ {r}] \in Job
      BY <1>j DEF Job, JobFields
    <2>2. job' = [job EXCEPT ![w] = Continue([job[w] EXCEPT !.amb = @ \ {r}])]
      BY <1>2 DEF SpoolAmbiguous, TypeOK
    <2>3. job' \in [Workers -> Job]
      BY <2>1, <2>2, ContinueType, <1>w
    <2>4. receipt' \in [Records -> Receipt]
      BY <1>2, ReturnedType DEF SpoolAmbiguous, TypeOK
    <2> QED BY <2>3, <2>4, <1>2 DEF SpoolAmbiguous, TypeOK
  <1>3. ASSUME NEW w \in Workers, NEW r \in Records, NEW changed \in BOOLEAN,
               Reject(w, r, changed)
        PROVE  TypeOK'
    <2>1. [job[w] EXCEPT !.pc = "rejecting", !.cur = r, !.dropped = changed] \in Job
      BY <1>j, ZenonT(60) DEF Job, JobFields, Pcs
    <2>2. job' = [job EXCEPT ![w] = [job[w] EXCEPT !.pc = "rejecting", !.cur = r,
                                                   !.dropped = changed]]
      BY <1>3 DEF Reject, TypeOK
    <2>3. job' \in [Workers -> Job]
      BY <2>1, <2>2, <1>w
    <2> QED BY <2>3, <1>3 DEF Reject, TypeOK
  <1>4. ASSUME NEW w \in Workers, MarkRejected(w)
        PROVE  TypeOK'
    <2> DEFINE j == job[w]
               r == j.cur
    <2>0. j \in Job /\ j.replay \in BOOLEAN /\ RejectSafe(j) \in BOOLEAN
      BY <1>j DEF Job, JobFields, RejectSafe
    <2>1. r \in Records
      BY <2>0, <1>4 DEF Job, JobFields, MarkRejected
    <2>2. Drop(j, r) \in Job
      BY <2>0, <2>1, DropType
    <2>3. [j EXCEPT !.pc = "unspool"] \in Job
      BY <2>0, <2>1 DEF Job, JobFields, Pcs
    <2>4. \/ job' = [job EXCEPT ![w] = Continue(Drop(j, r))]
          \/ job' = [job EXCEPT ![w] = [j EXCEPT !.pc = "unspool"]]
      BY <1>4 DEF MarkRejected
    <2>5. job' \in [Workers -> Job]
      BY <2>2, <2>3, <2>4, <1>w, ContinueType
    <2>6. ledger' \in [Keys -> Row]
      <3>1. \/ ledger' = Transition({r}, QuarantinedState(j.replay))
            \/ ledger' = ledger
        BY <1>4 DEF MarkRejected
      <3>2. QuarantinedState(j.replay) \in DeliveryState
        BY DEF QuarantinedState, DeliveryState
      <3>3. ASSUME NEW k \in Keys PROVE Moved(ledger[k], QuarantinedState(j.replay)) \in Row
        BY <3>2, MovedType DEF TypeOK
      <3> QED BY <3>1, <3>3 DEF Transition, TypeOK
    <2>7. receipt' \in [Records -> Receipt]
      <3>1. \/ receipt' = Returned({r}, "quarantined", RejectSafe(j))
            \/ receipt' = Returned({r}, "ambiguous", FALSE)
            \/ receipt' = receipt
        BY <1>4 DEF MarkRejected
      <3>2. /\ Returned({r}, "quarantined", RejectSafe(j)) \in [Records -> Receipt]
            /\ Returned({r}, "ambiguous", FALSE) \in [Records -> Receipt]
        BY <2>0, <1>r, ReturnedType
      <3> QED BY <3>1, <3>2, <1>r
    <2>8. faults' \in Nat
      BY <1>4, <1>f DEF MarkRejected
    <2> QED BY <2>5, <2>6, <2>7, <2>8, <1>4 DEF MarkRejected, TypeOK
  <1>5. ASSUME NEW w \in Workers, Unspool(w)
        PROVE  TypeOK'
    <2>0. job[w] \in Job
      BY <1>j
    <2>1. Drop(job[w], job[w].cur) \in Job
      BY <1>5, <2>0, DropType DEF Unspool, Job, JobFields
    <2>2. job' \in [Workers -> Job]
      BY <1>5, <2>1, <1>w, ContinueType DEF Unspool
    <2>3. receipt' \in [Records -> Receipt]
      BY <1>5, <1>r, ReturnedType DEF Unspool
    <2>4. faults' \in Nat /\ spool' \in SUBSET Records
      BY <1>5, <1>f DEF Unspool, TypeOK
    <2> QED BY <2>2, <2>3, <2>4, <1>5 DEF Unspool, TypeOK
  <1>6. ASSUME NEW w \in Workers, StartWrite(w)
        PROVE  TypeOK'
    <2> DEFINE j == job[w]
    <2>0. j \in Job /\ j.batch \in BOOLEAN /\ j.replay \in BOOLEAN
      BY <1>j DEF Job, JobFields
    <2>1. RequestOf(j) \in Request /\ Held(j) \in SUBSET Records
          /\ AttemptContract(j) \in Contracts \cup {NoContract}
      BY <2>0, RequestType
    <2>2. [j EXCEPT !.pc = "writing"] \in Job
      BY <2>0 DEF Job, JobFields, Pcs
    <2>3. \/ /\ ledger' = WriteStarted(j)
             /\ inflight' = inflight \cup {RequestOf(j)}
             /\ job' = [job EXCEPT ![w] = [j EXCEPT !.pc = "writing"]]
             /\ receipt' = receipt
          \/ /\ job' = [job EXCEPT ![w] = IdleJob]
             /\ receipt' = Returned(Held(j), "ambiguous", FALSE)
             /\ ledger' = ledger
             /\ inflight' = inflight
      BY <1>6 DEF StartWrite
    <2>4. job' \in [Workers -> Job]
      BY <2>2, <2>3, <1>w, IdleJobType
    <2>5. inflight' \in SUBSET Request
      BY <2>1, <2>3 DEF TypeOK
    <2>6. receipt' \in [Records -> Receipt]
      <3>1. Returned(Held(j), "ambiguous", FALSE) \in [Records -> Receipt]
        BY <1>r, ReturnedType
      <3> QED BY <2>3, <3>1, <1>r
    <2>7. WriteStarted(j) \in [Keys -> Row]
      <3>1. ASSUME NEW k \in Keys
            PROVE  /\ StartReplayRow(ledger[k]) \in Row
                   /\ StartWriteRow(ledger[k], j.batch, AttemptContract(j)) \in Row
        BY <2>0, <2>1, StartReplayRowType, StartWriteRowType DEF TypeOK
      <3> QED BY <3>1 DEF WriteStarted, TypeOK
    <2>8. ledger' \in [Keys -> Row]
      BY <2>3, <2>7 DEF TypeOK
    <2> QED BY <2>4, <2>5, <2>6, <2>8, <1>6 DEF StartWrite, TypeOK
  <1>7. ASSUME NEW q \in inflight, Apply(q)
        PROVE  TypeOK'
    <2>1. q.contract \in Contracts \cup {NoContract} /\ inflight' \in SUBSET Request
      BY <1>7 DEF Apply, TypeOK, Request
    <2>2. ASSUME NEW r \in Records
          PROVE  [effects[r] EXCEPT ![q.contract] = @ + 1]
                   \in [Contracts \cup {NoContract} -> Nat]
      BY <2>1 DEF TypeOK
    <2>3. effects' \in [Records -> [Contracts \cup {NoContract} -> Nat]]
      BY <1>7, <2>2 DEF Apply, TypeOK
    <2> QED BY <1>7, <2>1, <2>3 DEF Apply, TypeOK
  <1>8. ASSUME NEW w \in Workers, Acked(w)
        PROVE  TypeOK'
    <2> DEFINE j == job[w]
    <2>0. j \in Job /\ Held(j) \in SUBSET Records /\ (~j.batch /\ j.safe) \in BOOLEAN
      BY <1>j, RequestType
    <2>1. [j EXCEPT !.pc = "cleanup"] \in Job
      BY <2>0 DEF Job, JobFields, Pcs
    <2>2. \/ job' = [job EXCEPT ![w] = [j EXCEPT !.pc = "cleanup"]]
          \/ job' = [job EXCEPT ![w] = IdleJob]
      BY <1>8 DEF Acked
    <2>3. job' \in [Workers -> Job]
      BY <2>1, <2>2, <1>w, IdleJobType
    <2>4. ledger' \in [Keys -> Row]
      <3>1. ledger' = Transition(Held(j), "committed") \/ ledger' = ledger
        BY <1>8 DEF Acked
      <3> QED BY <3>1, <2>0, TransitionType DEF TypeOK, DeliveryState
    <2>5. receipt' \in [Records -> Receipt]
      <3>1. Returned(Held(j), "ambiguous", ~j.batch /\ j.safe) \in [Records -> Receipt]
        BY <2>0, <1>r, ReturnedType
      <3>2. \/ receipt' = Returned(Held(j), "ambiguous", ~j.batch /\ j.safe)
            \/ receipt' = receipt
        BY <1>8 DEF Acked
      <3> QED BY <3>1, <3>2, <1>r
    <2>6. faults' \in Nat
      BY <1>8, <1>f DEF Acked
    <2>7. spool' \in SUBSET Records
      BY <1>8, <2>0 DEF Acked, TypeOK
    <2> QED BY <2>3, <2>4, <2>5, <2>6, <2>7, <1>8 DEF Acked, TypeOK
  <1>9. ASSUME NEW w \in Workers, RolledBack(w) \/ Unknown(w)
        PROVE  TypeOK'
    <2>0. job[w] \in Job /\ Held(job[w]) \in SUBSET Records
      BY <1>j, RequestType
    <2>1. /\ [job[w] EXCEPT !.pc = "rolledback"] \in Job
          /\ [job[w] EXCEPT !.pc = "unknown"] \in Job
      BY <2>0 DEF Job, JobFields, Pcs
    <2>2. job' \in [Workers -> Job]
      BY <1>9, <2>1, <1>w DEF RolledBack, Unknown
    <2>3. spool' \in SUBSET Records
      BY <1>9, <2>0 DEF RolledBack, Unknown, TypeOK
    <2> QED BY <1>9, <2>2, <2>3 DEF RolledBack, Unknown, TypeOK
  <1>10. ASSUME NEW w \in Workers, NEW pc, NEW state \in DeliveryState,
                NEW safe \in BOOLEAN, MarkFailed(w, pc, state, safe)
         PROVE  TypeOK'
    <2>0. job[w] \in Job /\ Held(job[w]) \in SUBSET Records
      BY <1>j, RequestType
    <2>1. \/ ledger' = Transition(Held(job[w]), state)
             /\ receipt' = Returned(Held(job[w]), "quarantined", safe)
          \/ ledger' = ledger /\ receipt' = receipt
      BY <1>10 DEF MarkFailed
    <2>2. ledger' \in [Keys -> Row]
      <3>1. Transition(Held(job[w]), state) \in [Keys -> Row]
        BY <2>0, TransitionType DEF TypeOK
      <3> QED BY <2>1, <3>1 DEF TypeOK
    <2>3. receipt' \in [Records -> Receipt]
      BY <2>1, <1>r, ReturnedType
    <2>4. job' \in [Workers -> Job]
      BY <1>10, <1>w, IdleJobType DEF MarkFailed
    <2> QED BY <1>10, <2>2, <2>3, <2>4 DEF MarkFailed, TypeOK
  <1>11. ASSUME NEW w \in Workers, MarkRolledBack(w) \/ MarkUnknown(w)
         PROVE  TypeOK'
    <2>1. /\ job[w].replay \in BOOLEAN /\ job[w].batch \in BOOLEAN
          /\ job[w].safe \in BOOLEAN /\ (job[w].replay => job[w].safe) \in BOOLEAN
      BY <1>j DEF Job, JobFields
    <2>2. /\ QuarantinedState(job[w].replay) \in DeliveryState
          /\ UncertainState(job[w].batch, job[w].replay) \in DeliveryState
      BY <2>1, TargetStates
    <2>3. CASE MarkRolledBack(w)
      BY <2>1, <2>2, <2>3, <1>10 DEF MarkRolledBack
    <2>4. CASE MarkUnknown(w)
      BY <2>1, <2>2, <2>4, <1>10 DEF MarkUnknown
    <2> QED BY <1>11, <2>3, <2>4
  <1>12. ASSUME NEW w \in Workers, Cleanup(w)
         PROVE  TypeOK'
    <2>1. job' \in [Workers -> Job]
      BY <1>12, <1>w, IdleJobType DEF Cleanup
    <2>2. receipt' \in [Records -> Receipt]
      BY <1>12, <1>r, ReturnedType DEF Cleanup
    <2>3. faults' \in Nat /\ spool' \in SUBSET Records
      BY <1>12, <1>f DEF Cleanup, TypeOK
    <2> QED BY <1>12, <2>1, <2>2, <2>3 DEF Cleanup, TypeOK
  <1>13. ASSUME NEW w \in Workers, NEW r \in Records, NEW c \in Caps, Replay(w, r, c)
         PROVE  TypeOK'
    <2> DEFINE j == [IdleJob EXCEPT
                 !.pc = "rearm", !.caps = c, !.cur = r, !.exp = RowOf(r).state,
                 !.hist = RowOf(r).contract,
                 !.force = ~ReplayAllowed(RowOf(r), c)]
    <2>1. RowOf(r).state \in DeliveryState \cup {"absent"}
          /\ RowOf(r).contract \in Contracts \cup {NoContract}
      BY <1>k DEF Row
    <2>2. (~ReplayAllowed(RowOf(r), c)) \in BOOLEAN /\ c \in Capabilities
      OBVIOUS
    <2>3. j \in Job
      BY <2>1, <2>2, IdleJobType, RearmJobType
    <2>4. job' = [job EXCEPT ![w] = j]
      BY <1>13 DEF Replay
    <2> HIDE DEF j
    <2>5. job' \in [Workers -> Job]
      BY <2>3, <2>4, <1>w
    <2> QED BY <1>13, <2>5 DEF Replay, TypeOK
  <1>14. ASSUME NEW w \in Workers, NEW r \in Records, ReplayCommitted(w, r)
         PROVE  TypeOK'
    <2>1. receipt' \in [Records -> Receipt]
      BY <1>14, <1>r, ReturnedType DEF ReplayCommitted
    <2>2. faults' \in Nat /\ spool' \in SUBSET Records
      BY <1>14, <1>f DEF ReplayCommitted, TypeOK
    <2> QED BY <1>14, <2>1, <2>2 DEF ReplayCommitted, TypeOK
  <1>15. ASSUME NEW w \in Workers, Rearm(w)
         PROVE  TypeOK'
    <2> DEFINE i == job[w]
               row == RowOf(i.cur)
               good == Rearmable(row, i.cur, i.exp) /\ row.token < MaxToken
               tk == [NoTokens EXCEPT ![i.cur] = row.token + 1]
               rp == RearmState(i.exp) = "replay_claimed"
               sf == RearmedSafe(i, row)
               j == [IdleJob EXCEPT !.pc = "claimed", !.caps = i.caps, !.replay = rp,
                                    !.force = i.force, !.tok = tk, !.safe = sf]
    <2>0. i \in Job /\ i.cur \in Records
      BY <1>j, <1>15 DEF Job, JobFields, Rearm
    <2>1. CASE ~good
      <3>1. job' = [job EXCEPT ![w] = IdleJob] /\ UNCHANGED <<ledger, forced>>
        BY <1>15, <2>1 DEF Rearm
      <3>2. job' \in [Workers -> Job]
        BY <3>1, <1>w, IdleJobType
      <3> QED BY <1>15, <3>1, <3>2 DEF Rearm, TypeOK
    <2>2. CASE good
      <3>1. row \in Row /\ row.token \in Nat /\ row.token + 1 \in Nat
        BY <2>0, <1>k DEF Row
      <3>2. tk \in Tokens
        BY <2>0, <3>1 DEF Tokens, NoTokens
      <3>3. sf \in BOOLEAN /\ rp \in BOOLEAN /\ i.force \in BOOLEAN
            /\ i.caps \in Capabilities
        BY <2>0 DEF RearmedSafe, Job, JobFields
      <3>4. ledger' = [ledger EXCEPT ![KeyOf[i.cur]] = RearmRow(@)]
        BY <1>15, <2>2 DEF Rearm
      <3>5. ledger' \in [Keys -> Row]
        BY <3>4, RearmRowType DEF TypeOK
      <3>6. job' = [job EXCEPT ![w] = j]
        BY <1>15, <2>2 DEF Rearm
      <3>9. forced' \in SUBSET Keys
        BY <1>15, <2>0, <2>2, <1>k DEF Rearm, TypeOK
      <3> HIDE DEF tk, rp, sf, i
      <3>7. j \in Job
        BY <3>2, <3>3, IdleJobType DEF Job, JobFields, Pcs
      <3> HIDE DEF j
      <3>8. job' \in [Workers -> Job]
        BY <3>6, <3>7, <1>w
      <3> QED BY <1>15, <3>5, <3>8, <3>9 DEF Rearm, TypeOK
    <2> QED BY <2>1, <2>2
  <1>16. ASSUME NEW w \in Workers, Crash(w)
         PROVE  TypeOK'
    <2>1. job' \in [Workers -> Job] /\ faults' \in Nat
      BY <1>16, <1>w, <1>f, IdleJobType DEF Crash
    <2> QED BY <1>16, <2>1 DEF Crash, TypeOK
  <1>17. ASSUME NEW k \in Keys, Expire(k)
         PROVE  TypeOK'
    <2>1. faults' \in Nat
      BY <1>17, <1>f DEF Expire
    <2>2. [ledger[k] EXCEPT !.live = FALSE] \in Row
      <3>1. ledger[k] \in Row
        BY DEF TypeOK
      <3> QED BY <3>1 DEF Row
    <2>3. ledger' = [ledger EXCEPT ![k] = [ledger[k] EXCEPT !.live = FALSE]]
      BY <1>17 DEF Expire, TypeOK
    <2>4. ledger' \in [Keys -> Row]
      BY <2>2, <2>3 DEF TypeOK
    <2> QED BY <1>17, <2>1, <2>4 DEF Expire, TypeOK
  <1>18. ASSUME NEW c \in Caps, Reconfigure(c)
         PROVE  TypeOK'
    BY <1>18 DEF Reconfigure, TypeOK
  <1>19. CASE UNCHANGED vars
    BY <1>19 DEF vars, TypeOK
  <1>20. CASE Next
    <2>1. ASSUME NEW w \in Workers, Proceed(w) PROVE TypeOK'
      BY <2>1, <1>2, <1>3, <1>4, <1>5, <1>6, <1>8, <1>9, <1>11, <1>12, <1>15 DEF Proceed
    <2> QED BY <1>20, <2>1, <1>1, <1>7, <1>13, <1>14, <1>16, <1>17, <1>18 DEF Next, DeliveryNext
  <1> QED BY <1>19, <1>20

\* The initial states, fresh or migrated, have the type.
LEMMA TypeInit == Init => TypeOK
  <1> SUFFICES ASSUME Init PROVE TypeOK
    OBVIOUS
  <1> USE LedgerConstants, RuntimeConstants
  <1>1. job \in [Workers -> Job]
    BY IdleJobType DEF Init
  <1>2. receipt \in [Records -> Receipt]
    BY DEF Init, Receipt, NoReceipt
  <1>3. AbsentRow \in Row
    BY DEF AbsentRow, Row
  <1>4. ASSUME NEW r \in Records, NEW state \in LegacyStates, NEW batch \in BOOLEAN,
               NEW token \in 0..1, NEW live \in BOOLEAN
        PROVE  MigratedRow(r, state, batch, token, live) \in Row
    <2>1. MigratedState(state, batch) \in DeliveryState
      BY DEF MigratedState, LegacyStates, DeliveryState
    <2>2. token \in Nat
      OBVIOUS
    <2> QED BY <2>1, <2>2 DEF MigratedRow, Row
  <1>5. MigratedRows \subseteq Row
    BY <1>3, <1>4 DEF MigratedRows
  <1>6. ASSUME NEW r \in Records
        PROVE  /\ NoEffects[r] \in [Contracts \cup {NoContract} -> Nat]
               /\ [NoEffects[r] EXCEPT ![NoContract] = 1]
                    \in [Contracts \cup {NoContract} -> Nat]
    BY DEF NoEffects
  <1>7. CASE Upgraded
    <2>1. ledger \in [Keys -> Row] /\ spool \in SUBSET Records
      BY <1>5, <1>7 DEF Init, LegacyInit
    <2>2. effects \in [Records -> [Contracts \cup {NoContract} -> Nat]]
      <3> DEFINE E == {NoEffects[r] : r \in Records}
                        \cup {[NoEffects[r] EXCEPT ![NoContract] = 1] : r \in Records}
      <3>1. effects \in [Records -> E]
        BY <1>7 DEF Init, LegacyInit
      <3>2. \A e \in E : e \in [Contracts \cup {NoContract} -> Nat]
        BY <1>6, ZenonT(60)
      <3> HIDE DEF E
      <3> QED BY <3>1, <3>2
    <2> QED BY <1>1, <1>2, <2>1, <2>2 DEF Init, TypeOK
  <1>8. CASE ~Upgraded
    <2>1. ledger \in [Keys -> Row] /\ spool \in SUBSET Records
      BY <1>3, <1>8 DEF Init, FreshInit
    <2>2. effects \in [Records -> [Contracts \cup {NoContract} -> Nat]]
      BY <1>8 DEF Init, FreshInit, NoEffects
    <2> QED BY <1>1, <1>2, <2>1, <2>2 DEF Init, TypeOK
  <1> QED BY <1>7, <1>8

\* Every reachable state of the runtime has its type.
THEOREM TypeCorrect == Spec => []TypeOK
  BY TypeInit, TypeStep, PTL DEF Spec

-----------------------------------------------------------------------------
(* The inductive invariant.                                                *)

\* The row changes of every step that neither claims, nor starts a write: it
\* keeps digest and token, and puts a row back before the write boundary only
\* if the destination cannot have the record.
KeepsRows ==
    \A k \in Keys :
        /\ ledger'[k].digest = ledger[k].digest
        /\ ledger'[k].token = ledger[k].token
        /\ ledger'[k].state = "absent" <=> ledger[k].state = "absent"
        /\ ledger'[k].state \in FirstWriteStates => ledger'[k].state = ledger[k].state
        /\ ledger'[k].state \in PreWriteStates =>
             \/ ledger[k].state \in PreWriteStates
             \/ \A r \in Records : KeyOf[r] = k => Exposed(r) = {}

\* The worker changes of such a step: it only gives up claims, keeps track of
\* an open request, and never invents a rollback.
KeepsJobs ==
    \A w \in Workers, r \in Records :
        /\ job'[w].tok[r] = job[w].tok[r] \/ job'[w].tok[r] = 0
        /\ job'[w].tok[r] > 0 /\ job'[w].pc = "rolledback" => job[w].pc = "rolledback"
        /\ job'[w].tok[r] > 0 /\ job[w].pc \in {"writing", "unknown"}
             /\ RequestOf(job[w]) \in inflight
           => job'[w].pc \in {"writing", "unknown"} /\ RequestOf(job'[w]) = RequestOf(job[w])

\* A step that keeps rows and jobs in this sense, opens no request and applies
\* none preserves the invariant.
LEMMA Quiet ==
  ASSUME IInv, TypeOK', KeepsRows, KeepsJobs, UNCHANGED <<inflight, effects>>
  PROVE  IInv'
  <1> USE LedgerConstants
  <1>k. \A r \in Records : KeyOf[r] \in Keys
    OBVIOUS
  <1>t. \A w \in Workers, r \in Records : job[w].tok[r] \in Nat /\ job'[w].tok[r] \in Nat
    BY DEF IInv, TypeOK, Job, JobFields, Tokens
  <1>e. \A r \in Records : Exposed(r)' = Exposed(r)
    BY DEF Exposed
  <1>1. RowExists'
    BY DEF IInv, RowExists, KeepsRows
  <1>2. TokenBound'
    <2>1. \A r \in Records : /\ RowOf(r).token \in Nat
                             /\ RowOf(r)'.token = RowOf(r).token
                             /\ RowOf(r)'.digest = RowOf(r).digest
      BY <1>k DEF IInv, TypeOK, Row, RowOf, KeepsRows
    <2> QED BY <2>1, <1>t DEF IInv, TokenBound, KeepsJobs
  <1>3. UniqueHolder'
    BY <1>t DEF IInv, UniqueHolder, KeepsJobs
  <1>4. UniqueRequest'
    BY DEF IInv, UniqueRequest
  <1>5. RequestHolder'
    BY <1>t DEF IInv, RequestHolder, KeepsJobs
  <1>6. FirstWrite'
    <2> SUFFICES ASSUME NEW r \in Records, RowOf(r)'.state \in FirstWriteStates
                 PROVE  /\ \A q \in inflight : q.tok[r] > 0 =>
                             /\ q.tok[r] = RowOf(r)'.token
                             /\ \A c \in Contracts \cup {NoContract} : effects[r][c] = 0
                        /\ \A w \in Workers :
                             job'[w].pc = "rolledback" /\ job'[w].tok[r] = RowOf(r)'.token
                               /\ job'[w].tok[r] > 0
                             => Exposed(r) = {}
      BY <1>e DEF FirstWrite
    <2>1. RowOf(r).state \in FirstWriteStates /\ RowOf(r)'.token = RowOf(r).token
      BY <1>k DEF KeepsRows, RowOf
    <2> QED BY <2>1, <1>t DEF IInv, FirstWrite, KeepsJobs
  <1>7. PreWriteClean'
    <2> SUFFICES ASSUME NEW r \in Records, RowOf(r)'.state \in PreWriteStates
                 PROVE  Exposed(r) = {}
      BY <1>e DEF PreWriteClean
    <2>1. RowOf(r).state \in PreWriteStates \/ Exposed(r) = {}
      BY <1>k DEF KeepsRows, RowOf
    <2> QED BY <2>1 DEF IInv, PreWriteClean
  <1> QED BY <1>1, <1>2, <1>3, <1>4, <1>5, <1>6, <1>7 DEF IInv

\* The worker side of a step of one worker: job j follows i quietly.
Follows(i, j) ==
    \A r \in Records :
        /\ j.tok[r] = i.tok[r] \/ j.tok[r] = 0
        /\ j.tok[r] > 0 /\ j.pc = "rolledback" => i.pc = "rolledback"
        /\ j.tok[r] > 0 /\ i.pc \in {"writing", "unknown"} /\ RequestOf(i) \in inflight
           => j.pc \in {"writing", "unknown"} /\ RequestOf(j) = RequestOf(i)

\* A step of one worker that follows its job keeps the jobs.
LEMMA OneJob ==
  ASSUME TypeOK, NEW w \in Workers, NEW j, job' = [job EXCEPT ![w] = j], Follows(job[w], j)
  PROVE  KeepsJobs
  <1> SUFFICES ASSUME NEW v \in Workers PROVE Follows(job[v], job'[v])
    BY DEF KeepsJobs, Follows
  <1>1. CASE v = w
    BY <1>1 DEF TypeOK
  <1>2. CASE v # w
    <2>1. job'[v] = job[v]
      BY <1>2 DEF TypeOK
    <2> QED BY <2>1 DEF Follows
  <1> QED BY <1>1, <1>2

\* Giving up every claim is quiet, and so is settling one record before the
\* write boundary.
LEMMA IdleFollows ==
  ASSUME NEW i PROVE Follows(i, IdleJob)
  BY DEF Follows, IdleJob, NoTokens

\* Returning from a call, or going on with fewer records, is quiet.
LEMMA ContinueFollows ==
  ASSUME NEW i, NEW j, Follows(i, j)
  PROVE  Follows(i, Continue(j))
  BY IdleFollows DEF Continue

\* A step that leaves ledger, requests and effects alone keeps the rows.
LEMMA SameRows ==
  ASSUME UNCHANGED ledger PROVE KeepsRows
  BY DEF KeepsRows

\* A fenced transition to a state beyond the write boundary, or to one before
\* it of rows whose records the destination cannot have.
LEMMA MovedRows ==
  ASSUME TypeOK, NEW S \in SUBSET Records, NEW state \in DeliveryState \ FirstWriteStates,
         ledger' = Transition(S, state),
         \A r \in S : RowOf(r).digest = r /\ RowOf(r).state # "absent",
         state \in PreWriteStates =>
           \A r \in S, s \in Records : KeyOf[s] = KeyOf[r] => Exposed(s) = {}
  PROVE  KeepsRows
  <1> SUFFICES ASSUME NEW k \in Keys
               PROVE  /\ ledger'[k].digest = ledger[k].digest
                      /\ ledger'[k].token = ledger[k].token
                      /\ ledger'[k].state = "absent" <=> ledger[k].state = "absent"
                      /\ ledger'[k].state \in FirstWriteStates =>
                           ledger'[k].state = ledger[k].state
                      /\ ledger'[k].state \in PreWriteStates =>
                           \/ ledger[k].state \in PreWriteStates
                           \/ \A r \in Records : KeyOf[r] = k => Exposed(r) = {}
    BY DEF KeepsRows
  <1>1. CASE k \in KeysOf(S)
    <2>1. ledger'[k] = Moved(ledger[k], state)
      BY <1>1 DEF Transition
    <2>2. ledger[k] \in Row
      BY DEF TypeOK
    <2>3. /\ ledger'[k].digest = ledger[k].digest
          /\ ledger'[k].token = ledger[k].token
          /\ ledger'[k].state = state
      BY <2>1, <2>2 DEF Moved, Row
    <2>4. PICK r \in S : KeyOf[r] = k
      BY <1>1 DEF KeysOf
    <2>5. ledger[k].state # "absent" /\ state # "absent"
      BY <2>4 DEF RowOf, DeliveryState
    <2>6. state \in PreWriteStates => \A s \in Records : KeyOf[s] = k => Exposed(s) = {}
      BY <2>4
    <2> HIDE DEF Exposed
    <2> QED BY <2>3, <2>5, <2>6
  <1>2. CASE k \notin KeysOf(S)
    BY <1>2 DEF Transition
  <1> QED BY <1>1, <1>2

\* The destination only ever hears of the record whose digest the row carries.
LEMMA Unbound ==
  ASSUME IInv, NEW r \in Records, RowOf(r).digest # r
  PROVE  Exposed(r) = {}
  BY DEF IInv, TokenBound, Exposed

\* The quiet steps, one case per action.
LEMMA QuietStep ==
  ASSUME IInv, TypeOK',
         \/ \E w \in Workers, r \in Records : SpoolAmbiguous(w, r)
         \/ \E w \in Workers, r \in Records, changed \in BOOLEAN : Reject(w, r, changed)
         \/ \E w \in Workers : MarkRejected(w) \/ Unspool(w) \/ Acked(w) \/ Unknown(w)
         \/ \E w \in Workers : MarkRolledBack(w) \/ MarkUnknown(w) \/ Cleanup(w) \/ Crash(w)
         \/ \E w \in Workers, r \in Records, c \in Caps : Replay(w, r, c)
         \/ \E w \in Workers, r \in Records : ReplayCommitted(w, r)
         \/ \E k \in Keys : Expire(k)
         \/ \E c \in Caps : Reconfigure(c)
         \/ UNCHANGED vars
  PROVE  IInv'
  <1> USE LedgerConstants
  <1>t. TypeOK /\ \A w \in Workers : job[w] \in Job /\ job[w] \in JobFields
    BY DEF IInv, TypeOK, Job
  <1>q. ASSUME KeepsRows, KeepsJobs, UNCHANGED <<inflight, effects>> PROVE IInv'
    BY <1>q, Quiet
  <1>i. ASSUME NEW w \in Workers, job' = [job EXCEPT ![w] = IdleJob] PROVE KeepsJobs
    BY <1>i, <1>t, OneJob, IdleFollows
  <1>s. ASSUME UNCHANGED job PROVE KeepsJobs
    BY <1>s DEF KeepsJobs
  <1>1. ASSUME NEW w \in Workers, NEW r \in Records, SpoolAmbiguous(w, r) PROVE IInv'
    <2> DEFINE j == [job[w] EXCEPT !.amb = @ \ {r}]
    <2>1. j.tok = job[w].tok /\ j.pc = job[w].pc /\ RequestOf(j) = RequestOf(job[w])
      BY <1>t DEF JobFields, RequestOf, WriteKey
    <2>2. Follows(job[w], j)
      BY <2>1 DEF Follows
    <2>3. job' = [job EXCEPT ![w] = Continue(j)]
      BY <1>1 DEF SpoolAmbiguous
    <2> HIDE DEF j
    <2>4. KeepsJobs
      BY <2>2, <2>3, <1>t, ContinueFollows, OneJob
    <2> QED BY <1>1, <2>4, <1>q, SameRows DEF SpoolAmbiguous
  <1>2. ASSUME NEW w \in Workers, NEW r \in Records, NEW changed \in BOOLEAN,
               Reject(w, r, changed)
        PROVE  IInv'
    <2> DEFINE j == [job[w] EXCEPT !.pc = "rejecting", !.cur = r, !.dropped = changed]
    <2>1. j.tok = job[w].tok /\ j.pc = "rejecting" /\ job[w].pc = "claimed"
      BY <1>2, <1>t DEF JobFields, Reject
    <2>2. Follows(job[w], j)
      BY <2>1 DEF Follows
    <2>3. job' = [job EXCEPT ![w] = j]
      BY <1>2 DEF Reject
    <2> HIDE DEF j
    <2>4. KeepsJobs
      BY <2>2, <2>3, <1>t, OneJob
    <2> QED BY <1>2, <2>4, <1>q, SameRows DEF Reject
  <1>d. ASSUME NEW w \in Workers, job[w].pc \in {"rejecting", "unspool"}
        PROVE  Follows(job[w], Drop(job[w], job[w].cur))
    <2>1. /\ \A r \in Records : \/ Drop(job[w], job[w].cur).tok[r] = job[w].tok[r]
                                \/ Drop(job[w], job[w].cur).tok[r] = 0
          /\ Drop(job[w], job[w].cur).pc = "claimed"
      BY <1>t DEF Drop, JobFields, Tokens
    <2> HIDE DEF Drop
    <2> QED BY <2>1, <1>d DEF Follows
  <1>3. ASSUME NEW w \in Workers, MarkRejected(w) PROVE IInv'
    <2> DEFINE j == job[w]
               r == j.cur
               u == [j EXCEPT !.pc = "unspool"]
    <2>0. r \in Records /\ j.pc = "rejecting"
      BY <1>3, <1>t DEF Job, MarkRejected
    <2>1. KeepsJobs
      <3>1. Follows(j, Continue(Drop(j, r)))
        BY <2>0, <1>d, ContinueFollows
      <3>2. Follows(j, u)
        <4>1. u.tok = j.tok /\ u.pc = "unspool"
          BY <1>t DEF JobFields
        <4> QED BY <4>1, <2>0 DEF Follows
      <3>3. \/ job' = [job EXCEPT ![w] = Continue(Drop(j, r))]
            \/ job' = [job EXCEPT ![w] = u]
        BY <1>3 DEF MarkRejected
      <3> HIDE DEF u
      <3> QED BY <3>1, <3>2, <3>3, <1>t, OneJob
    <2>2. KeepsRows
      <3>1. CASE UNCHANGED ledger
        BY <3>1, SameRows
      <3>2. CASE /\ OwnsClaim(RowOf(r), r, j.tok[r], ClaimState(j.replay))
                 /\ ledger' = Transition({r}, QuarantinedState(j.replay))
        <4>1. /\ RowOf(r).digest = r
              /\ RowOf(r).state = ClaimState(j.replay)
              /\ RowOf(r).state # "absent"
          BY <3>2 DEF OwnsClaim, Owns, ClaimState
        <4>2. QuarantinedState(j.replay) \in DeliveryState \ FirstWriteStates
          BY DEF QuarantinedState, DeliveryState, FirstWriteStates
        <4>3. ASSUME QuarantinedState(j.replay) \in PreWriteStates, NEW s \in Records,
                     KeyOf[s] = KeyOf[r]
              PROVE  Exposed(s) = {}
          <5>1. RowOf(s).state \in PreWriteStates
            BY <4>1, <4>3 DEF QuarantinedState, ClaimState, PreWriteStates, RowOf
          <5> QED BY <5>1 DEF IInv, PreWriteClean
        <4> QED BY <2>0, <3>2, <4>1, <4>2, <4>3, <1>t, MovedRows
      <3> QED BY <1>3, <3>1, <3>2 DEF MarkRejected
    <2> QED BY <1>3, <2>1, <2>2, <1>q DEF MarkRejected
  <1>4. ASSUME NEW w \in Workers, Unspool(w) PROVE IInv'
    <2>1. Follows(job[w], Continue(Drop(job[w], job[w].cur)))
      BY <1>4, <1>d, ContinueFollows DEF Unspool
    <2>2. KeepsJobs
      BY <1>4, <2>1, <1>t, OneJob DEF Unspool
    <2> QED BY <1>4, <2>2, <1>q, SameRows DEF Unspool
  <1>o. ASSUME NEW j \in Job, NEW state, OwnsAll(j, state), state # "absent"
        PROVE  \A r \in Held(j) : RowOf(r).digest = r /\ RowOf(r).state # "absent"
    BY <1>o DEF OwnsAll, Owns
  <1>5. ASSUME NEW w \in Workers, Acked(w) PROVE IInv'
    <2> DEFINE j == job[w]
               u == [j EXCEPT !.pc = "cleanup"]
    <2>0. j \in Job /\ Held(j) \in SUBSET Records
      BY <1>t, RequestType
    <2>1. KeepsJobs
      <3>1. CASE job' = [job EXCEPT ![w] = IdleJob]
        BY <3>1, <1>i
      <3>2. CASE job' = [job EXCEPT ![w] = u]
        <4>1. u.tok = j.tok /\ u.pc = "cleanup"
          BY <1>t DEF JobFields
        <4>2. RequestOf(j) \notin inflight
          BY <1>5 DEF Acked
        <4>3. Follows(j, u)
          BY <4>1, <4>2 DEF Follows
        <4> HIDE DEF u
        <4> QED BY <3>2, <4>3, <1>t, OneJob
      <3> QED BY <1>5, <3>1, <3>2 DEF Acked
    <2>2. KeepsRows
      <3>1. CASE UNCHANGED ledger
        BY <3>1, SameRows
      <3>2. CASE /\ OwnsAll(j, WriteState(j.batch, j.replay))
                 /\ ledger' = Transition(Held(j), "committed")
        <4>1. "committed" \in DeliveryState \ FirstWriteStates
              /\ "committed" \notin PreWriteStates
          BY DEF DeliveryState, FirstWriteStates, PreWriteStates
        <4>2. WriteState(j.batch, j.replay) # "absent"
          BY DEF WriteState
        <4>3. \A r \in Held(j) : RowOf(r).digest = r /\ RowOf(r).state # "absent"
          BY <2>0, <3>2, <4>2, <1>o
        <4> QED BY <2>0, <3>2, <4>1, <4>3, <1>t, MovedRows
      <3> QED BY <1>5, <3>1, <3>2 DEF Acked
    <2> QED BY <1>5, <2>1, <2>2, <1>q DEF Acked
  <1>6. ASSUME NEW w \in Workers, Unknown(w) PROVE IInv'
    <2> DEFINE j == job[w]
               u == [j EXCEPT !.pc = "unknown"]
    <2>1. u.tok = j.tok /\ u.pc = "unknown" /\ RequestOf(u) = RequestOf(j)
      BY <1>t DEF JobFields, RequestOf, WriteKey
    <2>2. Follows(j, u)
      BY <2>1 DEF Follows
    <2>3. job' = [job EXCEPT ![w] = u]
      BY <1>6 DEF Unknown
    <2> HIDE DEF u
    <2>4. KeepsJobs
      BY <2>2, <2>3, <1>t, OneJob
    <2> QED BY <1>6, <2>4, <1>q, SameRows DEF Unknown
  <1>7. ASSUME NEW w \in Workers, MarkRolledBack(w) PROVE IInv'
    <2> DEFINE j == job[w]
               state == QuarantinedState(j.replay)
    <2>0. j \in Job /\ Held(j) \in SUBSET Records /\ j.pc = "rolledback"
      BY <1>7, <1>t, RequestType DEF MarkRolledBack, MarkFailed
    <2>1. KeepsRows
      <3>1. CASE UNCHANGED ledger
        BY <3>1, SameRows
      <3>2. CASE OwnsAll(j, WriteState(j.batch, j.replay)) /\ ledger' = Transition(Held(j), state)
        <4>1. state \in DeliveryState \ FirstWriteStates
          BY DEF QuarantinedState, DeliveryState, FirstWriteStates
        <4>2. WriteState(j.batch, j.replay) # "absent"
          BY DEF WriteState
        <4>3. \A r \in Held(j) : RowOf(r).digest = r /\ RowOf(r).state # "absent"
          BY <2>0, <3>2, <4>2, <1>o
        <4>4. ASSUME state \in PreWriteStates, NEW r \in Held(j), NEW s \in Records,
                     KeyOf[s] = KeyOf[r]
              PROVE  Exposed(s) = {}
          <5>1. ~j.replay
            BY <4>4 DEF QuarantinedState, PreWriteStates
          <5>2. /\ RowOf(r).token = j.tok[r] /\ j.tok[r] > 0 /\ r \in Records
                /\ RowOf(r).state \in FirstWriteStates
            BY <3>2, <5>1 DEF OwnsAll, Owns, Held, WriteState, FirstWriteStates
          <5>3. CASE s = r
            BY <2>0, <5>2, <5>3 DEF IInv, FirstWrite
          <5>4. CASE s # r
            BY <4>3, <4>4, <5>4, Unbound DEF RowOf
          <5> QED BY <5>3, <5>4
        <4> HIDE DEF state
        <4> QED BY <2>0, <3>2, <4>1, <4>3, <4>4, <1>t, MovedRows
      <3> QED BY <1>7, <3>1, <3>2 DEF MarkRolledBack, MarkFailed
    <2>2. KeepsJobs
      BY <1>7, <1>i DEF MarkRolledBack, MarkFailed
    <2> QED BY <1>7, <2>1, <2>2, <1>q DEF MarkRolledBack, MarkFailed
  <1>8. ASSUME NEW w \in Workers, MarkUnknown(w) PROVE IInv'
    <2> DEFINE j == job[w]
               state == UncertainState(j.batch, j.replay)
    <2>0. j \in Job /\ Held(j) \in SUBSET Records
      BY <1>t, RequestType
    <2>1. KeepsRows
      <3>1. CASE UNCHANGED ledger
        BY <3>1, SameRows
      <3>2. CASE OwnsAll(j, WriteState(j.batch, j.replay)) /\ ledger' = Transition(Held(j), state)
        <4>1. state \in DeliveryState \ FirstWriteStates /\ state \notin PreWriteStates
          BY DEF UncertainState, DeliveryState, FirstWriteStates, PreWriteStates
        <4>2. WriteState(j.batch, j.replay) # "absent"
          BY DEF WriteState
        <4>3. \A r \in Held(j) : RowOf(r).digest = r /\ RowOf(r).state # "absent"
          BY <2>0, <3>2, <4>2, <1>o
        <4> HIDE DEF state
        <4> QED BY <2>0, <3>2, <4>1, <4>3, <1>t, MovedRows
      <3> QED BY <1>8, <3>1, <3>2 DEF MarkUnknown, MarkFailed
    <2>2. KeepsJobs
      BY <1>8, <1>i DEF MarkUnknown, MarkFailed
    <2> QED BY <1>8, <2>1, <2>2, <1>q DEF MarkUnknown, MarkFailed
  <1>9. ASSUME NEW w \in Workers, Cleanup(w) \/ Crash(w) PROVE IInv'
    BY <1>9, <1>i, <1>q, SameRows DEF Cleanup, Crash
  <1>10. ASSUME NEW w \in Workers, NEW r \in Records, NEW c \in Caps, Replay(w, r, c)
         PROVE  IInv'
    <2> DEFINE j == [IdleJob EXCEPT
                 !.pc = "rearm", !.caps = c, !.cur = r, !.exp = RowOf(r).state,
                 !.hist = RowOf(r).contract,
                 !.force = ~ReplayAllowed(RowOf(r), c)]
    <2>1. j.tok = NoTokens
      BY DEF IdleJob
    <2>2. job' = [job EXCEPT ![w] = j]
      BY <1>10 DEF Replay
    <2> HIDE DEF j
    <2>3. Follows(job[w], j)
      BY <2>1 DEF Follows, NoTokens
    <2>4. KeepsJobs
      BY <2>2, <2>3, <1>t, OneJob
    <2> QED BY <1>10, <2>4, <1>q, SameRows DEF Replay
  <1>11. ASSUME NEW w \in Workers, NEW r \in Records, ReplayCommitted(w, r) PROVE IInv'
    BY <1>11, <1>s, <1>q, SameRows DEF ReplayCommitted
  <1>12. ASSUME NEW k \in Keys, Expire(k) PROVE IInv'
    <2>1. KeepsRows
      <3>1. ledger' = [ledger EXCEPT ![k] = [ledger[k] EXCEPT !.live = FALSE]]
        BY <1>12, <1>t DEF Expire, TypeOK
      <3>2. \A i \in Keys : /\ ledger'[i].digest = ledger[i].digest
                            /\ ledger'[i].token = ledger[i].token
                            /\ ledger'[i].state = ledger[i].state
        BY <3>1, <1>t DEF TypeOK, Row
      <3> QED BY <3>2 DEF KeepsRows
    <2> QED BY <1>12, <2>1, <1>s, <1>q DEF Expire
  <1>13. ASSUME NEW c \in Caps, Reconfigure(c) PROVE IInv'
    BY <1>13, <1>s, <1>q, SameRows DEF Reconfigure
  <1>14. CASE UNCHANGED vars
    BY <1>14, <1>s, <1>q, SameRows DEF vars
  <1> QED BY <1>1, <1>2, <1>3, <1>4, <1>5, <1>6, <1>7, <1>8, <1>9, <1>10, <1>11,
             <1>12, <1>13, <1>14

\* A step that hands worker w fresh claims, each on a row that was before the
\* write boundary or becomes a guarded replay.
LEMMA FreshClaims ==
  ASSUME IInv, TypeOK', UNCHANGED <<inflight, effects>>,
         NEW w \in Workers, NEW j \in Job, job' = [job EXCEPT ![w] = j],
         j.pc # "rolledback",
         \A r \in Records : j.tok[r] > 0 =>
             /\ j.tok[r] = RowOf(r).token + 1
             /\ RowOf(r)'.token = RowOf(r).token + 1
             /\ RowOf(r)'.digest = r,
         \A k \in Keys :
             \/ ledger'[k] = ledger[k]
             \/ /\ ledger'[k].token = ledger[k].token + 1
                /\ ledger'[k].digest \in Records
                /\ ledger[k].digest \in {NoRecord, ledger'[k].digest}
                /\ ledger'[k].state \in ClaimedStates
                /\ ledger'[k].state = "claimed" => ledger[k].state \in PreWriteStates
  PROVE  IInv'
  <1> USE LedgerConstants
  <1>t. /\ \A r \in Records : KeyOf[r] \in Keys /\ RowOf(r).token \in Nat /\ r # NoRecord
        /\ \A v \in Workers, r \in Records : job[v].tok[r] \in Nat /\ job'[v].tok[r] \in Nat
        /\ \A q \in inflight, r \in Records : q.tok[r] \in Nat
    BY DEF IInv, TypeOK, Job, JobFields, Tokens, Row, RowOf, Request
  <1>j. job'[w] = j /\ \A v \in Workers : v # w => job'[v] = job[v]
    BY DEF IInv, TypeOK
  <1>e. \A r \in Records : Exposed(r)' = Exposed(r)
    BY DEF Exposed
  <1>r. ASSUME NEW r \in Records
        PROVE  /\ RowOf(r).token <= RowOf(r)'.token
               /\ RowOf(r).digest = r => RowOf(r)'.digest = r
    BY <1>t DEF RowOf
  <1>1. RowExists'
    BY DEF IInv, RowExists, ClaimedStates
  <1>2. TokenBound'
    <2> SUFFICES ASSUME NEW r \in Records
                 PROVE  /\ \A v \in Workers : /\ job'[v].tok[r] <= RowOf(r)'.token
                                              /\ job'[v].tok[r] > 0 => RowOf(r)'.digest = r
                        /\ \A q \in inflight : /\ q.tok[r] <= RowOf(r)'.token
                                               /\ q.tok[r] > 0 => RowOf(r)'.digest = r
                        /\ \A c \in Contracts \cup {NoContract} :
                               effects[r][c] > 0 => RowOf(r)'.digest = r
      BY DEF TokenBound
    <2>0. RowOf(r)'.token \in Nat /\ RowOf(r).token \in Nat
      BY DEF IInv, TypeOK, Row, RowOf
    <2>1. ASSUME NEW v \in Workers
          PROVE  job'[v].tok[r] <= RowOf(r)'.token /\ (job'[v].tok[r] > 0 => RowOf(r)'.digest = r)
      <3>1. CASE v = w
        BY <3>1, <1>j, <1>t, <2>0
      <3>2. CASE v # w
        BY <3>2, <1>j, <1>t, <1>r, <2>0 DEF IInv, TokenBound
      <3> QED BY <3>1, <3>2
    <2>2. ASSUME NEW q \in inflight
          PROVE  q.tok[r] <= RowOf(r)'.token /\ (q.tok[r] > 0 => RowOf(r)'.digest = r)
      BY <1>t, <1>r, <2>0 DEF IInv, TokenBound
    <2>3. \A c \in Contracts \cup {NoContract} : effects[r][c] > 0 => RowOf(r)'.digest = r
      BY <1>r DEF IInv, TokenBound
    <2> QED BY <2>1, <2>2, <2>3
  <1>3. UniqueHolder'
    <2> SUFFICES ASSUME NEW u \in Workers, NEW v \in Workers, NEW r \in Records,
                        job'[u].tok[r] = job'[v].tok[r], job'[u].tok[r] > 0
                 PROVE  u = v
      BY DEF UniqueHolder
    <2>1. \A x \in Workers : x # w => job'[x].tok[r] <= RowOf(r).token
      BY <1>j DEF IInv, TokenBound
    <2>2. job'[w].tok[r] = 0 \/ job'[w].tok[r] > RowOf(r).token
      BY <1>j, <1>t
    <2>3. CASE u # w /\ v # w
      BY <2>3, <1>j DEF IInv, UniqueHolder
    <2> QED BY <2>1, <2>2, <2>3, <1>t
  <1>4. UniqueRequest'
    BY DEF IInv, UniqueRequest
  <1>5. RequestHolder'
    <2> SUFFICES ASSUME NEW q \in inflight, NEW v \in Workers, NEW r \in Records,
                        job'[v].tok[r] = q.tok[r], q.tok[r] > 0
                 PROVE  job'[v].pc \in {"writing", "unknown"} /\ q = RequestOf(job'[v])
      BY DEF RequestHolder, RequestOf, WriteKey
    <2>1. q.tok[r] <= RowOf(r).token
      BY DEF IInv, TokenBound
    <2>2. v # w
      BY <2>1, <1>j, <1>t
    <2> QED BY <2>2, <1>j DEF IInv, RequestHolder
  <1>6. FirstWrite'
    <2> SUFFICES ASSUME NEW r \in Records, RowOf(r)'.state \in FirstWriteStates
                 PROVE  /\ \A q \in inflight : q.tok[r] > 0 =>
                             /\ q.tok[r] = RowOf(r)'.token
                             /\ \A c \in Contracts \cup {NoContract} : effects[r][c] = 0
                        /\ \A v \in Workers :
                             job'[v].pc = "rolledback" /\ job'[v].tok[r] = RowOf(r)'.token
                               /\ job'[v].tok[r] > 0
                             => Exposed(r) = {}
      BY <1>e DEF FirstWrite
    <2>1. RowOf(r)' = RowOf(r)
      BY <1>t DEF RowOf, FirstWriteStates, ClaimedStates
    <2> QED BY <2>1, <1>j DEF IInv, FirstWrite
  <1>7. PreWriteClean'
    <2> SUFFICES ASSUME NEW r \in Records, RowOf(r)'.state \in PreWriteStates
                 PROVE  Exposed(r) = {}
      BY <1>e DEF PreWriteClean
    <2>1. RowOf(r).state \in PreWriteStates
      BY <1>t DEF RowOf, PreWriteStates, ClaimedStates
    <2> QED BY <2>1 DEF IInv, PreWriteClean
  <1> QED BY <1>1, <1>2, <1>3, <1>4, <1>5, <1>6, <1>7 DEF IInv

\* What a granted claim of a record does to its row.
LEMMA GrantedRow ==
  ASSUME NEW row \in Row, NEW r \in Records, Granted(row)
  PROVE  /\ ClaimedRow(row, r).token = row.token + 1
         /\ ClaimedRow(row, r).digest = r
         /\ ClaimedRow(row, r).state = "claimed"
         /\ ClaimedRow(row, r).contract = row.contract
         /\ ClaimedRow(row, r).batch = row.batch
         /\ row.state \in PreWriteStates
  <1>1. row.state \in PreWriteStates
    BY DEF Granted, Disposition, ActiveClaim, PreWriteStates
  <1> QED BY <1>1 DEF ClaimedRow, Row

\* The rows of a claim: a new or recovered one for every record it grants.
LEMMA DeliverRows ==
  ASSUME IInv, NEW w \in Workers, NEW S \in SUBSET Records, Deliver(w, S)
  PROVE  /\ \A r \in S : Granted(RowOf(r)) => ledger'[KeyOf[r]] = ClaimedRow(RowOf(r), r)
         /\ \A k \in Keys :
              \/ ledger'[k] = ledger[k]
              \/ /\ ledger'[k].token = ledger[k].token + 1
                 /\ ledger'[k].digest \in Records
                 /\ ledger[k].digest \in {NoRecord, ledger'[k].digest}
                 /\ ledger'[k].state = "claimed"
                 /\ ledger[k].state \in PreWriteStates
                 /\ ledger'[k].contract = ledger[k].contract
                 /\ ledger'[k].batch = ledger[k].batch
  <1> USE LedgerConstants
  <1>0. \A k \in Keys : ledger[k] \in Row
    BY DEF IInv, TypeOK
  <1>1. ASSUME NEW r \in S
        PROVE  /\ r \in Records
               /\ (CHOOSE s \in S : KeyOf[s] = KeyOf[r]) = r
               /\ Granted(RowOf(r)) => ledger'[KeyOf[r]] = ClaimedRow(RowOf(r), r)
    <2>1. \A s \in S : KeyOf[s] = KeyOf[r] => s = r
      BY DEF Deliver, Chunk
    <2>2. (CHOOSE s \in S : KeyOf[s] = KeyOf[r]) = r
      BY <2>1
    <2> QED BY <2>2 DEF Deliver, Claimed, KeysOf, RowOf
  <1>2. ASSUME NEW k \in Keys
        PROVE  \/ ledger'[k] = ledger[k]
               \/ /\ ledger'[k].token = ledger[k].token + 1
                  /\ ledger'[k].digest \in Records
                  /\ ledger[k].digest \in {NoRecord, ledger'[k].digest}
                  /\ ledger'[k].state = "claimed"
                  /\ ledger[k].state \in PreWriteStates
                  /\ ledger'[k].contract = ledger[k].contract
                  /\ ledger'[k].batch = ledger[k].batch
    <2>1. CASE k \in KeysOf(S) /\ Granted(ledger[k])
      <3>1. PICK r \in S : KeyOf[r] = k
        BY <2>1 DEF KeysOf
      <3>2. ledger'[k] = ClaimedRow(ledger[k], r)
        BY <2>1, <3>1, <1>1 DEF RowOf
      <3>3. ledger[k].digest \in {NoRecord, r}
        BY <3>1 DEF Deliver, ReplayDetected, RowOf, IInv, RowExists
      <3> QED BY <2>1, <3>1, <3>2, <3>3, <1>0, GrantedRow
    <2>2. CASE ~(k \in KeysOf(S) /\ Granted(ledger[k]))
      <3>1. CASE k \in KeysOf(S)
        <4>1. PICK r \in S : KeyOf[r] = k
          BY <3>1 DEF KeysOf
        <4>2. (CHOOSE s \in S : KeyOf[s] = k) = r /\ ~Granted(RowOf(r))
          BY <4>1, <1>1, <2>2, <3>1 DEF RowOf
        <4> QED BY <4>2 DEF Deliver, Claimed
      <3>2. CASE k \notin KeysOf(S)
        BY <3>2 DEF Deliver, Claimed
      <3> QED BY <3>1, <3>2
    <2> QED BY <2>1, <2>2
  <1> QED BY <1>1, <1>2

\* The worker of a claim: it holds a token for every record it was granted and
\* has the ambiguous ones still to seal, or it is done.
ClaimJob(S) ==
    LET batch == \E a, b \in S : a # b
    IN [IdleJob EXCEPT
          !.pc = "claimed",
          !.batch = batch,
          !.caps = caps,
          !.tok = [r \in Records |-> IF r \in S /\ Granted(RowOf(r))
                                     THEN RowOf(r).token + 1 ELSE 0],
          !.amb = {r \in S : Disposition(RowOf(r)) = "ambiguous"},
          !.safe = IF batch THEN BatchContract(caps) # NoContract
                            ELSE ScalarContract(caps) # NoContract]

LEMMA DeliverJob ==
  ASSUME TypeOK, NEW w \in Workers, NEW S \in SUBSET Records, Deliver(w, S)
  PROVE  /\ job' = [job EXCEPT ![w] = Continue(ClaimJob(S))]
         /\ job'[w] \in {ClaimJob(S), IdleJob}
         /\ ClaimJob(S) \in Job /\ ClaimJob(S).pc = "claimed" /\ ~ClaimJob(S).replay
         /\ ClaimJob(S).batch <=> \E a, b \in S : a # b
         /\ ClaimJob(S).caps = caps
         /\ ClaimJob(S).amb = {r \in S : Disposition(RowOf(r)) = "ambiguous"}
         /\ ClaimJob(S).tok = [r \in Records |-> IF r \in S /\ Granted(RowOf(r))
                                                  THEN RowOf(r).token + 1 ELSE 0]
         /\ ClaimJob(S).safe <=> IF \E a, b \in S : a # b
                                 THEN BatchContract(caps) # NoContract
                                 ELSE ScalarContract(caps) # NoContract
  <1> USE LedgerConstants, RuntimeConstants
  <1> DEFINE tk == [r \in Records |-> IF r \in S /\ Granted(RowOf(r))
                                      THEN RowOf(r).token + 1 ELSE 0]
             batch == \E a, b \in S : a # b
             am == {r \in S : Disposition(RowOf(r)) = "ambiguous"}
             sf == IF batch THEN BatchContract(caps) # NoContract
                            ELSE ScalarContract(caps) # NoContract
             j == [IdleJob EXCEPT !.pc = "claimed", !.batch = batch, !.caps = caps,
                      !.tok = tk, !.amb = am, !.safe = sf]
  <1>1. tk \in Tokens
    <2>1. \A r \in Records : RowOf(r).token \in Nat
      BY DEF TypeOK, Row, RowOf
    <2> QED BY <2>1 DEF Tokens
  <1>2. am \in SUBSET Records /\ batch \in BOOLEAN /\ sf \in BOOLEAN /\ caps \in Capabilities
    BY DEF TypeOK
  <1>3. job' = [job EXCEPT ![w] = Continue(j)] /\ ClaimJob(S) = j
    BY DEF Deliver, ClaimJob
  <1> HIDE DEF tk, batch, am, sf
  <1>4. j \in Job /\ j.pc = "claimed" /\ ~j.replay /\ j.batch = batch /\ j.caps = caps
        /\ j.amb = am /\ j.tok = tk /\ j.safe = sf
    BY <1>1, <1>2, IdleJobType, ZenonT(60) DEF Job, JobFields, Pcs, IdleJob
  <1> HIDE DEF j
  <1>5. job'[w] \in {j, IdleJob}
    BY <1>3 DEF TypeOK, Continue
  <1> QED BY <1>3, <1>4, <1>5 DEF tk, batch, am, sf

\* A claim hands out tokens no worker or request has seen.
LEMMA DeliverStep ==
  ASSUME IInv, TypeOK', NEW w \in Workers, NEW S \in SUBSET Records, Deliver(w, S)
  PROVE  IInv'
  <1> USE LedgerConstants
  <1> DEFINE j == job'[w]
  <1>0. TypeOK /\ \A k \in Keys : ledger[k] \in Row
    BY DEF IInv, TypeOK
  <1>1. j \in Job /\ job' = [job EXCEPT ![w] = j]
    BY DEF Deliver, IInv, TypeOK
  <1>2. /\ j.pc # "rolledback"
        /\ \A r \in Records : j.tok[r] > 0 =>
             r \in S /\ Granted(RowOf(r)) /\ j.tok[r] = RowOf(r).token + 1
    <2>1. CASE j = ClaimJob(S)
      <3>1. /\ j.pc = "claimed"
            /\ j.tok = [r \in Records |-> IF r \in S /\ Granted(RowOf(r))
                                          THEN RowOf(r).token + 1 ELSE 0]
        BY <2>1, <1>0, DeliverJob
      <3> QED BY <3>1
    <2>2. CASE j = IdleJob
      BY <2>2 DEF IdleJob, NoTokens
    <2> QED BY <2>1, <2>2, <1>0, DeliverJob
  <1>3. ASSUME NEW r \in Records, j.tok[r] > 0
        PROVE  /\ j.tok[r] = RowOf(r).token + 1
               /\ RowOf(r)'.token = RowOf(r).token + 1
               /\ RowOf(r)'.digest = r
    <2>1. r \in S /\ Granted(RowOf(r)) /\ j.tok[r] = RowOf(r).token + 1
      BY <1>2, <1>3
    <2>2. RowOf(r)' = ClaimedRow(RowOf(r), r) /\ RowOf(r) \in Row
      BY <2>1, <1>0, DeliverRows DEF RowOf
    <2> QED BY <2>1, <2>2, GrantedRow
  <1>4. UNCHANGED <<inflight, effects>>
    BY DEF Deliver
  <1> HIDE DEF j
  <1> QED BY <1>1, <1>2, <1>3, <1>4, DeliverRows, FreshClaims DEF ClaimedStates

\* The row and the worker of a rearm, which fences every earlier holder; only a
\* known rollback becomes an ordinary claim again.
Rearms(w) ==
    LET r == job[w].cur
    IN Rearmable(RowOf(r), r, job[w].exp) /\ RowOf(r).token < MaxToken

RearmJob(w) ==
    LET r == job[w].cur
    IN [IdleJob EXCEPT
          !.pc = "claimed", !.caps = job[w].caps,
          !.replay = RearmState(job[w].exp) = "replay_claimed", !.force = job[w].force,
          !.tok = [NoTokens EXCEPT ![r] = RowOf(r).token + 1],
          !.safe = RearmedSafe(job[w], RowOf(r))]

LEMMA RearmRows ==
  ASSUME IInv, NEW w \in Workers, Rearm(w), Rearms(w), NEW r \in Records, r = job[w].cur
  PROVE  /\ job' = [job EXCEPT ![w] = RearmJob(w)]
         /\ forced' = IF job[w].force THEN forced \cup {KeyOf[r]} ELSE forced
         /\ RowOf(r).digest = r /\ RowOf(r).state = job[w].exp
         /\ RowOf(r)'.token = RowOf(r).token + 1
         /\ RowOf(r)'.digest = r
         /\ RowOf(r)'.contract = RowOf(r).contract
         /\ RowOf(r)'.batch = RowOf(r).batch
         /\ RowOf(r)'.state = RearmState(job[w].exp)
         /\ \A k \in Keys : k # KeyOf[r] => ledger'[k] = ledger[k]
  <1> USE LedgerConstants
  <1>1. /\ ledger' = [ledger EXCEPT ![KeyOf[r]] = RearmRow(RowOf(r))]
        /\ job' = [job EXCEPT ![w] = RearmJob(w)]
        /\ forced' = IF job[w].force THEN forced \cup {KeyOf[r]} ELSE forced
    BY DEF Rearm, Rearms, RearmJob, RowOf
  <1>2. TypeOK /\ RowOf(r) \in Row /\ KeyOf[r] \in Keys
    BY DEF IInv, TypeOK, RowOf
  <1>3. RowOf(r).digest = r /\ RowOf(r).state = job[w].exp
    BY DEF Rearms, Rearmable
  <1>4. RowOf(r)' = RearmRow(RowOf(r))
    BY <1>1, <1>2 DEF RowOf, TypeOK
  <1>5. /\ RowOf(r)'.token = RowOf(r).token + 1
        /\ RowOf(r)'.digest = RowOf(r).digest
        /\ RowOf(r)'.contract = RowOf(r).contract
        /\ RowOf(r)'.batch = RowOf(r).batch
        /\ RowOf(r)'.state = RearmState(RowOf(r).state)
    BY <1>2, <1>4 DEF RearmRow, Row
  <1> QED BY <1>1, <1>2, <1>3, <1>5 DEF TypeOK

LEMMA RearmJobIs ==
  ASSUME IInv, NEW w \in Workers, NEW r \in Records, r = job[w].cur
  PROVE  /\ RearmJob(w).pc = "claimed" /\ ~RearmJob(w).batch /\ RearmJob(w).amb = {}
         /\ RearmJob(w).caps = job[w].caps
         /\ RearmJob(w).replay <=> RearmState(job[w].exp) = "replay_claimed"
         /\ RearmJob(w).tok = [NoTokens EXCEPT ![r] = RowOf(r).token + 1]
         /\ RearmJob(w).safe <=> RearmedSafe(job[w], RowOf(r))
  <1> DEFINE rp == RearmState(job[w].exp) = "replay_claimed"
             sf == RearmedSafe(job[w], RowOf(r))
             tk == [NoTokens EXCEPT ![r] = RowOf(r).token + 1]
  <1>1. RearmJob(w) = [IdleJob EXCEPT !.pc = "claimed", !.caps = job[w].caps,
                         !.replay = rp, !.force = job[w].force, !.tok = tk, !.safe = sf]
    BY DEF RearmJob
  <1> HIDE DEF rp, sf, tk
  <1>2. /\ RearmJob(w).pc = "claimed" /\ ~RearmJob(w).batch /\ RearmJob(w).amb = {}
        /\ RearmJob(w).caps = job[w].caps /\ RearmJob(w).replay = rp
        /\ RearmJob(w).tok = tk /\ RearmJob(w).safe = sf
    BY <1>1 DEF IdleJob
  <1> QED BY <1>2 DEF rp, sf, tk

\* rearm_for_retry keeps the invariant.
LEMMA RearmStep ==
  ASSUME IInv, TypeOK', NEW w \in Workers, Rearm(w)
  PROVE  IInv'
  <1> USE LedgerConstants
  <1>c. PICK r \in Records : r = job[w].cur
    BY DEF IInv, TypeOK, Rearm, Job
  <1> DEFINE j == job'[w]
  <1>0. TypeOK /\ RowOf(r).token \in Nat /\ KeyOf[r] \in Keys
    BY DEF IInv, TypeOK, RowOf, Row
  <1>1. j \in Job /\ job' = [job EXCEPT ![w] = j] /\ UNCHANGED <<inflight, effects>>
    BY DEF Rearm, IInv, TypeOK
  <1>2. CASE Rearms(w)
    <2>1. j = RearmJob(w)
      BY <1>0, <1>2, <1>c, RearmRows DEF TypeOK
    <2>2. j.pc # "rolledback" /\ j.tok = [NoTokens EXCEPT ![r] = RowOf(r).token + 1]
      BY <1>c, <2>1, RearmJobIs
    <2>3. /\ RowOf(r)'.token = RowOf(r).token + 1 /\ RowOf(r)'.digest = r
          /\ RowOf(r).digest = r /\ RowOf(r)'.state \in ClaimedStates
          /\ RowOf(r)'.state = "claimed" => RowOf(r).state \in PreWriteStates
          /\ \A k \in Keys : k # KeyOf[r] => ledger'[k] = ledger[k]
      BY <1>2, <1>c, RearmRows DEF RearmState, ClaimedStates, PreWriteStates
    <2>4. ASSUME NEW s \in Records, j.tok[s] > 0
          PROVE  /\ j.tok[s] = RowOf(s).token + 1
                 /\ RowOf(s)'.token = RowOf(s).token + 1
                 /\ RowOf(s)'.digest = s
      <3>1. s = r
        BY <2>2, <2>4, <1>0 DEF NoTokens
      <3> QED BY <3>1, <2>2, <2>3 DEF NoTokens
    <2>5. ASSUME NEW k \in Keys
          PROVE  \/ ledger'[k] = ledger[k]
                 \/ /\ ledger'[k].token = ledger[k].token + 1
                    /\ ledger'[k].digest \in Records
                    /\ ledger[k].digest \in {NoRecord, ledger'[k].digest}
                    /\ ledger'[k].state \in ClaimedStates
                    /\ ledger'[k].state = "claimed" => ledger[k].state \in PreWriteStates
      BY <2>3 DEF RowOf
    <2> HIDE DEF j
    <2> QED BY <1>1, <2>2, <2>4, <2>5, FreshClaims
  <1>3. CASE ~Rearms(w)
    <2>1. job' = [job EXCEPT ![w] = IdleJob] /\ UNCHANGED ledger
      BY <1>3, <1>c DEF Rearm, Rearms
    <2> QED BY <2>1, <1>0, <1>1, OneJob, IdleFollows, SameRows, Quiet
  <1> QED BY <1>2, <1>3

\* The write boundary: the claim is live and fenced, so the one request it opens
\* is the only one of its tokens.
LEMMA StartWriteStep ==
  ASSUME IInv, TypeOK', NEW w \in Workers, StartWrite(w)
  PROVE  IInv'
  <1> USE LedgerConstants
  <1> DEFINE j == job[w]
             u == [j EXCEPT !.pc = "writing"]
  <1>0. /\ TypeOK /\ j \in Job /\ j \in JobFields /\ j.pc = "claimed"
        /\ \A k \in Keys : ledger[k] \in Row
        /\ \A r \in Records : KeyOf[r] \in Keys /\ RowOf(r).token \in Nat
        /\ \A v \in Workers, r \in Records : job[v].tok[r] \in Nat
    <2>1. TypeOK /\ j \in Job /\ j \in JobFields /\ j.pc = "claimed"
      BY DEF IInv, TypeOK, Job, StartWrite
    <2>2. \A k \in Keys : ledger[k] \in Row
      BY <2>1 DEF TypeOK
    <2>3. \A r \in Records : KeyOf[r] \in Keys /\ RowOf(r).token \in Nat
      BY <2>2 DEF Row, RowOf
    <2>4. \A v \in Workers, r \in Records : job[v].tok[r] \in Nat
      BY <2>1 DEF TypeOK, Job, JobFields, Tokens
    <2> QED BY <2>1, <2>2, <2>3, <2>4
  <1>1. CASE ~OwnsAllClaims(j, ClaimState(j.replay))
    <2>1. job' = [job EXCEPT ![w] = IdleJob] /\ UNCHANGED <<ledger, inflight, effects>>
      BY <1>1 DEF StartWrite
    <2> QED BY <2>1, <1>0, OneJob, IdleFollows, SameRows, Quiet
  <1>2. CASE OwnsAllClaims(j, ClaimState(j.replay))
    <2> PICK q : q = RequestOf(j)
      OBVIOUS
    <2>1. /\ ledger' = WriteStarted(j)
          /\ inflight' = inflight \cup {q}
          /\ job' = [job EXCEPT ![w] = u]
          /\ UNCHANGED effects
      BY <1>2 DEF StartWrite
    <2>2. /\ job'[w] = u /\ u.tok = j.tok /\ u.pc = "writing"
          /\ RequestOf(u) = q /\ q.tok = j.tok
          /\ \A v \in Workers : v # w => job'[v] = job[v]
      BY <2>1, <1>0 DEF TypeOK, JobFields, RequestOf, WriteKey
    <2> HIDE DEF u
    <2>3. ASSUME NEW r \in Records, j.tok[r] > 0
          PROVE  /\ RowOf(r).digest = r /\ RowOf(r).token = j.tok[r]
                 /\ RowOf(r).state = ClaimState(j.replay)
      BY <1>2, <2>3 DEF OwnsAllClaims, OwnsClaim, Owns, Held
    <2>4. ASSUME NEW k \in Keys
          PROVE  /\ ledger'[k].digest = ledger[k].digest
                 /\ ledger'[k].token = ledger[k].token
                 /\ \/ ledger'[k] = ledger[k] /\ k \notin KeysOf(Held(j))
                    \/ /\ ledger'[k].state \in WriteStartedStates
                       /\ ledger'[k].state \in FirstWriteStates => ~j.replay
                       /\ \E r \in Records : KeyOf[r] = k /\ j.tok[r] > 0
      <3>1. CASE k \in KeysOf(Held(j))
        <4>1. ledger'[k] \in {StartReplayRow(ledger[k]),
                              StartWriteRow(ledger[k], j.batch, AttemptContract(j))}
              /\ (~j.replay => ledger'[k] = StartWriteRow(ledger[k], j.batch, AttemptContract(j)))
              /\ (j.replay => ledger'[k] = StartReplayRow(ledger[k]))
          BY <2>1, <3>1 DEF WriteStarted
        <4>2. \A b, c : /\ StartWriteRow(ledger[k], b, c).digest = ledger[k].digest
                        /\ StartWriteRow(ledger[k], b, c).token = ledger[k].token
                        /\ StartWriteRow(ledger[k], b, c).state \in FirstWriteStates
          BY <1>0 DEF StartWriteRow, Moved, Row, FirstWriteStates
        <4>3. /\ StartReplayRow(ledger[k]).digest = ledger[k].digest
              /\ StartReplayRow(ledger[k]).token = ledger[k].token
              /\ StartReplayRow(ledger[k]).state = "replay_write_started"
          BY <1>0 DEF StartReplayRow, Moved, Row
        <4>4. \E r \in Records : KeyOf[r] = k /\ j.tok[r] > 0
          BY <3>1 DEF KeysOf, Held
        <4> QED BY <4>1, <4>2, <4>3, <4>4 DEF WriteStartedStates, FirstWriteStates
      <3>2. CASE k \notin KeysOf(Held(j))
        BY <2>1, <3>2 DEF WriteStarted
      <3> QED BY <3>1, <3>2
    <2>5. \A r \in Records : RowOf(r)'.digest = RowOf(r).digest
                             /\ RowOf(r)'.token = RowOf(r).token
      BY <2>4, <1>0 DEF RowOf
    <2>6. RowExists'
      <3> SUFFICES ASSUME NEW k \in Keys
                   PROVE  ledger'[k].state = "absent" <=> ledger'[k].digest = NoRecord
        BY DEF RowExists
      <3>1. CASE ledger'[k] = ledger[k]
        BY <3>1 DEF IInv, RowExists
      <3>2. CASE ledger'[k].state \in WriteStartedStates
                 /\ \E r \in Records : KeyOf[r] = k /\ j.tok[r] > 0
        BY <3>2, <2>3, <2>4 DEF RowOf, WriteStartedStates, FirstWriteStates
      <3> QED BY <2>4, <3>1, <3>2
    <2>7. TokenBound'
      <3> SUFFICES ASSUME NEW r \in Records
                   PROVE  /\ \A v \in Workers : /\ job'[v].tok[r] <= RowOf(r).token
                                                /\ job'[v].tok[r] > 0 => RowOf(r).digest = r
                          /\ \A p \in inflight' : /\ p.tok[r] <= RowOf(r).token
                                                  /\ p.tok[r] > 0 => RowOf(r).digest = r
                          /\ \A c \in Contracts \cup {NoContract} :
                                 effects[r][c] > 0 => RowOf(r).digest = r
        BY <2>1, <2>5 DEF TokenBound
      <3>1. \A v \in Workers : job'[v].tok[r] = job[v].tok[r]
        BY <2>2
      <3> QED BY <3>1, <2>1, <2>2 DEF IInv, TokenBound
    <2>8. UniqueHolder'
      BY <2>2 DEF IInv, UniqueHolder
    <2>9. ASSUME NEW p \in inflight, NEW r \in Records, p.tok[r] > 0 PROVE p.tok[r] # j.tok[r]
      BY <2>9, <1>0 DEF IInv, RequestHolder
    <2>10. UniqueRequest'
      BY <2>1, <2>2, <2>9 DEF IInv, UniqueRequest
    <2>11. RequestHolder'
      <3> SUFFICES ASSUME NEW p \in inflight', NEW v \in Workers, NEW r \in Records,
                          job'[v].tok[r] = p.tok[r], p.tok[r] > 0
                   PROVE  job'[v].pc \in {"writing", "unknown"} /\ p = RequestOf(job'[v])
        BY DEF RequestHolder, RequestOf, WriteKey
      <3>1. CASE p = q
        <4>1. v = w
          BY <3>1, <2>2 DEF IInv, UniqueHolder
        <4> QED BY <4>1, <3>1, <2>2
      <3>2. CASE p \in inflight
        <4>1. v # w
          BY <3>2, <2>2, <2>9
        <4> QED BY <4>1, <3>2, <2>2 DEF IInv, RequestHolder
      <3> QED BY <2>1, <3>1, <3>2
    <2>12. ASSUME NEW r \in Records, RowOf(r)' = RowOf(r), RowOf(r).state # ClaimState(j.replay)
           PROVE  j.tok[r] = 0 /\ Exposed(r)' = Exposed(r)
      <3>1. j.tok[r] = 0
        BY <2>3, <2>12, <1>0
      <3> QED BY <3>1, <2>1, <2>2 DEF Exposed
    <2>13. ASSUME NEW r \in Records, RowOf(r)' # RowOf(r)
           PROVE  /\ RowOf(r)'.state \in WriteStartedStates
                  /\ RowOf(r)'.state \in FirstWriteStates => Exposed(r) = {}
                  /\ \E s \in Records : KeyOf[s] = KeyOf[r] /\ j.tok[s] > 0
      <3>1. /\ RowOf(r)'.state \in WriteStartedStates
            /\ RowOf(r)'.state \in FirstWriteStates => ~j.replay
        BY <2>4, <2>13, <1>0 DEF RowOf
      <3>2. PICK s \in Records : KeyOf[s] = KeyOf[r] /\ j.tok[s] > 0
        BY <2>4, <2>13, <1>0 DEF RowOf
      <3>3. ~j.replay => RowOf(r).state \in PreWriteStates
        BY <2>3, <3>2 DEF RowOf, ClaimState, PreWriteStates
      <3> QED BY <3>1, <3>2, <3>3 DEF IInv, PreWriteClean
    <2>14. FirstWrite'
      <3> SUFFICES ASSUME NEW r \in Records, RowOf(r)'.state \in FirstWriteStates
                   PROVE  /\ \A p \in inflight' : p.tok[r] > 0 =>
                               /\ p.tok[r] = RowOf(r).token
                               /\ \A c \in Contracts \cup {NoContract} : effects[r][c] = 0
                          /\ \A v \in Workers :
                               job'[v].pc = "rolledback" /\ job'[v].tok[r] = RowOf(r).token
                                 /\ job'[v].tok[r] > 0
                               => Exposed(r)' = {}
        BY <2>1, <2>5 DEF FirstWrite
      <3>1. CASE RowOf(r)' = RowOf(r)
        <4>1. RowOf(r).state # ClaimState(j.replay)
          BY <3>1 DEF ClaimState, FirstWriteStates
        <4>2. j.tok[r] = 0 /\ Exposed(r)' = Exposed(r)
          BY <3>1, <4>1, <2>12
        <4>3. \A p \in inflight' : p.tok[r] > 0 => p \in inflight
          BY <4>2, <2>1, <2>2
        <4> QED BY <3>1, <4>2, <4>3, <2>2 DEF IInv, FirstWrite
      <3>2. CASE RowOf(r)' # RowOf(r)
        <4>1. Exposed(r) = {}
          BY <3>2, <2>13
        <4>2. /\ \A p \in inflight : ~(p.tok[r] > 0)
              /\ \A c \in Contracts \cup {NoContract} : effects[r][c] = 0
          BY <4>1, <1>0 DEF Exposed, TypeOK, Request
        <4>3. ASSUME NEW v \in Workers, job'[v].pc = "rolledback",
                     job'[v].tok[r] = RowOf(r).token, job'[v].tok[r] > 0
              PROVE  FALSE
          <5>1. v # w /\ job[v].pc = "rolledback" /\ job[v].tok[r] = RowOf(r).token
                /\ RowOf(r).digest = r /\ job[v].tok[r] > 0
            BY <4>3, <2>2 DEF IInv, TokenBound
          <5>2. PICK s \in Records : KeyOf[s] = KeyOf[r] /\ j.tok[s] > 0
            BY <3>2, <2>13
          <5>3. s = r
            BY <5>1, <5>2, <2>3 DEF RowOf
          <5>4. j.tok[r] = job[v].tok[r]
            BY <5>1, <5>2, <5>3, <2>3
          <5> QED BY <5>1, <5>4 DEF IInv, UniqueHolder
        <4>4. ASSUME NEW p \in inflight', p.tok[r] > 0 PROVE p.tok[r] = RowOf(r).token
          <5>1. p = q
            BY <4>2, <4>4, <2>1
          <5> QED BY <5>1, <4>4, <2>2, <2>3
        <4> QED BY <4>2, <4>3, <4>4
      <3> QED BY <3>1, <3>2
    <2>15. PreWriteClean'
      <3> SUFFICES ASSUME NEW r \in Records, RowOf(r)'.state \in PreWriteStates
                   PROVE  Exposed(r)' = {}
        BY DEF PreWriteClean
      <3>1. RowOf(r)' = RowOf(r)
        BY <2>13 DEF PreWriteStates, WriteStartedStates, FirstWriteStates
      <3>2. Exposed(r) = {}
        BY <3>1 DEF IInv, PreWriteClean
      <3>3. j.tok[r] = 0
        <4> SUFFICES ASSUME j.tok[r] > 0 PROVE FALSE
          BY <1>0
        <4>1. KeyOf[r] \in KeysOf(Held(j))
          BY DEF KeysOf, Held
        <4>2. RowOf(r)'.state \in WriteStartedStates
          BY <4>1, <2>4, <1>0 DEF RowOf
        <4> QED BY <4>2 DEF PreWriteStates, WriteStartedStates, FirstWriteStates
      <3> QED BY <3>2, <3>3, <2>1, <2>2 DEF Exposed
    <2> QED BY <2>6, <2>7, <2>8, <2>10, <2>11, <2>14, <2>15 DEF IInv
  <1> QED BY <1>1, <1>2

\* NOT_COMMITTED closes the request of the worker that reports it.
LEMMA RolledBackStep ==
  ASSUME IInv, TypeOK', NEW w \in Workers, RolledBack(w)
  PROVE  IInv'
  <1> USE LedgerConstants
  <1> DEFINE j == job[w]
             u == [j EXCEPT !.pc = "rolledback"]
  <1> PICK q : q = RequestOf(j)
    OBVIOUS
  <1>0. TypeOK /\ j \in Job /\ j \in JobFields /\ j.pc = "writing" /\ q \in inflight
    BY DEF IInv, TypeOK, Job, RolledBack
  <1>1. /\ inflight' = inflight \ {q}
        /\ job' = [job EXCEPT ![w] = u]
        /\ UNCHANGED <<ledger, effects>>
    BY DEF RolledBack
  <1>2. /\ job'[w] = u /\ u.tok = j.tok /\ u.pc = "rolledback" /\ q.tok = j.tok
        /\ \A v \in Workers : v # w => job'[v] = job[v]
    BY <1>0, <1>1 DEF TypeOK, JobFields, RequestOf
  <1> HIDE DEF u
  <1>t. /\ \A v \in Workers, r \in Records : job'[v].tok[r] = job[v].tok[r]
        /\ \A r \in Records : RowOf(r)' = RowOf(r)
        /\ \A p \in inflight' : p \in inflight
    BY <1>1, <1>2 DEF RowOf
  <1>3. RowExists'
    BY <1>1 DEF IInv, RowExists
  <1>4. TokenBound'
    BY <1>t, <1>1 DEF IInv, TokenBound
  <1>5. UniqueHolder'
    BY <1>t DEF IInv, UniqueHolder
  <1>6. UniqueRequest'
    BY <1>t DEF IInv, UniqueRequest
  <1>7. RequestHolder'
    <2> SUFFICES ASSUME NEW p \in inflight', NEW v \in Workers, NEW r \in Records,
                        job'[v].tok[r] = p.tok[r], p.tok[r] > 0
                 PROVE  job'[v].pc \in {"writing", "unknown"} /\ p = RequestOf(job'[v])
      BY DEF RequestHolder, RequestOf, WriteKey
    <2>1. p = RequestOf(job[v]) /\ job[v].pc \in {"writing", "unknown"}
      BY <1>t DEF IInv, RequestHolder
    <2>2. v # w
      BY <2>1, <1>1
    <2> QED BY <2>1, <2>2, <1>2
  <1>8. \A r \in Records : Exposed(r)' \subseteq Exposed(r)
    BY <1>1 DEF Exposed
  <1>9. FirstWrite'
    <2> SUFFICES ASSUME NEW r \in Records, RowOf(r).state \in FirstWriteStates
                 PROVE  /\ \A p \in inflight' : p.tok[r] > 0 =>
                             /\ p.tok[r] = RowOf(r).token
                             /\ \A c \in Contracts \cup {NoContract} : effects[r][c] = 0
                        /\ \A v \in Workers :
                             job'[v].pc = "rolledback" /\ job'[v].tok[r] = RowOf(r).token
                               /\ job'[v].tok[r] > 0
                             => Exposed(r)' = {}
      BY <1>t, <1>1 DEF FirstWrite
    <2>1. \A p \in inflight' : p.tok[r] > 0 =>
             /\ p.tok[r] = RowOf(r).token
             /\ \A c \in Contracts \cup {NoContract} : effects[r][c] = 0
      BY <1>t DEF IInv, FirstWrite
    <2>2. ASSUME NEW v \in Workers, job'[v].pc = "rolledback",
                 job'[v].tok[r] = RowOf(r).token, job'[v].tok[r] > 0
          PROVE  Exposed(r)' = {}
      <3>1. CASE v # w
        BY <3>1, <2>2, <1>2, <1>8 DEF IInv, FirstWrite
      <3>2. CASE v = w
        <4>1. q.tok[r] = RowOf(r).token /\ q.tok[r] > 0
          BY <3>2, <2>2, <1>2
        <4>2. \A c \in Contracts \cup {NoContract} : effects[r][c] = 0
          BY <4>1, <1>0 DEF IInv, FirstWrite
        <4>3. ASSUME NEW p \in inflight', p.tok[r] > 0 PROVE FALSE
          BY <4>1, <4>3, <2>1, <1>0, <1>1 DEF IInv, UniqueRequest
        <4> QED BY <4>2, <4>3, <1>1 DEF Exposed
      <3> QED BY <3>1, <3>2
    <2> QED BY <2>1, <2>2
  <1>10. PreWriteClean'
    BY <1>t, <1>8 DEF IInv, PreWriteClean
  <1> QED BY <1>3, <1>4, <1>5, <1>6, <1>7, <1>9, <1>10 DEF IInv

\* The destination applies an open request, perhaps long after its worker died.
LEMMA ApplyStep ==
  ASSUME IInv, TypeOK', NEW q \in inflight, Apply(q)
  PROVE  IInv'
  <1> USE LedgerConstants
  <1>1. inflight' = inflight \ {q} /\ UNCHANGED <<ledger, job>>
    BY DEF Apply
  <1>2. ASSUME NEW r \in Records, ~(q.tok[r] > 0) PROVE effects'[r] = effects[r]
    BY <1>2 DEF Apply
  <1>t. /\ \A r \in Records : RowOf(r)' = RowOf(r)
        /\ \A p \in inflight' : p \in inflight
        /\ \A v \in Workers : RequestOf(job[v])' = RequestOf(job[v])
    BY <1>1 DEF RowOf, RequestOf, WriteKey
  <1>3. RowExists'
    BY <1>1 DEF IInv, RowExists
  <1>4. TokenBound'
    <2> SUFFICES ASSUME NEW r \in Records, NEW c \in Contracts \cup {NoContract},
                        effects'[r][c] > 0
                 PROVE  RowOf(r).digest = r
      BY <1>1, <1>t DEF IInv, TokenBound
    <2>1. CASE q.tok[r] > 0
      BY <2>1 DEF IInv, TokenBound
    <2>2. CASE ~(q.tok[r] > 0)
      BY <2>2, <1>2 DEF IInv, TokenBound
    <2> QED BY <2>1, <2>2
  <1>5. UniqueHolder'
    BY <1>1 DEF IInv, UniqueHolder
  <1>6. UniqueRequest'
    BY <1>t DEF IInv, UniqueRequest
  <1>7. RequestHolder'
    BY <1>1, <1>t DEF IInv, RequestHolder
  <1>8. ASSUME NEW r \in Records, ~(q.tok[r] > 0) PROVE Exposed(r)' = Exposed(r)
    BY <1>1, <1>2, <1>8 DEF Exposed
  <1>9. FirstWrite'
    <2> SUFFICES ASSUME NEW r \in Records, RowOf(r).state \in FirstWriteStates
                 PROVE  /\ \A p \in inflight' : p.tok[r] > 0 =>
                             /\ p.tok[r] = RowOf(r).token
                             /\ \A c \in Contracts \cup {NoContract} : effects'[r][c] = 0
                        /\ \A v \in Workers :
                             job[v].pc = "rolledback" /\ job[v].tok[r] = RowOf(r).token
                               /\ job[v].tok[r] > 0
                             => Exposed(r)' = {}
      BY <1>t, <1>1 DEF FirstWrite
    <2>1. CASE ~(q.tok[r] > 0)
      BY <2>1, <1>2, <1>8, <1>t DEF IInv, FirstWrite
    <2>2. CASE q.tok[r] > 0
      <3>1. ASSUME NEW p \in inflight', p.tok[r] > 0 PROVE FALSE
        BY <2>2, <3>1, <1>1 DEF IInv, FirstWrite, UniqueRequest
      <3>2. ASSUME NEW v \in Workers, job[v].pc = "rolledback",
                   job[v].tok[r] = RowOf(r).token, job[v].tok[r] > 0
            PROVE  FALSE
        <4>1. q.tok[r] = job[v].tok[r]
          BY <2>2, <3>2 DEF IInv, FirstWrite
        <4> QED BY <4>1, <2>2, <3>2 DEF IInv, RequestHolder
      <3> QED BY <3>1, <3>2
    <2> QED BY <2>1, <2>2
  <1>10. PreWriteClean'
    <2> SUFFICES ASSUME NEW r \in Records, RowOf(r).state \in PreWriteStates
                 PROVE  Exposed(r)' = {}
      BY <1>t DEF PreWriteClean
    <2>1. Exposed(r) = {}
      BY DEF IInv, PreWriteClean
    <2>2. ~(q.tok[r] > 0)
      BY <2>1 DEF Exposed, IInv, TypeOK, Request
    <2> QED BY <2>1, <2>2, <1>8
  <1> QED BY <1>3, <1>4, <1>5, <1>6, <1>7, <1>9, <1>10 DEF IInv

\* The initial states, fresh or migrated, satisfy the invariant.
LEMMA IInvInit == Init => IInv
  <1> SUFFICES ASSUME Init PROVE IInv
    OBVIOUS
  <1> USE LedgerConstants, RuntimeConstants
  <1>1. TypeOK
    BY TypeInit
  <1>2. \A w \in Workers, r \in Records : job[w].tok[r] = 0
    BY DEF Init, IdleJob, NoTokens
  <1>3. inflight = {}
    BY DEF Init
  <1>4. /\ RowExists
        /\ \A r \in Records, c \in Contracts \cup {NoContract} :
             effects[r][c] > 0 => RowOf(r).digest = r /\ RowOf(r).state \notin PreWriteStates
        /\ \A k \in Keys : ledger[k].state \notin FirstWriteStates \/ inflight = {}
    <2>1. CASE ~Upgraded
      BY <2>1, <1>3 DEF Init, FreshInit, NoEffects, AbsentRow, RowExists, FirstWriteStates
    <2>2. CASE Upgraded
      <3>1. \A k \in Keys : ledger[k] \in MigratedRows
        BY <2>2 DEF Init, LegacyInit
      <3>2. ASSUME NEW row \in MigratedRows
            PROVE  /\ row.state = "absent" <=> row.digest = NoRecord
                   /\ row.digest \in Records => row.state \notin PreWriteStates
        BY <3>2 DEF MigratedRows, AbsentRow, MigratedRow, MigratedState, LegacyStates,
           PreWriteStates
      <3>3. ASSUME NEW r \in Records, NEW c \in Contracts \cup {NoContract},
                   effects[r][c] > 0
            PROVE  RowOf(r).digest = r
        <4>1. RowOf(r).digest # r => effects[r] = NoEffects[r]
          BY <2>2 DEF Init, LegacyInit, LegacyRecord
        <4> QED BY <3>3, <4>1 DEF NoEffects
      <3> QED BY <3>1, <3>2, <3>3, <1>3 DEF RowExists, RowOf
    <2> QED BY <2>1, <2>2
  <1>5. TokenBound
    <2>1. \A r \in Records : RowOf(r).token \in Nat
      BY <1>1 DEF TypeOK, Row, RowOf
    <2>2. ASSUME NEW w \in Workers, NEW r \in Records
          PROVE  job[w].tok[r] <= RowOf(r).token /\ ~(job[w].tok[r] > 0)
      <3>1. job[w].tok[r] = 0 /\ RowOf(r).token \in Nat
        BY <1>2, <2>1
      <3> QED BY <3>1
    <2>3. \A r \in Records, c \in Contracts \cup {NoContract} :
            effects[r][c] > 0 => RowOf(r).digest = r
      BY <1>4
    <2> QED BY <2>2, <2>3, <1>3 DEF TokenBound
  <1>6. UniqueHolder /\ UniqueRequest /\ RequestHolder
    BY <1>2, <1>3 DEF UniqueHolder, UniqueRequest, RequestHolder
  <1>7. FirstWrite
    BY <1>2, <1>3 DEF FirstWrite
  <1>8. PreWriteClean
    BY <1>3, <1>4 DEF PreWriteClean, Exposed
  <1> QED BY <1>1, <1>4, <1>5, <1>6, <1>7, <1>8 DEF IInv

\* Every step preserves the invariant.
LEMMA IInvStep == IInv /\ [Next]_vars => IInv'
  <1> SUFFICES ASSUME IInv, [Next]_vars PROVE IInv'
    OBVIOUS
  <1>1. TypeOK'
    BY TypeStep DEF IInv
  <1>2. CASE UNCHANGED vars
    BY <1>1, <1>2, QuietStep
  <1>3. CASE \E w \in Workers : Proceed(w)
    BY <1>1, <1>3, QuietStep, StartWriteStep, RolledBackStep, RearmStep DEF Proceed
  <1>4. CASE Next
    BY <1>1, <1>3, <1>4, QuietStep, DeliverStep, ApplyStep DEF Next, DeliveryNext
  <1> QED BY <1>2, <1>4

\* A ledger row in a state from which it may be written without a gate belongs
\* to a record the destination has never seen and can no longer get: crashes,
\* expired claims, late commits and replays never make a write look unstarted.
THEOREM PreWriteSafe == Spec => []PreWriteClean
  <1>1. IInv => PreWriteClean
    BY DEF IInv
  <1> QED BY <1>1, IInvInit, IInvStep, PTL DEF Spec

\* Of two digests that claim one transfer identity, at most one ever reaches
\* the destination.
THEOREM IdentitySafe == Spec => []SingleIdentity
  <1>1. IInv => SingleIdentity
    <2> SUFFICES ASSUME IInv, NEW a \in Records, NEW b \in Records,
                        KeyOf[a] = KeyOf[b], Exposed(a) # {}, Exposed(b) # {}
                 PROVE  a = b
      BY DEF SingleIdentity
    <2>1. RowOf(a).digest = a /\ RowOf(b).digest = b
      BY Unbound
    <2> QED BY <2>1 DEF RowOf
  <1> QED BY <1>1, IInvInit, IInvStep, PTL DEF Spec

-----------------------------------------------------------------------------
(* Whose outcome it is.                                                    *)

\* What the write boundary does to the rows of the attempt and to no other.
LEMMA StartRows ==
  ASSUME IInv, NEW w \in Workers, StartWrite(w),
         OwnsAllClaims(job[w], ClaimState(job[w].replay))
  PROVE  /\ job' = [job EXCEPT ![w] = [job[w] EXCEPT !.pc = "writing"]]
         /\ inflight' = inflight \cup {RequestOf(job[w])}
         /\ UNCHANGED <<spool, effects, receipt, forced>>
         /\ \A r \in Held(job[w]) :
              /\ RowOf(r).digest = r /\ RowOf(r).token = job[w].tok[r]
              /\ RowOf(r).state = ClaimState(job[w].replay)
         /\ \A k \in Keys : k \notin KeysOf(Held(job[w])) => ledger'[k] = ledger[k]
         /\ \A k \in KeysOf(Held(job[w])) :
              /\ ledger'[k].digest = ledger[k].digest
              /\ ledger'[k].token = ledger[k].token
              /\ ledger'[k].state = IF job[w].replay THEN "replay_write_started"
                                    ELSE IF job[w].batch THEN "batch_write_started"
                                    ELSE "write_started"
              /\ ledger'[k].contract = IF job[w].replay THEN ledger[k].contract
                                       ELSE AttemptContract(job[w])
              /\ ledger'[k].batch = IF job[w].replay THEN ledger[k].batch ELSE job[w].batch
  <1> USE LedgerConstants
  <1>1. /\ job' = [job EXCEPT ![w] = [job[w] EXCEPT !.pc = "writing"]]
        /\ inflight' = inflight \cup {RequestOf(job[w])}
        /\ UNCHANGED <<spool, effects, receipt, forced>>
        /\ ledger' = WriteStarted(job[w])
    BY DEF StartWrite
  <1>2. \A r \in Held(job[w]) :
              /\ RowOf(r).digest = r /\ RowOf(r).token = job[w].tok[r]
              /\ RowOf(r).state = ClaimState(job[w].replay)
    BY DEF OwnsAllClaims, OwnsClaim, Owns
  <1>3. \A k \in Keys : k \notin KeysOf(Held(job[w])) => ledger'[k] = ledger[k]
    BY <1>1 DEF WriteStarted
  <1>4. ASSUME NEW k \in KeysOf(Held(job[w]))
        PROVE  /\ ledger'[k].digest = ledger[k].digest
               /\ ledger'[k].token = ledger[k].token
               /\ ledger'[k].state = IF job[w].replay THEN "replay_write_started"
                                     ELSE IF job[w].batch THEN "batch_write_started"
                                     ELSE "write_started"
               /\ ledger'[k].contract = IF job[w].replay THEN ledger[k].contract
                                        ELSE AttemptContract(job[w])
               /\ ledger'[k].batch = IF job[w].replay THEN ledger[k].batch ELSE job[w].batch
    <2>1. k \in Keys /\ ledger[k] \in Row
      BY DEF KeysOf, Held, IInv, TypeOK
    <2>2. CASE job[w].replay
      <3>1. ledger'[k] = StartReplayRow(ledger[k])
        BY <1>1, <2>1, <2>2 DEF WriteStarted
      <3> QED BY <2>1, <2>2, <3>1 DEF StartReplayRow, Moved, Row
    <2>3. CASE ~job[w].replay
      <3>1. ledger'[k] = StartWriteRow(ledger[k], job[w].batch, AttemptContract(job[w]))
        BY <1>1, <2>1, <2>3 DEF WriteStarted
      <3> HIDE DEF AttemptContract
      <3> QED BY <2>1, <2>3, <3>1 DEF StartWriteRow, Moved, Row
    <2> QED BY <2>2, <2>3
  <1> QED BY <1>1, <1>2, <1>3, <1>4

\* A row has one worker that can own it.
LEMMA OneOwner ==
  ASSUME IInv, NEW v \in Workers, NEW w \in Workers, NEW r \in Records, NEW s \in Records,
         KeyOf[s] = KeyOf[r],
         job[w].tok[r] > 0, job[w].tok[r] = RowOf(r).token,
         RowOf(s).digest = s, job[v].tok[s] = RowOf(s).token
  PROVE  s = r /\ v = w
  <1>1. RowOf(r).digest = r /\ RowOf(s) = RowOf(r)
    BY DEF IInv, TokenBound, RowOf
  <1>2. s = r
    BY <1>1
  <1> QED BY <1>1, <1>2 DEF IInv, UniqueHolder

\* A fenced transition touches the rows of its own worker.
LEMMA OthersRows ==
  ASSUME IInv, NEW v \in Workers, NEW w \in Workers, v # w, NEW r \in Records,
         job[w].tok[r] > 0, job[w].tok[r] = RowOf(r).token,
         NEW S \in SUBSET Records, \A s \in S : RowOf(s).digest = s /\ job[v].tok[s] = RowOf(s).token,
         NEW state, ledger' = Transition(S, state)
  PROVE  RowOf(r)' = RowOf(r)
  <1>1. KeyOf[r] \in Keys
    BY LedgerConstants
  <1>2. KeyOf[r] \notin KeysOf(S)
    BY OneOwner DEF KeysOf
  <1> QED BY <1>1, <1>2 DEF Transition, RowOf

\* What a step may never do to the row of a worker that did not take it.
LeavesOutcomes ==
    \A w \in Workers, r \in Records :
       /\ job[w].tok[r] > 0
       /\ job[w].tok[r] = RowOf(r).token
       /\ job'[w] = job[w]
       /\ RowOf(r)'.token = RowOf(r).token
       => RowOf(r)'.state = RowOf(r).state

LEMMA OwnedStep == IInv /\ [Next]_vars => [LeavesOutcomes]_vars
  <1> SUFFICES ASSUME IInv, Next, NEW w \in Workers, NEW r \in Records,
                      job[w].tok[r] > 0, job[w].tok[r] = RowOf(r).token,
                      job'[w] = job[w], RowOf(r)'.token = RowOf(r).token
               PROVE  RowOf(r)'.state = RowOf(r).state
    BY DEF LeavesOutcomes
  <1> USE LedgerConstants
  <1>t. /\ TypeOK /\ KeyOf[r] \in Keys /\ RowOf(r).token \in Nat
        /\ \A v \in Workers : job[v] \in Job /\ job[v] \in JobFields
    BY DEF IInv, TypeOK, RowOf, Row, Job
  <1>s. ASSUME UNCHANGED ledger PROVE RowOf(r)'.state = RowOf(r).state
    BY <1>s DEF RowOf
  <1>p. ASSUME NEW v \in Workers, NEW j, job' = [job EXCEPT ![v] = j], j.pc # job[v].pc
        PROVE  v # w
    BY <1>p, <1>t DEF TypeOK
  <1>1. ASSUME NEW v \in Workers, NEW S \in SUBSET Records, Deliver(v, S)
        PROVE  RowOf(r)'.state = RowOf(r).state
    BY <1>1, <1>t, DeliverRows DEF RowOf
  <1>2. ASSUME NEW v \in Workers, Rearm(v) PROVE RowOf(r)'.state = RowOf(r).state
    <2>1. PICK s \in Records : s = job[v].cur
      BY <1>2, <1>t DEF Rearm, Job
    <2>2. CASE Rearms(v)
      BY <1>2, <1>t, <2>1, <2>2, RearmRows DEF RowOf
    <2>3. CASE ~Rearms(v)
      BY <1>2, <1>s, <2>3 DEF Rearm, Rearms
    <2> QED BY <2>2, <2>3
  <1>3. ASSUME NEW v \in Workers, StartWrite(v) PROVE RowOf(r)'.state = RowOf(r).state
    <2>1. CASE OwnsAllClaims(job[v], ClaimState(job[v].replay))
      <3> DEFINE j == [job[v] EXCEPT !.pc = "writing"]
      <3>1. job' = [job EXCEPT ![v] = j]
        BY <1>3, <2>1, StartRows
      <3>2. j.pc # job[v].pc
        BY <1>3, <1>t DEF StartWrite, JobFields
      <3> HIDE DEF j
      <3>3. v # w
        BY <3>1, <3>2, <1>p
      <3>4. \A s \in Held(job[v]) :
              s \in Records /\ RowOf(s).digest = s /\ RowOf(s).token = job[v].tok[s]
        BY <1>3, <2>1, StartRows DEF Held
      <3>5. KeyOf[r] \notin KeysOf(Held(job[v]))
        BY <3>3, <3>4, OneOwner DEF KeysOf
      <3> QED BY <1>3, <1>t, <2>1, <3>5, StartRows DEF RowOf
    <2>2. CASE ~OwnsAllClaims(job[v], ClaimState(job[v].replay))
      BY <1>3, <1>s, <2>2 DEF StartWrite
    <2> QED BY <2>1, <2>2
  <1>4. ASSUME NEW v \in Workers, MarkRejected(v) PROVE RowOf(r)'.state = RowOf(r).state
    <2>1. PICK s \in Records : s = job[v].cur
      BY <1>4, <1>t DEF MarkRejected, Job
    <2>2. CASE UNCHANGED ledger
      BY <1>s, <2>2
    <2>3. CASE ledger' # ledger
      <3> DEFINE j == Continue(Drop(job[v], s))
                 state == QuarantinedState(job[v].replay)
      <3>1. /\ job' = [job EXCEPT ![v] = j] /\ job[v].pc = "rejecting"
            /\ ledger' = Transition({s}, state)
            /\ RowOf(s).digest = s /\ job[v].tok[s] = RowOf(s).token
        BY <1>4, <2>1, <2>3 DEF MarkRejected, OwnsClaim, Owns
      <3>2. j.pc \in {"claimed", "idle"}
        BY <1>t DEF Continue, Drop, IdleJob, JobFields
      <3> HIDE DEF j, state
      <3>3. v # w
        BY <3>1, <3>2, <1>p
      <3> QED BY <3>1, <3>3, OthersRows
    <2> QED BY <2>2, <2>3
  <1>5. ASSUME NEW v \in Workers, Acked(v) \/ MarkRolledBack(v) \/ MarkUnknown(v)
        PROVE  RowOf(r)'.state = RowOf(r).state
    <2>1. CASE UNCHANGED ledger
      BY <1>s, <2>1
    <2>2. CASE ledger' # ledger
      <3>1. /\ OwnsAll(job[v], WriteState(job[v].batch, job[v].replay))
            /\ \E state : ledger' = Transition(Held(job[v]), state)
            /\ \E j : job' = [job EXCEPT ![v] = j] /\ j.pc # job[v].pc
        <4>1. CASE Acked(v)
          <5> DEFINE j == [job[v] EXCEPT !.pc = "cleanup"]
          <5>1. job' = [job EXCEPT ![v] = j] /\ job[v].pc = "writing"
            BY <2>2, <4>1 DEF Acked
          <5>2. j.pc # job[v].pc
            BY <1>t, <5>1 DEF JobFields
          <5> HIDE DEF j
          <5> QED BY <2>2, <4>1, <5>1, <5>2 DEF Acked
        <4>2. CASE MarkRolledBack(v) \/ MarkUnknown(v)
          <5>1. job' = [job EXCEPT ![v] = IdleJob] /\ job[v].pc # IdleJob.pc
            BY <4>2 DEF MarkRolledBack, MarkUnknown, MarkFailed, IdleJob
          <5> QED BY <2>2, <4>2, <5>1 DEF MarkRolledBack, MarkUnknown, MarkFailed
        <4> QED BY <1>5, <4>1, <4>2
      <3>2. v # w
        BY <3>1, <1>p
      <3>3. \A s \in Held(job[v]) :
              s \in Records /\ RowOf(s).digest = s /\ job[v].tok[s] = RowOf(s).token
        BY <3>1 DEF OwnsAll, Owns, Held
      <3> QED BY <3>1, <3>2, <3>3, OthersRows
    <2> QED BY <2>1, <2>2
  <1>6. ASSUME NEW k \in Keys, Expire(k) PROVE RowOf(r)'.state = RowOf(r).state
    BY <1>6, <1>t DEF Expire, RowOf, TypeOK, Row
  <1>7. CASE UNCHANGED ledger
    BY <1>7, <1>s
  <1> QED BY <1>1, <1>2, <1>3, <1>4, <1>5, <1>6, <1>7
          DEF Next, DeliveryNext, Proceed, Replay, ReplayCommitted, SpoolAmbiguous, Reject,
              Unspool, RolledBack, Unknown, Cleanup, Crash, Apply, Reconfigure

\* The outcome of an attempt is its worker's to record: no step of another
\* worker, of the destination or of the clock settles a row whose token a
\* worker still holds (_transition, claim_token).
THEOREM OutcomeIsOwned == Spec => OutcomeOwned
  <1>1. Spec => [][LeavesOutcomes]_vars
    BY IInvInit, IInvStep, OwnedStep, PTL DEF Spec
  <1> QED BY <1>1 DEF OutcomeOwned, LeavesOutcomes

-----------------------------------------------------------------------------
(* What is recorded, sealed and returned.                                  *)

WaitingStates == {"quarantined", "uncertain", "batch_uncertain", "replay_quarantined",
                  "replay_uncertain"}

Bound(r) == RowOf(r).digest = r
Done(r) == RowOf(r).state = "committed" /\ RowOf(r).digest = r
Waiting(r) == RowOf(r).state \in WaitingStates /\ RowOf(r).digest = r

\* Once sealed, a record leaves the spool only when it is committed.
Sealed(r) == r \in spool \/ Done(r)

\* What a worker knows of its records, by where it is: the ambiguous ones exist,
\* a rejected or failed one is sealed, the others were seen committed.
JobTrue(j) ==
    /\ \A r \in j.amb : Bound(r)
    /\ j.pc = "rejecting" => Sealed(j.cur)
    /\ j.pc = "unspool" => Done(j.cur)
    /\ j.pc \in {"rolledback", "unknown"} => \A r \in Held(j) : Sealed(r)
    /\ j.pc = "cleanup" => \A r \in Held(j) : Done(r)
    /\ j.pc = "rearm" => j.exp \notin {"absent", "committed"}

\* A request that is no longer open, of a worker that was not told of a
\* rollback, was applied.
WriteTrue(j) ==
    j.pc = "writing" /\ RequestOf(j) \notin inflight =>
        \A r \in Held(j) : effects[r][WriteKey(j)] > 0

OInv == /\ IInv
        /\ \A w \in Workers : JobTrue(job[w])
        /\ \A w \in Workers : WriteTrue(job[w])
        /\ NothingLost
        /\ SpoolBound
        /\ ReceiptTruth
        /\ CommittedApplied

\* What every step does to the rows, the spool, the receipts and the effects.
RowsProceed ==
    \A r \in Records :
        /\ Bound(r) => Bound(r)'
        /\ Done(r) => Done(r)'
        /\ Waiting(r)' => Waiting(r) \/ r \in spool'
        /\ Done(r)' => Done(r) \/ \E c \in Contracts \cup {NoContract} : effects[r][c] > 0

SpoolProceeds ==
    \A r \in Records :
        /\ r \in spool => r \in spool' \/ Done(r)
        /\ r \in spool' => r \in spool \/ Bound(r)

ReceiptsProceed ==
    \A r \in Records :
        receipt'[r].status \in {"delivered", "duplicate"} =>
            receipt'[r] = receipt[r] \/ Done(r)'

EffectsProceed ==
    \A r \in Records, c \in Contracts \cup {NoContract} :
        effects[r][c] > 0 => effects'[r][c] > 0

Progress == RowsProceed /\ SpoolProceeds /\ ReceiptsProceed /\ EffectsProceed

\* Such a step keeps what the ledger, the spool and the receipts say.
LEMMA ProgressKeeps ==
  ASSUME OInv, TypeOK', Progress
  PROVE  NothingLost' /\ SpoolBound' /\ ReceiptTruth' /\ CommittedApplied'
  <1>1. NothingLost'
    <2> SUFFICES ASSUME NEW r \in Records, Waiting(r)' PROVE r \in spool'
      BY DEF NothingLost, Waiting, WaitingStates
    <2>1. CASE Waiting(r)
      <3>1. r \in spool
        BY <2>1 DEF OInv, NothingLost, Waiting, WaitingStates
      <3>2. ~Done(r)
        BY <2>1 DEF Waiting, WaitingStates, Done
      <3> QED BY <3>1, <3>2 DEF Progress, SpoolProceeds
    <2> QED BY <2>1 DEF Progress, RowsProceed
  <1>2. SpoolBound'
    <2> SUFFICES ASSUME NEW r \in spool' PROVE Bound(r)'
      BY DEF SpoolBound, Bound
    <2>1. r \in Records
      BY DEF TypeOK
    <2>2. r \in spool => Bound(r)
      BY DEF OInv, SpoolBound, Bound
    <2> QED BY <2>1, <2>2 DEF Progress, SpoolProceeds, RowsProceed
  <1>3. ReceiptTruth'
    <2> SUFFICES ASSUME NEW r \in Records, receipt'[r].status \in {"delivered", "duplicate"}
                 PROVE  Done(r)'
      BY DEF ReceiptTruth, Done
    <2>1. receipt'[r] = receipt[r] => Done(r)
      BY DEF OInv, ReceiptTruth, Done
    <2> QED BY <2>1 DEF Progress, ReceiptsProceed, RowsProceed
  <1>4. CommittedApplied'
    <2> SUFFICES ASSUME NEW r \in Records, Done(r)'
                 PROVE  \E c \in Contracts \cup {NoContract} : effects'[r][c] > 0
      BY DEF CommittedApplied, Done
    <2>1. \E c \in Contracts \cup {NoContract} : effects[r][c] > 0
      BY DEF OInv, CommittedApplied, Done, Progress, RowsProceed
    <2> QED BY <2>1 DEF Progress, EffectsProceed
  <1> QED BY <1>1, <1>2, <1>3, <1>4

\* What a worker knows stays true.
LEMMA JobPersists ==
  ASSUME Progress, NEW j \in Job, JobTrue(j)
  PROVE  JobTrue(j)'
  <1>1. \A r \in Records : (Bound(r) => Bound(r)') /\ (Done(r) => Done(r)')
    BY DEF Progress, RowsProceed
  <1>2. \A r \in Records : Sealed(r) => Sealed(r)'
    BY <1>1 DEF Progress, SpoolProceeds, Sealed
  <1>3. /\ j.amb \subseteq Records /\ Held(j) \subseteq Records
        /\ j.pc \in {"rejecting", "unspool"} => j.cur \in Records
    BY DEF Job, JobFields, Held
  <1>4. Held(j)' = Held(j)
    BY DEF Held
  <1> QED BY <1>1, <1>2, <1>3, <1>4 DEF JobTrue

\* A step of one worker that opens or keeps every request.
LEMMA WorkerStep ==
  ASSUME OInv, IInv', Progress, NEW w \in Workers, NEW j,
         job' = [job EXCEPT ![w] = j], JobTrue(j)',
         inflight \subseteq inflight',
         j.pc = "writing" => RequestOf(j) \in inflight'
  PROVE  OInv'
  <1>t. job \in [Workers -> Job] /\ TypeOK'
    BY DEF OInv, IInv, TypeOK
  <1>1. job'[w] = j /\ \A v \in Workers : v # w => job'[v] = job[v]
    BY <1>t
  <1>2. ASSUME NEW v \in Workers PROVE JobTrue(job[v])'
    <2>1. CASE v = w
      BY <1>1, <2>1
    <2>2. CASE v # w
      <3>1. JobTrue(job[v]) /\ job[v] \in Job
        BY <1>t DEF OInv
      <3>2. \A i \in Job : JobTrue(i) => JobTrue(i)'
        BY JobPersists
      <3> QED BY <1>1, <2>2, <3>1, <3>2 DEF JobTrue, Held
    <2> QED BY <2>1, <2>2
  <1>3. ASSUME NEW v \in Workers PROVE WriteTrue(job[v])'
    <2>1. CASE v = w
      BY <1>1, <2>1 DEF WriteTrue, RequestOf, WriteKey
    <2>2. CASE v # w
      <3>1. WriteTrue(job[v]) /\ job'[v] = job[v] /\ job[v] \in Job
        BY <1>1, <1>t, <2>2 DEF OInv
      <3>2. \A r \in Held(job[v]) : r \in Records /\ WriteKey(job[v]) \in Contracts \cup {NoContract}
        BY <3>1 DEF Held, WriteKey, Job, JobFields, Capabilities
      <3>3. \A r \in Held(job[v]) :
              effects[r][WriteKey(job[v])] > 0 => effects'[r][WriteKey(job[v])] > 0
        BY <3>2 DEF Progress, EffectsProceed
      <3> QED BY <3>1, <3>3 DEF WriteTrue, RequestOf, WriteKey, Held
    <2> QED BY <2>1, <2>2
  <1> QED BY <1>2, <1>3, <1>t, ProgressKeeps DEF OInv

\* The parts of progress, one lemma per way the code changes them.
LEMMA SameLedger ==
  ASSUME UNCHANGED ledger
  PROVE  /\ RowsProceed
         /\ \A r : (Bound(r)' <=> Bound(r)) /\ (Done(r)' <=> Done(r))
  BY DEF RowsProceed, Bound, Done, Waiting, RowOf

LEMMA MovedProceed ==
  ASSUME TypeOK, NEW S \in SUBSET Records, NEW state, ledger' = Transition(S, state),
         \A r \in S : Bound(r) /\ ~Done(r),
         state \in WaitingStates => S \subseteq spool',
         state = "committed" =>
           \A r \in S : \E c \in Contracts \cup {NoContract} : effects[r][c] > 0
  PROVE  /\ RowsProceed
         /\ \A r \in S : RowOf(r)'.state = state /\ Bound(r)'
  <1>1. \A r \in Records : KeyOf[r] \in Keys /\ RowOf(r) \in Row
    BY LedgerConstants DEF TypeOK, RowOf
  <1>2. ASSUME NEW r \in S
        PROVE  RowOf(r)'.state = state /\ RowOf(r)'.digest = RowOf(r).digest
    <2>1. RowOf(r)' = Moved(RowOf(r), state)
      BY <1>1 DEF Transition, RowOf, KeysOf
    <2> QED BY <1>1, <2>1 DEF Moved, Row
  <1>3. ASSUME NEW r \in Records, r \notin S
        PROVE  /\ Bound(r)' <=> Bound(r)
               /\ Bound(r) => RowOf(r)' = RowOf(r)
    <2>1. CASE KeyOf[r] \in KeysOf(S)
      <3>1. PICK s \in S : KeyOf[s] = KeyOf[r]
        BY <2>1 DEF KeysOf
      <3>2. RowOf(r) = RowOf(s) /\ RowOf(r)' = RowOf(s)' /\ RowOf(s)'.digest = RowOf(s).digest
        BY <1>2, <3>1 DEF RowOf
      <3>3. ~Bound(r)
        BY <1>3, <3>1, <3>2 DEF Bound
      <3> QED BY <3>2, <3>3 DEF Bound
    <2>2. CASE KeyOf[r] \notin KeysOf(S)
      BY <1>1, <2>2 DEF Transition, RowOf, Bound
    <2> QED BY <2>1, <2>2
  <1>4. ASSUME NEW r \in Records
        PROVE  /\ Bound(r) => Bound(r)'
               /\ Done(r) => Done(r)'
               /\ Waiting(r)' => Waiting(r) \/ r \in spool'
               /\ Done(r)' => Done(r) \/ \E c \in Contracts \cup {NoContract} : effects[r][c] > 0
    <2>1. CASE r \in S
      BY <1>2, <2>1 DEF Bound, Done, Waiting
    <2>2. CASE r \notin S
      BY <1>3, <2>2 DEF Bound, Done, Waiting
    <2> QED BY <2>1, <2>2
  <1> QED BY <1>2, <1>4 DEF RowsProceed, Bound

LEMMA FreshProceed ==
  ASSUME \A k \in Keys :
           \/ ledger'[k] = ledger[k]
           \/ /\ ledger[k].digest \in {NoRecord, ledger'[k].digest}
              /\ ledger[k].state # "committed"
              /\ ledger'[k].state \notin WaitingStates \cup {"committed"}
  PROVE  RowsProceed
  <1> SUFFICES ASSUME NEW r \in Records
               PROVE  /\ Bound(r) => Bound(r)'
                      /\ Done(r) => Done(r)'
                      /\ Waiting(r)' => Waiting(r)
                      /\ Done(r)' => Done(r)
    BY DEF RowsProceed
  <1>1. KeyOf[r] \in Keys /\ r # NoRecord
    BY LedgerConstants
  <1> QED BY <1>1 DEF Bound, Done, Waiting, RowOf

LEMMA SealedProceed ==
  ASSUME NEW S, QuarantineMany(S), \A r \in S : Bound(r)
  PROVE  SpoolProceeds /\ S \subseteq spool'
  BY DEF SpoolProceeds

LEMMA RemovedProceed ==
  ASSUME NEW S, RemoveMany(S), \A r \in S : Done(r)
  PROVE  SpoolProceeds
  BY DEF SpoolProceeds

LEMMA ReturnedProceed ==
  ASSUME NEW S, NEW status, NEW safe, receipt' = Returned(S, status, safe),
         status \in {"delivered", "duplicate"} => \A r \in S : Done(r)'
  PROVE  ReceiptsProceed
  <1> SUFFICES ASSUME NEW r \in Records, receipt'[r].status \in {"delivered", "duplicate"}
               PROVE  receipt'[r] = receipt[r] \/ Done(r)'
    BY DEF ReceiptsProceed
  <1>1. receipt'[r] = IF r \in S THEN [status |-> status, safe |-> safe] ELSE receipt[r]
    BY DEF Returned
  <1> QED BY <1>1

\* A worker that has nothing to do knows nothing; what is left of a call knows
\* no more than the call did.
LEMMA IdleTrue == JobTrue(IdleJob) /\ JobTrue(IdleJob)'
  BY DEF JobTrue, IdleJob

LEMMA ContinueTrue ==
  ASSUME NEW j, JobTrue(j)'
  PROVE  JobTrue(Continue(j))'
  BY IdleTrue DEF Continue

LEMMA DropTrue ==
  ASSUME NEW j \in Job, NEW r, \A s \in j.amb : Bound(s)'
  PROVE  JobTrue(Continue(Drop(j, r)))'
  <1>1. Drop(j, r).amb = j.amb /\ Drop(j, r).pc = "claimed"
    BY DEF Drop, Job, JobFields
  <1>2. JobTrue(Drop(j, r))'
    BY <1>1 DEF JobTrue
  <1> QED BY <1>2, ContinueTrue

\* The steps of a worker before the write boundary, one case per action.
LEMMA BeforeWriteStep ==
  ASSUME OInv, IInv', NEW w \in Workers,
         \/ \E r \in Records : SpoolAmbiguous(w, r)
         \/ \E r \in Records, changed \in BOOLEAN : Reject(w, r, changed)
         \/ MarkRejected(w) \/ Unspool(w)
  PROVE  OInv'
  <1> USE LedgerConstants
  <1> PICK i : i = job[w]
    OBVIOUS
  <1>t. IInv /\ TypeOK /\ i \in Job /\ i \in JobFields /\ JobTrue(i)
    BY DEF OInv, IInv, TypeOK, Job
  <1>b. \A r \in Records : i.tok[r] > 0 => Bound(r)
    BY <1>t DEF IInv, TokenBound, Bound
  <1>e. ASSUME UNCHANGED effects PROVE EffectsProceed
    BY <1>e DEF EffectsProceed
  <1>r. ASSUME UNCHANGED receipt PROVE ReceiptsProceed
    BY <1>r DEF ReceiptsProceed
  <1>s. ASSUME UNCHANGED spool PROVE SpoolProceeds
    BY <1>s DEF SpoolProceeds
  <1>1. ASSUME NEW r \in Records, SpoolAmbiguous(w, r) PROVE OInv'
    <2> PICK j : j = [i EXCEPT !.amb = @ \ {r}]
      OBVIOUS
    <2>1. j.amb = i.amb \ {r} /\ j.pc = "claimed" /\ r \in i.amb
      BY <1>1, <1>t DEF SpoolAmbiguous, JobFields
    <2>2. Progress
      <3>1. SpoolProceeds
        BY <1>1, <1>t, <2>1, SealedProceed DEF SpoolAmbiguous, JobTrue
      <3>2. ReceiptsProceed
        BY <1>1, ReturnedProceed DEF SpoolAmbiguous
      <3> QED BY <1>1, <1>e, <3>1, <3>2, SameLedger DEF SpoolAmbiguous, Progress
    <2>3. JobTrue(i)'
      BY <1>t, <2>2, JobPersists
    <2>4. JobTrue(j)'
      BY <2>1, <2>3 DEF JobTrue
    <2>5. JobTrue(Continue(j))' /\ Continue(j).pc # "writing"
      BY <2>1, <2>4, ContinueTrue DEF Continue, IdleJob
    <2>6. job' = [job EXCEPT ![w] = Continue(j)] /\ UNCHANGED inflight
      BY <1>1 DEF SpoolAmbiguous
    <2> QED BY <2>2, <2>5, <2>6, WorkerStep
  <1>2. ASSUME NEW r \in Records, NEW changed \in BOOLEAN, Reject(w, r, changed) PROVE OInv'
    <2> PICK j : j = [i EXCEPT !.pc = "rejecting", !.cur = r, !.dropped = changed]
      OBVIOUS
    <2>1. j.amb = i.amb /\ j.pc = "rejecting" /\ j.cur = r
      BY <1>t DEF JobFields
    <2>2. /\ job' = [job EXCEPT ![w] = j] /\ i.tok[r] > 0 /\ QuarantineMany({r})
          /\ UNCHANGED <<ledger, effects, inflight, receipt>>
      BY <1>2 DEF Reject
    <2>3. SpoolProceeds /\ r \in spool'
      <3>1. Bound(r)
        BY <1>b, <2>2
      <3> QED BY <2>2, <3>1 DEF SpoolProceeds
    <2>4. Progress
      BY <1>e, <1>r, <2>2, <2>3, SameLedger DEF Progress
    <2>5. JobTrue(i)'
      BY <1>t, <2>4, JobPersists
    <2>6. JobTrue(j)' /\ j.pc # "writing"
      BY <2>1, <2>3, <2>5 DEF JobTrue, Sealed
    <2> QED BY <2>2, <2>4, <2>6, WorkerStep
  <1>3. ASSUME MarkRejected(w) PROVE OInv'
    <2>1. PICK r \in Records : r = i.cur
      BY <1>3, <1>t DEF MarkRejected, Job
    <2>2. i.pc = "rejecting" /\ Sealed(r) /\ UNCHANGED <<spool, effects, inflight>>
      BY <1>3, <1>t, <2>1 DEF MarkRejected, JobTrue
    <2>3. ASSUME Progress, job' = [job EXCEPT ![w] = Continue(Drop(i, r))] PROVE OInv'
      <3> PICK j : j = Continue(Drop(i, r))
        OBVIOUS
      <3>1. JobTrue(i)'
        BY <1>t, <2>3, JobPersists
      <3>2. JobTrue(j)'
        BY <1>t, <3>1, DropTrue DEF JobTrue
      <3>3. j.pc # "writing"
        BY <1>t DEF Continue, Drop, IdleJob, JobFields
      <3> QED BY <2>2, <2>3, <3>2, <3>3, WorkerStep
    <2>4. CASE /\ OwnsClaim(RowOf(r), r, i.tok[r], ClaimState(i.replay))
               /\ ledger' = Transition({r}, QuarantinedState(i.replay))
               /\ job' = [job EXCEPT ![w] = Continue(Drop(i, r))]
               /\ receipt' = Returned({r}, "quarantined", RejectSafe(i))
      <3>1. Bound(r) /\ ~Done(r)
        BY <2>4 DEF OwnsClaim, Owns, ClaimState, Bound, Done
      <3>2. QuarantinedState(i.replay) # "committed" /\ r \in spool'
        BY <2>2, <3>1 DEF QuarantinedState, Sealed
      <3>3. RowsProceed
        BY <1>t, <2>4, <3>1, <3>2, MovedProceed
      <3>4. ReceiptsProceed
        BY <2>4, ReturnedProceed
      <3> QED BY <1>e, <1>s, <2>2, <2>3, <2>4, <3>3, <3>4 DEF Progress
    <2>5. CASE /\ UNCHANGED ledger
               /\ job' = [job EXCEPT ![w] = Continue(Drop(i, r))]
               /\ receipt' = Returned({r}, "ambiguous", FALSE)
      <3>1. ReceiptsProceed
        BY <2>5, ReturnedProceed
      <3> QED BY <1>e, <1>s, <2>2, <2>3, <2>5, <3>1, SameLedger DEF Progress
    <2>6. CASE /\ RowOf(r).state = "committed" /\ UNCHANGED <<ledger, receipt>>
               /\ job' = [job EXCEPT ![w] = [i EXCEPT !.pc = "unspool"]]
      <3> PICK j : j = [i EXCEPT !.pc = "unspool"]
        OBVIOUS
      <3>1. j.amb = i.amb /\ j.pc = "unspool" /\ j.cur = r
        BY <1>t, <2>1 DEF JobFields
      <3>2. Progress
        BY <1>e, <1>s, <1>r, <2>2, <2>6, SameLedger DEF Progress
      <3>3. JobTrue(i)' /\ Done(r)'
        <4>1. Bound(r)
          BY <2>2 DEF Sealed, Done, Bound, OInv, SpoolBound
        <4>2. Done(r)
          BY <2>6, <4>1 DEF Done, Bound
        <4> QED BY <1>t, <2>6, <3>2, <4>2, JobPersists, SameLedger
      <3>4. JobTrue(j)'
        BY <3>1, <3>3 DEF JobTrue
      <3> QED BY <2>2, <2>6, <3>1, <3>2, <3>4, WorkerStep
    <2> QED BY <1>3, <2>1, <2>4, <2>5, <2>6 DEF MarkRejected
  <1>4. ASSUME Unspool(w) PROVE OInv'
    <2>1. PICK r \in Records : r = i.cur
      BY <1>4, <1>t DEF Unspool, Job
    <2> PICK j : j = Continue(Drop(i, r))
      OBVIOUS
    <2>2. /\ job' = [job EXCEPT ![w] = j] /\ RemoveMany({r}) /\ Done(r)
          /\ receipt' = Returned({r}, "duplicate", FALSE)
          /\ UNCHANGED <<ledger, effects, inflight>>
      BY <1>4, <1>t, <2>1 DEF Unspool, JobTrue
    <2>3. Progress
      <3>1. SpoolProceeds
        BY <2>2, RemovedProceed
      <3>2. Done(r)'
        BY <2>2, SameLedger
      <3>3. ReceiptsProceed
        BY <2>2, <3>2, ReturnedProceed
      <3> QED BY <1>e, <2>2, <3>1, <3>3, SameLedger DEF Progress
    <2>4. JobTrue(i)'
      BY <1>t, <2>3, JobPersists
    <2>5. JobTrue(j)'
      BY <1>t, <2>4, DropTrue DEF JobTrue
    <2>6. j.pc # "writing"
      BY <1>t DEF Continue, Drop, IdleJob, JobFields
    <2> QED BY <2>2, <2>3, <2>5, <2>6, WorkerStep
  <1> QED BY <1>1, <1>2, <1>3, <1>4

\* From the write boundary to the receipt, one case per action.
LEMMA WriteStepKeeps ==
  ASSUME OInv, IInv', NEW w \in Workers,
         \/ StartWrite(w) \/ Acked(w) \/ Unknown(w)
         \/ MarkRolledBack(w) \/ MarkUnknown(w) \/ Cleanup(w)
  PROVE  OInv'
  <1> USE LedgerConstants
  <1> PICK i : i = job[w]
    OBVIOUS
  <1>t. /\ IInv /\ TypeOK /\ i \in Job /\ i \in JobFields /\ JobTrue(i) /\ WriteTrue(i)
        /\ Held(i) \in SUBSET Records /\ WriteKey(i) \in Contracts \cup {NoContract}
    BY RequestType DEF OInv, IInv, TypeOK, Job, JobFields, Capabilities, WriteKey
  <1>b. \A r \in Held(i) : Bound(r)
    BY <1>t DEF IInv, TokenBound, Bound, Held
  <1>e. ASSUME UNCHANGED effects PROVE EffectsProceed
    BY <1>e DEF EffectsProceed
  <1>r. ASSUME UNCHANGED receipt PROVE ReceiptsProceed
    BY <1>r DEF ReceiptsProceed
  <1>s. ASSUME UNCHANGED spool PROVE SpoolProceeds
    BY <1>s DEF SpoolProceeds
  <1>q. ASSUME QuarantineMany(Held(i))
        PROVE  SpoolProceeds /\ Held(i) \subseteq spool'
    BY <1>b, <1>q DEF SpoolProceeds
  <1>i. ASSUME Progress, job' = [job EXCEPT ![w] = IdleJob], UNCHANGED inflight
        PROVE  OInv'
    <2>1. IdleJob.pc # "writing"
      BY DEF IdleJob
    <2> QED BY <1>i, <2>1, IdleTrue, WorkerStep
  <1>1. ASSUME StartWrite(w) PROVE OInv'
    <2>1. CASE OwnsAllClaims(i, ClaimState(i.replay))
      <3> PICK j : j = [i EXCEPT !.pc = "writing"]
        OBVIOUS
      <3>1. /\ job' = [job EXCEPT ![w] = j] /\ inflight' = inflight \cup {RequestOf(i)}
            /\ UNCHANGED <<spool, effects, receipt>>
        BY <1>1, <1>t, <2>1, StartRows
      <3>2. j.amb = i.amb /\ j.pc = "writing" /\ RequestOf(j) = RequestOf(i)
        BY <1>t DEF JobFields, RequestOf, WriteKey
      <3>3. ASSUME NEW k \in Keys
            PROVE  \/ ledger'[k] = ledger[k]
                   \/ /\ ledger[k].digest \in {NoRecord, ledger'[k].digest}
                      /\ ledger[k].state # "committed"
                      /\ ledger'[k].state \notin WaitingStates \cup {"committed"}
        <4>1. CASE k \in KeysOf(Held(i))
          <5>1. PICK r \in Held(i) : KeyOf[r] = k
            BY <4>1 DEF KeysOf
          <5>2. ledger[k].state = ClaimState(i.replay)
            BY <1>1, <1>t, <2>1, <5>1, StartRows DEF RowOf
          <5>3. /\ ledger'[k].digest = ledger[k].digest
                /\ ledger'[k].state \in {"replay_write_started", "batch_write_started",
                                         "write_started"}
            BY <1>1, <1>t, <2>1, <4>1, StartRows
          <5> QED BY <5>2, <5>3 DEF ClaimState, WaitingStates
        <4>2. CASE k \notin KeysOf(Held(i))
          BY <1>1, <1>t, <2>1, <4>2, StartRows
        <4> QED BY <4>1, <4>2
      <3>4. Progress
        BY <1>e, <1>r, <1>s, <3>1, <3>3, FreshProceed DEF Progress
      <3>5. JobTrue(i)'
        BY <1>t, <3>4, JobPersists
      <3>6. JobTrue(j)'
        BY <3>2, <3>5 DEF JobTrue
      <3> QED BY <3>1, <3>2, <3>4, <3>6, WorkerStep
    <2>2. CASE ~OwnsAllClaims(i, ClaimState(i.replay))
      <3>1. /\ job' = [job EXCEPT ![w] = IdleJob]
            /\ receipt' = Returned(Held(i), "ambiguous", FALSE)
            /\ UNCHANGED <<ledger, spool, effects, inflight>>
        BY <1>1, <2>2 DEF StartWrite
      <3>2. ReceiptsProceed
        BY <3>1, ReturnedProceed
      <3> QED BY <1>e, <1>s, <1>i, <3>1, <3>2, SameLedger DEF Progress
    <2> QED BY <2>1, <2>2
  <1>2. ASSUME Acked(w) PROVE OInv'
    <2>1. \A r \in Held(i) : effects[r][WriteKey(i)] > 0
      BY <1>2, <1>t DEF Acked, WriteTrue
    <2>2. CASE /\ OwnsAll(i, WriteState(i.batch, i.replay))
               /\ ledger' = Transition(Held(i), "committed")
               /\ job' = [job EXCEPT ![w] = [i EXCEPT !.pc = "cleanup"]]
               /\ UNCHANGED <<spool, receipt, effects, inflight>>
      <3> PICK j : j = [i EXCEPT !.pc = "cleanup"]
        OBVIOUS
      <3>1. j.amb = i.amb /\ j.pc = "cleanup" /\ Held(j) = Held(i)
        BY <1>t DEF JobFields, Held
      <3>2. \A r \in Held(i) : Bound(r) /\ ~Done(r)
        BY <2>2 DEF OwnsAll, Owns, WriteState, Bound, Done
      <3>3. RowsProceed /\ \A r \in Held(i) : RowOf(r)'.state = "committed" /\ Bound(r)'
        <4>1. "committed" \notin WaitingStates
          BY DEF WaitingStates
        <4>2. \A r \in Held(i) : \E c \in Contracts \cup {NoContract} : effects[r][c] > 0
          BY <1>t, <2>1
        <4> QED BY <1>t, <2>2, <3>2, <4>1, <4>2, MovedProceed
      <3>4. Progress
        BY <1>e, <1>r, <1>s, <2>2, <3>3 DEF Progress
      <3>5. JobTrue(i)'
        BY <1>t, <3>4, JobPersists
      <3>6. \A r \in Held(i) : Done(r)'
        BY <3>3 DEF Done, Bound
      <3>7. Held(j)' = Held(j)
        BY DEF Held
      <3>8. JobTrue(j)'
        BY <3>1, <3>5, <3>6, <3>7 DEF JobTrue
      <3> QED BY <2>2, <3>1, <3>4, <3>8, WorkerStep
    <2>3. CASE /\ QuarantineMany(Held(i)) /\ job' = [job EXCEPT ![w] = IdleJob]
               /\ receipt' = Returned(Held(i), "ambiguous", ~i.batch /\ i.safe)
               /\ UNCHANGED <<ledger, effects, inflight>>
      <3>1. ReceiptsProceed
        BY <2>3, ReturnedProceed
      <3> QED BY <1>e, <1>q, <1>i, <2>3, <3>1, SameLedger DEF Progress
    <2> QED BY <1>2, <2>2, <2>3 DEF Acked
  <1>3. ASSUME Unknown(w) PROVE OInv'
    <2> PICK j : j = [i EXCEPT !.pc = "unknown"]
      OBVIOUS
    <2>1. j.amb = i.amb /\ j.pc = "unknown" /\ Held(j) = Held(i)
      BY <1>t DEF JobFields, Held
    <2>2. /\ job' = [job EXCEPT ![w] = j] /\ QuarantineMany(Held(i))
          /\ UNCHANGED <<ledger, effects, inflight, receipt>>
      BY <1>3 DEF Unknown
    <2>3. Progress /\ Held(i) \subseteq spool'
      BY <1>e, <1>q, <1>r, <2>2, SameLedger DEF Progress
    <2>4. JobTrue(i)'
      BY <1>t, <2>3, JobPersists
    <2>5. Held(j)' = Held(j)
      BY DEF Held
    <2>6. JobTrue(j)'
      BY <2>1, <2>3, <2>4, <2>5 DEF JobTrue, Sealed
    <2> QED BY <2>1, <2>2, <2>3, <2>6, WorkerStep
  <1>4. ASSUME MarkRolledBack(w) \/ MarkUnknown(w) PROVE OInv'
    <2>1. /\ i.pc \in {"rolledback", "unknown"} /\ job' = [job EXCEPT ![w] = IdleJob]
          /\ UNCHANGED <<spool, effects, inflight>>
      BY <1>4 DEF MarkRolledBack, MarkUnknown, MarkFailed
    <2>2. \/ UNCHANGED <<ledger, receipt>>
          \/ \E state \in WaitingStates : \E safe :
               /\ OwnsAll(i, WriteState(i.batch, i.replay))
               /\ ledger' = Transition(Held(i), state)
               /\ receipt' = Returned(Held(i), "quarantined", safe)
      <3>1. QuarantinedState(i.replay) \in WaitingStates
            /\ UncertainState(i.batch, i.replay) \in WaitingStates
        BY DEF QuarantinedState, UncertainState, WaitingStates
      <3> QED BY <1>4, <3>1 DEF MarkRolledBack, MarkUnknown, MarkFailed
    <2>3. CASE UNCHANGED <<ledger, receipt>>
      BY <1>e, <1>r, <1>s, <1>i, <2>1, <2>3, SameLedger DEF Progress
    <2>4. ASSUME NEW state \in WaitingStates, NEW safe,
                 OwnsAll(i, WriteState(i.batch, i.replay)),
                 ledger' = Transition(Held(i), state),
                 receipt' = Returned(Held(i), "quarantined", safe)
          PROVE  OInv'
      <3>1. \A r \in Held(i) : Bound(r) /\ ~Done(r)
        BY <2>4 DEF OwnsAll, Owns, WriteState, Bound, Done
      <3>2. Held(i) \subseteq spool'
        BY <1>t, <2>1, <3>1 DEF JobTrue, Sealed
      <3>3. state # "committed"
        BY DEF WaitingStates
      <3>4. RowsProceed
        BY <1>t, <2>4, <3>1, <3>2, <3>3, MovedProceed
      <3>5. ReceiptsProceed
        BY <2>4, ReturnedProceed
      <3> QED BY <1>e, <1>s, <1>i, <2>1, <3>4, <3>5 DEF Progress
    <2> QED BY <2>2, <2>3, <2>4
  <1>5. ASSUME Cleanup(w) PROVE OInv'
    <2>1. /\ RemoveMany(Held(i)) /\ job' = [job EXCEPT ![w] = IdleJob]
          /\ receipt' = Returned(Held(i), "delivered", FALSE)
          /\ UNCHANGED <<ledger, effects, inflight>>
          /\ \A r \in Held(i) : Done(r)
      BY <1>5, <1>t DEF Cleanup, JobTrue
    <2>2. SpoolProceeds
      BY <2>1 DEF SpoolProceeds
    <2>3. \A r \in Held(i) : Done(r)'
      BY <2>1, SameLedger
    <2>4. ReceiptsProceed
      BY <2>1, <2>3, ReturnedProceed
    <2> QED BY <1>e, <1>i, <2>1, <2>2, <2>4, SameLedger DEF Progress
  <1> QED BY <1>1, <1>2, <1>3, <1>4, <1>5

\* A step that leaves every worker where it is and every request open.
LEMMA StillStep ==
  ASSUME OInv, IInv', Progress, UNCHANGED job, \A w \in Workers : WriteTrue(job[w])'
  PROVE  OInv'
  <1>t. job \in [Workers -> Job] /\ TypeOK'
    BY DEF OInv, IInv, TypeOK
  <1>1. ASSUME NEW v \in Workers PROVE JobTrue(job[v])'
    <2>1. JobTrue(job[v]) /\ job[v] \in Job /\ job'[v] = job[v]
      BY <1>t DEF OInv
    <2>2. \A i \in Job : JobTrue(i) => JobTrue(i)'
      BY JobPersists
    <2> QED BY <2>1, <2>2 DEF JobTrue, Held
  <1> QED BY <1>1, <1>t, ProgressKeeps DEF OInv

\* A claim: ambiguous records have a row, and a duplicate is committed.
LEMMA DeliverKeeps ==
  ASSUME OInv, IInv', NEW w \in Workers, NEW S \in SUBSET Records, Deliver(w, S)
  PROVE  OInv'
  <1> USE LedgerConstants
  <1>t. IInv /\ TypeOK
    BY DEF OInv, IInv
  <1>1. RowsProceed
    <2>1. \A state \in PreWriteStates : state # "committed"
      BY DEF PreWriteStates
    <2>2. "claimed" \notin WaitingStates \cup {"committed"}
      BY DEF WaitingStates
    <2> QED BY <1>t, <2>1, <2>2, DeliverRows, FreshProceed
  <1>2. UNCHANGED <<spool, effects, inflight>>
    BY DEF Deliver
  <1>3. ReceiptsProceed
    <2> SUFFICES ASSUME NEW r \in Records,
                        receipt'[r].status \in {"delivered", "duplicate"},
                        receipt'[r] # receipt[r]
                 PROVE  Done(r)'
      BY DEF ReceiptsProceed
    <2>1. r \in S /\ receipt'[r] = ClaimReceipt(r)
      BY DEF Deliver
    <2>2. Disposition(RowOf(r)) = "already_committed"
      BY <2>1 DEF ClaimReceipt
    <2>3. RowOf(r).state = "committed"
      BY <2>2 DEF Disposition
    <2>4. Done(r)
      BY <2>1, <2>3 DEF Deliver, ReplayDetected, Done
    <2> QED BY <1>1, <2>4 DEF RowsProceed
  <1>4. Progress
    BY <1>1, <1>2, <1>3 DEF Progress, SpoolProceeds, EffectsProceed
  <1> PICK j : j = ClaimJob(S)
    OBVIOUS
  <1>5. /\ job' = [job EXCEPT ![w] = Continue(j)] /\ j.pc = "claimed"
        /\ j.amb = {r \in S : Disposition(RowOf(r)) = "ambiguous"}
    <2>1. /\ job' = [job EXCEPT ![w] = Continue(ClaimJob(S))] /\ ClaimJob(S).pc = "claimed"
          /\ ClaimJob(S).amb = {r \in S : Disposition(RowOf(r)) = "ambiguous"}
      BY <1>t, DeliverJob, ZenonT(60)
    <2> QED BY <2>1
  <1>6. \A r \in j.amb : Bound(r)'
    <2> SUFFICES ASSUME NEW r \in S, Disposition(RowOf(r)) = "ambiguous" PROVE Bound(r)'
      BY <1>5
    <2>1. RowOf(r).state # "absent"
      BY DEF Disposition
    <2>2. Bound(r)
      BY <2>1 DEF Deliver, ReplayDetected, Bound
    <2> QED BY <1>1, <2>2 DEF RowsProceed
  <1>7. JobTrue(Continue(j))'
    <2>1. JobTrue(j)'
      BY <1>5, <1>6 DEF JobTrue
    <2> QED BY <2>1, ContinueTrue
  <1>8. Continue(j).pc # "writing"
    BY <1>5 DEF Continue, IdleJob
  <1> QED BY <1>2, <1>4, <1>5, <1>7, <1>8, WorkerStep

\* A replay, from its gate to the fenced claim.
LEMMA ReplayKeeps ==
  ASSUME OInv, IInv', NEW w \in Workers,
         \/ \E r \in Records, c \in Caps : Replay(w, r, c)
         \/ \E r \in Records : ReplayCommitted(w, r)
         \/ Rearm(w) \/ Crash(w)
  PROVE  OInv'
  <1> USE LedgerConstants
  <1> PICK i : i = job[w]
    OBVIOUS
  <1>t. IInv /\ TypeOK /\ i \in Job /\ i \in JobFields /\ JobTrue(i) /\ WriteTrue(i)
    BY DEF OInv, IInv, TypeOK, Job
  <1>s. ASSUME UNCHANGED <<ledger, spool, effects, receipt>> PROVE Progress
    BY <1>s, SameLedger DEF Progress, SpoolProceeds, EffectsProceed, ReceiptsProceed
  <1>i. ASSUME Progress, job' = [job EXCEPT ![w] = IdleJob], UNCHANGED inflight
        PROVE  OInv'
    <2>1. IdleJob.pc # "writing"
      BY DEF IdleJob
    <2> QED BY <1>i, <2>1, IdleTrue, WorkerStep
  <1>1. ASSUME NEW r \in Records, NEW c \in Caps, Replay(w, r, c) PROVE OInv'
    <2> DEFINE fc == ~ReplayAllowed(RowOf(r), c)
    <2>1. PICK j : j = [IdleJob EXCEPT
                 !.pc = "rearm", !.caps = c, !.cur = r, !.exp = RowOf(r).state,
                 !.hist = RowOf(r).contract, !.force = fc]
      OBVIOUS
    <2>2. job' = [job EXCEPT ![w] = j] /\ UNCHANGED inflight
          /\ UNCHANGED <<ledger, spool, effects, receipt>>
      BY <1>1, <2>1 DEF Replay
    <2> HIDE DEF fc
    <2>3. j.pc = "rearm" /\ j.amb = {} /\ j.exp = RowOf(r).state
      BY <2>1 DEF IdleJob
    <2>4. j.exp \notin {"absent", "committed"}
      BY <1>1, <2>3 DEF Replay
    <2>5. JobTrue(j)'
      BY <2>3, <2>4 DEF JobTrue
    <2> QED BY <1>s, <2>2, <2>3, <2>5, WorkerStep
  <1>2. ASSUME NEW r \in Records, ReplayCommitted(w, r) PROVE OInv'
    <2>1. Done(r)
      BY <1>2 DEF ReplayCommitted, Done, OInv, SpoolBound
    <2>2. /\ RemoveMany({r}) /\ receipt' = Returned({r}, "duplicate", FALSE)
          /\ UNCHANGED <<ledger, job, inflight, effects>>
      BY <1>2 DEF ReplayCommitted
    <2>3. Done(r)'
      BY <2>1, <2>2, SameLedger
    <2>4. SpoolProceeds
      BY <2>1, <2>2 DEF SpoolProceeds
    <2>5. ReceiptsProceed
      BY <2>2, <2>3, ReturnedProceed
    <2>6. Progress
      BY <2>2, <2>4, <2>5, SameLedger DEF Progress, EffectsProceed
    <2>7. \A v \in Workers : WriteTrue(job[v])'
      BY <2>2 DEF OInv, WriteTrue, RequestOf, WriteKey, Held
    <2> QED BY <2>2, <2>6, <2>7, StillStep
  <1>3. ASSUME Rearm(w) PROVE OInv'
    <2>0. UNCHANGED <<spool, effects, receipt, inflight>>
      BY <1>3 DEF Rearm
    <2>1. PICK r \in Records : r = job[w].cur
      BY <1>3, <1>t DEF Rearm, Job
    <2>2. CASE Rearms(w)
      <3>1. ASSUME NEW k \in Keys
            PROVE  \/ ledger'[k] = ledger[k]
                   \/ /\ ledger[k].digest \in {NoRecord, ledger'[k].digest}
                      /\ ledger[k].state # "committed"
                      /\ ledger'[k].state \notin WaitingStates \cup {"committed"}
        <4>1. CASE k # KeyOf[r]
          BY <1>3, <1>t, <2>1, <2>2, <4>1, RearmRows
        <4>2. CASE k = KeyOf[r]
          <5>1. /\ ledger[k].digest = ledger'[k].digest /\ ledger[k].state = i.exp
                /\ ledger'[k].state = RearmState(i.exp)
            BY <1>3, <1>t, <2>1, <2>2, <4>2, RearmRows DEF RowOf
          <5>2. i.exp # "committed"
            BY <1>3, <1>t DEF Rearm, JobTrue
          <5> QED BY <5>1, <5>2 DEF RearmState, WaitingStates
        <4> QED BY <4>1, <4>2
      <3>2. Progress
        BY <2>0, <3>1, FreshProceed
           DEF Progress, SpoolProceeds, EffectsProceed, ReceiptsProceed
      <3> PICK j : j = RearmJob(w)
        OBVIOUS
      <3>3. job' = [job EXCEPT ![w] = j] /\ j.pc = "claimed" /\ j.amb = {}
        BY <1>3, <1>t, <2>1, <2>2, RearmRows, RearmJobIs
      <3>4. JobTrue(j)'
        BY <3>3 DEF JobTrue
      <3> QED BY <2>0, <3>2, <3>3, <3>4, WorkerStep
    <2>3. CASE ~Rearms(w)
      BY <1>3, <1>s, <1>i, <2>0, <2>3 DEF Rearm, Rearms
    <2> QED BY <2>2, <2>3
  <1>4. ASSUME Crash(w) PROVE OInv'
    BY <1>4, <1>s, <1>i DEF Crash
  <1> QED BY <1>1, <1>2, <1>3, <1>4

\* A reported rollback closes the request of its own worker only.
LEMMA RollbackKeeps ==
  ASSUME OInv, IInv', NEW w \in Workers, RolledBack(w)
  PROVE  OInv'
  <1> PICK i : i = job[w]
    OBVIOUS
  <1> PICK j : j = [i EXCEPT !.pc = "rolledback"]
    OBVIOUS
  <1>t. /\ IInv /\ TypeOK /\ TypeOK' /\ i \in JobFields /\ i \in Job /\ JobTrue(i)
        /\ \A v \in Workers : job[v] \in Job
    BY DEF OInv, IInv, TypeOK, Job
  <1>1. /\ job' = [job EXCEPT ![w] = j] /\ QuarantineMany(Held(i))
        /\ inflight' = inflight \ {RequestOf(i)} /\ UNCHANGED <<ledger, effects, receipt>>
    BY DEF RolledBack
  <1>2. j.amb = i.amb /\ j.pc = "rolledback" /\ Held(j) = Held(i) /\ Held(j)' = Held(j)
    BY <1>t DEF JobFields, Held
  <1>3. \A r \in Held(i) : Bound(r) /\ r \in spool'
    BY <1>1, <1>t DEF IInv, TokenBound, Bound, Held
  <1>4. Progress
    BY <1>1, <1>3, SameLedger DEF Progress, SpoolProceeds, EffectsProceed, ReceiptsProceed
  <1>5. job'[w] = j /\ \A v \in Workers : v # w => job'[v] = job[v]
    BY <1>1, <1>t DEF TypeOK
  <1>6. ASSUME NEW v \in Workers PROVE JobTrue(job[v])'
    <2>1. \A x \in Job : JobTrue(x) => JobTrue(x)'
      BY <1>4, JobPersists
    <2>2. CASE v = w
      <3>1. JobTrue(j)'
        BY <1>2, <1>3, <1>t, <2>1 DEF JobTrue, Sealed
      <3> QED BY <1>5, <2>2, <3>1
    <2>3. CASE v # w
      <3>1. JobTrue(job[v])
        BY DEF OInv
      <3> QED BY <1>5, <1>t, <2>1, <2>3, <3>1 DEF JobTrue, Held
    <2> QED BY <2>2, <2>3
  <1>7. ASSUME NEW v \in Workers PROVE WriteTrue(job[v])'
    <2>1. CASE v = w
      BY <1>2, <1>5, <2>1 DEF WriteTrue
    <2>2. CASE v # w
      <3>1. job'[v] = job[v] /\ WriteTrue(job[v])
        BY <1>5, <2>2 DEF OInv
      <3>2. ASSUME NEW r \in Held(job[v]) PROVE RequestOf(job[v]) # RequestOf(i)
        <4>1. r \in Records /\ job[v].tok[r] > 0
          BY DEF Held
        <4>2. job[v].tok[r] # i.tok[r]
          BY <1>t, <2>2, <4>1 DEF IInv, UniqueHolder
        <4> QED BY <4>2 DEF RequestOf
      <3> QED BY <1>1, <3>1, <3>2 DEF WriteTrue, RequestOf, WriteKey, Held
    <2> QED BY <2>1, <2>2
  <1> QED BY <1>4, <1>6, <1>7, <1>t, ProgressKeeps DEF OInv

\* The destination applies an open request: its worker may find it gone now.
LEMMA ApplyKeeps ==
  ASSUME OInv, IInv', NEW q \in inflight, Apply(q)
  PROVE  OInv'
  <1>t. /\ TypeOK /\ q \in Request
        /\ \A r \in Records : effects[r] \in [Contracts \cup {NoContract} -> Nat]
    BY DEF OInv, IInv, TypeOK
  <1>1. /\ inflight' = inflight \ {q} /\ UNCHANGED <<ledger, spool, job, receipt>>
        /\ effects' = [r \in Records |->
                         IF q.tok[r] > 0 /\ ~Deduplicates(q, r)
                         THEN [effects[r] EXCEPT ![q.contract] = @ + 1]
                         ELSE effects[r]]
    BY DEF Apply
  <1>2. EffectsProceed
    BY <1>1, <1>t DEF EffectsProceed, Request
  <1>3. Progress
    BY <1>1, <1>2, SameLedger DEF Progress, SpoolProceeds, ReceiptsProceed
  <1>4. \A r \in Records : q.tok[r] > 0 => effects'[r][q.contract] > 0
    BY <1>1, <1>t DEF Deduplicates, Request
  <1>5. ASSUME NEW v \in Workers PROVE WriteTrue(job[v])'
    <2>1. job'[v] = job[v] /\ WriteTrue(job[v]) /\ job[v] \in Job
      BY <1>1, <1>t DEF OInv, TypeOK
    <2>2. WriteKey(job[v]) \in Contracts \cup {NoContract}
      BY <2>1 DEF WriteKey, Job, JobFields, Capabilities
    <2>3. \A r \in Held(job[v]) :
            effects[r][WriteKey(job[v])] > 0 => effects'[r][WriteKey(job[v])] > 0
      BY <1>2, <2>2 DEF EffectsProceed, Held
    <2>4. RequestOf(job[v]) = q => \A r \in Held(job[v]) : effects'[r][WriteKey(job[v])] > 0
      BY <1>4 DEF RequestOf, Held
    <2> QED BY <1>1, <2>1, <2>3, <2>4 DEF WriteTrue, RequestOf, WriteKey, Held
  <1> QED BY <1>1, <1>3, <1>5, StillStep

\* The initial states, fresh or migrated, satisfy it.
LEMMA OInvInit == Init => OInv
  <1> SUFFICES ASSUME Init PROVE OInv
    OBVIOUS
  <1> USE LedgerConstants, RuntimeConstants
  <1>1. IInv
    BY IInvInit
  <1>2. \A w \in Workers : job[w] = IdleJob
    BY DEF Init
  <1>3. \A w \in Workers : JobTrue(job[w]) /\ WriteTrue(job[w])
    BY <1>2, IdleTrue DEF WriteTrue, IdleJob
  <1>4. ReceiptTruth
    BY DEF Init, ReceiptTruth, NoReceipt
  <1>5. NothingLost /\ SpoolBound /\ CommittedApplied
    <2>1. CASE ~Upgraded
      BY <2>1 DEF Init, FreshInit, AbsentRow, RowOf, NothingLost, SpoolBound, CommittedApplied
    <2>2. CASE Upgraded
      <3>1. spool \subseteq Records /\ \A r \in Records : LegacyRecord(r)
        BY <2>2 DEF Init, LegacyInit
      <3>2. SpoolBound
        BY <3>1 DEF LegacyRecord, SpoolBound
      <3>3. ASSUME NEW r \in Records, RowOf(r).digest = r
            PROVE  /\ RowOf(r).state \in WaitingStates => r \in spool
                   /\ RowOf(r).state = "committed" => effects[r][NoContract] > 0
        <4>1. PICK state \in LegacyStates, batch \in BOOLEAN, live \in BOOLEAN, token \in 0..1 :
                /\ ledger[KeyOf[r]] = MigratedRow(r, state, batch, token, live)
                /\ state \in {"quarantined", "uncertain"} => r \in spool
                /\ state = "committed" => effects[r][NoContract] = 1
          BY <3>1, <3>3 DEF LegacyRecord
        <4>2. RowOf(r).state = MigratedState(state, batch)
          BY <4>1 DEF RowOf, MigratedRow
        <4>3. /\ MigratedState(state, batch) \in WaitingStates =>
                   state \in {"quarantined", "uncertain"}
              /\ MigratedState(state, batch) = "committed" => state = "committed"
          BY DEF MigratedState, LegacyStates, WaitingStates
        <4> QED BY <4>1, <4>2, <4>3
      <3> QED BY <3>2, <3>3 DEF NothingLost, CommittedApplied, WaitingStates
    <2> QED BY <2>1, <2>2
  <1> QED BY <1>1, <1>3, <1>4, <1>5 DEF OInv

\* Every step preserves it.
LEMMA OInvStep == OInv /\ [Next]_vars => OInv'
  <1> SUFFICES ASSUME OInv, [Next]_vars PROVE OInv'
    OBVIOUS
  <1>1. IInv' /\ TypeOK
    BY IInvStep DEF OInv, IInv
  <1>2. ASSUME UNCHANGED <<job, inflight, effects>> PROVE \A w \in Workers : WriteTrue(job[w])'
    BY <1>2 DEF OInv, WriteTrue, RequestOf, WriteKey, Held
  <1>3. ASSUME NEW k \in Keys, Expire(k) PROVE OInv'
    <2>1. /\ ledger' = [ledger EXCEPT ![k] = [ledger[k] EXCEPT !.live = FALSE]]
          /\ UNCHANGED <<spool, job, inflight, effects, receipt>>
      BY <1>3, <1>1 DEF Expire, TypeOK
    <2>2. \A r \in Records : RowOf(r)'.state = RowOf(r).state /\ RowOf(r)'.digest = RowOf(r).digest
      BY <1>1, <2>1, LedgerConstants DEF TypeOK, Row, RowOf
    <2>3. Progress
      BY <2>1, <2>2 DEF Progress, RowsProceed, SpoolProceeds, EffectsProceed, ReceiptsProceed,
                        Bound, Done, Waiting
    <2> QED BY <1>1, <1>2, <2>1, <2>3, StillStep
  <1>4. ASSUME UNCHANGED <<ledger, spool, job, inflight, effects, receipt>> PROVE OInv'
    <2>1. Progress
      BY <1>4, SameLedger DEF Progress, SpoolProceeds, EffectsProceed, ReceiptsProceed
    <2> QED BY <1>1, <1>2, <1>4, <2>1, StillStep
  <1>5. ASSUME NEW w \in Workers, Proceed(w) PROVE OInv'
    BY <1>1, <1>5, BeforeWriteStep, WriteStepKeeps, RollbackKeeps, ReplayKeeps DEF Proceed
  <1>6. CASE DeliveryNext
    BY <1>1, <1>3, <1>5, <1>6, DeliverKeeps, ReplayKeeps, ApplyKeeps DEF DeliveryNext
  <1> QED BY <1>4, <1>6 DEF Next, vars, Reconfigure

\* A receipt that says delivered or duplicate, on which senders forget the
\* record, belongs to a committed row, and a committed row to a record the
\* destination has, through crashes, late applies, lost claims and upgrades.
THEOREM OutcomesAreTrue == Spec => []OutcomeTruth
  <1>1. OInv => OutcomeTruth
    BY DEF OInv, OutcomeTruth
  <1> QED BY <1>1, OInvInit, OInvStep, PTL DEF Spec

\* Every record the ledger keeps for an operator has its sealed copy in the
\* spool, and the spool holds no record the ledger does not know: sealing comes
\* before every failed outcome, and a copy goes only after the commit.
THEOREM NothingIsLost == Spec => [](NothingLost /\ SpoolBound)
  <1>1. OInv => NothingLost /\ SpoolBound
    BY DEF OInv
  <1> QED BY <1>1, OInvInit, OInvStep, PTL DEF Spec

-----------------------------------------------------------------------------
(* At most once.  A replay passes its gate on a ledger entry it read       *)
(* earlier; the rearm compares the state of the row and not its contract.  *)
(* The theorems below therefore suppose that the connector keeps to one    *)
(* contract; without that hypothesis the run stalereplay refutes them.     *)

OneContract == \A c, d \in Caps : c.contract = d.contract /\ c.cross = d.cross

Contract == (CHOOSE c \in Caps : TRUE).contract
Cross == (CHOOSE c \in Caps : TRUE).cross

ReplayStates == {"replay_claimed", "replay_write_started", "replay_uncertain",
                 "replay_quarantined", "committed"}
AfterStart == {"writing", "rolledback", "unknown", "cleanup"}

\* The contract of a first write that this release has made.
FirstContract(row) ==
    /\ row.state \in {"write_started", "uncertain"} => row.contract = Contract
    /\ row.state \in {"batch_write_started", "batch_uncertain"} =>
         row.contract = IF Cross THEN Contract ELSE NoContract

BatchRow(row) == row.state \in {"batch_write_started", "batch_uncertain"} => row.batch

\* A worker runs with capabilities that were advertised; it batches only where
\* they allow it, and promises a safe retry only under a contract.
JobPlain(j) ==
    /\ j.caps \in Caps
    /\ j.batch => j.caps.batch /\ ~j.replay
    /\ j.safe => AttemptContract(j) # NoContract

JobOK(j) == j = IdleJob \/ JobPlain(j)

\* What a replay that passed its gate without force may still rely on when it
\* rearms the row, whatever happened to the row in between.
PendingTrue(j) ==
    j.pc = "rearm" /\ ~j.force /\ j.exp # "quarantined" =>
        /\ Contract # NoContract
        /\ j.exp # "claimed"
        /\ FirstContract(RowOf(j.cur))
        /\ j.exp \in {"batch_write_started", "batch_uncertain"} => Cross
        /\ j.exp \in ReplayStates =>
             RowOf(j.cur).state \in ReplayStates /\ RowOf(j.cur).contract = Contract

\* A worker that owns a row writes, or has written, under the row's contract.
Holds(j) ==
    \A r \in Records :
        /\ j.tok[r] > 0 /\ j.tok[r] = RowOf(r).token /\ KeyOf[r] \notin forced
        /\ j.replay \/ j.pc \in AfterStart
        => /\ RowOf(r).contract = WriteKey(j)
           /\ j.replay => WriteKey(j) # NoContract

\* The destination knows a record under the contract of its row only.
ExposureTrue ==
    \A r \in Records : KeyOf[r] \notin forced => Exposed(r) \subseteq {RowOf(r).contract}

\* Without a contract nothing deduplicates: one request, applied at most once.
PlainOnce ==
    \A r \in Records : KeyOf[r] \notin forced =>
        /\ effects[r][NoContract] <= 1
        /\ \A q \in inflight : q.tok[r] > 0 /\ q.contract = NoContract =>
             /\ effects[r][NoContract] = 0
             /\ \A p \in inflight : p.tok[r] > 0 /\ p.contract = NoContract => p = q

ContractOnce == \A r \in Records, c \in Contracts : effects[r][c] <= 1

CInv == /\ OInv
        /\ \A k \in Keys : BatchRow(ledger[k])
        /\ \A w \in Workers : JobOK(job[w])
        /\ \A w \in Workers : PendingTrue(job[w])
        /\ \A w \in Workers : Holds(job[w])
        /\ ExposureTrue
        /\ PlainOnce
        /\ ContractOnce

LEMMA OneContractIs ==
  ASSUME OneContract
  PROVE  /\ \A c \in Caps : c.contract = Contract /\ c.cross = Cross
         /\ Contract \in Contracts \cup {NoContract} /\ Cross \in BOOLEAN
  <1>1. (CHOOSE c \in Caps : TRUE) \in Caps
    BY RuntimeConstants
  <1>2. (CHOOSE c \in Caps : TRUE) \in Capabilities
    BY <1>1, RuntimeConstants
  <1> QED BY <1>1, <1>2 DEF OneContract, Contract, Cross, Capabilities

\* Of one attempt, what the ledger records is what the destination is told.
LEMMA KeyIsContract ==
  ASSUME OneContract, NEW j \in Job, JobPlain(j)
  PROVE  /\ WriteKey(j) = AttemptContract(j)
         /\ WriteKey(j) = IF j.batch /\ ~Cross THEN NoContract ELSE Contract
         /\ j.caps.contract = Contract /\ j.caps.cross = Cross
  <1>1. j.caps \in Caps /\ j.caps \in Capabilities /\ j.batch \in BOOLEAN
        /\ (j.batch => j.caps.batch)
    BY RuntimeConstants DEF JobPlain, Job, JobFields
  <1>2. j.caps.contract = Contract /\ j.caps.cross = Cross
    BY <1>1, OneContractIs
  <1> QED BY <1>1, <1>2 DEF WriteKey, AttemptContract, BatchContract, ScalarContract

\* How a row may change.
RowStep(a, b) ==
    /\ a.token <= b.token
    /\ FirstContract(a) => FirstContract(b)
    /\ BatchRow(a) => BatchRow(b)
    /\ a.state \in ReplayStates => b.state \in ReplayStates

RowsFollow ==
    /\ \A k \in Keys : RowStep(ledger[k], ledger'[k])
    /\ \A k \in Keys : ledger'[k].contract = ledger[k].contract

\* How the worker of a step goes on with the same attempt.
JobFollows(i, j) ==
    \/ j = IdleJob
    \/ /\ i.pc # "idle"
       /\ j.pc # "rearm" /\ (j.pc \in AfterStart => i.pc \in AfterStart)
       /\ j.caps = i.caps /\ j.batch = i.batch /\ j.replay = i.replay /\ j.safe = i.safe
       /\ \A r \in Records : j.tok[r] \in {i.tok[r], 0}

LEMMA FollowSame ==
  ASSUME NEW i, NEW j, j.caps = i.caps, j.batch = i.batch
  PROVE  WriteKey(j) = WriteKey(i) /\ AttemptContract(j) = AttemptContract(i)
  BY DEF WriteKey, AttemptContract

LEMMA IdleHolds == JobOK(IdleJob) /\ PendingTrue(IdleJob)' /\ Holds(IdleJob)'
  BY DEF JobOK, PendingTrue, Holds, IdleJob, NoTokens

\* What a pending replay relies on stays true while rows move on.
LEMMA PendingPersist ==
  ASSUME NEW j \in Job, PendingTrue(j),
         \A k \in Keys : /\ RowStep(ledger[k], ledger'[k])
                         /\ ledger[k].state \in ReplayStates =>
                              ledger'[k].contract = ledger[k].contract
  PROVE  PendingTrue(j)'
  <1> SUFFICES ASSUME j.pc = "rearm", ~j.force, j.exp # "quarantined" PROVE PendingTrue(j)'
    BY DEF PendingTrue
  <1>1. j.cur \in Records
    BY DEF Job
  <1> PICK r \in Records : r = j.cur
    BY <1>1
  <1>2. /\ RowStep(RowOf(r), RowOf(r)')
        /\ RowOf(r).state \in ReplayStates => RowOf(r)'.contract = RowOf(r).contract
    BY LedgerConstants DEF RowOf
  <1>3. /\ Contract # NoContract /\ j.exp # "claimed" /\ FirstContract(RowOf(r))
        /\ j.exp \in {"batch_write_started", "batch_uncertain"} => Cross
        /\ j.exp \in ReplayStates => RowOf(r).state \in ReplayStates /\ RowOf(r).contract = Contract
    BY DEF PendingTrue
  <1>4. FirstContract(RowOf(r)') /\ (RowOf(r).state \in ReplayStates => RowOf(r)'.state \in ReplayStates)
    BY <1>2, <1>3 DEF RowStep
  <1>5. FirstContract(RowOf(j.cur)')
    BY <1>4
  <1> QED BY <1>2, <1>3, <1>4, <1>5 DEF PendingTrue, FirstContract

\* What a worker relies on stays true while rows change in these ways.
LEMMA HoldsPersist ==
  ASSUME IInv, TypeOK', RowsFollow, forced \subseteq forced', NEW w \in Workers
  PROVE  /\ Holds(job[w]) => \A j : JobFollows(job[w], j) \/ j = job[w] => Holds(j)'
         /\ \A j \in Job : PendingTrue(j) => PendingTrue(j)'
  <1> USE LedgerConstants
  <1>t. /\ \A k \in Keys : ledger[k] \in Row /\ ledger'[k] \in Row
        /\ \A r \in Records : /\ KeyOf[r] \in Keys /\ job[w].tok[r] \in Nat
                              /\ job[w].tok[r] <= RowOf(r).token
    BY DEF IInv, TypeOK, TokenBound, Job, JobFields, Tokens
  <1>k. ASSUME NEW r \in Records
        PROVE  /\ RowStep(RowOf(r), RowOf(r)') /\ RowOf(r)'.contract = RowOf(r).contract
               /\ RowOf(r).token \in Nat /\ RowOf(r)'.token \in Nat
    BY <1>t DEF RowsFollow, RowOf, Row
  <1>1. ASSUME Holds(job[w]), NEW j, JobFollows(job[w], j) \/ j = job[w] PROVE Holds(j)'
    <2> PICK i : i = job[w]
      OBVIOUS
    <2>1. CASE j = IdleJob
      BY <2>1, IdleHolds
    <2>2. CASE j # IdleJob
      <3> SUFFICES ASSUME NEW r \in Records, j.tok[r] > 0, j.tok[r] = RowOf(r)'.token,
                          KeyOf[r] \notin forced', j.replay \/ j.pc \in AfterStart
                   PROVE  /\ RowOf(r)'.contract = WriteKey(j)
                          /\ j.replay => WriteKey(j) # NoContract
        BY DEF Holds, WriteKey
      <3>1. /\ j.caps = i.caps /\ j.batch = i.batch /\ j.replay = i.replay
            /\ j.pc \in AfterStart => i.pc \in AfterStart
            /\ j.tok[r] = i.tok[r]
        BY <1>1, <2>2 DEF JobFollows
      <3>2. WriteKey(j) = WriteKey(i)
        BY <3>1, FollowSame
      <3>3. i.tok[r] = RowOf(r).token
        <4>1. RowOf(r).token <= RowOf(r)'.token /\ RowOf(r).token \in Nat /\ RowOf(r)'.token \in Nat
          BY <1>k DEF RowStep
        <4>2. i.tok[r] \in Nat /\ i.tok[r] <= RowOf(r).token /\ i.tok[r] = RowOf(r)'.token
          BY <1>t, <3>1
        <4> HIDE DEF RowOf
        <4> QED BY <4>1, <4>2
      <3>4. RowOf(r).contract = WriteKey(i) /\ (i.replay => WriteKey(i) # NoContract)
        BY <1>1, <3>1, <3>3 DEF Holds
      <3> QED BY <1>k, <3>1, <3>2, <3>4
    <2> QED BY <2>1, <2>2
  <1>2. ASSUME NEW j \in Job, PendingTrue(j) PROVE PendingTrue(j)'
    BY <1>2, PendingPersist DEF RowsFollow
  <1> QED BY <1>1, <1>2

\* Nothing becomes exposed, no effect is added and no contract changes.
LEMMA OnceFrame ==
  ASSUME CInv, IInv', RowsFollow, forced \subseteq forced', inflight' \subseteq inflight,
         UNCHANGED effects
  PROVE  ExposureTrue' /\ PlainOnce' /\ ContractOnce'
  <1>1. \A r \in Records : RowOf(r)'.contract = RowOf(r).contract
    BY LedgerConstants DEF RowsFollow, RowOf
  <1>2. \A r \in Records : Exposed(r)' \subseteq Exposed(r)
    BY DEF Exposed
  <1>3. ExposureTrue'
    BY <1>1, <1>2 DEF CInv, ExposureTrue
  <1>4. PlainOnce'
    BY DEF CInv, PlainOnce
  <1>5. ContractOnce'
    BY DEF CInv, ContractOnce
  <1> QED BY <1>3, <1>4, <1>5

\* A step of one worker whose new job is shown to be right.
LEMMA JobStep ==
  ASSUME CInv, OInv', RowsFollow, forced \subseteq forced', NEW w \in Workers, NEW j,
         job' = [job EXCEPT ![w] = j], JobOK(j), PendingTrue(j)', Holds(j)',
         ExposureTrue', PlainOnce', ContractOnce'
  PROVE  CInv'
  <1>t. IInv /\ job \in [Workers -> Job] /\ TypeOK'
    BY DEF CInv, OInv, IInv, TypeOK
  <1>1. job'[w] = j /\ \A v \in Workers : v # w => job'[v] = job[v]
    BY <1>t
  <1>2. \A k \in Keys : BatchRow(ledger'[k])
    BY DEF CInv, RowsFollow, RowStep
  <1>3. ASSUME NEW v \in Workers
        PROVE  JobOK(job'[v]) /\ PendingTrue(job[v])' /\ Holds(job[v])'
    <2>1. CASE v = w
      BY <1>1, <2>1
    <2>2. CASE v # w
      <3>0. job'[v] = job[v] /\ job[v] \in Job
        BY <1>1, <1>t, <2>2
      <3> PICK i : i = job[v]
        OBVIOUS
      <3>1. JobOK(i) /\ PendingTrue(i) /\ Holds(job[v])
        BY DEF CInv
      <3>2. PendingTrue(i)' /\ Holds(i)'
        BY <1>t, <3>0, <3>1, HoldsPersist
      <3> QED BY <3>0, <3>1, <3>2
    <2> QED BY <2>1, <2>2
  <1> QED BY <1>2, <1>3 DEF CInv, BatchRow, JobOK, JobPlain

\* A step that goes on with an attempt, and one that changes no worker.
LEMMA FollowStep ==
  ASSUME CInv, OInv', RowsFollow, forced \subseteq forced', inflight' \subseteq inflight,
         UNCHANGED effects, NEW w \in Workers, NEW j,
         job' = [job EXCEPT ![w] = j], JobFollows(job[w], j)
  PROVE  CInv'
  <1>t. IInv /\ TypeOK' /\ IInv'
    BY DEF CInv, OInv, IInv
  <1>1. Holds(j)'
    BY <1>t, HoldsPersist DEF CInv
  <1>2. PendingTrue(j)'
    BY IdleHolds DEF JobFollows, PendingTrue
  <1>3. JobOK(j)
    <2>1. CASE j = IdleJob
      BY <2>1, IdleHolds
    <2>2. CASE j # IdleJob
      <3> PICK i : i = job[w]
        OBVIOUS
      <3>1. JobPlain(i)
        BY <2>2 DEF CInv, JobOK, JobFollows, IdleJob
      <3>2. j.caps = i.caps /\ j.batch = i.batch /\ j.replay = i.replay /\ j.safe = i.safe
        BY <2>2 DEF JobFollows
      <3>3. AttemptContract(j) = AttemptContract(i)
        BY <3>2, FollowSame
      <3> QED BY <3>1, <3>2, <3>3 DEF JobOK, JobPlain
    <2> QED BY <2>1, <2>2
  <1> QED BY <1>t, <1>1, <1>2, <1>3, OnceFrame, JobStep

LEMMA NoJobStep ==
  ASSUME CInv, OInv', RowsFollow, UNCHANGED job, forced \subseteq forced',
         ExposureTrue', PlainOnce', ContractOnce'
  PROVE  CInv'
  <1>t. IInv /\ job \in [Workers -> Job] /\ TypeOK'
    BY DEF CInv, OInv, IInv, TypeOK
  <1>1. \A k \in Keys : BatchRow(ledger'[k])
    BY DEF CInv, RowsFollow, RowStep
  <1>2. ASSUME NEW v \in Workers
        PROVE  JobOK(job'[v]) /\ PendingTrue(job[v])' /\ Holds(job[v])'
    <2>0. job'[v] = job[v] /\ job[v] \in Job
      BY <1>t
    <2> PICK i : i = job[v]
      OBVIOUS
    <2>1. JobOK(i) /\ PendingTrue(i) /\ Holds(job[v])
      BY DEF CInv
    <2>2. PendingTrue(i)' /\ Holds(i)'
      BY <1>t, <2>0, <2>1, HoldsPersist
    <2> QED BY <2>0, <2>1, <2>2
  <1> QED BY <1>1, <1>2 DEF CInv, BatchRow, JobOK, JobPlain

\* The rows of the steps that start no write.
LEMMA SameFollow ==
  ASSUME TypeOK, UNCHANGED ledger PROVE RowsFollow
  <1>1. \A k \in Keys : ledger[k].token \in Nat
    BY DEF TypeOK, Row
  <1> QED BY <1>1 DEF RowsFollow, RowStep

LEMMA MovedFollow ==
  ASSUME TypeOK, NEW S \in SUBSET Records, NEW state, ledger' = Transition(S, state),
         state \notin FirstWriteStates,
         \A r \in S : /\ state = "uncertain" => RowOf(r).state = "write_started"
                      /\ state = "batch_uncertain" => RowOf(r).state = "batch_write_started"
                      /\ RowOf(r).state \in ReplayStates => state \in ReplayStates
  PROVE  RowsFollow
  <1> SUFFICES ASSUME NEW k \in Keys
               PROVE  RowStep(ledger[k], ledger'[k]) /\ ledger'[k].contract = ledger[k].contract
    BY DEF RowsFollow
  <1>t. ledger[k] \in Row /\ ledger[k].token \in Nat
    BY DEF TypeOK, Row
  <1>1. CASE k \in KeysOf(S)
    <2>1. PICK r \in S : KeyOf[r] = k
      BY <1>1 DEF KeysOf
    <2>2. ledger'[k] = Moved(ledger[k], state)
      BY <1>1 DEF Transition
    <2>3. /\ ledger'[k].state = state /\ ledger'[k].token = ledger[k].token
          /\ ledger'[k].contract = ledger[k].contract /\ ledger'[k].batch = ledger[k].batch
      BY <1>t, <2>2 DEF Moved, Row
    <2>4. /\ state = "uncertain" => ledger[k].state = "write_started"
          /\ state = "batch_uncertain" => ledger[k].state = "batch_write_started"
          /\ ledger[k].state \in ReplayStates => state \in ReplayStates
      BY <2>1 DEF RowOf
    <2> QED BY <1>t, <2>3, <2>4 DEF RowStep, FirstContract, BatchRow, FirstWriteStates
  <1>2. CASE k \notin KeysOf(S)
    <2>1. ledger'[k] = ledger[k]
      BY <1>2 DEF Transition
    <2> QED BY <1>t, <2>1 DEF RowStep
  <1> QED BY <1>1, <1>2

\* The steps that go on with an attempt, one case per action.
LEMMA AttemptStep ==
  ASSUME CInv, OInv', NEW w \in Workers,
         \/ \E r \in Records : SpoolAmbiguous(w, r)
         \/ \E r \in Records, changed \in BOOLEAN : Reject(w, r, changed)
         \/ MarkRejected(w) \/ Unspool(w) \/ Acked(w) \/ RolledBack(w) \/ Unknown(w)
         \/ MarkRolledBack(w) \/ MarkUnknown(w) \/ Cleanup(w) \/ Crash(w)
  PROVE  CInv'
  <1> USE LedgerConstants
  <1> PICK i : i = job[w]
    OBVIOUS
  <1>t. /\ TypeOK /\ i \in Job /\ i \in JobFields /\ Held(i) \in SUBSET Records
        /\ \A r \in Records : i.tok[r] \in Nat
    <2>1. TypeOK /\ i \in Job
      BY DEF CInv, OInv, IInv, TypeOK
    <2>2. i \in JobFields /\ i.tok \in Tokens
      BY <2>1 DEF Job, JobFields
    <2> QED BY <2>1, <2>2 DEF Tokens, Held
  <1>u. UNCHANGED <<effects, forced>> /\ inflight' \subseteq inflight
    BY DEF SpoolAmbiguous, Reject, MarkRejected, Unspool, Acked, RolledBack, Unknown,
           MarkRolledBack, MarkUnknown, MarkFailed, Cleanup, Crash
  <1>f. ASSUME RowsFollow, NEW j, job' = [job EXCEPT ![w] = j], JobFollows(i, j) PROVE CInv'
    BY <1>f, <1>u, FollowStep
  <1>i. ASSUME RowsFollow, job' = [job EXCEPT ![w] = IdleJob] PROVE CInv'
    BY <1>i, <1>f DEF JobFollows
  <1>c. ASSUME NEW j, JobFollows(i, j) PROVE JobFollows(i, Continue(j))
    BY <1>c DEF Continue, JobFollows
  <1>d. ASSUME NEW r \in Records, i.pc \in {"rejecting", "unspool"}
        PROVE  JobFollows(i, Continue(Drop(i, r)))
    <2> PICK j : j = Drop(i, r)
      OBVIOUS
    <2>1. /\ j.pc = "claimed" /\ j.caps = i.caps /\ j.batch = i.batch /\ j.replay = i.replay
          /\ j.safe = i.safe /\ \A s \in Records : j.tok[s] \in {i.tok[s], 0}
      BY <1>t DEF Drop, JobFields, Tokens
    <2>2. JobFollows(i, j)
      BY <1>d, <2>1 DEF JobFollows, AfterStart
    <2> QED BY <1>c, <2>2
  <1>p. ASSUME NEW pc, i.pc # "idle", pc # "rearm", pc \in AfterStart => i.pc \in AfterStart,
               NEW j, j = [i EXCEPT !.pc = pc]
        PROVE  JobFollows(i, j)
    <2>1. /\ j.pc = pc /\ j.caps = i.caps /\ j.batch = i.batch /\ j.replay = i.replay
          /\ j.safe = i.safe /\ j.tok = i.tok
      BY <1>p, <1>t DEF JobFields
    <2> QED BY <1>p, <2>1 DEF JobFollows
  <1>1. ASSUME NEW r \in Records, SpoolAmbiguous(w, r) PROVE CInv'
    <2> PICK j : j = [i EXCEPT !.amb = @ \ {r}]
      OBVIOUS
    <2>1. /\ j.pc = "claimed" /\ i.pc = "claimed" /\ j.caps = i.caps /\ j.batch = i.batch
          /\ j.replay = i.replay /\ j.safe = i.safe /\ j.tok = i.tok
      BY <1>1, <1>t DEF SpoolAmbiguous, JobFields
    <2>2. JobFollows(i, Continue(j))
      BY <1>c, <2>1 DEF JobFollows, AfterStart
    <2>3. job' = [job EXCEPT ![w] = Continue(j)] /\ UNCHANGED ledger
      BY <1>1 DEF SpoolAmbiguous
    <2> QED BY <1>f, <1>t, <2>2, <2>3, SameFollow
  <1>2. ASSUME NEW r \in Records, NEW changed \in BOOLEAN, Reject(w, r, changed) PROVE CInv'
    <2> PICK j : j = [i EXCEPT !.pc = "rejecting", !.cur = r, !.dropped = changed]
      OBVIOUS
    <2>1. /\ j.pc = "rejecting" /\ i.pc = "claimed" /\ j.caps = i.caps /\ j.batch = i.batch
          /\ j.replay = i.replay /\ j.safe = i.safe /\ j.tok = i.tok
      BY <1>2, <1>t DEF Reject, JobFields
    <2>2. JobFollows(i, j)
      BY <2>1 DEF JobFollows, AfterStart
    <2>3. job' = [job EXCEPT ![w] = j] /\ UNCHANGED ledger
      BY <1>2 DEF Reject
    <2> QED BY <1>f, <1>t, <2>2, <2>3, SameFollow
  <1>3. ASSUME MarkRejected(w) PROVE CInv'
    <2>1. PICK r \in Records : r = i.cur
      BY <1>3, <1>t DEF MarkRejected, Job
    <2>2. i.pc = "rejecting"
      BY <1>3 DEF MarkRejected
    <2>3. RowsFollow
      <3>1. CASE UNCHANGED ledger
        BY <1>t, <3>1, SameFollow
      <3>2. CASE /\ OwnsClaim(RowOf(r), r, i.tok[r], ClaimState(i.replay))
                 /\ ledger' = Transition({r}, QuarantinedState(i.replay))
        <4>1. RowOf(r).state = ClaimState(i.replay)
          BY <3>2 DEF OwnsClaim, Owns
        <4>2. /\ QuarantinedState(i.replay) \notin FirstWriteStates \cup {"uncertain", "batch_uncertain"}
              /\ ClaimState(i.replay) \in ReplayStates => QuarantinedState(i.replay) \in ReplayStates
          BY DEF QuarantinedState, ClaimState, FirstWriteStates, ReplayStates
        <4> QED BY <1>t, <3>2, <4>1, <4>2, MovedFollow
      <3> QED BY <1>3, <2>1, <3>1, <3>2 DEF MarkRejected
    <2>4. CASE job' = [job EXCEPT ![w] = Continue(Drop(i, r))]
      BY <1>d, <1>f, <2>2, <2>3, <2>4
    <2>5. CASE job' = [job EXCEPT ![w] = [i EXCEPT !.pc = "unspool"]]
      <3> PICK j : j = [i EXCEPT !.pc = "unspool"]
        OBVIOUS
      <3>1. JobFollows(i, j)
        BY <1>p, <2>2 DEF AfterStart
      <3> QED BY <1>f, <2>3, <2>5, <3>1
    <2> QED BY <1>3, <2>1, <2>4, <2>5 DEF MarkRejected
  <1>4. ASSUME Unspool(w) PROVE CInv'
    <2>1. PICK r \in Records : r = i.cur
      BY <1>4, <1>t DEF Unspool, Job
    <2>2. /\ i.pc = "unspool" /\ UNCHANGED ledger
          /\ job' = [job EXCEPT ![w] = Continue(Drop(i, r))]
      BY <1>4, <2>1 DEF Unspool
    <2> QED BY <1>d, <1>f, <1>t, <2>2, SameFollow
  <1>5. ASSUME Acked(w) \/ RolledBack(w) \/ Unknown(w) PROVE CInv'
    <2>1. i.pc = "writing"
      BY <1>5 DEF Acked, RolledBack, Unknown
    <2>2. RowsFollow
      <3>1. CASE UNCHANGED ledger
        BY <1>t, <3>1, SameFollow
      <3>2. CASE ledger' = Transition(Held(i), "committed")
        BY <1>t, <3>2, MovedFollow DEF FirstWriteStates, ReplayStates
      <3> QED BY <1>5, <3>1, <3>2 DEF Acked, RolledBack, Unknown
    <2>3. CASE job' = [job EXCEPT ![w] = IdleJob]
      BY <1>i, <2>2, <2>3
    <2>4. ASSUME NEW pc \in {"cleanup", "rolledback", "unknown"},
                 job' = [job EXCEPT ![w] = [i EXCEPT !.pc = pc]]
          PROVE  CInv'
      <3> PICK j : j = [i EXCEPT !.pc = pc]
        OBVIOUS
      <3>1. JobFollows(i, j)
        BY <1>p, <2>1 DEF AfterStart
      <3> QED BY <1>f, <2>2, <2>4, <3>1
    <2> QED BY <1>5, <2>3, <2>4 DEF Acked, RolledBack, Unknown
  <1>6. ASSUME MarkRolledBack(w) \/ MarkUnknown(w) PROVE CInv'
    <2>1. job' = [job EXCEPT ![w] = IdleJob]
      BY <1>6 DEF MarkRolledBack, MarkUnknown, MarkFailed
    <2>2. RowsFollow
      <3>1. CASE UNCHANGED ledger
        BY <1>t, <3>1, SameFollow
      <3>2. ASSUME NEW state \in {QuarantinedState(i.replay), UncertainState(i.batch, i.replay)},
                   OwnsAll(i, WriteState(i.batch, i.replay)),
                   ledger' = Transition(Held(i), state)
            PROVE  RowsFollow
        <4>1. \A r \in Held(i) : RowOf(r).state = WriteState(i.batch, i.replay)
          BY <3>2 DEF OwnsAll, Owns
        <4>2. /\ state \notin FirstWriteStates
              /\ state = "uncertain" => WriteState(i.batch, i.replay) = "write_started"
              /\ state = "batch_uncertain" => WriteState(i.batch, i.replay) = "batch_write_started"
              /\ WriteState(i.batch, i.replay) \in ReplayStates => state \in ReplayStates
          <5>1. i.batch \in BOOLEAN /\ i.replay \in BOOLEAN
            BY <1>t DEF JobFields
          <5> QED BY <5>1 DEF QuarantinedState, UncertainState, WriteState, FirstWriteStates,
                              ReplayStates
        <4> QED BY <1>t, <3>2, <4>1, <4>2, MovedFollow
      <3>3. \/ UNCHANGED ledger
            \/ /\ OwnsAll(i, WriteState(i.batch, i.replay))
               /\ \/ ledger' = Transition(Held(i), QuarantinedState(i.replay))
                  \/ ledger' = Transition(Held(i), UncertainState(i.batch, i.replay))
        BY <1>6 DEF MarkRolledBack, MarkUnknown, MarkFailed
      <3> QED BY <3>1, <3>2, <3>3
    <2> QED BY <1>i, <2>1, <2>2
  <1>7. ASSUME Cleanup(w) \/ Crash(w) PROVE CInv'
    BY <1>7, <1>i, <1>t, SameFollow DEF Cleanup, Crash
  <1> QED BY <1>1, <1>2, <1>3, <1>4, <1>5, <1>6, <1>7

\* The steps of no worker, and those that leave the rows' contracts alone.
LEMMA StillOnce ==
  ASSUME CInv, OInv',
         \/ \E w \in Workers, r \in Records : ReplayCommitted(w, r)
         \/ \E k \in Keys : Expire(k)
         \/ \E c \in Caps : Reconfigure(c)
         \/ UNCHANGED vars
  PROVE  CInv'
  <1>t. TypeOK /\ IInv'
    BY DEF CInv, OInv, IInv
  <1>1. ASSUME RowsFollow, UNCHANGED <<job, inflight, effects, forced>> PROVE CInv'
    BY <1>t, <1>1, OnceFrame, NoJobStep
  <1>2. ASSUME NEW k \in Keys, Expire(k) PROVE CInv'
    <2>1. /\ ledger' = [ledger EXCEPT ![k] = [ledger[k] EXCEPT !.live = FALSE]]
          /\ UNCHANGED <<job, inflight, effects, forced>>
      BY <1>2, <1>t DEF Expire, TypeOK
    <2>2. ASSUME NEW m \in Keys
          PROVE  /\ ledger[m].token \in Nat
                 /\ ledger'[m].state = ledger[m].state /\ ledger'[m].token = ledger[m].token
                 /\ ledger'[m].contract = ledger[m].contract /\ ledger'[m].batch = ledger[m].batch
      BY <1>t, <2>1 DEF TypeOK, Row
    <2>3. RowsFollow
      BY <2>2 DEF RowsFollow, RowStep, FirstContract, BatchRow
    <2> QED BY <1>1, <2>1, <2>3
  <1>3. ASSUME UNCHANGED <<ledger, job, inflight, effects, forced>> PROVE CInv'
    BY <1>t, <1>1, <1>3, SameFollow
  <1> QED BY <1>2, <1>3 DEF ReplayCommitted, Reconfigure, vars

\* A claim binds a worker to the capabilities of now and to no contract yet.
LEMMA DeliverOnce ==
  ASSUME CInv, OInv', NEW w \in Workers, NEW S \in SUBSET Records, Deliver(w, S)
  PROVE  CInv'
  <1>t. TypeOK /\ IInv /\ IInv' /\ caps \in Caps /\ caps \in Capabilities
    BY RuntimeConstants DEF CInv, OInv, IInv, TypeOK
  <1>1. UNCHANGED <<inflight, effects, forced>>
    BY DEF Deliver
  <1>2. RowsFollow
    <2> SUFFICES ASSUME NEW k \in Keys
                 PROVE  RowStep(ledger[k], ledger'[k]) /\ ledger'[k].contract = ledger[k].contract
      BY DEF RowsFollow
    <2>0. ledger[k].token \in Nat
      BY <1>t DEF TypeOK, Row
    <2>1. \/ ledger'[k] = ledger[k]
          \/ /\ ledger'[k].token = ledger[k].token + 1 /\ ledger'[k].state = "claimed"
             /\ ledger[k].state \in PreWriteStates
             /\ ledger'[k].contract = ledger[k].contract
      BY <1>t, DeliverRows
    <2> QED BY <2>0, <2>1 DEF RowStep, FirstContract, BatchRow, ReplayStates, PreWriteStates
  <1> PICK c : c = ClaimJob(S)
    OBVIOUS
  <1>3. /\ job' = [job EXCEPT ![w] = Continue(c)] /\ c.pc = "claimed" /\ ~c.replay
        /\ c.caps = caps /\ (c.batch <=> \E a, b \in S : a # b)
        /\ c.safe <=> IF \E a, b \in S : a # b THEN BatchContract(caps) # NoContract
                                               ELSE ScalarContract(caps) # NoContract
    BY <1>t, DeliverJob
  <1>4. (\E a, b \in S : a # b) => caps.batch
    BY DEF Deliver, Chunk
  <1>5. JobPlain(c)
    BY <1>t, <1>3, <1>4 DEF JobPlain, AttemptContract
  <1> PICK j : j = Continue(c)
    OBVIOUS
  <1>6. j = c \/ j = IdleJob
    BY DEF Continue
  <1>7. JobOK(j) /\ PendingTrue(j)' /\ Holds(j)'
    <2>1. JobOK(c) /\ PendingTrue(c)' /\ Holds(c)'
      BY <1>3, <1>5 DEF JobOK, PendingTrue, Holds, AfterStart
    <2> QED BY <1>6, <2>1, IdleHolds
  <1> QED BY <1>t, <1>1, <1>2, <1>3, <1>7, OnceFrame, JobStep

\* The gate of a replay establishes what the replay relies on later.
LEMMA ReplayOnce ==
  ASSUME OneContract, CInv, OInv', NEW w \in Workers, NEW r \in Records, NEW c \in Caps,
         Replay(w, r, c)
  PROVE  CInv'
  <1> USE LedgerConstants
  <1>t. /\ TypeOK /\ IInv' /\ c \in Capabilities /\ KeyOf[r] \in Keys /\ RowOf(r) \in Row
        /\ BatchRow(RowOf(r)) /\ c.contract = Contract /\ c.cross = Cross
    BY RuntimeConstants, OneContractIs DEF CInv, OInv, IInv, TypeOK, RowOf
  <1> PICK row : row = RowOf(r)
    OBVIOUS
  <1> PICK fc : fc = ~ReplayAllowed(row, c)
    OBVIOUS
  <1> PICK j : j = [IdleJob EXCEPT !.pc = "rearm", !.caps = c, !.cur = r, !.exp = row.state,
                                   !.hist = row.contract, !.force = fc]
    OBVIOUS
  <1>1. /\ job' = [job EXCEPT ![w] = j] /\ UNCHANGED <<ledger, inflight, effects, forced>>
    BY DEF Replay
  <1>2. /\ j.pc = "rearm" /\ j.caps = c /\ j.cur = r /\ j.exp = row.state /\ j.force = fc
        /\ ~j.batch /\ ~j.safe /\ ~j.replay /\ j.tok = NoTokens
    BY DEF IdleJob
  <1>3. JobOK(j) /\ Holds(j)'
    BY <1>2 DEF JobOK, JobPlain, Holds, NoTokens
  <1>4. PendingTrue(j)'
    <2> SUFFICES ASSUME ~j.force, j.exp # "quarantined" PROVE PendingTrue(j)'
      BY DEF PendingTrue
    <2>1. ReplayAllowed(row, c) /\ row.state # "quarantined"
      BY <1>2
    <2>2. /\ row.state # "claimed" /\ row.contract # NoContract /\ row.contract = Contract
          /\ row.batch => c.cross
      BY <1>t, <2>1 DEF ReplayAllowed, ScalarContract, BatchContract
    <2>3. row.state \in {"batch_write_started", "batch_uncertain"} => Cross
      BY <1>t, <2>2 DEF BatchRow
    <2>4. FirstContract(row)
      BY <2>2, <2>3 DEF FirstContract
    <2>5. RowOf(r)' = row
      BY <1>1 DEF RowOf
    <2>6. FirstContract(RowOf(j.cur)') /\ RowOf(j.cur)' = row
      BY <1>2, <2>4, <2>5
    <2> QED BY <1>2, <2>2, <2>3, <2>6 DEF PendingTrue, FirstContract
  <1> QED BY <1>t, <1>1, <1>3, <1>4, SameFollow, OnceFrame, JobStep

\* A rearm that no force was needed for hands out the contract of the row.
LEMMA RearmOnce ==
  ASSUME OneContract, CInv, OInv', NEW w \in Workers, Rearm(w)
  PROVE  CInv'
  <1> USE LedgerConstants
  <1> PICK i : i = job[w]
    OBVIOUS
  <1>t. /\ TypeOK /\ IInv /\ IInv' /\ i \in Job /\ i \in JobFields /\ i.pc = "rearm"
        /\ JobTrue(i) /\ JobOK(i) /\ PendingTrue(i)
    BY DEF Rearm, CInv, OInv, IInv, TypeOK, Job
  <1>p. JobPlain(i) /\ i.caps.contract = Contract
    <2>1. JobPlain(i)
      BY <1>t DEF JobOK, IdleJob
    <2> QED BY <1>t, <2>1, KeyIsContract
  <1>u. UNCHANGED <<inflight, effects>>
    BY DEF Rearm
  <1>1. CASE ~Rearms(w)
    <2>1. job' = [job EXCEPT ![w] = IdleJob] /\ UNCHANGED <<ledger, forced>>
      BY <1>1 DEF Rearm, Rearms
    <2> QED BY <1>t, <1>u, <2>1, SameFollow, FollowStep DEF JobFollows
  <1>2. CASE Rearms(w)
    <2>1. PICK r \in Records : r = i.cur
      BY <1>t DEF Job
    <2> PICK j : j = RearmJob(w)
      OBVIOUS
    <2>2. /\ job' = [job EXCEPT ![w] = j]
          /\ forced' = IF i.force THEN forced \cup {KeyOf[r]} ELSE forced
          /\ RowOf(r).state = i.exp
          /\ RowOf(r)'.token = RowOf(r).token + 1
          /\ RowOf(r)'.contract = RowOf(r).contract
          /\ RowOf(r)'.state = RearmState(i.exp)
          /\ \A k \in Keys : k # KeyOf[r] => ledger'[k] = ledger[k]
      BY <1>t, <1>2, <2>1, RearmRows
    <2>3. /\ j.pc = "claimed" /\ ~j.batch /\ j.caps = i.caps
          /\ j.replay <=> RearmState(i.exp) = "replay_claimed"
          /\ j.tok = [NoTokens EXCEPT ![r] = RowOf(r).token + 1]
          /\ j.safe <=> RearmedSafe(i, RowOf(r))
      BY <1>t, <2>1, RearmJobIs
    <2>4. RowsFollow
      <3> SUFFICES ASSUME NEW k \in Keys
                   PROVE  RowStep(ledger[k], ledger'[k]) /\ ledger'[k].contract = ledger[k].contract
        BY DEF RowsFollow
      <3>0. ledger[k].token \in Nat
        BY <1>t DEF TypeOK, Row
      <3>1. \/ ledger'[k] = ledger[k]
            \/ /\ ledger'[k].token = ledger[k].token + 1
               /\ ledger'[k].contract = ledger[k].contract
               /\ ledger'[k].state = RearmState(ledger[k].state)
        BY <2>2 DEF RowOf
      <3> QED BY <3>0, <3>1 DEF RowStep, FirstContract, BatchRow, ReplayStates, RearmState
    <2>5. WriteKey(j) = Contract
      BY <1>p, <2>3 DEF WriteKey
    <2>6. JobOK(j)
      <3>1. j.safe => ScalarContract(i.caps) # NoContract
        BY <2>3 DEF RearmedSafe, RearmState
      <3> QED BY <1>p, <2>3, <3>1 DEF JobOK, JobPlain, AttemptContract
    <2>7. PendingTrue(j)'
      BY <2>3 DEF PendingTrue
    <2>8. Holds(j)'
      <3> SUFFICES ASSUME NEW s \in Records, j.tok[s] > 0, KeyOf[s] \notin forced', j.replay
                   PROVE  RowOf(s)'.contract = Contract /\ Contract # NoContract
        BY <2>3, <2>5 DEF Holds, AfterStart, WriteKey
      <3>1. s = r
        BY <2>3 DEF NoTokens
      <3>2. ~i.force /\ i.exp # "quarantined"
        BY <2>2, <2>3, <3>1 DEF RearmState
      <3>3. i.exp \in DeliveryState \ {"committed"}
        BY <1>t DEF JobTrue, JobFields
      <3>4. /\ Contract # NoContract /\ i.exp # "claimed" /\ FirstContract(RowOf(r))
            /\ i.exp \in {"batch_write_started", "batch_uncertain"} => Cross
            /\ i.exp \in ReplayStates => RowOf(r).contract = Contract
        BY <1>t, <2>1, <3>2 DEF PendingTrue
      <3>5. RowOf(r).contract = Contract
        BY <2>2, <3>2, <3>3, <3>4 DEF FirstContract, ReplayStates, DeliveryState
      <3> QED BY <2>2, <3>1, <3>4, <3>5
    <2>9. forced \subseteq forced' /\ inflight' \subseteq inflight
      BY <1>u, <2>2
    <2> QED BY <1>t, <1>u, <2>2, <2>4, <2>6, <2>7, <2>8, <2>9, OnceFrame, JobStep
  <1> QED BY <1>1, <1>2

\* The write boundary: a first write binds the row to the contract of its
\* request, a replay goes out under the contract the row already has.
LEMMA StartOnce ==
  ASSUME OneContract, CInv, OInv', NEW w \in Workers, StartWrite(w)
  PROVE  CInv'
  <1> USE LedgerConstants
  <1> PICK i : i = job[w]
    OBVIOUS
  <1>t. /\ TypeOK /\ IInv /\ i \in Job /\ i \in JobFields /\ i.pc = "claimed"
        /\ job \in [Workers -> Job] /\ JobOK(i) /\ Holds(i)
        /\ \A r \in Records : KeyOf[r] \in Keys /\ i.tok[r] \in Nat
    <2>1. TypeOK /\ IInv /\ i \in Job /\ job \in [Workers -> Job] /\ JobOK(i) /\ Holds(i)
      BY DEF CInv, OInv, IInv, TypeOK
    <2>2. i \in JobFields /\ i.tok \in Tokens
      BY <2>1 DEF Job, JobFields
    <2> QED BY <2>1, <2>2 DEF StartWrite, Tokens
  <1>p. JobPlain(i)
    BY <1>t DEF JobOK, IdleJob
  <1>k. /\ WriteKey(i) = AttemptContract(i)
        /\ WriteKey(i) = IF i.batch /\ ~Cross THEN NoContract ELSE Contract
        /\ i.batch => ~i.replay
    BY <1>t, <1>p, KeyIsContract DEF JobPlain
  <1>1. CASE ~OwnsAllClaims(i, ClaimState(i.replay))
    <2>1. /\ job' = [job EXCEPT ![w] = IdleJob]
          /\ UNCHANGED <<ledger, inflight, effects, forced>>
      BY <1>1 DEF StartWrite
    <2> QED BY <1>t, <2>1, SameFollow, FollowStep DEF JobFollows
  <1>2. CASE OwnsAllClaims(i, ClaimState(i.replay))
    <2> PICK j : j = [i EXCEPT !.pc = "writing"]
      OBVIOUS
    <2> PICK q : q = RequestOf(i)
      OBVIOUS
    <2> PICK S \in SUBSET Records : S = Held(i)
      BY DEF Held
    <2>s. \A r \in Records : r \in S <=> i.tok[r] > 0
      BY DEF Held
    <2>q. q.tok = i.tok /\ q.contract = WriteKey(i)
      BY DEF RequestOf
    <2>1. /\ job' = [job EXCEPT ![w] = j]
          /\ inflight' = inflight \cup {q} /\ UNCHANGED <<effects, forced>>
          /\ \A r \in S : /\ RowOf(r).digest = r /\ RowOf(r).token = i.tok[r]
                          /\ RowOf(r).state = ClaimState(i.replay)
          /\ \A k \in Keys : k \notin KeysOf(S) => ledger'[k] = ledger[k]
      BY <1>t, <1>2, StartRows
    <2>2. ASSUME NEW r \in S
          PROVE  /\ RowOf(r)'.token = RowOf(r).token
                 /\ RowOf(r)'.state = IF i.replay THEN "replay_write_started"
                                      ELSE IF i.batch THEN "batch_write_started"
                                      ELSE "write_started"
                 /\ RowOf(r)'.contract = IF i.replay THEN RowOf(r).contract ELSE WriteKey(i)
                 /\ RowOf(r)'.batch = IF i.replay THEN RowOf(r).batch ELSE i.batch
      <3>1. KeyOf[r] \in KeysOf(S)
        BY DEF KeysOf
      <3> PICK k \in KeysOf(S) : k = KeyOf[r]
        BY <3>1
      <3>2. /\ ledger'[k].token = ledger[k].token
            /\ ledger'[k].state = IF i.replay THEN "replay_write_started"
                                  ELSE IF i.batch THEN "batch_write_started"
                                  ELSE "write_started"
            /\ ledger'[k].contract = IF i.replay THEN ledger[k].contract ELSE AttemptContract(i)
            /\ ledger'[k].batch = IF i.replay THEN ledger[k].batch ELSE i.batch
        BY <1>t, <1>2, StartRows
      <3> QED BY <1>k, <3>2 DEF RowOf
    <2>3. /\ j.pc = "writing" /\ j.caps = i.caps /\ j.batch = i.batch /\ j.replay = i.replay
          /\ j.safe = i.safe /\ j.tok = i.tok
      BY <1>t DEF JobFields
    <2>4. WriteKey(j) = WriteKey(i) /\ AttemptContract(j) = AttemptContract(i)
      BY <2>3, FollowSame
    <2>5. ASSUME NEW k \in Keys
          PROVE  /\ RowStep(ledger[k], ledger'[k])
                 /\ BatchRow(ledger'[k])
                 /\ ledger[k].state \in ReplayStates => ledger'[k].contract = ledger[k].contract
      <3>0. ledger[k].token \in Nat /\ BatchRow(ledger[k])
        BY <1>t DEF TypeOK, Row, CInv
      <3>1. CASE k \notin KeysOf(S)
        BY <2>1, <3>0, <3>1 DEF RowStep
      <3>2. CASE k \in KeysOf(S)
        <4>1. PICK r \in S : KeyOf[r] = k
          BY <3>2 DEF KeysOf
        <4>2. RowOf(r) = ledger[k] /\ RowOf(r)' = ledger'[k]
          BY <4>1 DEF RowOf
        <4>3. CASE i.replay
          <5>1. /\ ledger'[k].state = "replay_write_started" /\ ledger'[k].token = ledger[k].token
                /\ ledger'[k].contract = ledger[k].contract
            BY <2>2, <4>2, <4>3
          <5> QED BY <3>0, <5>1 DEF RowStep, FirstContract, BatchRow, ReplayStates
        <4>4. CASE ~i.replay
          <5>1. /\ ledger'[k].state = IF i.batch THEN "batch_write_started" ELSE "write_started"
                /\ ledger'[k].token = ledger[k].token
                /\ ledger'[k].contract = WriteKey(i) /\ ledger'[k].batch = i.batch
            BY <2>2, <4>2, <4>4
          <5>2. ledger[k].state = "claimed"
            BY <2>1, <4>2, <4>4 DEF ClaimState
          <5>3. FirstContract(ledger'[k]) /\ BatchRow(ledger'[k])
            BY <1>k, <5>1 DEF FirstContract, BatchRow
          <5> QED BY <3>0, <5>1, <5>2, <5>3 DEF RowStep, ReplayStates
        <4> QED BY <4>3, <4>4
      <3> QED BY <3>1, <3>2
    <2>6. ASSUME NEW r \in S, KeyOf[r] \notin forced
          PROVE  /\ RowOf(r)'.contract = WriteKey(i)
                 /\ i.replay => WriteKey(i) # NoContract
                 /\ Exposed(r) \subseteq {WriteKey(i)}
                 /\ ~i.replay => Exposed(r) = {}
      <3>1. CASE i.replay
        <4>1. RowOf(r).contract = WriteKey(i) /\ WriteKey(i) # NoContract
          BY <1>t, <2>s, <2>1, <2>6, <3>1 DEF Holds
        <4>2. Exposed(r) \subseteq {RowOf(r).contract}
          BY <2>6 DEF CInv, ExposureTrue
        <4> QED BY <2>2, <3>1, <4>1, <4>2
      <3>2. CASE ~i.replay
        <4>1. RowOf(r).state \in PreWriteStates
          BY <2>1, <3>2 DEF ClaimState, PreWriteStates
        <4>2. Exposed(r) = {}
          BY <1>t, <4>1 DEF IInv, PreWriteClean
        <4> QED BY <2>2, <3>2, <4>2
      <3> QED BY <3>1, <3>2
    <2>7. ASSUME NEW r \in Records, r \notin S, KeyOf[r] \in KeysOf(S)
          PROVE  Exposed(r) = {} /\ \A v \in Workers : ~(job[v].tok[r] > 0 /\ job[v].tok[r] = RowOf(r).token)
      <3>1. PICK s \in S : KeyOf[s] = KeyOf[r]
        BY <2>7 DEF KeysOf
      <3>2. RowOf(r).digest = s /\ s # r
        BY <2>1, <2>7, <3>1 DEF RowOf
      <3>3. Exposed(r) = {}
        BY <1>t, <3>2, Unbound
      <3> QED BY <1>t, <3>2, <3>3 DEF IInv, TokenBound
    <2>8. ASSUME NEW v \in Workers
          PROVE  JobOK(job'[v]) /\ PendingTrue(job[v])' /\ Holds(job[v])'
      <3>1. CASE v = w
        <4>1. job'[v] = j
          BY <1>t, <2>1, <3>1
        <4>2. JobOK(j) /\ PendingTrue(j)'
          BY <1>p, <2>3, <2>4 DEF JobOK, JobPlain, PendingTrue
        <4>3. Holds(j)'
          <5> SUFFICES ASSUME NEW r \in Records, j.tok[r] > 0, KeyOf[r] \notin forced
                       PROVE  RowOf(r)'.contract = WriteKey(j) /\ (j.replay => WriteKey(j) # NoContract)
            BY <2>1 DEF Holds, WriteKey
          <5> QED BY <2>s, <2>3, <2>4, <2>6
        <4> QED BY <4>1, <4>2, <4>3
      <3>2. CASE v # w
        <4>1. job'[v] = job[v] /\ job[v] \in Job
          BY <1>t, <2>1, <3>2
        <4> PICK x \in Job : x = job[v]
          BY <4>1
        <4>2. JobOK(x) /\ PendingTrue(x) /\ Holds(x)
          BY DEF CInv
        <4>3. PendingTrue(x)'
          BY <2>5, <4>2, PendingPersist
        <4>4. Holds(x)'
          <5> SUFFICES ASSUME NEW r \in Records, x.tok[r] > 0, x.tok[r] = RowOf(r)'.token,
                              KeyOf[r] \notin forced, x.replay \/ x.pc \in AfterStart
                       PROVE  RowOf(r)'.contract = WriteKey(x) /\ (x.replay => WriteKey(x) # NoContract)
            BY <2>1 DEF Holds, WriteKey
          <5>1. CASE KeyOf[r] \notin KeysOf(S)
            <6>1. RowOf(r)' = RowOf(r)
              BY <1>t, <2>1, <5>1 DEF RowOf
            <6> QED BY <4>2, <6>1 DEF Holds
          <5>2. CASE KeyOf[r] \in KeysOf(S)
            <6>1. PICK s \in S : KeyOf[s] = KeyOf[r]
              BY <5>2 DEF KeysOf
            <6>2. RowOf(r) = RowOf(s) /\ RowOf(r)' = RowOf(s)'
              BY <6>1 DEF RowOf
            <6>3. x.tok[r] = RowOf(r).token
              BY <2>2, <6>2
            <6>4. RowOf(s).digest = s /\ job[w].tok[s] = RowOf(s).token
              BY <2>1
            <6>5. w = v
              BY <1>t, <6>1, <6>3, <6>4, OneOwner
            <6> QED BY <3>2, <6>5
          <5> QED BY <5>1, <5>2
        <4> QED BY <4>1, <4>2, <4>3, <4>4
      <3> QED BY <3>1, <3>2
    <2>9. ExposureTrue'
      <3> SUFFICES ASSUME NEW r \in Records, KeyOf[r] \notin forced
                   PROVE  Exposed(r)' \subseteq {RowOf(r)'.contract}
        BY <2>1 DEF ExposureTrue
      <3>1. CASE r \in S
        <4>1. Exposed(r)' \subseteq Exposed(r) \cup {WriteKey(i)}
          BY <2>1, <2>q DEF Exposed
        <4> QED BY <2>6, <3>1, <4>1
      <3>2. CASE r \notin S
        <4>0. ~(q.tok[r] > 0)
          BY <2>q, <2>s, <3>2
        <4>1. Exposed(r)' \subseteq Exposed(r)
          BY <2>1, <4>0 DEF Exposed
        <4>2. CASE KeyOf[r] \in KeysOf(S)
          BY <2>7, <3>2, <4>1, <4>2
        <4>3. CASE KeyOf[r] \notin KeysOf(S)
          <5>1. RowOf(r)' = RowOf(r)
            BY <1>t, <2>1, <4>3 DEF RowOf
          <5> QED BY <4>1, <5>1 DEF CInv, ExposureTrue
        <4> QED BY <4>2, <4>3
      <3> QED BY <3>1, <3>2
    <2>10. PlainOnce'
      <3> SUFFICES ASSUME NEW r \in Records, KeyOf[r] \notin forced
                   PROVE  /\ effects[r][NoContract] <= 1
                          /\ \A p \in inflight' : p.tok[r] > 0 /\ p.contract = NoContract =>
                               /\ effects[r][NoContract] = 0
                               /\ \A o \in inflight' : o.tok[r] > 0 /\ o.contract = NoContract => o = p
        BY <2>1 DEF PlainOnce
      <3>1. /\ effects[r][NoContract] <= 1
            /\ \A p \in inflight : p.tok[r] > 0 /\ p.contract = NoContract =>
                 /\ effects[r][NoContract] = 0
                 /\ \A o \in inflight : o.tok[r] > 0 /\ o.contract = NoContract => o = p
        BY DEF CInv, PlainOnce
      <3>2. CASE q.tok[r] > 0 /\ q.contract = NoContract
        <4>1. r \in S /\ Exposed(r) = {}
          BY <2>q, <2>s, <2>6, <3>2
        <4>2. ~(effects[r][NoContract] > 0) /\ \A p \in inflight : ~(p.tok[r] > 0 /\ p.contract = NoContract)
          BY <4>1 DEF Exposed
        <4>3. effects[r][NoContract] \in Nat
          BY <1>t DEF TypeOK
        <4> QED BY <2>1, <4>2, <4>3
      <3>3. CASE ~(q.tok[r] > 0 /\ q.contract = NoContract)
        BY <2>1, <3>1, <3>3
      <3> QED BY <3>2, <3>3
    <2>11. ContractOnce'
      BY <2>1 DEF CInv, ContractOnce
    <2> QED BY <2>5, <2>8, <2>9, <2>10, <2>11 DEF CInv, BatchRow, JobOK, JobPlain
  <1> QED BY <1>1, <1>2

\* The destination applies a request: nothing it has not been told of, and
\* under a contract nothing twice.
LEMMA ApplyOnce ==
  ASSUME CInv, OInv', NEW q \in inflight, Apply(q)
  PROVE  CInv'
  <1>t. /\ TypeOK /\ q \in Request
        /\ \A r \in Records : effects[r] \in [Contracts \cup {NoContract} -> Nat]
    BY DEF CInv, OInv, IInv, TypeOK
  <1>1. /\ inflight' = inflight \ {q} /\ UNCHANGED <<ledger, job, forced>>
        /\ effects' = [r \in Records |->
                         IF q.tok[r] > 0 /\ ~Deduplicates(q, r)
                         THEN [effects[r] EXCEPT ![q.contract] = @ + 1]
                         ELSE effects[r]]
    BY DEF Apply
  <1>2. ASSUME NEW r \in Records, NEW c \in Contracts \cup {NoContract}
        PROVE  /\ effects[r][c] \in Nat
               /\ effects'[r][c] = IF q.tok[r] > 0 /\ ~Deduplicates(q, r) /\ c = q.contract
                                   THEN effects[r][c] + 1 ELSE effects[r][c]
    BY <1>t, <1>1 DEF Request
  <1>3. ExposureTrue'
    <2> SUFFICES ASSUME NEW r \in Records, KeyOf[r] \notin forced
                 PROVE  Exposed(r)' \subseteq {RowOf(r).contract}
      BY <1>1 DEF ExposureTrue, RowOf
    <2>1. Exposed(r)' \subseteq Exposed(r)
      BY <1>1, <1>2 DEF Exposed
    <2> QED BY <2>1 DEF CInv, ExposureTrue
  <1>4. PlainOnce'
    <2> SUFFICES ASSUME NEW r \in Records, KeyOf[r] \notin forced
                 PROVE  /\ effects'[r][NoContract] <= 1
                        /\ \A p \in inflight' : p.tok[r] > 0 /\ p.contract = NoContract =>
                             /\ effects'[r][NoContract] = 0
                             /\ \A o \in inflight' : o.tok[r] > 0 /\ o.contract = NoContract => o = p
      BY <1>1 DEF PlainOnce
    <2>1. /\ effects[r][NoContract] <= 1
          /\ \A p \in inflight : p.tok[r] > 0 /\ p.contract = NoContract =>
               /\ effects[r][NoContract] = 0
               /\ \A o \in inflight : o.tok[r] > 0 /\ o.contract = NoContract => o = p
      BY DEF CInv, PlainOnce
    <2>2. CASE q.tok[r] > 0 /\ q.contract = NoContract
      <3>1. effects[r][NoContract] = 0 /\ \A o \in inflight : o.tok[r] > 0 /\ o.contract = NoContract => o = q
        BY <2>1, <2>2
      <3>2. effects'[r][NoContract] <= 1
        BY <1>2, <3>1
      <3> QED BY <1>1, <3>1, <3>2
    <2>3. CASE ~(q.tok[r] > 0 /\ q.contract = NoContract)
      <3>1. effects'[r][NoContract] = effects[r][NoContract]
        BY <1>2, <2>3
      <3> QED BY <1>1, <2>1, <3>1
    <2> QED BY <2>2, <2>3
  <1>5. ContractOnce'
    <2> SUFFICES ASSUME NEW r \in Records, NEW c \in Contracts PROVE effects'[r][c] <= 1
      BY DEF ContractOnce
    <2>1. effects[r][c] <= 1 /\ c # NoContract
      BY LedgerConstants DEF CInv, ContractOnce
    <2>2. CASE q.tok[r] > 0 /\ ~Deduplicates(q, r) /\ c = q.contract
      BY <1>2, <2>1, <2>2 DEF Deduplicates
    <2> QED BY <1>2, <2>1, <2>2
  <1> QED BY <1>t, <1>1, <1>3, <1>4, <1>5, SameFollow, NoJobStep

\* The initial states: what an earlier release left has no contract.
LEMMA CInvInit == Init => CInv
  <1> SUFFICES ASSUME Init PROVE CInv
    OBVIOUS
  <1> USE LedgerConstants, RuntimeConstants
  <1>1. OInv
    BY OInvInit
  <1>2. \A w \in Workers : JobOK(job[w]) /\ PendingTrue(job[w]) /\ Holds(job[w])
    BY DEF Init, JobOK, PendingTrue, Holds, IdleJob, NoTokens
  <1>3. /\ inflight = {} /\ \A k \in Keys : ledger[k].contract = NoContract /\ BatchRow(ledger[k])
        /\ \A r \in Records : /\ effects[r][NoContract] \in {0, 1}
                              /\ \A c \in Contracts : effects[r][c] = 0
    <2>0. inflight = {}
      BY DEF Init
    <2>1. CASE ~Upgraded
      BY <2>0, <2>1 DEF Init, FreshInit, AbsentRow, NoEffects, BatchRow
    <2>2. CASE Upgraded
      <3>1. /\ ledger \in [Keys -> MigratedRows]
            /\ \A r \in Records : \E s \in Records :
                 effects[r] \in {NoEffects[s], [NoEffects[s] EXCEPT ![NoContract] = 1]}
        BY <2>2 DEF Init, LegacyInit
      <3>2. ASSUME NEW row \in MigratedRows PROVE row.contract = NoContract /\ BatchRow(row)
        <4>1. CASE row = AbsentRow
          BY <4>1 DEF AbsentRow, BatchRow
        <4>2. ASSUME NEW r \in Records, NEW state \in LegacyStates, NEW batch \in BOOLEAN,
                     NEW token \in 0..1, NEW live \in BOOLEAN,
                     row = MigratedRow(r, state, batch, token, live)
              PROVE  row.contract = NoContract /\ BatchRow(row)
          <5>1. row.contract = NoContract /\ row.batch = batch /\ row.state = MigratedState(state, batch)
            BY <4>2 DEF MigratedRow
          <5> QED BY <5>1 DEF MigratedState, LegacyStates, BatchRow
        <4> QED BY <4>1, <4>2 DEF MigratedRows
      <3>3. ASSUME NEW r \in Records
            PROVE  effects[r][NoContract] \in {0, 1} /\ \A c \in Contracts : effects[r][c] = 0
        BY <3>1 DEF NoEffects
      <3> QED BY <2>0, <3>1, <3>2, <3>3
    <2> QED BY <2>1, <2>2
  <1>4. ExposureTrue
    BY <1>3 DEF ExposureTrue, Exposed, RowOf
  <1>5. PlainOnce /\ ContractOnce
    BY <1>3 DEF PlainOnce, ContractOnce
  <1> QED BY <1>1, <1>2, <1>3, <1>4, <1>5 DEF CInv

\* Every step preserves it.
LEMMA CInvStep ==
  ASSUME OneContract, CInv, [Next]_vars
  PROVE  CInv'
  <1>1. OInv'
    BY OInvStep DEF CInv
  <1>2. ASSUME NEW w \in Workers, Proceed(w) PROVE CInv'
    BY <1>1, <1>2, AttemptStep, StartOnce, RearmOnce DEF Proceed
  <1>3. CASE DeliveryNext
    BY <1>1, <1>2, <1>3, DeliverOnce, ReplayOnce, StillOnce, AttemptStep, ApplyOnce DEF DeliveryNext
  <1> QED BY <1>1, <1>3, StillOnce DEF Next

\* While the connector keeps to one contract, no crash, expired claim, late
\* apply, redelivery, replay or upgrade makes the destination apply a record
\* twice, or under two contracts, unless an operator forced a replay of it; and
\* nothing that waits for an operator is lost (DeliverySafe).
THEOREM DeliveryIsSafe == OneContract => (Spec => []DeliverySafe)
  <1> SUFFICES ASSUME OneContract PROVE Spec => []DeliverySafe
    OBVIOUS
  <1>1. CInv => DeliverySafe
    <2> SUFFICES ASSUME CInv PROVE DeliverySafe
      OBVIOUS
    <2>1. ASSUME NEW r \in Records, KeyOf[r] \notin forced,
                 NEW c \in Contracts \cup {NoContract}, NEW d \in Contracts \cup {NoContract}
          PROVE  effects[r][c] <= 1 /\ (effects[r][c] > 0 /\ effects[r][d] > 0 => c = d)
      <3>1. effects[r][c] <= 1
        BY <2>1 DEF CInv, PlainOnce, ContractOnce
      <3>2. effects[r][c] > 0 /\ effects[r][d] > 0 => c \in Exposed(r) /\ d \in Exposed(r)
        BY DEF Exposed
      <3> QED BY <2>1, <3>1, <3>2 DEF CInv, ExposureTrue
    <2> QED BY <2>1 DEF CInv, OInv, DeliverySafe, AtMostOnceUnlessForced
  <1>2. CInv /\ [Next]_vars => CInv'
    BY CInvStep
  <1> QED BY <1>1, <1>2, CInvInit, PTL DEF Spec

\* A worker's job changes only in a step of its own.
LEMMA OwnStep ==
  ASSUME TypeOK, Next, NEW w \in Workers, job'[w] # job[w]
  PROVE  \/ \E S \in SUBSET Records : Deliver(w, S)
         \/ \E r \in Records, c \in Caps : Replay(w, r, c)
         \/ Proceed(w) \/ Crash(w)
  <1>1. ASSUME NEW v \in Workers, NEW j, job' = [job EXCEPT ![v] = j] PROVE v = w
    BY <1>1 DEF TypeOK
  <1>2. ASSUME NEW v \in Workers, NEW S \in SUBSET Records, Deliver(v, S) PROVE v = w
    BY <1>1, <1>2 DEF Deliver
  <1>3. ASSUME NEW v \in Workers, NEW r \in Records, NEW c \in Caps, Replay(v, r, c) PROVE v = w
    BY <1>1, <1>3 DEF Replay
  <1>4. ASSUME NEW v \in Workers, Crash(v) PROVE v = w
    BY <1>1, <1>4 DEF Crash
  <1>5. ASSUME NEW v \in Workers, Proceed(v) PROVE v = w
    <2>1. CASE \E r \in Records : SpoolAmbiguous(v, r)
      BY <1>1, <2>1 DEF SpoolAmbiguous
    <2>2. CASE \E r \in Records, changed \in BOOLEAN : Reject(v, r, changed)
      BY <1>1, <2>2 DEF Reject
    <2>3. CASE MarkRejected(v)
      BY <1>1, <2>3 DEF MarkRejected
    <2>4. CASE Unspool(v)
      BY <1>1, <2>4 DEF Unspool
    <2>5. CASE StartWrite(v)
      BY <1>1, <2>5 DEF StartWrite
    <2>6. CASE Acked(v)
      BY <1>1, <2>6 DEF Acked
    <2>7. CASE RolledBack(v) \/ Unknown(v)
      BY <1>1, <2>7 DEF RolledBack, Unknown
    <2>8. CASE MarkRolledBack(v) \/ MarkUnknown(v)
      BY <1>1, <2>8 DEF MarkRolledBack, MarkUnknown, MarkFailed
    <2>9. CASE Cleanup(v)
      BY <1>1, <2>9 DEF Cleanup
    <2>10. CASE Rearm(v)
      BY <1>1, <2>10 DEF Rearm
    <2> QED BY <1>5, <2>1, <2>2, <2>3, <2>4, <2>5, <2>6, <2>7, <2>8, <2>9, <2>10 DEF Proceed
  <1> QED BY <1>2, <1>3, <1>4, <1>5 DEF Next, DeliveryNext, ReplayCommitted, Apply, Expire, Reconfigure

\* A worker goes from its claims to the call only across the write boundary.
LEMMA Starts ==
  ASSUME TypeOK, Next, NEW w \in Workers, job[w].pc = "claimed", job'[w].pc = "writing"
  PROVE  StartWrite(w) /\ OwnsAllClaims(job[w], ClaimState(job[w].replay))
  <1> PICK i : i = job[w]
    OBVIOUS
  <1>t. job \in [Workers -> Job] /\ i \in Job /\ i \in JobFields /\ i.pc = "claimed"
    BY DEF TypeOK, Job
  <1>j. ASSUME NEW j, job' = [job EXCEPT ![w] = j] PROVE j.pc = "writing"
    BY <1>j, <1>t
  <1>0. ~(job' = [job EXCEPT ![w] = IdleJob])
    BY <1>j DEF IdleJob
  <1>1. Proceed(w)
    BY <1>0, OwnStep DEF Deliver, Replay, Crash
  <1>2. ~\E r \in Records : SpoolAmbiguous(w, r)
    <2> SUFFICES ASSUME NEW r \in Records, SpoolAmbiguous(w, r) PROVE FALSE
      OBVIOUS
    <2> PICK j : j = [i EXCEPT !.amb = @ \ {r}]
      OBVIOUS
    <2>1. j.pc = "claimed" /\ job' = [job EXCEPT ![w] = Continue(j)]
      BY <1>t DEF SpoolAmbiguous, JobFields
    <2>2. Continue(j).pc # "writing"
      BY <2>1 DEF Continue, IdleJob
    <2> QED BY <1>j, <2>1, <2>2
  <1>3. ~\E r \in Records, changed \in BOOLEAN : Reject(w, r, changed)
    <2> SUFFICES ASSUME NEW r \in Records, NEW changed \in BOOLEAN, Reject(w, r, changed) PROVE FALSE
      OBVIOUS
    <2> PICK j : j = [i EXCEPT !.pc = "rejecting", !.cur = r, !.dropped = changed]
      OBVIOUS
    <2>1. j.pc = "rejecting" /\ job' = [job EXCEPT ![w] = j]
      BY <1>t DEF Reject, JobFields
    <2> QED BY <1>j, <2>1
  <1>4. StartWrite(w)
    BY <1>1, <1>2, <1>3 DEF Proceed, MarkRejected, Unspool, Acked, RolledBack, Unknown,
          MarkRolledBack, MarkUnknown, MarkFailed, Cleanup, Rearm
  <1> QED BY <1>0, <1>4 DEF StartWrite

\* What the destination may have of a record, as its owner or an earlier call
\* of its worker knows it.
LEMMA OwnerHarmless ==
  ASSUME OneContract, CInv, NEW w \in Workers, NEW r \in Records, KeyOf[r] \notin forced,
         job[w].tok[r] > 0, JobPlain(job[w])
  PROVE  /\ RowOf(r).state \in PreWriteStates => \A c : Harmless(r, c)
         /\ job[w].tok[r] = RowOf(r).token /\ (job[w].replay \/ job[w].pc \in AfterStart)
              => Exposed(r) \subseteq {WriteKey(job[w])}
         /\ job[w].tok[r] = RowOf(r).token /\ job[w].replay => Harmless(r, WriteKey(job[w]))
         /\ Exposed(r) \subseteq {WriteKey(job[w])} /\ job[w].safe
              => Harmless(r, ScalarContract(job[w].caps))
  <1> PICK i : i = job[w]
    OBVIOUS
  <1>t. IInv /\ i \in Job /\ Holds(i) /\ ExposureTrue
    BY DEF CInv, OInv, IInv, TypeOK
  <1>k. /\ WriteKey(i) = AttemptContract(i)
        /\ WriteKey(i) = IF i.batch /\ ~Cross THEN NoContract ELSE Contract
        /\ i.caps.contract = Contract
        /\ i.safe => AttemptContract(i) # NoContract
    BY <1>t, KeyIsContract DEF JobPlain
  <1>c. WriteKey(i) # NoContract => WriteKey(i) \in Contracts /\ WriteKey(i) = Contract
    BY <1>k, OneContractIs
  <1>1. RowOf(r).state \in PreWriteStates => \A c : Harmless(r, c)
    BY <1>t DEF IInv, PreWriteClean, Harmless
  <1>2. i.tok[r] = RowOf(r).token /\ (i.replay \/ i.pc \in AfterStart)
          => /\ Exposed(r) \subseteq {WriteKey(i)}
             /\ i.replay => WriteKey(i) # NoContract
    BY <1>t DEF Holds, ExposureTrue
  <1>3. i.tok[r] = RowOf(r).token /\ i.replay => Harmless(r, WriteKey(i))
    BY <1>2, <1>c DEF Harmless
  <1>4. Exposed(r) \subseteq {WriteKey(i)} /\ i.safe => Harmless(r, ScalarContract(i.caps))
    BY <1>k, <1>c DEF Harmless, ScalarContract
  <1> QED BY <1>1, <1>2, <1>3, <1>4

LEMMA IdempotentStep ==
  ASSUME OneContract, CInv, Next
  PROVE  WritesAreIdempotent
  <1> SUFFICES ASSUME NEW w \in Workers, NEW r \in Records, job[w].pc = "claimed",
                      job'[w].pc = "writing", job[w].tok[r] > 0, KeyOf[r] \notin forced
               PROVE  Harmless(r, WriteKey(job[w]))
    BY DEF WritesAreIdempotent
  <1>1. TypeOK /\ JobPlain(job[w])
    BY DEF CInv, OInv, IInv, JobOK, IdleJob
  <1>2. OwnsAllClaims(job[w], ClaimState(job[w].replay))
    BY <1>1, Starts
  <1>3. RowOf(r).token = job[w].tok[r] /\ RowOf(r).state = ClaimState(job[w].replay)
    BY <1>2 DEF OwnsAllClaims, OwnsClaim, Owns, Held
  <1>4. CASE job[w].replay
    BY <1>1, <1>3, <1>4, OwnerHarmless
  <1>5. CASE ~job[w].replay
    <2>1. RowOf(r).state \in PreWriteStates
      BY <1>3, <1>5 DEF ClaimState, PreWriteStates
    <2> QED BY <1>1, <2>1, OwnerHarmless
  <1> QED BY <1>4, <1>5

LEMMA RetrySafeStep ==
  ASSUME OneContract, CInv, Next
  PROVE  RetrySafeTruth
  <1> SUFFICES ASSUME NEW w \in Workers, NEW r \in Records, receipt'[r] # receipt[r],
                      receipt'[r].safe, job'[w] # job[w], job[w].tok[r] > 0,
                      KeyOf[r] \notin forced
               PROVE  Harmless(r, ScalarContract(job[w].caps))
    BY DEF RetrySafeTruth
  <1> USE LedgerConstants
  <1> PICK i : i = job[w]
    OBVIOUS
  <1> PICK h : h = Harmless(r, ScalarContract(i.caps))
    OBVIOUS
  <1>t. /\ TypeOK /\ IInv /\ i \in Job /\ i \in JobFields /\ JobPlain(i) /\ WriteTrue(i)
        /\ i.batch \in BOOLEAN /\ i.replay \in BOOLEAN
    <2>1. TypeOK /\ IInv /\ i \in Job /\ JobOK(i) /\ WriteTrue(i)
      BY DEF CInv, OInv, IInv, TypeOK
    <2>2. JobPlain(i)
      BY <2>1 DEF JobOK, IdleJob, NoTokens
    <2> QED BY <2>1, <2>2 DEF Job, JobFields
  <1>s. ASSUME NEW S \in SUBSET Records, NEW status, NEW safe,
               receipt' = Returned(S, status, safe)
        PROVE  safe /\ r \in S
    BY <1>s DEF Returned
  <1>h. /\ RowOf(r).state \in PreWriteStates => h
        /\ i.tok[r] = RowOf(r).token /\ (i.replay \/ i.pc \in AfterStart) /\ i.safe => h
        /\ Exposed(r) \subseteq {WriteKey(i)} /\ i.safe => h
    BY <1>t, OwnerHarmless
  <1>d. Held(i) \in SUBSET Records /\ \A s \in Held(i) : s \in Records
    BY DEF Held
  <1>1. ASSUME NEW S \in SUBSET Records, Deliver(w, S) PROVE h
    <2>1. receipt'[r] = IF r \in S THEN ClaimReceipt(r) ELSE receipt[r]
      BY <1>1 DEF Deliver
    <2> QED BY <2>1 DEF ClaimReceipt
  <1>2. ASSUME UNCHANGED receipt PROVE h
    BY <1>2
  <1>3. ASSUME NEW S \in SUBSET Records, NEW status, receipt' = Returned(S, status, FALSE) PROVE h
    BY <1>3, <1>s
  <1>4. CASE MarkRejected(w)
    <2>1. PICK s \in Records : s = i.cur
      BY <1>4, <1>t DEF MarkRejected, Job
    <2>2. CASE /\ OwnsClaim(RowOf(s), s, i.tok[s], ClaimState(i.replay))
               /\ receipt' = Returned({s}, "quarantined", RejectSafe(i))
      <3>1. r = s /\ RejectSafe(i)
        BY <1>s, <2>2
      <3>2. RowOf(r).token = i.tok[r] /\ RowOf(r).state = ClaimState(i.replay)
        BY <2>2, <3>1 DEF OwnsClaim, Owns
      <3>3. CASE ~i.replay
        BY <1>h, <3>2, <3>3 DEF ClaimState, PreWriteStates
      <3>4. CASE i.replay
        BY <1>h, <3>1, <3>2, <3>4 DEF RejectSafe
      <3> QED BY <3>3, <3>4
    <2> QED BY <1>2, <1>3, <1>4, <2>1, <2>2 DEF MarkRejected
  <1>5. CASE Acked(w)
    <2>1. CASE receipt' = Returned(Held(i), "ambiguous", ~i.batch /\ i.safe)
      <3>1. ~i.batch /\ i.safe /\ r \in Held(i)
        BY <1>d, <1>s, <2>1
      <3>2. effects[r][WriteKey(i)] > 0
        BY <1>5, <1>t, <3>1 DEF Acked, WriteTrue
      <3>3. WriteKey(i) \in Contracts \cup {NoContract}
        BY <1>t DEF WriteKey, JobFields, Capabilities
      <3>4. WriteKey(i) \in Exposed(r)
        BY <3>2, <3>3 DEF Exposed
      <3>5. Exposed(r) \subseteq {WriteKey(i)}
        BY <3>4 DEF CInv, ExposureTrue
      <3> QED BY <1>h, <3>1, <3>5
    <2> QED BY <1>2, <1>5, <2>1 DEF Acked
  <1>6. CASE MarkRolledBack(w)
    <2>1. CASE /\ OwnsAll(i, WriteState(i.batch, i.replay))
               /\ receipt' = Returned(Held(i), "quarantined", i.replay => i.safe)
      <3>1. r \in Held(i) /\ (i.replay => i.safe) /\ i.pc = "rolledback"
        BY <1>6, <1>d, <1>s, <2>1 DEF MarkRolledBack, MarkFailed
      <3>2. RowOf(r).token = i.tok[r] /\ RowOf(r).state = WriteState(i.batch, i.replay)
        BY <2>1, <3>1 DEF OwnsAll, Owns
      <3>3. CASE i.replay
        BY <1>h, <3>1, <3>2, <3>3
      <3>4. CASE ~i.replay
        <4>1. RowOf(r).state \in FirstWriteStates
          BY <1>t, <3>2, <3>4 DEF WriteState, FirstWriteStates
        <4>2. Exposed(r) = {}
          BY <1>t, <3>1, <3>2, <4>1 DEF IInv, FirstWrite
        <4> QED BY <4>2 DEF Harmless
      <3> QED BY <3>3, <3>4
    <2> QED BY <1>2, <1>6, <2>1 DEF MarkRolledBack, MarkFailed
  <1>7. CASE MarkUnknown(w)
    <2>1. CASE /\ OwnsAll(i, WriteState(i.batch, i.replay))
               /\ receipt' = Returned(Held(i), "quarantined", i.safe)
      <3>1. r \in Held(i) /\ i.safe /\ i.pc = "unknown"
        BY <1>7, <1>d, <1>s, <2>1 DEF MarkUnknown, MarkFailed
      <3>2. RowOf(r).token = i.tok[r]
        BY <2>1, <3>1 DEF OwnsAll, Owns
      <3> QED BY <1>h, <3>1, <3>2 DEF AfterStart
    <2> QED BY <1>2, <1>7, <2>1 DEF MarkUnknown, MarkFailed
  <1>8. CASE \/ \E s \in Records : SpoolAmbiguous(w, s)
             \/ \E s \in Records, changed \in BOOLEAN : Reject(w, s, changed)
             \/ RolledBack(w) \/ Unknown(w) \/ Rearm(w)
             \/ \E s \in Records, c \in Caps : Replay(w, s, c)
             \/ Crash(w)
    BY <1>2, <1>3, <1>8 DEF SpoolAmbiguous, Reject, RolledBack, Unknown, Rearm, Replay, Crash
  <1>9. CASE Unspool(w) \/ StartWrite(w) \/ Cleanup(w)
    <2>1. Unspool(w) => {i.cur} \in SUBSET Records
      BY <1>t DEF Unspool, Job
    <2> QED BY <1>2, <1>3, <1>9, <1>d, <2>1 DEF Unspool, StartWrite, Cleanup
  <1>10. Proceed(w) => h
    BY <1>4, <1>5, <1>6, <1>7, <1>8, <1>9 DEF Proceed
  <1> QED BY <1>t, <1>1, <1>8, <1>10, OwnStep

\* While the connector keeps to one contract, a write goes out only if the
\* destination has not seen the record or will recognise it, and retry_safe is
\* returned only where another write would be harmless (ReplaySafe).
THEOREM ReplayIsSafe == OneContract => (Spec => ReplaySafe)
  <1> SUFFICES ASSUME OneContract PROVE Spec => ReplaySafe
    OBVIOUS
  <1>1. CInv /\ [Next]_vars => CInv'
    BY CInvStep
  <1>2. CInv /\ [Next]_vars => [WritesAreIdempotent /\ RetrySafeTruth]_vars
    BY IdempotentStep, RetrySafeStep
  <1>3. Spec => [][WritesAreIdempotent /\ RetrySafeTruth]_vars
    BY <1>1, <1>2, CInvInit, PTL DEF Spec
  <1> QED BY <1>3 DEF ReplaySafe

=============================================================================
