----------------------------- MODULE RelayQueue -----------------------------
(***************************************************************************)
(* The sealed relay queue (src/polymorph/relay.py) with the lock of the    *)
(* source trust registry it verifies under (src/polymorph/signing.py).     *)
(* Threads of one process share the SQLite queue, its dead-letter table    *)
(* and one SourceTrustStore, whose lock is the verification session.       *)
(*                                                                         *)
(* A record stands for its digest and its canonical wire bytes.  A lease   *)
(* id is a random string in the code: here it is any id that nothing       *)
(* refers to any more.  A lease lapses when its expiry passes.  lease()    *)
(* compares with the time it read before it waited for the session and the *)
(* write lock, so it sees the lapses and expiries up to then and no later. *)
(***************************************************************************)
EXTENDS Naturals, FiniteSetsExt

CONSTANTS Records,     \* sealed records for one destination connector
          Keys,        \* delivery identities
          KeyOf,       \* the identity a record claims
          Sources,     \* source signing keys
          SourceOf,    \* the key that signed a record
          Size,        \* wire bytes of a record
          MaxWire,     \* limits.max_record_wire_bytes
          Budget,      \* wire_budget of a lease call
          Limit,       \* lease limit
          MaxDead,     \* MAX_DEAD_LETTERS_PER_LEASE
          Threads,     \* relay workers and intake threads
          Nobody,      \* the session is free
          LeaseIds,    \* bound: lease ids in use at one time
          MaxArrivals, \* bound: rows ever inserted
          MaxFaults    \* bound: crashes, late leases, refusals and rotten rows

ASSUME RelayConstants ==
    /\ IsFiniteSet(Records)
    /\ KeyOf \in [Records -> Keys]
    /\ SourceOf \in [Records -> Sources]
    /\ Size \in [Records -> Nat]
    /\ {MaxWire, Budget, Limit, MaxDead, MaxArrivals, MaxFaults} \subseteq Nat
    /\ LeaseIds \subseteq Nat \ {0}
    /\ Nobody \notin Threads

VARIABLES at,       \* received_at of a queued record, 0 if it is not queued
          lease,    \* lease_id of a queued record, 0 for NULL
          live,     \* queued records whose lease has not expired
          rot,      \* what became of the stored bytes of a queued record
          dead,     \* dead-lettered records
          refused,  \* records that have expired or that the policy refuses
          revoked,  \* source keys revoked in the trust store
          session,  \* the thread inside a verification session
          thread,   \* what each thread is doing
          held,     \* lease ids each thread was given and has not used
          arrivals, \* rows inserted so far
          faults    \* faults so far

vars == <<at, lease, live, rot, dead, refused, revoked, session, thread, held,
          arrivals, faults>>

\* A thread has verified a batch it is about to insert, or has read the time
\* of a lease call: the leases lapsed and the records refused by then.
ThreadState == [op    : {"idle", "enqueue", "lease"},
                batch : SUBSET Records,
                seen  : SUBSET (Records \X LeaseIds),
                past  : SUBSET Records]
Idle == [op |-> "idle", batch |-> {}, seen |-> {}, past |-> {}]
Enqueuing(S) == [op |-> "enqueue", batch |-> S, seen |-> {}, past |-> {}]
Leasing(seen, past) == [op |-> "lease", batch |-> {}, seen |-> seen, past |-> past]

NoLeases == [r \in Records |-> 0]
Queued(r) == at[r] > 0

Fault == faults < MaxFaults /\ faults' = faults + 1

-----------------------------------------------------------------------------
(* enqueue_many.                                                           *)

\* A session that covers the verification and not the commit.
EnqueueVerifyUnfenced(t, S) ==
    /\ thread[t] = Idle
    /\ session = Nobody
    /\ S # {}
    /\ arrivals + Cardinality(S) <= MaxArrivals
    /\ \A r \in S : Size[r] <= MaxWire /\ SourceOf[r] \notin revoked /\ r \notin refused
    /\ thread' = [thread EXCEPT ![t] = Enqueuing(S)]
    /\ UNCHANGED <<at, lease, live, rot, dead, refused, revoked, session, held,
                   arrivals, faults>>

\* Every record of the batch is verified inside one session, which stays open.
\* One record that is too large, revoked or refused raises for the batch.
EnqueueVerify(t, S) ==
    /\ thread[t] = Idle
    /\ session = Nobody
    /\ S # {}
    /\ arrivals + Cardinality(S) <= MaxArrivals
    /\ \A r \in S : Size[r] <= MaxWire /\ SourceOf[r] \notin revoked /\ r \notin refused
    /\ session' = t
    /\ thread' = [thread EXCEPT ![t] = Enqueuing(S)]
    /\ UNCHANGED <<at, lease, live, rot, dead, refused, revoked, held, arrivals, faults>>

\* A dead letter that is looked up by digest instead of identity.
DeadLetteredByDigest(r) == r \in dead

DeadLettered(r) == \E d \in dead : KeyOf[d] = KeyOf[r]

\* A queued row must be the same record with the same bytes; an identity that
\* is queued for another record, or dead-lettered, rolls the batch back.
Insertable(S) ==
    /\ \A r \in S, q \in Records : KeyOf[q] = KeyOf[r] /\ (Queued(q) \/ q \in S) => q = r
    /\ \A r \in S : IF Queued(r) THEN rot[r] = "no" ELSE ~DeadLettered(r)

Fresh(S) == {r \in S : ~Queued(r)}

\* One transaction, inside the session.
EnqueueCommit(t) ==
    LET S == thread[t].batch
        n == Cardinality(Fresh(S))
    IN /\ thread[t].op = "enqueue"
       /\ IF Insertable(S)
          THEN /\ \E order \in [Fresh(S) -> (arrivals + 1) .. (arrivals + n)] :
                    /\ \A r, q \in Fresh(S) : order[r] = order[q] => r = q
                    /\ at' = [r \in Records |-> IF r \in Fresh(S) THEN order[r] ELSE at[r]]
               /\ arrivals' = arrivals + n
          ELSE UNCHANGED <<at, arrivals>>
       /\ session' = IF session = t THEN Nobody ELSE session
       /\ thread' = [thread EXCEPT ![t] = Idle]
       /\ UNCHANGED <<lease, live, rot, dead, refused, revoked, held, faults>>

-----------------------------------------------------------------------------
(* lease.                                                                  *)

Lapsed == {p \in Records \X LeaseIds :
              Queued(p[1]) /\ lease[p[1]] = p[2] /\ p[1] \notin live}

\* The call reads the time it will compare with.
LeaseBegin(t) ==
    /\ thread[t] = Idle
    /\ thread' = [thread EXCEPT ![t] = Leasing(Lapsed, refused)]
    /\ UNCHANGED <<at, lease, live, rot, dead, refused, revoked, session, held,
                   arrivals, faults>>

\* A scan that remembers which rows had lapsed and not under which lease.
AvailableByRow(t) ==
    {r \in Records : Queued(r) /\ (lease[r] = 0 \/ \E i \in LeaseIds : <<r, i>> \in thread[t].seen)}

\* Rows the scan selects: no lease, or one that had lapsed.
Available(t) ==
    {r \in Records : Queued(r) /\ (lease[r] = 0 \/ <<r, lease[r]>> \in thread[t].seen)}

\* The stored row fails: too long, not decodable, revoked, expired or refused.
Bad(t, r) == rot[r] # "no" \/ SourceOf[r] \in revoked \/ r \in thread[t].past

Older(t, r) == {s \in Available(t) : at[s] < at[r]}

\* Bytes the scan has consumed.  A row over the record limit is never read; a
\* row that turns out bad is.
Spent(S) == MapThenSumSet(LAMBDA r : Size[r], {r \in S : rot[r] # "size"})

OverBudget(t, r) == rot[r] # "size" /\ Spent(Older(t, r)) + Size[r] > Budget
AtLimit(t, r) == Cardinality({s \in Older(t, r) : ~Bad(t, s)}) >= Limit
AtDeadLimit(t, r) == Bad(t, r) /\ Cardinality({s \in Older(t, r) : Bad(t, s)}) >= MaxDead

\* A scan that stops at a row it cannot deliver.
StopsAtPoison(t, r) == AtLimit(t, r) \/ OverBudget(t, r) \/ Bad(t, r)

\* The breaks of the loop.
Stops(t, r) == AtLimit(t, r) \/ OverBudget(t, r) \/ AtDeadLimit(t, r)

\* A scan that goes on after the dead-letter limit.
ScannedSkipping(t) == {r \in Available(t) : ~Stops(t, r)}

\* The rows before the first break, in the order of their arrival.
Scanned(t) ==
    LET breaks == {s \in Available(t) : Stops(t, s)}
    IN {r \in Available(t) : \A s \in breaks : at[r] < at[s]}

Leasable(t) == {r \in Scanned(t) : ~Bad(t, r)}
Poison(t) == {r \in Scanned(t) : Bad(t, r)}

\* An oversized row that is deleted and not kept.
DeadLettersDecoded(t) == dead \cup {r \in Poison(t) : rot[r] # "size"}

\* Every poison row is inserted before it is deleted, oversized rows without
\* their bytes.
DeadLetters(t) == dead \cup Poison(t)

\* The call raises after its commit: the byte budget broke the loop and nothing
\* was leased.
LeaseRaises(t) ==
    /\ Leasable(t) = {}
    /\ \E r \in Available(t) : /\ Older(t, r) \subseteq Scanned(t)
                               /\ ~AtLimit(t, r)
                               /\ OverBudget(t, r)

FreeIds(r) ==
    {i \in LeaseIds : /\ i # lease[r]
                      /\ \A t \in Threads : held[t][r] # i /\ <<r, i>> \notin thread[t].seen}

\* One transaction inside one session: dead-letter, fence and hand out.  The
\* lease may have expired already when the call waited too long.
LeaseCommit(t) ==
    LET G == Leasable(t)
        D == Poison(t)
        id == [r \in Records |-> CHOOSE i \in FreeIds(r) : TRUE]
    IN /\ thread[t].op = "lease"
       /\ session = Nobody
       /\ \A r \in G : FreeIds(r) # {}
       /\ at' = [r \in Records |-> IF r \in D THEN 0 ELSE at[r]]
       /\ lease' = [r \in Records |-> IF r \in D THEN 0
                                      ELSE IF r \in G THEN id[r] ELSE lease[r]]
       /\ \/ live' = (live \ D) \cup G /\ UNCHANGED faults
          \/ G # {} /\ live' = live \ (D \cup G) /\ Fault
       /\ rot' = [r \in Records |-> IF r \in D THEN "no" ELSE rot[r]]
       /\ dead' = DeadLetters(t)
       /\ held' = [held EXCEPT ![t] = [r \in Records |-> IF r \in G THEN id[r] ELSE @[r]]]
       /\ thread' = [thread EXCEPT ![t] = Idle]
       /\ UNCHANGED <<refused, revoked, session, arrivals>>

-----------------------------------------------------------------------------
(* ack_many and release.                                                   *)

OwnsLease(t, r) == held[t][r] > 0 /\ Queued(r) /\ lease[r] = held[t][r] /\ r \in live

Forget(t, S) == [held EXCEPT ![t] = [r \in Records |-> IF r \in S THEN 0 ELSE @[r]]]

RemoveRows(S) ==
    /\ at' = [r \in Records |-> IF r \in S THEN 0 ELSE at[r]]
    /\ lease' = [r \in Records |-> IF r \in S THEN 0 ELSE lease[r]]
    /\ rot' = [r \in Records |-> IF r \in S THEN "no" ELSE rot[r]]
    /\ live' = live \ S

\* Every lease of the batch must be current and unexpired, or nothing happens.
Ack(t, S) ==
    /\ thread[t] = Idle
    /\ S # {}
    /\ \A r \in S : held[t][r] > 0
    /\ IF \A r \in S : OwnsLease(t, r)
       THEN RemoveRows(S)
       ELSE UNCHANGED <<at, lease, rot, live>>
    /\ held' = Forget(t, S)
    /\ UNCHANGED <<dead, refused, revoked, session, thread, arrivals, faults>>

Release(t, r) ==
    /\ thread[t] = Idle
    /\ held[t][r] > 0
    /\ IF OwnsLease(t, r)
       THEN lease' = [lease EXCEPT ![r] = 0] /\ live' = live \ {r}
       ELSE UNCHANGED <<lease, live>>
    /\ held' = Forget(t, {r})
    /\ UNCHANGED <<at, rot, dead, refused, revoked, session, thread, arrivals, faults>>

-----------------------------------------------------------------------------
(* The trust store and the environment.                                    *)

\* revoke waits for an open session.
Revoke(s) ==
    /\ session = Nobody
    /\ s \notin revoked
    /\ revoked' = revoked \cup {s}
    /\ UNCHANGED <<at, lease, live, rot, dead, refused, session, thread, held,
                   arrivals, faults>>

\* A transfer expires, or the relay is reopened with a narrower policy.
Refuse(r) ==
    /\ r \notin refused
    /\ Fault
    /\ refused' = refused \cup {r}
    /\ UNCHANGED <<at, lease, live, rot, dead, revoked, session, thread, held, arrivals>>

\* Stored bytes rot, or a row is over the record limit of a reopened relay.
Rot(r, kind) ==
    /\ Queued(r)
    /\ rot[r] = "no"
    /\ Fault
    /\ rot' = [rot EXCEPT ![r] = kind]
    /\ UNCHANGED <<at, lease, live, dead, refused, revoked, session, thread, held, arrivals>>

Lapse(r) ==
    /\ r \in live
    /\ live' = live \ {r}
    /\ UNCHANGED <<at, lease, rot, dead, refused, revoked, session, thread, held,
                   arrivals, faults>>

\* A thread dies with its leases; a session it was in is closed.
Crash(t) ==
    /\ thread[t] # Idle \/ held[t] # NoLeases
    /\ Fault
    /\ thread' = [thread EXCEPT ![t] = Idle]
    /\ held' = [held EXCEPT ![t] = NoLeases]
    /\ session' = IF session = t THEN Nobody ELSE session
    /\ UNCHANGED <<at, lease, live, rot, dead, refused, revoked, arrivals>>

Init ==
    /\ at = [r \in Records |-> 0]
    /\ lease = NoLeases
    /\ live = {}
    /\ rot = [r \in Records |-> "no"]
    /\ dead = {}
    /\ refused = {}
    /\ revoked = {}
    /\ session = Nobody
    /\ thread = [t \in Threads |-> Idle]
    /\ held = [t \in Threads |-> NoLeases]
    /\ arrivals = 0
    /\ faults = 0

Next ==
    \/ \E t \in Threads, S \in SUBSET Records : EnqueueVerify(t, S)
    \/ \E t \in Threads : EnqueueCommit(t)
    \/ \E t \in Threads : LeaseBegin(t)
    \/ \E t \in Threads : LeaseCommit(t)
    \/ \E t \in Threads, S \in SUBSET Records : Ack(t, S)
    \/ \E t \in Threads, r \in Records : Release(t, r)
    \/ \E s \in Sources : Revoke(s)
    \/ \E r \in Records : Refuse(r)
    \/ \E r \in Records, kind \in {"bytes", "size"} : Rot(r, kind)
    \/ \E r \in Records : Lapse(r)
    \/ \E t \in Threads : Crash(t)

Spec == Init /\ [][Next]_vars

\* Workers keep polling, locks are granted eventually, a lease that nobody
\* acknowledges lapses, and the worker of a record acknowledges it if it gets
\* the lease again and again.
Fairness ==
    /\ \A t \in Threads : /\ SF_vars(EnqueueCommit(t))
                          /\ SF_vars(LeaseBegin(t))
                          /\ SF_vars(LeaseCommit(t))
    /\ \A r \in Records : /\ WF_vars(Lapse(r))
                          /\ SF_vars(\E t \in Threads : OwnsLease(t, r) /\ Ack(t, {r}))

FairSpec == Spec /\ Fairness

-----------------------------------------------------------------------------
(* Properties.                                                             *)

\* The state of the relay has its type; only queued rows are leased or rotten.
TypeOK ==
    /\ at \in [Records -> Nat]
    /\ lease \in [Records -> LeaseIds \cup {0}]
    /\ live \subseteq {r \in Records : lease[r] > 0}
    /\ rot \in [Records -> {"no", "bytes", "size"}]
    /\ \A r \in Records : ~Queued(r) => lease[r] = 0 /\ rot[r] = "no"
    /\ dead \in SUBSET Records
    /\ refused \in SUBSET Records
    /\ revoked \in SUBSET Sources
    /\ session \in Threads \cup {Nobody}
    /\ thread \in [Threads -> ThreadState]
    /\ held \in [Threads -> [Records -> LeaseIds \cup {0}]]
    /\ arrivals \in Nat
    /\ faults \in Nat

\* A delivery identity is queued for one record at most, and never again once
\* it is dead-lettered, through acknowledgements, re-sends and conflicts.
OneRecordPerIdentity ==
    \A r, q \in Records :
        KeyOf[r] = KeyOf[q] /\ Queued(r) => (Queued(q) => q = r) /\ q \notin dead

\* Once revoke has returned, no record of that key is accepted or leased, also
\* not by a call that verified it before.
RevocationFence ==
    [][\A r \in Records :
          \/ ~Queued(r) /\ Queued(r)'
          \/ lease'[r] \notin {0, lease[r]}
          => SourceOf[r] \notin revoked]_vars

\* While a lease is live only its holder ends it: no other thread releases,
\* acknowledges, dead-letters or re-leases the record, whatever it saw before.
LeaseOwned ==
    [][\A t \in Threads, r \in Records :
          /\ OwnsLease(t, r)
          /\ thread'[t] = thread[t]
          /\ held'[t] = held[t]
          => at'[r] = at[r] /\ lease'[r] = lease[r]]_vars

\* A record leaves the queue into the dead-letter table or by the current
\* holder's acknowledgement, never by a stale one and never silently.
NeverDropped ==
    [][\A r \in Records :
          Queued(r) /\ ~Queued(r)' =>
              \/ r \in dead'
              \/ \E t \in Threads : OwnsLease(t, r) /\ held'[t][r] = 0]_vars

\* A lease call never hands out a record and leaves an older one it could see
\* behind in the queue without a lease of its own.
NoOvertaking ==
    [][\A t \in Threads, r, s \in Records :
          /\ held'[t][r] \notin {0, held[t][r]}
          /\ s \in Available(t)
          /\ at[s] < at[r]
          => s \in dead' \/ held'[t][s] \notin {0, held[t][s]}]_vars

\* Every queued record leaves the queue: poison in front of it, crashed
\* workers and lapsed leases do not starve it.
Drains == \A r \in Records : Queued(r) ~> ~Queued(r)
=============================================================================
