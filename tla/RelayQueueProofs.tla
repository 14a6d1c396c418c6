-------------------------- MODULE RelayQueueProofs --------------------------
(***************************************************************************)
(* Proofs about RelayQueue for every set of records, identities, sources,  *)
(* threads and lease ids and every limit.  The revocation fence is a       *)
(* property of steps; it rests on SessionHeld, which says that a batch is  *)
(* still covered by the session it was verified in when it is inserted.    *)
(***************************************************************************)
EXTENDS RelayQueue, FiniteSetTheorems, TLAPS

\* A verified batch is inserted inside the session that verified it, and its
\* source keys are not revoked meanwhile.
SessionHeld ==
    \A t \in Threads : thread[t].op = "enqueue" =>
        /\ session = t
        /\ \A r \in thread[t].batch : SourceOf[r] \notin revoked

\* No two threads hold one lease of a record.
UniqueLease ==
    \A t, u \in Threads, r \in Records :
        held[t][r] = held[u][r] /\ held[t][r] > 0 => t = u

\* A lease that a waiting lease call takes for lapsed is not live again: the
\* row has been leased under another id, if at all.
SeenLapsed ==
    \A t \in Threads, r \in Records, i \in LeaseIds :
        <<r, i>> \in thread[t].seen /\ lease[r] = i => r \notin live

\* The inductive invariant.
IInv == /\ TypeOK
        /\ SessionHeld
        /\ OneRecordPerIdentity
        /\ UniqueLease
        /\ SeenLapsed

-----------------------------------------------------------------------------
(* Operators.                                                              *)

\* The new rows of a batch are finitely many, so their arrival times exist.
LEMMA FreshNumber ==
    ASSUME NEW S \in SUBSET Records
    PROVE  Cardinality(Fresh(S)) \in Nat
<1>1. IsFiniteSet(Records)
  BY RelayConstants
<1>2. Fresh(S) \subseteq Records
  BY DEF Fresh
<1>3. IsFiniteSet(Fresh(S))
  BY <1>1, <1>2, FS_Subset
<1> QED
  BY <1>3, FS_CardinalityType

\* What a lease call hands out is queued and its source is trusted; what it
\* dead-letters is queued, and the two are apart.
LEMMA ScanSplits ==
    ASSUME NEW t \in Threads
    PROVE  /\ Leasable(t) \subseteq {r \in Records : Queued(r) /\ SourceOf[r] \notin revoked}
           /\ Poison(t) \subseteq {r \in Records : Queued(r)}
           /\ Leasable(t) \cap Poison(t) = {}
<1>1. Scanned(t) \subseteq {r \in Records : Queued(r)}
  BY DEF Scanned, Available
<1> QED
  BY <1>1 DEF Leasable, Poison, Bad

-----------------------------------------------------------------------------
(* Type correctness.                                                       *)

\* An idle thread, one with a batch to insert and one that leases are states.
LEMMA ThreadStates ==
    /\ Idle \in ThreadState
    /\ \A S \in SUBSET Records : Enqueuing(S) \in ThreadState
    /\ \A P \in SUBSET (Records \X LeaseIds), S \in SUBSET Records :
           Leasing(P, S) \in ThreadState
  BY DEF Idle, Enqueuing, Leasing, ThreadState

\* The empty relay has its type.
LEMMA TypeInit == Init => TypeOK
<1> SUFFICES ASSUME Init PROVE TypeOK
  OBVIOUS
<1>1. thread \in [Threads -> ThreadState]
  BY ThreadStates DEF Init
<1> QED
  BY <1>1 DEF Init, TypeOK, NoLeases, Queued

\* A committed batch keeps the type: fresh rows get an arrival time and have
\* neither a lease nor rot.
LEMMA TypeEnqueueCommit ==
    ASSUME TypeOK, NEW t \in Threads, EnqueueCommit(t)
    PROVE  TypeOK'
<1> DEFINE S == thread[t].batch
<1> USE DEF TypeOK
<1>1. S \in SUBSET Records
  BY DEF ThreadState
<1>2. Cardinality(Fresh(S)) \in Nat
  BY <1>1, FreshNumber
<1>3. /\ at' \in [Records -> Nat]
      /\ arrivals' \in Nat
      /\ \A r \in Records : ~Queued(r)' => ~Queued(r)
  <2>1. CASE Insertable(S)
    <3>1. PICK order \in [Fresh(S) -> (arrivals + 1) .. (arrivals + Cardinality(Fresh(S)))] :
            at' = [r \in Records |-> IF r \in Fresh(S) THEN order[r] ELSE at[r]]
      BY <2>1 DEF EnqueueCommit
    <3>2. \A r \in Fresh(S) : order[r] \in Nat /\ order[r] > 0
      <4> SUFFICES ASSUME NEW r \in Fresh(S) PROVE order[r] \in Nat /\ order[r] > 0
        OBVIOUS
      <4>1. order[r] \in (arrivals + 1) .. (arrivals + Cardinality(Fresh(S)))
        BY <3>1
      <4> QED
        BY <4>1, <1>2
    <3>3. at' \in [Records -> Nat]
      BY <3>1, <3>2
    <3>4. \A r \in Records : at'[r] = at[r] \/ at'[r] > 0
      BY <3>1, <3>2
    <3>5. arrivals' \in Nat
      BY <2>1, <1>2 DEF EnqueueCommit
    <3> QED
      BY <3>3, <3>4, <3>5 DEF Queued
  <2>2. CASE ~Insertable(S)
    BY <2>2 DEF EnqueueCommit, Queued
  <2> QED
    BY <2>1, <2>2
<1>4. thread' \in [Threads -> ThreadState]
  BY ThreadStates DEF EnqueueCommit
<1>5. session' \in Threads \cup {Nobody}
  BY DEF EnqueueCommit
<1> QED
  BY <1>3, <1>4, <1>5 DEF EnqueueCommit

\* A lease call keeps the type: its ids are lease ids, and a dead-lettered row
\* loses its lease and its rot.
LEMMA TypeLeaseCommit ==
    ASSUME TypeOK, NEW t \in Threads, LeaseCommit(t)
    PROVE  TypeOK'
<1> DEFINE G == Leasable(t)
           D == Poison(t)
           id == [r \in Records |-> CHOOSE i \in FreeIds(r) : TRUE]
<1> USE DEF TypeOK
<1>1. /\ G \subseteq {r \in Records : Queued(r)}
      /\ D \subseteq {r \in Records : Queued(r)}
      /\ G \cap D = {}
  BY ScanSplits
<1>2. \A r \in G : id[r] \in LeaseIds
  <2>1. \A r \in G : FreeIds(r) # {}
    BY DEF LeaseCommit
  <2>2. \A r \in G : (CHOOSE i \in FreeIds(r) : TRUE) \in FreeIds(r)
    BY <2>1
  <2> QED
    BY <2>2, <1>1 DEF FreeIds
<1>3. LeaseIds \subseteq Nat \ {0}
  BY RelayConstants
<1>4. /\ at' = [r \in Records |-> IF r \in D THEN 0 ELSE at[r]]
      /\ lease' = [r \in Records |-> IF r \in D THEN 0
                                     ELSE IF r \in G THEN id[r] ELSE lease[r]]
      /\ live' \in {(live \ D) \cup G, live \ (D \cup G)}
      /\ faults' \in Nat
      /\ rot' = [r \in Records |-> IF r \in D THEN "no" ELSE rot[r]]
      /\ dead' = dead \cup D
      /\ held' = [held EXCEPT ![t] = [r \in Records |-> IF r \in G THEN id[r] ELSE @[r]]]
      /\ thread' = [thread EXCEPT ![t] = Idle]
      /\ UNCHANGED <<refused, revoked, session, arrivals>>
  BY DEF LeaseCommit, Fault, DeadLetters
<1> HIDE DEF G, D, id
<1>5. at' \in [Records -> Nat]
  BY <1>4
<1>6. lease' \in [Records -> LeaseIds \cup {0}]
  BY <1>4, <1>2
<1>7. live' \subseteq {r \in Records : lease'[r] > 0}
  <2>1. \A r \in Records : r \in G => lease'[r] > 0
    <3> SUFFICES ASSUME NEW r \in Records, r \in G PROVE lease'[r] > 0
      OBVIOUS
    <3>1. r \notin D
      BY <1>1
    <3>2. lease'[r] = id[r]
      BY <1>4, <3>1
    <3>3. id[r] \in Nat /\ id[r] # 0
      BY <1>2, <1>3
    <3> QED
      BY <3>2, <3>3
  <2>2. \A r \in Records : r \notin G /\ r \notin D => lease'[r] = lease[r]
    BY <1>4
  <2> QED
    BY <1>1, <1>4, <2>1, <2>2
<1>8. rot' \in [Records -> {"no", "bytes", "size"}]
  BY <1>4
<1>9. \A r \in Records : ~Queued(r)' => lease'[r] = 0 /\ rot'[r] = "no"
  <2> SUFFICES ASSUME NEW r \in Records, ~Queued(r)' PROVE lease'[r] = 0 /\ rot'[r] = "no"
    OBVIOUS
  <2>1. CASE r \in D
    BY <2>1, <1>4
  <2>2. CASE r \notin D
    <3>1. ~Queued(r)
      BY <2>2, <1>4 DEF Queued
    <3>2. r \notin G
      BY <3>1, <1>1
    <3>3. lease'[r] = lease[r] /\ rot'[r] = rot[r]
      BY <2>2, <3>2, <1>4
    <3> QED
      BY <3>1, <3>3
  <2> QED
    BY <2>1, <2>2
<1>10. thread' \in [Threads -> ThreadState]
  BY <1>4, ThreadStates
<1>11. held' \in [Threads -> [Records -> LeaseIds \cup {0}]]
  BY <1>4, <1>2
<1>12. dead' \in SUBSET Records
  BY <1>4, <1>1
<1> QED
  BY <1>4, <1>5, <1>6, <1>7, <1>8, <1>9, <1>10, <1>11, <1>12

\* Every step keeps the type.
LEMMA TypeStep == TypeOK /\ [Next]_vars => TypeOK'
<1> SUFFICES ASSUME TypeOK, [Next]_vars PROVE TypeOK'
  OBVIOUS
<1> USE DEF TypeOK
<1>1. ASSUME NEW t \in Threads, NEW S \in SUBSET Records, EnqueueVerify(t, S) PROVE TypeOK'
  <2>1. thread' \in [Threads -> ThreadState]
    BY <1>1, ThreadStates DEF EnqueueVerify
  <2> QED
    BY <1>1, <2>1 DEF EnqueueVerify, Queued
<1>2. ASSUME NEW t \in Threads, EnqueueCommit(t) PROVE TypeOK'
  BY <1>2, TypeEnqueueCommit
<1>3. ASSUME NEW t \in Threads, LeaseBegin(t) PROVE TypeOK'
  <2>1. Lapsed \in SUBSET (Records \X LeaseIds)
    BY DEF Lapsed
  <2>2. thread' \in [Threads -> ThreadState]
    BY <1>3, <2>1, ThreadStates DEF LeaseBegin
  <2> QED
    BY <1>3, <2>2 DEF LeaseBegin, Queued
<1>4. ASSUME NEW t \in Threads, LeaseCommit(t) PROVE TypeOK'
  BY <1>4, TypeLeaseCommit
<1>5. ASSUME NEW t \in Threads, NEW S \in SUBSET Records, Ack(t, S) PROVE TypeOK'
  <2>1. held' \in [Threads -> [Records -> LeaseIds \cup {0}]]
    BY <1>5 DEF Ack, Forget
  <2>2. CASE \A r \in S : OwnsLease(t, r)
    BY <1>5, <2>1, <2>2 DEF Ack, RemoveRows, Queued
  <2>3. CASE ~\A r \in S : OwnsLease(t, r)
    BY <1>5, <2>1, <2>3 DEF Ack, Queued
  <2> QED
    BY <2>2, <2>3
<1>6. ASSUME NEW t \in Threads, NEW r \in Records, Release(t, r) PROVE TypeOK'
  <2>1. held' \in [Threads -> [Records -> LeaseIds \cup {0}]]
    BY <1>6 DEF Release, Forget
  <2> QED
    BY <1>6, <2>1 DEF Release, Queued
<1>7. ASSUME NEW s \in Sources, Revoke(s) PROVE TypeOK'
  BY <1>7 DEF Revoke, Queued
<1>8. ASSUME NEW r \in Records, Refuse(r) PROVE TypeOK'
  BY <1>8 DEF Refuse, Fault, Queued
<1>9. ASSUME NEW r \in Records, NEW kind \in {"bytes", "size"}, Rot(r, kind) PROVE TypeOK'
  BY <1>9 DEF Rot, Fault, Queued
<1>10. ASSUME NEW r \in Records, Lapse(r) PROVE TypeOK'
  BY <1>10 DEF Lapse, Queued
<1>11. ASSUME NEW t \in Threads, Crash(t) PROVE TypeOK'
  <2>1. thread' \in [Threads -> ThreadState]
    BY <1>11, ThreadStates DEF Crash
  <2>2. held' \in [Threads -> [Records -> LeaseIds \cup {0}]]
    BY <1>11 DEF Crash, NoLeases
  <2> QED
    BY <1>11, <2>1, <2>2 DEF Crash, Fault, Queued
<1>12. CASE UNCHANGED vars
  BY <1>12 DEF vars, Queued
<1> QED
  BY <1>1, <1>2, <1>3, <1>4, <1>5, <1>6, <1>7, <1>8, <1>9, <1>10, <1>11, <1>12 DEF Next

-----------------------------------------------------------------------------
(* The verification session.                                               *)

\* No step takes the session from a batch that is being inserted, and no key
\* is revoked while one is open.
LEMMA SessionStep == TypeOK /\ SessionHeld /\ [Next]_vars => SessionHeld'
<1> SUFFICES ASSUME TypeOK, SessionHeld, [Next]_vars,
                    NEW u \in Threads, thread'[u].op = "enqueue"
             PROVE  /\ session' = u
                    /\ \A r \in thread'[u].batch : SourceOf[r] \notin revoked'
  BY DEF SessionHeld
<1>0. /\ Nobody \notin Threads
      /\ thread \in [Threads -> ThreadState]
      /\ thread[u].op = "enqueue" =>
            /\ session = u
            /\ \A r \in thread[u].batch : SourceOf[r] \notin revoked
  BY RelayConstants DEF TypeOK, SessionHeld
<1>1. ASSUME NEW t \in Threads, NEW S \in SUBSET Records, EnqueueVerify(t, S)
      PROVE  /\ session' = u
             /\ \A r \in thread'[u].batch : SourceOf[r] \notin revoked'
  <2>1. t = u
    BY <1>0, <1>1 DEF EnqueueVerify
  <2> QED
    BY <1>0, <1>1, <2>1 DEF EnqueueVerify, Enqueuing
<1>2. ASSUME NEW t \in Threads, EnqueueCommit(t)
      PROVE  /\ session' = u
             /\ \A r \in thread'[u].batch : SourceOf[r] \notin revoked'
  <2>1. t # u
    BY <1>0, <1>2 DEF EnqueueCommit, Idle
  <2> QED
    BY <1>0, <1>2, <2>1 DEF EnqueueCommit
<1>3. ASSUME NEW t \in Threads, LeaseBegin(t) \/ LeaseCommit(t)
      PROVE  /\ session' = u
             /\ \A r \in thread'[u].batch : SourceOf[r] \notin revoked'
  <2>1. t # u
    BY <1>0, <1>3 DEF LeaseBegin, LeaseCommit, Leasing, Idle
  <2> QED
    BY <1>0, <1>3, <2>1 DEF LeaseBegin, LeaseCommit
<1>4. ASSUME NEW t \in Threads, Crash(t)
      PROVE  /\ session' = u
             /\ \A r \in thread'[u].batch : SourceOf[r] \notin revoked'
  <2>1. t # u
    BY <1>0, <1>4 DEF Crash, Idle
  <2> QED
    BY <1>0, <1>4, <2>1 DEF Crash
<1>5. ASSUME NEW s \in Sources, Revoke(s)
      PROVE  /\ session' = u
             /\ \A r \in thread'[u].batch : SourceOf[r] \notin revoked'
  BY <1>0, <1>5 DEF Revoke
<1>6. ASSUME UNCHANGED <<session, revoked, thread>>
      PROVE  /\ session' = u
             /\ \A r \in thread'[u].batch : SourceOf[r] \notin revoked'
  BY <1>0, <1>6
<1> QED
  BY <1>1, <1>2, <1>3, <1>4, <1>5, <1>6
  DEF Next, Ack, Release, Refuse, Rot, Lapse, vars

-----------------------------------------------------------------------------
(* Delivery identities.                                                    *)

\* A batch that is inserted brings no second record of a queued or of a
\* dead-lettered identity.
LEMMA IdentityEnqueue ==
    ASSUME TypeOK, OneRecordPerIdentity, NEW t \in Threads, EnqueueCommit(t)
    PROVE  OneRecordPerIdentity'
<1> DEFINE S == thread[t].batch
<1>0. S \in SUBSET Records /\ dead' = dead
  BY DEF TypeOK, ThreadState, EnqueueCommit
<1>1. CASE Insertable(S)
  <2>1. \A r \in Records : Queued(r)' => Queued(r) \/ r \in Fresh(S)
    BY <1>1 DEF EnqueueCommit, Queued
  <2> SUFFICES ASSUME NEW r \in Records, NEW q \in Records, KeyOf[r] = KeyOf[q], Queued(r)'
               PROVE  (Queued(q)' => q = r) /\ q \notin dead
    BY <1>0 DEF OneRecordPerIdentity
  <2>2. CASE Queued(r)
    <3>1. q \notin dead /\ (Queued(q) => q = r)
      BY <2>2 DEF OneRecordPerIdentity
    <3>2. q \in Fresh(S) => q = r
      BY <1>1, <2>2 DEF Insertable, Fresh
    <3> QED
      BY <2>1, <3>1, <3>2
  <2>3. CASE r \in Fresh(S)
    <3>1. q \notin dead
      BY <1>1, <2>3 DEF Insertable, Fresh, DeadLettered
    <3>2. Queued(q) \/ q \in Fresh(S) => q = r
      BY <1>1, <2>3 DEF Insertable, Fresh
    <3> QED
      BY <2>1, <3>1, <3>2
  <2> QED
    BY <2>1, <2>2, <2>3
<1>2. CASE ~Insertable(S)
  BY <1>0, <1>2 DEF EnqueueCommit, OneRecordPerIdentity, Queued
<1> QED
  BY <1>1, <1>2

\* Every step keeps an identity to one record.
LEMMA IdentityStep == TypeOK /\ OneRecordPerIdentity /\ [Next]_vars => OneRecordPerIdentity'
<1> SUFFICES ASSUME TypeOK, OneRecordPerIdentity, [Next]_vars PROVE OneRecordPerIdentity'
  OBVIOUS
<1>1. ASSUME NEW t \in Threads, EnqueueCommit(t) PROVE OneRecordPerIdentity'
  BY <1>1, IdentityEnqueue
<1>2. ASSUME NEW t \in Threads, LeaseCommit(t) PROVE OneRecordPerIdentity'
  <2>1. dead' = dead \cup Poison(t)
    BY <1>2 DEF LeaseCommit, DeadLetters
  <2>2. \A r \in Records : Queued(r)' => Queued(r) /\ r \notin Poison(t)
    BY <1>2 DEF LeaseCommit, Queued
  <2>3. \A r \in Poison(t) : r \in Records /\ Queued(r)
    BY ScanSplits
  <2> QED
    BY <2>1, <2>2, <2>3 DEF OneRecordPerIdentity
<1>3. ASSUME UNCHANGED dead, \A r \in Records : Queued(r)' => Queued(r)
      PROVE OneRecordPerIdentity'
  BY <1>3 DEF OneRecordPerIdentity
<1>4. ASSUME NEW t \in Threads, NEW S \in SUBSET Records, Ack(t, S)
      PROVE OneRecordPerIdentity'
  <2>1. UNCHANGED dead /\ \A r \in Records : Queued(r)' => Queued(r)
    BY <1>4 DEF Ack, RemoveRows, Queued
  <2> QED
    BY <2>1, <1>3
<1>5. ASSUME UNCHANGED <<at, dead>> PROVE OneRecordPerIdentity'
  BY <1>5, <1>3 DEF Queued
<1> QED
  BY <1>1, <1>2, <1>4, <1>5
  DEF Next, EnqueueVerify, LeaseBegin, Release, Revoke, Refuse, Rot, Lapse, Crash, vars

-----------------------------------------------------------------------------
(* Leases.                                                                 *)

\* A lease call hands out ids that no thread holds and no waiting call has
\* seen, and changes no other lease than by removing the row.
LEMMA LeaseIdsFresh ==
    ASSUME TypeOK, NEW t \in Threads, LeaseCommit(t), NEW r \in Records
    PROVE  /\ r \in Leasable(t) =>
                 /\ lease'[r] \in FreeIds(r)
                 /\ held'[t][r] = lease'[r]
           /\ r \notin Leasable(t) =>
                 /\ lease'[r] \in {0, lease[r]}
                 /\ held'[t][r] = held[t][r]
                 /\ r \in live' => r \in live
<1> DEFINE id == [q \in Records |-> CHOOSE i \in FreeIds(q) : TRUE]
<1>1. /\ lease' = [q \in Records |-> IF q \in Poison(t) THEN 0
                                     ELSE IF q \in Leasable(t) THEN id[q] ELSE lease[q]]
      /\ live' \in {(live \ Poison(t)) \cup Leasable(t), live \ (Poison(t) \cup Leasable(t))}
      /\ held' = [held EXCEPT ![t] = [q \in Records |-> IF q \in Leasable(t) THEN id[q] ELSE @[q]]]
      /\ \A q \in Leasable(t) : FreeIds(q) # {}
  BY DEF LeaseCommit
<1>2. r \in Leasable(t) => r \notin Poison(t)
  BY ScanSplits
<1>3. r \in Leasable(t) => id[r] \in FreeIds(r)
  BY <1>1
<1>4. held'[t][r] = IF r \in Leasable(t) THEN id[r] ELSE held[t][r]
  BY <1>1 DEF TypeOK
<1> HIDE DEF id
<1> QED
  BY <1>1, <1>2, <1>3, <1>4

\* A lease call leaves what the other threads hold alone, and its own thread
\* has seen nothing afterwards.
LEMMA LeaseFrame ==
    ASSUME TypeOK, NEW t \in Threads, LeaseCommit(t), NEW u \in Threads
    PROVE  /\ u # t => held'[u] = held[u] /\ thread'[u] = thread[u]
           /\ u = t => thread'[u].seen = {}
  BY DEF LeaseCommit, TypeOK, Idle

\* Every step keeps a lease with one thread.
LEMMA UniqueStep == TypeOK /\ UniqueLease /\ [Next]_vars => UniqueLease'
<1> SUFFICES ASSUME TypeOK, UniqueLease, [Next]_vars PROVE UniqueLease'
  OBVIOUS
<1>1. ASSUME NEW t \in Threads, LeaseCommit(t) PROVE UniqueLease'
  <2>1. ASSUME NEW r \in Records, NEW u \in Threads, u # t,
               held'[u][r] = held'[t][r], held'[t][r] > 0
        PROVE  FALSE
    <3>1. held'[u][r] = held[u][r]
      BY <1>1, <2>1, LeaseFrame
    <3>2. CASE r \in Leasable(t)
      <4>1. held'[t][r] \in FreeIds(r)
        BY <1>1, <3>2, LeaseIdsFresh
      <4> QED
        BY <2>1, <3>1, <4>1 DEF FreeIds
    <3>3. CASE r \notin Leasable(t)
      <4>1. held'[t][r] = held[t][r]
        BY <1>1, <3>3, LeaseIdsFresh
      <4> QED
        BY <2>1, <3>1, <4>1 DEF UniqueLease
    <3> QED
      BY <3>2, <3>3
  <2>2. ASSUME NEW r \in Records, NEW u \in Threads, NEW v \in Threads, u # t, v # t,
               held'[u][r] = held'[v][r], held'[u][r] > 0
        PROVE  u = v
    <3>1. held'[u] = held[u] /\ held'[v] = held[v]
      BY <1>1, <2>2, LeaseFrame
    <3> QED
      BY <2>2, <3>1 DEF UniqueLease
  <2> QED
    BY <2>1, <2>2 DEF UniqueLease
<1>2. ASSUME \A t \in Threads, r \in Records : held'[t][r] \in {0, held[t][r]}
      PROVE UniqueLease'
  BY <1>2 DEF UniqueLease
<1>3. ASSUME NEW t \in Threads, NEW S \in SUBSET Records, Ack(t, S) PROVE UniqueLease'
  BY <1>2, <1>3 DEF Ack, Forget, TypeOK
<1>4. ASSUME NEW t \in Threads, NEW r \in Records, Release(t, r) PROVE UniqueLease'
  BY <1>2, <1>4 DEF Release, Forget, TypeOK
<1>5. ASSUME NEW t \in Threads, Crash(t) PROVE UniqueLease'
  BY <1>2, <1>5 DEF Crash, NoLeases, TypeOK
<1>6. ASSUME UNCHANGED held PROVE UniqueLease'
  BY <1>6 DEF UniqueLease
<1> QED
  BY <1>1, <1>3, <1>4, <1>5, <1>6
  DEF Next, EnqueueVerify, EnqueueCommit, LeaseBegin, Revoke, Refuse, Rot, Lapse, vars

\* Every step keeps a lapsed lease lapsed.
LEMMA SeenStep == TypeOK /\ SeenLapsed /\ [Next]_vars => SeenLapsed'
<1> SUFFICES ASSUME TypeOK, SeenLapsed, [Next]_vars,
                    NEW u \in Threads, NEW r \in Records, NEW i \in LeaseIds,
                    <<r, i>> \in thread'[u].seen, lease'[r] = i
             PROVE  r \notin live'
  BY DEF SeenLapsed
<1>0. i # 0
  BY RelayConstants
<1>1. ASSUME NEW t \in Threads, LeaseCommit(t) PROVE r \notin live'
  <2>1. u # t /\ <<r, i>> \in thread[u].seen
    BY <1>1, LeaseFrame
  <2>2. CASE r \in Leasable(t)
    <3>1. i \in FreeIds(r)
      BY <1>1, <2>2, LeaseIdsFresh
    <3> QED
      BY <2>1, <3>1 DEF FreeIds
  <2>3. CASE r \notin Leasable(t)
    <3>1. lease[r] = i /\ (r \in live' => r \in live)
      BY <1>0, <1>1, <2>3, LeaseIdsFresh
    <3> QED
      BY <2>1, <3>1 DEF SeenLapsed
  <2> QED
    BY <2>2, <2>3
<1>2. ASSUME NEW t \in Threads, LeaseBegin(t) PROVE r \notin live'
  <2>1. CASE u = t
    BY <1>2, <2>1 DEF LeaseBegin, Leasing, Lapsed, TypeOK
  <2>2. CASE u # t
    BY <1>2, <2>2 DEF LeaseBegin, SeenLapsed, TypeOK
  <2> QED
    BY <2>1, <2>2
<1>3. ASSUME thread'[u].seen \in {{}, thread[u].seen},
             lease'[r] \in {0, lease[r]},
             live' \subseteq live
      PROVE  r \notin live'
  BY <1>0, <1>3 DEF SeenLapsed
<1>4. ASSUME NEW t \in Threads, NEW S \in SUBSET Records, EnqueueVerify(t, S)
      PROVE r \notin live'
  BY <1>3, <1>4 DEF EnqueueVerify, Enqueuing, TypeOK
<1>5. ASSUME NEW t \in Threads, EnqueueCommit(t) PROVE r \notin live'
  BY <1>3, <1>5 DEF EnqueueCommit, Idle, TypeOK
<1>6. ASSUME NEW t \in Threads, NEW S \in SUBSET Records, Ack(t, S) PROVE r \notin live'
  BY <1>3, <1>6 DEF Ack, RemoveRows
<1>7. ASSUME NEW t \in Threads, NEW q \in Records, Release(t, q) PROVE r \notin live'
  BY <1>3, <1>7 DEF Release, TypeOK
<1>8. ASSUME NEW t \in Threads, Crash(t) PROVE r \notin live'
  BY <1>3, <1>8 DEF Crash, Idle, TypeOK
<1>9. ASSUME UNCHANGED <<thread, lease>>, live' \subseteq live PROVE r \notin live'
  BY <1>3, <1>9
<1> QED
  BY <1>1, <1>2, <1>4, <1>5, <1>6, <1>7, <1>8, <1>9
  DEF Next, Revoke, Refuse, Rot, Lapse, vars

-----------------------------------------------------------------------------
(* The theorems.                                                           *)

\* The invariant holds at the start and through every step.
LEMMA Inductive == Spec => []IInv
<1>1. Init => IInv
  <2>1. Init => SessionHeld
    BY DEF Init, SessionHeld, Idle
  <2>2. Init => OneRecordPerIdentity
    BY DEF Init, OneRecordPerIdentity, Queued
  <2>3. Init => UniqueLease /\ SeenLapsed
    BY DEF Init, UniqueLease, SeenLapsed, NoLeases, Idle
  <2> QED
    BY <2>1, <2>2, <2>3, TypeInit DEF IInv
<1>2. IInv /\ [Next]_vars => IInv'
  BY TypeStep, SessionStep, IdentityStep, UniqueStep, SeenStep DEF IInv
<1> QED
  BY <1>1, <1>2, PTL DEF Spec

\* The relay's state keeps its type through every interleaving of intake,
\* leases, acknowledgements, revocations and crashes.
THEOREM TypeCorrect == Spec => []TypeOK
<1>1. IInv => TypeOK
  BY DEF IInv
<1> QED
  BY <1>1, Inductive, PTL

\* A delivery identity belongs to one queued record and never returns from the
\* dead-letter table, for any number of threads and records.
THEOREM IdentitySafe == Spec => []OneRecordPerIdentity
<1>1. IInv => OneRecordPerIdentity
  BY DEF IInv
<1> QED
  BY <1>1, Inductive, PTL

\* A revoked key gets no record into the queue and no record leased, whatever
\* calls were under way when it was revoked.
THEOREM RevocationSafe == Spec => RevocationFence
<1> DEFINE Fenced == \A r \in Records :
                        \/ ~Queued(r) /\ Queued(r)'
                        \/ lease'[r] \notin {0, lease[r]}
                        => SourceOf[r] \notin revoked
<1>1. IInv /\ [Next]_vars => [Fenced]_vars
  <2> SUFFICES ASSUME IInv, [Next]_vars PROVE Fenced
    OBVIOUS
  <2>0. TypeOK /\ SessionHeld
    BY DEF IInv
  <2>1. ASSUME NEW t \in Threads, EnqueueCommit(t) PROVE Fenced
    <3>1. \A r \in Records : ~Queued(r) /\ Queued(r)' => r \in thread[t].batch
      BY <2>1 DEF EnqueueCommit, Fresh, Queued
    <3>2. \A r \in thread[t].batch : SourceOf[r] \notin revoked
      BY <2>0, <2>1 DEF SessionHeld, EnqueueCommit
    <3>3. lease' = lease
      BY <2>1 DEF EnqueueCommit
    <3> QED
      BY <3>1, <3>2, <3>3
  <2>2. ASSUME NEW t \in Threads, LeaseCommit(t) PROVE Fenced
    <3>1. \A r \in Records : Queued(r)' => Queued(r)
      BY <2>2 DEF LeaseCommit, Queued
    <3>2. \A r \in Records : lease'[r] \notin {0, lease[r]} => r \in Leasable(t)
      BY <2>2 DEF LeaseCommit
    <3> QED
      BY <3>1, <3>2, ScanSplits
  <2>3. ASSUME NEW t \in Threads, NEW S \in SUBSET Records, Ack(t, S) PROVE Fenced
    <3>1. \A r \in Records : (Queued(r)' => Queued(r)) /\ lease'[r] \in {0, lease[r]}
      BY <2>3 DEF Ack, RemoveRows, Queued
    <3> QED
      BY <3>1
  <2>4. ASSUME NEW t \in Threads, NEW r \in Records, Release(t, r) PROVE Fenced
    BY <2>0, <2>4 DEF Release, Queued, TypeOK
  <2>5. ASSUME UNCHANGED <<at, lease>> PROVE Fenced
    BY <2>5 DEF Queued
  <2> QED
    BY <2>1, <2>2, <2>3, <2>4, <2>5
    DEF Next, EnqueueVerify, LeaseBegin, Revoke, Refuse, Rot, Lapse, Crash, vars
<1> QED
  BY <1>1, Inductive, PTL DEF Spec, RevocationFence

\* A live lease is ended by its holder alone: a late acknowledgement, a late
\* release or a lease call that waited with an old time cannot.
THEOREM LeaseSafe == Spec => LeaseOwned
<1> DEFINE Kept == \A t \in Threads, r \in Records :
                      /\ OwnsLease(t, r)
                      /\ thread'[t] = thread[t]
                      /\ held'[t] = held[t]
                      => at'[r] = at[r] /\ lease'[r] = lease[r]
<1>1. IInv /\ [Next]_vars => [Kept]_vars
  <2> SUFFICES ASSUME IInv, [Next]_vars, NEW t \in Threads, NEW r \in Records,
                      OwnsLease(t, r), thread'[t] = thread[t], held'[t] = held[t]
               PROVE  at'[r] = at[r] /\ lease'[r] = lease[r]
    OBVIOUS
  <2>0. TypeOK /\ UniqueLease /\ SeenLapsed
    BY DEF IInv
  <2>1. /\ held[t][r] > 0
        /\ lease[r] = held[t][r]
        /\ at[r] > 0
        /\ r \in live
        /\ lease[r] \in LeaseIds
    BY <2>0 DEF OwnsLease, Queued, TypeOK
  <2>2. \A u \in Threads : OwnsLease(u, r) => u = t
    BY <2>0, <2>1 DEF OwnsLease, UniqueLease
  <2>3. ASSUME NEW u \in Threads, EnqueueCommit(u)
        PROVE  at'[r] = at[r] /\ lease'[r] = lease[r]
    BY <2>0, <2>1, <2>3, ZenonT(60) DEF EnqueueCommit, Fresh, Queued, TypeOK
  <2>4. ASSUME NEW u \in Threads, LeaseCommit(u)
        PROVE  at'[r] = at[r] /\ lease'[r] = lease[r]
    <3>1. r \notin Available(u)
      <4>1. lease[r] # 0
        BY <2>1, RelayConstants
      <4>2. <<r, lease[r]>> \notin thread[u].seen
        BY <2>0, <2>1 DEF SeenLapsed
      <4> QED
        BY <4>1, <4>2 DEF Available
    <3>2. r \notin Leasable(u) /\ r \notin Poison(u)
      BY <3>1 DEF Leasable, Poison, Scanned
    <3> QED
      BY <2>4, <3>2 DEF LeaseCommit
  <2>5. ASSUME NEW u \in Threads, NEW S \in SUBSET Records, Ack(u, S)
        PROVE  at'[r] = at[r] /\ lease'[r] = lease[r]
    <3>1. CASE ~\A q \in S : OwnsLease(u, q)
      BY <2>5, <3>1 DEF Ack
    <3>2. CASE r \notin S
      BY <2>0, <2>5, <3>2 DEF Ack, RemoveRows, TypeOK
    <3>3. CASE r \in S /\ \A q \in S : OwnsLease(u, q)
      <4>1. u = t
        BY <2>2, <3>3
      <4>2. held'[t][r] = 0
        BY <2>0, <2>5, <3>3, <4>1 DEF Ack, Forget, TypeOK
      <4> QED
        BY <2>1, <4>2
    <3> QED
      BY <3>1, <3>2, <3>3
  <2>6. ASSUME NEW u \in Threads, NEW q \in Records, Release(u, q)
        PROVE  at'[r] = at[r] /\ lease'[r] = lease[r]
    <3>1. CASE q # r \/ ~OwnsLease(u, q)
      BY <2>0, <2>6, <3>1 DEF Release, TypeOK
    <3>2. CASE q = r /\ OwnsLease(u, q)
      <4>1. u = t
        BY <2>2, <3>2
      <4>2. held'[t][r] = 0
        BY <2>0, <2>6, <3>2, <4>1 DEF Release, Forget, TypeOK
      <4> QED
        BY <2>1, <4>2
    <3> QED
      BY <3>1, <3>2
  <2>7. ASSUME UNCHANGED <<at, lease>> PROVE at'[r] = at[r] /\ lease'[r] = lease[r]
    BY <2>7
  <2> QED
    BY <2>3, <2>4, <2>5, <2>6, <2>7
    DEF Next, EnqueueVerify, LeaseBegin, Revoke, Refuse, Rot, Lapse, Crash, vars
<1> QED
  BY <1>1, Inductive, PTL DEF Spec, LeaseOwned

\* A record leaves the queue only into the dead-letter table or by its current
\* holder's acknowledgement, for any scan of any relay (NeverDropped).
THEOREM QueueIsKept == Spec => NeverDropped
<1> DEFINE Leaves == \A r \in Records :
                        Queued(r) /\ ~Queued(r)' =>
                            \/ r \in dead'
                            \/ \E t \in Threads : OwnsLease(t, r) /\ held'[t][r] = 0
<1>1. IInv /\ [Next]_vars => [Leaves]_vars
  <2> SUFFICES ASSUME IInv, [Next]_vars, NEW r \in Records, Queued(r), ~Queued(r)'
               PROVE  r \in dead' \/ \E t \in Threads : OwnsLease(t, r) /\ held'[t][r] = 0
    OBVIOUS
  <2>0. TypeOK /\ at'[r] # at[r]
    BY DEF IInv, Queued
  <2>1. ASSUME NEW t \in Threads, EnqueueCommit(t) PROVE FALSE
    BY <2>0, <2>1 DEF EnqueueCommit, Fresh, TypeOK
  <2>2. ASSUME NEW t \in Threads, LeaseCommit(t) PROVE r \in dead'
    <3>1. r \in Poison(t)
      BY <2>0, <2>2 DEF LeaseCommit, TypeOK
    <3> QED
      BY <2>2, <3>1 DEF LeaseCommit, DeadLetters
  <2>3. ASSUME NEW t \in Threads, NEW S \in SUBSET Records, Ack(t, S)
        PROVE  OwnsLease(t, r) /\ held'[t][r] = 0
    <3>1. r \in S /\ \A q \in S : OwnsLease(t, q)
      BY <2>0, <2>3 DEF Ack, RemoveRows, TypeOK
    <3>2. held'[t][r] = 0
      BY <2>0, <2>3, <3>1 DEF Ack, Forget, TypeOK
    <3> QED
      BY <3>1, <3>2
  <2>4. ASSUME UNCHANGED at PROVE FALSE
    BY <2>0, <2>4
  <2> QED
    BY <2>1, <2>2, <2>3, <2>4
    DEF Next, EnqueueVerify, LeaseBegin, Release, Revoke, Refuse, Rot, Lapse, Crash, vars
<1> QED
  BY <1>1, Inductive, PTL DEF Spec, NeverDropped

\* A scan that hands out a record has handed out or dead-lettered every older
\* record it could see, whatever bounds of bytes, records or dead letters broke
\* it (NoOvertaking).
THEOREM ScanIsFair == Spec => NoOvertaking
<1> DEFINE InOrder == \A t \in Threads, r, s \in Records :
                         /\ held'[t][r] \notin {0, held[t][r]}
                         /\ s \in Available(t)
                         /\ at[s] < at[r]
                         => s \in dead' \/ held'[t][s] \notin {0, held[t][s]}
<1>1. IInv /\ [Next]_vars => [InOrder]_vars
  <2> SUFFICES ASSUME IInv, [Next]_vars, NEW t \in Threads, NEW r \in Records, NEW s \in Records,
                      held'[t][r] \notin {0, held[t][r]}, s \in Available(t), at[s] < at[r]
               PROVE  s \in dead' \/ held'[t][s] \notin {0, held[t][s]}
    OBVIOUS
  <2>0. TypeOK /\ \A q \in Records : at[q] \in Nat
    BY DEF IInv, TypeOK
  <2>1. ASSUME NEW u \in Threads, LeaseCommit(u)
        PROVE  s \in dead' \/ held'[t][s] \notin {0, held[t][s]}
    <3>1. u = t /\ r \in Leasable(t)
      BY <2>0, <2>1 DEF LeaseCommit, TypeOK
    <3>2. s \in Scanned(t)
      BY <2>0, <3>1 DEF Leasable, Scanned, Available
    <3>3. CASE s \in Poison(t)
      BY <2>1, <3>1, <3>3 DEF LeaseCommit, DeadLetters
    <3>4. CASE s \in Leasable(t)
      <4>1. FreeIds(s) # {} /\ held'[t][s] = CHOOSE i \in FreeIds(s) : TRUE
        BY <2>0, <2>1, <3>1, <3>4 DEF LeaseCommit, TypeOK
      <4>2. held'[t][s] \in FreeIds(s)
        BY <4>1
      <4> QED
        BY <4>2, RelayConstants DEF FreeIds
    <3> QED
      BY <3>2, <3>3, <3>4 DEF Poison, Leasable
  <2>2. ASSUME NEW u \in Threads, NEW S \in SUBSET Records, Ack(u, S) PROVE FALSE
    BY <2>0, <2>2 DEF Ack, Forget, TypeOK
  <2>3. ASSUME NEW u \in Threads, NEW q \in Records, Release(u, q) PROVE FALSE
    BY <2>0, <2>3 DEF Release, Forget, TypeOK
  <2>4. ASSUME NEW u \in Threads, Crash(u) PROVE FALSE
    BY <2>0, <2>4 DEF Crash, NoLeases, TypeOK
  <2>5. ASSUME UNCHANGED held PROVE FALSE
    BY <2>5
  <2> QED
    BY <2>1, <2>2, <2>3, <2>4, <2>5
    DEF Next, EnqueueVerify, EnqueueCommit, LeaseBegin, Revoke, Refuse, Rot, Lapse, vars
<1> QED
  BY <1>1, Inductive, PTL DEF Spec, NoOvertaking

=============================================================================
