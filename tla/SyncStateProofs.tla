--------------------------- MODULE SyncStateProofs ---------------------------
(***************************************************************************)
(* Proofs about SyncState for every set of routes and run ids and any      *)
(* number of leases and faults.  A host may repeat advance with the        *)
(* receipt of its launch, so the argument needs that a receipt belongs to  *)
(* one launch: tokens are never issued again.                              *)
(***************************************************************************)
EXTENDS SyncState, TLAPS

\* A token was issued once, and the runs under way hold different ones.
TokensApart ==
    /\ \A r \in Runs : job[r].token <= claims
    /\ \A r, q \in Runs :
          job[r].pc # "idle" /\ job[q].pc # "idle" /\ job[r].token = job[q].token => r = q

\* What advanced a cursor is the evidence of an earlier launch, or of this one
\* after it was read.
ReceiptsIssued ==
    /\ \A p \in advanced : p[2].next # 0 /\ p[2].receipt <= claims
    /\ \A r \in Runs : job[r].evidence.receipt <= claims
    /\ \A r \in Runs : job[r].pc = "held" =>
          \A p \in advanced : p[1] = r => p[2].receipt # job[r].token

\* Evidence covers the one increment after the generation the run expects.
NextOfExpected ==
    \A r \in Runs :
        /\ job[r].evidence.next # 0 => job[r].evidence.next = job[r].expected + 1
        /\ job[r].pc \in {"read", "wrote"} => job[r].evidence.next # 0

\* A run that may advance has written its increment.
WrittenFirst ==
    \A r \in Runs :
        job[r].pc = "wrote" \/ <<r, job[r].evidence>> \in advanced =>
            job[r].evidence.next \in written[job[r].route]

\* The inductive invariant.
IInv == /\ TypeOK
        /\ TokensApart
        /\ ReceiptsIssued
        /\ NextOfExpected
        /\ WrittenFirst
        /\ NothingSkipped
        /\ CountedOnce

-----------------------------------------------------------------------------
\* An empty store satisfies the invariant.
LEMMA InitIInv == Init => IInv
<1> SUFFICES ASSUME Init PROVE IInv
  OBVIOUS
<1>1. \A r \in Runs : \E route \in Routes :
         job[r] = [pc |-> "idle", route |-> route, token |-> 0, expected |-> 0,
                   evidence |-> NoEvidence]
  BY DEF Init
<1>2. TypeOK
  BY <1>1, SyncConstants DEF Init, TypeOK, Checkpoint, NoCheckpoint, RunLease, NoLease,
     JobState, Evidence, NoEvidence
<1>3. TokensApart /\ ReceiptsIssued /\ NextOfExpected /\ WrittenFirst
  BY <1>1 DEF Init, TokensApart, ReceiptsIssued, NextOfExpected, WrittenFirst, NoEvidence
<1>4. NothingSkipped /\ CountedOnce
  BY DEF Init, NothingSkipped, CountedOnce, NoCheckpoint
<1> QED
  BY <1>2, <1>3, <1>4 DEF IInv

\* The lease and its holder: nothing but the token of a job and its place
\* changes.
LEMMA LeaseSteps ==
    ASSUME IInv, NEW r \in Runs,
           \/ \E route \in Routes : Claim(r, route)
           \/ Renew(r)
           \/ Release(r)
           \/ Crash(r)
    PROVE  IInv'
<1>1. CASE \E route \in Routes : Claim(r, route)
  <2> PICK route \in Routes : Claim(r, route)
    BY <1>1
  <2>1. TypeOK'
    BY DEF IInv, TypeOK, Claim, RunLease, JobState, Evidence, NoEvidence
  <2>2. TokensApart'
    BY DEF IInv, TypeOK, JobState, TokensApart, Claim
  <2>3. ReceiptsIssued'
    BY DEF IInv, TypeOK, JobState, Evidence, NoEvidence, ReceiptsIssued, Claim
  <2>4. NextOfExpected'
    BY DEF IInv, TypeOK, JobState, NextOfExpected, Claim, NoEvidence
  <2>5. WrittenFirst'
    BY DEF IInv, TypeOK, JobState, ReceiptsIssued, WrittenFirst, Claim, NoEvidence
  <2>6. NothingSkipped' /\ CountedOnce'
    BY DEF IInv, NothingSkipped, CountedOnce, Claim
  <2> QED
    BY <2>1, <2>2, <2>3, <2>4, <2>5, <2>6 DEF IInv
<1>2. CASE Renew(r) \/ Release(r) \/ Crash(r)
  <2>1. UNCHANGED <<cp, written, advanced, claims>>
    BY <1>2 DEF Renew, Release, Crash
  <2>2. job' = job \/ Goto(r, "leaving") \/ Goto(r, "idle")
    BY <1>2 DEF Renew, Release, Crash
  <2>3. job' = job \/ job[r].pc # "idle"
    BY <1>2 DEF Renew, Release, Crash
  <2>4. /\ lease' \in [Routes -> RunLease]
        /\ faults' \in Nat
    <3>1. \A route \in Routes : [lease[route] EXCEPT !.live = TRUE] \in RunLease
      BY DEF IInv, TypeOK, RunLease
    <3>2. NoLease \in RunLease
      BY DEF NoLease, RunLease
    <3>3. CASE Renew(r)
      BY <3>1, <3>3 DEF Renew, IInv, TypeOK
    <3>4. CASE Release(r)
      BY <3>2, <3>4 DEF Release, IInv, TypeOK
    <3>5. CASE Crash(r)
      BY <3>5 DEF Crash, Fault, IInv, TypeOK
    <3> QED
      BY <1>2, <3>3, <3>4, <3>5
  <2>5. TypeOK'
    BY <2>1, <2>2, <2>4 DEF IInv, TypeOK, JobState, Goto
  <2>6. TokensApart'
    BY <2>1, <2>2, <2>3, SMTT(30) DEF IInv, TypeOK, JobState, TokensApart, Goto
  <2>7. ReceiptsIssued'
    BY <2>1, <2>2 DEF IInv, TypeOK, JobState, ReceiptsIssued, Goto
  <2>8. NextOfExpected'
    BY <2>2, SMTT(30) DEF IInv, TypeOK, JobState, NextOfExpected, Goto
  <2>9. WrittenFirst'
    BY <2>1, <2>2 DEF IInv, TypeOK, JobState, WrittenFirst, Goto
  <2>10. NothingSkipped' /\ CountedOnce'
    BY <2>1 DEF IInv, NothingSkipped, CountedOnce
  <2> QED
    BY <2>5, <2>6, <2>7, <2>8, <2>9, <2>10 DEF IInv
<1> QED
  BY <1>1, <1>2

\* The steps of a run up to its call of advance.
LEMMA RunSteps ==
    ASSUME IInv, NEW r \in Runs, Read(r) \/ Write(r) \/ WriteFails(r) \/ Again(r)
    PROVE  IInv'
<1> USE DEF IInv
<1>1. CASE Read(r)
  <2>1. TypeOK'
    <3> DEFINE e == [next |-> cp[job[r].route].cursor + 1, receipt |-> job[r].token]
    <3>1. e \in Evidence /\ cp[job[r].route].generation \in Nat
      BY DEF TypeOK, JobState, Checkpoint, Evidence
    <3>2. [job[r] EXCEPT !.pc = "read", !.expected = cp[job[r].route].generation,
                         !.evidence = e] \in JobState
      BY <3>1 DEF TypeOK, JobState
    <3> QED
      BY <1>1, <3>2 DEF TypeOK, Read
  <2>2. TokensApart' /\ ReceiptsIssued'
    BY <1>1, ZenonT(60) DEF TypeOK, JobState, TokensApart, ReceiptsIssued, Read
  <2>3. NextOfExpected'
    <3>1. \A q \in Runs \ {r} : job'[q] = job[q]
      BY <1>1 DEF TypeOK, Read
    <3>2. /\ job'[r].expected = cp[job[r].route].generation
          /\ job'[r].evidence.next = cp[job[r].route].cursor + 1
      BY <1>1 DEF TypeOK, JobState, Read
    <3>3. /\ cp[job[r].route].generation \in Nat
          /\ cp[job[r].route].cursor = cp[job[r].route].generation
      BY DEF TypeOK, JobState, Checkpoint, CountedOnce
    <3>4. PICK g \in Nat : g = cp[job[r].route].generation
      BY <3>3
    <3>5. job'[r].evidence.next = job'[r].expected + 1 /\ job'[r].evidence.next # 0
      BY <3>2, <3>3, <3>4
    <3> QED BY <3>1, <3>5 DEF NextOfExpected
  <2>4. WrittenFirst'
    <3> SUFFICES ASSUME NEW q \in Runs,
                        job'[q].pc = "wrote" \/ <<q, job'[q].evidence>> \in advanced'
                 PROVE  job'[q].evidence.next \in written'[job'[q].route]
      BY DEF WrittenFirst
    <3>1. CASE q = r
      <4>1. job'[r].pc = "read" /\ job'[r].evidence.receipt = job[r].token
        BY <1>1 DEF TypeOK, JobState, Read
      <4>2. <<r, job'[r].evidence>> \in advanced
        BY <1>1, <3>1, <4>1 DEF Read
      <4> QED
        BY <1>1, <4>1, <4>2 DEF ReceiptsIssued, Read
    <3>2. CASE q # r
      BY <1>1, <3>2 DEF TypeOK, JobState, WrittenFirst, Read
    <3> QED
      BY <3>1, <3>2
  <2>5. NothingSkipped' /\ CountedOnce'
    BY <1>1 DEF NothingSkipped, CountedOnce, Read
  <2> QED
    BY <2>1, <2>2, <2>3, <2>4, <2>5
<1>2. CASE Write(r)
  <2>1. TypeOK'
    BY <1>2 DEF TypeOK, JobState, Evidence, Write, Goto
  <2>2. TokensApart' /\ ReceiptsIssued' /\ NextOfExpected'
    BY <1>2 DEF TypeOK, JobState, TokensApart, ReceiptsIssued, NextOfExpected, Write, Goto
  <2>3. \A route \in Routes : written[route] \subseteq written'[route]
    BY <1>2 DEF TypeOK, Write
  <2>4. job[r].evidence.next \in written'[job[r].route]
    BY <1>2 DEF TypeOK, JobState, Write
  <2>5. WrittenFirst'
    BY <1>2, <2>3, <2>4 DEF TypeOK, JobState, WrittenFirst, Write, Goto
  <2>6. NothingSkipped' /\ CountedOnce'
    BY <1>2, <2>3 DEF NothingSkipped, CountedOnce, Write
  <2> QED
    BY <2>1, <2>2, <2>5, <2>6
<1>3. CASE WriteFails(r) \/ Again(r)
  <2>1. UNCHANGED <<cp, lease, written, advanced, claims>> /\ faults' \in Nat
    BY <1>3 DEF WriteFails, Again, Fault, TypeOK
  <2>2. \/ Goto(r, "leaving") /\ job[r].pc = "read"
        \/ Goto(r, "wrote") /\ job[r].pc = "leaving" /\ <<r, job[r].evidence>> \in advanced
    BY <1>3 DEF WriteFails, Again
  <2>3. TypeOK'
    BY <2>1, <2>2 DEF TypeOK, JobState, Goto
  <2>4. TokensApart' /\ ReceiptsIssued'
    BY <2>1, <2>2, SMTT(30) DEF TypeOK, JobState, TokensApart, ReceiptsIssued, Goto
  <2>5. NextOfExpected'
    BY <2>1, <2>2 DEF TypeOK, JobState, ReceiptsIssued, NextOfExpected, Goto
  <2>6. WrittenFirst'
    BY <2>1, <2>2 DEF TypeOK, JobState, WrittenFirst, Goto
  <2>7. NothingSkipped' /\ CountedOnce'
    BY <2>1 DEF NothingSkipped, CountedOnce
  <2> QED
    BY <2>3, <2>4, <2>5, <2>6, <2>7
<1> QED
  BY <1>1, <1>2, <1>3

\* advance: a committed call moves the cursor over the increment its run wrote.
LEMMA AdvanceStep ==
    ASSUME IInv, NEW r \in Runs, Advance(r)
    PROVE  IInv'
<1> USE DEF IInv
<1> DEFINE route == job[r].route
           next == job[r].evidence.next
<1>1. /\ job[r].pc = "wrote" /\ route \in Routes
      /\ Goto(r, "leaving")
      /\ UNCHANGED <<lease, written, claims, faults>>
  BY DEF Advance, TypeOK, JobState
<1>2. next \in Nat /\ next = job[r].expected + 1 /\ next \in written[route]
  BY <1>1 DEF TypeOK, JobState, Evidence, NextOfExpected, WrittenFirst
<1>3. CASE Commits(r)
  <2>1. cp' = [cp EXCEPT ![route] =
                 [generation |-> cp[route].generation + 1, cursor |-> next,
                  committed |-> cp[route].committed + 1, run |-> r,
                  evidence |-> job[r].evidence]]
    BY <1>1, <1>3 DEF Advance, TypeOK
  <2>2. advanced' = advanced \cup {<<r, job[r].evidence>>}
    BY <1>3 DEF Advance
  <2>3. cp[route].generation = job[r].expected
    BY <1>3 DEF Commits, Row
  <2>4. cp' \in [Routes -> Checkpoint]
    BY <1>1, <1>2, <2>1 DEF TypeOK, Checkpoint, JobState, Evidence
  <2>5. TypeOK'
    BY <1>1, <2>2, <2>4 DEF TypeOK, JobState, Goto
  <2>6. TokensApart'
    BY <1>1 DEF TypeOK, JobState, TokensApart, Goto
  <2>7. ReceiptsIssued'
    BY <1>1, <1>2, <2>2 DEF TypeOK, JobState, ReceiptsIssued, TokensApart, Goto
  <2>8. NextOfExpected'
    BY <1>1 DEF TypeOK, JobState, NextOfExpected, Goto
  <2>9. WrittenFirst'
    BY <1>1, <1>2, <2>2 DEF TypeOK, JobState, WrittenFirst, Goto
  <2>10. NothingSkipped'
    <3> SUFFICES ASSUME NEW s \in Routes, NEW n \in 1 .. cp'[s].cursor
                 PROVE  n \in written[s]
      BY <1>1 DEF NothingSkipped
    <3>1. CASE s = route
      <4>1. n \in 1 .. next
        BY <1>1, <2>1, <3>1 DEF TypeOK
      <4>2. cp[route].cursor = job[r].expected
        BY <1>1, <2>3 DEF CountedOnce
      <4>3. job[r].expected \in Nat
        BY DEF TypeOK, JobState
      <4>4. n = next \/ n \in 1 .. cp[route].cursor
        BY <1>2, <4>1, <4>2, <4>3
      <4> QED
        BY <1>1, <1>2, <3>1, <4>4 DEF NothingSkipped
    <3>2. CASE s # route
      BY <2>1, <3>2 DEF TypeOK, NothingSkipped
    <3> QED
      BY <3>1, <3>2
  <2>11. CountedOnce'
    BY <1>1, <1>2, <2>1, <2>3 DEF TypeOK, CountedOnce
  <2> QED
    BY <2>5, <2>6, <2>7, <2>8, <2>9, <2>10, <2>11
<1>4. CASE ~Commits(r)
  <2>1. UNCHANGED <<cp, advanced>>
    BY <1>4 DEF Advance
  <2>2. TypeOK'
    BY <1>1, <2>1 DEF TypeOK, JobState, Goto
  <2>3. TokensApart' /\ ReceiptsIssued'
    BY <1>1, <2>1 DEF TypeOK, JobState, TokensApart, ReceiptsIssued, Goto
  <2>4. NextOfExpected' /\ WrittenFirst'
    BY <1>1, <2>1 DEF TypeOK, JobState, NextOfExpected, WrittenFirst, Goto
  <2>5. NothingSkipped' /\ CountedOnce'
    BY <1>1, <2>1 DEF NothingSkipped, CountedOnce
  <2> QED
    BY <2>2, <2>3, <2>4, <2>5
<1> QED
  BY <1>3, <1>4

\* Every step of the store or a host keeps the invariant.
LEMMA NextIInv == IInv /\ [Next]_vars => IInv'
<1> SUFFICES ASSUME IInv, [Next]_vars PROVE IInv'
  OBVIOUS
<1>1. CASE \E route \in Routes : Expire(route)
  <2> PICK route \in Routes : Expire(route)
    BY <1>1
  <2>1. UNCHANGED <<cp, job, written, advanced, claims, faults>>
    BY DEF Expire
  <2>2. [lease[route] EXCEPT !.live = FALSE] \in RunLease
    BY DEF IInv, TypeOK, RunLease
  <2>3. TypeOK'
    BY <2>1, <2>2 DEF IInv, TypeOK, Expire
  <2> QED
    BY <2>1, <2>3 DEF IInv, TokensApart, ReceiptsIssued, NextOfExpected, WrittenFirst,
       NothingSkipped, CountedOnce
<1>2. CASE UNCHANGED vars
  BY <1>2 DEF vars, IInv, TypeOK, TokensApart, ReceiptsIssued, NextOfExpected, WrittenFirst,
     NothingSkipped, CountedOnce
<1> QED
  BY <1>1, <1>2, LeaseSteps, RunSteps, AdvanceStep DEF Next

\* The invariant holds in every state the store can reach.
LEMMA Invariance == Spec => []IInv
  BY InitIInv, NextIInv, PTL DEF Spec

-----------------------------------------------------------------------------
\* The store and its hosts keep their types, however many routes, run ids,
\* leases and faults there are.
THEOREM TypeCorrect == Spec => []TypeOK
<1>1. IInv => TypeOK
  BY DEF IInv
<1> QED
  BY <1>1, Invariance, PTL

\* No cursor passes an increment the destination does not have: advance takes
\* the evidence of a completed write and compares the generation.
THEOREM CursorSafe == Spec => []NothingSkipped
<1>1. IInv => NothingSkipped
  BY DEF IInv
<1> QED
  BY <1>1, Invariance, PTL

\* Overlapping and repeated runs are counted once.
THEOREM CountSafe == Spec => []CountedOnce
<1>1. IInv => CountedOnce
  BY DEF IInv
<1> QED
  BY <1>1, Invariance, PTL

\* A live lease changes hands only when its holder leaves or crashes: claim
\* refuses it and release needs the token, which no other run holds.
THEOREM LeaseSafe == Spec => LeaseFenced
<1> DEFINE Kept == \A r \in Runs :
              /\ Holds(r)
              /\ lease[job[r].route].live
              /\ job'[r] = job[r]
              => lease'[job[r].route].token = lease[job[r].route].token
<1>1. IInv /\ [Next]_vars => [Kept]_vars
  <2> SUFFICES ASSUME IInv, Next, NEW r \in Runs, Holds(r),
                      lease[job[r].route].live, job'[r] = job[r]
               PROVE  lease'[job[r].route].token = lease[job[r].route].token
    OBVIOUS
  <2> DEFINE route == job[r].route
  <2>1. route \in Routes /\ job[r].pc # "idle"
    BY DEF IInv, TypeOK, JobState, Holds
  <2>2. CASE UNCHANGED lease
    BY <2>2
  <2>3. ASSUME NEW q \in Runs, NEW s \in Routes, Claim(q, s)
        PROVE  lease'[route] = lease[route]
    BY <2>1, <2>3 DEF Claim, IInv, TypeOK
  <2>4. ASSUME NEW q \in Runs, Renew(q)
        PROVE  lease'[route].token = lease[route].token
    BY <2>1, <2>4 DEF Renew, IInv, TypeOK, RunLease
  <2>5. ASSUME NEW q \in Runs, Release(q)
        PROVE  lease'[route] = lease[route]
    <3>1. q # r
      BY <2>5 DEF Release, Goto, IInv, TypeOK, JobState
    <3>2. CASE Holds(q)
      <4>1. job[q].token # job[r].token
        BY <2>1, <2>5, <3>1 DEF Release, IInv, TokensApart
      <4>2. job[q].route # route
        BY <3>2, <4>1 DEF Holds
      <4> QED
        BY <2>1, <2>5, <4>2 DEF Release, IInv, TypeOK
    <3>3. CASE ~Holds(q)
      BY <2>5, <3>3 DEF Release
    <3> QED
      BY <3>2, <3>3
  <2>6. ASSUME NEW s \in Routes, Expire(s)
        PROVE  lease'[route].token = lease[route].token
    BY <2>1, <2>6 DEF Expire, IInv, TypeOK, RunLease
  <2>7. CASE \E q \in Runs : Read(q) \/ Write(q) \/ WriteFails(q) \/ Advance(q) \/ Again(q)
                             \/ Crash(q)
    BY <2>2, <2>7 DEF Read, Write, WriteFails, Advance, Again, Crash
  <2> QED
    BY <2>3, <2>4, <2>5, <2>6, <2>7 DEF Next
<1> QED
  BY <1>1, Invariance, PTL DEF Spec, LeaseFenced
=============================================================================
