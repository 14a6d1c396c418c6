------------------------------ MODULE SyncState ------------------------------
(***************************************************************************)
(* Recurring runs (src/polymorph/sync_state.py): the SQLite store of route *)
(* checkpoints and run leases, driven by hosts as docs/RECURRING_RUNS.md   *)
(* prescribes: hold the lease, read the checkpoint, write one increment,   *)
(* build a commit receipt, advance.  A lease that expires does not stop    *)
(* its run, so two runs of a route may overlap between any two steps.      *)
(*                                                                         *)
(* The cursor of a route is the number of the last increment it covers,    *)
(* and an increment holds one record.  Evidence is the cursor a run wants  *)
(* and the receipt digest; a receipt holds the time it was built at, so    *)
(* two receipts differ and stand for the launch they were built in.        *)
(***************************************************************************)
EXTENDS Naturals

CONSTANTS Routes,    \* recurring routes of the store
          Runs,      \* run ids hosts use, again if they like
          NoRun,     \* the run id of a route without a checkpoint
          MaxClaims, \* bound: leases ever taken
          MaxFaults  \* bound: crashes, failed writes and repeated calls

ASSUME SyncConstants ==
    /\ NoRun \notin Runs
    /\ MaxClaims \in Nat
    /\ MaxFaults \in Nat

VARIABLES cp,       \* checkpoint row of every route, generation 0 if none
          lease,    \* run_leases row of every route, token 0 if none
          job,      \* what the host of each run id is doing
          written,  \* increments the destination has, per route (external)
          advanced, \* history: evidence that moved a cursor
          claims,   \* leases taken so far
          faults    \* faults so far

vars == <<cp, lease, job, written, advanced, claims, faults>>

Evidence == [next : Nat, receipt : Nat]
NoEvidence == [next |-> 0, receipt |-> 0]

Checkpoint == [generation : Nat, cursor : Nat, committed : Nat,
               run : Runs \cup {NoRun}, evidence : Evidence]
NoCheckpoint == [generation |-> 0, cursor |-> 0, committed |-> 0,
                 run |-> NoRun, evidence |-> NoEvidence]

RunLease == [token : Nat, live : BOOLEAN]
NoLease == [token |-> 0, live |-> FALSE]

JobState == [pc : {"idle", "held", "read", "wrote", "leaving"},
             route : Routes, token : Nat, expected : Nat, evidence : Evidence]

Holds(r) == job[r].pc # "idle" /\ lease[job[r].route].token = job[r].token

Goto(r, pc) == job' = [job EXCEPT ![r].pc = pc]

Fault == faults < MaxFaults /\ faults' = faults + 1

-----------------------------------------------------------------------------
(* Leases.                                                                 *)

\* claim: a route without a lease, or with one that has expired.
Claim(r, route) ==
    /\ job[r].pc = "idle"
    /\ ~lease[route].live
    /\ claims < MaxClaims
    /\ claims' = claims + 1
    /\ lease' = [lease EXCEPT ![route] = [token |-> claims + 1, live |-> TRUE]]
    /\ job' = [job EXCEPT ![r] = [pc |-> "held", route |-> route, token |-> claims + 1,
                                  expected |-> 0, evidence |-> NoEvidence]]
    /\ UNCHANGED <<cp, written, advanced, faults>>

\* renew revives an expired lease that nobody has taken; a lost one raises out
\* of hold.
Renew(r) ==
    /\ job[r].pc \in {"held", "read", "wrote"}
    /\ IF Holds(r)
       THEN /\ lease' = [lease EXCEPT ![job[r].route].live = TRUE]
            /\ UNCHANGED job
       ELSE /\ Goto(r, "leaving")
            /\ UNCHANGED lease
    /\ UNCHANGED <<cp, written, advanced, claims, faults>>

\* A release that deletes the lease of the route, whoever holds it.
ReleaseByRoute(r) ==
    /\ job[r].pc = "leaving"
    /\ lease' = [lease EXCEPT ![job[r].route] = NoLease]
    /\ Goto(r, "idle")
    /\ UNCHANGED <<cp, written, advanced, claims, faults>>

\* The end of hold: release deletes the lease if it is still the run's own and
\* raises otherwise.
Release(r) ==
    /\ job[r].pc = "leaving"
    /\ lease' = IF Holds(r) THEN [lease EXCEPT ![job[r].route] = NoLease] ELSE lease
    /\ Goto(r, "idle")
    /\ UNCHANGED <<cp, written, advanced, claims, faults>>

Expire(route) ==
    /\ lease[route].live
    /\ lease' = [lease EXCEPT ![route].live = FALSE]
    /\ UNCHANGED <<cp, job, written, advanced, claims, faults>>

-----------------------------------------------------------------------------
(* The increment.                                                          *)

\* get: the generation the run will expect and the cursor it starts from.
Read(r) ==
    /\ job[r].pc = "held"
    /\ job' = [job EXCEPT ![r].pc = "read",
                          ![r].expected = cp[job[r].route].generation,
                          ![r].evidence = [next |-> cp[job[r].route].cursor + 1,
                                           receipt |-> job[r].token]]
    /\ UNCHANGED <<cp, lease, written, advanced, claims, faults>>

\* The write completes and CommitReceipt.from_result takes its result.
Write(r) ==
    /\ job[r].pc = "read"
    /\ written' = [written EXCEPT ![job[r].route] = @ \cup {job[r].evidence.next}]
    /\ Goto(r, "wrote")
    /\ UNCHANGED <<cp, lease, advanced, claims, faults>>

\* A receipt of any result.
WriteFailsUnnoticed(r) ==
    /\ job[r].pc = "read"
    /\ Fault
    /\ Goto(r, "wrote")
    /\ UNCHANGED <<cp, lease, written, advanced, claims>>

\* A result that is not completed raises in from_result.
WriteFails(r) ==
    /\ job[r].pc = "read"
    /\ Fault
    /\ Goto(r, "leaving")
    /\ UNCHANGED <<cp, lease, written, advanced, claims>>

-----------------------------------------------------------------------------
(* advance, one transaction.                                               *)

Row(r) == cp[job[r].route]

\* The run id of the checkpoint makes a repeated call return or raise.
Repeated(r) == Row(r).run = r

\* An advance that overwrites the progress of another run.
CommitsAnyGeneration(r) ==
    /\ ~Repeated(r)
    /\ \A route \in Routes \ {job[r].route} : cp[route].run # r

\* The compare-and-swap, and the unique index over the run ids of all routes.
Commits(r) ==
    /\ ~Repeated(r)
    /\ Row(r).generation = job[r].expected
    /\ \A route \in Routes \ {job[r].route} : cp[route].run # r

\* The call raises: other evidence, another generation or another route.
Conflicts(r) ==
    IF Repeated(r) THEN Row(r).evidence # job[r].evidence ELSE ~Commits(r)

Advance(r) ==
    /\ job[r].pc = "wrote"
    /\ IF Commits(r)
       THEN /\ cp' = [cp EXCEPT ![job[r].route] =
                        [generation |-> @.generation + 1,
                         cursor     |-> job[r].evidence.next,
                         committed  |-> @.committed + 1,
                         run        |-> r,
                         evidence   |-> job[r].evidence]]
            /\ advanced' = advanced \cup {<<r, job[r].evidence>>}
       ELSE UNCHANGED <<cp, advanced>>
    /\ Goto(r, "leaving")
    /\ UNCHANGED <<lease, written, claims, faults>>

\* A host that did not see the outcome repeats the call with the same receipt.
Again(r) ==
    /\ job[r].pc = "leaving"
    /\ <<r, job[r].evidence>> \in advanced
    /\ Fault
    /\ Goto(r, "wrote")
    /\ UNCHANGED <<cp, lease, written, advanced, claims>>

Crash(r) ==
    /\ job[r].pc # "idle"
    /\ Fault
    /\ Goto(r, "idle")
    /\ UNCHANGED <<cp, lease, written, advanced, claims>>

Init ==
    /\ cp = [route \in Routes |-> NoCheckpoint]
    /\ lease = [route \in Routes |-> NoLease]
    /\ job \in [Runs -> {[pc |-> "idle", route |-> route, token |-> 0, expected |-> 0,
                          evidence |-> NoEvidence] : route \in Routes}]
    /\ \A r, q \in Runs : job[r] = job[q]
    /\ written = [route \in Routes |-> {}]
    /\ advanced = {}
    /\ claims = 0
    /\ faults = 0

Next ==
    \/ \E r \in Runs, route \in Routes : Claim(r, route)
    \/ \E r \in Runs : Renew(r)
    \/ \E r \in Runs : Release(r)
    \/ \E r \in Runs : Read(r)
    \/ \E r \in Runs : Write(r)
    \/ \E r \in Runs : WriteFails(r)
    \/ \E r \in Runs : Advance(r)
    \/ \E r \in Runs : Again(r)
    \/ \E r \in Runs : Crash(r)
    \/ \E route \in Routes : Expire(route)

Spec == Init /\ [][Next]_vars

-----------------------------------------------------------------------------
(* Properties.                                                             *)

\* The state of the store and its hosts has its type.
TypeOK ==
    /\ cp \in [Routes -> Checkpoint]
    /\ lease \in [Routes -> RunLease]
    /\ job \in [Runs -> JobState]
    /\ written \in [Routes -> SUBSET Nat]
    /\ advanced \in SUBSET (Runs \X Evidence)
    /\ claims \in Nat
    /\ faults \in Nat

\* A cursor never runs ahead of the destination: every increment up to it has
\* been written, whatever runs overlapped, failed, crashed or were repeated.
NothingSkipped ==
    \A route \in Routes : \A n \in 1 .. cp[route].cursor : n \in written[route]

\* Progress is counted once: overlapping runs that wrote the same increment and
\* repeated calls add nothing to the generation or the record count.
CountedOnce ==
    \A route \in Routes :
        /\ cp[route].cursor = cp[route].generation
        /\ cp[route].committed = cp[route].generation

\* A lease that is live is the holder's until it gives it up: a run whose own
\* lease expired can neither release nor renew nor take it.
LeaseFenced ==
    [][\A r \in Runs :
          /\ Holds(r)
          /\ lease[job[r].route].live
          /\ job'[r] = job[r]
          => lease'[job[r].route].token = lease[job[r].route].token]_vars
=============================================================================
