----------------------------- MODULE MCWorkers -----------------------------
(* The processes that are asked about untrusted content: either an         *)
(* inspection in a parser worker or a scan by the guard; the other one is  *)
(* over from the start.                                                    *)
EXTENDS ParserIsolation, GuardBridge, TLC

VARIABLE part

(* Rewritten, shortened and grown versions of one file of two chunks.      *)
ContentSet == {<<"a", "a">>, <<"b", "b">>, <<"b">>, <<"a", "a", "b">>}

OriginalFiles == <<<<"a", "a">>, <<"b", "b">>>>

Linux == [os |-> "linux", rlimits |-> TRUE, root |-> FALSE, bwrap |-> "absent",
          jobs |-> FALSE, edits |-> 0, writes |-> 1, faulty |-> FALSE]
Sandboxing == [Linux EXCEPT !.bwrap = "current", !.writes = 2]
Container == [Linux EXCEPT !.root = TRUE, !.bwrap = "setid", !.writes = 0, !.faulty = TRUE]
Windows == [Linux EXCEPT !.os = "nt", !.jobs = TRUE]
WindowsWithoutJobs == [Windows EXCEPT !.jobs = FALSE, !.writes = 0]

(* The source is edited on a host of its own: it is not read again once it *)
(* has been copied, so its edits are independent of the worker.            *)
Shared == [Linux EXCEPT !.edits = 3, !.writes = 0]

PolicyTable ==
    LET P(b, m) == [backend |-> b, minimum |-> m]
    IN  Sandboxing :> {P("auto", OS_SANDBOX)}
     @@ Linux :> {P("auto", RESOURCE_LIMITED_PROCESS), P("auto", OS_SANDBOX)}
     @@ Container :> {P("process", PROCESS), P("auto", RESOURCE_LIMITED_PROCESS),
                      P("bubblewrap", OS_SANDBOX)}
     @@ Windows :> {P("auto", RESOURCE_LIMITED_PROCESS)}
     @@ WindowsWithoutJobs :> {P("auto", PROCESS), P("process", OS_SANDBOX)}
     @@ Shared :> {P("process", PROCESS)}

HostSet == DOMAIN PolicyTable

-----------------------------------------------------------------------------
NoInspection ==
    /\ host = WindowsWithoutJobs /\ policy \in Policies[host] /\ policy.backend = "auto"
    /\ files = [i \in Inodes |-> [data |-> Original[i], stamp |-> 0]]
    /\ path = Gone /\ edits = 0 /\ held = {} /\ snap = NoFile
    /\ client = [pc |-> "done", result |-> "none"]
    /\ proc = [state |-> "none", exit |-> 0, killed |-> FALSE]
    /\ kid = "none" /\ worker = [phase |-> "off"]
    /\ pipe = [s \in Streams |-> <<>>] /\ buf = [s \in Streams |-> <<>>]
    /\ rd = [s \in Streams |-> "off"]

NoScan ==
    /\ scan = [at |-> "over", yielded |-> <<>>, says |-> "failed"]
    /\ guard = [alive |-> FALSE, deaf |-> FALSE] /\ output = <<>> /\ responses = <<>>
    /\ reader = [at |-> "done", item |-> End]

MCInit ==
    \/ part = "parser" /\ ParserInit /\ NoScan
    \/ part = "guard" /\ GuardInit /\ NoInspection

MCNext ==
    \/ part = "parser" /\ ParserNext /\ UNCHANGED <<part, guardVars>>
    \/ part = "guard" /\ GuardNext /\ UNCHANGED <<part, parserVars>>

MCSpec ==
    /\ MCInit /\ [][MCNext]_<<part, parserVars, guardVars>>
    /\ ParserFairness /\ GuardFairness

=============================================================================
