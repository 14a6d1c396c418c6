------------------------------ MODULE MCRoutes ------------------------------
(* How a route comes about and recurs, one part at a time, since the parts *)
(* share no state: a route that is mapped and tried, an embedded session,  *)
(* the connectors it writes through, and recurring runs.                   *)
EXTENDS SyncState, MappingRoute, MoveSession, RemoteConnectors, TLC

CONSTANTS r1, r2

VARIABLE part

Symmetry == Permutations({r1, r2})

-----------------------------------------------------------------------------
(* Fields of every kind that the matcher and the validator tell apart.     *)
F(type, nullable, sensitivity, role) ==
    [type |-> type, nullable |-> nullable, sensitivity |-> sensitivity, role |-> role,
     lookup |-> "none", generated |-> FALSE]
Number == F("integer", FALSE, "internal", "value")
Text == F("string", TRUE, "internal", "value")
RequiredText == F("string", FALSE, "internal", "value")
Key == F("string", FALSE, "internal", "natural_key")
Secret == F("string", FALSE, "secret", "credential")
Untyped == F("unknown", TRUE, "internal", "natural_key")
Amount == F("decimal", TRUE, "personal", "value")
Reference == [F("integer", FALSE, "internal", "foreign_key") EXCEPT !.lookup = "string"]
Loose == [F("integer", TRUE, "internal", "foreign_key") EXCEPT !.lookup = "unknown"]
Vault == F("string", TRUE, "opaque", "value")
Serial == [F("integer", FALSE, "internal", "primary_key") EXCEPT !.generated = TRUE]

SourceSchemaSet == {<<Number, Text>>, <<Key, Secret>>, <<Untyped, Amount>>}
TargetSchemaSet == {<<Number, RequiredText>>, <<Reference, Secret>>, <<Loose, Amount>>,
                    <<Vault, Serial>>}

(* Files: every value in either field or in both, then files that are      *)
(* longer than a cap, that break, that have extra fields or formulas.      *)
R(a, b) == [values |-> <<a, b>>, extra |-> FALSE]
Fine == R("integer", "string")
FileOf(records) == [records |-> records, breaks |-> 0, formulas |-> FALSE]
Values == {"absent", "null", "blank", "numeral", "integer", "string", "infinite"}
FileSet ==
    {FileOf(<<>>), [FileOf(<<Fine>>) EXCEPT !.formulas = TRUE]}
    \cup {FileOf(<<x>>) : x \in UNION {{R(v, "string"), R("integer", v), R(v, v)} : v \in Values}}
    \cup {[FileOf(<<Fine, x>>) EXCEPT !.breaks = k] : k \in {0, 3},
            x \in {Fine, R("null", "absent"), [Fine EXCEPT !.extra = TRUE]}}
    \cup {[FileOf(<<Fine, Fine, Fine>>) EXCEPT !.breaks = k] : k \in {0, 3}}
CapSet == {[records |-> r, input |-> i] : r \in {1, NoCap}, i \in {2, NoCap}}
            \ {[records |-> 1, input |-> NoCap]}

-----------------------------------------------------------------------------
Proposal(first, second) == [f \in SourceFields |-> IF f = "f" THEN first ELSE second]
To(target, status) == [target |-> target, status |-> status]
ProposalSet == {Proposal(To(1, "auto"), To(2, "auto")),
                Proposal(To(1, "review"), To(2, "auto")),
                Proposal(To(1, "auto"), To(0, "blocked"))}
VersionSizes == <<2, 2>>

-----------------------------------------------------------------------------
ItemKinds == {"good", "bad", "raises", "same"}
InputSet == {<<>>} \cup UNION {[1..n -> ItemKinds] : n \in 1..3}

-----------------------------------------------------------------------------
(* A part that is not looked at has one initial state, and of the two      *)
(* directions of the connectors one is tried at a time.                    *)
NoRemote ==
    /\ write = [says |-> "none"] /\ fetch = [at |-> "ask"]
    /\ onTheWay = 0 /\ pending = <<>> /\ rowsKept = <<>>

MCInit ==
    /\ part \in {"runs", "route", "session", "connectors"}
    /\ Init /\ RouteInit /\ MoveInit
    /\ IF part = "connectors"
       THEN /\ RemoteInit
            /\ \/ fetch.mode = "none" /\ fetch.total = 0
               \/ write.sink = "plain" /\ Items = <<>> /\ write.batch
       ELSE NoRemote
    /\ part # "runs" => \A r \in Runs : job[r].route = "orders"
    /\ part # "route" => sourceSchema = <<Number, Text>> /\ targetSchema = <<Vault, Serial>>
    /\ part # "session" => source = "file" /\ proposal = Proposal(To(1, "auto"), To(2, "auto"))

MCNext ==
    \/ /\ part = "runs" /\ Next
       /\ UNCHANGED <<part, routeVars, moveVars, remoteVars>>
    \/ /\ part = "route" /\ RouteNext
       /\ UNCHANGED <<part, vars, moveVars, remoteVars>>
    \/ /\ part = "session" /\ MoveNext
       /\ UNCHANGED <<part, vars, routeVars, remoteVars>>
    \/ /\ part = "connectors" /\ RemoteNext
       /\ UNCHANGED <<part, vars, routeVars, moveVars>>

MCSpec ==
    MCInit /\ [][MCNext]_<<part, vars, routeVars, moveVars, remoteVars>>

=============================================================================
