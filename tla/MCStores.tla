------------------------------ MODULE MCStores ------------------------------
(* What is kept on disk, one store at a time, since they share no state:   *)
(* the delivery ledger of an earlier release, a destination file that is   *)
(* written directly, the audit trail, the source keys that are trusted,    *)
(* and recipes.                                                            *)
EXTENDS MCDestinationRuntime, FileDestination, AuditLog, SourceTrust, RecipeReuse

CONSTANTS c1, c2

VARIABLE part

TwoCommands == Permutations({c1, c2})

(* Two threads of one process and a second process; one of the threads     *)
(* writes JSON.                                                            *)
ProcessTable == [w \in Writers |-> IF w = "c" THEN "q" ELSE "p"]
FormatTable == [w \in Writers |-> IF w = "b" THEN "json" ELSE "csv"]

(* A new directory, one that has been used, and a name that is taken.      *)
FilePlaces == {<<"none", 0>>, <<"ready", 1>>, <<"empty", 0>>}

(* A writer with large quotas that signs and one with small quotas.        *)
EventQuota == [w \in AuditWriters |-> IF w = "s" THEN 4 ELSE 3]
ByteQuota == [w \in AuditWriters |-> IF w = "s" THEN 10 ELSE 9]
SignTable == [w \in AuditWriters |-> w = "s"]
ByteTable == [e \in AuditEvents |-> IF e = "y" THEN 3 ELSE 2]

Thresholds == [c \in Commands |-> 1]

MCInit ==
    /\ part \in {"ledger", "file", "audit", "trust", "recipes"}
    /\ Init /\ FileInit /\ AuditInit /\ TrustInit /\ RecipeInit
    /\ part # "ledger" => caps = Plain /\ ledger = [k \in Keys |-> AbsentRow]
    /\ <<lockFile, destination.id>> \in IF part = "file" THEN FilePlaces ELSE {<<"none", 0>>}
    /\ part # "audit" => serial = 0

MCNext ==
    \/ /\ part = "ledger" /\ Next
       /\ UNCHANGED <<part, fileVars, auditVars, trustVars, recipeVars>>
    \/ /\ part = "file" /\ FileNext
       /\ UNCHANGED <<part, vars, auditVars, trustVars, recipeVars>>
    \/ /\ part = "audit" /\ AuditNext
       /\ UNCHANGED <<part, vars, fileVars, trustVars, recipeVars>>
    \/ /\ part = "trust" /\ TrustNext
       /\ UNCHANGED <<part, vars, fileVars, auditVars, recipeVars>>
    \/ /\ part = "recipes" /\ RecipeNext
       /\ UNCHANGED <<part, vars, fileVars, auditVars, trustVars>>

MCSpec == MCInit /\ [][MCNext]_<<part, vars, fileVars, auditVars, trustVars, recipeVars>>

=============================================================================
