------------------------------ MODULE MCBatches ------------------------------
(* A batch at either end, one at a time, since the ends share no state:    *)
(* sealed by a source for the recipient key it trusts, or written by a     *)
(* destination with and without batch keys.                                *)
EXTENDS MCDestinationRuntime, RecipientTrust

CONSTANTS p1, p2

VARIABLE part

TwoSources == Permutations({p1, p2})

(* A chain of three certificates, a fork at the second generation, and a   *)
(* successor that brings a retired key back.                               *)
C(g, k, prior, i, from, to) ==
    [generation |-> g, key |-> k, previous |-> prior, issued |-> i, notBefore |-> from,
     notAfter |-> to]
CertificateSet == {C(1, "k1", "none", 0, 0, 1), C(2, "k2", "k1", 0, 0, 2),
                   C(2, "k3", "k1", 0, 0, 2), C(3, "k3", "k2", 1, 1, 2),
                   C(3, "k1", "k2", 0, 0, 2)}

MCInit ==
    /\ part \in {"sealing", "writing"}
    /\ Init /\ RecipientInit
    /\ part = "sealing" => caps = Batch

MCNext ==
    \/ part = "sealing" /\ RecipientNext /\ UNCHANGED <<part, vars>>
    \/ part = "writing" /\ Next /\ UNCHANGED <<part, recipientVars>>

MCSpec == MCInit /\ [][MCNext]_<<part, vars, recipientVars>>

=============================================================================
