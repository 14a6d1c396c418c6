------------------------------ MODULE Handover ------------------------------
(***************************************************************************)
(* What the transfer path promises the two ends, whatever is between them: *)
(* the first content durably staged under an identity is the one that is   *)
(* kept, it is never dropped, and it reaches the target exactly once.      *)
(***************************************************************************)
EXTENDS Sequences

CONSTANTS Names, Contents, Nothing

VARIABLES
    kept,     \* the content accepted under each identity, or Nothing
    written   \* what the target has been given under each identity

handoverVars == <<kept, written>>

HandoverInit ==
    /\ kept = [n \in Names |-> Nothing]
    /\ written = [n \in Names |-> <<>>]

(* Several identities may be accepted at once, each of them for good.      *)
Keep ==
    /\ kept' \in [Names -> Contents \cup {Nothing}]
    /\ \A n \in Names : kept[n] \in {Nothing, kept'[n]}
    /\ UNCHANGED written

Write(n) ==
    /\ kept[n] # Nothing
    /\ written[n] = <<>>
    /\ written' = [written EXCEPT ![n] = <<kept[n]>>]
    /\ UNCHANGED kept

HandoverNext == Keep \/ \E n \in Names : Write(n)

HandoverSpec == HandoverInit /\ [][HandoverNext]_handoverVars

=============================================================================
