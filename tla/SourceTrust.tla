---------------------------- MODULE SourceTrust ----------------------------
(***************************************************************************)
(* The registry of source signing keys (SourceTrustStore of signing.py)    *)
(* and the destination's check of a record against it                      *)
(* (BlindDestinationAgent._authorize_record of agents.py).  One thread     *)
(* verifies a batch of records inside a verification session, which holds  *)
(* the registry's lock to the end; other threads register, rotate, revoke  *)
(* and reactivate keys.  A record carries its protocol version, the key    *)
(* that signed it, its issuance time, the recipient key it was sealed for, *)
(* and whether its tenant, connector and plan are the agent's own.         *)
(***************************************************************************)
EXTENDS Integers, FiniteSets

CONSTANTS
    SourceKeys,     \* signing key ids of one tenant and connector
    RecipientKeys,  \* recipient key ids a record can name
    HeldKeys,           \* the ones whose private key the destination holds
    AllowUnsigned,  \* allow_legacy_unsigned of the destination agent
    AllowBlank,     \* allow_legacy_blank_recipient_key_id
    Graces,         \* rotation graces an operator may ask for
    Horizon,        \* bound: the last instant of the clock
    Forever         \* stands for not_after = None

TrustAssumption ==
    /\ Horizon \in Nat /\ Forever \in Nat /\ Forever > Horizon
    /\ Graces \subseteq Nat \ {0}
    /\ \A grace \in Graces : Horizon + grace < Forever
    /\ HeldKeys \subseteq RecipientKeys
    /\ {AllowUnsigned, AllowBlank} \subseteq BOOLEAN

ASSUME TrustAssumptionHolds == TrustAssumption

VARIABLES
    keys,       \* the registry: state, expiry and cutoff of each key
    session,    \* the open verification session: the record it let through last
    clock,
    cuts,       \* history: the first cutoff of each key, -1 when never rotated
    reopened    \* history: keys set active again after a rotation

trustVars == <<keys, session, clock, cuts, reopened>>

NoCut == 0 - 1

Unregistered == [state |-> "absent", notAfter |-> 0, cutoff |-> NoCut]

Fresh(expiry) == [state |-> "active", notAfter |-> expiry, cutoff |-> NoCut]

SignedRecords == [version : {2, 3}, key : SourceKeys, issued : 0..Horizon,
            expires : {1, Forever}, recipient : RecipientKeys \cup {"blank"},
            addressed : BOOLEAN]

(* TransferContext.__post_init__                                           *)
ContextValid(record) ==
    /\ record.version = 2 => record.recipient = "blank"
    /\ record.issued <= record.expires

(* BlindTransportRecord.__post_init__; every field has the same context.   *)
WellFormed(record) ==
    /\ ContextValid(record)
    /\ record.version = 3 => record.recipient # "blank" \/ AllowBlank

(* BlindTransportRecord.from_wire under the destination's policy.          *)
Decodes(record) ==
    /\ record.version = 2 => AllowUnsigned
    /\ WellFormed(record)

NoSession == [open |-> FALSE, passed |-> {}]

(* add: a key id that is registered with another policy is refused.        *)
Addable(k, entry) == keys[k] = Unregistered \/ keys[k] = entry

(* _ensure_mutation_allowed; another thread waits for the lock instead.    *)
Mutable == ~session.open

Add(k) ==
    /\ Mutable
    /\ \E expiry \in {Horizon, Forever} :
         /\ Addable(k, Fresh(expiry))
         /\ keys' = [keys EXCEPT ![k] = Fresh(expiry)]
    /\ UNCHANGED <<session, clock, cuts, reopened>>

Earlier(a, b) == IF a < b THEN a ELSE b

WithStateAndNewDeadline(entry, state, grace) ==
    CASE state = "verify_only" ->
           [state |-> state, notAfter |-> clock + grace,
            cutoff |-> IF entry.cutoff = NoCut THEN clock ELSE entry.cutoff]
      [] state = "active"  -> [entry EXCEPT !.state = state, !.cutoff = NoCut]
      [] state = "revoked" -> [entry EXCEPT !.state = state]

(* set_state: what becomes of an entry.  A second rotation keeps the first *)
(* cutoff and can only bring the deadline nearer; activation drops the     *)
(* cutoff and keeps the deadline.                                          *)
WithState(entry, state, grace) ==
    CASE state = "verify_only" ->
           LET cut == IF entry.cutoff = NoCut THEN clock ELSE entry.cutoff
           IN [state |-> state, notAfter |-> Earlier(entry.notAfter, cut + grace),
               cutoff |-> cut]
      [] state = "active"  -> [entry EXCEPT !.state = state, !.cutoff = NoCut]
      [] state = "revoked" -> [entry EXCEPT !.state = state]

SetState(k, state, grace) ==
    /\ Mutable
    /\ keys[k] # Unregistered
    /\ keys[k].state = "revoked" => state = "revoked"
    /\ keys' = [keys EXCEPT ![k] = WithState(keys[k], state, grace)]
    /\ cuts' = IF state = "verify_only" /\ cuts[k] = NoCut
               THEN [cuts EXCEPT ![k] = clock] ELSE cuts
    /\ reopened' = IF state = "active" /\ cuts[k] # NoCut
                   THEN reopened \cup {k} ELSE reopened
    /\ UNCHANGED <<session, clock>>

(* rotate: the old key is cut off and the new one registered, or neither.  *)
Rotate(old, new, grace) ==
    /\ Mutable
    /\ old # new
    /\ keys[old] # Unregistered /\ keys[old].state # "revoked"
    /\ Addable(new, Fresh(Forever))
    /\ keys' = [keys EXCEPT ![old] = WithState(keys[old], "verify_only", grace),
                            ![new] = Fresh(Forever)]
    /\ cuts' = IF cuts[old] = NoCut THEN [cuts EXCEPT ![old] = clock] ELSE cuts
    /\ UNCHANGED <<session, clock, reopened>>

(* _verify_record_locked, for a record whose signature is good.            *)
Verifies(k, issued) ==
    /\ keys[k].state \in {"active", "verify_only"}
    /\ clock <= keys[k].notAfter
    /\ keys[k].state = "verify_only" => issued <= keys[k].cutoff

(* _recipient_private_key: the private key of the named recipient, or the  *)
(* agent's first one for a record that names none.                         *)
RecipientAvailable(r) == r = "blank" \/ r \in HeldKeys

(* _authorize_record, inside the session.  An unsigned record of version 2 *)
(* is not held against the registry.                                       *)
Authorized(record) ==
    /\ IF record.version = 2 THEN AllowUnsigned
       ELSE /\ record.recipient # "blank" \/ AllowBlank
            /\ Verifies(record.key, record.issued)
    /\ record.addressed
    /\ RecipientAvailable(record.recipient)

OpenSession ==
    /\ ~session.open
    /\ session' = [open |-> TRUE, passed |-> {}]
    /\ UNCHANGED <<keys, clock, cuts, reopened>>

(* open_envelope with the private key authorization found: validate_time.  *)
Opens(record) == clock <= record.expires

(* open_record: the fields are opened only for an authorized record.       *)
OpenRecord(record) ==
    /\ session.open
    /\ record.issued <= clock
    /\ Decodes(record) /\ Authorized(record) /\ Opens(record)
    /\ session' = [session EXCEPT !.passed = {record}]
    /\ UNCHANGED <<keys, clock, cuts, reopened>>

CloseSession ==
    /\ session.open
    /\ session' = NoSession
    /\ UNCHANGED <<keys, clock, cuts, reopened>>

TrustTick ==
    /\ clock < Horizon
    /\ clock' = clock + 1
    /\ UNCHANGED <<keys, session, cuts, reopened>>

TrustInit ==
    /\ keys = [k \in SourceKeys |-> Unregistered]
    /\ session = NoSession
    /\ clock = 0
    /\ cuts = [k \in SourceKeys |-> NoCut]
    /\ reopened = {}

TrustNext ==
    \/ \E k \in SourceKeys : Add(k)
    \/ \E k \in SourceKeys, grace \in Graces :
         \E state \in {"active", "verify_only", "revoked"} : SetState(k, state, grace)
    \/ \E old, new \in SourceKeys, grace \in Graces : Rotate(old, new, grace)
    \/ OpenSession \/ CloseSession
    \/ \E record \in SignedRecords : OpenRecord(record)
    \/ TrustTick

TrustSpec == TrustInit /\ [][TrustNext]_trustVars

-----------------------------------------------------------------------------
(* A verification-only key always has a cutoff and a deadline, an active   *)
(* one never has a cutoff (TrustedSourceKey.__post_init__ raises else).    *)
TrustTypeOK ==
    \A k \in SourceKeys :
        /\ keys[k].state \in {"absent", "active", "verify_only", "revoked"}
        /\ keys[k].state = "active" => keys[k].cutoff = NoCut
        /\ keys[k].state = "verify_only" =>
              keys[k].cutoff # NoCut /\ keys[k].notAfter # Forever

(* Whatever sequence of rotations is asked for, a key that has been rotated*)
(* and not set active again lets no signed record through that was issued  *)
(* after its first cutoff, and a revoked key lets none through at all.     *)
CutoffHolds ==
    \A record \in {each \in session.passed : each.version = 3} :
        LET k == record.key
        IN /\ keys[k].state # "revoked"
           /\ k \notin reopened /\ cuts[k] # NoCut => record.issued <= cuts[k]

(* No operation on the registry gives a registered key more time: neither  *)
(* a longer grace on a second rotation nor reactivation (set_state), and a *)
(* revoked key stays revoked.                                              *)
TrustOnlyShrinks ==
    \A k \in SourceKeys : keys[k] # Unregistered =>
       /\ keys'[k].notAfter <= keys[k].notAfter
       /\ keys[k].state = "revoked" => keys'[k].state = "revoked"

(* Trust in a key only ever shrinks, and verification keeps to it          *)
(* (SourceTrustStore, _authorize_record).                                  *)
TrustSafe == [][TrustTypeOK' /\ CutoffHolds' /\ TrustOnlyShrinks]_trustVars

=============================================================================
