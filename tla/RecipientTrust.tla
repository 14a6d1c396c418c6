--------------------------- MODULE RecipientTrust ---------------------------
(***************************************************************************)
(* The recipient key a source seals for (recipient_auth.py) and the batch  *)
(* that is sealed for it (BlindSourceAgent.prepare_records of agents.py).  *)
(* Several processes hold a RecipientKeyTrustStore over one state file.    *)
(* Every operation that touches the file runs under the store's lock and   *)
(* the lock of the path and is one action; what is not atomic is the batch *)
(* (begin, one record at a time, confirm), a replacement that fails after  *)
(* it may have happened, and a power loss before the directory is synced.  *)
(***************************************************************************)
EXTENDS Naturals, FiniteSets, Sequences

CONSTANTS
    Sources,       \* processes with a trust store and a source agent
    Certificates,  \* certificates signed by the pinned identity
    MaxUsedKeys,   \* _MAX_USED_KEY_IDS
    BatchRecords,  \* records of a batch
    LastInstant,   \* bound: the clock
    MaxMishaps      \* bound: uncertain replacements, restarts and power losses

NoCertificate == [generation |-> 0, key |-> "none", previous |-> "none",
                  issued |-> 0, notBefore |-> 0, notAfter |-> 0]

(* RecipientKeyCertificate.__post_init__                                   *)
WellFormedCertificate(c) ==
    /\ c.generation > 0 /\ c.key # "none"
    /\ c.generation = 1 <=> c.previous = "none"
    /\ c.previous # c.key
    /\ c.notBefore < c.notAfter /\ c.issued <= c.notAfter

RecipientAssumption ==
    /\ {MaxUsedKeys, BatchRecords, LastInstant, MaxMishaps} \subseteq Nat
    /\ \A c \in Certificates :
          /\ {c.generation, c.issued, c.notBefore, c.notAfter} \subseteq Nat
          /\ WellFormedCertificate(c)

ASSUME RecipientAssumptionHolds == RecipientAssumption

VARIABLES
    disk,      \* the state file: head, used keys, and a fingerprint
    synced,    \* the last version whose directory entry was synced
    store,     \* what each process remembers of it
    batch,     \* the batch each process is sealing
    sealedFor, \* history: certificates a finished record was sealed for
    acked,     \* history: the newest certificate accept has returned
    now, mishaps

recipientVars == <<disk, synced, store, batch, sealedFor, acked, now, mishaps>>

Absent == [head |-> NoCertificate, used |-> {}, version |-> 0]

Idle == [phase |-> "idle", certificate |-> NoCertificate, revision |-> 0,
         version |-> 0, count |-> 0, heads |-> {}]

(* __init__: a fresh object reads the file when there is one.  A version   *)
(* of 0 is the fingerprint None.                                           *)
Opened == [head |-> disk.head, used |-> disk.used, version |-> disk.version,
           revision |-> IF disk.version = 0 THEN 0 ELSE 1]

RefreshedOnlyWhenUncertain(s) ==
    IF store[s].version # 0 THEN store[s] ELSE
    [head |-> disk.head, used |-> disk.used, version |-> disk.version,
     revision |-> store[s].revision + 1]

(* _reload_state_if_changed: the memory of a process after it has looked   *)
(* at the file under the lock.                                             *)
Refreshed(s) ==
    IF store[s].version = disk.version THEN store[s] ELSE
    [head |-> disk.head, used |-> disk.used, version |-> disk.version,
     revision |-> store[s].revision + 1]

(* _verify_current_validity                                                *)
Valid(c) == c.notBefore <= now /\ now <= c.notAfter

(* _accept_transition, for a certificate that is not the current one.      *)
Follows(c, head, used) ==
    IF head = NoCertificate
    THEN c.generation = 1 /\ c.previous = "none" /\ used = {}
    ELSE /\ c.generation = head.generation + 1
         /\ c.previous = head.key
         /\ c.issued >= head.issued
         /\ c.key \notin used
         /\ Cardinality(used) < MaxUsedKeys

(* What the batches in progress will remember of the file's history.       *)
Witnessed(head) ==
    [s \in Sources |-> IF batch[s].phase # "sealing" THEN batch[s]
                       ELSE [batch[s] EXCEPT !.heads = @ \cup {head}]]

Replaced(c, used) == [head |-> c, used |-> used, version |-> disk.version + 1]

(* accept.  The replacement may fail with the old or the new file in       *)
(* place, and the sync of the directory may fail after it; in each case    *)
(* accept raises, and after a failed replacement the memory falls back to  *)
(* what it last saw and forgets the fingerprint.  A repeated accept of the *)
(* head only syncs.                                                        *)
Accept(s, c) ==
    LET was == Refreshed(s)
        file == Replaced(c, was.used \cup {c.key})
        revised == [was EXCEPT !.revision = @ + 1]
    IN /\ Valid(c)
       /\ \/ /\ c = was.head
             /\ store' = [store EXCEPT ![s] = was]
             /\ \/ synced' = disk /\ acked' = c /\ UNCHANGED mishaps
                \/ /\ mishaps < MaxMishaps /\ mishaps' = mishaps + 1
                   /\ UNCHANGED <<synced, acked>>
             /\ UNCHANGED <<disk, batch>>
          \/ /\ c # was.head /\ Follows(c, was.head, was.used)
             /\ \/ /\ disk' = file
                   /\ store' = [store EXCEPT ![s] = [revised EXCEPT
                         !.head = c, !.used = file.used, !.version = file.version]]
                   /\ batch' = Witnessed(c)
                   /\ \/ synced' = file /\ acked' = c /\ UNCHANGED mishaps
                      \/ /\ mishaps < MaxMishaps /\ mishaps' = mishaps + 1
                         /\ UNCHANGED <<synced, acked>>
                \/ /\ mishaps < MaxMishaps /\ mishaps' = mishaps + 1
                   /\ \/ UNCHANGED <<disk, batch>>
                      \/ disk' = file /\ batch' = Witnessed(c)
                   /\ store' = [store EXCEPT ![s] = [revised EXCEPT !.version = 0]]
                   /\ UNCHANGED <<synced, acked>>
       /\ UNCHANGED <<sealedFor, now>>

(* authorize and prepare_record: one record for the head of this moment.   *)
SealOne(s) ==
    LET seen == Refreshed(s)
    IN /\ disk.version # 0
       /\ Valid(seen.head)
       /\ store' = [store EXCEPT ![s] = seen]
       /\ sealedFor' = sealedFor \cup {seen.head}
       /\ UNCHANGED <<disk, synced, batch, acked, now, mishaps>>

(* prepare_records: begin_batch_authorization ...                          *)
BeginBatch(s) ==
    LET seen == Refreshed(s)
    IN /\ batch[s].phase = "idle"
       /\ disk.version # 0
       /\ store' = [store EXCEPT ![s] = seen]
       /\ batch' = [batch EXCEPT ![s] =
             [phase |-> "sealing", certificate |-> seen.head, revision |-> seen.revision,
              version |-> seen.version, count |-> 0, heads |-> {disk.head}]]
       /\ UNCHANGED <<disk, synced, sealedFor, acked, now, mishaps>>

(* ... authorize_batch_record for each record at its issuance time: one    *)
(* that falls outside the certificate's validity fails the whole batch ... *)
SealRecord(s) ==
    /\ batch[s].phase = "sealing" /\ batch[s].count < BatchRecords
    /\ batch' = [batch EXCEPT ![s] = IF Valid(batch[s].certificate)
                                     THEN [batch[s] EXCEPT !.count = @ + 1] ELSE Idle]
    /\ UNCHANGED <<disk, synced, store, sealedFor, acked, now, mishaps>>

ConfirmByCertificateInMemory(s) ==
    /\ batch[s].phase = "sealing" /\ batch[s].count = BatchRecords
    /\ batch' = [batch EXCEPT ![s] =
           IF store[s].head = batch[s].certificate
           THEN [@ EXCEPT !.phase = "confirmed"] ELSE Idle]
    /\ sealedFor' = IF batch'[s].phase = "confirmed"
                    THEN sealedFor \cup {batch[s].certificate} ELSE sealedFor
    /\ UNCHANGED <<disk, synced, store, acked, now, mishaps>>

(* ... and confirm_batch_authorization: nothing leaves prepare_records     *)
(* unless the trust head is what it was, by revision, file and content.    *)
ConfirmBatch(s) ==
    LET seen == Refreshed(s)
        mine == batch[s]
        same == /\ seen.revision = mine.revision
                /\ seen.version = mine.version
                /\ seen.head = mine.certificate
    IN /\ mine.phase = "sealing" /\ mine.count = BatchRecords
       /\ store' = [store EXCEPT ![s] = seen]
       /\ batch' = [batch EXCEPT ![s] = IF same THEN [mine EXCEPT !.phase = "confirmed"]
                                        ELSE Idle]
       /\ sealedFor' = IF same THEN sealedFor \cup {mine.certificate} ELSE sealedFor
       /\ UNCHANGED <<disk, synced, acked, now, mishaps>>

(* The caller takes the batch away (see the pipeline).                     *)
HandOver(s) ==
    /\ batch[s].phase = "confirmed"
    /\ batch' = [batch EXCEPT ![s] = Idle]
    /\ UNCHANGED <<disk, synced, store, sealedFor, acked, now, mishaps>>

Restart(s) ==
    /\ mishaps < MaxMishaps /\ mishaps' = mishaps + 1
    /\ store' = [store EXCEPT ![s] = Opened]
    /\ batch' = [batch EXCEPT ![s] = Idle]
    /\ UNCHANGED <<disk, synced, sealedFor, acked, now>>

(* The machine loses power: an unsynced replacement may be undone.  The    *)
(* processes are gone with it and read whatever file there is.             *)
PowerLoss ==
    /\ mishaps < MaxMishaps /\ mishaps' = mishaps + 1
    /\ \E file \in {disk, synced} :
         /\ disk' = file
         /\ synced' = file
         /\ store' = [s \in Sources |-> [head |-> file.head, used |-> file.used,
                        version |-> file.version,
                        revision |-> IF file.version = 0 THEN 0 ELSE 1]]
    /\ batch' = [s \in Sources |-> Idle]
    /\ UNCHANGED <<sealedFor, acked, now>>

RecipientTick ==
    /\ now < LastInstant
    /\ now' = now + 1
    /\ UNCHANGED <<disk, synced, store, batch, sealedFor, acked, mishaps>>

RecipientInit ==
    /\ disk = Absent
    /\ synced = Absent
    /\ store = [s \in Sources |-> Opened]
    /\ batch = [s \in Sources |-> Idle]
    /\ sealedFor = {}
    /\ acked = NoCertificate
    /\ now = 1
    /\ mishaps = 0

RecipientNext ==
    \/ \E s \in Sources, c \in Certificates : Accept(s, c)
    \/ \E s \in Sources : \/ SealOne(s) \/ BeginBatch(s) \/ SealRecord(s)
                          \/ ConfirmBatch(s) \/ HandOver(s) \/ Restart(s)
    \/ PowerLoss
    \/ RecipientTick

RecipientSpec == RecipientInit /\ [][RecipientNext]_recipientVars

-----------------------------------------------------------------------------
RecipientTypeOK ==
    /\ disk.head \in Certificates \cup {NoCertificate}
    /\ disk.used \subseteq {c.key : c \in Certificates}
    /\ \A s \in Sources : /\ store[s].head \in Certificates \cup {NoCertificate}
                          /\ batch[s].phase \in {"idle", "sealing", "confirmed"}
                          /\ batch[s].count \in 0..BatchRecords
    /\ acked \in Certificates \cup {NoCertificate}

(* The persisted head moves along one chain: to the next generation, whose *)
(* predecessor is the key it replaces and whose own key was never a head   *)
(* before, whichever process moves it and however stale its memory was; a  *)
(* power loss may only undo a step that was never synced (accept).         *)
HeadMovesForward ==
    disk'.head # disk.head =>
      \/ /\ disk'.head.generation = disk.head.generation + 1
         /\ disk'.head.previous = disk.head.key
         /\ disk'.head.key \notin disk.used
      \/ disk' = synced

(* A certificate accept has returned for is not lost, whatever power       *)
(* losses and uncertain replacements follow: the file is at its generation *)
(* or past it (_sync_parent_directory, also for a repeated accept).        *)
AcceptedIsDurable == disk.head.generation >= acked.generation

(* A batch leaves prepare_records only if one certificate was the          *)
(* persisted head from before its first record until after its last, for   *)
(* every process that could have moved it (confirm_batch_authorization).   *)
BatchUnderOneHead ==
    \A s \in Sources :
        batch[s].phase = "confirmed" => batch[s].heads = {batch[s].certificate}

(* No record is finished for a certificate that is not, at that moment,    *)
(* the persisted head: an update whose outcome is uncertain never leaves a *)
(* process sealing for a key the file does not hold.                       *)
SealsForPersistedHead ==
    \A c \in sealedFor' \ sealedFor : c = disk.head

(* What a source relies on when it seals: accepted certificates last, and a*)
(* batch is under one head from its first record to its confirmation.      *)
SealingSafe == RecipientTypeOK /\ AcceptedIsDurable /\ BatchUnderOneHead

(* No step moves the head off its chain or finishes a record for another   *)
(* certificate than the head.                                              *)
HeadIsSafe == [][HeadMovesForward /\ SealsForPersistedHead]_recipientVars

=============================================================================
