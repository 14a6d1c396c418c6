-------------------------- MODULE KeyTrustProofs --------------------------
(***************************************************************************)
(* Proofs about the two key registries, for every set of keys, processes,  *)
(* certificates and records, and every bound of their clocks.              *)
(*                                                                         *)
(* Source keys (SourceTrust): trust only shrinks.  That a cutoff holds is  *)
(* not inductive: the proof has to know that the cutoff in the registry is *)
(* the first one of the key until an operator sets the key active again,   *)
(* and that nothing changes in the registry while a session has let a      *)
(* record through.                                                         *)
(*                                                                         *)
(* Recipient keys (RecipientTrust): a version is never given to two        *)
(* contents of the file that a living process could compare (replacements  *)
(* count up, a power loss ends every process), so a process whose          *)
(* fingerprint matches remembers the file, and a batch whose fingerprint   *)
(* still matches has seen one head.                                        *)
(***************************************************************************)
EXTENDS SourceTrust, RecipientTrust, TLAPS

-----------------------------------------------------------------------------
(* The registry of source keys.                                            *)

Entry == [state : {"absent", "active", "verify_only", "revoked"}, notAfter : Nat,
          cutoff : 0..Horizon \cup {NoCut}]

\* The registry, the clock and the history have their types.
RegistryType ==
    /\ keys \in [SourceKeys -> Entry]
    /\ clock \in 0..Horizon
    /\ cuts \in [SourceKeys -> 0..Horizon \cup {NoCut}]
    /\ \A record \in session.passed : record \in SignedRecords

\* A key without a state is not registered at all.
AbsentIsUnregistered ==
    \A k \in SourceKeys : keys[k].state = "absent" => keys[k] = Unregistered

\* The cutoff of a key that was not set active again is its first one, and it
\* is no longer active.
FirstCutoffKept ==
    \A k \in SourceKeys : k \notin reopened =>
        /\ keys[k].cutoff = cuts[k]
        /\ cuts[k] # NoCut => keys[k].state \in {"verify_only", "revoked"}

\* What has passed has passed in the session that is open.
PassedInSession == ~session.open => session.passed = {}

\* The inductive invariant of the registry.
TInv == /\ RegistryType
        /\ AbsentIsUnregistered
        /\ TrustTypeOK
        /\ FirstCutoffKept
        /\ PassedInSession
        /\ CutoffHolds

\* What a step may do to the registry.
Shrinks == TrustTypeOK' /\ CutoffHolds' /\ TrustOnlyShrinks

-----------------------------------------------------------------------------
\* An empty registry satisfies the invariant.
LEMMA TInvInit == TrustInit => TInv
  <1> SUFFICES ASSUME TrustInit PROVE TInv
    OBVIOUS
  <1>1. Unregistered \in Entry
    BY DEF Unregistered, Entry
  <1>2. RegistryType
    BY <1>1, TrustAssumptionHolds DEF TrustInit, RegistryType, TrustAssumption, NoSession
  <1> QED BY <1>2 DEF TrustInit, TInv, AbsentIsUnregistered, TrustTypeOK, FirstCutoffKept,
             PassedInSession, CutoffHolds, Unregistered, NoSession, NoCut

\* What set_state makes of a registered entry that is not revoked, or is
\* revoked again.
LEMMA StateSet ==
  ASSUME RegistryType, NEW entry \in Entry, NEW grace \in Graces,
         NEW state \in {"active", "verify_only", "revoked"},
         entry.state = "verify_only" => entry.cutoff # NoCut /\ entry.notAfter # Forever
  PROVE  LET e == WithState(entry, state, grace)
         IN /\ e \in Entry
            /\ e.state = state
            /\ e.notAfter <= entry.notAfter
            /\ state = "active" => e.cutoff = NoCut
            /\ state = "revoked" => e.cutoff = entry.cutoff
            /\ state = "verify_only" =>
                 /\ e.cutoff = (IF entry.cutoff = NoCut THEN clock ELSE entry.cutoff)
                 /\ e.cutoff # NoCut
                 /\ e.notAfter # Forever
  <1>0. /\ clock \in Nat /\ clock <= Horizon /\ grace \in Nat /\ Horizon \in Nat
        /\ Horizon + grace < Forever /\ Forever \in Nat
        /\ entry.notAfter \in Nat /\ entry.cutoff \in 0..Horizon \cup {NoCut}
    BY TrustAssumptionHolds DEF TrustAssumption, RegistryType, Entry
  <1>1. CASE state = "verify_only"
    <2> DEFINE cut == IF entry.cutoff = NoCut THEN clock ELSE entry.cutoff
    <2>1. cut \in 0..Horizon /\ cut # NoCut
      BY <1>0 DEF NoCut
    <2>2. WithState(entry, state, grace) =
            [state |-> state, notAfter |-> Earlier(entry.notAfter, cut + grace), cutoff |-> cut]
      BY <1>1 DEF WithState
    <2> HIDE DEF cut
    <2>3. /\ Earlier(entry.notAfter, cut + grace) \in Nat
          /\ Earlier(entry.notAfter, cut + grace) <= entry.notAfter
          /\ Earlier(entry.notAfter, cut + grace) < Forever
      BY <1>0, <2>1 DEF Earlier
    <2>4. WithState(entry, state, grace) \in Entry
      BY <1>1, <2>1, <2>2, <2>3 DEF Entry
    <2>5. /\ WithState(entry, state, grace).state = state
          /\ WithState(entry, state, grace).notAfter = Earlier(entry.notAfter, cut + grace)
          /\ WithState(entry, state, grace).cutoff = cut
      BY <2>2
    <2>6. cut = IF entry.cutoff = NoCut THEN clock ELSE entry.cutoff
      BY DEF cut
    <2>7. Earlier(entry.notAfter, cut + grace) # Forever
      BY <1>0, <2>3
    <2> QED BY <1>1, <2>1, <2>3, <2>4, <2>5, <2>6, <2>7
  <1>2. CASE state = "active"
    <2>1. WithState(entry, state, grace) = [entry EXCEPT !.state = state, !.cutoff = NoCut]
      BY <1>2 DEF WithState
    <2>2. WithState(entry, state, grace) \in Entry
      BY <1>0, <1>2, <2>1 DEF Entry
    <2>3. /\ WithState(entry, state, grace).state = state
          /\ WithState(entry, state, grace).notAfter = entry.notAfter
          /\ WithState(entry, state, grace).cutoff = NoCut
      BY <2>1 DEF Entry
    <2> QED BY <1>0, <1>2, <2>2, <2>3
  <1>3. CASE state = "revoked"
    <2>1. WithState(entry, state, grace) = [entry EXCEPT !.state = state]
      BY <1>3 DEF WithState
    <2> QED BY <1>0, <1>3, <2>1 DEF Entry
  <1> QED BY <1>1, <1>2, <1>3

\* A step that changes no entry, no history and lets nothing through.
LEMMA QuietTrust ==
  ASSUME TInv, UNCHANGED <<keys, cuts, reopened>>, clock' \in 0..Horizon,
         session' = session \/ session'.passed = {}
  PROVE  TInv' /\ Shrinks
  <1>1. RegistryType'
    BY DEF TInv, RegistryType
  <1>2. CutoffHolds'
    BY DEF TInv, CutoffHolds
  <1>3. PassedInSession'
    BY DEF TInv, PassedInSession
  <1>4. TrustOnlyShrinks
    BY DEF TInv, RegistryType, Entry, TrustOnlyShrinks
  <1> QED BY <1>1, <1>2, <1>3, <1>4
          DEF TInv, AbsentIsUnregistered, TrustTypeOK, FirstCutoffKept, Shrinks

\* What an operation of the registry does to one key.
Changed(k) ==
    /\ keys'[k].state = "absent" => keys'[k] = Unregistered
    /\ keys'[k].state = "active" => keys'[k].cutoff = NoCut
    /\ keys'[k].state = "verify_only" =>
          keys'[k].cutoff # NoCut /\ keys'[k].notAfter # Forever
    /\ k \notin reopened' =>
          /\ keys'[k].cutoff = cuts'[k]
          /\ cuts'[k] # NoCut => keys'[k].state \in {"verify_only", "revoked"}
    /\ keys[k] # Unregistered =>
          /\ keys'[k].notAfter <= keys[k].notAfter
          /\ keys[k].state = "revoked" => keys'[k].state = "revoked"

\* A key that an operation leaves alone has changed in this sense too.
LEMMA Untouched ==
  ASSUME TInv, NEW k \in SourceKeys, keys'[k] = keys[k], cuts'[k] = cuts[k],
         k \in reopened' <=> k \in reopened
  PROVE  Changed(k)
  BY DEF Changed, TInv, RegistryType, Entry, AbsentIsUnregistered, TrustTypeOK, FirstCutoffKept

\* An operation of the registry, outside of any session, keeps the invariant if
\* it does to each key what it may.
LEMMA RegistryStep ==
  ASSUME TInv, Mutable, UNCHANGED <<session, clock>>,
         keys' \in [SourceKeys -> Entry], cuts' \in [SourceKeys -> 0..Horizon \cup {NoCut}],
         \A k \in SourceKeys : Changed(k)
  PROVE  TInv' /\ Shrinks
  <1>1. session.passed = {}
    BY DEF TInv, PassedInSession, Mutable
  <1>2. RegistryType' /\ PassedInSession' /\ CutoffHolds'
    BY <1>1 DEF TInv, RegistryType, PassedInSession, CutoffHolds
  <1>3. AbsentIsUnregistered' /\ TrustTypeOK' /\ FirstCutoffKept' /\ TrustOnlyShrinks
    <2>1. TrustTypeOK'
      BY DEF Changed, TrustTypeOK, Entry
    <2> QED BY <2>1 DEF Changed, AbsentIsUnregistered, FirstCutoffKept, TrustOnlyShrinks
  <1> QED BY <1>2, <1>3 DEF TInv, Shrinks

\* Registering a key changes an entry that was not there.
LEMMA AddedChanges ==
  ASSUME TInv, NEW k \in SourceKeys, NEW expiry \in {Horizon, Forever},
         Addable(k, Fresh(expiry)), keys'[k] = Fresh(expiry),
         cuts'[k] = cuts[k], reopened' = reopened
  PROVE  Fresh(expiry) \in Entry /\ Changed(k)
  <1>1. Fresh(expiry) \in Entry
    BY TrustAssumptionHolds DEF TrustAssumption, Fresh, Entry
  <1>2. CASE keys[k] = Fresh(expiry)
    BY <1>1, <1>2, Untouched
  <1>3. CASE keys[k] = Unregistered
    <2>1. k \notin reopened => cuts[k] = NoCut
      BY <1>3 DEF TInv, FirstCutoffKept, Unregistered
    <2> QED BY <1>1, <1>3, <2>1 DEF Changed, Fresh
  <1> QED BY <1>1, <1>2, <1>3 DEF Addable

\* Cutting a key off keeps its first cutoff and brings its deadline no later.
LEMMA StateChanges ==
  ASSUME TInv, NEW k \in SourceKeys, NEW grace \in Graces,
         NEW state \in {"active", "verify_only", "revoked"},
         keys[k] # Unregistered,
         keys[k].state = "revoked" => state = "revoked",
         keys'[k] = WithState(keys[k], state, grace),
         cuts'[k] = (IF state = "verify_only" /\ cuts[k] = NoCut THEN clock ELSE cuts[k]),
         k \in reopened' <=> (k \in reopened \/ (state = "active" /\ cuts[k] # NoCut))
  PROVE  keys'[k] \in Entry /\ Changed(k)
  <1>0. RegistryType /\ keys[k] \in Entry
    BY DEF TInv, RegistryType
  <1>1. keys[k].state = "verify_only" => keys[k].cutoff # NoCut /\ keys[k].notAfter # Forever
    BY DEF TInv, TrustTypeOK
  <1>2. /\ keys'[k] \in Entry
        /\ keys'[k].state = state
        /\ keys'[k].notAfter <= keys[k].notAfter
        /\ state = "active" => keys'[k].cutoff = NoCut
        /\ state = "revoked" => keys'[k].cutoff = keys[k].cutoff
        /\ state = "verify_only" =>
             /\ keys'[k].cutoff = (IF keys[k].cutoff = NoCut THEN clock ELSE keys[k].cutoff)
             /\ keys'[k].cutoff # NoCut
             /\ keys'[k].notAfter # Forever
    BY <1>0, <1>1, StateSet
  <1>3. k \notin reopened => keys[k].cutoff = cuts[k]
    BY DEF TInv, FirstCutoffKept
  <1>4. k \notin reopened' =>
          /\ keys'[k].cutoff = cuts'[k]
          /\ cuts'[k] # NoCut => keys'[k].state \in {"verify_only", "revoked"}
    BY <1>2, <1>3
  <1> QED BY <1>2, <1>4 DEF Changed

\* A record that passes is covered by its key as the registry has it.
LEMMA OpenStep ==
  ASSUME TInv, NEW record \in SignedRecords, OpenRecord(record)
  PROVE  TInv' /\ Shrinks
  <1>1. session.open /\ session'.passed = {record} /\ UNCHANGED <<keys, clock, cuts, reopened>>
        /\ session'.open
    <2>1. session' = [session EXCEPT !.passed = {record}]
      BY DEF OpenRecord
    <2> QED BY <2>1 DEF OpenRecord
  <1>2. record.version = 3 => Verifies(record.key, record.issued)
    BY DEF OpenRecord, Authorized
  <1>3. record.key \in SourceKeys
    BY DEF SignedRecords
  <1>4. CutoffHolds'
    BY <1>1, <1>2, <1>3 DEF CutoffHolds, Verifies, TInv, FirstCutoffKept
  <1>5. RegistryType' /\ PassedInSession'
    BY <1>1 DEF TInv, RegistryType, PassedInSession
  <1>6. TrustOnlyShrinks
    BY <1>1 DEF TInv, RegistryType, Entry, TrustOnlyShrinks
  <1> QED BY <1>1, <1>4, <1>5, <1>6
          DEF TInv, AbsentIsUnregistered, TrustTypeOK, FirstCutoffKept, Shrinks

\* Every step keeps the invariant and shrinks trust: one case per action.
LEMMA TInvStep == TInv /\ [TrustNext]_trustVars => TInv' /\ [Shrinks]_trustVars
  <1> SUFFICES ASSUME TInv, [TrustNext]_trustVars PROVE TInv' /\ Shrinks
    OBVIOUS
  <1>t. /\ keys \in [SourceKeys -> Entry] /\ clock \in 0..Horizon
        /\ cuts \in [SourceKeys -> 0..Horizon \cup {NoCut}] /\ Horizon \in Nat
    BY TrustAssumptionHolds DEF TInv, RegistryType, TrustAssumption
  <1>1. ASSUME NEW k \in SourceKeys, Add(k) PROVE TInv' /\ Shrinks
    <2>1. PICK expiry \in {Horizon, Forever} :
            Addable(k, Fresh(expiry)) /\ keys' = [keys EXCEPT ![k] = Fresh(expiry)]
      BY <1>1 DEF Add
    <2>2. Mutable /\ UNCHANGED <<session, clock, cuts, reopened>>
      BY <1>1 DEF Add
    <2>3. Fresh(expiry) \in Entry /\ Changed(k)
      BY <1>t, <2>1, <2>2, AddedChanges
    <2>4. \A j \in SourceKeys : Changed(j)
      BY <1>t, <2>1, <2>2, <2>3, Untouched
    <2> QED BY <1>t, <2>1, <2>2, <2>3, <2>4, RegistryStep
  <1>2. ASSUME NEW k \in SourceKeys, NEW grace \in Graces,
               NEW state \in {"active", "verify_only", "revoked"}, SetState(k, state, grace)
        PROVE  TInv' /\ Shrinks
    <2>1. /\ Mutable /\ UNCHANGED <<session, clock>> /\ keys[k] # Unregistered
          /\ keys[k].state = "revoked" => state = "revoked"
          /\ keys' = [keys EXCEPT ![k] = WithState(keys[k], state, grace)]
          /\ cuts' = (IF state = "verify_only" /\ cuts[k] = NoCut
                      THEN [cuts EXCEPT ![k] = clock] ELSE cuts)
          /\ reopened' = (IF state = "active" /\ cuts[k] # NoCut
                          THEN reopened \cup {k} ELSE reopened)
      BY <1>2 DEF SetState
    <2>2. /\ keys'[k] = WithState(keys[k], state, grace)
          /\ cuts'[k] = (IF state = "verify_only" /\ cuts[k] = NoCut THEN clock ELSE cuts[k])
          /\ k \in reopened' <=> (k \in reopened \/ (state = "active" /\ cuts[k] # NoCut))
      BY <1>t, <2>1
    <2>3. keys'[k] \in Entry /\ Changed(k)
      BY <2>1, <2>2, StateChanges
    <2>4. \A j \in SourceKeys : Changed(j)
      BY <1>t, <2>1, <2>3, Untouched
    <2>5. keys' \in [SourceKeys -> Entry] /\ cuts' \in [SourceKeys -> 0..Horizon \cup {NoCut}]
      BY <1>t, <2>1, <2>2, <2>3
    <2> QED BY <2>1, <2>4, <2>5, RegistryStep
  <1>3. ASSUME NEW old \in SourceKeys, NEW new \in SourceKeys, NEW grace \in Graces,
               Rotate(old, new, grace)
        PROVE  TInv' /\ Shrinks
    <2>1. /\ Mutable /\ UNCHANGED <<session, clock, reopened>> /\ old # new
          /\ keys[old] # Unregistered /\ keys[old].state # "revoked"
          /\ Addable(new, Fresh(Forever))
          /\ keys' = [keys EXCEPT ![old] = WithState(keys[old], "verify_only", grace),
                                  ![new] = Fresh(Forever)]
          /\ cuts' = (IF cuts[old] = NoCut THEN [cuts EXCEPT ![old] = clock] ELSE cuts)
      BY <1>3 DEF Rotate
    <2>2. /\ keys'[old] = WithState(keys[old], "verify_only", grace)
          /\ keys'[new] = Fresh(Forever) /\ cuts'[new] = cuts[new]
          /\ cuts'[old] = (IF cuts[old] = NoCut THEN clock ELSE cuts[old])
          /\ \A j \in SourceKeys \ {old, new} : keys'[j] = keys[j] /\ cuts'[j] = cuts[j]
      BY <1>t, <2>1
    <2>3. keys'[old] \in Entry /\ Changed(old)
      BY <2>1, <2>2, StateChanges
    <2>4. Fresh(Forever) \in Entry /\ Changed(new)
      BY <2>1, <2>2, AddedChanges
    <2>5. \A j \in SourceKeys : Changed(j)
      BY <2>1, <2>2, <2>3, <2>4, Untouched
    <2>6. keys' \in [SourceKeys -> Entry] /\ cuts' \in [SourceKeys -> 0..Horizon \cup {NoCut}]
      BY <1>t, <2>1, <2>2, <2>3, <2>4
    <2> QED BY <2>1, <2>5, <2>6, RegistryStep
  <1>4. CASE OpenSession \/ CloseSession
    BY <1>4, <1>t, QuietTrust DEF OpenSession, CloseSession, NoSession
  <1>5. CASE TrustTick
    <2>1. clock' \in 0..Horizon
      BY <1>5, <1>t DEF TrustTick
    <2> QED BY <1>5, <2>1, QuietTrust DEF TrustTick
  <1>6. CASE UNCHANGED trustVars
    BY <1>6, <1>t, QuietTrust DEF trustVars
  <1> QED BY <1>1, <1>2, <1>3, <1>4, <1>5, <1>6, OpenStep DEF TrustNext

\* Whatever is registered, rotated, revoked and reactivated, trust in a key only
\* shrinks, its first cutoff holds until an operator lifts it, and a revoked key
\* lets nothing through (SourceTrustStore, _authorize_record).
THEOREM TrustIsSafe == TrustSpec => TrustSafe
  <1>1. TrustSpec => [][TInv' /\ [Shrinks]_trustVars]_trustVars
    BY TInvInit, TInvStep, PTL DEF TrustSpec
  <1>2. [TInv' /\ [Shrinks]_trustVars]_trustVars
          => [TrustTypeOK' /\ CutoffHolds' /\ TrustOnlyShrinks]_trustVars
    BY DEF Shrinks
  <1> QED BY <1>1, <1>2, PTL DEF TrustSafe

-----------------------------------------------------------------------------
(* The recipient key.                                                      *)

Cert == Certificates \cup {NoCertificate}
KeyIds == {c.key : c \in Certificates}
File == [head : Cert, used : SUBSET KeyIds, version : Nat]
Memory == [head : Cert, used : SUBSET KeyIds, version : Nat, revision : Nat]
Batch == [phase : {"idle", "sealing", "confirmed"}, certificate : Cert, revision : Nat,
          version : Nat, count : 0..BatchRecords, heads : SUBSET Cert]

RecipientType ==
    /\ disk \in File
    /\ synced \in File
    /\ store \in [Sources -> Memory]
    /\ batch \in [Sources -> Batch]
    /\ acked \in Cert

(* A process whose fingerprint is the file's remembers what is in the file.*)
MemoryTrue ==
    \A s \in Sources :
        /\ store[s].version <= disk.version
        /\ store[s].version = disk.version =>
              store[s].head = disk.head /\ store[s].used = disk.used

(* What was acknowledged is in the synced file, which is a former state of *)
(* the file in place.                                                      *)
SyncedBehind ==
    /\ synced.version <= disk.version
    /\ synced.head.generation <= disk.head.generation
    /\ acked.generation <= synced.head.generation

(* A batch whose fingerprint is still the file's has seen only its own     *)
(* certificate at the head.                                                *)
SealingTrue ==
    \A s \in Sources : batch[s].phase = "sealing" =>
        /\ batch[s].version <= disk.version
        /\ batch[s].version = disk.version => batch[s].heads = {batch[s].certificate}

RInv == /\ RecipientType
        /\ MemoryTrue
        /\ SyncedBehind
        /\ SealingTrue
        /\ BatchUnderOneHead

RecipientStepSafe == HeadMovesForward /\ SealsForPersistedHead

-----------------------------------------------------------------------------
\* The invariant says what the run's invariant says.
LEMMA RInvIsSafe == RInv => SealingSafe
  <1> SUFFICES ASSUME RInv PROVE SealingSafe
    OBVIOUS
  <1>1. RecipientTypeOK
    BY DEF RInv, RecipientType, RecipientTypeOK, File, Memory, Batch, Cert, KeyIds
  <1>2. \A c \in Cert : c.generation \in Nat
    BY RecipientAssumptionHolds DEF Cert, RecipientAssumption, WellFormedCertificate, NoCertificate
  <1>3. AcceptedIsDurable
    BY <1>2 DEF RInv, RecipientType, File, SyncedBehind, AcceptedIsDurable
  <1> QED BY <1>1, <1>3 DEF RInv, SealingSafe

\* A record every batch starts from and returns to.
LEMMA IdleIsBatch == Idle \in Batch /\ Idle.phase = "idle"
  BY RecipientAssumptionHolds DEF Idle, Batch, Cert, RecipientAssumption

\* The file before there is one.
LEMMA AbsentIsFile == /\ Absent \in File
                      /\ Absent.head = NoCertificate
                      /\ Absent.used = {}
                      /\ Absent.version = 0
  BY DEF Absent, File, Cert


\* What a process sees when it looks at the file under the lock
\* (_reload_state_if_changed): what is in it, however stale its memory was.
LEMMA Seen ==
  ASSUME RecipientType, MemoryTrue, NEW s \in Sources
  PROVE  /\ Refreshed(s) \in Memory
         /\ Refreshed(s).head = disk.head
         /\ Refreshed(s).used = disk.used
         /\ Refreshed(s).version = disk.version
  <1>1. CASE store[s].version = disk.version
    <2>1. Refreshed(s) = store[s]
      BY <1>1 DEF Refreshed
    <2> QED BY <1>1, <2>1 DEF RecipientType, MemoryTrue
  <1>2. CASE store[s].version # disk.version
    <2>1. Refreshed(s) = [head |-> disk.head, used |-> disk.used, version |-> disk.version,
                          revision |-> store[s].revision + 1]
      BY <1>2 DEF Refreshed
    <2>2. store[s].revision + 1 \in Nat
      BY DEF RecipientType, Memory
    <2>3. Refreshed(s) \in Memory
      BY <2>1, <2>2 DEF RecipientType, File, Memory
    <2> QED BY <2>1, <2>3
  <1> QED BY <1>1, <1>2

\* The initial states satisfy the invariant.
LEMMA RInvInit == RecipientInit => RInv
  <1> SUFFICES ASSUME RecipientInit PROVE RInv
    OBVIOUS
  <1>1. /\ disk = Absent /\ synced = Absent /\ acked = NoCertificate
        /\ store = [s \in Sources |-> Opened] /\ batch = [s \in Sources |-> Idle]
    BY DEF RecipientInit
  <1>2. Opened = [head |-> NoCertificate, used |-> {}, version |-> 0, revision |-> 0]
    BY <1>1, AbsentIsFile DEF Opened
  <1>3. Opened \in Memory
    BY <1>2 DEF Memory, Cert
  <1>4. RecipientType
    BY <1>1, <1>3, AbsentIsFile, IdleIsBatch DEF RecipientType, Cert
  <1>5. \A s \in Sources : batch[s].phase = "idle"
    BY <1>1, IdleIsBatch
  <1>6. MemoryTrue
    BY <1>1, <1>2, AbsentIsFile DEF MemoryTrue
  <1>7. SyncedBehind
    BY <1>1, AbsentIsFile DEF SyncedBehind, NoCertificate
  <1> QED BY <1>4, <1>5, <1>6, <1>7 DEF RInv, SealingTrue, BatchUnderOneHead

-----------------------------------------------------------------------------
\* A step that leaves the files alone: a process may refresh its memory, and a
\* batch may start under the head, end, or go on as it was.
LEMMA SameFile ==
  ASSUME RInv, UNCHANGED <<disk, synced, acked>>,
         store' \in [Sources -> Memory], batch' \in [Sources -> Batch],
         \A s \in Sources :
            \/ store'[s] = store[s]
            \/ store'[s].version = 0 /\ store'[s].head = disk.head /\ store'[s].used = disk.used
            \/ /\ store'[s].version = disk.version
               /\ store'[s].head = disk.head /\ store'[s].used = disk.used,
         \A s \in Sources :
            \/ batch'[s].phase = "idle"
            \/ /\ batch'[s].phase = batch[s].phase
               /\ batch'[s].heads = batch[s].heads
               /\ batch'[s].certificate = batch[s].certificate
               /\ batch'[s].version = batch[s].version
            \/ /\ batch'[s].phase \in {"sealing", "confirmed"}
               /\ batch'[s].heads = {batch'[s].certificate}
               /\ batch'[s].version = disk.version
  PROVE  RInv'
  <1>1. RecipientType'
    BY DEF RInv, RecipientType
  <1>2. MemoryTrue'
    BY DEF RInv, RecipientType, File, Memory, MemoryTrue
  <1>3. SyncedBehind'
    BY DEF RInv, SyncedBehind
  <1>4. SealingTrue'
    BY DEF RInv, RecipientType, File, Batch, SealingTrue
  <1>5. BatchUnderOneHead'
    BY DEF RInv, BatchUnderOneHead
  <1> QED BY <1>1, <1>2, <1>3, <1>4, <1>5 DEF RInv

\* A replacement of the file by its successor on the chain, however it ends.
LEMMA NewFile ==
  ASSUME RInv, NEW c \in Certificates, NEW s \in Sources, NEW mem \in Memory,
         Follows(c, disk.head, disk.used),
         disk' = Replaced(c, disk.used \cup {c.key}),
         store' = [store EXCEPT ![s] = mem],
         mem.version = 0 \/ (mem.version = disk'.version /\ mem.head = disk'.head
                             /\ mem.used = disk'.used),
         batch' = Witnessed(c),
         (synced' = disk' /\ acked' = c) \/ UNCHANGED <<synced, acked>>
  PROVE  RInv' /\ HeadMovesForward
  <1>0. \A d \in Cert : d.generation \in Nat
    BY RecipientAssumptionHolds DEF Cert, RecipientAssumption, NoCertificate
  <1>1. /\ disk' = [head |-> c, used |-> disk.used \cup {c.key}, version |-> disk.version + 1]
        /\ disk.version \in Nat /\ disk.used \in SUBSET KeyIds /\ disk.head \in Cert
    BY DEF Replaced, RInv, RecipientType, File
  <1>2. c.key \in KeyIds /\ c \in Cert
    BY DEF KeyIds, Cert
  <1>3. /\ disk' \in File /\ disk'.head = c
        /\ disk'.used = disk.used \cup {c.key} /\ disk'.version = disk.version + 1
    <2> DEFINE used == disk.used \cup {c.key}
    <2>1. used \in SUBSET KeyIds /\ disk.version + 1 \in Nat
      BY <1>1, <1>2
    <2>2. disk' = [head |-> c, used |-> used, version |-> disk.version + 1]
      BY <1>1
    <2> HIDE DEF used
    <2>3. disk' \in File /\ disk'.head = c /\ disk'.used = used
          /\ disk'.version = disk.version + 1
      BY <1>2, <2>1, <2>2 DEF File
    <2> QED BY <2>3 DEF used
  <1>4. \A t \in Sources :
          /\ batch'[t] \in Batch
          /\ batch'[t].phase = batch[t].phase
          /\ batch'[t].version = batch[t].version
          /\ batch'[t].certificate = batch[t].certificate
          /\ batch[t].phase # "sealing" => batch'[t] = batch[t]
    <2> SUFFICES ASSUME NEW t \in Sources
                 PROVE  /\ batch'[t] \in Batch
                        /\ batch'[t].phase = batch[t].phase
                        /\ batch'[t].version = batch[t].version
                        /\ batch'[t].certificate = batch[t].certificate
                        /\ batch[t].phase # "sealing" => batch'[t] = batch[t]
      OBVIOUS
    <2>1. batch[t] \in Batch
      BY DEF RInv, RecipientType
    <2>2. CASE batch[t].phase # "sealing"
      BY <2>1, <2>2 DEF Witnessed
    <2>3. CASE batch[t].phase = "sealing"
      <3>1. batch'[t] = [batch[t] EXCEPT !.heads = @ \cup {c}]
        BY <2>3 DEF Witnessed
      <3>2. batch[t].heads \cup {c} \in SUBSET Cert
        BY <2>1, <1>2 DEF Batch
      <3> QED BY <2>1, <2>3, <3>1, <3>2 DEF Batch
    <2> QED BY <2>2, <2>3
  <1>5. batch' \in [Sources -> Batch]
    BY <1>4 DEF Witnessed
  <1>6. RecipientType'
    BY <1>2, <1>3, <1>5 DEF RInv, RecipientType
  <1>7. MemoryTrue'
    BY <1>1, <1>3 DEF RInv, RecipientType, Memory, MemoryTrue
  <1>8. c.generation = disk.head.generation + 1 /\ c.previous = disk.head.key
        /\ c.key \notin disk.used
    BY DEF Follows, NoCertificate
  <1>9. SyncedBehind'
    BY <1>0, <1>1, <1>2, <1>3, <1>8 DEF RInv, RecipientType, File, SyncedBehind
  <1>10. SealingTrue'
    BY <1>1, <1>3, <1>4 DEF RInv, RecipientType, Batch, SealingTrue
  <1>11. BatchUnderOneHead'
    BY <1>4 DEF RInv, BatchUnderOneHead
  <1>12. HeadMovesForward
    BY <1>3, <1>8 DEF HeadMovesForward
  <1> QED BY <1>6, <1>7, <1>9, <1>10, <1>11, <1>12 DEF RInv

-----------------------------------------------------------------------------
\* accept keeps the invariant and moves the head along its chain.
LEMMA AcceptStep ==
  ASSUME RInv, NEW s \in Sources, NEW c \in Certificates, Accept(s, c)
  PROVE  RInv' /\ RecipientStepSafe
  <1> DEFINE was == Refreshed(s)
             file == Replaced(c, was.used \cup {c.key})
             revised == [was EXCEPT !.revision = @ + 1]
  <1>1. /\ was \in Memory /\ was.head = disk.head /\ was.used = disk.used
        /\ was.version = disk.version
    BY Seen DEF RInv
  <1>2. SealsForPersistedHead
    BY DEF Accept, SealsForPersistedHead
  <1>3. CASE /\ c = was.head /\ store' = [store EXCEPT ![s] = was]
             /\ UNCHANGED <<disk, batch>>
             /\ (synced' = disk /\ acked' = c) \/ UNCHANGED <<synced, acked>>
    <2>1. HeadMovesForward
      BY <1>3 DEF HeadMovesForward
    <2> HIDE DEF was
    <2>2. \A d \in Cert : d.generation \in Nat
      BY RecipientAssumptionHolds DEF Cert, RecipientAssumption, NoCertificate
    <2>3. c \in Cert
      BY DEF Cert
    <2>4. RecipientType'
      BY <1>1, <1>3, <2>3 DEF RInv, RecipientType
    <2>5. MemoryTrue'
      BY <1>1, <1>3 DEF RInv, RecipientType, File, MemoryTrue
    <2>6. SyncedBehind'
      BY <1>1, <1>3, <2>2, <2>3 DEF RInv, RecipientType, File, SyncedBehind
    <2>7. SealingTrue' /\ BatchUnderOneHead'
      BY <1>3 DEF RInv, SealingTrue, BatchUnderOneHead
    <2> QED BY <1>2, <2>1, <2>4, <2>5, <2>6, <2>7 DEF RInv, RecipientStepSafe
  <1>4. revised \in Memory /\ revised.head = disk.head /\ revised.used = disk.used
    <2> HIDE DEF was
    <2> QED BY <1>1 DEF Memory
  <1>5. CASE /\ Follows(c, was.head, was.used) /\ disk' = file
             /\ store' = [store EXCEPT ![s] = [revised EXCEPT
                   !.head = c, !.used = file.used, !.version = file.version]]
             /\ batch' = Witnessed(c)
             /\ (synced' = file /\ acked' = c) \/ UNCHANGED <<synced, acked>>
    <2> DEFINE mem == [revised EXCEPT !.head = c, !.used = file.used, !.version = file.version]
    <2>1. /\ file.head = c /\ file.used = disk.used \cup {c.key}
          /\ file.version = disk.version + 1
          /\ file = Replaced(c, disk.used \cup {c.key})
      BY <1>1 DEF Replaced
    <2> HIDE DEF was, revised, file
    <2>2. file.used \in SUBSET KeyIds /\ file.version \in Nat /\ c \in Cert
      <3>1. c.key \in KeyIds /\ c \in Cert
        BY DEF KeyIds, Cert
      <3>2. disk.used \in SUBSET KeyIds /\ disk.version \in Nat
        BY DEF RInv, RecipientType, File
      <3> QED BY <2>1, <3>1, <3>2
    <2>3. mem \in Memory /\ mem.head = c /\ mem.used = file.used /\ mem.version = file.version
      BY <1>4, <2>2 DEF Memory
    <2> HIDE DEF mem
    <2>4. store' = [store EXCEPT ![s] = mem]
      BY <1>5 DEF mem
    <2>5. /\ Follows(c, disk.head, disk.used)
          /\ disk' = Replaced(c, disk.used \cup {c.key})
          /\ mem.version = disk'.version /\ mem.head = disk'.head /\ mem.used = disk'.used
          /\ batch' = Witnessed(c)
          /\ (synced' = disk' /\ acked' = c) \/ UNCHANGED <<synced, acked>>
      BY <1>1, <1>5, <2>1, <2>3
    <2>6. RInv' /\ HeadMovesForward
      BY <2>3, <2>4, <2>5, NewFile
    <2> QED BY <1>2, <2>6 DEF RecipientStepSafe
  <1>6. CASE /\ Follows(c, was.head, was.used)
             /\ store' = [store EXCEPT ![s] = [revised EXCEPT !.version = 0]]
             /\ UNCHANGED <<synced, acked>>
             /\ UNCHANGED <<disk, batch>> \/ (disk' = file /\ batch' = Witnessed(c))
    <2> DEFINE mem == [revised EXCEPT !.version = 0]
    <2> HIDE DEF revised
    <2>1. /\ mem \in Memory /\ mem.head = disk.head /\ mem.used = disk.used
          /\ mem.version = 0
      BY <1>4 DEF Memory
    <2> HIDE DEF mem
    <2>2. store' = [store EXCEPT ![s] = mem]
      BY <1>6 DEF mem
    <2>3. CASE UNCHANGED <<disk, batch>>
      <3>1. HeadMovesForward
        BY <2>3 DEF HeadMovesForward
      <3>2. store' \in [Sources -> Memory] /\ batch' \in [Sources -> Batch]
        BY <2>1, <2>2, <2>3 DEF RInv, RecipientType
      <3>3. \A t \in Sources :
              \/ store'[t] = store[t]
              \/ store'[t].version = 0 /\ store'[t].head = disk.head /\ store'[t].used = disk.used
        BY <2>1, <2>2 DEF RInv, RecipientType
      <3>4. RInv'
        BY <1>6, <2>3, <3>2, <3>3, SameFile
      <3> QED BY <1>2, <3>1, <3>4 DEF RecipientStepSafe
    <2>4. CASE disk' = file /\ batch' = Witnessed(c)
      <3>1. file = Replaced(c, disk.used \cup {c.key})
        BY <1>1
      <3> HIDE DEF was, file
      <3>2. RInv' /\ HeadMovesForward
        BY <1>1, <1>6, <2>1, <2>2, <2>4, <3>1, NewFile
      <3> QED BY <1>2, <3>2 DEF RecipientStepSafe
    <2> QED BY <1>6, <2>3, <2>4
  <1>7. \/ /\ c = was.head /\ store' = [store EXCEPT ![s] = was]
           /\ (synced' = disk /\ acked' = c) \/ UNCHANGED <<synced, acked>>
           /\ UNCHANGED <<disk, batch>>
        \/ /\ Follows(c, was.head, was.used)
           /\ \/ /\ disk' = file
                 /\ store' = [store EXCEPT ![s] = [revised EXCEPT
                       !.head = c, !.used = file.used, !.version = file.version]]
                 /\ batch' = Witnessed(c)
                 /\ (synced' = file /\ acked' = c) \/ UNCHANGED <<synced, acked>>
              \/ /\ UNCHANGED <<disk, batch>> \/ (disk' = file /\ batch' = Witnessed(c))
                 /\ store' = [store EXCEPT ![s] = [revised EXCEPT !.version = 0]]
                 /\ UNCHANGED <<synced, acked>>
    BY DEF Accept
  <1> HIDE DEF was, file, revised
  <1> QED BY <1>3, <1>5, <1>6, <1>7

\* The steps that leave the file alone and finish no record.
LEMMA BatchSteps ==
  ASSUME RInv, NEW s \in Sources,
         BeginBatch(s) \/ SealRecord(s) \/ HandOver(s) \/ Restart(s)
  PROVE  RInv' /\ RecipientStepSafe
  <1>0. Idle \in Batch /\ Idle.phase = "idle" /\ batch[s] \in Batch /\ disk \in File
        /\ store \in [Sources -> Memory] /\ batch \in [Sources -> Batch]
    BY IdleIsBatch DEF RInv, RecipientType
  <1>1. RecipientStepSafe
    BY DEF BeginBatch, SealRecord, HandOver, Restart, RecipientStepSafe, HeadMovesForward,
           SealsForPersistedHead
  <1>2. CASE BeginBatch(s)
    <2> DEFINE seen == Refreshed(s)
               new == [phase |-> "sealing", certificate |-> seen.head,
                       revision |-> seen.revision, version |-> seen.version,
                       count |-> 0, heads |-> {disk.head}]
    <2>1. /\ seen \in Memory /\ seen.head = disk.head /\ seen.used = disk.used
          /\ seen.version = disk.version
      BY Seen DEF RInv
    <2>2. store' = [store EXCEPT ![s] = seen] /\ batch' = [batch EXCEPT ![s] = new]
          /\ UNCHANGED <<disk, synced, acked>>
      BY <1>2 DEF BeginBatch
    <2> HIDE DEF seen
    <2>3. /\ new \in Batch /\ new.heads = {new.certificate} /\ new.version = disk.version
          /\ new.phase = "sealing"
      BY <1>0, <2>1, RecipientAssumptionHolds DEF Batch, File, Memory, RecipientAssumption
    <2> HIDE DEF new
    <2>4. RInv'
      BY <1>0, <2>1, <2>2, <2>3, SameFile
    <2> QED BY <1>1, <2>4
  <1>3. CASE SealRecord(s)
    <2> DEFINE new == [batch[s] EXCEPT !.count = @ + 1]
    <2>1. /\ UNCHANGED <<disk, synced, acked, store>>
          /\ batch' = [batch EXCEPT ![s] = IF Valid(batch[s].certificate) THEN new ELSE Idle]
          /\ batch[s].count < BatchRecords
      BY <1>3 DEF SealRecord
    <2>2. /\ new \in Batch /\ new.phase = batch[s].phase /\ new.heads = batch[s].heads
          /\ new.certificate = batch[s].certificate /\ new.version = batch[s].version
      BY <1>0, <2>1, RecipientAssumptionHolds DEF Batch, RecipientAssumption
    <2> HIDE DEF new
    <2>3. RInv'
      BY <1>0, <2>1, <2>2, SameFile
    <2> QED BY <1>1, <2>3
  <1>4. CASE HandOver(s)
    <2>1. UNCHANGED <<disk, synced, acked, store>> /\ batch' = [batch EXCEPT ![s] = Idle]
      BY <1>4 DEF HandOver
    <2>2. RInv'
      BY <1>0, <2>1, SameFile
    <2> QED BY <1>1, <2>2
  <1>5. CASE Restart(s)
    <2>1. UNCHANGED <<disk, synced, acked>> /\ batch' = [batch EXCEPT ![s] = Idle]
          /\ store' = [store EXCEPT ![s] = Opened]
      BY <1>5 DEF Restart
    <2>2. /\ Opened \in Memory /\ Opened.head = disk.head /\ Opened.used = disk.used
          /\ Opened.version = disk.version
      BY <1>0 DEF Opened, File, Memory
    <2>3. RInv'
      BY <1>0, <2>1, <2>2, SameFile
    <2> QED BY <1>1, <2>3
  <1> QED BY <1>2, <1>3, <1>4, <1>5

\* A record is finished, alone or with its batch, for the head of this moment.
LEMMA SealSteps ==
  ASSUME RInv, NEW s \in Sources, SealOne(s) \/ ConfirmBatch(s)
  PROVE  RInv' /\ RecipientStepSafe
  <1> DEFINE seen == Refreshed(s)
  <1>0. /\ Idle \in Batch /\ Idle.phase = "idle" /\ batch[s] \in Batch /\ disk \in File
        /\ store \in [Sources -> Memory] /\ batch \in [Sources -> Batch]
    BY IdleIsBatch DEF RInv, RecipientType
  <1>1. /\ seen \in Memory /\ seen.head = disk.head /\ seen.used = disk.used
        /\ seen.version = disk.version
    BY Seen DEF RInv
  <1>2. CASE SealOne(s)
    <2>1. /\ UNCHANGED <<disk, synced, acked, batch>>
          /\ store' = [store EXCEPT ![s] = seen]
          /\ sealedFor' = sealedFor \cup {seen.head}
      BY <1>2 DEF SealOne
    <2> HIDE DEF seen
    <2>2. RInv'
      BY <1>0, <1>1, <2>1, SameFile
    <2>3. HeadMovesForward /\ SealsForPersistedHead
      BY <1>1, <2>1 DEF HeadMovesForward, SealsForPersistedHead
    <2> QED BY <2>2, <2>3 DEF RecipientStepSafe
  <1>3. CASE ConfirmBatch(s)
    <2> DEFINE mine == batch[s]
               same == /\ seen.revision = mine.revision
                       /\ seen.version = mine.version
                       /\ seen.head = mine.certificate
               new == IF same THEN [mine EXCEPT !.phase = "confirmed"] ELSE Idle
    <2>1. /\ UNCHANGED <<disk, synced, acked>> /\ mine.phase = "sealing"
          /\ store' = [store EXCEPT ![s] = seen]
          /\ batch' = [batch EXCEPT ![s] = new]
          /\ sealedFor' = IF same THEN sealedFor \cup {mine.certificate} ELSE sealedFor
      BY <1>3 DEF ConfirmBatch
    <2> HIDE DEF seen
    <2>2. /\ new \in Batch
          /\ \/ new.phase = "idle"
             \/ /\ new.phase = "confirmed" /\ new.heads = {new.certificate}
                /\ new.version = disk.version
      BY <1>0, <1>1, <2>1 DEF RInv, SealingTrue, Batch
    <2> HIDE DEF new
    <2>3. RInv'
      BY <1>0, <1>1, <2>1, <2>2, SameFile
    <2>4. HeadMovesForward /\ SealsForPersistedHead
      BY <1>1, <2>1 DEF HeadMovesForward, SealsForPersistedHead
    <2> QED BY <2>3, <2>4 DEF RecipientStepSafe
  <1> QED BY <1>2, <1>3

\* A power loss puts back a file that was synced, and nobody is left who
\* remembers another one.
LEMMA PowerLossStep ==
  ASSUME RInv, PowerLoss
  PROVE  RInv' /\ RecipientStepSafe
  <1>1. PICK file \in {disk, synced} :
          /\ disk' = file /\ synced' = file
          /\ store' = [s \in Sources |-> [head |-> file.head, used |-> file.used,
                         version |-> file.version,
                         revision |-> IF file.version = 0 THEN 0 ELSE 1]]
          /\ batch' = [s \in Sources |-> Idle] /\ UNCHANGED <<sealedFor, acked>>
    BY DEF PowerLoss
  <1>2. file \in File /\ disk \in File /\ synced \in File
    BY DEF RInv, RecipientType
  <1> DEFINE mem == [head |-> file.head, used |-> file.used, version |-> file.version,
                     revision |-> IF file.version = 0 THEN 0 ELSE 1]
  <1>3. /\ mem \in Memory /\ mem.head = file.head /\ mem.used = file.used
        /\ mem.version = file.version
    BY <1>2 DEF File, Memory
  <1> HIDE DEF mem
  <1>4. store' = [s \in Sources |-> mem]
    BY <1>1 DEF mem
  <1>5. RecipientType'
    BY <1>1, <1>2, <1>3, <1>4, IdleIsBatch DEF RInv, RecipientType
  <1>6. MemoryTrue'
    BY <1>1, <1>2, <1>3, <1>4 DEF MemoryTrue, File
  <1>7. \A d \in Cert : d.generation \in Nat
    BY RecipientAssumptionHolds DEF Cert, RecipientAssumption, NoCertificate
  <1>8. SyncedBehind'
    BY <1>1, <1>2, <1>7 DEF RInv, RecipientType, SyncedBehind, File
  <1>9. SealingTrue' /\ BatchUnderOneHead'
    BY <1>1, IdleIsBatch DEF SealingTrue, BatchUnderOneHead
  <1>10. HeadMovesForward /\ SealsForPersistedHead
    BY <1>1 DEF HeadMovesForward, SealsForPersistedHead
  <1> QED BY <1>5, <1>6, <1>8, <1>9, <1>10 DEF RInv, RecipientStepSafe

\* Every step keeps the invariant and is safe.
LEMMA RInvStep == RInv /\ [RecipientNext]_recipientVars => RInv' /\ [RecipientStepSafe]_recipientVars
  <1> SUFFICES ASSUME RInv, [RecipientNext]_recipientVars
               PROVE  RInv' /\ [RecipientStepSafe]_recipientVars
    OBVIOUS
  <1>1. CASE UNCHANGED recipientVars
    BY <1>1 DEF recipientVars, RInv, RecipientType, MemoryTrue, SyncedBehind, SealingTrue,
                BatchUnderOneHead
  <1>2. CASE \E s \in Sources, c \in Certificates : Accept(s, c)
    BY <1>2, AcceptStep
  <1>3. CASE \E s \in Sources : BeginBatch(s) \/ SealRecord(s) \/ HandOver(s) \/ Restart(s)
    BY <1>3, BatchSteps
  <1>4. CASE \E s \in Sources : SealOne(s) \/ ConfirmBatch(s)
    BY <1>4, SealSteps
  <1>5. CASE PowerLoss
    BY <1>5, PowerLossStep
  <1>6. CASE RecipientTick
    BY <1>6 DEF RecipientTick, RInv, RecipientType, MemoryTrue, SyncedBehind, SealingTrue,
                BatchUnderOneHead, RecipientStepSafe, HeadMovesForward, SealsForPersistedHead
  <1> QED BY <1>1, <1>2, <1>3, <1>4, <1>5, <1>6 DEF RecipientNext

-----------------------------------------------------------------------------
\* For every number of processes over one state file: a certificate accept has
\* returned for is never lost, and a batch that leaves prepare_records was under
\* one persisted head from its first record to its confirmation.
THEOREM SealingIsSafe == RecipientSpec => []SealingSafe
  <1>1. RecipientInit => RInv
    BY RInvInit
  <1>2. RInv /\ [RecipientNext]_recipientVars => RInv'
    BY RInvStep
  <1>3. RInv => SealingSafe
    BY RInvIsSafe
  <1> QED BY <1>1, <1>2, <1>3, PTL DEF RecipientSpec

\* Whichever process moves the head and however stale its memory was, the head
\* moves along one chain, and no record is finished for a certificate that is not
\* the persisted head at that moment.
THEOREM HeadIsAlwaysSafe == RecipientSpec => HeadIsSafe
  <1>1. RecipientInit => RInv
    BY RInvInit
  <1>2. RInv /\ [RecipientNext]_recipientVars => RInv' /\ [RecipientStepSafe]_recipientVars
    BY RInvStep
  <1>3. RecipientSpec => [][RecipientStepSafe]_recipientVars
    BY <1>1, <1>2, PTL DEF RecipientSpec
  <1>4. [RecipientStepSafe]_recipientVars => [HeadMovesForward /\ SealsForPersistedHead]_recipientVars
    BY DEF RecipientStepSafe
  <1> QED BY <1>3, <1>4, PTL DEF HeadIsSafe

=============================================================================
