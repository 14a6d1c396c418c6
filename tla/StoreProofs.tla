---------------------------- MODULE StoreProofs -----------------------------
(***************************************************************************)
(* Proofs about what is kept on disk: a destination file that writers      *)
(* share (FileDestination), the audit trail (AuditLog) and the recipes     *)
(* (RecipeReuse), for every set of writers, processes and commands, all    *)
(* quotas and thresholds, and every bound.                                 *)
(***************************************************************************)
EXTENDS FileDestination, AuditLog, RecipeReuse, WellFoundedInduction, FiniteSetTheorems, TLAPS

-----------------------------------------------------------------------------
(***************************************************************************)
(* The path lock and the publication of files. The invariant has three     *)
(* parts: the locks (a writer's phase says exactly which locks it holds),  *)
(* the temporary files, and the rows of the target (what a writer has read *)
(* under the lock is what every other writer has published, whatever       *)
(* programs without the lock did since).                                   *)
(***************************************************************************)

FileRecord == (Writers \cup {"edit"}) \X Nat

Phases == {"idle", "wait", "open", "initialize", "try", "release", "dereference"} \cup Inside
Holding == {"open", "initialize", "try", "release"} \cup Inside
Before == {"wait", "open", "initialize", "try", "inspect", "prepare", "read", "verify",
           "publish", "tidy"}
Says == {"none", "not committed", "lock error", "raised", "written", "died"}

Doing == [at : Phases, object : Nat, saw : Nat, copy : Seq(FileRecord), says : Says,
          tries : Nat]

FileType ==
    /\ lockTable \in [Processes -> [object : Nat, users : Nat]]
    /\ lockOwner \in [LockObjects -> Writers \cup {Unowned}]
    /\ lockObjects \in Nat
    /\ lockFile \in {"none", "empty", "ready"}
    /\ kernelLock \in Writers \cup {Unowned}
    /\ destination \in [id : Nat, rows : Seq(FileRecord)]
    /\ identities \in Nat
    /\ fw \in [Writers -> Doing]

(* The locks: who holds what is where it is.                               *)
Users(p) == {w \in Writers : ProcessOf[w] = p /\ ~At(w, "idle")}

LocksTrue ==
    /\ \A w \in Writers :
         /\ fw[w].at \in Inside <=> kernelLock = w
         /\ fw[w].at \in Holding => lockOwner[fw[w].object] = w
         /\ \A o \in LockObjects :
              lockOwner[o] = w => fw[w].at \in Holding /\ fw[w].object = o
         /\ fw[w].at # "idle" => fw[w].object \in LockObjects
    /\ LockTableTrue
    /\ \A p \in Processes : lockTable[p].users = 0 => lockTable[p] = NoEntry

(* A temporary file belongs to a write in progress, to a dead one, or is a *)
(* second name of the target.                                              *)
TempGood(w, files, job) ==
    /\ \A k \in Nat : <<w, k>> \in files => k <= job.tries
    /\ <<w, job.tries>> \in files =>
         \/ job.at \in {"prepare", "read", "verify", "publish", "tidy"}
         \/ job.says = "written"
         \/ job.at = "idle" /\ job.says = "died"

(* The row of a write is in the target if and only if it was published, and*)
(* what was read under the lock holds every row a writer has published.    *)
HasRead(w, job) ==
    job.at \in {"verify", "publish"} \/ (job.at = "prepare" /\ Format[w] = "json")

SameRows(s, t) == \A v \in Writers, k \in Nat : <<v, k>> \in Range(s) <=> <<v, k>> \in Range(t)

RowGood(w, file, job) ==
    /\ job.at \in Before => job.says = "none"
    /\ \A k \in Nat : <<w, k>> \in Range(file.rows) => k <= job.tries
    /\ <<w, job.tries>> \in Range(file.rows) =>
         \/ job.at = "tidy" \/ job.says = "written"
         \/ job.at = "idle" /\ job.says = "died"
    /\ job.at = "tidy" \/ job.says = "written" => <<w, job.tries>> \in Range(file.rows)
    /\ HasRead(w, job) =>
         IF job.saw = 0 THEN job.copy = <<>> ELSE SameRows(job.copy, file.rows)

FInv == /\ FileType
        /\ LocksTrue
        /\ \A w \in Writers : TempGood(w, temps, fw[w])
        /\ \A w \in Writers : RowGood(w, destination, fw[w])
        /\ destination.id = 0 => destination.rows = <<>>

-----------------------------------------------------------------------------
\* The invariant says what the run's invariant says.
LEMMA FInvIsSafe == FInv => LockSafe
  <1> SUFFICES ASSUME FInv PROVE LockSafe
    OBVIOUS
  <1>1. LockExcludes
    BY DEF FInv, LocksTrue, LockExcludes, Holding
  <1>2. ASSUME \A w \in Writers : At(w, "idle")
        PROVE  kernelLock = Unowned /\ \A o \in LockObjects : lockOwner[o] = Unowned
    BY <1>2, SMTT(30) DEF FInv, FileType, LocksTrue, At, Holding, Inside
  <1>3. \A w \in Writers : At(w, "idle") /\ FileRow(w) \in temps =>
          fw[w].says \in {"died", "written"}
    BY DEF FInv, TempGood, At, FileRow
  <1> QED BY <1>1, <1>2, <1>3 DEF FInv, LocksTrue, LockSafe, NothingHeldAtRest

\* ... and that what the writers were told is true.
LEMMA FInvIsTrue == FInv => VerdictTrue
  BY DEF FInv, RowGood, VerdictTrue, At, FileRow

LEMMA FileRowsAppend ==
  ASSUME NEW s \in Seq(FileRecord), NEW r \in FileRecord
  PROVE  Append(s, r) \in Seq(FileRecord) /\ Range(Append(s, r)) = Range(s) \cup {r}
  <1>1. /\ Append(s, r) \in Seq(FileRecord) /\ Len(s) \in Nat
        /\ DOMAIN s = 1..Len(s) /\ DOMAIN Append(s, r) = 1..Len(s) + 1
        /\ \A i \in 1..Len(s) : Append(s, r)[i] = s[i]
        /\ Append(s, r)[Len(s) + 1] = r
    OBVIOUS
  <1>2. 1..Len(s) + 1 = 1..Len(s) \cup {Len(s) + 1}
    BY <1>1
  <1> HIDE <1>1
  <1>3. Range(Append(s, r)) = {Append(s, r)[i] : i \in 1..Len(s) \cup {Len(s) + 1}}
    BY <1>1, <1>2 DEF Range
  <1>4. Range(s) = {s[i] : i \in 1..Len(s)}
    BY <1>1 DEF Range
  <1> QED BY <1>1, <1>3, <1>4

\* The initial states satisfy the invariant.
LEMMA FInvInit == FileInit => FInv
  <1> SUFFICES ASSUME FileInit PROVE FInv
    OBVIOUS
  <1> DEFINE first == [at |-> "idle", object |-> 0, saw |-> 0, copy |-> <<>>,
                       says |-> "none", tries |-> 0]
  <1>1. first \in Doing
    BY DEF Doing, Phases, Says
  <1>2. FileType
    <2>1. NoEntry \in [object : Nat, users : Nat]
      BY DEF NoEntry
    <2>2. destination \in [id : Nat, rows : Seq(FileRecord)]
      <3>1. \E n \in {0, 1} : destination = [id |-> n, rows |-> <<>>]
        BY DEF FileInit
      <3>2. <<>> \in Seq(FileRecord)
        OBVIOUS
      <3> QED BY <3>1, <3>2
    <2>3. fw \in [Writers -> Doing]
      <3>1. fw = [w \in Writers |-> first]
        BY DEF FileInit
      <3> HIDE DEF first
      <3> QED BY <1>1, <3>1
    <2> QED BY <2>1, <2>2, <2>3 DEF FileInit, FileType
  <1>3. \A w \in Writers : fw[w] = first
    BY DEF FileInit
  <1>4. LocksTrue
    <2>1. \A w \in Writers : w # Unowned
      BY FileConstants DEF Unowned
    <2>2. \A p \in Processes : Users(p) = {} /\ Cardinality(Users(p)) = 0
      BY <1>3, FS_EmptySet DEF Users, At
    <2>3. LockTableTrue
      BY <2>2 DEF FileInit, LockTableTrue, Users, NoEntry
    <2> QED BY <1>3, <2>1, <2>3 DEF FileInit, LocksTrue, Inside, Holding
  <1>5. \A w \in Writers : TempGood(w, temps, fw[w])
    BY DEF FileInit, TempGood
  <1>6. destination.rows = <<>> /\ Range(destination.rows) = {}
    BY DEF FileInit, Range
  <1>7. \A w \in Writers : RowGood(w, destination, fw[w])
    BY <1>3, <1>6 DEF RowGood, HasRead, Before
  <1> QED BY <1>2, <1>4, <1>5, <1>6, <1>7 DEF FInv

-----------------------------------------------------------------------------
(* What a step of one writer leaves alone                                  *)

\* The locks, when a writer moves on without crossing a lock.
LEMMA LockFrame ==
  ASSUME FInv, NEW w \in Writers, NEW job \in Doing,
         fw' = [fw EXCEPT ![w] = job],
         UNCHANGED <<lockTable, lockOwner, kernelLock>>,
         job.object = fw[w].object,
         job.at = "idle" <=> fw[w].at = "idle",
         job.at \in Holding <=> fw[w].at \in Holding,
         job.at \in Inside <=> fw[w].at \in Inside
  PROVE  LocksTrue'
  <1>1. \A v \in Writers : fw'[v] = IF v = w THEN job ELSE fw[v]
    BY DEF FInv, FileType
  <1>2. \A v \in Writers :
          /\ fw'[v].object = fw[v].object
          /\ fw'[v].at = "idle" <=> fw[v].at = "idle"
          /\ fw'[v].at \in Holding <=> fw[v].at \in Holding
          /\ fw'[v].at \in Inside <=> fw[v].at \in Inside
    BY <1>1
  <1>3. \A p \in Processes : Users(p)' = Users(p)
    BY <1>2 DEF Users, At
  <1>4. \A p \in Processes :
          /\ lockTable[p].users = Cardinality(Users(p))
          /\ \A v \in Users(p) : fw[v].object = lockTable[p].object
    BY DEF FInv, LocksTrue, LockTableTrue, Users
  <1>5. LockTableTrue'
    <2>1. \A p \in Processes :
            /\ lockTable'[p].users = Cardinality(Users(p)')
            /\ \A v \in Users(p)' : fw'[v].object = lockTable'[p].object
      BY <1>2, <1>3, <1>4 DEF Users
    <2> QED BY <2>1 DEF LockTableTrue, Users
  <1> QED BY <1>2, <1>5 DEF FInv, LocksTrue

\* The temporary files and the rows, when a writer moves on and publishes
\* nothing.
LEMMA FileFrame ==
  ASSUME FInv, NEW w \in Writers, NEW job \in Doing,
         fw' = [fw EXCEPT ![w] = job],
         UNCHANGED <<destination, identities, lockObjects>>,
         lockTable' \in [Processes -> [object : Nat, users : Nat]],
         lockOwner' \in [LockObjects -> Writers \cup {Unowned}],
         lockFile' \in {"none", "empty", "ready"},
         kernelLock' \in Writers \cup {Unowned},
         LocksTrue',
         temps' \subseteq temps \cup {FileRow(w)},
         TempGood(w, temps', job), RowGood(w, destination, job)
  PROVE  FInv'
  <1>1. \A v \in Writers : fw'[v] = IF v = w THEN job ELSE fw[v]
    BY DEF FInv, FileType
  <1>2. FileType'
    BY DEF FInv, FileType
  <1>3. \A v \in Writers : v # w => \A k \in Nat : <<v, k>> \in temps' => <<v, k>> \in temps
    BY DEF FileRow
  <1>4. ASSUME NEW v \in Writers PROVE TempGood(v, temps', fw'[v])
    <2>1. CASE v = w
      BY <1>1, <2>1
    <2>2. CASE v # w
      <3>1. fw[v].tries \in Nat /\ fw'[v] = fw[v] /\ TempGood(v, temps, fw[v])
        BY <1>1, <2>2 DEF FInv, FileType, Doing
      <3> QED BY <1>3, <2>2, <3>1 DEF TempGood
    <2> QED BY <2>1, <2>2
  <1>5. \A v \in Writers : RowGood(v, destination', fw'[v])
    BY <1>1 DEF FInv
  <1> QED BY <1>2, <1>4, <1>5 DEF FInv

\* A step of a writer that crosses no lock and publishes nothing.
LEMMA InnerStep ==
  ASSUME FInv, NEW w \in Writers, NEW job \in Doing,
         fw' = [fw EXCEPT ![w] = job],
         UNCHANGED <<lockTable, lockOwner, lockObjects, kernelLock, destination, identities>>,
         job.object = fw[w].object, job.tries = fw[w].tries,
         job.at = "idle" <=> fw[w].at = "idle",
         job.at \in Holding <=> fw[w].at \in Holding,
         job.at \in Inside <=> fw[w].at \in Inside,
         temps' \subseteq temps \cup {FileRow(w)},
         FileRow(w) \in temps' =>
            \/ job.at \in {"prepare", "read", "verify", "publish", "tidy"}
            \/ job.says = "written",
         lockFile' \in {"none", "empty", "ready"},
         RowGood(w, destination, job)
  PROVE  FInv'
  <1>1. LocksTrue'
    BY LockFrame
  <1>2. TempGood(w, temps', job)
    <2>1. \A k \in Nat : <<w, k>> \in temps' => k <= job.tries
      <3>1. TempGood(w, temps, fw[w]) /\ fw[w].tries \in Nat
        BY DEF FInv, FileType, Doing
      <3> QED BY <3>1 DEF TempGood, FileRow
    <2> QED BY <2>1 DEF TempGood, FileRow
  <1> QED BY <1>1, <1>2, FileFrame DEF FInv, FileType

-----------------------------------------------------------------------------
(* The lock                                                                *)

\* Waiting, opening and publishing the lock file, and giving up.
LEMMA LockWaits ==
  ASSUME FInv, NEW w \in Writers,
         ThreadTimeout(w) \/ OpenLock(w) \/ PublishLock(w) \/ FileTimeout(w)
  PROVE  FInv'
  <1>1. fw[w] \in Doing /\ TempGood(w, temps, fw[w]) /\ RowGood(w, destination, fw[w])
    BY DEF FInv, FileType
  <1>2. PICK at \in {"dereference", "try", "initialize", "release"},
             says \in {"not committed", "lock error", fw[w].says} :
          /\ fw' = [fw EXCEPT ![w] = [fw[w] EXCEPT !.at = at, !.says = says]]
          /\ at = "dereference" <=> fw[w].at = "wait"
          /\ at \in {"try", "initialize"} => says = fw[w].says
          /\ fw[w].at \in {"wait", "open", "initialize", "try"}
    <2>1. CASE ThreadTimeout(w)
      <3>1. fw' = [fw EXCEPT ![w] = [fw[w] EXCEPT !.at = "dereference", !.says = "not committed"]]
        BY <2>1 DEF ThreadTimeout
      <3> QED BY <2>1, <3>1 DEF ThreadTimeout, At
    <2>2. CASE OpenLock(w) /\ lockFile = "ready"
      <3>1. fw' = [fw EXCEPT ![w] = [fw[w] EXCEPT !.at = "try", !.says = fw[w].says]]
        BY <1>1, <2>2 DEF OpenLock, Doing
      <3> QED BY <2>2, <3>1 DEF OpenLock, At
    <2>3. CASE OpenLock(w) /\ lockFile = "none"
      <3>1. fw' = [fw EXCEPT ![w] = [fw[w] EXCEPT !.at = "initialize", !.says = fw[w].says]]
        BY <1>1, <2>3 DEF OpenLock, Doing
      <3> QED BY <2>3, <3>1 DEF OpenLock, At
    <2>4. CASE OpenLock(w) /\ lockFile = "empty"
      <3>1. fw' = [fw EXCEPT ![w] = [fw[w] EXCEPT !.at = "release", !.says = "lock error"]]
        BY <1>1, <2>4 DEF OpenLock, Doing
      <3> QED BY <2>4, <3>1 DEF OpenLock, At
    <2>5. CASE PublishLock(w)
      <3>1. fw' = [fw EXCEPT ![w] = [fw[w] EXCEPT !.at = "try", !.says = fw[w].says]]
        BY <1>1, <2>5 DEF PublishLock, Moves, Doing
      <3> QED BY <2>5, <3>1 DEF PublishLock, At
    <2>6. CASE FileTimeout(w)
      <3>1. fw' = [fw EXCEPT ![w] = [fw[w] EXCEPT !.at = "release", !.says = "not committed"]]
        BY <2>6 DEF FileTimeout
      <3> QED BY <2>6, <3>1 DEF FileTimeout, At
    <2> QED BY <2>1, <2>2, <2>3, <2>4, <2>5, <2>6 DEF FInv, FileType
  <1> DEFINE job == [fw[w] EXCEPT !.at = at, !.says = says]
  <1>3. /\ job \in Doing /\ job.at = at /\ job.says = says
        /\ job.object = fw[w].object /\ job.tries = fw[w].tries
        /\ job.saw = fw[w].saw /\ job.copy = fw[w].copy
    BY <1>1, <1>2 DEF Doing, Phases, Says
  <1>4. UNCHANGED <<lockTable, lockOwner, lockObjects, kernelLock, destination, identities, temps>>
    BY DEF ThreadTimeout, OpenLock, PublishLock, FileTimeout, lockVars
  <1> HIDE DEF job
  <1>5. fw' = [fw EXCEPT ![w] = job]
    BY <1>2 DEF job
  <1>6. fw[w].says = "none" /\ fw[w].tries \in Nat
    BY <1>1, <1>2 DEF RowGood, Before, Doing
  <1>7. RowGood(w, destination, job)
    BY <1>1, <1>2, <1>3, <1>6 DEF RowGood, HasRead, Before
  <1>8. FileRow(w) \notin temps'
    BY <1>1, <1>2, <1>4, <1>6 DEF TempGood, FileRow
  <1>9. lockFile' \in {"none", "empty", "ready"}
    BY DEF ThreadTimeout, OpenLock, PublishLock, FileTimeout, lockVars, FInv, FileType
  <1> QED BY <1>2, <1>3, <1>4, <1>5, <1>7, <1>8, <1>9, InnerStep DEF Holding, Inside

\* The lock of the process: the table counts one user more, and all users of the
\* process are given one object.
LEMMA BeginStep ==
  ASSUME FInv, NEW w \in Writers, Begin(w)
  PROVE  FInv'
  <1> DEFINE p == ProcessOf[w]
             new == lockTable[p] = NoEntry
             object == IF new THEN lockObjects + 1 ELSE lockTable[p].object
             entry == [object |-> object, users |-> lockTable[p].users + 1]
             job == [fw[w] EXCEPT !.at = "wait", !.object = object,
                                  !.says = "none", !.tries = @ + 1]
  <1>1. /\ fw[w].at = "idle" /\ object \in LockObjects
        /\ lockTable' = [lockTable EXCEPT ![p] = entry]
        /\ lockObjects' = IF new THEN object ELSE lockObjects
        /\ fw' = [fw EXCEPT ![w] = job]
        /\ UNCHANGED <<lockOwner, lockFile, kernelLock, destination, identities, temps>>
    BY DEF Begin, At
  <1>2. /\ fw[w] \in Doing /\ p \in Processes /\ lockTable[p] \in [object : Nat, users : Nat]
        /\ TempGood(w, temps, fw[w]) /\ RowGood(w, destination, fw[w])
    BY DEF FInv, FileType, Processes
  <1>3. object \in Nat /\ lockObjects' \in Nat
    BY <1>1, <1>2 DEF FInv, FileType
  <1>4. /\ Cardinality(Users(p)) = lockTable[p].users
        /\ \A v \in Users(p) : fw[v].object = lockTable[p].object
    BY <1>2 DEF FInv, LocksTrue, LockTableTrue, Users
  <1>5. IsFiniteSet(Users(p))
    BY FileConstants, FS_Subset DEF Users
  <1>6. \A v \in Users(p) : fw[v].object = object
    <2>1. CASE new
      <3>1. Cardinality(Users(p)) = 0
        BY <1>4, <2>1 DEF NoEntry
      <3>2. Users(p) = {}
        BY <1>5, <3>1, FS_EmptySet
      <3> QED BY <3>2
    <2>2. CASE ~new
      BY <1>4, <2>2
    <2> QED BY <2>1, <2>2
  <1> HIDE DEF new, object
  <1>7. /\ job \in Doing /\ job.at = "wait" /\ job.object = object /\ job.says = "none"
        /\ job.tries = fw[w].tries + 1
    <2>1. fw[w].tries \in Nat /\ fw[w].tries + 1 \in Nat
      BY <1>2 DEF Doing
    <2>2. job \in Doing
      BY <1>2, <1>3, <2>1 DEF Doing, Phases, Says
    <2> QED BY <1>2, <2>2 DEF Doing
  <1>8. entry \in [object : Nat, users : Nat] /\ entry.object = object
        /\ entry.users = lockTable[p].users + 1 /\ entry.users # 0
    BY <1>2, <1>3
  <1> HIDE DEF job, entry
  <1>9. \A v \in Writers : fw'[v] = IF v = w THEN job ELSE fw[v]
    BY <1>1 DEF FInv, FileType
  <1>10. \A q \in Processes : lockTable'[q] = IF q = p THEN entry ELSE lockTable[q]
    BY <1>1 DEF FInv, FileType
  <1>11. /\ Users(p)' = Users(p) \cup {w} /\ w \notin Users(p)
         /\ \A q \in Processes : q # p => Users(q)' = Users(q)
    BY <1>1, <1>7, <1>9 DEF Users, At
  <1>12. Cardinality(Users(p)') = entry.users
    BY <1>4, <1>5, <1>8, <1>11, FS_AddElement, ZenonT(60)
  <1>13. LockTableTrue'
    <2>1. ASSUME NEW q \in Processes
          PROVE  /\ lockTable'[q].users = Cardinality(Users(q)')
                 /\ \A v \in Users(q)' : fw'[v].object = lockTable'[q].object
      <3>1. CASE q = p
        BY <1>6, <1>7, <1>8, <1>9, <1>10, <1>11, <1>12, <3>1 DEF Users
      <3>2. CASE q # p
        <4>1. Users(q)' = Users(q) /\ lockTable'[q] = lockTable[q]
              /\ \A v \in Users(q) : fw'[v] = fw[v]
          BY <1>9, <1>10, <1>11, <3>2 DEF Users
        <4> QED BY <4>1 DEF FInv, LocksTrue, LockTableTrue, Users
      <3> QED BY <3>1, <3>2
    <2> QED BY <2>1 DEF LockTableTrue, Users
  <1>14. LocksTrue'
    BY <1>1, <1>7, <1>8, <1>9, <1>10, <1>13 DEF FInv, LocksTrue, Holding, Inside
  <1>15. fw[w].tries \in Nat
    BY <1>2 DEF Doing
  <1>16. TempGood(w, temps', job)
    BY <1>1, <1>2, <1>7, <1>15 DEF TempGood
  <1>17. RowGood(w, destination, job)
    BY <1>1, <1>2, <1>7, <1>15 DEF RowGood, HasRead, Before
  <1>18. FileType'
    BY <1>1, <1>3, <1>7, <1>8 DEF FInv, FileType
  <1>19. \A v \in Writers : TempGood(v, temps', fw'[v]) /\ RowGood(v, destination', fw'[v])
    BY <1>1, <1>9, <1>16, <1>17 DEF FInv
  <1> QED BY <1>1, <1>14, <1>18, <1>19 DEF FInv

\* A writer crosses a lock: it takes it when nobody has it, or gives it back.
LEMMA CrossLock ==
  ASSUME FInv, NEW w \in Writers,
         AcquireThread(w) \/ TryLock(w) \/ Unlock(w) \/ ReleaseThread(w)
  PROVE  FInv'
  <1>0. w # Unowned /\ \A v \in Writers : v # Unowned
    BY FileConstants DEF Unowned
  <1>1. fw[w] \in Doing /\ TempGood(w, temps, fw[w]) /\ RowGood(w, destination, fw[w])
    BY DEF FInv, FileType
  <1>2. PICK at \in {"open", "inspect", "release", "dereference"} :
          /\ fw' = [fw EXCEPT ![w] = [fw[w] EXCEPT !.at = at]]
          /\ \/ /\ at = "open" /\ fw[w].at = "wait" /\ lockOwner[fw[w].object] = Unowned
                /\ lockOwner' = [lockOwner EXCEPT ![fw[w].object] = w] /\ UNCHANGED kernelLock
             \/ /\ at = "inspect" /\ fw[w].at = "try" /\ kernelLock = Unowned
                /\ kernelLock' = w /\ UNCHANGED lockOwner
             \/ /\ at = "release" /\ fw[w].at = "unlock" /\ kernelLock' = Unowned
                /\ UNCHANGED lockOwner
             \/ /\ at = "dereference" /\ fw[w].at = "release" /\ UNCHANGED kernelLock
                /\ lockOwner' = [lockOwner EXCEPT ![fw[w].object] = Unowned]
    <2>1. \A at : Moves(w, at) => fw' = [fw EXCEPT ![w] = [fw[w] EXCEPT !.at = at]]
      BY DEF Moves
    <2>2. CASE AcquireThread(w)
      BY <2>1, <2>2 DEF AcquireThread, At
    <2>3. CASE TryLock(w)
      BY <2>1, <2>3 DEF TryLock, At
    <2>4. CASE Unlock(w)
      BY <2>1, <2>4 DEF Unlock, At
    <2>5. CASE ReleaseThread(w)
      BY <2>1, <2>5 DEF ReleaseThread, At
    <2> QED BY <2>2, <2>3, <2>4, <2>5
  <1>3. UNCHANGED <<lockTable, lockObjects, lockFile, destination, identities, temps>>
    BY DEF AcquireThread, TryLock, Unlock, ReleaseThread
  <1> DEFINE job == [fw[w] EXCEPT !.at = at]
  <1>4. /\ job \in Doing /\ job.at = at /\ job.says = fw[w].says
        /\ job.object = fw[w].object /\ job.tries = fw[w].tries
    BY <1>1, <1>2 DEF Doing, Phases, Inside
  <1> HIDE DEF job
  <1>5. fw' = [fw EXCEPT ![w] = job]
    BY <1>2 DEF job
  <1>6. \A v \in Writers : fw'[v] = IF v = w THEN job ELSE fw[v]
    BY <1>5 DEF FInv, FileType
  <1>7. LockTableTrue'
    <2>1. \A q \in Processes : Users(q)' = Users(q)
      BY <1>2, <1>4, <1>6 DEF Users, At
    <2>2. \A v \in Writers : fw'[v].object = fw[v].object
      BY <1>4, <1>6
    <2>3. \A q \in Processes :
            /\ lockTable'[q].users = Cardinality(Users(q)')
            /\ \A v \in Users(q)' : fw'[v].object = lockTable'[q].object
      BY <1>3, <2>1, <2>2 DEF FInv, LocksTrue, LockTableTrue, Users
    <2> QED BY <2>3 DEF LockTableTrue, Users
  <1>8. /\ lockOwner \in [LockObjects -> Writers \cup {Unowned}]
        /\ fw[w].object \in LockObjects
    BY <1>2 DEF FInv, FileType, LocksTrue
  <1>9. /\ lockOwner' \in [LockObjects -> Writers \cup {Unowned}]
        /\ kernelLock' \in Writers \cup {Unowned}
    BY <1>2, <1>8 DEF FInv, FileType
  <1>10. \A o \in LockObjects : lockOwner'[o] =
            IF o # fw[w].object THEN lockOwner[o]
            ELSE IF at = "open" THEN w ELSE IF at = "dereference" THEN Unowned ELSE lockOwner[o]
    BY <1>2, <1>8
  <1>11. ASSUME NEW v \in Writers
         PROVE  /\ fw'[v].at \in Inside <=> kernelLock' = v
                /\ fw'[v].at \in Holding => lockOwner'[fw'[v].object] = v
                /\ \A o \in LockObjects :
                     lockOwner'[o] = v => fw'[v].at \in Holding /\ fw'[v].object = o
                /\ fw'[v].at # "idle" => fw'[v].object \in LockObjects
    <2>0. /\ fw[v].at \in Inside <=> kernelLock = v
          /\ fw[v].at \in Holding => lockOwner[fw[v].object] = v
          /\ \A o \in LockObjects :
               lockOwner[o] = v => fw[v].at \in Holding /\ fw[v].object = o
          /\ fw[v].at # "idle" => fw[v].object \in LockObjects
          /\ fw[w].at \in Inside <=> kernelLock = w
          /\ fw[w].at \in Holding => lockOwner[fw[w].object] = w
      BY DEF FInv, LocksTrue
    <2>1. CASE v = w
      BY <1>0, <1>2, <1>4, <1>6, <1>8, <1>10, <2>0, <2>1 DEF Holding, Inside
    <2>2. CASE v # w
      <3>1. fw'[v] = fw[v] /\ (fw[v].at \in Holding => fw[v].object \in LockObjects)
        BY <1>6, <2>0, <2>2 DEF Holding, Inside
      <3>2. fw[v].at \in Inside <=> kernelLock' = v
        BY <1>0, <1>2, <2>0, <2>2 DEF Inside
      <3>3. fw[v].at \in Holding => lockOwner'[fw[v].object] = v
        BY <1>0, <1>2, <1>8, <1>10, <2>0, <2>2, <3>1 DEF Holding
      <3>4. \A o \in LockObjects :
               lockOwner'[o] = v => fw[v].at \in Holding /\ fw[v].object = o
        BY <1>0, <1>10, <2>0, <2>2
      <3> QED BY <2>0, <3>1, <3>2, <3>3, <3>4
    <2> QED BY <2>1, <2>2
  <1>12. LocksTrue'
    BY <1>3, <1>7, <1>11 DEF FInv, LocksTrue
  <1>13. TempGood(w, temps', job)
    BY <1>1, <1>2, <1>3, <1>4 DEF TempGood
  <1>14. RowGood(w, destination, job)
    BY <1>1, <1>2, <1>4 DEF RowGood, HasRead, Before
  <1> QED BY <1>3, <1>4, <1>5, <1>9, <1>12, <1>13, <1>14, FileFrame DEF FInv, FileType

\* The last user of a process removes the entry of its table.
LEMMA DereferenceStep ==
  ASSUME FInv, NEW w \in Writers, Dereference(w)
  PROVE  FInv'
  <1> DEFINE p == ProcessOf[w]
             entry == Dereferenced(lockTable[p])
             job == [fw[w] EXCEPT !.at = "idle"]
  <1>1. /\ fw[w] \in Doing /\ p \in Processes /\ lockTable[p] \in [object : Nat, users : Nat]
        /\ fw[w].at = "dereference"
        /\ TempGood(w, temps, fw[w]) /\ RowGood(w, destination, fw[w])
    BY DEF FInv, FileType, Processes, Dereference, At
  <1>2. /\ Cardinality(Users(p)) = lockTable[p].users
        /\ \A v \in Users(p) : fw[v].object = lockTable[p].object
        /\ w \in Users(p)
    BY <1>1 DEF FInv, LocksTrue, LockTableTrue, Users, At
  <1>3. /\ lockTable' = [lockTable EXCEPT ![p] = entry]
        /\ fw' = [fw EXCEPT ![w] = job]
        /\ UNCHANGED <<lockOwner, lockObjects, lockFile, kernelLock, destination, identities, temps>>
    BY <1>2 DEF Dereference, Moves
  <1>4. IsFiniteSet(Users(p))
    BY FileConstants, FS_Subset DEF Users
  <1>5. /\ IsFiniteSet(Users(p) \ {w})
        /\ Cardinality(Users(p) \ {w}) = lockTable[p].users - 1
        /\ Cardinality(Users(p) \ {w}) \in Nat
    <2>1. /\ IsFiniteSet(Users(p) \ {w})
          /\ Cardinality(Users(p) \ {w}) = Cardinality(Users(p)) - 1
      BY <1>2, <1>4, FS_RemoveElement
    <2> QED BY <1>2, <2>1, FS_CardinalityType
  <1>6. /\ entry \in [object : Nat, users : Nat]
        /\ entry.users = lockTable[p].users - 1
        /\ entry.users = 0 => entry = NoEntry
        /\ entry.users # 0 => entry.object = lockTable[p].object
    <2>1. CASE lockTable[p].users > 1
      <3>1. entry = [lockTable[p] EXCEPT !.users = @ - 1]
        BY <2>1 DEF Dereferenced
      <3>2. lockTable[p].users - 1 \in Nat /\ lockTable[p].users - 1 # 0
        BY <1>1, <2>1
      <3> HIDE DEF entry
      <3> QED BY <1>1, <3>1, <3>2
    <2>2. CASE lockTable[p].users <= 1
      <3>1. entry = NoEntry
        BY <1>1, <2>2 DEF Dereferenced
      <3>2. lockTable[p].users - 1 = 0
        BY <1>1, <1>5, <2>2
      <3> HIDE DEF entry
      <3> QED BY <3>1, <3>2 DEF NoEntry
    <2> QED BY <1>1, <2>1, <2>2
  <1>7. /\ job \in Doing /\ job.at = "idle" /\ job.says = fw[w].says
        /\ job.object = fw[w].object /\ job.tries = fw[w].tries
    BY <1>1 DEF Doing, Phases
  <1> HIDE DEF entry, job
  <1>8. \A v \in Writers : fw'[v] = IF v = w THEN job ELSE fw[v]
    BY <1>3 DEF FInv, FileType
  <1>9. \A q \in Processes : lockTable'[q] = IF q = p THEN entry ELSE lockTable[q]
    BY <1>3 DEF FInv, FileType
  <1>10. /\ Users(p)' = Users(p) \ {w}
         /\ \A q \in Processes : q # p => Users(q)' = Users(q)
    BY <1>7, <1>8 DEF Users, At
  <1>11. LockTableTrue'
    <2>1. ASSUME NEW q \in Processes
          PROVE  /\ lockTable'[q].users = Cardinality(Users(q)')
                 /\ \A v \in Users(q)' : fw'[v].object = lockTable'[q].object
      <3>1. CASE q = p
        <4>1. lockTable'[q].users = Cardinality(Users(q)')
          BY <1>5, <1>6, <1>9, <1>10, <3>1
        <4>2. CASE entry.users = 0
          <5>1. Users(q)' = {}
            BY <1>5, <1>6, <1>10, <3>1, <4>2, FS_EmptySet
          <5> QED BY <4>1, <5>1
        <4>3. CASE entry.users # 0
          <5>1. \A v \in Users(q)' : fw'[v].object = fw[v].object /\ v \in Users(p)
            BY <1>8, <1>10, <3>1 DEF Users
          <5> QED BY <1>2, <1>6, <1>9, <3>1, <4>1, <4>3, <5>1
        <4> QED BY <4>2, <4>3
      <3>2. CASE q # p
        <4>1. Users(q)' = Users(q) /\ lockTable'[q] = lockTable[q]
              /\ \A v \in Users(q) : fw'[v] = fw[v]
          BY <1>8, <1>9, <1>10, <3>2 DEF Users
        <4> QED BY <4>1 DEF FInv, LocksTrue, LockTableTrue, Users
      <3> QED BY <3>1, <3>2
    <2> QED BY <2>1 DEF LockTableTrue, Users
  <1>12. LocksTrue'
    <2>1. \A v \in Writers :
            /\ fw'[v].at \in Inside <=> kernelLock' = v
            /\ fw'[v].at \in Holding => lockOwner'[fw'[v].object] = v
            /\ \A o \in LockObjects :
                 lockOwner'[o] = v => fw'[v].at \in Holding /\ fw'[v].object = o
            /\ fw'[v].at # "idle" => fw'[v].object \in LockObjects
      BY <1>1, <1>3, <1>7, <1>8 DEF FInv, LocksTrue, Holding, Inside
    <2>2. \A q \in Processes : lockTable'[q].users = 0 => lockTable'[q] = NoEntry
      BY <1>6, <1>9 DEF FInv, LocksTrue
    <2> QED BY <1>11, <2>1, <2>2 DEF LocksTrue
  <1>13. TempGood(w, temps', job)
    BY <1>1, <1>3, <1>7 DEF TempGood
  <1>14. RowGood(w, destination, job)
    BY <1>1, <1>7 DEF RowGood, HasRead, Before
  <1>15. lockTable' \in [Processes -> [object : Nat, users : Nat]]
    BY <1>3, <1>6 DEF FInv, FileType
  <1> QED BY <1>3, <1>7, <1>12, <1>13, <1>14, <1>15, FileFrame DEF FInv, FileType

\* A process dies and leaves no lock behind.
LEMMA DeathStep ==
  ASSUME FInv, NEW p \in Processes, ProcessDies(p)
  PROVE  FInv'
  <1> DEFINE mine == {w \in Writers : ProcessOf[w] = p}
  <1>1. /\ lockTable' = [lockTable EXCEPT ![p] = NoEntry]
        /\ lockOwner' = [o \in LockObjects |-> IF lockOwner[o] \in mine THEN Unowned
                                               ELSE lockOwner[o]]
        /\ kernelLock' = IF kernelLock \in mine THEN Unowned ELSE kernelLock
        /\ fw' = [w \in Writers |->
                    IF w \in mine /\ ~At(w, "idle")
                    THEN [fw[w] EXCEPT !.at = "idle", !.says = "died"]
                    ELSE fw[w]]
        /\ UNCHANGED <<lockObjects, lockFile, destination, identities, temps>>
    BY DEF ProcessDies
  <1>2. ASSUME NEW w \in Writers
        PROVE  /\ fw'[w] \in Doing /\ fw'[w].tries = fw[w].tries
               /\ fw'[w].object = fw[w].object
               /\ \/ fw'[w].at = "idle" /\ fw'[w].says = "died" /\ w \in mine
                  \/ fw'[w] = fw[w] /\ (w \notin mine \/ fw[w].at = "idle")
    <2>1. fw[w] \in Doing
      BY DEF FInv, FileType
    <2>2. CASE w \in mine /\ ~At(w, "idle")
      <3>1. fw'[w] = [fw[w] EXCEPT !.at = "idle", !.says = "died"]
        BY <1>1, <2>2
      <3>2. fw'[w] \in Doing
        BY <2>1, <3>1 DEF Doing, Phases, Says
      <3>3. /\ fw'[w].at = "idle" /\ fw'[w].says = "died"
            /\ fw'[w].tries = fw[w].tries /\ fw'[w].object = fw[w].object
        BY <2>1, <3>1 DEF Doing
      <3> QED BY <2>2, <3>2, <3>3
    <2>3. CASE ~(w \in mine /\ ~At(w, "idle"))
      BY <1>1, <2>1, <2>3 DEF At
    <2> QED BY <2>2, <2>3
  <1>3. \A v \in Writers : v # Unowned
    BY FileConstants DEF Unowned
  <1>4. \A q \in Processes : lockTable'[q] = IF q = p THEN NoEntry ELSE lockTable[q]
    BY <1>1 DEF FInv, FileType
  <1>5. FileType'
    <2>1. fw' \in [Writers -> Doing]
      BY <1>1, <1>2
    <2>2. NoEntry \in [object : Nat, users : Nat]
      BY DEF NoEntry
    <2> QED BY <1>1, <2>1, <2>2 DEF FInv, FileType
  <1>6. LockTableTrue'
    <2>1. Users(p)' = {}
      BY <1>2 DEF Users, At
    <2>2. \A q \in Processes : q # p =>
             Users(q)' = Users(q) /\ \A v \in Users(q) : fw'[v] = fw[v]
      BY <1>2 DEF Users, At
    <2>3. ASSUME NEW q \in Processes
          PROVE  /\ lockTable'[q].users = Cardinality(Users(q)')
                 /\ \A v \in Users(q)' : fw'[v].object = lockTable'[q].object
      <3>1. CASE q = p
        BY <1>4, <2>1, <3>1, FS_EmptySet DEF NoEntry
      <3>2. CASE q # p
        <4>1. /\ Users(q)' = Users(q) /\ lockTable'[q] = lockTable[q]
              /\ \A v \in Users(q) : fw'[v] = fw[v]
          BY <1>4, <2>2, <3>2
        <4>2. /\ lockTable[q].users = Cardinality(Users(q))
              /\ \A v \in Users(q) : fw[v].object = lockTable[q].object
          BY DEF FInv, LocksTrue, LockTableTrue, Users
        <4> QED BY <4>1, <4>2
      <3> QED BY <3>1, <3>2
    <2> QED BY <2>3 DEF LockTableTrue, Users
  <1>7. LocksTrue'
    <2>1. ASSUME NEW v \in Writers
          PROVE  /\ fw'[v].at \in Inside <=> kernelLock' = v
                 /\ fw'[v].at \in Holding => lockOwner'[fw'[v].object] = v
                 /\ \A o \in LockObjects :
                      lockOwner'[o] = v => fw'[v].at \in Holding /\ fw'[v].object = o
                 /\ fw'[v].at # "idle" => fw'[v].object \in LockObjects
      <3>1. /\ fw[v].at \in Inside <=> kernelLock = v
            /\ fw[v].at \in Holding => lockOwner[fw[v].object] = v
            /\ \A o \in LockObjects :
                 lockOwner[o] = v => fw[v].at \in Holding /\ fw[v].object = o
            /\ fw[v].at # "idle" => fw[v].object \in LockObjects
        BY DEF FInv, LocksTrue
      <3>2. CASE v \in mine
        <4>1. fw'[v].at = "idle"
          BY <1>2, <3>2
        <4> QED BY <1>1, <1>3, <3>1, <3>2, <4>1 DEF Inside, Holding
      <3>3. CASE v \notin mine
        <4>1. fw'[v] = fw[v]
          BY <1>2, <3>3
        <4> QED BY <1>1, <1>3, <3>1, <3>3, <4>1 DEF Inside, Holding
      <3> QED BY <3>2, <3>3
    <2>2. \A q \in Processes : lockTable'[q].users = 0 => lockTable'[q] = NoEntry
      BY <1>4 DEF FInv, LocksTrue
    <2> QED BY <1>6, <2>1, <2>2 DEF LocksTrue
  <1> HIDE DEF mine
  <1>8. ASSUME NEW w \in Writers
        PROVE  TempGood(w, temps', fw'[w]) /\ RowGood(w, destination', fw'[w])
    <2>1. /\ TempGood(w, temps, fw[w]) /\ RowGood(w, destination, fw[w])
          /\ temps' = temps /\ destination' = destination
      BY <1>1 DEF FInv
    <2>2. CASE fw'[w] = fw[w]
      BY <2>1, <2>2
    <2>3. CASE fw'[w].at = "idle" /\ fw'[w].says = "died" /\ fw'[w].tries = fw[w].tries
      <3>1. TempGood(w, temps', fw'[w])
        BY <2>1, <2>3 DEF TempGood
      <3>2. RowGood(w, destination', fw'[w])
        BY <2>1, <2>3 DEF RowGood, HasRead, Before
      <3> QED BY <3>1, <3>2
    <2> QED BY <1>2, <2>2, <2>3
  <1> QED BY <1>1, <1>5, <1>7, <1>8 DEF FInv

-----------------------------------------------------------------------------
(* The write                                                               *)

\* A step of the write that raises: nothing was published.
LEMMA AbortStep ==
  ASSUME FInv, NEW w \in Writers, NEW verdict \in {"not committed", "raised"},
         fw[w].at \in {"inspect", "prepare", "read", "verify", "publish"}, Abort(w, verdict)
  PROVE  FInv'
  <1> DEFINE job == [fw[w] EXCEPT !.at = "unlock", !.says = verdict]
  <1>1. fw[w] \in Doing /\ RowGood(w, destination, fw[w])
    BY DEF FInv, FileType
  <1>2. /\ fw' = [fw EXCEPT ![w] = job] /\ temps' = temps \ {FileRow(w)}
        /\ UNCHANGED <<lockTable, lockOwner, lockObjects, lockFile, kernelLock, destination,
                       identities>>
    BY DEF Abort, lockVars
  <1>3. job \in Doing
    BY <1>1 DEF Doing, Phases, Says, Inside
  <1>4. /\ job.at = "unlock" /\ job.says = verdict
        /\ job.object = fw[w].object /\ job.tries = fw[w].tries
    BY <1>1 DEF Doing
  <1> HIDE DEF job
  <1>5. RowGood(w, destination, job)
    BY <1>1, <1>4 DEF RowGood, HasRead, Before
  <1> QED BY <1>2, <1>3, <1>4, <1>5, InnerStep DEF FInv, FileType, Holding, Inside

LEMMA RefusedVerdict == \A w : Refused(w) \in {"not committed", "raised"}
  BY DEF Refused

\* What a step of the write does when it raises nothing and publishes nothing.
Works(w, job) ==
    /\ fw' = [fw EXCEPT ![w] = job]
    /\ temps' \subseteq temps \cup {FileRow(w)}
    /\ job.at \in {"prepare", "read", "verify", "publish"}
    /\ job.says = fw[w].says /\ job.tries = fw[w].tries /\ job.object = fw[w].object
    /\ UNCHANGED <<lockTable, lockOwner, lockObjects, lockFile, kernelLock, destination,
                   identities>>

LEMMA WorkStep ==
  ASSUME FInv, NEW w \in Writers, NEW job \in Doing, Works(w, job),
         fw[w].at \in {"inspect", "prepare", "read", "verify"},
         HasRead(w, job) =>
            IF job.saw = 0 THEN job.copy = <<>> ELSE SameRows(job.copy, destination.rows)
  PROVE  FInv'
  <1>1. RowGood(w, destination, fw[w])
    BY DEF FInv
  <1>2. RowGood(w, destination, job)
    BY <1>1 DEF RowGood, Works, Before
  <1> QED BY <1>2, InnerStep DEF Works, FInv, FileType, Holding, Inside

LEMMA InspectStep ==
  ASSUME FInv, NEW w \in Writers, Inspect(w)
  PROVE  FInv'
  <1>1. fw[w].at = "inspect" /\ fw[w] \in Doing
    BY DEF Inspect, At, FInv, FileType
  <1>2. CASE Abort(w, Refused(w))
    BY <1>1, <1>2, AbortStep, RefusedVerdict
  <1>3. CASE ~Abort(w, Refused(w))
    <2> DEFINE at == IF Format[w] = "csv" THEN "prepare" ELSE "read"
               job == [fw[w] EXCEPT !.saw = destination.id, !.at = at]
    <2>1. /\ fw' = [fw EXCEPT ![w] = job]
          /\ UNCHANGED <<lockTable, lockOwner, lockObjects, lockFile, kernelLock, destination,
                         identities, temps>>
      BY <1>1, <1>3 DEF Inspect, lockVars, FInv, FileType
    <2>2. destination.id \in Nat /\ at \in {"prepare", "read"}
      BY DEF FInv, FileType
    <2>3. ~HasRead(w, [at |-> at])
      BY DEF HasRead
    <2> HIDE DEF at
    <2>4. job \in Doing
      BY <1>1, <2>2 DEF Doing, Phases, Inside
    <2>5. /\ job.at = at /\ job.says = fw[w].says
          /\ job.object = fw[w].object /\ job.tries = fw[w].tries
      BY <1>1 DEF Doing
    <2> HIDE DEF job
    <2>6. Works(w, job) /\ ~HasRead(w, job)
      BY <2>1, <2>2, <2>3, <2>5 DEF Works, HasRead
    <2> QED BY <1>1, <2>4, <2>6, WorkStep
  <1> QED BY <1>2, <1>3

LEMMA PrepareStep ==
  ASSUME FInv, NEW w \in Writers, Prepare(w)
  PROVE  FInv'
  <1>1. fw[w].at = "prepare" /\ fw[w] \in Doing /\ RowGood(w, destination, fw[w])
    BY DEF Prepare, At, FInv, FileType
  <1>2. CASE Abort(w, "not committed")
    BY <1>1, <1>2, AbortStep
  <1>3. CASE ~Abort(w, "not committed")
    <2> DEFINE at == IF Format[w] = "csv" THEN "read" ELSE "publish"
               job == [fw[w] EXCEPT !.at = at]
    <2>1. /\ fw' = [fw EXCEPT ![w] = job] /\ temps' = temps \cup {FileRow(w)}
          /\ UNCHANGED <<lockTable, lockOwner, lockObjects, lockFile, kernelLock, destination,
                         identities>>
      BY <1>1, <1>3 DEF Prepare, Moves, lockVars, FInv, FileType
    <2>2. at \in {"publish", "read"} /\ (at = "publish" => Format[w] = "json")
      BY FileConstants
    <2> HIDE DEF at
    <2>3. job \in Doing
      BY <1>1, <2>2 DEF Doing, Phases, Inside
    <2>4. /\ job.at = at /\ job.says = fw[w].says /\ job.saw = fw[w].saw
          /\ job.copy = fw[w].copy /\ job.object = fw[w].object /\ job.tries = fw[w].tries
      BY <1>1 DEF Doing
    <2> HIDE DEF job
    <2>5. Works(w, job)
      BY <2>1, <2>2, <2>4 DEF Works
    <2>6. HasRead(w, job) =>
            IF job.saw = 0 THEN job.copy = <<>> ELSE SameRows(job.copy, destination.rows)
      BY <1>1, <2>2, <2>4 DEF RowGood, HasRead
    <2> QED BY <1>1, <2>3, <2>5, <2>6, WorkStep
  <1> QED BY <1>2, <1>3

LEMMA ReadStep ==
  ASSUME FInv, NEW w \in Writers, ReadRows(w)
  PROVE  FInv'
  <1>1. fw[w].at = "read" /\ fw[w] \in Doing
    BY DEF ReadRows, At, FInv, FileType
  <1>2. CASE \E verdict \in {"not committed", "raised"} : Abort(w, verdict)
    BY <1>1, <1>2, AbortStep
  <1>3. CASE ~\E verdict \in {"not committed", "raised"} : Abort(w, verdict)
    <2> DEFINE copy == IF fw[w].saw = 0 THEN <<>> ELSE destination.rows
               job == [fw[w] EXCEPT !.at = "verify", !.copy = copy]
    <2>1. /\ fw' = [fw EXCEPT ![w] = job]
          /\ UNCHANGED <<lockTable, lockOwner, lockObjects, lockFile, kernelLock, destination,
                         identities, temps>>
      BY <1>1, <1>3, RefusedVerdict DEF ReadRows, lockVars, FInv, FileType
    <2>2. /\ copy \in Seq(FileRecord)
          /\ fw[w].saw = 0 => copy = <<>>
          /\ fw[w].saw # 0 => SameRows(copy, destination.rows)
      BY DEF FInv, FileType, SameRows
    <2> HIDE DEF copy
    <2>3. job \in Doing
      BY <1>1, <2>2 DEF Doing, Phases, Inside
    <2>4. /\ job.at = "verify" /\ job.says = fw[w].says /\ job.saw = fw[w].saw
          /\ job.copy = copy /\ job.object = fw[w].object /\ job.tries = fw[w].tries
      BY <1>1 DEF Doing
    <2> HIDE DEF job
    <2>5. Works(w, job)
      BY <2>1, <2>4 DEF Works
    <2> QED BY <1>1, <2>2, <2>3, <2>4, <2>5, WorkStep
  <1> QED BY <1>2, <1>3

LEMMA VerifyStep ==
  ASSUME FInv, NEW w \in Writers, VerifySource(w)
  PROVE  FInv'
  <1>1. fw[w].at = "verify" /\ fw[w] \in Doing /\ RowGood(w, destination, fw[w])
    BY DEF VerifySource, At, FInv, FileType
  <1>2. CASE Abort(w, "not committed")
    BY <1>1, <1>2, AbortStep
  <1>3. CASE ~Abort(w, "not committed")
    <2> DEFINE at == IF Format[w] = "csv" THEN "publish" ELSE "prepare"
               job == [fw[w] EXCEPT !.at = at]
    <2>1. /\ fw' = [fw EXCEPT ![w] = job]
          /\ UNCHANGED <<lockTable, lockOwner, lockObjects, lockFile, kernelLock, destination,
                         identities, temps>>
      BY <1>1, <1>3 DEF VerifySource, Moves, lockVars, FInv, FileType
    <2>2. at \in {"publish", "prepare"}
      OBVIOUS
    <2> HIDE DEF at
    <2>3. job \in Doing
      BY <1>1, <2>2 DEF Doing, Phases, Inside
    <2>4. /\ job.at = at /\ job.says = fw[w].says /\ job.saw = fw[w].saw
          /\ job.copy = fw[w].copy /\ job.object = fw[w].object /\ job.tries = fw[w].tries
      BY <1>1 DEF Doing
    <2> HIDE DEF job
    <2>5. Works(w, job)
      BY <2>1, <2>2, <2>4 DEF Works
    <2>6. IF job.saw = 0 THEN job.copy = <<>> ELSE SameRows(job.copy, destination.rows)
      BY <1>1, <2>4 DEF RowGood, HasRead
    <2> QED BY <1>1, <2>3, <2>5, <2>6, WorkStep
  <1> QED BY <1>2, <1>3

\* The temporary file becomes the target: it holds what every writer has
\* published, and the row of this one.
LEMMA PublishStep ==
  ASSUME FInv, NEW w \in Writers, fw[w].at = "publish", Published(w), NEW job \in Doing,
         fw' = [fw EXCEPT ![w] = job],
         (job.at = "unlock" /\ job.says = "written") \/ (job.at = "tidy" /\ job.says = "none"),
         job.tries = fw[w].tries, job.object = fw[w].object,
         temps' \subseteq temps,
         UNCHANGED <<lockTable, lockOwner, lockObjects, lockFile, kernelLock>>,
         fw[w].saw # 0 \/ destination.id = 0
  PROVE  FInv'
  <1>1. /\ fw[w] \in Doing /\ fw[w].copy \in Seq(FileRecord) /\ fw[w].tries \in Nat
        /\ RowGood(w, destination, fw[w]) /\ TempGood(w, temps, fw[w])
        /\ destination.rows \in Seq(FileRecord) /\ identities \in Nat
    BY DEF FInv, FileType, Doing
  <1>2. FileRow(w) \in FileRecord
    BY <1>1 DEF FileRow, FileRecord
  <1>3. /\ Append(fw[w].copy, FileRow(w)) \in Seq(FileRecord)
        /\ Range(Append(fw[w].copy, FileRow(w))) = Range(fw[w].copy) \cup {FileRow(w)}
    BY <1>1, <1>2, FileRowsAppend
  <1>4. destination' = [id |-> identities + 1, rows |-> Append(fw[w].copy, FileRow(w))]
        /\ identities' = identities + 1
    BY DEF Published
  <1>5. /\ destination' \in [id : Nat, rows : Seq(FileRecord)] /\ identities' \in Nat
        /\ destination'.id # 0 /\ destination'.rows = Append(fw[w].copy, FileRow(w))
    BY <1>1, <1>3, <1>4
  <1>6. SameRows(fw[w].copy, destination.rows)
    <2>1. HasRead(w, fw[w])
      BY DEF HasRead
    <2>2. CASE fw[w].saw # 0
      BY <1>1, <2>1, <2>2 DEF RowGood
    <2>3. CASE fw[w].saw = 0
      <3>1. fw[w].copy = <<>> /\ destination.rows = <<>>
        BY <1>1, <2>1, <2>3 DEF RowGood, FInv
      <3> QED BY <3>1 DEF SameRows
    <2> QED BY <2>2, <2>3
  <1>7. \A v \in Writers, k \in Nat :
          <<v, k>> \in Range(destination'.rows) <=>
            <<v, k>> \in Range(destination.rows) \/ (v = w /\ k = fw[w].tries)
    <2>1. Range(destination'.rows) = Range(fw[w].copy) \cup {FileRow(w)}
      BY <1>3, <1>5
    <2>2. \A v \in Writers, k \in Nat : <<v, k>> = FileRow(w) <=> v = w /\ k = fw[w].tries
      BY DEF FileRow
    <2>3. \A v \in Writers, k \in Nat :
            <<v, k>> \in Range(fw[w].copy) <=> <<v, k>> \in Range(destination.rows)
      BY <1>6 DEF SameRows
    <2> QED BY <2>1, <2>2, <2>3
  <1>8. \A v \in Writers : fw'[v] = IF v = w THEN job ELSE fw[v]
    BY DEF FInv, FileType
  <1>9. LocksTrue'
    BY LockFrame DEF Holding, Inside
  <1>10. FileType'
    BY <1>5 DEF FInv, FileType
  <1>11. ASSUME NEW v \in Writers PROVE TempGood(v, temps', fw'[v])
    <2>1. CASE v = w
      BY <1>1, <1>8, <2>1 DEF TempGood
    <2>2. CASE v # w
      <3>1. TempGood(v, temps, fw[v]) /\ fw'[v] = fw[v]
        BY <1>8, <2>2 DEF FInv
      <3> QED BY <3>1 DEF TempGood
    <2> QED BY <2>1, <2>2
  <1>12. ASSUME NEW v \in Writers PROVE RowGood(v, destination', fw'[v])
    <2>1. CASE v = w
      <3>1. \A k \in Nat : <<w, k>> \in Range(destination.rows) => k <= fw[w].tries
        BY <1>1 DEF RowGood
      <3>2. /\ \A k \in Nat : <<w, k>> \in Range(destination'.rows) => k <= job.tries
            /\ <<w, job.tries>> \in Range(destination'.rows)
        BY <1>1, <1>7, <3>1
      <3>3. RowGood(w, destination', job)
        BY <3>2 DEF RowGood, HasRead, Before
      <3> QED BY <1>8, <2>1, <3>3
    <2>2. CASE v # w
      <3>1. /\ fw'[v] = fw[v] /\ RowGood(v, destination, fw[v]) /\ fw[v].tries \in Nat
            /\ fw[w].at \in Inside <=> kernelLock = w
            /\ fw[v].at \in Inside <=> kernelLock = v
        BY <1>8, <2>2, SMTT(30) DEF FInv, FileType, Doing, LocksTrue
      <3>2. ~HasRead(v, fw[v])
        BY <2>2, <3>1 DEF HasRead, Inside
      <3>3. \A k \in Nat :
              <<v, k>> \in Range(destination'.rows) <=> <<v, k>> \in Range(destination.rows)
        BY <1>7, <2>2
      <3> QED BY <3>1, <3>2, <3>3 DEF RowGood
    <2> QED BY <2>1, <2>2
  <1> QED BY <1>5, <1>9, <1>10, <1>11, <1>12 DEF FInv

LEMMA PublicationSteps ==
  ASSUME FInv, NEW w \in Writers, Replace(w) \/ LinkNew(w)
  PROVE  FInv'
  <1>1. fw[w].at = "publish" /\ fw[w] \in Doing /\ fw[w].says = "none"
    BY DEF Replace, LinkNew, At, FInv, FileType, RowGood, Before
  <1>2. CASE Abort(w, "not committed")
    BY <1>1, <1>2, AbortStep
  <1>3. CASE Replace(w) /\ ~Abort(w, "not committed")
    <2> DEFINE job == [fw[w] EXCEPT !.at = "unlock", !.says = "written"]
    <2>1. /\ fw' = [fw EXCEPT ![w] = job] /\ temps' \subseteq temps /\ Published(w)
          /\ UNCHANGED <<lockTable, lockOwner, lockObjects, lockFile, kernelLock>>
          /\ fw[w].saw # 0
      BY <1>3 DEF Replace, lockVars
    <2>2. job \in Doing
      BY <1>1 DEF Doing, Phases, Says, Inside
    <2>3. /\ job.at = "unlock" /\ job.says = "written"
          /\ job.object = fw[w].object /\ job.tries = fw[w].tries
      BY <1>1 DEF Doing
    <2> HIDE DEF job
    <2> QED BY <1>1, <2>1, <2>2, <2>3, PublishStep
  <1>4. CASE LinkNew(w) /\ ~Abort(w, "not committed")
    <2> DEFINE job == [fw[w] EXCEPT !.at = "tidy"]
    <2>1. /\ fw' = [fw EXCEPT ![w] = job] /\ temps' = temps /\ Published(w)
          /\ UNCHANGED <<lockTable, lockOwner, lockObjects, lockFile, kernelLock>>
          /\ destination.id = 0
      BY <1>4 DEF LinkNew, Moves, lockVars
    <2>2. job \in Doing
      BY <1>1 DEF Doing, Phases, Inside
    <2>3. /\ job.at = "tidy" /\ job.says = "none"
          /\ job.object = fw[w].object /\ job.tries = fw[w].tries
      BY <1>1 DEF Doing
    <2> HIDE DEF job
    <2> QED BY <1>1, <2>1, <2>2, <2>3, PublishStep
  <1> QED BY <1>2, <1>3, <1>4

LEMMA TidyStep ==
  ASSUME FInv, NEW w \in Writers, Tidy(w)
  PROVE  FInv'
  <1> DEFINE job == [fw[w] EXCEPT !.at = "unlock", !.says = "written"]
  <1>1. fw[w].at = "tidy" /\ fw[w] \in Doing /\ RowGood(w, destination, fw[w])
    BY DEF Tidy, At, FInv, FileType
  <1>2. /\ fw' = [fw EXCEPT ![w] = job] /\ temps' \subseteq temps
        /\ UNCHANGED <<lockTable, lockOwner, lockObjects, lockFile, kernelLock, destination,
                       identities>>
    BY DEF Tidy, lockVars
  <1>3. job \in Doing
    BY <1>1 DEF Doing, Phases, Says, Inside
  <1>4. /\ job.at = "unlock" /\ job.says = "written"
        /\ job.object = fw[w].object /\ job.tries = fw[w].tries
    BY <1>1 DEF Doing
  <1> HIDE DEF job
  <1>5. RowGood(w, destination, job)
    BY <1>1, <1>4 DEF RowGood, HasRead, Before
  <1> QED BY <1>1, <1>2, <1>3, <1>4, <1>5, InnerStep DEF FInv, FileType, Holding, Inside

\* A program without the lock adds a row: what the writers have published stays.
LEMMA ForeignStep ==
  ASSUME FInv, ForeignEdit, troubles \in Nat
  PROVE  FInv'
  <1>1. destination.rows \in Seq(FileRecord) /\ identities \in Nat
        /\ UNCHANGED <<lockTable, lockOwner, lockObjects, lockFile, kernelLock, fw, temps>>
    BY DEF FInv, FileType, ForeignEdit, lockVars
  <1>2. <<"edit", troubles>> \in FileRecord
    BY DEF FileRecord
  <1> DEFINE rows == Append(destination.rows, <<"edit", troubles>>)
  <1>3. rows \in Seq(FileRecord) /\ Range(rows) = Range(destination.rows) \cup {<<"edit", troubles>>}
    BY <1>1, <1>2, FileRowsAppend
  <1> HIDE DEF rows
  <1>4. destination' = [id |-> identities + 1, rows |-> rows] /\ identities' = identities + 1
    BY DEF ForeignEdit, rows
  <1>5. /\ destination' \in [id : Nat, rows : Seq(FileRecord)] /\ identities' \in Nat
        /\ destination'.id # 0 /\ destination'.rows = rows
    BY <1>1, <1>3, <1>4
  <1>6. SameRows(destination'.rows, destination.rows)
    BY <1>3, <1>5, FileConstants DEF SameRows
  <1>7. FileType'
    BY <1>1, <1>5 DEF FInv, FileType
  <1>8. LocksTrue'
    <2>1. \A p : Users(p)' = Users(p)
      BY <1>1 DEF Users, At
    <2> QED BY <1>1 DEF FInv, LocksTrue, LockTableTrue, At
  <1>9. ASSUME NEW w \in Writers PROVE RowGood(w, destination', fw'[w])
    <2>1. RowGood(w, destination, fw[w]) /\ fw'[w] = fw[w] /\ fw[w].tries \in Nat
      BY <1>1 DEF FInv, FileType, Doing
    <2> QED BY <1>6, <2>1 DEF RowGood, SameRows
  <1> QED BY <1>1, <1>5, <1>7, <1>8, <1>9 DEF FInv

FileInv == FInv /\ troubles \in Nat

\* Every step of every writer, process and foreign program keeps the invariant.
LEMMA FileInvStep == FileInv /\ [FileNext]_fileVars => FileInv'
  <1> SUFFICES ASSUME FileInv, [FileNext]_fileVars PROVE FileInv'
    OBVIOUS
  <1>1. FInv
    BY DEF FileInv
  <1>2. troubles' \in Nat
    <2>1. troubles' \in {troubles, troubles + 1}
      BY DEF FileNext, fileVars, Trouble, Begin, AcquireThread, ThreadTimeout, OpenLock,
             PublishLock, TryLock, FileTimeout, Unlock, ReleaseThread, Dereference, Inspect,
             Prepare, ReadRows, VerifySource, Replace, LinkNew, Tidy, ForeignEdit, ProcessDies
    <2> QED BY <2>1 DEF FileInv
  <1>3. ASSUME NEW w \in Writers,
               \/ Begin(w) \/ AcquireThread(w) \/ ThreadTimeout(w) \/ OpenLock(w)
               \/ PublishLock(w) \/ TryLock(w) \/ FileTimeout(w) \/ Unlock(w)
               \/ ReleaseThread(w) \/ Dereference(w)
        PROVE  FInv'
    BY <1>1, <1>3, BeginStep, CrossLock, LockWaits, DereferenceStep
  <1>4. ASSUME NEW w \in Writers,
               \/ Inspect(w) \/ Prepare(w) \/ ReadRows(w) \/ VerifySource(w)
               \/ Replace(w) \/ LinkNew(w) \/ Tidy(w)
        PROVE  FInv'
    BY <1>1, <1>4, InspectStep, PrepareStep, ReadStep, VerifyStep, PublicationSteps, TidyStep
  <1>5. CASE ForeignEdit
    BY <1>1, <1>2, <1>5, ForeignStep DEF FileInv
  <1>6. CASE \E p \in Processes : ProcessDies(p)
    BY <1>1, <1>2, <1>6, DeathStep DEF FileInv
  <1>7. CASE UNCHANGED fileVars
    <2>1. FileType' /\ LocksTrue'
      <3>1. UNCHANGED <<lockTable, lockOwner, lockObjects, lockFile, kernelLock, destination,
                        identities, fw>>
        BY <1>7 DEF fileVars
      <3>2. FileType'
        BY <1>1, <3>1 DEF FInv, FileType
      <3>3. LockTableTrue' <=> LockTableTrue
        BY <3>1 DEF LockTableTrue, At
      <3> QED BY <1>1, <3>1, <3>2, <3>3 DEF FInv, LocksTrue
    <2>2. fw' = fw /\ temps' = temps /\ destination' = destination
      BY <1>7 DEF fileVars
    <2> QED BY <1>1, <1>2, <2>1, <2>2 DEF FileInv, FInv
  <1> QED BY <1>2, <1>3, <1>4, <1>5, <1>6, <1>7 DEF FileNext, FileInv

LEMMA FileInvAlways == FileSpec => []FileInv
  <1>1. FileInit => FileInv
    BY FInvInit DEF FileInv, FileInit
  <1> QED BY <1>1, FileInvStep, PTL DEF FileSpec

\* exclusive_path_lock: for any number of processes and threads, whatever times
\* out, fails or dies, one writer at a time is inside the lock, all threads of a
\* process use one lock object, and at rest nothing is held.
THEOREM LockIsSafe == FileSpec => []LockSafe
  <1>1. FileInv => LockSafe
    BY FInvIsSafe DEF FileInv
  <1> QED BY <1>1, FileInvAlways, PTL

\* Only the writer that links the file changes both the file and its own phase,
\* and it does so when there is none.
LEMMA CreatedStep == FileInv /\ [FileNext]_fileVars => [CreatedIsKept]_fileVars
  <1> SUFFICES ASSUME FileInv, FileNext, NEW w \in Writers, fw[w].saw = 0, At(w, "publish"),
                      destination' # destination, fw'[w].at # "publish"
               PROVE  destination.id = 0
    BY DEF CreatedIsKept
  <1>1. PICK v \in Writers : Replace(v) \/ LinkNew(v)
    BY ZenonT(60) DEF FileNext, Begin, AcquireThread, ThreadTimeout, OpenLock, PublishLock, TryLock,
           FileTimeout, Unlock, ReleaseThread, Dereference, Inspect, Prepare, ReadRows,
           VerifySource, Tidy, ForeignEdit, ProcessDies, Abort, At
  <1>2. CASE v # w
    <2>1. \E job : fw' = [fw EXCEPT ![v] = job]
      BY <1>1 DEF Replace, LinkNew, Abort, Moves
    <2>2. fw'[w] = fw[w]
      BY <1>2, <2>1 DEF FileInv, FInv, FileType
    <2> QED BY <2>2 DEF At
  <1>3. CASE v = w
    BY <1>1, <1>3 DEF Replace, LinkNew, Abort
  <1> QED BY <1>2, <1>3

\* atomic_text_writer and write_records: what a writer was told about its record
\* stays true for good, and a writer that found no file never replaces one.
THEOREM PublicationIsTrue == FileSpec => PublicationTrue
  <1>1. FileInv => VerdictTrue
    BY FInvIsTrue DEF FileInv
  <1>2. VerdictTrue' /\ [CreatedIsKept]_fileVars => [VerdictTrue' /\ CreatedIsKept]_fileVars
    OBVIOUS
  <1> QED BY <1>1, <1>2, FileInvAlways, CreatedStep, PTL DEF FileSpec, PublicationTrue

-----------------------------------------------------------------------------
(***************************************************************************)
(* The audit trail. A row's hash commits to the events appended up to its  *)
(* number and its previous hash to the ones before, and neither changes    *)
(* when rows are lost or altered: a row that verifies therefore tells the  *)
(* event that was appended under its number, and rows without a gap tell   *)
(* the beginning of the trail. The usage metadata is the number and the    *)
(* sum of the rows, so a count that equals the last number, which a new    *)
(* row follows, leaves no row missing. The sum over a table is a recursive *)
(* function: it is shown to be defined, and to add up, by induction over a *)
(* set.                                                                    *)
(***************************************************************************)

-----------------------------------------------------------------------------
(* Least and largest numbers, induction                                    *)

\* Every non-empty set of natural numbers has a least element.
LEMMA LeastOne ==
  ASSUME NEW T \in SUBSET Nat, T # {}
  PROVE  \E x \in T : \A y \in T : x <= y
  <1> DEFINE R == OpToRel(<, Nat)
  <1>1. IsWellFoundedOn(R, Nat)
    BY NatLessThanWellFounded
  <1>2. \A a, b \in Nat : a < b => <<a, b>> \in R
    BY DEF OpToRel
  <1> HIDE DEF R
  <1>3. PICK x \in T : \A y \in T : ~ (<<y, x>> \in R)
    BY <1>1, WFMin
  <1>4. ASSUME NEW y \in T, y < x PROVE FALSE
    <2>1. <<y, x>> \in R
      BY <1>2, <1>4
    <2> QED BY <1>3, <2>1
  <1> QED BY <1>3, <1>4

\* A set of numbers that has a bound has a largest element.
LEMMA LargestOne ==
  ASSUME NEW T \in SUBSET Nat, T # {}, NEW b \in Nat, \A y \in T : y <= b
  PROVE  Max(T) \in T /\ \A y \in T : Max(T) >= y
  <1> DEFINE Bounds == {c \in Nat : \A y \in T : y <= c}
  <1>1. PICK c \in Bounds : \A d \in Bounds : c <= d
    <2>1. Bounds \in SUBSET Nat /\ b \in Bounds
      OBVIOUS
    <2> QED BY <2>1, LeastOne
  <1>2. c \in Nat /\ \A y \in T : y <= c
    BY <1>1
  <1>3. c \in T
    <2> SUFFICES ASSUME c \notin T PROVE FALSE
      OBVIOUS
    <2>1. PICK z \in T : TRUE
      OBVIOUS
    <2>2. z \in Nat /\ z <= c /\ z # c
      BY <1>2, <2>1
    <2>3. c - 1 \in Nat
      BY <1>2, <2>2
    <2>4. \A y \in T : y <= c - 1
      BY <1>2
    <2>5. c - 1 \in Bounds
      BY <2>3, <2>4
    <2> HIDE DEF Bounds
    <2> QED BY <1>1, <1>2, <2>3, <2>5
  <1>4. \E x \in T : \A y \in T : x >= y
    <2>1. \A y \in T : c >= y
      BY <1>2
    <2> QED BY <1>3, <2>1
  <1> QED BY <1>4 DEF Max

\* Induction, over a set.
LEMMA SetInduction ==
  ASSUME NEW S, 0 \in S, \A n \in Nat : n \in S => n + 1 \in S
  PROVE  Nat \subseteq S
  <1> SUFFICES ASSUME Nat \ S # {} PROVE FALSE
    OBVIOUS
  <1>1. PICK x \in Nat \ S : \A y \in Nat \ S : x <= y
    BY LeastOne
  <1>2. x # 0 /\ x - 1 \in Nat
    BY <1>1
  <1>3. x - 1 \in S
    BY <1>1, <1>2
  <1> QED BY <1>1, <1>2, <1>3

-----------------------------------------------------------------------------
(* The sum over a table                                                    *)

\* What a table holds at a number.
BytesAt(rows, n) == IF n \in DOMAIN rows THEN RowBytes(rows[n]) ELSE 0

NextTotal(g, rows, n) ==
    IF n = 0 THEN 0
    ELSE g[n - 1] + IF n \in DOMAIN rows THEN RowBytes(rows[n]) ELSE 0

IsTotals(g, rows, m) == g = [n \in 0..m |-> NextTotal(g, rows, n)]

LEMMA TotalsDefined ==
  ASSUME NEW rows, NEW m \in Nat
  PROVE  \E g : IsTotals(g, rows, m)
  <1> DEFINE S == {k \in Nat : \E g : IsTotals(g, rows, k)}
  <1>1. 0 \in S
    <2> DEFINE g == [n \in 0..0 |-> 0]
    <2>1. IsTotals(g, rows, 0)
      BY DEF IsTotals, NextTotal
    <2> QED BY <2>1
  <1>2. ASSUME NEW k \in Nat, k \in S PROVE k + 1 \in S
    <2>1. PICK g : IsTotals(g, rows, k)
      BY <1>2
    <2> DEFINE h == [n \in 0..k + 1 |-> NextTotal(g, rows, n)]
    <2>2. \A n \in 0..k : h[n] = g[n]
      <3>1. \A n \in 0..k : g[n] = NextTotal(g, rows, n)
        BY <2>1 DEF IsTotals
      <3>2. \A n \in 0..k : n \in 0..k + 1
        OBVIOUS
      <3> QED BY <3>1, <3>2
    <2>3. \A n \in 0..k + 1 : NextTotal(h, rows, n) = NextTotal(g, rows, n)
      <3> HIDE DEF h
      <3>1. \A n \in 0..k + 1 : n # 0 => n - 1 \in 0..k
        OBVIOUS
      <3> QED BY <2>2, <3>1 DEF NextTotal
    <2>4. IsTotals(h, rows, k + 1)
      BY <2>3 DEF IsTotals
    <2> HIDE DEF h
    <2> QED BY <2>4
  <1>3. Nat \subseteq S
    <2> HIDE DEF S
    <2> QED BY <1>1, <1>2, SetInduction
  <1> QED BY <1>3

\* A table whose rows are numbered up to N and have a size each.
Sized(rows, N) ==
    /\ DOMAIN rows \subseteq 1..N
    /\ \A n \in DOMAIN rows : RowBytes(rows[n]) \in Nat

LEMMA LastSequenceIs ==
  ASSUME NEW rows, NEW N \in Nat, DOMAIN rows \subseteq 1..N
  PROVE  /\ LastSequence(rows) \in 0..N
         /\ LastSequence(rows) = 0 \/ LastSequence(rows) \in DOMAIN rows
         /\ \A n \in DOMAIN rows : n <= LastSequence(rows)
  <1> DEFINE T == {0} \cup DOMAIN rows
  <1>1. T \in SUBSET Nat /\ T # {} /\ \A y \in T : y <= N
    OBVIOUS
  <1>2. Max(T) \in T /\ \A y \in T : Max(T) >= y
    <2> HIDE DEF T
    <2> QED BY <1>1, LargestOne
  <1>3. LastSequence(rows) = Max(T)
    BY DEF LastSequence
  <1>4. PICK x \in T : x = Max(T)
    BY <1>2
  <1>5. x \in 0..N /\ (x = 0 \/ x \in DOMAIN rows) /\ \A n \in DOMAIN rows : n <= x
    BY <1>1, <1>2, <1>4
  <1> QED BY <1>3, <1>4, <1>5

\* The totals up to any number that no row exceeds, with the sum at its end.
Totals(g, rows, N) ==
    /\ g[0] = 0
    /\ \A n \in 0..N : g[n] \in Nat
    /\ \A n \in 1..N : g[n] = g[n - 1] + BytesAt(rows, n)
    /\ g[N] = BytesIn(rows)

LEMMA TotalsOf ==
  ASSUME NEW rows, NEW N \in Nat, Sized(rows, N)
  PROVE  \E g : Totals(g, rows, N)
  <1> DEFINE last == LastSequence(rows)
             f == CHOOSE g : IsTotals(g, rows, last)
  <1>1. /\ last \in 0..N /\ last \in Nat
        /\ \A n \in DOMAIN rows : n <= last
    BY LastSequenceIs DEF Sized
  <1>2. IsTotals(f, rows, last)
    <2> HIDE DEF last
    <2>1. \E g : IsTotals(g, rows, last)
      BY <1>1, TotalsDefined
    <2> QED BY <2>1
  <1>3. BytesIn(rows) = f[last]
    BY DEF BytesIn, IsTotals, NextTotal
  <1> HIDE DEF f, last
  <1>4. PICK h : IsTotals(h, rows, N)
    BY TotalsDefined
  <1>5. \A n \in 0..N : h[n] = NextTotal(h, rows, n)
    BY <1>4 DEF IsTotals
  <1>6. \A n \in 0..last : f[n] = NextTotal(f, rows, n)
    BY <1>2 DEF IsTotals
  <1>7. h[0] = 0 /\ f[0] = 0
    BY <1>1, <1>5, <1>6 DEF NextTotal
  <1>8. \A n \in 1..N : h[n] = h[n - 1] + BytesAt(rows, n)
    BY <1>5 DEF NextTotal, BytesAt
  <1>9. \A n \in 1..last : f[n] = f[n - 1] + BytesAt(rows, n)
    BY <1>1, <1>6 DEF NextTotal, BytesAt
  <1>10. \A n \in 1..N : /\ BytesAt(rows, n) \in Nat
                         /\ n > last => BytesAt(rows, n) = 0
    BY <1>1 DEF BytesAt, Sized
  <1> DEFINE Good(n) == /\ h[n] \in Nat
                        /\ n <= last => h[n] = f[n]
                        /\ n >= last => h[n] = f[last]
             S == {n \in Nat : n <= N => Good(n)}
  <1>11. 0 \in S
    BY <1>1, <1>7
  <1>12. ASSUME NEW n \in Nat, n \in S PROVE n + 1 \in S
    <2> SUFFICES ASSUME n + 1 <= N PROVE Good(n + 1)
      OBVIOUS
    <2>1. Good(n)
      BY <1>12
    <2>2. n + 1 \in 1..N /\ (n + 1) - 1 = n
      OBVIOUS
    <2>3. PICK b \in Nat : b = BytesAt(rows, n + 1) /\ (n + 1 > last => b = 0)
      BY <1>10, <2>2
    <2>4. h[n + 1] = h[n] + b
      BY <1>8, <2>2, <2>3
    <2>5. PICK x \in Nat : x = h[n]
      BY <2>1
    <2>6. h[n + 1] \in Nat
      BY <2>3, <2>4, <2>5
    <2>7. CASE n + 1 <= last
      <3>1. n + 1 \in 1..last /\ n <= last
        BY <1>1, <2>7
      <3>2. f[n + 1] = f[n] + b
        BY <1>9, <2>2, <2>3, <3>1
      <3>3. h[n + 1] = f[n + 1]
        BY <2>1, <2>4, <3>1, <3>2
      <3>4. n + 1 >= last => n + 1 = last
        BY <1>1, <2>7
      <3> QED BY <2>6, <3>3, <3>4
    <2>8. CASE n + 1 > last
      <3>1. b = 0 /\ n >= last /\ ~(n + 1 <= last)
        BY <1>1, <2>3, <2>8
      <3>2. h[n + 1] = h[n]
        BY <2>4, <2>5, <3>1
      <3> QED BY <2>1, <2>6, <3>1, <3>2
    <2>9. n + 1 <= last \/ n + 1 > last
      BY <1>1
    <2> QED BY <2>7, <2>8, <2>9
  <1>13. Nat \subseteq S
    <2> HIDE DEF S
    <2> QED BY <1>11, <1>12, SetInduction
  <1>14. \A n \in 0..N : Good(n)
    <2> HIDE DEF Good
    <2> QED BY <1>13
  <1>15. h[N] = f[last] /\ \A n \in 0..N : h[n] \in Nat
    BY <1>1, <1>14
  <1> QED BY <1>3, <1>7, <1>8, <1>15 DEF Totals

\* Sums of tables whose sizes add up add up.
LEMMA BytesAdd ==
  ASSUME NEW a, NEW b, NEW c, NEW N \in Nat,
         Sized(a, N), Sized(b, N), Sized(c, N),
         \A n \in 1..N : BytesAt(c, n) = BytesAt(a, n) + BytesAt(b, n)
  PROVE  BytesIn(c) = BytesIn(a) + BytesIn(b)
  <1>1. PICK f : Totals(f, a, N)
    BY TotalsOf
  <1>2. PICK g : Totals(g, b, N)
    BY TotalsOf
  <1>3. PICK h : Totals(h, c, N)
    BY TotalsOf
  <1> DEFINE S == {n \in Nat : n <= N => h[n] = f[n] + g[n]}
  <1>4. 0 \in S
    BY <1>1, <1>2, <1>3 DEF Totals
  <1>5. ASSUME NEW n \in Nat, n \in S PROVE n + 1 \in S
    <2> SUFFICES ASSUME n + 1 <= N PROVE h[n + 1] = f[n + 1] + g[n + 1]
      OBVIOUS
    <2>1. h[n] = f[n] + g[n]
      BY <1>5
    <2>2. n + 1 \in 1..N /\ n \in 0..N /\ (n + 1) - 1 = n
      OBVIOUS
    <2>3. PICK x \in Nat : x = BytesAt(a, n + 1)
      BY <2>2 DEF BytesAt, Sized
    <2>4. PICK y \in Nat : y = BytesAt(b, n + 1)
      BY <2>2 DEF BytesAt, Sized
    <2>5. BytesAt(c, n + 1) = x + y
      BY <2>2, <2>3, <2>4
    <2>6. f[n + 1] = f[n] + x /\ g[n + 1] = g[n] + y /\ h[n + 1] = h[n] + (x + y)
      BY <1>1, <1>2, <1>3, <2>2, <2>3, <2>4, <2>5 DEF Totals
    <2>7. f[n] \in Nat /\ g[n] \in Nat
      BY <1>1, <1>2, <2>2 DEF Totals
    <2> QED BY <2>1, <2>3, <2>4, <2>6, <2>7
  <1>6. Nat \subseteq S
    <2> HIDE DEF S
    <2> QED BY <1>4, <1>5, SetInduction
  <1>7. h[N] = f[N] + g[N]
    BY <1>6
  <1> QED BY <1>1, <1>2, <1>3, <1>7 DEF Totals

LEMMA BytesNat ==
  ASSUME NEW rows, NEW N \in Nat, Sized(rows, N)
  PROVE  BytesIn(rows) \in Nat
  <1>1. PICK g : Totals(g, rows, N)
    BY TotalsOf
  <1> QED BY <1>1 DEF Totals

\* The sum over one row.
LEMMA BytesOfOne ==
  ASSUME NEW n \in Nat \ {0}, NEW row, RowBytes(row) \in Nat
  PROVE  BytesIn([m \in {n} |-> row]) = RowBytes(row)
  <1> DEFINE rows == [m \in {n} |-> row]
  <1>1. DOMAIN rows = {n} /\ rows[n] = row
    OBVIOUS
  <1>2. BytesAt(rows, n) = RowBytes(row) /\ \A m : m # n => BytesAt(rows, m) = 0
    BY <1>1 DEF BytesAt
  <1>3. Sized(rows, n)
    BY <1>1 DEF Sized
  <1> HIDE DEF rows
  <1>4. PICK g : Totals(g, rows, n)
    BY <1>3, TotalsOf
  <1> DEFINE S == {k \in Nat : k < n => g[k] = 0}
  <1>5. 0 \in S
    BY <1>4 DEF Totals
  <1>6. ASSUME NEW k \in Nat, k \in S PROVE k + 1 \in S
    <2> SUFFICES ASSUME k + 1 < n PROVE g[k + 1] = 0
      OBVIOUS
    <2>1. g[k] = 0 /\ k + 1 \in 1..n /\ (k + 1) - 1 = k /\ k + 1 # n
      BY <1>6
    <2>2. g[k + 1] = g[k] + BytesAt(rows, k + 1)
      BY <1>4, <2>1 DEF Totals
    <2> QED BY <1>2, <2>1, <2>2
  <1>7. Nat \subseteq S
    <2> HIDE DEF S
    <2> QED BY <1>5, <1>6, SetInduction
  <1>8. g[n - 1] = 0 /\ n \in 1..n
    BY <1>7
  <1>9. g[n] = g[n - 1] + BytesAt(rows, n) /\ BytesIn(rows) = g[n]
    BY <1>4, <1>8 DEF Totals
  <1>10. BytesIn(rows) = RowBytes(row)
    BY <1>2, <1>8, <1>9
  <1> QED BY <1>10 DEF rows

\* A deleted row takes its size away, an altered one changes it.
LEMMA BytesWithout ==
  ASSUME NEW rows, NEW N \in Nat, Sized(rows, N), NEW n \in DOMAIN rows
  PROVE  /\ BytesIn([m \in DOMAIN rows \ {n} |-> rows[m]]) \in Nat
         /\ BytesIn(rows) = BytesIn([m \in DOMAIN rows \ {n} |-> rows[m]]) + RowBytes(rows[n])
  <1> DEFINE rest == [m \in DOMAIN rows \ {n} |-> rows[m]]
             one == [m \in {n} |-> rows[n]]
  <1>1. n \in 1..N /\ n \in Nat \ {0} /\ RowBytes(rows[n]) \in Nat
    BY DEF Sized
  <1>2. /\ DOMAIN rest = DOMAIN rows \ {n} /\ DOMAIN one = {n}
        /\ one[n] = rows[n] /\ \A m \in DOMAIN rest : rest[m] = rows[m]
    OBVIOUS
  <1>3. BytesIn(one) = RowBytes(rows[n])
    BY <1>1, BytesOfOne
  <1> HIDE DEF rest, one
  <1>4. Sized(rest, N) /\ Sized(one, N)
    BY <1>1, <1>2 DEF Sized
  <1>5. ASSUME NEW m \in 1..N PROVE BytesAt(rows, m) = BytesAt(rest, m) + BytesAt(one, m)
    <2>1. m \in DOMAIN rows => RowBytes(rows[m]) \in Nat
      BY DEF Sized
    <2>2. CASE m = n
      <3>1. BytesAt(rows, m) = RowBytes(rows[n]) /\ BytesAt(rest, m) = 0
            /\ BytesAt(one, m) = RowBytes(rows[n])
        BY <1>2, <2>2 DEF BytesAt
      <3> QED BY <1>1, <3>1
    <2>3. CASE m # n /\ m \in DOMAIN rows
      <3>1. BytesAt(rows, m) = RowBytes(rows[m]) /\ BytesAt(rest, m) = RowBytes(rows[m])
            /\ BytesAt(one, m) = 0
        BY <1>2, <2>3 DEF BytesAt
      <3> QED BY <2>1, <2>3, <3>1
    <2>4. CASE m # n /\ m \notin DOMAIN rows
      BY <1>2, <2>4 DEF BytesAt
    <2> QED BY <2>2, <2>3, <2>4
  <1>6. BytesIn(rows) = BytesIn(rest) + BytesIn(one)
    BY <1>4, <1>5, BytesAdd
  <1>7. BytesIn(rest) \in Nat
    BY <1>4, BytesNat
  <1> QED BY <1>3, <1>6, <1>7 DEF rest

-----------------------------------------------------------------------------
(* The invariant                                                           *)

AuditRecord ==
    [event : AuditEvents, previous : Seq(AuditEvents), hash : Seq(AuditEvents),
     signed : BOOLEAN]

AuditTyped ==
    /\ truth \in Seq(AuditEvents) /\ serial = Len(truth)
    /\ DOMAIN chain \subseteq 1..serial
    /\ \A n \in DOMAIN chain : chain[n] \in AuditRecord

\* A sequence of events is the first n of the trail.
Tells(s, n) == s \in Seq(AuditEvents) /\ Len(s) = n /\ \A i \in 1..n : s[i] = truth[i]

\* The hash of a row commits to the events up to it, whatever became of the
\* rows, and the hash before it to the events before it.
Committed ==
    \A n \in DOMAIN chain : Tells(chain[n].hash, n) /\ Tells(chain[n].previous, n - 1)

AnswerTold ==
    answer.ok => \E k \in 0..Len(truth) : Tells(answer.events, k)

AuditInv == AuditTyped /\ Committed /\ UsageTrue /\ AnswerTold

LEMMA RowSize ==
  ASSUME NEW row \in AuditRecord
  PROVE  RowBytes(row) \in Nat
  <1>1. EventBytes[row.event] \in Nat /\ SignatureBytes \in Nat
    BY AuditConstants DEF AuditRecord
  <1> QED BY <1>1 DEF RowBytes

LEMMA ChainSized ==
  ASSUME AuditTyped
  PROVE  /\ serial \in Nat /\ Sized(chain, serial)
         /\ IsFiniteSet(DOMAIN chain) /\ Cardinality(DOMAIN chain) \in Nat
  <1>1. serial \in Nat /\ DOMAIN chain \subseteq 1..serial
    BY DEF AuditTyped
  <1>2. Sized(chain, serial)
    BY <1>1, RowSize DEF AuditTyped, Sized
  <1>3. IsFiniteSet(1..serial)
    BY <1>1, FS_Interval
  <1> QED BY <1>1, <1>2, <1>3, FS_Subset, FS_CardinalityType

\* A shorter telling of the trail is a prefix of it.
LEMMA ToldIsPrefix ==
  ASSUME truth \in Seq(AuditEvents), NEW k \in 0..Len(truth), NEW s, Tells(s, k)
  PROVE  IsPrefix(s, truth)
  <1>1. Len(s) = k /\ Len(s) <= Len(truth) /\ k \in Nat /\ s \in Seq(AuditEvents)
    BY DEF Tells
  <1>2. SubSeq(s, 1, k) = [i \in 1..k |-> s[i]]
    BY <1>1
  <1>3. SubSeq(truth, 1, k) = [i \in 1..k |-> truth[i]]
    BY <1>1
  <1>4. \A i \in 1..k : s[i] = truth[i]
    BY DEF Tells
  <1>5. SubSeq(s, 1, k) = SubSeq(truth, 1, k)
    BY <1>2, <1>3, <1>4
  <1> QED BY <1>1, <1>5 DEF IsPrefix

LEMMA AuditInitInv == AuditInit => AuditInv
  <1> SUFFICES ASSUME AuditInit PROVE AuditInv
    OBVIOUS
  <1>1. PICK old \in {<<>>} \cup {<<e>> : e \in AuditEvents \ InvalidEvents} :
          /\ chain = [n \in 1..Len(old) |-> AuditRow(<<>>, old[n], FALSE)]
          /\ serial = Len(old) /\ truth = old
    BY DEF AuditInit
  <1>2. UsageTrue /\ AnswerTold
    BY DEF AuditInit, UsageTrue, AnswerTold, NoAnswer
  <1>3. CASE old = <<>>
    <2>1. DOMAIN chain = {} /\ serial = 0 /\ truth = <<>>
      BY <1>1, <1>3
    <2> QED BY <1>2, <2>1 DEF AuditInv, AuditTyped, Committed
  <1>4. ASSUME NEW e \in AuditEvents, old = <<e>> PROVE AuditInv
    <2>1. /\ Len(old) = 1 /\ old[1] = e /\ old \in Seq(AuditEvents)
          /\ <<>> \in Seq(AuditEvents) /\ Len(<<>>) = 0 /\ Append(<<>>, e) = <<e>>
      BY <1>4
    <2>2. /\ truth \in Seq(AuditEvents) /\ Len(truth) = 1 /\ truth[1] = e
          /\ serial = 1 /\ DOMAIN chain = {1}
          /\ chain[1] = [event |-> e, previous |-> <<>>, hash |-> <<e>>, signed |-> FALSE]
      <3>1. chain = [n \in 1..1 |-> AuditRow(<<>>, old[n], FALSE)]
        BY <1>1, <2>1
      <3>2. DOMAIN chain = {1} /\ chain[1] = AuditRow(<<>>, e, FALSE)
        <4>1. 1..1 = {1}
          OBVIOUS
        <4>2. chain[1] = AuditRow(<<>>, old[1], FALSE)
          BY <3>1
        <4> QED BY <2>1, <3>1, <4>1, <4>2
      <3>3. serial = 1 /\ truth = old
        BY <1>1, <2>1
      <3> QED BY <2>1, <3>2, <3>3 DEF AuditRow
    <2>3. chain[1] \in AuditRecord
      BY <1>4, <2>1, <2>2 DEF AuditRecord
    <2>4. AuditTyped
      <3>1. DOMAIN chain \subseteq 1..serial
        BY <2>2
      <3> QED BY <2>2, <2>3, <3>1 DEF AuditTyped
    <2>5. Tells(chain[1].hash, 1)
      BY <1>4, <2>1, <2>2 DEF Tells
    <2>6. Tells(chain[1].previous, 1 - 1)
      BY <2>1, <2>2 DEF Tells
    <2>7. Committed
      BY <2>2, <2>5, <2>6 DEF Committed
    <2> QED BY <1>2, <2>4, <2>7 DEF AuditInv
  <1> QED BY <1>1, <1>3, <1>4

-----------------------------------------------------------------------------
(* The steps                                                               *)

LEMMA InvTells ==
  ASSUME AuditInv
  PROVE  UsageTrue /\ VerifiedIsAppended
  <1>1. ASSUME answer.ok PROVE IsPrefix(answer.events, truth)
    <2>1. PICK k \in 0..Len(truth) : Tells(answer.events, k)
      BY <1>1 DEF AuditInv, AnswerTold
    <2> QED BY <2>1, ToldIsPrefix DEF AuditInv, AuditTyped
  <1> QED BY <1>1 DEF AuditInv, VerifiedIsAppended

LEMMA OpenStoreStep ==
  ASSUME AuditInv, OpenStore
  PROVE  AuditInv' /\ truth' = truth
  BY DEF AuditInv, OpenStore, AuditTyped, Committed, Tells, UsageTrue, AnswerTold

\* Rows that are all verified are without a gap, and each tells its event.
LEMMA VerifyChainStep ==
  ASSUME AuditInv, NEW needSigned \in BOOLEAN, VerifyChain(needSigned)
  PROVE  AuditInv' /\ truth' = truth
  <1>1. UNCHANGED <<chain, serial, usage, truth>>
    BY DEF VerifyChain
  <1>2. AuditTyped' /\ Committed' /\ UsageTrue'
    BY <1>1 DEF AuditInv, AuditTyped, Committed, Tells, UsageTrue
  <1> DEFINE size == Cardinality(DOMAIN chain)
  <1>3. AuditTyped /\ serial \in Nat /\ IsFiniteSet(DOMAIN chain) /\ size \in Nat
    BY ChainSized DEF AuditInv
  <1>4. AnswerTold'
    <2>1. CASE \A n \in DOMAIN chain : RowVerified(n, needSigned)
      <3>1. \A n \in DOMAIN chain : n \in Nat \ {0} /\ n <= serial
        BY <1>3 DEF AuditTyped
      <3>2. ASSUME NEW n \in DOMAIN chain PROVE n <= size
        <4> DEFINE below == {m \in DOMAIN chain : m < n}
        <4>1. below \subseteq DOMAIN chain \ {n}
          BY <3>1
        <4>2. /\ IsFiniteSet(DOMAIN chain \ {n})
              /\ Cardinality(DOMAIN chain \ {n}) = size - 1
          BY <1>3, <3>2, FS_RemoveElement
        <4>3. Cardinality(below) <= Cardinality(DOMAIN chain \ {n}) /\ IsFiniteSet(below)
          BY <4>1, <4>2, FS_Subset
        <4>4. n = 1 + Cardinality(below)
          BY <2>1, <3>2 DEF RowVerified
        <4>5. Cardinality(below) \in Nat
          BY <4>3, FS_CardinalityType
        <4> HIDE DEF below, size
        <4> QED BY <1>3, <4>2, <4>3, <4>4, <4>5
      <3>3. DOMAIN chain = 1..size
        <4>1. DOMAIN chain \subseteq 1..size
          BY <3>1, <3>2
        <4>2. IsFiniteSet(1..size) /\ Cardinality(1..size) = size
          <5> HIDE DEF size
          <5> QED BY <1>3, FS_Interval
        <4> QED BY <4>1, <4>2, FS_Subset
      <3>4. size <= serial
        <4>1. size = 0 \/ size \in DOMAIN chain
          <5> HIDE DEF size
          <5> QED BY <1>3, <3>3
        <4> QED BY <1>3, <3>1, <4>1
      <3>5. ASSUME NEW n \in 1..size PROVE chain[n].event \in AuditEvents /\ chain[n].event = truth[n]
        <4>1. n \in DOMAIN chain /\ n \in Nat /\ n >= 1 /\ chain[n] \in AuditRecord
          BY <1>3, <3>3 DEF AuditTyped
        <4>2. Tells(chain[n].hash, n) /\ Tells(chain[n].previous, n - 1)
          BY <4>1 DEF AuditInv, Committed
        <4>3. chain[n].hash = Append(chain[n].previous, chain[n].event)
          BY <2>1, <4>1 DEF RowVerified
        <4>4. chain[n].event \in AuditEvents
          BY <4>1 DEF AuditRecord
        <4>5. Append(chain[n].previous, chain[n].event)[(n - 1) + 1] = chain[n].event
          BY <4>2, <4>4 DEF Tells
        <4>6. chain[n].hash[n] = truth[n] /\ (n - 1) + 1 = n
          <5>1. n \in 1..n /\ (n - 1) + 1 = n
            BY <4>1
          <5>2. \A i \in 1..n : chain[n].hash[i] = truth[i]
            BY <4>2 DEF Tells
          <5> QED BY <5>1, <5>2
        <4> QED BY <4>3, <4>4, <4>5, <4>6
      <3> DEFINE told == [i \in 1..size |-> chain[i].event]
      <3>6. told \in Seq(AuditEvents) /\ Len(told) = size /\ \A i \in 1..size : told[i] = truth[i]
        <4>1. told \in [1..size -> AuditEvents] /\ \A i \in 1..size : told[i] = truth[i]
          BY <3>5
        <4> HIDE DEF told, size
        <4> QED BY <1>3, <4>1
      <3>7. answer' = [ok |-> TRUE, events |-> told]
        BY <2>1 DEF VerifyChain
      <3>8. answer'.events = told /\ size \in 0..Len(truth)
        BY <1>3, <3>4, <3>7 DEF AuditTyped
      <3> HIDE DEF told, size
      <3> QED BY <1>1, <3>6, <3>8 DEF AnswerTold, Tells
    <2>2. CASE ~ \A n \in DOMAIN chain : RowVerified(n, needSigned)
      BY <2>2 DEF VerifyChain, NoAnswer, AnswerTold
    <2> QED BY <2>1, <2>2
  <1> QED BY <1>1, <1>2, <1>4 DEF AuditInv

\* A lost row takes its size and its place from the usage, and no event.
LEMMA RowLostStep ==
  ASSUME AuditInv, NEW n \in DOMAIN chain, RowLost(n)
  PROVE  AuditInv' /\ truth' = truth
  <1>1. /\ chain' = [m \in DOMAIN chain \ {n} |-> chain[m]]
        /\ truth' = truth /\ serial' = serial /\ answer' = NoAnswer
    BY DEF RowLost
  <1>2. DOMAIN chain' = DOMAIN chain \ {n} /\ \A m \in DOMAIN chain' : chain'[m] = chain[m]
    BY <1>1
  <1>3. AuditTyped' /\ Committed'
    BY <1>1, <1>2 DEF AuditInv, AuditTyped, Committed, Tells
  <1>4. AnswerTold'
    BY <1>1 DEF AnswerTold, NoAnswer
  <1>5. /\ serial \in Nat /\ Sized(chain, serial)
        /\ IsFiniteSet(DOMAIN chain) /\ Cardinality(DOMAIN chain) \in Nat
    BY ChainSized DEF AuditInv
  <1>6. /\ BytesIn(chain') \in Nat
        /\ BytesIn(chain) = BytesIn(chain') + RowBytes(chain[n])
    <2>1. /\ BytesIn([m \in DOMAIN chain \ {n} |-> chain[m]]) \in Nat
          /\ BytesIn(chain) = BytesIn([m \in DOMAIN chain \ {n} |-> chain[m]]) + RowBytes(chain[n])
      BY <1>5, BytesWithout
    <2> QED BY <1>1, <2>1
  <1>7. Cardinality(DOMAIN chain') = Cardinality(DOMAIN chain) - 1
    BY <1>2, <1>5, FS_RemoveElement
  <1>8. RowBytes(chain[n]) \in Nat
    BY <1>5 DEF Sized
  <1>9. UsageTrue'
    <2>1. CASE usage = NoUsage
      <3>1. usage' = NoUsage
        BY <2>1 DEF RowLost
      <3> QED BY <3>1 DEF UsageTrue, NoUsage
    <2>2. CASE usage # NoUsage
      <3>1. usage = [count |-> Cardinality(DOMAIN chain), bytes |-> BytesIn(chain)]
        BY <2>2 DEF AuditInv, UsageTrue
      <3>2. usage' = [count |-> usage.count - 1, bytes |-> usage.bytes - RowBytes(chain[n])]
        BY <2>2 DEF RowLost, UsageAfterDelete
      <3>3. usage.count = Cardinality(DOMAIN chain) /\ usage.bytes = BytesIn(chain)
        BY <3>1
      <3>4. BytesIn(chain) - RowBytes(chain[n]) = BytesIn(chain')
        BY <1>6, <1>8
      <3> QED BY <1>7, <3>2, <3>3, <3>4 DEF UsageTrue
    <2> QED BY <2>1, <2>2
  <1> QED BY <1>1, <1>3, <1>4, <1>9 DEF AuditInv

\* An altered row keeps its hashes; the usage follows its size.
LEMMA RowAlteredStep ==
  ASSUME AuditInv, NEW n \in DOMAIN chain, NEW e \in AuditEvents, RowAltered(n, e)
  PROVE  AuditInv' /\ truth' = truth
  <1>1. /\ chain' = [chain EXCEPT ![n].event = e]
        /\ truth' = truth /\ serial' = serial /\ answer' = NoAnswer
    BY DEF RowAltered
  <1>2. /\ DOMAIN chain' = DOMAIN chain
        /\ \A m \in DOMAIN chain : m # n => chain'[m] = chain[m]
        /\ chain'[n] = [chain[n] EXCEPT !.event = e]
    BY <1>1
  <1>3. chain[n] \in AuditRecord
    BY DEF AuditInv, AuditTyped
  <1>4. /\ chain'[n] \in AuditRecord
        /\ chain'[n].hash = chain[n].hash /\ chain'[n].previous = chain[n].previous
    BY <1>2, <1>3 DEF AuditRecord
  <1>5. AuditTyped'
    <2>1. \A m \in DOMAIN chain' : chain'[m] \in AuditRecord
      BY <1>2, <1>4 DEF AuditInv, AuditTyped
    <2> QED BY <1>1, <1>2, <2>1 DEF AuditInv, AuditTyped
  <1>6. Committed'
    <2>1. \A m \in DOMAIN chain' : chain'[m].hash = chain[m].hash
                                   /\ chain'[m].previous = chain[m].previous
      BY <1>2, <1>4
    <2> QED BY <1>1, <1>2, <2>1 DEF AuditInv, Committed, Tells
  <1>7. AnswerTold'
    BY <1>1 DEF AnswerTold, NoAnswer
  <1>8. serial \in Nat /\ Sized(chain, serial)
    BY ChainSized DEF AuditInv
  <1>9. Sized(chain', serial)
    BY <1>2, <1>4, <1>8, RowSize DEF Sized
  <1>10. PICK rest : rest = [m \in DOMAIN chain \ {n} |-> chain[m]]
    OBVIOUS
  <1>11. BytesIn(rest) \in Nat /\ BytesIn(chain) = BytesIn(rest) + RowBytes(chain[n])
    <2>1. /\ BytesIn([m \in DOMAIN chain \ {n} |-> chain[m]]) \in Nat
          /\ BytesIn(chain) = BytesIn([m \in DOMAIN chain \ {n} |-> chain[m]]) + RowBytes(chain[n])
      BY <1>8, BytesWithout
    <2> QED BY <1>10, <2>1
  <1>12. BytesIn(chain') = BytesIn(rest) + RowBytes(chain'[n])
    <2>1. rest = [m \in DOMAIN chain' \ {n} |-> chain'[m]]
      BY <1>2, <1>10
    <2>2. PICK rows : rows = chain'
      OBVIOUS
    <2>3. Sized(rows, serial) /\ n \in DOMAIN rows
      BY <1>2, <1>9, <2>2
    <2>4. BytesIn(rows) = BytesIn([m \in DOMAIN rows \ {n} |-> rows[m]]) + RowBytes(rows[n])
      BY <1>8, <2>3, BytesWithout
    <2> QED BY <2>1, <2>2, <2>4
  <1>13. RowBytes(chain[n]) \in Nat /\ RowBytes(chain'[n]) \in Nat
    BY <1>3, <1>4, RowSize
  <1>14. UsageTrue'
    <2>1. CASE usage = NoUsage
      <3>1. usage' = NoUsage
        BY <2>1 DEF RowAltered
      <3> QED BY <3>1 DEF UsageTrue, NoUsage
    <2>2. CASE usage # NoUsage
      <3>1. usage = [count |-> Cardinality(DOMAIN chain), bytes |-> BytesIn(chain)]
        BY <2>2 DEF AuditInv, UsageTrue
      <3>2. usage' = [usage EXCEPT !.bytes = (@ - RowBytes(chain[n])) + RowBytes(chain'[n])]
        BY <2>2 DEF RowAltered, UsageAfterUpdate
      <3>3. usage' = [count |-> Cardinality(DOMAIN chain),
                      bytes |-> (BytesIn(chain) - RowBytes(chain[n])) + RowBytes(chain'[n])]
        BY <3>1, <3>2
      <3>4. (BytesIn(chain) - RowBytes(chain[n])) + RowBytes(chain'[n]) = BytesIn(chain')
        BY <1>11, <1>12, <1>13
      <3> QED BY <1>2, <3>3, <3>4 DEF UsageTrue
    <2> QED BY <2>1, <2>2
  <1> QED BY <1>1, <1>5, <1>6, <1>7, <1>14 DEF AuditInv

LEMMA IntervalEnds ==
  ASSUME NEW a \in Nat, NEW b \in Nat, a <= b
  PROVE  Min(a..b) = a /\ Max(a..b) = b
  <1>1. \A y \in a..b : a <= y /\ b >= y
    OBVIOUS
  <1>2. a \in a..b /\ b \in a..b
    OBVIOUS
  <1>3. \A x \in a..b : (\A y \in a..b : x <= y) => x = a
    BY <1>2
  <1>4. \A x \in a..b : (\A y \in a..b : x >= y) => x = b
    BY <1>2
  <1>5. Min(a..b) = a
    BY <1>1, <1>2, <1>3 DEF Min
  <1>6. Max(a..b) = b
    BY <1>1, <1>2, <1>4 DEF Max
  <1> QED BY <1>5, <1>6

LEMMA BatchesAre ==
  ASSUME NEW events \in BoundedSeq(AuditEvents, MaxBatch) \ {<<>>}
  PROVE  events \in Seq(AuditEvents) /\ Len(events) \in Nat \ {0}
  <1>1. MaxBatch \in Nat
    BY AuditConstants
  <1>2. PICK m \in 0..MaxBatch : events \in [1..m -> AuditEvents]
    BY DEF BoundedSeq, SeqOf
  <1>3. events \in Seq(AuditEvents) /\ Len(events) = m /\ m \in Nat
    BY <1>1, <1>2
  <1>4. m # 0
    <2> SUFFICES ASSUME m = 0 PROVE FALSE
      OBVIOUS
    <2>1. events = <<>>
      BY <1>3
    <2> QED BY <2>1
  <1> QED BY <1>3, <1>4

LEMMA Joined ==
  ASSUME NEW E, NEW s \in Seq(E), NEW t \in Seq(E), NEW k \in Nat, NEW m \in Nat,
         k = Len(s), m = Len(t)
  PROVE  /\ s \o t \in Seq(E) /\ Len(s \o t) = k + m
         /\ \A i \in 1..k : (s \o t)[i] = s[i]
         /\ \A i \in k + 1..k + m : (s \o t)[i] = t[i - k]
  OBVIOUS

RowCommits(p, h, new, k, events, j) ==
    /\ p \in Seq(AuditEvents) /\ Len(p) = k + j - 1
    /\ \A i \in 1..k + j - 1 : p[i] = new[i]
    /\ h \in Seq(AuditEvents) /\ Len(h) = k + j
    /\ \A i \in 1..k + j : h[i] = new[i]
    /\ new[k + j] = events[j]

\* A row of a batch commits to the trail before the batch, to the events of
\* the batch before its own and to its own.
LEMMA BatchRow ==
  ASSUME NEW t \in Seq(AuditEvents), NEW events \in Seq(AuditEvents), NEW previous \in Seq(AuditEvents),
         Len(previous) = Len(t), \A i \in 1..Len(t) : previous[i] = t[i],
         NEW j \in 1..Len(events), NEW p, p = previous \o SubSeq(events, 1, j - 1),
         NEW h, h = Append(p, events[j]), NEW new, new = t \o events
  PROVE  RowCommits(p, h, new, Len(t), events, j)
  <1> DEFINE part == SubSeq(events, 1, j - 1)
  <1>1. PICK k \in Nat : k = Len(t)
    OBVIOUS
  <1>2. /\ j \in Nat /\ j >= 1 /\ j <= Len(events) /\ Len(events) \in Nat
        /\ j - 1 \in Nat /\ events[j] \in AuditEvents
    OBVIOUS
  <1>3. part \in Seq(AuditEvents) /\ Len(part) = j - 1 /\ \A i \in 1..j - 1 : part[i] = events[i]
    BY <1>2
  <1>4. /\ new \in Seq(AuditEvents) /\ Len(new) = k + Len(events)
        /\ \A i \in 1..k : new[i] = t[i]
        /\ \A i \in k + 1..k + Len(events) : new[i] = events[i - k]
    BY <1>1, <1>2
  <1> HIDE DEF part
  <1>5. /\ p \in Seq(AuditEvents) /\ Len(p) = k + (j - 1)
        /\ \A i \in 1..k : p[i] = previous[i]
        /\ \A i \in k + 1..k + (j - 1) : p[i] = part[i - k]
    <2>1. previous \in Seq(AuditEvents) /\ k = Len(previous) /\ j - 1 = Len(part)
      BY <1>1, <1>3
    <2>2. PICK m \in Nat : m = j - 1
      BY <1>2
    <2>3. PICK q \in Seq(AuditEvents) : q = part
      BY <1>3
    <2>4. m = Len(q)
      BY <2>1, <2>2, <2>3
    <2>5. /\ previous \o q \in Seq(AuditEvents) /\ Len(previous \o q) = k + m
          /\ \A i \in 1..k : (previous \o q)[i] = previous[i]
          /\ \A i \in k + 1..k + m : (previous \o q)[i] = q[i - k]
      BY ONLY <2>1, <2>4, Joined, k \in Nat, m \in Nat, q \in Seq(AuditEvents), previous \in Seq(AuditEvents)
    <2>6. p = previous \o q
      BY <2>3 DEF part
    <2> QED BY ONLY <2>2, <2>3, <2>5, <2>6
  <1>6. ASSUME NEW i \in 1..k + (j - 1) PROVE p[i] = new[i]
    <2>1. CASE i \in 1..k
      BY <1>1, <1>4, <1>5, <2>1
    <2>2. CASE i \notin 1..k
      <3>1. /\ i \in k + 1..k + (j - 1) /\ i \in k + 1..k + Len(events)
            /\ i - k \in 1..j - 1
        <4>1. PICK l \in Nat : l = Len(events)
          BY <1>2
        <4>2. k \in Nat /\ l \in Nat /\ j \in Nat /\ j >= 1 /\ j <= l
          BY <1>1, <1>2, <4>1
        <4>3. /\ i \in k + 1..k + (j - 1) /\ i \in k + 1..k + l
              /\ i - k \in 1..j - 1
          BY ONLY <4>2, <2>2, i \in 1..k + (j - 1)
        <4> QED BY ONLY <4>1, <4>3
      <3> QED BY <1>3, <1>4, <1>5, <3>1
    <2> QED BY <2>1, <2>2
  <1>7. /\ h \in Seq(AuditEvents) /\ Len(h) = k + j
        /\ \A i \in 1..k + (j - 1) : h[i] = p[i]
        /\ h[k + j] = events[j]
    <2>1. h = Append(p, events[j]) /\ events[j] \in AuditEvents /\ k \in Nat /\ j - 1 \in Nat
      BY <1>1, <1>2
    <2>2. PICK m \in Nat : m = k + (j - 1)
      BY <2>1
    <2>3. Len(h) = m + 1 /\ h \in Seq(AuditEvents) /\ h[m + 1] = events[j] /\ \A i \in 1..m : h[i] = p[i]
      BY ONLY <1>5, <2>1, <2>2
    <2>4. m + 1 = k + j
      BY <1>2, <2>2
    <2> QED BY ONLY <2>2, <2>3, <2>4
  <1>8. new[k + j] = events[j]
    <2>1. k + j \in k + 1..k + Len(events) /\ (k + j) - k = j
      BY <1>1, <1>2
    <2> QED BY <1>4, <2>1
  <1>9. ASSUME NEW i \in 1..k + j PROVE h[i] = new[i]
    <2>1. i = k + j \/ i \in 1..k + (j - 1)
      BY <1>2, <1>9
    <2> QED BY <1>6, <1>7, <1>8, <2>1
  <1>10. Len(t) + j - 1 = k + (j - 1)
    BY <1>1, <1>2
  <1>11. /\ p \in Seq(AuditEvents) /\ Len(p) = Len(t) + j - 1
         /\ \A i \in 1..Len(t) + j - 1 : p[i] = new[i]
    BY <1>5, <1>6, <1>10
  <1>12. /\ h \in Seq(AuditEvents) /\ Len(h) = Len(t) + j
         /\ \A i \in 1..Len(t) + j : h[i] = new[i]
         /\ new[Len(t) + j] = events[j]
    BY <1>1, <1>7, <1>8, <1>9
  <1> QED BY ONLY <1>11, <1>12 DEF RowCommits

\* What an accepted batch finds: no number given out is missing at the end of
\* the chain or below it, so the rows are the trail, and the batch follows it.
LEMMA AcceptedBatch ==
  ASSUME AuditInv, NEW L \in Nat \ {0}, NEW added,
         DOMAIN added = serial + 1..serial + L,
         usage # NoUsage, UsageMatches, NumberedOn(added)
  PROVE  /\ LastSequence(chain) = serial
         /\ Cardinality(DOMAIN chain) = Len(truth)
         /\ usage = [count |-> Cardinality(DOMAIN chain), bytes |-> BytesIn(chain)]
  <1>1. serial \in Nat /\ DOMAIN chain \subseteq 1..serial /\ serial = Len(truth)
    BY DEF AuditInv, AuditTyped
  <1>2. LastSequence(chain) \in Nat
    BY <1>1, LastSequenceIs
  <1>3. Min(DOMAIN added) = serial + 1
    <2>1. serial + 1 \in Nat /\ serial + L \in Nat /\ serial + 1 <= serial + L
      BY <1>1
    <2> QED BY <2>1, IntervalEnds
  <1>4. LastSequence(chain) = serial
    BY <1>1, <1>2, <1>3 DEF NumberedOn
  <1>5. usage = [count |-> Cardinality(DOMAIN chain), bytes |-> BytesIn(chain)]
    BY DEF AuditInv, UsageTrue
  <1>6. usage.count = Cardinality(DOMAIN chain)
    BY <1>5
  <1> QED BY <1>1, <1>4, <1>5, <1>6 DEF UsageMatches

\* A row of a batch, at its place in the trail with the batch.
NewRow(row, n, w, events, new) ==
    /\ row \in AuditRecord /\ row.signed = Signs[w]
    /\ n - serial \in 1..Len(events)
    /\ row.event = events[n - serial] /\ new[n] = events[n - serial]
    /\ Len(row.previous) = n - 1 /\ row.previous \in Seq(AuditEvents)
    /\ \A i \in 1..n - 1 : row.previous[i] = new[i]
    /\ Len(row.hash) = n /\ row.hash \in Seq(AuditEvents)
    /\ \A i \in 1..n : row.hash[i] = new[i]

\* The rows an accepted batch adds.
LEMMA NewRowsAre ==
  ASSUME AuditInv, NEW w \in AuditWriters, NEW events \in Seq(AuditEvents),
         NEW previous, Tells(previous, serial), NEW added,
         added = NewRows(w, events, previous)
  PROVE  /\ DOMAIN added = serial + 1..serial + Len(events)
         /\ \A n \in DOMAIN added : NewRow(added[n], n, w, events, truth \o events)
  <1>1. /\ serial \in Nat /\ serial = Len(truth) /\ truth \in Seq(AuditEvents)
        /\ Len(events) \in Nat
    BY DEF AuditInv, AuditTyped
  <1>2. DOMAIN added = serial + 1..serial + Len(events)
    BY DEF NewRows
  <1>3. /\ previous \in Seq(AuditEvents) /\ Len(previous) = Len(truth)
        /\ \A i \in 1..Len(truth) : previous[i] = truth[i]
    BY <1>1 DEF Tells
  <1> SUFFICES ASSUME NEW n \in serial + 1..serial + Len(events)
               PROVE  NewRow(added[n], n, w, events, truth \o events)
    BY <1>2
  <1>4. PICK j \in 1..Len(events) : j = n - serial
    <2>1. PICK k \in Nat : k = serial
      BY <1>1
    <2>2. PICK l \in Nat : l = Len(events)
      BY <1>1
    <2>3. n \in k + 1..k + l
      BY <2>1, <2>2
    <2>4. n - k \in 1..l
      BY <2>3
    <2> QED BY <2>1, <2>2, <2>4
  <1>5. Len(truth) + j = n /\ Len(truth) + j - 1 = n - 1 /\ (n - serial) - 1 = j - 1
    BY <1>1, <1>4
  <1>6. PICK p : p = previous \o SubSeq(events, 1, j - 1)
    OBVIOUS
  <1>7. PICK h : h = Append(p, events[j])
    OBVIOUS
  <1>8. PICK new : new = truth \o events
    OBVIOUS
  <1>9. /\ p \in Seq(AuditEvents) /\ Len(p) = Len(truth) + j - 1
        /\ \A i \in 1..Len(truth) + j - 1 : p[i] = new[i]
        /\ h \in Seq(AuditEvents) /\ Len(h) = Len(truth) + j
        /\ \A i \in 1..Len(truth) + j : h[i] = new[i]
        /\ new[Len(truth) + j] = events[j]
    <2>1. RowCommits(p, h, new, Len(truth), events, j)
      BY ONLY <1>1, <1>3, <1>4, <1>6, <1>7, <1>8, BatchRow, events \in Seq(AuditEvents), Zenon
    <2> QED BY ONLY <2>1 DEF RowCommits
  <1>10. added[n] = AuditRow(previous \o SubSeq(events, 1, n - serial - 1),
                             events[n - serial], Signs[w])
    BY DEF NewRows
  <1>11. added[n] = [event |-> events[j], previous |-> p, hash |-> h, signed |-> Signs[w]]
    BY <1>4, <1>5, <1>6, <1>7, <1>10 DEF AuditRow
  <1>12. events[j] \in AuditEvents /\ Signs[w] \in BOOLEAN
    BY <1>4, AuditConstants
  <1>13. added[n] \in AuditRecord
    BY <1>9, <1>11, <1>12 DEF AuditRecord
  <1>14. /\ added[n].event = events[j] /\ added[n].previous = p
         /\ added[n].hash = h /\ added[n].signed = Signs[w]
    BY <1>11
  <1> QED BY <1>4, <1>5, <1>8, <1>9, <1>13, <1>14 DEF NewRow

\* The chain with the batch.
LEMMA Extended ==
  ASSUME NEW rows, NEW added, NEW whole, NEW k \in Nat, NEW L \in Nat,
         Sized(rows, k), DOMAIN added = k + 1..k + L,
         \A n \in DOMAIN added : RowBytes(added[n]) \in Nat,
         whole = [n \in DOMAIN rows \cup DOMAIN added |->
                    IF n \in DOMAIN added THEN added[n] ELSE rows[n]]
  PROVE  /\ BytesIn(rows) \in Nat /\ BytesIn(added) \in Nat
         /\ BytesIn(whole) = BytesIn(rows) + BytesIn(added)
         /\ Cardinality(DOMAIN added) = L
         /\ Cardinality(DOMAIN whole) = Cardinality(DOMAIN rows) + L
         /\ DOMAIN whole \subseteq 1..k + L
  <1>1. /\ DOMAIN whole = DOMAIN rows \cup DOMAIN added
        /\ \A n \in DOMAIN added : whole[n] = added[n]
        /\ \A n \in DOMAIN rows : n \notin DOMAIN added => whole[n] = rows[n]
    OBVIOUS
  <1>2. DOMAIN rows \subseteq 1..k /\ \A n \in DOMAIN rows : RowBytes(rows[n]) \in Nat
    BY DEF Sized
  <1>3. DOMAIN rows \cap DOMAIN added = {}
    BY <1>2
  <1>4. /\ k + L \in Nat /\ k + 1 \in Nat
        /\ DOMAIN rows \subseteq 1..k + L /\ DOMAIN added \subseteq 1..k + L
    BY <1>2
  <1>5. Sized(rows, k + L)
    BY <1>2, <1>4 DEF Sized
  <1>6. Sized(added, k + L)
    BY <1>4 DEF Sized
  <1>7. Sized(whole, k + L)
    BY <1>1, <1>2, <1>3, <1>4 DEF Sized
  <1>8. ASSUME NEW n \in 1..k + L
        PROVE  BytesAt(whole, n) = BytesAt(rows, n) + BytesAt(added, n)
    <2>1. CASE n \in DOMAIN added
      <3>1. /\ BytesAt(whole, n) = RowBytes(added[n]) /\ BytesAt(rows, n) = 0
            /\ BytesAt(added, n) = RowBytes(added[n]) /\ RowBytes(added[n]) \in Nat
        BY <1>1, <1>3, <2>1 DEF BytesAt
      <3> QED BY <3>1
    <2>2. CASE n \in DOMAIN rows
      <3>1. /\ BytesAt(whole, n) = RowBytes(rows[n]) /\ BytesAt(added, n) = 0
            /\ BytesAt(rows, n) = RowBytes(rows[n]) /\ RowBytes(rows[n]) \in Nat
        BY <1>1, <1>2, <1>3, <2>2 DEF BytesAt
      <3> QED BY <3>1
    <2>3. CASE n \notin DOMAIN rows /\ n \notin DOMAIN added
      BY <1>1, <2>3 DEF BytesAt
    <2> QED BY <2>1, <2>2, <2>3
  <1>9. BytesIn(whole) = BytesIn(rows) + BytesIn(added)
    BY <1>4, <1>5, <1>6, <1>7, <1>8, BytesAdd
  <1>10. BytesIn(rows) \in Nat /\ BytesIn(added) \in Nat
    BY <1>4, <1>5, <1>6, BytesNat
  <1>11. IsFiniteSet(DOMAIN added) /\ Cardinality(DOMAIN added) = L
    <2>1. IsFiniteSet(k + 1..k + L) /\ Cardinality(k + 1..k + L) = L
      <3>1. k + 1 \in Int /\ k + L \in Int
        OBVIOUS
      <3>2. /\ IsFiniteSet(k + 1..k + L)
            /\ Cardinality(k + 1..k + L) = IF k + 1 > k + L THEN 0 ELSE (k + L) - (k + 1) + 1
        BY ONLY <3>1, FS_Interval
      <3>3. (IF k + 1 > k + L THEN 0 ELSE (k + L) - (k + 1) + 1) = L
        OBVIOUS
      <3> QED BY <3>2, <3>3
    <2> QED BY <2>1
  <1>12. IsFiniteSet(DOMAIN rows) /\ Cardinality(DOMAIN rows) \in Nat
    <2>1. IsFiniteSet(1..k)
      BY FS_Interval
    <2> QED BY <1>2, <2>1, FS_Subset, FS_CardinalityType
  <1>13. Cardinality(DOMAIN whole) = Cardinality(DOMAIN rows) + L
    <2>1. Cardinality(DOMAIN rows \cup DOMAIN added) =
            Cardinality(DOMAIN rows) + Cardinality(DOMAIN added)
              - Cardinality(DOMAIN rows \cap DOMAIN added)
      BY <1>11, <1>12, FS_Union
    <2>2. Cardinality(DOMAIN rows \cap DOMAIN added) = 0
      BY <1>3, FS_EmptySet
    <2> QED BY <1>1, <1>11, <1>12, <2>1, <2>2
  <1> QED BY <1>7, <1>9, <1>10, <1>11, <1>13 DEF Sized

\* An append: the whole batch or nothing.
LEMMA AppendManyStep ==
  ASSUME AuditInv, NEW w \in AuditWriters,
         NEW events \in BoundedSeq(AuditEvents, MaxBatch) \ {<<>>}, AppendMany(w, events)
  PROVE  AuditInv' /\ NoAppendAfterLoss /\ AppendedWithinQuota
  <1>1. PICK previous : previous = IF LastSequence(chain) = 0 THEN <<>>
                                   ELSE chain[LastSequence(chain)].hash
    OBVIOUS
  <1>2. PICK added : added = NewRows(w, events, previous)
    OBVIOUS
  <1> DEFINE accepted == /\ Prepared(events)
                         /\ usage # NoUsage /\ UsageMatches
                         /\ WithinQuota(w, added) /\ NumberedOn(added)
  <1>3. answer' = answer
    BY DEF AppendMany
  <1>4. CASE ~accepted
    <2>1. UNCHANGED <<chain, serial, usage, truth>>
      BY <1>1, <1>2, <1>4 DEF AppendMany
    <2>2. AuditInv'
      BY <1>3, <2>1 DEF AuditInv, AuditTyped, Committed, Tells, UsageTrue, AnswerTold
    <2> QED BY <2>1, <2>2 DEF NoAppendAfterLoss, AppendedWithinQuota
  <1>5. CASE accepted
    <2>1. /\ chain' = [n \in DOMAIN chain \cup DOMAIN added |->
                         IF n \in DOMAIN added THEN added[n] ELSE chain[n]]
          /\ serial' = Max(DOMAIN added)
          /\ usage' = [count |-> usage.count + Len(events),
                       bytes |-> usage.bytes + BytesIn(added)]
          /\ truth' = truth \o events
      BY <1>1, <1>2, <1>5 DEF AppendMany
    <2>2. /\ Prepared(events) /\ usage # NoUsage /\ UsageMatches
          /\ WithinQuota(w, added) /\ NumberedOn(added)
      BY <1>5
    <2> HIDE DEF accepted
    <2>3. PICK L \in Nat \ {0} : L = Len(events) /\ events \in Seq(AuditEvents)
      BY BatchesAre
    <2>4. DOMAIN added = serial + 1..serial + L
      BY <1>2, <2>3 DEF NewRows
    <2>5. /\ LastSequence(chain) = serial
          /\ Cardinality(DOMAIN chain) = Len(truth)
          /\ usage = [count |-> Cardinality(DOMAIN chain), bytes |-> BytesIn(chain)]
      BY <2>2, <2>3, <2>4, AcceptedBatch
    <2>6. /\ serial \in Nat /\ serial = Len(truth) /\ truth \in Seq(AuditEvents)
          /\ DOMAIN chain \subseteq 1..serial
          /\ \A n \in DOMAIN chain : chain[n] \in AuditRecord
      BY DEF AuditInv, AuditTyped
    <2>7. Tells(previous, serial)
      <3>1. CASE serial = 0
        BY <1>1, <2>5, <3>1 DEF Tells
      <3>2. CASE serial # 0
        <4>1. serial \in DOMAIN chain
          BY <2>5, <2>6, <3>2, LastSequenceIs
        <4>2. previous = chain[serial].hash
          BY <1>1, <2>5, <3>2
        <4> QED BY <4>1, <4>2 DEF AuditInv, Committed
      <3> QED BY <3>1, <3>2
    <2>8. PICK new : new = truth \o events
      OBVIOUS
    <2>9. \A n \in DOMAIN added :
            /\ added[n] \in AuditRecord
            /\ added[n].signed = Signs[w]
            /\ n - serial \in 1..Len(events)
            /\ added[n].event = events[n - serial]
            /\ new[n] = events[n - serial]
            /\ added[n].previous \in Seq(AuditEvents) /\ Len(added[n].previous) = n - 1
            /\ \A i \in 1..n - 1 : added[n].previous[i] = new[i]
            /\ added[n].hash \in Seq(AuditEvents) /\ Len(added[n].hash) = n
            /\ \A i \in 1..n : added[n].hash[i] = new[i]
      <3>1. AuditInv /\ w \in AuditWriters /\ events \in Seq(AuditEvents)
        BY <2>3
      <3>2. \A n \in DOMAIN added : NewRow(added[n], n, w, events, truth \o events)
        BY ONLY <1>2, <2>7, <3>1, NewRowsAre, Zenon
      <3> QED BY ONLY <2>8, <3>2 DEF NewRow
    <2>10. /\ new \in Seq(AuditEvents) /\ Len(new) = serial + L
           /\ \A i \in 1..serial : new[i] = truth[i]
      BY <2>3, <2>6, <2>8, Joined
    <2>11. /\ DOMAIN chain' = DOMAIN chain \cup DOMAIN added
           /\ \A n \in DOMAIN added : chain'[n] = added[n]
           /\ \A n \in DOMAIN chain : n \notin DOMAIN added => chain'[n] = chain[n]
      BY <2>1
    <2>12. serial' = serial + L /\ truth' = new /\ Len(truth') = serial + L
      <3>1. serial + 1 \in Nat /\ serial + L \in Nat /\ serial + 1 <= serial + L
        BY <2>3, <2>6
      <3>2. Max(DOMAIN added) = serial + L
        BY <2>4, <3>1, IntervalEnds
      <3> QED BY <2>1, <2>8, <2>10, <3>2
    <2>13. /\ BytesIn(chain) \in Nat /\ BytesIn(added) \in Nat
           /\ BytesIn(chain') = BytesIn(chain) + BytesIn(added)
           /\ Cardinality(DOMAIN added) = L
           /\ Cardinality(DOMAIN chain') = Cardinality(DOMAIN chain) + L
           /\ DOMAIN chain' \subseteq 1..serial + L
      <3>1. PICK whole : whole = chain'
        OBVIOUS
      <3>2. \A n \in DOMAIN added : RowBytes(added[n]) \in Nat
        BY <2>9, RowSize
      <3>3. Sized(chain, serial)
        BY ChainSized DEF AuditInv
      <3>4. whole = [n \in DOMAIN chain \cup DOMAIN added |->
                       IF n \in DOMAIN added THEN added[n] ELSE chain[n]]
        BY <2>1, <3>1
      <3>5. /\ BytesIn(chain) \in Nat /\ BytesIn(added) \in Nat
            /\ BytesIn(whole) = BytesIn(chain) + BytesIn(added)
            /\ Cardinality(DOMAIN added) = L
            /\ Cardinality(DOMAIN whole) = Cardinality(DOMAIN chain) + L
            /\ DOMAIN whole \subseteq 1..serial + L
        <4>1. serial \in Nat /\ L \in Nat
          BY <2>3, <2>6
        <4> QED BY ONLY <2>4, <3>2, <3>3, <3>4, <4>1, Extended, ZenonT(30)
      <3> QED BY <3>1, <3>5
    <2>14. AuditTyped'
      <3>1. \A n \in DOMAIN chain' : chain'[n] \in AuditRecord
        BY <2>6, <2>9, <2>11
      <3> QED BY <2>10, <2>12, <2>13, <3>1 DEF AuditTyped
    <2>15. Committed'
      <3> SUFFICES ASSUME NEW n \in DOMAIN chain'
                   PROVE  Tells(chain[n].hash, n)' /\ Tells(chain[n].previous, n - 1)'
        BY DEF Committed
      <3>1. CASE n \in DOMAIN added
        <4>1. chain'[n] = added[n]
          BY <2>11, <3>1
        <4> QED BY <2>9, <2>12, <3>1, <4>1 DEF Tells
      <3>2. CASE n \notin DOMAIN added
        <4>1. n \in DOMAIN chain /\ chain'[n] = chain[n] /\ n \in 1..serial
          BY <2>6, <2>11, <3>2
        <4>2. Tells(chain[n].hash, n) /\ Tells(chain[n].previous, n - 1)
          BY <4>1 DEF AuditInv, Committed
        <4>3. \A i \in 1..n : i \in 1..serial /\ new[i] = truth[i]
          BY <2>6, <2>10, <4>1
        <4>4. \A i \in 1..n - 1 : i \in 1..n
          BY <2>6, <4>1
        <4> QED BY <2>12, <4>1, <4>2, <4>3, <4>4 DEF Tells
      <3> QED BY <3>1, <3>2
    <2>16. AnswerTold'
      <3> SUFFICES ASSUME answer.ok PROVE \E k \in 0..Len(truth') : Tells(answer.events, k)'
        BY <1>3 DEF AnswerTold
      <3>1. PICK k \in 0..Len(truth) : Tells(answer.events, k)
        BY DEF AuditInv, AnswerTold
      <3>2. k \in Nat /\ k <= serial /\ k \in 0..Len(truth')
        BY <2>3, <2>6, <2>12, <3>1
      <3>3. \A i \in 1..k : truth'[i] = truth[i]
        BY <2>6, <2>10, <2>12, <3>2
      <3>4. Tells(answer.events, k)'
        BY <1>3, <3>1, <3>3 DEF Tells
      <3> QED BY <3>2, <3>4
    <2>17. usage.count = Cardinality(DOMAIN chain) /\ usage.bytes = BytesIn(chain)
      BY <2>5
    <2>18. UsageTrue'
      BY <2>1, <2>3, <2>13, <2>17 DEF UsageTrue
    <2>19. /\ Cardinality(DOMAIN chain') <= MaxEvents[w]
           /\ BytesIn(chain') <= MaxLogicalBytes[w]
      BY <2>2, <2>13, <2>17 DEF WithinQuota
    <2>20. ASSUME NEW n \in DOMAIN chain' \ DOMAIN chain
           PROVE  /\ chain'[n].event = truth'[n] /\ Canonical(truth'[n])
                  /\ chain'[n].signed = Signs[w]
      <3>1. n \in DOMAIN added /\ chain'[n] = added[n]
        BY <2>11, <2>20
      <3>2. n - serial \in 1..Len(events) /\ truth'[n] = events[n - serial]
            /\ added[n].event = events[n - serial] /\ added[n].signed = Signs[w]
        BY <2>9, <2>12, <3>1
      <3>3. Canonical(events[n - serial])
        <4>1. DOMAIN events = 1..Len(events)
          BY <2>3
        <4> QED BY <2>2, <3>2, <4>1 DEF Prepared
      <3> QED BY <3>1, <3>2, <3>3
    <2> QED BY <2>5, <2>14, <2>15, <2>16, <2>18, <2>19, <2>20
         DEF AuditInv, NoAppendAfterLoss, AppendedWithinQuota
  <1> QED BY <1>4, <1>5

LEMMA AuditStep ==
  ASSUME AuditInv, [AuditNext]_auditVars
  PROVE  AuditInv' /\ [NoAppendAfterLoss /\ AppendedWithinQuota]_auditVars
  <1>1. ASSUME truth' = truth PROVE NoAppendAfterLoss /\ AppendedWithinQuota
    BY <1>1 DEF NoAppendAfterLoss, AppendedWithinQuota
  <1>2. CASE OpenStore
    BY <1>1, <1>2, OpenStoreStep
  <1>3. ASSUME NEW w \in AuditWriters,
               NEW events \in BoundedSeq(AuditEvents, MaxBatch) \ {<<>>}, AppendMany(w, events)
        PROVE  AuditInv' /\ NoAppendAfterLoss /\ AppendedWithinQuota
    BY <1>3, AppendManyStep
  <1>4. ASSUME NEW needSigned \in BOOLEAN, VerifyChain(needSigned)
        PROVE  AuditInv' /\ NoAppendAfterLoss /\ AppendedWithinQuota
    BY <1>1, <1>4, VerifyChainStep
  <1>5. ASSUME NEW n \in DOMAIN chain, RowLost(n)
        PROVE  AuditInv' /\ NoAppendAfterLoss /\ AppendedWithinQuota
    BY <1>1, <1>5, RowLostStep
  <1>6. ASSUME NEW n \in DOMAIN chain, NEW e \in AuditEvents, RowAltered(n, e)
        PROVE  AuditInv' /\ NoAppendAfterLoss /\ AppendedWithinQuota
    BY <1>1, <1>6, RowAlteredStep
  <1>7. CASE UNCHANGED auditVars
    BY <1>7 DEF auditVars, AuditInv, AuditTyped, Committed, Tells, UsageTrue, AnswerTold
  <1> QED BY <1>2, <1>3, <1>4, <1>5, <1>6, <1>7 DEF AuditNext

\* The audit trail keeps its promises through every append, verification, loss
\* and alteration of a row and upgrade of an old store, for any writers, events
\* and quotas: the usage metadata is what the table holds, a chain that
\* verifies tells the beginning of what was appended, a store that has lost a
\* row takes no event any more, and a batch is within the quotas of its writer
\* (audit.py, AuditStore).
THEOREM TrailIsTrue == AuditSpec => TrailTrue
  <1>1. AuditInit => AuditInv
    BY AuditInitInv
  <1>2. AuditInv /\ [AuditNext]_auditVars => AuditInv'
    BY AuditStep
  <1>3. AuditInv /\ [AuditNext]_auditVars => [NoAppendAfterLoss /\ AppendedWithinQuota]_auditVars
    BY AuditStep
  <1>4. AuditInv => UsageTrue /\ VerifiedIsAppended
    BY InvTells
  <1> QED BY <1>1, <1>2, <1>3, <1>4, PTL DEF AuditSpec, TrailTrue

-----------------------------------------------------------------------------
(***************************************************************************)
(* The circuit of a recipe. A command takes a version up only while its    *)
(* streak of rejections is below a threshold, and records at most one      *)
(* rejection of it afterwards: the streak of a version and the commands    *)
(* that hold it stay below the highest threshold and the number of         *)
(* commands together.                                                      *)
(***************************************************************************)

-----------------------------------------------------------------------------
(* Bounds                                                                  *)

\* The values of a function on a finite set have a bound.
LEMMA FiniteBound ==
  ASSUME NEW S, IsFiniteSet(S), NEW f \in [S -> Nat]
  PROVE  \E b \in Nat : \A x \in S : f[x] <= b
  <1>1. PICK n \in Nat : n = Cardinality(S)
    BY FS_CardinalityType
  <1>2. PICK g \in [1..n -> S] : \A x \in S : \E i \in 1..n : g[i] = x
    <2>1. ExistsBijection(1..n, S)
      BY <1>1, FS_CardinalityType
    <2> QED BY <2>1 DEF ExistsBijection, Bijection, Injection, Surjection, IsInjective
  <1> DEFINE Bounded(k) == \E b \in Nat : \A i \in 1..k : f[g[i]] <= b
             Bad == {k \in 0..n : ~Bounded(k)}
  <1>3. Bad = {}
    <2> SUFFICES ASSUME Bad # {} PROVE FALSE
      OBVIOUS
    <2>1. PICK k \in Bad : \A l \in Bad : k <= l
      <3>1. Bad \in SUBSET Nat
        OBVIOUS
      <3> HIDE DEF Bad
      <3> QED BY <3>1, LeastOne
    <2>2. k \in 0..n /\ ~Bounded(k)
      OBVIOUS
    <2>3. k # 0
      <3>1. 0 \in Nat /\ \A i \in 1..0 : f[g[i]] <= 0
        OBVIOUS
      <3> QED BY <2>2, <3>1
    <2>4. k \in Nat /\ k >= 1 /\ k - 1 \in 0..n /\ ~(k <= k - 1)
      BY <2>2, <2>3
    <2>5. Bounded(k - 1)
      <3>1. k - 1 \notin Bad
        <4> HIDE DEF Bad
        <4> QED BY <2>1, <2>4
      <3> QED BY <2>4, <3>1
    <2>6. PICK b \in Nat : \A i \in 1..(k - 1) : f[g[i]] <= b
      BY <2>5
    <2>7. k \in 1..n /\ g[k] \in S /\ f[g[k]] \in Nat
      <3>1. k \in 1..n
        BY <2>2, <2>4
      <3> HIDE DEF Bad
      <3> QED BY <1>2, <3>1
    <2>8. PICK c \in Nat : b <= c /\ f[g[k]] <= c
      <3>1. PICK d \in Nat : d = f[g[k]]
        BY <2>7
      <3> HIDE DEF Bad, Bounded
      <3>2. b + d \in Nat /\ b <= b + d /\ d <= b + d
        OBVIOUS
      <3> QED BY <3>1, <3>2
    <2>9. ASSUME NEW i \in 1..k PROVE f[g[i]] <= c
      <3>1. CASE i = k
        BY <2>8, <3>1
      <3>2. CASE i # k
        <4>1. i \in 1..(k - 1) /\ i \in 1..n
          BY <2>2, <2>4, <3>2
        <4>2. g[i] \in S /\ f[g[i]] \in Nat
          BY <1>2, <4>1
        <4>3. PICK d \in Nat : d = f[g[i]]
          BY <4>2
        <4>4. d <= b /\ b \in Nat /\ c \in Nat /\ b <= c
          BY <2>6, <2>8, <4>1, <4>3
        <4> QED BY <4>3, <4>4
      <3> QED BY <3>1, <3>2
    <2> QED BY <2>2, <2>8, <2>9
  <1>4. Bounded(n)
    <2>1. n \in 0..n
      BY <1>1
    <2>2. n \notin Bad
      BY <1>3
    <2> HIDE DEF Bounded
    <2> QED BY <2>1, <2>2
  <1>5. PICK b \in Nat : \A i \in 1..n : f[g[i]] <= b
    BY <1>4
  <1> QED BY <1>2, <1>5

-----------------------------------------------------------------------------
(* The circuit                                                             *)

Run == [recipe : Nat, outcome : RunOutcomes]

\* The rejected runs of a version that no other run of it follows.
StreakRuns(v) ==
    {i \in RunsOf(v) : /\ runs[i].outcome = "rejected"
                       /\ \A j \in RunsOf(v) : runs[j].outcome # "rejected" => j < i}

LEMMA RunsAre ==
  ASSUME runs \in Seq(Run), NEW v
  PROVE  /\ Len(runs) \in Nat /\ DOMAIN runs = 1..Len(runs)
         /\ RunsOf(v) \in SUBSET Nat /\ \A i \in RunsOf(v) : i <= Len(runs) /\ i >= 1
         /\ IsFiniteSet(RunsOf(v)) /\ IsFiniteSet(StreakRuns(v))
         /\ Cardinality(RunsOf(v)) \in Nat /\ Cardinality(StreakRuns(v)) \in Nat
  <1>1. Len(runs) \in Nat /\ DOMAIN runs = 1..Len(runs)
    OBVIOUS
  <1>2. RunsOf(v) \in SUBSET Nat /\ \A i \in RunsOf(v) : i <= Len(runs) /\ i >= 1
    BY <1>1 DEF RunsOf
  <1>3. IsFiniteSet(RunsOf(v))
    BY <1>1, <1>2, FS_BoundedSetOfNaturals
  <1>4. StreakRuns(v) \in SUBSET RunsOf(v)
    BY DEF StreakRuns
  <1>5. IsFiniteSet(StreakRuns(v))
    BY <1>3, <1>4, FS_Subset
  <1> QED BY <1>1, <1>2, <1>3, <1>5, FS_CardinalityType

\* The query of health counts them.
LEMMA StreakIs == runs \in Seq(Run) => \A v : Streak(v) = Cardinality(StreakRuns(v))
  <1> SUFFICES ASSUME runs \in Seq(Run), NEW v PROVE Streak(v) = Cardinality(StreakRuns(v))
    OBVIOUS
  <1> DEFINE others == {i \in RunsOf(v) : runs[i].outcome # "rejected"}
             counted == {i \in RunsOf(v) :
                           runs[i].outcome = "rejected" /\ i > Max({0} \cup others)}
  <1>1. /\ Len(runs) \in Nat /\ RunsOf(v) \in SUBSET Nat
        /\ \A i \in RunsOf(v) : i <= Len(runs) /\ i >= 1
    BY RunsAre
  <1>2. Max({0} \cup others) \in {0} \cup others /\ \A y \in {0} \cup others : Max({0} \cup others) >= y
    <2>1. ({0} \cup others) \in SUBSET Nat /\ ({0} \cup others) # {}
          /\ \A y \in {0} \cup others : y <= Len(runs)
      BY <1>1
    <2> HIDE DEF others
    <2> QED BY <1>1, <2>1, LargestOne
  <1>3. PICK m : m = Max({0} \cup others)
    OBVIOUS
  <1>4. /\ m \in Nat /\ (m = 0 \/ m \in others) /\ \A y \in others : m >= y
    BY <1>1, <1>2, <1>3
  <1>5. counted = StreakRuns(v)
    <2>1. ASSUME NEW i \in RunsOf(v), i > m PROVE \A j \in RunsOf(v) : runs[j].outcome # "rejected" => j < i
      BY <1>1, <1>4, <2>1
    <2>2. ASSUME NEW i \in RunsOf(v), \A j \in RunsOf(v) : runs[j].outcome # "rejected" => j < i PROVE i > m
      BY <1>1, <1>4, <2>2
    <2> QED BY <1>3, <2>1, <2>2 DEF StreakRuns
  <1>6. Streak(v) = Cardinality(counted)
    BY DEF Streak
  <1> QED BY <1>5, <1>6

\* A version has been rejected n times at the end if and only if its streak says so.
LEMMA StreakMeans ==
  ASSUME runs \in Seq(Run), NEW v, NEW n \in Nat
  PROVE  RejectedAtEnd(v, n) <=> Cardinality(StreakRuns(v)) >= n
  <1> DEFINE Newer(i) == {j \in RunsOf(v) : j > i}
  <1>1. /\ Len(runs) \in Nat /\ RunsOf(v) \in SUBSET Nat
        /\ \A i \in RunsOf(v) : i <= Len(runs) /\ i >= 1
        /\ IsFiniteSet(RunsOf(v)) /\ IsFiniteSet(StreakRuns(v))
        /\ Cardinality(RunsOf(v)) \in Nat /\ Cardinality(StreakRuns(v)) \in Nat
    BY RunsAre
  <1>2. \A i : IsFiniteSet(Newer(i)) /\ Cardinality(Newer(i)) \in Nat
    <2> SUFFICES ASSUME NEW i PROVE IsFiniteSet(Newer(i)) /\ Cardinality(Newer(i)) \in Nat
      OBVIOUS
    <2>1. Newer(i) \in SUBSET RunsOf(v)
      OBVIOUS
    <2> HIDE DEF Newer
    <2>2. IsFiniteSet(Newer(i))
      BY <1>1, <2>1, FS_Subset
    <2> QED BY <2>2, FS_CardinalityType
  <1>3. RejectedAtEnd(v, n) <=>
          /\ Cardinality(RunsOf(v)) >= n
          /\ \A i \in RunsOf(v) : Cardinality(Newer(i)) < n => runs[i].outcome = "rejected"
    BY DEF RejectedAtEnd
  <1>4. ASSUME Cardinality(StreakRuns(v)) >= n PROVE RejectedAtEnd(v, n)
    <2>1. StreakRuns(v) \in SUBSET RunsOf(v)
      BY DEF StreakRuns
    <2>2. Cardinality(StreakRuns(v)) <= Cardinality(RunsOf(v))
      BY <1>1, <2>1, FS_Subset
    <2>3. ASSUME NEW i \in RunsOf(v), runs[i].outcome # "rejected" PROVE ~(Cardinality(Newer(i)) < n)
      <3>1. StreakRuns(v) \in SUBSET Newer(i)
        BY <1>1, <2>3 DEF StreakRuns
      <3> HIDE DEF Newer
      <3>2. Cardinality(StreakRuns(v)) <= Cardinality(Newer(i))
        BY <1>2, <3>1, FS_Subset
      <3> QED BY <1>1, <1>2, <1>4, <3>2
    <2> HIDE DEF Newer
    <2> QED BY <1>1, <1>3, <1>4, <2>2, <2>3
  <1>5. ASSUME RejectedAtEnd(v, n) PROVE Cardinality(StreakRuns(v)) >= n
    <2> DEFINE others == {i \in RunsOf(v) : runs[i].outcome # "rejected"}
    <2>1. CASE others = {}
      <3>1. StreakRuns(v) = RunsOf(v)
        BY <2>1 DEF StreakRuns
      <3> QED BY <1>3, <1>5, <3>1
    <2>2. CASE others # {}
      <3>1. others \in SUBSET Nat /\ \A y \in others : y <= Len(runs)
        BY <1>1
      <3>2. PICK m \in others : \A y \in others : m >= y
        <4> HIDE DEF others
        <4> QED BY <1>1, <2>2, <3>1, LargestOne
      <3>3. m \in RunsOf(v) /\ runs[m].outcome # "rejected"
        BY <3>2
      <3>4. Newer(m) = StreakRuns(v)
        <4>1. ASSUME NEW i \in Newer(m) PROVE i \in StreakRuns(v)
          <5>1. i \in RunsOf(v) /\ i > m /\ i \in Nat /\ m \in Nat
            BY <1>1, <3>3, <4>1
          <5>2. \A y \in others : y < i
            BY <1>1, <3>1, <3>2, <5>1
          <5>3. i \notin others
            BY <3>1, <5>1, <5>2
          <5> QED BY <5>1, <5>2, <5>3 DEF StreakRuns
        <4>2. ASSUME NEW i \in StreakRuns(v) PROVE i \in Newer(m)
          BY <1>1, <3>3, <4>2 DEF StreakRuns
        <4> HIDE DEF Newer
        <4> QED BY <4>1, <4>2
      <3> HIDE DEF Newer
      <3>5. ~(Cardinality(Newer(m)) < n)
        BY <1>3, <1>5, <3>3
      <3> QED BY <1>1, <1>2, <3>4, <3>5
    <2> QED BY <2>1, <2>2
  <1> QED BY <1>4, <1>5

\* A run that is recorded goes on with the streak of its version, or ends it.
LEMMA StreakGrows ==
  ASSUME runs \in Seq(Run), NEW w \in Nat, NEW o \in RunOutcomes,
         runs' = Append(runs, [recipe |-> w, outcome |-> o]), NEW v
  PROVE  /\ runs' \in Seq(Run)
         /\ v # w => StreakRuns(v)' = StreakRuns(v)
         /\ v = w /\ o = "rejected" =>
              Cardinality(StreakRuns(v)') = Cardinality(StreakRuns(v)) + 1
         /\ v = w /\ o # "rejected" => Cardinality(StreakRuns(v)') = 0
  <1>1. PICK n \in Nat : n = Len(runs)
    OBVIOUS
  <1>2. PICK r \in Run : r = [recipe |-> w, outcome |-> o]
    BY DEF Run
  <1>3. r.recipe = w /\ r.outcome = o
    BY <1>2
  <1>4. /\ runs' \in Seq(Run) /\ DOMAIN runs' = 1..(n + 1) /\ DOMAIN runs = 1..n
        /\ runs'[n + 1] = r /\ \A i \in 1..n : runs'[i] = runs[i]
    BY <1>1, <1>2
  <1>5. /\ RunsOf(v) \in SUBSET (1..n)
        /\ v # w => RunsOf(v)' = RunsOf(v)
        /\ v = w => RunsOf(v)' = RunsOf(v) \cup {n + 1}
    <2>1. \A i \in 1..(n + 1) : i = n + 1 \/ i \in 1..n
      BY <1>1
    <2>2. RunsOf(v)' = {i \in 1..(n + 1) : runs'[i].recipe = v}
      BY <1>4 DEF RunsOf
    <2>3. RunsOf(v) = {i \in 1..n : runs[i].recipe = v}
      BY <1>4 DEF RunsOf
    <2>4. n + 1 \in 1..(n + 1) /\ \A i \in 1..n : i \in 1..(n + 1)
      BY <1>1
    <2> QED BY <1>3, <1>4, <2>1, <2>2, <2>3, <2>4
  <1>6. \A i \in RunsOf(v) : runs'[i].outcome = runs[i].outcome
    BY <1>4, <1>5
  <1>7. /\ StreakRuns(v) = {i \in RunsOf(v) : /\ runs[i].outcome = "rejected"
                             /\ \A j \in RunsOf(v) : runs[j].outcome # "rejected" => j < i}
        /\ StreakRuns(v)' = {i \in RunsOf(v)' : /\ runs'[i].outcome = "rejected"
                             /\ \A j \in RunsOf(v)' : runs'[j].outcome # "rejected" => j < i}
    BY DEF StreakRuns
  <1>8. v # w => StreakRuns(v)' = StreakRuns(v)
    BY <1>5, <1>6, <1>7
  <1>9. ASSUME v = w, o = "rejected"
        PROVE  Cardinality(StreakRuns(v)') = Cardinality(StreakRuns(v)) + 1
    <2>1. /\ RunsOf(v)' = RunsOf(v) \cup {n + 1} /\ runs'[n + 1].outcome = "rejected"
          /\ \A j \in RunsOf(v) : j < n + 1 /\ j # n + 1
      BY <1>3, <1>4, <1>5, <1>9
    <2>2. StreakRuns(v)' = StreakRuns(v) \cup {n + 1}
      <3> DEFINE Ended(i) == \A j \in RunsOf(v) : runs[j].outcome # "rejected" => j < i
                 EndedNow(i) == \A j \in RunsOf(v)' : runs'[j].outcome # "rejected" => j < i
      <3>1. \A i \in RunsOf(v) : runs'[i].outcome = runs[i].outcome
        BY <1>6
      <3>2. ASSUME NEW i PROVE EndedNow(i) <=> Ended(i)
        BY <2>1, <3>1
      <3>3. EndedNow(n + 1)
        BY <2>1, <3>1
      <3>4. StreakRuns(v) = {i \in RunsOf(v) : runs[i].outcome = "rejected" /\ Ended(i)}
        BY <1>7
      <3>5. StreakRuns(v)' = {i \in RunsOf(v)' : runs'[i].outcome = "rejected" /\ EndedNow(i)}
        BY <1>7
      <3> HIDE DEF Ended, EndedNow
      <3>6. \A i : i \in StreakRuns(v)' <=> i \in StreakRuns(v) \cup {n + 1}
        BY <2>1, <3>1, <3>2, <3>3, <3>4, <3>5
      <3> QED BY <3>6
    <2>3. n + 1 \notin StreakRuns(v)
      BY <1>7, <2>1
    <2>4. IsFiniteSet(StreakRuns(v))
      BY RunsAre
    <2> QED BY <2>2, <2>3, <2>4, FS_AddElement
  <1>10. ASSUME v = w, o # "rejected" PROVE Cardinality(StreakRuns(v)') = 0
    <2>1. /\ RunsOf(v)' = RunsOf(v) \cup {n + 1} /\ runs'[n + 1].outcome # "rejected"
          /\ \A j \in RunsOf(v) : ~(n + 1 < j)
      BY <1>3, <1>4, <1>5, <1>10
    <2>2. StreakRuns(v)' = {}
      BY <1>7, <2>1
    <2> QED BY <2>2, FS_EmptySet
  <1> QED BY <1>4, <1>8, <1>9, <1>10

-----------------------------------------------------------------------------
(* The inductive invariant                                                 *)

Command == [at : {"idle", "health", "rebind", "match", "preflight", "read", "insert", "first"},
            candidate : Nat, recipe : Nat, latest : Nat, remember : BOOLEAN, observes : BOOLEAN]

RecipesTyped == runs \in Seq(Run) /\ command \in [Commands -> Command]

\* Versions have no gap, and a command that inserts one has read an existing one.
Numbered ==
    /\ Cardinality(DOMAIN recipes) \in Nat
    /\ DOMAIN recipes = 1..Cardinality(DOMAIN recipes)
    /\ \A p \in Commands :
         /\ Stands(p, "insert") => command[p].latest <= Cardinality(DOMAIN recipes)
         /\ command[p].at \in {"health", "rebind"} => command[p].candidate # 0
         /\ command[p].at \in {"health", "rebind", "match"} => command[p].recipe = 0

\* Commands that have found a version in good health and may still reject it.
Holds(c, v) == (c.at = "rebind" /\ c.candidate = v) \/ (c.at = "preflight" /\ c.recipe = v)
Holders(v) == {p \in Commands : Holds(command[p], v)}

HighestThreshold == Max({Threshold[p] : p \in Commands})

\* A version's streak and the commands that may lengthen it.
Breaker ==
    Commands # {} =>
        \A v \in Nat \ {0} : Cardinality(StreakRuns(v)) + Cardinality(Holders(v))
                                 < HighestThreshold + Cardinality(Commands)

RInv == RecipesTyped /\ Numbered /\ Breaker

LEMMA ThresholdsAre ==
  ASSUME NEW p \in Commands
  PROVE  /\ HighestThreshold \in Nat /\ Threshold[p] \in Nat \ {0} /\ Threshold[p] <= HighestThreshold
         /\ HighestThreshold >= 1 /\ Cardinality(Commands) \in Nat
  <1>1. \A q \in Commands : Threshold[q] \in Nat \ {0}
    BY RecipeConstants
  <1>2. IsFiniteSet(Commands)
    BY RecipeConstants
  <1> DEFINE f == [q \in Commands |-> Threshold[q]]
             T == {Threshold[q] : q \in Commands}
  <1>3. f \in [Commands -> Nat]
    BY <1>1
  <1>4. PICK b \in Nat : \A q \in Commands : f[q] <= b
    <2> HIDE DEF f
    <2> QED BY <1>2, <1>3, FiniteBound
  <1>5. T \in SUBSET Nat /\ T # {} /\ Threshold[p] \in T /\ \A y \in T : y <= b
    BY <1>1, <1>4
  <1>6. Max(T) \in T /\ \A y \in T : Max(T) >= y
    <2> HIDE DEF T
    <2> QED BY <1>5, LargestOne
  <1>7. HighestThreshold = Max(T)
    BY DEF HighestThreshold
  <1>8. Cardinality(Commands) \in Nat
    BY <1>2, FS_CardinalityType
  <1> HIDE DEF T
  <1>9. PICK h : h = Max(T)
    OBVIOUS
  <1>10. PICK t \in Nat \ {0} : t = Threshold[p]
    BY <1>1
  <1>11. h \in Nat /\ t <= h
    BY <1>5, <1>6, <1>9, <1>10
  <1>12. h >= 1
    BY <1>11
  <1> QED BY <1>7, <1>8, <1>9, <1>10, <1>11, <1>12

LEMMA HoldersAre ==
  ASSUME NEW S \in SUBSET Commands
  PROVE  IsFiniteSet(S) /\ Cardinality(S) \in Nat /\ Cardinality(S) <= Cardinality(Commands)
  <1>1. IsFiniteSet(Commands)
    BY RecipeConstants
  <1> QED BY <1>1, FS_Subset, FS_CardinalityType

LEMMA LatestIs ==
  ASSUME Numbered
  PROVE  Latest = Cardinality(DOMAIN recipes)
  <1>1. PICK n \in Nat : n = Cardinality(DOMAIN recipes)
    BY DEF Numbered
  <1>2. {0} \cup DOMAIN recipes = 0..n
    BY <1>1 DEF Numbered
  <1>3. Max(0..n) \in 0..n /\ \A y \in 0..n : Max(0..n) >= y
    <2>1. (0..n) \in SUBSET Nat /\ 0..n # {} /\ \A y \in 0..n : y <= n
      BY <1>1
    <2> QED BY <1>1, <2>1, LargestOne
  <1>4. Max(0..n) = n
    BY <1>3
  <1> QED BY <1>1, <1>2, <1>4 DEF Latest

-----------------------------------------------------------------------------
(* Steps                                                                   *)

LEMMA CommandMoves ==
  ASSUME RecipesTyped, NEW p \in Commands, NEW c \in Command, command' = [command EXCEPT ![p] = c]
  PROVE  /\ command' \in [Commands -> Command] /\ command'[p] = c
         /\ \A q \in Commands : q # p => command'[q] = command[q]
         /\ \A v : /\ Holders(v)' \in SUBSET Commands /\ Holders(v) \in SUBSET Commands
                   /\ ~Holds(c, v) => Holders(v)' \in SUBSET (Holders(v) \ {p})
                   /\ Holds(command[p], v) => Holders(v)' \in SUBSET Holders(v) /\ p \in Holders(v)
  <1>1. /\ command' \in [Commands -> Command] /\ command'[p] = c
        /\ \A q \in Commands : q # p => command'[q] = command[q]
    BY DEF RecipesTyped
  <1> SUFFICES ASSUME NEW v
               PROVE  /\ Holders(v)' \in SUBSET Commands /\ Holders(v) \in SUBSET Commands
                      /\ ~Holds(c, v) => Holders(v)' \in SUBSET (Holders(v) \ {p})
                      /\ Holds(command[p], v) => Holders(v)' \in SUBSET Holders(v) /\ p \in Holders(v)
    BY <1>1
  <1>2. Holders(v)' = {q \in Commands : Holds(command'[q], v)}
    BY DEF Holders, Holds
  <1>3. Holders(v) = {q \in Commands : Holds(command[q], v)}
    BY DEF Holders
  <1>4. \A q \in Holders(v)' : q \in Commands /\ (q = p \/ q \in Holders(v))
    BY <1>1, <1>2, <1>3
  <1>5. ~Holds(c, v) => p \notin Holders(v)'
    BY <1>1, <1>2
  <1> QED BY <1>3, <1>4, <1>5

\* A version is passed over for a reason.
LEMMA ForCause ==
  ASSUME RecipesTyped, NEW p \in Commands, NEW c \in Command, command' = [command EXCEPT ![p] = c],
         Stands(p, "health") /\ c.at = "match" =>
            RejectedAtEnd(command[p].candidate, Threshold[p])
  PROVE  SuspendedForCause
  <1>1. command'[p] = c /\ \A q \in Commands : q # p => command'[q] = command[q]
    BY CommandMoves
  <1> QED BY <1>1 DEF SuspendedForCause, Stands

\* A step that records no run: a command takes a version up only in good health.
LEMMA MoveStep ==
  ASSUME RInv, NEW p \in Commands, NEW c \in Command, command' = [command EXCEPT ![p] = c],
         UNCHANGED runs, Numbered',
         \A v \in Nat \ {0} : Holds(c, v) => Holds(command[p], v) \/ Streak(v) < Threshold[p]
  PROVE  RInv'
  <1>1. RecipesTyped'
    BY CommandMoves DEF RInv, RecipesTyped
  <1>2. ASSUME NEW v \in Nat \ {0}
        PROVE  Cardinality(StreakRuns(v))' + Cardinality(Holders(v))'
                  < HighestThreshold + Cardinality(Commands)
    <2>1. StreakRuns(v)' = StreakRuns(v)
      BY DEF StreakRuns, RunsOf
    <2>2. PICK s \in Nat : s = Cardinality(StreakRuns(v)) /\ s = Streak(v)
      BY RunsAre, StreakIs DEF RInv, RecipesTyped
    <2>3. PICK h \in Nat : h = HighestThreshold
      BY ThresholdsAre
    <2>4. PICK n \in Nat : n = Cardinality(Commands)
      BY ThresholdsAre
    <2>5. /\ Holders(v)' \in SUBSET Commands /\ Holders(v) \in SUBSET Commands
          /\ ~Holds(c, v) => Holders(v)' \in SUBSET (Holders(v) \ {p})
          /\ Holds(command[p], v) => Holders(v)' \in SUBSET Holders(v)
      BY CommandMoves DEF RInv
    <2>6. PICK a \in Nat : a = Cardinality(Holders(v))
      BY <2>5, HoldersAre
    <2>7. PICK b \in Nat : b = Cardinality(Holders(v)') /\ b <= n
      BY <2>4, <2>5, HoldersAre
    <2>8. s + a < h + n
      BY <2>2, <2>3, <2>4, <2>6 DEF RInv, Breaker
    <2>9. s + b < h + n
      <3>1. CASE Holders(v)' \in SUBSET Holders(v)
        <4>1. IsFiniteSet(Holders(v))
          BY <2>5, HoldersAre
        <4>2. b <= a
          BY <2>6, <2>7, <3>1, <4>1, FS_Subset
        <4> QED BY <2>8, <4>2
      <3>2. CASE Streak(v) < Threshold[p]
        <4>1. PICK t \in Nat : t = Threshold[p] /\ t <= h
          BY <2>3, ThresholdsAre
        <4>2. s < t
          BY <2>2, <3>2, <4>1
        <4> QED BY <2>7, <4>1, <4>2
      <3> QED BY <2>5, <3>1, <3>2
    <2> QED BY <2>1, <2>2, <2>3, <2>4, <2>7, <2>9
  <1>3. Breaker'
    BY <1>2 DEF Breaker, HighestThreshold
  <1> QED BY <1>1, <1>3 DEF RInv

\* A step that records one: a rejection is recorded by a command that held the version.
LEMMA RunStep ==
  ASSUME RInv, NEW p \in Commands, NEW c \in Command, command' = [command EXCEPT ![p] = c],
         NEW w \in Nat, NEW o \in RunOutcomes, RecordRun(w, o), Numbered',
         o = "rejected" => Holds(command[p], w), \A v : ~Holds(c, v)
  PROVE  RInv'
  <1>1. runs \in Seq(Run) /\ runs' = Append(runs, [recipe |-> w, outcome |-> o])
    BY DEF RInv, RecipesTyped, RecordRun
  <1>2. RecipesTyped'
    BY <1>1, StreakGrows, CommandMoves DEF RInv, RecipesTyped
  <1>3. ASSUME NEW v \in Nat \ {0}
        PROVE  Cardinality(StreakRuns(v)') + Cardinality(Holders(v)')
                  < HighestThreshold + Cardinality(Commands)
    <2>1. /\ v # w => StreakRuns(v)' = StreakRuns(v)
          /\ v = w /\ o = "rejected" =>
               Cardinality(StreakRuns(v)') = Cardinality(StreakRuns(v)) + 1
          /\ v = w /\ o # "rejected" => Cardinality(StreakRuns(v)') = 0
      BY <1>1, StreakGrows
    <2>2. PICK s \in Nat : s = Cardinality(StreakRuns(v))
      BY <1>1, RunsAre
    <2>3. PICK h \in Nat : h = HighestThreshold /\ h >= 1
      BY ThresholdsAre
    <2>4. PICK n \in Nat : n = Cardinality(Commands)
      BY ThresholdsAre
    <2>5. /\ Holders(v)' \in SUBSET Commands /\ Holders(v) \in SUBSET Commands
          /\ Holders(v)' \in SUBSET (Holders(v) \ {p})
          /\ Holds(command[p], v) => p \in Holders(v)
      BY CommandMoves DEF RInv
    <2>6. PICK a \in Nat : a = Cardinality(Holders(v))
      BY <2>5, HoldersAre
    <2>7. PICK b \in Nat : b = Cardinality(Holders(v)') /\ b <= n
      BY <2>4, <2>5, HoldersAre
    <2>8. s + a < h + n
      BY <2>2, <2>3, <2>4, <2>6 DEF RInv, Breaker
    <2>9. IsFiniteSet(Holders(v)) /\ IsFiniteSet(Holders(v) \ {p})
      BY <2>5, HoldersAre, FS_RemoveElement
    <2>10. b <= a
      <3>1. Holders(v)' \in SUBSET Holders(v)
        BY <2>5
      <3> QED BY <2>6, <2>7, <2>9, <3>1, FS_Subset
    <2>11. CASE v # w
      BY <2>1, <2>2, <2>3, <2>4, <2>7, <2>8, <2>10, <2>11
    <2>12. CASE v = w /\ o = "rejected"
      <3>1. p \in Holders(v)
        BY <2>5, <2>12
      <3>2. Cardinality(Holders(v) \ {p}) = a - 1
        BY <2>6, <2>9, <3>1, FS_RemoveElement
      <3>3. b <= Cardinality(Holders(v) \ {p})
        BY <2>5, <2>7, <2>9, FS_Subset
      <3>4. (s + 1) + b < h + n
        BY <2>8, <3>2, <3>3
      <3> QED BY <2>1, <2>2, <2>3, <2>4, <2>7, <2>12, <3>4
    <2>13. CASE v = w /\ o # "rejected"
      <3>1. 0 + b < h + n
        BY <2>3, <2>7
      <3> QED BY <2>1, <2>3, <2>4, <2>7, <2>13, <3>1
    <2> QED BY <2>11, <2>12, <2>13
  <1>4. Breaker'
    BY <1>3 DEF Breaker, HighestThreshold
  <1> QED BY <1>2, <1>4 DEF RInv

\* The versions stay as they are while a command does something else.
LEMMA VersionsStay ==
  ASSUME RInv, NEW p \in Commands, NEW c \in Command, command' = [command EXCEPT ![p] = c],
         UNCHANGED recipes, c.at = "insert" => c.latest <= Cardinality(DOMAIN recipes),
         c.at \in {"health", "rebind"} => c.candidate # 0,
         c.at \in {"health", "rebind", "match"} => c.recipe = 0
  PROVE  Numbered' /\ VersionsKept
  <1>1. command'[p] = c /\ \A q \in Commands : q # p => command'[q] = command[q]
    BY CommandMoves DEF RInv
  <1>2. Numbered
    BY DEF RInv
  <1> QED BY <1>1, <1>2 DEF Numbered, VersionsKept, Stands

\* What a step of one command comes to.
Safe == RInv' /\ SuspendedForCause /\ VersionsKept

LEMMA NotRunningIs ==
  /\ NotRunning \in Command /\ NotRunning.at = "idle" /\ NotRunning.recipe = 0
  /\ \A v : ~Holds(NotRunning, v)
  BY DEF NotRunning, Command, Holds

\* A command that ends, or dies, holds nothing any more.
LEMMA StopsSafely ==
  ASSUME RInv, NEW p \in Commands, Stops(p), UNCHANGED <<recipes, runs>>
  PROVE  Safe
  <1>1. PICK c \in Command : c = NotRunning /\ c.at = "idle" /\ \A v : ~Holds(c, v)
    BY NotRunningIs
  <1>2. command' = [command EXCEPT ![p] = c]
    BY <1>1 DEF Stops
  <1>3. c.at # "insert" /\ c.at \notin {"health", "rebind", "match"} /\ c.at # "match"
    BY <1>1
  <1>4. Numbered' /\ VersionsKept
    BY <1>2, <1>3, VersionsStay
  <1>5. RInv'
    BY <1>1, <1>2, <1>4, MoveStep
  <1>6. SuspendedForCause
    BY <1>2, <1>3, ForCause DEF RInv
  <1> QED BY <1>4, <1>5, <1>6 DEF Safe

LEMMA RecordsAndStops ==
  ASSUME RInv, NEW p \in Commands, Stops(p), UNCHANGED recipes, NEW w \in Nat,
         NEW o \in RunOutcomes, RecordRun(w, o), o = "rejected" => Holds(command[p], w)
  PROVE  Safe
  <1>1. PICK c \in Command : c = NotRunning /\ c.at = "idle" /\ \A v : ~Holds(c, v)
    BY NotRunningIs
  <1>2. command' = [command EXCEPT ![p] = c]
    BY <1>1 DEF Stops
  <1>3. c.at # "insert" /\ c.at \notin {"health", "rebind", "match"} /\ c.at # "match"
    BY <1>1
  <1>4. Numbered' /\ VersionsKept
    BY <1>2, <1>3, VersionsStay
  <1>5. RInv'
    BY <1>1, <1>2, <1>4, RunStep
  <1>6. SuspendedForCause
    BY <1>2, <1>3, ForCause DEF RInv
  <1> QED BY <1>4, <1>5, <1>6 DEF Safe

\* A command that starts, or that goes on without a version of its own.
LEMMA GoesSafely ==
  ASSUME RInv, NEW p \in Commands, NEW c \in Command, command' = [command EXCEPT ![p] = c],
         UNCHANGED <<recipes, runs>>,
         c.at = "insert" => c.latest <= Cardinality(DOMAIN recipes),
         c.at \in {"health", "rebind"} => c.candidate # 0,
         c.at \in {"health", "rebind", "match"} => c.recipe = 0,
         \A v \in Nat \ {0} : Holds(c, v) => Holds(command[p], v) \/ Streak(v) < Threshold[p],
         Stands(p, "health") /\ c.at = "match" => RejectedAtEnd(command[p].candidate, Threshold[p])
  PROVE  Safe
  <1>1. Numbered' /\ VersionsKept
    BY VersionsStay
  <1>2. RInv'
    BY <1>1, MoveStep
  <1>3. SuspendedForCause
    BY ForCause DEF RInv
  <1> QED BY <1>1, <1>2, <1>3 DEF Safe

LEMMA PlaceIs ==
  ASSUME RecipesTyped, NEW p \in Commands,
         NEW place \in {"idle", "health", "rebind", "match", "preflight", "read", "insert", "first"}
  PROVE  \E c \in Command : /\ c = [command[p] EXCEPT !.at = place]
                            /\ c.at = place /\ c.candidate = command[p].candidate
                            /\ c.recipe = command[p].recipe /\ c.latest = command[p].latest
                            /\ Goes(p, place) <=> command' = [command EXCEPT ![p] = c]
  <1>1. command[p] \in Command
    BY DEF RecipesTyped
  <1>2. PICK c : c = [command[p] EXCEPT !.at = place]
    OBVIOUS
  <1>3. c \in Command /\ c.at = place /\ c.candidate = command[p].candidate
        /\ c.recipe = command[p].recipe /\ c.latest = command[p].latest
    BY <1>1, <1>2 DEF Command
  <1>4. Goes(p, place) <=> command' = [command EXCEPT ![p] = c]
    BY <1>2 DEF Goes
  <1> QED BY <1>2, <1>3, <1>4

LEMMA FindStep ==
  ASSUME RInv, NEW p \in Commands, NEW remember \in BOOLEAN, FindRecipe(p, remember)
  PROVE  Safe
  <1>1. PICK n \in Nat : n = Latest
    BY LatestIs DEF RInv, Numbered
  <1>2. PICK c : c = [NotRunning EXCEPT
                     !.at = IF Latest = 0 THEN "match" ELSE "health",
                     !.candidate = Latest, !.remember = remember, !.observes = TRUE]
    OBVIOUS
  <1>3. /\ c \in Command /\ c.at = (IF n = 0 THEN "match" ELSE "health") /\ c.candidate = n
        /\ c.recipe = 0
    BY <1>1, <1>2 DEF NotRunning, Command
  <1>4. /\ command' = [command EXCEPT ![p] = c] /\ Stands(p, "idle") /\ UNCHANGED <<recipes, runs>>
    BY <1>2 DEF FindRecipe
  <1>5. c.at # "insert" /\ (c.at \in {"health", "rebind"} => c.candidate # 0)
        /\ ~Stands(p, "health") /\ \A v : ~Holds(c, v)
    BY <1>3, <1>4 DEF Stands, Holds
  <1> QED BY <1>3, <1>4, <1>5, GoesSafely

LEMMA PlanSteps ==
  ASSUME RInv, NEW p \in Commands, PreflightPlan(p) \/ RememberPlan(p)
  PROVE  Safe
  <1>1. CASE PreflightPlan(p)
    <2>1. PICK c : c = [NotRunning EXCEPT !.at = "preflight", !.remember = TRUE, !.observes = TRUE]
      OBVIOUS
    <2>2. c \in Command /\ c.at = "preflight" /\ c.recipe = 0
      BY <2>1 DEF NotRunning, Command
    <2>3. /\ command' = [command EXCEPT ![p] = c] /\ UNCHANGED <<recipes, runs>>
      BY <1>1, <2>1 DEF PreflightPlan
    <2>4. /\ c.at # "insert" /\ c.at \notin {"health", "rebind", "match"} /\ c.at # "match"
          /\ \A v \in Nat \ {0} : ~Holds(c, v)
      BY <2>2 DEF Holds
    <2> QED BY <2>2, <2>3, <2>4, GoesSafely
  <1>2. CASE RememberPlan(p)
    <2>1. PICK c : c = [NotRunning EXCEPT !.at = "read", !.remember = TRUE]
      OBVIOUS
    <2>2. c \in Command /\ c.at = "read"
      BY <2>1 DEF NotRunning, Command
    <2>3. /\ command' = [command EXCEPT ![p] = c] /\ UNCHANGED <<recipes, runs>>
      BY <1>2, <2>1 DEF RememberPlan
    <2>4. /\ c.at # "insert" /\ c.at \notin {"health", "rebind", "match"} /\ c.at # "match"
          /\ \A v : ~Holds(c, v)
      BY <2>2 DEF Holds
    <2> QED BY <2>2, <2>3, <2>4, GoesSafely
  <1> QED BY <1>1, <1>2

\* The health of a version lets a command take it up, or makes it look elsewhere.
LEMMA HealthStep ==
  ASSUME RInv, NEW p \in Commands, CheckHealth(p)
  PROVE  Safe
  <1>1. Stands(p, "health") /\ UNCHANGED <<recipes, runs>> /\ RecipesTyped /\ runs \in Seq(Run)
    BY DEF CheckHealth, RInv, RecipesTyped
  <1>2. PICK v \in Nat \ {0} : v = command[p].candidate
    <2>1. command[p] \in Command /\ command[p].candidate # 0
      BY <1>1 DEF RInv, RecipesTyped, Numbered, Stands
    <2> QED BY <2>1 DEF Command
  <1>r. command[p].recipe = 0
    BY <1>1 DEF RInv, Numbered, Stands
  <1>3. PICK t \in Nat : t = Threshold[p]
    BY ThresholdsAre
  <1>4. PICK s \in Nat : s = Streak(v) /\ s = Cardinality(StreakRuns(v))
    BY <1>1, RunsAre, StreakIs
  <1>5. CASE s >= t
    <2>1. PICK c \in Command : /\ c.at = "match" /\ c.recipe = command[p].recipe
                               /\ Goes(p, "match") <=> command' = [command EXCEPT ![p] = c]
      BY <1>1, PlaceIs
    <2>2. Goes(p, "match")
      BY <1>2, <1>3, <1>4, <1>5 DEF CheckHealth, Suspended
    <2>3. RejectedAtEnd(v, t)
      BY <1>1, <1>4, <1>5, StreakMeans
    <2>4. c.at # "insert" /\ c.at \notin {"health", "rebind"} /\ \A u : ~Holds(c, u)
      BY <2>1 DEF Holds
    <2> QED BY <1>1, <1>2, <1>3, <1>r, <2>1, <2>2, <2>3, <2>4, GoesSafely
  <1>6. CASE ~(s >= t)
    <2>1. PICK c \in Command : /\ c.at = "rebind" /\ c.candidate = command[p].candidate
                               /\ c.recipe = command[p].recipe
                               /\ Goes(p, "rebind") <=> command' = [command EXCEPT ![p] = c]
      BY <1>1, PlaceIs
    <2>2. Goes(p, "rebind")
      BY <1>2, <1>3, <1>4, <1>6 DEF CheckHealth, Suspended
    <2>3. s < t
      BY <1>6
    <2>4. /\ c.at # "insert" /\ c.at # "match" /\ c.candidate # 0
          /\ \A u \in Nat \ {0} : Holds(c, u) => Streak(u) < Threshold[p]
      BY <1>2, <1>3, <1>4, <2>1, <2>3 DEF Holds
    <2> QED BY <1>1, <1>r, <2>1, <2>2, <2>4, GoesSafely
  <1> QED BY <1>5, <1>6

LEMMA RebindStep ==
  ASSUME RInv, NEW p \in Commands, Rebind(p)
  PROVE  Safe
  <1>1. Stands(p, "rebind") /\ UNCHANGED recipes /\ RecipesTyped
    BY DEF Rebind, RInv
  <1>2. command[p] \in Command /\ command \in [Commands -> Command]
    BY <1>1 DEF RecipesTyped
  <1>3. PICK v \in Nat : v = command[p].candidate
    BY <1>2 DEF Command
  <1>4. Holds(command[p], v) /\ command[p].recipe = 0
    BY <1>1, <1>3 DEF Holds, Stands, RInv, Numbered
  <1>5. CASE /\ command' = [command EXCEPT ![p].at = "preflight", ![p].recipe = command[p].candidate]
             /\ UNCHANGED runs
    <2>1. PICK c : c = [command[p] EXCEPT !.at = "preflight", !.recipe = v]
      OBVIOUS
    <2>2. c \in Command /\ c.at = "preflight" /\ c.recipe = v
      BY <1>2, <1>3, <2>1 DEF Command
    <2>3. command' = [command EXCEPT ![p] = c]
      BY <1>2, <1>3, <1>5, <2>1
    <2>4. /\ c.at # "insert" /\ c.at \notin {"health", "rebind", "match"} /\ c.at # "match"
          /\ \A u \in Nat \ {0} : Holds(c, u) => Holds(command[p], u)
      BY <1>4, <2>2 DEF Holds
    <2> QED BY <1>1, <1>5, <2>2, <2>3, <2>4, GoesSafely
  <1>6. CASE RecordRun(command[p].candidate, "rejected") /\ Goes(p, "match")
    <2>1. PICK c \in Command : /\ c.at = "match" /\ c.recipe = command[p].recipe
                               /\ Goes(p, "match") <=> command' = [command EXCEPT ![p] = c]
      BY <1>1, PlaceIs
    <2>2. c.at # "insert" /\ c.at \notin {"health", "rebind"} /\ (\A u : ~Holds(c, u))
          /\ ~Stands(p, "health") /\ "rejected" \in RunOutcomes
      BY <1>1, <2>1 DEF Holds, Stands, RunOutcomes
    <2>3. Numbered' /\ VersionsKept
      BY <1>1, <1>4, <1>6, <2>1, <2>2, VersionsStay
    <2>4. RInv'
      BY <1>3, <1>4, <1>6, <2>1, <2>2, <2>3, RunStep
    <2>5. SuspendedForCause
      BY <1>1, <1>6, <2>1, <2>2, ForCause
    <2> QED BY <2>3, <2>4, <2>5 DEF Safe
  <1> QED BY <1>5, <1>6 DEF Rebind

LEMMA MatchStep ==
  ASSUME RInv, NEW p \in Commands, MatchAfresh(p)
  PROVE  Safe
  <1>1. Stands(p, "match") /\ UNCHANGED <<recipes, runs>> /\ RecipesTyped
    BY DEF MatchAfresh, RInv
  <1>2. CASE Stops(p)
    BY <1>1, <1>2, StopsSafely
  <1>3. CASE Goes(p, "preflight")
    <2>1. PICK c \in Command : /\ c.at = "preflight" /\ c.recipe = command[p].recipe
                               /\ Goes(p, "preflight") <=> command' = [command EXCEPT ![p] = c]
      BY <1>1, PlaceIs
    <2>2. command[p].recipe = 0
      BY <1>1 DEF RInv, Numbered, Stands
    <2>3. /\ c.at # "insert" /\ c.at \notin {"health", "rebind", "match"} /\ c.at # "match"
          /\ \A v \in Nat \ {0} : ~Holds(c, v)
      BY <2>1, <2>2 DEF Holds
    <2> QED BY <1>1, <1>3, <2>1, <2>3, GoesSafely
  <1> QED BY <1>2, <1>3 DEF MatchAfresh

LEMMA ObserveStep ==
  ASSUME RInv, NEW p \in Commands, NEW outcome \in RunOutcomes, Observe(p, outcome)
  PROVE  Safe
  <1>1. Stands(p, "preflight") /\ UNCHANGED recipes /\ RecipesTyped
    BY DEF Observe, RInv
  <1>2. PICK v \in Nat : v = command[p].recipe
    <2>1. command[p] \in Command
      BY <1>1 DEF RecipesTyped
    <2> QED BY <2>1 DEF Command
  <1>3. Holds(command[p], v)
    BY <1>1, <1>2 DEF Holds, Stands
  <1>4. CASE RecordRun(command[p].recipe, outcome) /\ Stops(p)
    BY <1>1, <1>2, <1>3, <1>4, RecordsAndStops
  <1>5. CASE UNCHANGED runs /\ Stops(p)
    BY <1>1, <1>5, StopsSafely
  <1>6. CASE UNCHANGED runs /\ Goes(p, "read")
    <2>1. PICK c \in Command : c.at = "read" /\ (Goes(p, "read") <=> command' = [command EXCEPT ![p] = c])
      BY <1>1, PlaceIs
    <2>2. /\ c.at # "insert" /\ c.at \notin {"health", "rebind", "match"} /\ c.at # "match"
          /\ \A u : ~Holds(c, u)
      BY <2>1 DEF Holds
    <2> QED BY <1>1, <1>6, <2>1, <2>2, GoesSafely
  <1> QED BY <1>4, <1>5, <1>6 DEF Observe

LEMMA RecipeReadStep ==
  ASSUME RInv, NEW p \in Commands, ReadLatest(p)
  PROVE  Safe
  <1>1. UNCHANGED <<recipes, runs>> /\ RecipesTyped /\ command[p] \in Command
    BY DEF ReadLatest, RInv, RecipesTyped
  <1>2. PICK n \in Nat : n = Latest /\ n = Cardinality(DOMAIN recipes)
    BY LatestIs DEF RInv, Numbered
  <1>3. PICK c : c = [command[p] EXCEPT !.latest = n, !.at = "insert"]
    OBVIOUS
  <1>4. c \in Command /\ c.at = "insert" /\ c.latest = n
    BY <1>1, <1>3 DEF Command
  <1>5. command' = [command EXCEPT ![p] = c]
    BY <1>1, <1>2, <1>3 DEF ReadLatest, RecipesTyped
  <1>6. /\ c.at \notin {"health", "rebind", "match"} /\ c.at # "match" /\ (\A u : ~Holds(c, u))
        /\ c.latest <= Cardinality(DOMAIN recipes)
    BY <1>2, <1>4 DEF Holds
  <1> QED BY <1>1, <1>4, <1>5, <1>6, GoesSafely

\* Of two commands that insert the same version one gets an error.
LEMMA InsertStep ==
  ASSUME RInv, NEW p \in Commands, InsertVersion(p)
  PROVE  Safe
  <1>1. Stands(p, "insert") /\ UNCHANGED runs /\ RecipesTyped /\ Numbered
    BY DEF InsertVersion, RInv
  <1>2. command[p] \in Command /\ command \in [Commands -> Command]
    BY <1>1 DEF RecipesTyped
  <1>3. PICK l \in Nat : l = command[p].latest
    BY <1>2 DEF Command
  <1>4. PICK n \in Nat : n = Cardinality(DOMAIN recipes) /\ DOMAIN recipes = 1..n
    BY <1>1 DEF Numbered
  <1>5. l <= n
    BY <1>1, <1>3, <1>4 DEF Numbered
  <1>6. CASE l + 1 \in DOMAIN recipes
    <2>1. Stops(p) /\ UNCHANGED recipes
      BY <1>3, <1>6 DEF InsertVersion
    <2> QED BY <1>1, <2>1, StopsSafely
  <1>7. CASE l + 1 \notin DOMAIN recipes
    <2>1. l = n
      <3>1. l + 1 \notin 1..n
        BY <1>4, <1>7
      <3> QED BY <1>5, <3>1
    <2>2. /\ recipes' = [v \in DOMAIN recipes \cup {n + 1} |-> IF v = n + 1 THEN p ELSE recipes[v]]
          /\ IF command[p].observes
             THEN command' = [command EXCEPT ![p].recipe = n + 1, ![p].at = "first"]
             ELSE Stops(p)
      BY <1>3, <1>7, <2>1 DEF InsertVersion
    <2>3. DOMAIN recipes' = 1..(n + 1) /\ \A v \in 1..n : recipes'[v] = recipes[v]
      <3>1. (1..n) \cup {n + 1} = 1..(n + 1) /\ \A v \in 1..n : v # n + 1
        OBVIOUS
      <3> QED BY <1>4, <2>2, <3>1
    <2>4. Cardinality(DOMAIN recipes') = n + 1
      <3>1. Cardinality(1..(n + 1)) = n + 1
        BY FS_Interval
      <3> QED BY <2>3, <3>1
    <2>5. VersionsKept
      <3>1. 1..n \subseteq 1..(n + 1)
        OBVIOUS
      <3> QED BY <1>4, <2>3, <2>4, <3>1 DEF VersionsKept
    <2>6. PICK c \in Command : /\ command' = [command EXCEPT ![p] = c]
                               /\ c.at \in {"first", "idle"} /\ \A u : ~Holds(c, u)
      <3>1. CASE ~command[p].observes
        <4>1. Stops(p)
          BY <2>2, <3>1
        <4> QED BY <4>1, NotRunningIs DEF Stops
      <3>2. CASE command[p].observes
        <4>1. PICK c : c = [command[p] EXCEPT !.recipe = n + 1, !.at = "first"]
          OBVIOUS
        <4>2. c \in Command /\ c.at = "first"
          <5>1. n + 1 \in Nat
            OBVIOUS
          <5> QED BY <1>2, <4>1, <5>1 DEF Command
        <4>3. command' = [command EXCEPT ![p] = c]
          BY <1>2, <2>2, <3>2, <4>1
        <4>4. \A u : ~Holds(c, u)
          BY <4>2 DEF Holds
        <4> QED BY <4>2, <4>3, <4>4
      <3> QED BY <3>1, <3>2
    <2>7. c.at # "insert" /\ c.at \notin {"health", "rebind", "match"} /\ c.at # "match"
      BY <2>6
    <2>8. Numbered'
      <3>1. /\ command'[p] = c /\ \A q \in Commands : q # p => command'[q] = command[q]
        BY <1>1, <2>6, CommandMoves
      <3>2. Cardinality(DOMAIN recipes') \in Nat /\ DOMAIN recipes' = 1..Cardinality(DOMAIN recipes')
        BY <2>3, <2>4
      <3>3. ASSUME NEW q \in Commands, command'[q].at = "insert"
            PROVE  command'[q].latest <= n + 1
        <4>1. q # p /\ command'[q] = command[q]
          BY <2>7, <3>1, <3>3
        <4>2. PICK k \in Nat : k = command[q].latest
          BY <1>2 DEF Command
        <4>3. k <= n
          BY <1>1, <1>4, <3>3, <4>1, <4>2 DEF Numbered, Stands
        <4> QED BY <4>1, <4>2, <4>3
      <3>4. \A q \in Commands :
              /\ command'[q].at \in {"health", "rebind"} => command'[q].candidate # 0
              /\ command'[q].at \in {"health", "rebind", "match"} => command'[q].recipe = 0
        BY <1>1, <2>7, <3>1 DEF Numbered
      <3> QED BY <2>4, <3>2, <3>3, <3>4 DEF Numbered, Stands
    <2>9. RInv'
      BY <1>1, <2>6, <2>8, MoveStep
    <2>10. SuspendedForCause
      BY <1>1, <2>6, <2>7, ForCause
    <2> QED BY <2>5, <2>9, <2>10 DEF Safe
  <1> QED BY <1>6, <1>7

LEMMA FirstRunStep ==
  ASSUME RInv, NEW p \in Commands, FirstRun(p)
  PROVE  Safe
  <1>1. PICK v \in Nat : v = command[p].recipe
    <2>1. command[p] \in Command
      BY DEF RInv, RecipesTyped
    <2> QED BY <2>1 DEF Command
  <1>2. /\ RecordRun(v, "success") /\ Stops(p) /\ UNCHANGED recipes
        /\ "success" \in RunOutcomes /\ "success" # "rejected"
    BY <1>1 DEF FirstRun, RunOutcomes
  <1> QED BY <1>1, <1>2, RecordsAndStops

-----------------------------------------------------------------------------
(* The recipes are safe                                                    *)

LEMMA RecipesStart == RecipeInit => RInv
  <1> SUFFICES ASSUME RecipeInit PROVE RInv
    OBVIOUS
  <1>1. recipes = <<>> /\ runs = <<>> /\ command = [p \in Commands |-> NotRunning]
    BY DEF RecipeInit
  <1>2. RecipesTyped
    BY <1>1, NotRunningIs DEF RecipesTyped
  <1>3. Numbered
    <2>1. DOMAIN recipes = {} /\ 1..0 = {} /\ Cardinality({}) = 0
      BY <1>1, FS_EmptySet
    <2> QED BY <1>1, <2>1, NotRunningIs DEF Numbered, Stands
  <1>4. Breaker
    <2> SUFFICES ASSUME NEW p \in Commands, NEW v \in Nat \ {0}
                 PROVE  Cardinality(StreakRuns(v)) + Cardinality(Holders(v))
                           < HighestThreshold + Cardinality(Commands)
      BY DEF Breaker
    <2>1. StreakRuns(v) = {} /\ Holders(v) = {}
      BY <1>1, NotRunningIs DEF StreakRuns, RunsOf, Holders
    <2>2. HighestThreshold \in Nat /\ HighestThreshold >= 1 /\ Cardinality(Commands) \in Nat
      BY ThresholdsAre
    <2> QED BY <2>1, <2>2, FS_EmptySet
  <1> QED BY <1>2, <1>3, <1>4 DEF RInv

LEMMA RecipeSteps == RInv /\ RecipeNext => Safe /\ Commands # {}
  <1> SUFFICES ASSUME RInv, RecipeNext PROVE Safe /\ Commands # {}
    OBVIOUS
  <1>1. PICK p \in Commands :
          \/ \E remember \in BOOLEAN : FindRecipe(p, remember)
          \/ PreflightPlan(p) \/ RememberPlan(p)
          \/ CheckHealth(p) \/ Rebind(p) \/ MatchAfresh(p)
          \/ \E outcome \in RunOutcomes : Observe(p, outcome)
          \/ ReadLatest(p) \/ InsertVersion(p) \/ FirstRun(p) \/ CommandDies(p)
    BY DEF RecipeNext
  <1>2. CASE CommandDies(p)
    BY <1>2, StopsSafely DEF CommandDies
  <1> QED BY <1>1, <1>2, FindStep, PlanSteps, HealthStep, RebindStep, MatchStep, ObserveStep,
             RecipeReadStep, InsertStep, FirstRunStep

LEMMA RecipesRest == RInv /\ UNCHANGED recipeVars => RInv'
  <1> SUFFICES ASSUME RInv, UNCHANGED recipeVars PROVE RInv'
    OBVIOUS
  <1>1. UNCHANGED <<recipes, runs, command>>
    BY DEF recipeVars
  <1>2. \A v : StreakRuns(v)' = StreakRuns(v) /\ Holders(v)' = Holders(v)
    BY <1>1 DEF StreakRuns, RunsOf, Holders
  <1> QED BY <1>1, <1>2 DEF RInv, RecipesTyped, Numbered, Stands, Breaker, HighestThreshold

LEMMA CircuitIs == RInv => (Commands # {} => CircuitHolds)
  <1> SUFFICES ASSUME RInv, NEW p \in Commands, NEW v \in DOMAIN recipes
               PROVE  ~RejectedAtEnd(v, HighestThreshold + Cardinality(Commands))
    BY DEF CircuitHolds, HighestThreshold
  <1>1. v \in Nat \ {0}
    BY DEF RInv, Numbered
  <1>2. PICK n \in Nat : n = HighestThreshold + Cardinality(Commands)
    BY ThresholdsAre
  <1>3. PICK s \in Nat : s = Cardinality(StreakRuns(v))
    BY RunsAre DEF RInv, RecipesTyped
  <1>4. Holders(v) \in SUBSET Commands
    BY DEF Holders
  <1>5. PICK a \in Nat : a = Cardinality(Holders(v))
    BY <1>4, HoldersAre
  <1>6. s + a < n
    BY <1>1, <1>2, <1>3, <1>5 DEF RInv, Breaker
  <1>7. ~(s >= n)
    BY <1>6
  <1> QED BY <1>2, <1>3, <1>7, StreakMeans DEF RInv, RecipesTyped

(* However many commands use and remember recipes beside each other, die   *)
(* between two statements and reject what they hold: a version is rejected *)
(* in a row no more often than the threshold and the commands under way    *)
(* allow, is passed over only for rejections that are its newest runs, and *)
(* keeps its number and its plan (RecipeStore.remember, record_run and     *)
(* health).                                                                *)
THEOREM RecipesAreSafe == RecipeSpec => RecipesSafe
  <1>1. RecipeInit => RInv
    BY RecipesStart
  <1>2. RInv /\ [RecipeNext]_recipeVars => RInv'
    BY RecipeSteps, RecipesRest DEF Safe
  <1>3. RInv' => (Commands # {} => CircuitHolds)'
    BY CircuitIs, PTL
  <1>4. RInv /\ [RecipeNext]_recipeVars =>
          [CircuitHolds' /\ SuspendedForCause /\ VersionsKept]_recipeVars
    BY <1>3, RecipeSteps DEF Safe
  <1> QED BY <1>1, <1>2, <1>4, PTL DEF RecipeSpec, RecipesSafe

=============================================================================
