--------------------------- MODULE FileDestination ---------------------------
(***************************************************************************)
(* File destinations: writers that append their record to one CSV or JSON  *)
(* file (connectors/csv_file.py, connectors/json_file.py) under the path   *)
(* lock and by atomic publication (filesystem.py).  Writers are threads of *)
(* several processes; processes die, steps fail, waits time out, and a     *)
(* program that knows nothing of the lock edits or creates the file.       *)
(***************************************************************************)
EXTENDS Naturals, Sequences, FiniteSets, SequencesExt

CONSTANTS
    Writers,      \* threads that write
    ProcessOf,    \* the process of each writer
    Format,       \* "csv" or "json" for each writer
    MaxTries,     \* bound: writes of one writer
    MaxTroubles   \* bound: deaths, failing steps and foreign edits

Processes == {ProcessOf[w] : w \in Writers}
LockObjects == 1..Cardinality(Writers) * MaxTries

ASSUME FileConstants ==
    /\ \A w \in Writers : Format[w] \in {"csv", "json"}
    /\ {MaxTries, MaxTroubles} \subseteq Nat
    /\ IsFiniteSet(Writers) /\ Writers \cap {"unowned", "edit"} = {}

VARIABLES
    lockTable,   \* _THREAD_LOCKS of each process
    lockOwner,   \* the writer that has acquired each thread lock object
    lockObjects, \* thread lock objects made so far
    lockFile,    \* the lock file: "none", "empty" or "ready"
    kernelLock,  \* the writer whose descriptor holds the file lock
    destination, \* the target file: its identity, 0 if there is none, and its rows
    identities,  \* file identities used so far
    fw,          \* what each writer is doing
    temps,       \* temporary files beside the target
    troubles

fileVars == <<lockTable, lockOwner, lockObjects, lockFile, kernelLock, destination,
              identities, fw, temps, troubles>>
lockVars == <<lockTable, lockOwner, lockObjects, lockFile, kernelLock>>

Unowned == "unowned"
NoEntry == [object |-> 0, users |-> 0]
FileRow(w) == <<w, fw[w].tries>>
Trouble == troubles < MaxTroubles /\ troubles' = troubles + 1

At(w, phase) == fw[w].at = phase
Moves(w, phase) == fw' = [fw EXCEPT ![w].at = phase]

-----------------------------------------------------------------------------
(* exclusive_path_lock: first the lock of the process, then the file's.    *)

(* _thread_lock_for.  There is an object left: a write makes at most one.  *)
Begin(w) ==
    LET p == ProcessOf[w]
        new == lockTable[p] = NoEntry
        object == IF new THEN lockObjects + 1 ELSE lockTable[p].object
    IN /\ At(w, "idle") /\ fw[w].tries < MaxTries
       /\ lockTable' = [lockTable EXCEPT ![p] = [object |-> object, users |-> @.users + 1]]
       /\ object \in LockObjects
       /\ lockObjects' = IF new THEN object ELSE lockObjects
       /\ fw' = [fw EXCEPT ![w] = [fw[w] EXCEPT !.at = "wait", !.object = object,
                                                !.says = "none", !.tries = @ + 1]]
       /\ UNCHANGED <<lockOwner, lockFile, kernelLock, destination, identities, temps,
                      troubles>>

AcquireThread(w) ==
    /\ At(w, "wait") /\ lockOwner[fw[w].object] = Unowned
    /\ lockOwner' = [lockOwner EXCEPT ![fw[w].object] = w]
    /\ Moves(w, "open")
    /\ UNCHANGED <<lockTable, lockObjects, lockFile, kernelLock, destination, identities,
                   temps, troubles>>

(* PathLockTimeout; a connector reports it as not committed.               *)
ThreadTimeout(w) ==
    /\ At(w, "wait") /\ lockOwner[fw[w].object] # Unowned
    /\ fw' = [fw EXCEPT ![w].at = "dereference", ![w].says = "not committed"]
    /\ UNCHANGED <<lockVars, destination, identities, temps, troubles>>

(* _open_lock_file: a file of another size under that name is an error.    *)
OpenLock(w) ==
    /\ At(w, "open")
    /\ fw' = CASE lockFile = "ready" -> [fw EXCEPT ![w].at = "try"]
               [] lockFile = "none"  -> [fw EXCEPT ![w].at = "initialize"]
               [] lockFile = "empty" -> [fw EXCEPT ![w].at = "release", ![w].says = "lock error"]
    /\ UNCHANGED <<lockVars, destination, identities, temps, troubles>>

(* _publish_initialized_lock_file links a file that is complete; that      *)
(* somebody else was faster does not matter.                               *)
PublishLock(w) ==
    /\ At(w, "initialize")
    /\ lockFile' = "ready" /\ Moves(w, "try")
    /\ UNCHANGED <<lockTable, lockOwner, lockObjects, kernelLock, destination, identities,
                   temps, troubles>>

(* _try_lock: every descriptor excludes every other one.                   *)
TryLock(w) ==
    /\ At(w, "try") /\ kernelLock = Unowned
    /\ kernelLock' = w /\ Moves(w, "inspect")
    /\ UNCHANGED <<lockTable, lockOwner, lockObjects, lockFile, destination, identities,
                   temps, troubles>>

FileTimeout(w) ==
    /\ At(w, "try") /\ kernelLock # Unowned
    /\ fw' = [fw EXCEPT ![w].at = "release", ![w].says = "not committed"]
    /\ UNCHANGED <<lockVars, destination, identities, temps, troubles>>

(* The finally clause, from the inside out.                                *)
Unlock(w) ==
    /\ At(w, "unlock")
    /\ kernelLock' = Unowned /\ Moves(w, "release")
    /\ UNCHANGED <<lockTable, lockOwner, lockObjects, lockFile, destination, identities,
                   temps, troubles>>

ReleaseThread(w) ==
    /\ At(w, "release")
    /\ lockOwner' = [lockOwner EXCEPT ![fw[w].object] = Unowned]
    /\ Moves(w, "dereference")
    /\ UNCHANGED <<lockTable, lockObjects, lockFile, kernelLock, destination, identities,
                   temps, troubles>>

DereferencedByFirst(entry) == NoEntry

(* _release_thread_lock_reference: the last user removes the entry.        *)
Dereferenced(entry) ==
    IF entry.users > 1 THEN [entry EXCEPT !.users = @ - 1] ELSE NoEntry

Dereference(w) ==
    LET p == ProcessOf[w]
    IN /\ At(w, "dereference")
       /\ lockTable' = IF lockTable[p].object = fw[w].object
                       THEN [lockTable EXCEPT ![p] = Dereferenced(lockTable[p])] ELSE lockTable
       /\ Moves(w, "idle")
       /\ UNCHANGED <<lockOwner, lockObjects, lockFile, kernelLock, destination, identities,
                      temps, troubles>>

-----------------------------------------------------------------------------
(* The write itself, inside the lock.                                      *)

(* A step that raises: the temporary file is removed on the way out.       *)
Abort(w, verdict) ==
    /\ fw' = [fw EXCEPT ![w].at = "unlock", ![w].says = verdict]
    /\ temps' = temps \ {FileRow(w)}
    /\ UNCHANGED <<lockVars, destination, identities>>

(* A value or structure the connector refuses: the JSON writer says that   *)
(* nothing was committed, the CSV writer lets the error through.           *)
Refused(w) == IF Format[w] = "csv" THEN "raised" ELSE "not committed"

(* Whether the target exists, and its identity, are taken afresh; then its *)
(* fields and limits are compared, which may be an error of the caller's.  *)
Inspect(w) ==
    /\ At(w, "inspect")
    /\ \/ /\ fw' = [fw EXCEPT ![w].saw = destination.id,
                            ![w].at = IF Format[w] = "csv" THEN "prepare" ELSE "read"]
          /\ UNCHANGED <<lockVars, destination, identities, temps, troubles>>
       \/ Trouble /\ Abort(w, Refused(w))

(* The CSV writer opens its temporary file before it reads, the JSON       *)
(* writer after it has verified.                                           *)
Prepare(w) ==
    /\ At(w, "prepare")
    /\ \/ /\ temps' = temps \cup {FileRow(w)}
          /\ Moves(w, IF Format[w] = "csv" THEN "read" ELSE "publish")
          /\ UNCHANGED <<lockVars, destination, identities, troubles>>
       \/ Trouble /\ Abort(w, "not committed")

(* require_matching_file_identity                                          *)
Unchanged(w) == fw[w].saw = 0 \/ destination.id = fw[w].saw

ReadRows(w) ==
    /\ At(w, "read")
    /\ \/ /\ Unchanged(w)
          /\ fw' = [fw EXCEPT ![w].at = "verify",
                      ![w].copy = IF fw[w].saw = 0 THEN <<>> ELSE destination.rows]
          /\ UNCHANGED <<lockVars, destination, identities, temps, troubles>>
       \/ ~Unchanged(w) /\ Abort(w, "not committed") /\ UNCHANGED troubles
       \/ Trouble /\ Abort(w, Refused(w))

(* _verify_cached_source, if the target existed.                           *)
VerifySource(w) ==
    /\ At(w, "verify")
    /\ \/ /\ Unchanged(w)
          /\ Moves(w, IF Format[w] = "csv" THEN "publish" ELSE "prepare")
          /\ UNCHANGED <<lockVars, destination, identities, temps, troubles>>
       \/ ~Unchanged(w) /\ Abort(w, "not committed") /\ UNCHANGED troubles

Published(w) ==
    /\ destination' = [id |-> identities + 1, rows |-> Append(fw[w].copy, FileRow(w))]
    /\ identities' = identities + 1

(* os.replace: the temporary file becomes the target.                      *)
Replace(w) ==
    /\ At(w, "publish") /\ fw[w].saw # 0
    /\ \/ /\ Published(w)
          /\ fw' = [fw EXCEPT ![w].at = "unlock", ![w].says = "written"]
          /\ temps' = temps \ {FileRow(w)}
          /\ UNCHANGED <<lockVars, troubles>>
       \/ Trouble /\ Abort(w, "not committed")

LinkOver(w) ==
    /\ At(w, "publish") /\ fw[w].saw = 0
    /\ Published(w) /\ Moves(w, "tidy")
    /\ UNCHANGED <<lockVars, temps, troubles>>

(* os.link: only if there is no target by now.                             *)
LinkNew(w) ==
    /\ At(w, "publish") /\ fw[w].saw = 0
    /\ \/ /\ destination.id = 0
          /\ Published(w) /\ Moves(w, "tidy")
          /\ UNCHANGED <<lockVars, temps, troubles>>
       \/ destination.id # 0 /\ Abort(w, "not committed") /\ UNCHANGED troubles
       \/ Trouble /\ Abort(w, "not committed")

(* The second name is removed; if that fails the write has happened all    *)
(* the same.                                                               *)
Tidy(w) ==
    /\ At(w, "tidy")
    /\ \/ temps' = temps \ {FileRow(w)} /\ UNCHANGED troubles
       \/ Trouble /\ UNCHANGED temps
    /\ fw' = [fw EXCEPT ![w].at = "unlock", ![w].says = "written"]
    /\ UNCHANGED <<lockVars, destination, identities>>

-----------------------------------------------------------------------------
(* A program that does not take the lock writes the file.                  *)
ForeignEdit ==
    /\ Trouble
    /\ destination' = [id |-> identities + 1,
                       rows |-> Append(destination.rows, <<"edit", troubles>>)]
    /\ identities' = identities + 1
    /\ UNCHANGED <<lockVars, fw, temps>>

(* A process dies: its locks are gone, its temporary files stay.           *)
ProcessDies(p) ==
    LET mine == {w \in Writers : ProcessOf[w] = p}
    IN /\ \E w \in mine : ~At(w, "idle")
       /\ Trouble
       /\ lockTable' = [lockTable EXCEPT ![p] = NoEntry]
       /\ lockOwner' = [o \in LockObjects |-> IF lockOwner[o] \in mine THEN Unowned
                                              ELSE lockOwner[o]]
       /\ kernelLock' = IF kernelLock \in mine THEN Unowned ELSE kernelLock
       /\ fw' = [w \in Writers |->
                   IF w \in mine /\ ~At(w, "idle")
                   THEN [fw[w] EXCEPT !.at = "idle", !.says = "died"]
                   ELSE fw[w]]
       /\ UNCHANGED <<lockObjects, lockFile, destination, identities, temps>>

FileInit ==
    /\ lockTable = [p \in Processes |-> NoEntry]
    /\ lockOwner = [o \in LockObjects |-> Unowned]
    /\ lockObjects = 0 /\ kernelLock = Unowned
    /\ lockFile \in {"none", "ready", "empty"}
    /\ destination \in {[id |-> 0, rows |-> <<>>], [id |-> 1, rows |-> <<>>]}
    /\ identities = 1
    /\ fw = [w \in Writers |-> [at |-> "idle", object |-> 0, saw |-> 0, copy |-> <<>>,
                                says |-> "none", tries |-> 0]]
    /\ temps = {} /\ troubles = 0

FileNext ==
    \/ \E w \in Writers :
         \/ Begin(w) \/ AcquireThread(w) \/ ThreadTimeout(w) \/ OpenLock(w) \/ PublishLock(w)
         \/ TryLock(w) \/ FileTimeout(w) \/ Unlock(w) \/ ReleaseThread(w) \/ Dereference(w)
         \/ Inspect(w) \/ Prepare(w) \/ ReadRows(w) \/ VerifySource(w)
         \/ Replace(w) \/ LinkNew(w) \/ Tidy(w)
    \/ ForeignEdit
    \/ \E p \in Processes : ProcessDies(p)

FileSpec == FileInit /\ [][FileNext]_fileVars

-----------------------------------------------------------------------------
Inside == {"inspect", "prepare", "read", "verify", "publish", "tidy", "unlock"}

(* Every writer inside the lock holds both halves of it, so no two writers *)
(* of any process work on the file at once.                                *)
LockExcludes ==
    \A w \in Writers : fw[w].at \in Inside => kernelLock = w /\ lockOwner[fw[w].object] = w

(* The table of thread locks counts its users, so that all writers of a    *)
(* process wait for the same lock object, and an entry goes with its last  *)
(* user (_THREAD_LOCKS).                                                   *)
LockTableTrue ==
    \A p \in Processes :
        LET users == {w \in Writers : ProcessOf[w] = p /\ ~At(w, "idle")}
        IN /\ lockTable[p].users = Cardinality(users)
           /\ \A w \in users : fw[w].object = lockTable[p].object

(* What a writer was told is true for good: a written record is in the     *)
(* file, whatever other writers do to it later, and one that was not       *)
(* committed is not (the outcome the delivery runtime retries on).         *)
VerdictTrue ==
    \A w \in Writers : At(w, "idle") =>
        /\ fw[w].says = "written" => FileRow(w) \in Range(destination.rows)
        /\ fw[w].says = "not committed" => FileRow(w) \notin Range(destination.rows)

(* When everybody is done every lock is free, and the only temporary files *)
(* are those of the dead and second names of a target.                     *)
NothingHeldAtRest ==
    /\ (\A w \in Writers : At(w, "idle")) =>
         kernelLock = Unowned /\ \A o \in LockObjects : lockOwner[o] = Unowned
    /\ \A w \in Writers : At(w, "idle") /\ FileRow(w) \in temps =>
         fw[w].says \in {"died", "written"}

(* A writer that found no file creates one and replaces none: what somebody*)
(* else has created meanwhile stays.                                       *)
CreatedIsKept ==
    \A w \in Writers :
       fw[w].saw = 0 /\ At(w, "publish") /\ destination' # destination
         /\ fw'[w].at # "publish" =>
       destination.id = 0

(* exclusive_path_lock: one writer of all processes at a time, one lock    *)
(* object for all threads of one, and everything free at the end.          *)
LockSafe == LockExcludes /\ LockTableTrue /\ NothingHeldAtRest

(* Publication: what writers were told stays true and what others have     *)
(* created stays (atomic_text_writer, write_records).                      *)
PublicationTrue == [][VerdictTrue' /\ CreatedIsKept]_fileVars

=============================================================================
