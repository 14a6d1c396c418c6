-------------------------- MODULE ParserIsolation --------------------------
(***************************************************************************)
(* One inspection of an untrusted file in a parser worker: ParserWorker-   *)
(* Client.inspect_content, snapshot_input, _WorkerRunner.run,              *)
(* _verify_snapshot and _decode_response of isolation.py, with the worker  *)
(* of parser_worker.py at the other end of the pipes.  Other programs edit *)
(* the source file while it is copied; the parsing library inside the      *)
(* worker may crash, hang, print, fork, rewrite the snapshot or answer in  *)
(* the worker's place.  A file is a sequence of chunks and a change stamp  *)
(* (mtime_ns and ctime_ns: every write changes it); a digest is the        *)
(* content itself.  The clock is left out: a deadline may pass whenever it *)
(* is consulted.                                                           *)
(***************************************************************************)
EXTENDS Integers, Sequences, FiniteSets

CONSTANTS
    Contents,      \* what files can hold: sequences of chunks
    Original,      \* what the two files hold at first
    MaxInput,      \* SandboxPolicy.max_input_bytes, in chunks
    MaxStdout,     \* max_stdout_bytes; the worker's own answer just fits
    MaxStderr,     \* max_stderr_bytes
    Hosts,         \* the hosts a client may run on, with bounds: how often
                   \* other programs touch the source (edits) and the parsing
                   \* library writes to a pipe (writes), and whether polling
                   \* a pipe can fail (faulty)
    Policies       \* for each host, its pairs of backend and minimum_level

ParserAssumption ==
    /\ Contents # {}
    /\ \A d \in Contents : Len(d) > 0 /\ d \in Seq({d[i] : i \in DOMAIN d})
    /\ Original \in [{1, 2} -> Contents]
    /\ {MaxInput, MaxStdout, MaxStderr} \subseteq Nat
    /\ \A h \in Hosts : h.edits \in Nat /\ h.writes \in Nat
    /\ DOMAIN Policies = Hosts
    /\ \A h \in Hosts :
          Policies[h] \subseteq [backend : {"auto", "process", "bubblewrap"}, minimum : 1..3]
    /\ MaxInput > 0
    /\ MaxStdout = 2

ASSUME ParserAssumptionHolds == ParserAssumption

VARIABLES
    files,     \* what the file system holds under each inode
    path,      \* the inode the source path names, or Link or Gone
    edits,     \* bound: how often other programs have touched the source
    held,      \* history: whole contents the path has had since the call
    snap,      \* the private copy under the temporary directory
    client,    \* the thread in inspect_content
    proc,      \* the worker process
    kid,       \* a descendant of the worker
    worker,    \* the program state of the worker
    pipe,      \* written and not yet read
    buf,       \* what the two _BoundedPipeReaders have retained
    rd,        \* the state of the two readers
    host,      \* where the client runs
    policy     \* its backend argument and SandboxPolicy

parserVars == <<files, path, edits, held, snap, client, proc, kid, worker, pipe, buf,
                rd, host, policy>>

-----------------------------------------------------------------------------
(* Files and identities.                                                   *)

Inodes == 1..2
Link == 0 - 1
Gone == 0

NoFile == [data |-> <<>>, stamp |-> 0 - 1]

(* SnapshotFileIdentity.from_stat of the file an inode holds.              *)
Identity(i) == <<i, Len(files[i].data), files[i].stamp>>

(* Containment levels and the backends that reach them.                    *)
PROCESS == 1
RESOURCE_LIMITED_PROCESS == 2
OS_SANDBOX == 3

(* Resource limits that the worker cannot lift: a job object, or rlimits   *)
(* for anyone but root.                                                    *)
ResourceLimits == IF host.os = "nt" THEN host.jobs ELSE host.rlimits /\ ~host.root

ProcessLevel == IF ResourceLimits THEN RESOURCE_LIMITED_PROCESS ELSE PROCESS

(* The version and feature queries, bounded like a worker, accept only a   *)
(* current binary that offers every option.                                *)
BubblewrapCompatible == host.bwrap = "current"

BubblewrapUsable == host.os = "linux" /\ host.bwrap # "setid" /\ BubblewrapCompatible

BackendLevel(b) == IF b = "bubblewrap" THEN OS_SANDBOX ELSE ProcessLevel

BackendAvailable(b) == b = "process" \/ BubblewrapUsable

-----------------------------------------------------------------------------
(* Leaving inspect_content.  Every path runs the finally clause of run and  *)
(* drops the temporary directory: pc = "cleanup" stands for both.          *)

Streams == {"out", "err"}

NoReport == [data |-> <<>>, parsed |-> <<>>, level |-> 0]

Fail(code) == client' = [client EXCEPT !.pc = "cleanup", !.result = code]

(* _terminate: SIGKILL for the whole process group on POSIX, whoever is    *)
(* left in it; on Windows a live main process only, whose job object takes *)
(* every descendant with it.                                               *)
Terminate ==
    /\ proc' = IF proc.state = "running" THEN [proc EXCEPT !.killed = TRUE] ELSE proc
    /\ kid' = IF kid = "alive" /\ host.os # "nt" THEN "killed" ELSE kid

(* _runner, for a client that has not chosen yet: Bubblewrap when it is    *)
(* usable, else a plain process, and nothing below the minimum.            *)
Select ==
    /\ client.pc = "select"
    /\ LET b == IF policy.backend # "auto" THEN policy.backend
                ELSE IF BubblewrapUsable THEN "bubblewrap" ELSE "process"
       IN IF ~BackendAvailable(b) THEN Fail("backend_unavailable")
          ELSE IF BackendLevel(b) < policy.minimum THEN Fail("containment_too_weak")
          ELSE client' = [client EXCEPT !.pc = "lstat", !.runner = b]
    /\ UNCHANGED <<files, path, edits, held, snap, proc, kid, worker, pipe, buf, rd,
                   host, policy>>

(* snapshot_input up to its own open: the checks on the path.              *)
Lstat ==
    /\ client.pc = "lstat"
    /\ CASE path = Gone -> Fail("input_not_regular")
         [] path = Link -> Fail("input_symlink")
         [] path \in Inodes /\ Len(files[path].data) > MaxInput -> Fail("input_too_large")
         [] OTHER -> client' = [client EXCEPT !.pc = "open", !.initial = Identity(path)]
    /\ held' = IF path \in Inodes THEN {files[path].data} ELSE {}
    /\ UNCHANGED <<files, path, edits, snap, proc, kid, worker, pipe, buf, rd, host, policy>>

(* The open does not follow links; from here the descriptor is read,       *)
(* whatever the path becomes.                                              *)
Open ==
    /\ client.pc = "open"
    /\ IF path \in Inodes /\ Identity(path) = client.initial
       THEN \/ client' = [client EXCEPT !.pc = "copy"]
            \/ Fail("snapshot_failed")              \* no room for the copy
       ELSE Fail("input_changed")
    /\ UNCHANGED <<files, path, edits, held, snap, proc, kid, worker, pipe, buf, rd,
                   host, policy>>

Copy ==
    /\ client.pc = "copy"
    /\ LET data == files[client.initial[1]].data
           n == Len(client.copied)
       IN CASE n < client.initial[2] /\ n < Len(data) ->
                 client' = [client EXCEPT !.copied = Append(@, data[n + 1])]
            [] n < client.initial[2] /\ n >= Len(data) -> Fail("input_changed")
            [] n = client.initial[2] /\ Len(data) > n -> Fail("input_changed")
            [] OTHER -> client' = [client EXCEPT !.pc = "freeze"]
    /\ UNCHANGED <<files, path, edits, held, snap, proc, kid, worker, pipe, buf, rd,
                   host, policy>>

SourceUnchangedByPath == path = client.initial[1]

(* The identities behind the descriptor and behind the path are both what  *)
(* they were; only then is the copy sealed and becomes the snapshot.       *)
SourceUnchanged ==
    /\ Identity(client.initial[1]) = client.initial
    /\ path = client.initial[1]


Freeze ==
    /\ client.pc = "freeze"
    /\ IF SourceUnchanged
       THEN /\ snap' = [data |-> client.copied, stamp |-> 0]
            /\ client' = [client EXCEPT !.pc = "start"]
       ELSE /\ Fail("input_changed")
            /\ UNCHANGED snap
    /\ held' = held \cap {client.copied}            \* all that matters from here
    /\ UNCHANGED <<files, path, edits, proc, kid, worker, pipe, buf, rd, host, policy>>

SnapshotPhases == {"lstat", "open", "copy", "freeze"}

(* Other programs: rewrite a file in place, or make the path name another  *)
(* file, a link or nothing.  The source is not read again after Freeze.    *)
EditSource ==
    /\ client.pc \in SnapshotPhases
    /\ edits < host.edits /\ edits' = edits + 1
    /\ \E i \in Inodes \cap {path, client.initial[1]}, d \in Contents :
         /\ files' = [files EXCEPT ![i] = [data |-> d, stamp |-> @.stamp + 1]]
         /\ held' = IF path = i THEN held \cup {d} ELSE held
    /\ UNCHANGED <<path, snap, client, proc, kid, worker, pipe, buf, rd, host, policy>>

MovePath ==
    /\ client.pc \in SnapshotPhases
    /\ edits < host.edits /\ edits' = edits + 1
    /\ \E p \in (Inodes \cup {Link, Gone}) \ {path} :
         /\ path' = p
         /\ held' = IF p \in Inodes THEN held \cup {files[p].data} ELSE held
    /\ UNCHANGED <<files, snap, client, proc, kid, worker, pipe, buf, rd, host, policy>>

-----------------------------------------------------------------------------
(* _WorkerRunner.run: the parent.                                          *)

Start ==
    /\ client.pc = "start"
    /\ \/ /\ proc' = [state |-> "running", exit |-> 0, killed |-> FALSE]
          /\ rd' = [s \in Streams |-> "reading"]
          /\ worker' = [worker EXCEPT !.phase = "boot"]
          /\ client' = [client EXCEPT !.pc = "poll"]
       \/ /\ Fail("worker_start_failed")
          /\ UNCHANGED <<proc, rd, worker>>
       \/ /\ proc' = [state |-> "running", exit |-> 0, killed |-> FALSE]
          /\ worker' = [worker EXCEPT !.phase = "boot"]
          /\ Fail("worker_io_failed")           \* a reader thread did not start
          /\ UNCHANGED rd
    /\ UNCHANGED <<files, path, edits, held, snap, kid, pipe, buf, host, policy>>

SomeReader(state) == \E s \in Streams : rd[s] = state

StopPolling(hit) ==
    /\ client' = [client EXCEPT !.pc = "wait", !.hit = hit]
    /\ Terminate

PollForever ==
    /\ client.pc = "poll" /\ proc.state = "exited"
    /\ client' = [client EXCEPT !.pc = "wait"]
    /\ UNCHANGED <<files, path, edits, held, snap, proc, kid, worker, pipe, buf, rd, host, policy>>

(* One turn of the polling loop: exit first, then the deadline, the output *)
(* limit, a broken reader and stray stderr, each of which kills the group. *)
Poll ==
    /\ client.pc = "poll"
    /\ \/ /\ proc.state = "exited"
          /\ client' = [client EXCEPT !.pc = "wait"]
          /\ UNCHANGED <<proc, kid>>
       \/ /\ proc.state = "running"
          /\ \/ StopPolling("worker_timeout")
             \/ SomeReader("over") /\ StopPolling("worker_output_limit")
             \/ ~SomeReader("over") /\ SomeReader("failed") /\ StopPolling("worker_io_failed")
             \/ /\ ~SomeReader("over") /\ ~SomeReader("failed") /\ buf["err"] # <<>>
                /\ StopPolling("contaminated")
    /\ UNCHANGED <<files, path, edits, held, snap, worker, pipe, buf, rd, host, policy>>

(* _wait_after_run, then the unconditional _terminate that reaches what    *)
(* the worker left behind.  A process that outlives both waits is given up.*)
Wait ==
    /\ client.pc = "wait"
    /\ \/ /\ proc.state = "exited"
          /\ proc' = [proc EXCEPT !.state = "reaped"]
          /\ kid' = IF kid = "alive" /\ host.os # "nt" THEN "killed" ELSE kid
          /\ client' = [client EXCEPT !.pc = "finish"]
       \/ /\ proc.state = "running"
          /\ Terminate
          /\ Fail("worker_termination_failed")
    /\ UNCHANGED <<files, path, edits, held, snap, worker, pipe, buf, rd, host, policy>>

WritersGone == proc.state # "running" /\ kid \in {"none", "dead"}

(* _finish_pipe_readers: drain for a second unless the run is already lost,*)
(* then stop.  A second is taken to be enough to read what is already in a *)
(* pipe, so only a writer that is still dying can use it up.               *)
Finish ==
    /\ client.pc = "finish"
    /\ client.hit = "none" => \A s \in Streams : rd[s] = "reading" => pipe[s] = <<>>
    /\ \/ /\ rd' = [s \in Streams |-> IF rd[s] = "reading" THEN "ended" ELSE rd[s]]
          /\ client' = [client EXCEPT !.pc = "judge"]
       \/ /\ SomeReader("reading")                      \* a reader missed its deadline
          /\ Fail("worker_io_failed")
          /\ UNCHANGED rd
    /\ UNCHANGED <<files, path, edits, held, snap, proc, kid, worker, pipe, buf, host, policy>>

(* The verdicts in the order run raises them; a reader that went over its  *)
(* limit overrides even a timeout.                                         *)
Judge ==
    /\ client.pc = "judge"
    /\ IF SomeReader("over") THEN Fail("worker_output_limit")
       ELSE IF client.hit \in {"worker_timeout", "worker_output_limit"} THEN Fail(client.hit)
       ELSE IF client.hit = "worker_io_failed" \/ SomeReader("failed")
       THEN Fail("worker_io_failed")
       ELSE IF proc.exit # 0 \/ buf["err"] # <<>> THEN Fail("worker_failed")
       ELSE client' = [client EXCEPT !.pc = "verify"]
    /\ UNCHANGED <<files, path, edits, held, snap, proc, kid, worker, pipe, buf, rd,
                   host, policy>>


(* _verify_snapshot: identity and digest of the copy after the worker.     *)
Verify ==
    /\ client.pc = "verify"
    /\ IF snap = [data |-> client.copied, stamp |-> 0]
       THEN client' = [client EXCEPT !.pc = "decode"]
       ELSE Fail("input_snapshot_changed")
    /\ UNCHANGED <<files, path, edits, held, snap, proc, kid, worker, pipe, buf, rd,
                   host, policy>>

(* _decode_response and _validate_inspection.  "shape" stands for every    *)
(* structural rule, the safety flag that must agree with the risks too.    *)
Whole == buf["out"] = <<"head", "tail">>

WellFormed(reply) == reply.shape

ResponseError(reply) ==
    IF ~Whole \/ ~WellFormed(reply) THEN "protocol_error"
    ELSE IF ~reply.id THEN "request_mismatch"
    ELSE IF ~reply.ok THEN "worker_failed"
    ELSE IF reply.data # client.copied THEN "request_mismatch" ELSE "none"


Decode ==
    /\ client.pc = "decode"
    /\ LET error == ResponseError(worker.reply)
       IN IF error # "none"
          THEN Fail(error)
          ELSE client' = [client EXCEPT
                 !.pc = "cleanup", !.result = "report",
                 !.report = [data |-> worker.reply.data, parsed |-> worker.read,
                             level |-> BackendLevel(client.runner)]]
    /\ UNCHANGED <<files, path, edits, held, snap, proc, kid, worker, pipe, buf, rd,
                   host, policy>>

(* The finally clause of run (kill, reap for a second, stop the readers)   *)
(* and the end of the temporary directory.                                 *)
Cleanup ==
    /\ client.pc = "cleanup"
    /\ IF proc.state = "exited"
       THEN /\ proc' = [proc EXCEPT !.state = "reaped"]
            /\ kid' = IF kid = "alive" /\ host.os # "nt" THEN "killed" ELSE kid
       ELSE Terminate
    /\ rd' = [s \in Streams |-> IF rd[s] = "reading" THEN "ended" ELSE rd[s]]
    /\ snap' = NoFile
    /\ client' = [client EXCEPT !.pc = "done"]
    /\ UNCHANGED <<files, path, edits, held, worker, pipe, buf, host, policy>>

-----------------------------------------------------------------------------
(* parser_worker.main, in the child.                                       *)

Alive == proc.state = "running" /\ ~proc.killed

NoReply == [ok |-> FALSE, id |-> FALSE, data |-> <<>>, shape |-> FALSE]

ErrorReply == [ok |-> FALSE, id |-> TRUE, data |-> <<>>, shape |-> TRUE]

Exit(code) ==
    /\ proc' = [proc EXCEPT !.state = "exited", !.exit = code]
    /\ kid' = IF host.os = "nt" /\ kid # "none" THEN "dead" ELSE kid

(* What _encode_request asks for: the digest and the size of the copy.     *)
Requested == client.copied

parentVars == <<files, path, edits, held, client, buf, rd, host, policy>>

(* The request is read and the limits are applied, before any untrusted    *)
(* byte is touched.  On Windows a worker without a job object dies here.   *)
WorkerBoot ==
    /\ Alive /\ worker.phase = "boot"
    /\ IF host.os = "nt" /\ ~host.jobs
       THEN Exit(1) /\ UNCHANGED worker
       ELSE /\ \/ worker' = [worker EXCEPT !.phase = "before"]
               \/ worker' = [worker EXCEPT !.phase = "head", !.reply = ErrorReply]
            /\ UNCHANGED <<proc, kid>>
    /\ UNCHANGED <<parentVars, snap, pipe>>

(* _measure_snapshot before the parser: size and digest as requested.      *)
WorkerBefore ==
    /\ Alive /\ worker.phase = "before"
    /\ worker' = IF snap.data = Requested
                 THEN [worker EXCEPT !.phase = "parse", !.stamp = snap.stamp]
                 ELSE [worker EXCEPT !.phase = "head", !.reply = ErrorReply]
    /\ UNCHANGED <<parentVars, snap, proc, kid, pipe>>

(* ContentInspector.inspect with its output discarded: it reports what it  *)
(* read, or fails (an exception, or more log output than allowed).         *)
WorkerParse ==
    /\ Alive /\ worker.phase = "parse"
    /\ \/ worker' = [worker EXCEPT !.phase = "after", !.read = snap.data]
       \/ worker' = [worker EXCEPT !.phase = "head", !.reply = ErrorReply]
    /\ UNCHANGED <<parentVars, snap, proc, kid, pipe>>

(* _measure_snapshot after the parser, compared with the first; then the   *)
(* response, or an error when it does not fit.                             *)
WorkerAfter ==
    /\ Alive /\ worker.phase = "after"
    /\ \E fits \in BOOLEAN :
         worker' = [worker EXCEPT !.phase = "head", !.reply =
                      IF fits /\ snap = [data |-> Requested, stamp |-> worker.stamp]
                      THEN [ok |-> TRUE, id |-> TRUE, data |-> snap.data, shape |-> TRUE]
                      ELSE ErrorReply]
    /\ UNCHANGED <<parentVars, snap, proc, kid, pipe>>

(* _write_response, a piece at a time: a reader that closed its end makes  *)
(* the write fail, and the worker exits with 70.                           *)
WorkerWrite ==
    /\ Alive /\ worker.phase \in {"head", "tail"}
    /\ IF rd["out"] # "reading"
       THEN Exit(70) /\ UNCHANGED <<worker, pipe>>
       ELSE /\ pipe' = [pipe EXCEPT !["out"] = Append(@, worker.phase)]
            /\ worker' = [worker EXCEPT
                            !.phase = IF worker.phase = "head" THEN "tail" ELSE "exit"]
            /\ UNCHANGED <<proc, kid>>
    /\ UNCHANGED <<parentVars, snap>>

WorkerExit ==
    /\ Alive /\ worker.phase = "exit"
    /\ Exit(0)
    /\ UNCHANGED <<parentVars, snap, worker, pipe>>

-----------------------------------------------------------------------------
(* What the parsing library may do to the worker: it is the code that is   *)
(* not trusted.                                                            *)

(* The worker's own code while the library runs in it, or a descendant.    *)
LibraryRuns == (Alive /\ worker.phase = "parse") \/ (kid = "alive")

LibraryCrash ==
    /\ Alive /\ worker.phase = "parse"
    /\ Exit(1)
    /\ UNCHANGED <<parentVars, snap, worker, pipe>>

LibraryForks ==
    /\ Alive /\ worker.phase = "parse" /\ kid = "none"
    /\ kid' = "alive"
    /\ UNCHANGED <<parentVars, snap, proc, worker, pipe>>

(* Output that bypasses sys.stdout reaches the pipes of the worker.        *)
LibraryWrites ==
    /\ LibraryRuns /\ worker.noise < host.writes
    /\ \E s \in Streams :
         /\ rd[s] = "reading"
         /\ pipe' = [pipe EXCEPT ![s] = Append(@, "noise")]
    /\ worker' = [worker EXCEPT !.noise = @ + 1]
    /\ UNCHANGED <<parentVars, snap, proc, kid>>

(* Bubblewrap mounts the snapshot read-only; below the OS sandbox the      *)
(* worker owns it and can rewrite it.                                      *)
SnapshotWritable == BackendLevel(client.runner) < OS_SANDBOX

LibraryTampers ==
    /\ LibraryRuns /\ snap.stamp = 0
    /\ SnapshotWritable
    /\ snap' = [data |-> <<>>, stamp |-> 1]
    /\ UNCHANGED <<parentVars, proc, kid, worker, pipe>>

LibraryRestores ==
    /\ LibraryRuns /\ snap.stamp = 1
    /\ snap' = [data |-> client.copied, stamp |-> 2]
    /\ UNCHANGED <<parentVars, proc, kid, worker, pipe>>

(* It takes the worker over and answers in its place: correctly, or wrong  *)
(* in one of the ways the parent looks for.                                *)
LibraryAnswers ==
    /\ Alive /\ worker.phase = "parse"
    /\ LET right == [ok |-> TRUE, id |-> TRUE, data |-> client.copied, shape |-> TRUE]
       IN \E reply \in {right, [right EXCEPT !.ok = FALSE], [right EXCEPT !.id = FALSE],
                        [right EXCEPT !.shape = FALSE], [right EXCEPT !.data = <<>>]} :
            worker' = [worker EXCEPT !.phase = "head", !.rogue = TRUE, !.reply = reply]
    /\ UNCHANGED <<parentVars, snap, proc, kid, pipe>>

KidExits ==
    /\ kid \in {"alive", "killed"}
    /\ kid' = "dead"
    /\ UNCHANGED <<parentVars, snap, proc, worker, pipe>>

(* The kernel delivers a SIGKILL, sooner or later or, for a process stuck  *)
(* in it, never.                                                           *)
ProcDies ==
    /\ proc.state = "running" /\ proc.killed
    /\ Exit(9)
    /\ UNCHANGED <<parentVars, snap, worker, pipe>>

-----------------------------------------------------------------------------
(* _BoundedPipeReader._read, one thread for each pipe.                     *)

Limit(s) == IF s = "out" THEN MaxStdout ELSE MaxStderr

ReadPipe(s) ==
    /\ rd[s] = "reading"
    /\ \/ /\ pipe[s] # <<>>
          /\ buf' = [buf EXCEPT ![s] = Append(@, Head(pipe[s]))]
          /\ pipe' = [pipe EXCEPT ![s] = Tail(@)]
          /\ rd' = [rd EXCEPT ![s] = IF Len(buf[s]) + 1 > Limit(s) THEN "over" ELSE @]
       \/ /\ pipe[s] = <<>> /\ WritersGone
          /\ rd' = [rd EXCEPT ![s] = "ended"]
          /\ UNCHANGED <<buf, pipe>>
       \/ /\ host.faulty
          /\ rd' = [rd EXCEPT ![s] = "failed"]
          /\ UNCHANGED <<buf, pipe>>
    /\ UNCHANGED <<files, path, edits, held, snap, client, proc, kid, worker, host, policy>>

-----------------------------------------------------------------------------
ParserInit ==
    /\ files = [i \in Inodes |-> [data |-> Original[i], stamp |-> 0]]
    /\ path \in {1, Link, Gone}
    /\ edits = 0
    /\ held = {}
    /\ snap = NoFile
    /\ client = [pc |-> "select", runner |-> "process", initial |-> <<0, 0, 0>>,
                 copied |-> <<>>, hit |-> "none", result |-> "none",
                 report |-> NoReport]
    /\ proc = [state |-> "none", exit |-> 0, killed |-> FALSE]
    /\ kid = "none"
    /\ worker = [phase |-> "off", stamp |-> 0, read |-> <<>>, rogue |-> FALSE,
                 noise |-> 0, reply |-> NoReply]
    /\ pipe = [s \in Streams |-> <<>>]
    /\ buf = [s \in Streams |-> <<>>]
    /\ rd = [s \in Streams |-> "off"]
    /\ host \in Hosts
    /\ policy \in Policies[host]

ClientNext ==
    \/ Select \/ Lstat \/ Open \/ Copy \/ Freeze \/ Start \/ Poll \/ Wait
    \/ Finish \/ Judge \/ Verify \/ Decode \/ Cleanup

WorkerNext ==
    \/ WorkerBoot \/ WorkerBefore \/ WorkerParse \/ WorkerAfter \/ WorkerWrite
    \/ WorkerExit

LibraryNext ==
    \/ LibraryCrash \/ LibraryForks \/ LibraryWrites \/ LibraryTampers
    \/ LibraryRestores \/ LibraryAnswers \/ KidExits \/ ProcDies

ParserNext ==
    \/ ClientNext \/ WorkerNext \/ LibraryNext
    \/ EditSource \/ MovePath
    \/ \E s \in Streams : ReadPipe(s)

ParserSpec == ParserInit /\ [][ParserNext]_parserVars

(* The parent and its reader threads keep running; nothing is asked of the *)
(* worker, of the library or of the kernel that kills them.                *)
ParserFairness ==
    /\ WF_parserVars(ClientNext)
    /\ \A s \in Streams : WF_parserVars(ReadPipe(s))

ParserFairSpec == ParserSpec /\ ParserFairness

-----------------------------------------------------------------------------
(* The types of the state, and the retained output: never more than one    *)
(* unit over the limit, whatever is written (_BoundedPipeReader._read).    *)
ParserTypeOK ==
    /\ files \in [Inodes -> [data : Contents, stamp : 0..host.edits]]
    /\ path \in Inodes \cup {Link, Gone}
    /\ held \subseteq Contents
    /\ proc \in [state : {"none", "running", "exited", "reaped"},
                 exit : {0, 1, 9, 70}, killed : BOOLEAN]
    /\ kid \in {"none", "alive", "killed", "dead"}
    /\ \A s \in Streams : Len(buf[s]) <= Limit(s) + 1

(* A report is about one content the source really had while the call ran, *)
(* never a mixture of two versions and never larger than the policy allows;*)
(* it names the bytes that were copied, and unless the library answered in *)
(* the worker's place it was computed from exactly those bytes             *)
(* (snapshot_input, _inspect_snapshot, _decode_response).                  *)
ReportTruth ==
    client.result = "report" =>
        /\ client.report.data \in held
        /\ client.report.data = client.copied
        /\ Len(client.copied) <= MaxInput
        /\ ~worker.rogue => client.report.parsed = client.copied

(* No untrusted byte is parsed below the containment the policy asks for,  *)
(* and the level a report claims is the one its worker ran at, whichever   *)
(* backend the automatic choice fell back to (ParserWorkerClient._runner). *)
ContainmentKept ==
    /\ proc.state # "none" => BackendLevel(client.runner) >= policy.minimum
    /\ client.result = "report" =>
          /\ client.report.level = BackendLevel(client.runner)
          /\ client.report.level = OS_SANDBOX => BubblewrapUsable

(* A report is only given for a run that was clean to the end: exit status *)
(* 0, nothing on stderr, nothing beyond the one answer on stdout, not even *)
(* from a descendant after the worker itself had gone (_WorkerRunner.run). *)
CleanReport ==
    client.result = "report" =>
        /\ proc.exit = 0 /\ proc.state = "reaped"
        /\ buf["err"] = <<>> /\ pipe["err"] = <<>>
        /\ pipe["out"] = <<>>

(* However inspect_content ends, the worker and its descendants are dead   *)
(* or on their way: killed, or in the job of a main process that was; and  *)
(* the copy of the input is gone.                                          *)
NothingOutlives ==
    client.pc = "done" =>
        /\ proc.state = "running" => proc.killed
        /\ kid = "alive" => host.os = "nt" /\ proc.state = "running" /\ proc.killed
        /\ snap = NoFile

(* An inspection of an untrusted file as its caller sees it: a true report *)
(* of a clean run at the level that was asked for, bounded output, nothing *)
(* left behind (inspect_content).                                          *)
InspectionSafe ==
    ParserTypeOK /\ ReportTruth /\ ContainmentKept /\ CleanReport /\ NothingOutlives

(* Every inspection ends, though the worker may hang, flood its pipes,     *)
(* leave descendants that hold them open or survive its own kill.          *)
InspectionEnds == <>(client.pc = "done")

=============================================================================
