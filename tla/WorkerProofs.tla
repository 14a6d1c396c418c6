---------------------------- MODULE WorkerProofs ----------------------------
(***************************************************************************)
(* Proofs about the processes that are asked about untrusted content: the  *)
(* guard that scans images (GuardBridge) and the worker that parses a file *)
(* (ParserIsolation), for any number of images, any contents and policies  *)
(* and any misbehaviour of the process.                                    *)
(***************************************************************************)
EXTENDS GuardBridge, ParserIsolation, TLAPS

-----------------------------------------------------------------------------
(***************************************************************************)
(* The guard. Neither half of ScanSafe is inductive. That the answers      *)
(* belong to their images needs the count of answers at each place of the  *)
(* generator; that the guard is gone needs that a request stays unwritten  *)
(* only where the guard closed its input or has stopped, and that a guard  *)
(* without an exit status is alive.                                        *)
(***************************************************************************)

Places == {"send", "await", "yielded", "close", "exit", "join", "over"}

Scan == [at : Places, request : 1..Images, unsent : BOOLEAN, yielded : Seq(Nat),
         says : {"none", "failed", "done"}]
Guard == [alive : BOOLEAN, deaf : BOOLEAN, status : {"none", "zero", "error", "killed"},
          unread : Seq(Nat), read : Nat, answered : BOOLEAN, spare : Nat]

\* The generator and the process have their types.  Nothing is assumed of what
\* is in the pipe, in the reader's hand or in the queue.
GuardTypeOK == scan \in Scan /\ guard \in Guard

\* Answers are counted as they are taken: one for each request before the
\* current one, and for the current one once it is yielded.
AnswersCounted ==
    /\ \A i \in DOMAIN scan.yielded : scan.yielded[i] = i
    /\ scan.at \in {"send", "await"} => Len(scan.yielded) = scan.request - 1
    /\ scan.at = "yielded" => Len(scan.yielded) = scan.request
    /\ scan.at \in {"send", "await", "yielded"} => scan.says = "none"
    /\ scan.at \notin {"send", "await", "yielded"} /\ scan.says # "failed" =>
           Len(scan.yielded) = Images

\* A process without an exit status is alive, and one whose scan has gone well
\* so far passes the join only with status zero.
ExitKnown ==
    /\ guard.alive <=> guard.status = "none"
    /\ scan.at = "join" => ~guard.alive
    /\ scan.at = "join" /\ scan.says # "failed" => guard.status = "zero"
    /\ scan.says = "done" => scan.at = "over" /\ guard.status = "zero"
    /\ scan.at = "over" => scan.says # "none"

\* A request is left in the buffer only by a guard that does not read any more,
\* and then the scan has failed; nothing else leaves a guard running.
LeftBehind ==
    /\ scan.unsent => scan.says = "failed" /\ (guard.deaf \/ ~guard.alive)
    /\ scan.at = "over" => guard.deaf \/ ~guard.alive

\* The inductive invariant of a scan.
GInv == GuardTypeOK /\ AnswersCounted /\ ExitKnown /\ LeftBehind

-----------------------------------------------------------------------------
\* A scan starts in its type, with nothing answered and the guard alive.
LEMMA GInvInit == GuardInit => GInv
  <1> SUFFICES ASSUME GuardInit PROVE GInv
    OBVIOUS
  <1>1. scan \in Scan
    BY GuardConstants DEF GuardInit, Scan, Places
  <1>2. guard \in Guard
    BY DEF GuardInit, Guard
  <1>3. AnswersCounted /\ ExitKnown /\ LeftBehind
    BY GuardConstants DEF GuardInit, AnswersCounted, ExitKnown, LeftBehind
  <1> QED BY <1>1, <1>2, <1>3 DEF GInv, GuardTypeOK

\* What the fields of a scan and of its guard can be.
LEMMA Fields ==
  ASSUME GuardTypeOK
  PROVE  /\ scan.at \in Places /\ scan.request \in 1..Images /\ scan.unsent \in BOOLEAN
         /\ scan.yielded \in Seq(Nat) /\ scan.says \in {"none", "failed", "done"}
         /\ guard.alive \in BOOLEAN /\ guard.deaf \in BOOLEAN
         /\ guard.status \in {"none", "zero", "error", "killed"}
         /\ guard.unread \in Seq(Nat) /\ guard.read \in Nat /\ guard.spare \in Nat
  BY DEF GuardTypeOK, Scan, Guard

\* A killed guard is a guard.
LEMMA KillType ==
  ASSUME GuardTypeOK, Kill
  PROVE  guard' \in Guard
  BY DEF GuardTypeOK, Guard, Kill

\* Every step of the caller keeps the type.
LEMMA ScanTypeStep == GuardTypeOK /\ ScanNext => GuardTypeOK'
  <1> SUFFICES ASSUME GuardTypeOK, ScanNext PROVE GuardTypeOK'
    OBVIOUS
  <1> USE GuardConstants DEF ScanAt
  <1>f. ASSUME FailScan PROVE scan' \in Scan
    BY <1>f DEF FailScan, GuardTypeOK, Scan, Places
  <1>1. CASE SendRequest
    <2>1. scan' \in Scan
      BY <1>1 DEF SendRequest, GuardTypeOK, Scan, Places
    <2>2. Append(guard.unread, scan.request) \in Seq(Nat)
      BY Fields
    <2>3. guard' \in Guard
      BY <1>1, <2>2 DEF SendRequest, GuardTypeOK, Guard
    <2> QED BY <2>1, <2>3 DEF GuardTypeOK
  <1>2. CASE ReceiveAnswer
    <2> DEFINE item == Head(responses)
    <2>1. CASE Accepted(item)
      <3>1. Append(scan.yielded, item.id) \in Seq(Nat)
        BY <2>1, Fields DEF Accepted
      <3>2. /\ scan' = [scan EXCEPT !.at = "yielded", !.yielded = Append(@, item.id)]
            /\ guard' = guard
        BY <1>2, <2>1 DEF ReceiveAnswer
      <3> QED BY <3>1, <3>2 DEF GuardTypeOK, Scan, Places
    <2>2. CASE ~Accepted(item)
      <3>1. FailScan /\ (Kill \/ guard' = guard)
        BY <1>2, <2>2 DEF ReceiveAnswer
      <3> QED BY <3>1, <1>f, KillType DEF GuardTypeOK
    <2> QED BY <2>1, <2>2
  <1>3. CASE Expire
    BY <1>3, <1>f, KillType DEF Expire, GuardTypeOK
  <1>4. CASE ResumeScan
    <2>1. ASSUME scan.request < Images PROVE scan.request + 1 \in 1..Images
      BY <2>1, Fields
    <2>2. scan' \in Scan
      BY <1>4, <1>f, <2>1 DEF ResumeScan, GuardTypeOK, Scan, Places
    <2> QED BY <1>4, <2>2 DEF ResumeScan, GuardTypeOK
  <1>5. CASE CloseInput \/ GuardHasStopped \/ JoinReader
    <2>1. scan' \in Scan
      BY <1>5 DEF CloseInput, GuardHasStopped, JoinReader, GuardTypeOK, Scan, Places
    <2> QED BY <1>5, <2>1 DEF CloseInput, GuardHasStopped, JoinReader, GuardTypeOK
  <1>6. CASE StopWaiting
    <2>1. scan' \in Scan
      BY <1>6 DEF StopWaiting, GuardTypeOK, Scan, Places
    <2> QED BY <1>6, <2>1, KillType DEF StopWaiting, GuardTypeOK
  <1> QED BY <1>1, <1>2, <1>3, <1>4, <1>5, <1>6 DEF ScanNext

\* Every step of the reader and of the guard keeps the type.
LEMMA TypeStep == GuardTypeOK /\ [GuardNext]_guardVars => GuardTypeOK'
  <1> SUFFICES ASSUME GuardTypeOK, [GuardNext]_guardVars PROVE GuardTypeOK'
    OBVIOUS
  <1>1. CASE ReaderNext \/ UNCHANGED guardVars
    BY <1>1 DEF ReaderNext, ReadLine, PutLine, GuardTypeOK, guardVars
  <1>2. CASE GuardReads
    <2>1. Tail(guard.unread) \in Seq(Nat) /\ Head(guard.unread) \in Nat
      BY <1>2, Fields DEF GuardReads
    <2>2. guard' \in Guard
      BY <1>2, <2>1 DEF GuardReads, GuardTypeOK, Guard
    <2> QED BY <1>2, <2>2 DEF GuardReads, GuardTypeOK
  <1>3. CASE GuardWrites
    <2> DEFINE more == guard.spare + (IF guard.answered THEN 1 ELSE 0)
    <2>0. more \in Nat
      BY Fields
    <2>1. guard' = [guard EXCEPT !.answered = TRUE, !.spare = more]
      BY <1>3 DEF GuardWrites
    <2> HIDE DEF more
    <2>2. guard' \in Guard
      BY <2>0, <2>1 DEF GuardTypeOK, Guard
    <2> QED BY <1>3, <2>2 DEF GuardWrites, GuardTypeOK
  <1>4. CASE GuardClosesInput \/ GuardExits
    <2>0. <<>> \in Seq(Nat)
      OBVIOUS
    <2>1. guard' \in Guard
      BY <1>4, <2>0 DEF GuardClosesInput, GuardExits, GuardTypeOK, Guard
    <2> QED BY <1>4, <2>1 DEF GuardClosesInput, GuardExits, GuardTypeOK
  <1> QED BY <1>1, <1>2, <1>3, <1>4, ScanTypeStep DEF GuardNext

-----------------------------------------------------------------------------
\* Taking the answer to the current request keeps answers and images aligned.
LEMMA AnswerTaken ==
  ASSUME GuardTypeOK, AnswersCounted, ScanAt("await"), NEW id, id = scan.request,
         scan' = [scan EXCEPT !.at = "yielded", !.yielded = Append(@, id)]
  PROVE  AnswersCounted'
  <1> DEFINE s == scan.yielded
             n == scan.request
  <1>1. s \in Seq(Nat) /\ n \in Nat /\ Len(s) = n - 1 /\ n >= 1 /\ id = n
    BY Fields DEF AnswersCounted, ScanAt
  <1>2. scan'.at = "yielded" /\ scan'.request = n /\ scan'.yielded = Append(s, id)
        /\ scan'.says = scan.says
    BY DEF GuardTypeOK, Scan
  <1>3. scan.says = "none"
    BY DEF AnswersCounted, ScanAt
  <1>4. \A i \in DOMAIN s : s[i] = i
    BY DEF AnswersCounted
  <1> HIDE DEF s, n
  <1>5. Len(Append(s, id)) = n /\ \A i \in DOMAIN Append(s, id) : Append(s, id)[i] = i
    BY <1>1, <1>4
  <1> QED BY <1>2, <1>3, <1>5 DEF AnswersCounted

\* Steps of the caller keep the invariant.
LEMMA ScanStep == GInv /\ GuardTypeOK' /\ ScanNext => GInv'
  <1> SUFFICES ASSUME GInv, GuardTypeOK', ScanNext PROVE GInv'
    OBVIOUS
  <1> USE GuardConstants DEF ScanAt
  <1>t. GuardTypeOK
    BY DEF GInv
  <1>f. ASSUME FailScan, scan.at \notin {"join", "over"}
        PROVE  /\ scan'.at = "close" /\ scan'.says = "failed"
               /\ scan'.yielded = scan.yielded /\ scan'.unsent = scan.unsent
               /\ AnswersCounted'
    BY <1>f, <1>t DEF FailScan, GInv, GuardTypeOK, Scan, AnswersCounted
  <1>k. ASSUME Kill
        PROVE  /\ ~guard'.alive /\ guard'.status # "none" /\ guard'.deaf = guard.deaf
    BY <1>k, <1>t DEF Kill, GuardTypeOK, Guard, GInv, ExitKnown
  <1>1. CASE SendRequest
    <2>1. CASE guard.alive /\ ~guard.deaf
      <3>1. /\ scan'.at = "await" /\ scan'.request = scan.request
            /\ scan'.yielded = scan.yielded /\ scan'.says = scan.says
            /\ scan'.unsent = scan.unsent
            /\ guard'.alive = guard.alive /\ guard'.deaf = guard.deaf
            /\ guard'.status = guard.status
        BY <1>1, <2>1, <1>t, ZenonT(60) DEF SendRequest, GuardTypeOK, Scan, Guard
      <3> QED BY <1>1, <3>1 DEF SendRequest, GInv, AnswersCounted, ExitKnown, LeftBehind
    <2>2. CASE ~(guard.alive /\ ~guard.deaf)
      <3>1. /\ scan'.at = "close" /\ scan'.yielded = scan.yielded /\ scan'.says = "failed"
            /\ guard' = guard
        BY <1>1, <2>2, <1>t DEF SendRequest, GuardTypeOK, Scan
      <3> QED BY <1>1, <2>2, <3>1 DEF SendRequest, GInv, AnswersCounted, ExitKnown, LeftBehind
    <2> QED BY <2>1, <2>2
  <1>2. CASE ReceiveAnswer
    <2> DEFINE item == Head(responses)
    <2>1. CASE Accepted(item)
      <3>1. /\ scan' = [scan EXCEPT !.at = "yielded", !.yielded = Append(@, item.id)]
            /\ guard' = guard /\ scan.at = "await"
        BY <1>2, <2>1 DEF ReceiveAnswer
      <3>2. AnswersCounted'
        BY <2>1, <3>1, <1>t, AnswerTaken DEF GInv, Accepted
      <3>3. scan'.at = "yielded" /\ scan'.says = scan.says /\ scan'.unsent = scan.unsent
        BY <3>1, <1>t DEF GuardTypeOK, Scan
      <3> QED BY <3>1, <3>2, <3>3 DEF GInv, AnswersCounted, ExitKnown, LeftBehind
    <2>2. CASE ~Accepted(item)
      <3>1. FailScan /\ (Kill \/ guard' = guard) /\ scan.at = "await"
        BY <1>2, <2>2 DEF ReceiveAnswer
      <3>2. AnswersCounted' /\ scan'.at = "close" /\ scan'.says = "failed"
            /\ scan'.unsent = scan.unsent
        BY <3>1, <1>f
      <3> QED BY <3>1, <3>2, <1>k DEF GInv, ExitKnown, LeftBehind
    <2> QED BY <2>1, <2>2
  <1>3. CASE Expire
    <2>1. Kill /\ FailScan /\ scan.at = "await"
      BY <1>3 DEF Expire
    <2> QED BY <2>1, <1>k, <1>f DEF GInv, ExitKnown, LeftBehind
  <1>4. CASE ResumeScan
    <2>0. scan.at = "yielded" /\ guard' = guard
      BY <1>4 DEF ResumeScan
    <2>1. CASE FailScan
      BY <2>0, <2>1, <1>f DEF GInv, ExitKnown, LeftBehind
    <2>2. CASE scan.request < Images /\ scan' = [scan EXCEPT !.at = "send", !.request = @ + 1]
      <3>1. /\ scan'.at = "send" /\ scan'.request = scan.request + 1
            /\ scan'.yielded = scan.yielded /\ scan'.says = scan.says
            /\ scan'.unsent = scan.unsent
        BY <2>2, <1>t DEF GuardTypeOK, Scan
      <3>2. scan.request \in Nat
        BY <1>t, Fields
      <3> QED BY <2>0, <3>1, <3>2 DEF GInv, AnswersCounted, ExitKnown, LeftBehind
    <2>3. CASE scan.request = Images /\ scan' = [scan EXCEPT !.at = "close"]
      <3>1. /\ scan'.at = "close" /\ scan'.yielded = scan.yielded /\ scan'.says = scan.says
            /\ scan'.unsent = scan.unsent
        BY <2>3, <1>t DEF GuardTypeOK, Scan
      <3> QED BY <2>0, <2>3, <3>1 DEF GInv, AnswersCounted, ExitKnown, LeftBehind
    <2> QED BY <1>4, <2>1, <2>2, <2>3 DEF ResumeScan
  <1>5. CASE CloseInput
    <2>1. /\ scan'.at = (IF scan.unsent THEN "over" ELSE "exit")
          /\ scan'.yielded = scan.yielded /\ scan'.says = scan.says
          /\ scan'.unsent = scan.unsent /\ guard' = guard /\ scan.at = "close"
      BY <1>5, <1>t DEF CloseInput, GuardTypeOK, Scan
    <2> QED BY <2>1, <1>t, Fields DEF GInv, AnswersCounted, ExitKnown, LeftBehind
  <1>6. CASE GuardHasStopped
    <2>1. /\ scan'.at = "join" /\ scan'.yielded = scan.yielded
          /\ scan'.says = (IF scan.says = "none" /\ guard.status # "zero"
                           THEN "failed" ELSE scan.says)
          /\ scan'.unsent = scan.unsent /\ guard' = guard /\ scan.at = "exit"
          /\ ~guard.alive
      BY <1>6, <1>t DEF GuardHasStopped, GuardTypeOK, Scan
    <2> QED BY <2>1, <1>t, Fields DEF GInv, AnswersCounted, ExitKnown, LeftBehind
  <1>7. CASE StopWaiting
    <2>1. /\ scan'.at = "join" /\ scan'.yielded = scan.yielded /\ scan'.says = "failed"
          /\ scan'.unsent = scan.unsent /\ scan.at = "exit" /\ Kill
      BY <1>7, <1>t DEF StopWaiting, GuardTypeOK, Scan
    <2> QED BY <2>1, <1>k DEF GInv, AnswersCounted, ExitKnown, LeftBehind
  <1>8. CASE JoinReader
    <2>1. /\ scan'.at = "over" /\ scan'.yielded = scan.yielded
          /\ scan'.says = (IF scan.says = "none" THEN "done" ELSE scan.says)
          /\ scan'.unsent = scan.unsent /\ guard' = guard /\ scan.at = "join"
      BY <1>8, <1>t DEF JoinReader, GuardTypeOK, Scan
    <2> QED BY <2>1, <1>t, Fields DEF GInv, AnswersCounted, ExitKnown, LeftBehind
  <1> QED BY <1>1, <1>2, <1>3, <1>4, <1>5, <1>6, <1>7, <1>8 DEF ScanNext

\* Steps of the reader and of the guard keep the invariant.
LEMMA GInvStep == GInv /\ [GuardNext]_guardVars => GInv'
  <1> SUFFICES ASSUME GInv, [GuardNext]_guardVars PROVE GInv'
    OBVIOUS
  <1>t. GuardTypeOK /\ GuardTypeOK'
    BY TypeStep DEF GInv
  <1>1. CASE ReaderNext \/ UNCHANGED guardVars
    <2>1. UNCHANGED <<scan, guard>>
      BY <1>1 DEF ReaderNext, ReadLine, PutLine, guardVars
    <2> QED BY <2>1, <1>t DEF GInv, AnswersCounted, ExitKnown, LeftBehind
  <1>2. CASE GuardReads \/ GuardWrites \/ GuardClosesInput
    <2>1. /\ UNCHANGED scan /\ guard'.alive = guard.alive /\ guard'.status = guard.status
          /\ guard.deaf => guard'.deaf
      BY <1>2, <1>t DEF GuardReads, GuardWrites, GuardClosesInput, GuardTypeOK, Guard
    <2> QED BY <2>1, <1>t DEF GInv, AnswersCounted, ExitKnown, LeftBehind
  <1>3. CASE GuardExits
    <2>1. /\ UNCHANGED scan /\ guard.alive /\ ~guard'.alive /\ guard'.status # "none"
          /\ guard'.deaf = guard.deaf
      BY <1>3, <1>t DEF GuardExits, GuardTypeOK, Guard
    <2> QED BY <2>1, <1>t DEF GInv, AnswersCounted, ExitKnown, LeftBehind
  <1> QED BY <1>1, <1>2, <1>3, <1>t, ScanStep DEF GuardNext

\* A scan tells its caller the truth and leaves no guard behind: each answer
\* belongs to its image, and a scan ends well only with an answer for every
\* image from a process that exited with status zero (scan_images).
THEOREM ScanIsSafe == GuardSpec => []ScanSafe
  <1>1. GInv => ScanSafe
    BY Fields DEF GInv, ScanSafe, ScanTruth, GuardGone, AnswersCounted, ExitKnown, LeftBehind,
       ScanAt
  <1> QED BY <1>1, GInvInit, GInvStep, PTL DEF GuardSpec

-----------------------------------------------------------------------------
(***************************************************************************)
(* The parser worker. InspectionSafe is not inductive. A report is about   *)
(* one version of the file because the copy is a prefix of what the stamps *)
(* at both of its ends belong to (Copying, Copied); it is about the whole  *)
(* of it because the worker reads the snapshot between two stamps of its   *)
(* own (Answers, Output); and it is made under the containment asked for   *)
(* because a runner is selected before anything is copied (Contained).     *)
(* That no process is left needs the state of the worker, its child and    *)
(* its reader together (Processes).                                        *)
(***************************************************************************)

Chunk == UNION {{d[i] : i \in DOMAIN d} : d \in Contents}
Unit == {"head", "tail", "noise"}

Phases == {"select", "lstat", "open", "copy", "freeze", "start", "poll", "wait", "finish",
           "judge", "verify", "decode", "cleanup", "done"}
Hits == {"none", "worker_timeout", "worker_output_limit", "worker_io_failed", "contaminated"}
Errors == {"backend_unavailable", "containment_too_weak", "input_not_regular", "input_symlink",
           "input_too_large", "snapshot_failed", "input_changed", "worker_start_failed",
           "worker_io_failed", "worker_termination_failed", "worker_output_limit",
           "worker_timeout", "worker_failed", "input_snapshot_changed", "protocol_error",
           "request_mismatch"}

File == [data : Contents, stamp : Nat]
Report == [data : Seq(Chunk), parsed : Seq(Chunk), level : 0..3]
Client == [pc : Phases, runner : {"process", "bubblewrap"}, initial : (0..2) \X Nat \X Nat,
           copied : Seq(Chunk), hit : Hits, result : Errors \cup {"none", "report"}, report : Report]
Proc == [state : {"none", "running", "exited", "reaped"}, exit : {0, 1, 9, 70}, killed : BOOLEAN]
Reply == [ok : BOOLEAN, id : BOOLEAN, data : Seq(Chunk), shape : BOOLEAN]
Worker == [phase : {"off", "boot", "before", "parse", "after", "head", "tail", "exit"},
           stamp : Int, read : Seq(Chunk), rogue : BOOLEAN, noise : Nat, reply : Reply]
Snap == [data : Seq(Chunk), stamp : Int]

Kids == {"none", "alive", "killed", "dead"}
Readers == {"off", "reading", "ended", "over", "failed"}

\* The types of the state.
StateTyped ==
    /\ files \in [Inodes -> File] /\ path \in Inodes \cup {Link, Gone}
    /\ edits \in Nat /\ held \subseteq Contents
    /\ snap \in Snap /\ client \in Client /\ proc \in Proc /\ kid \in Kids /\ worker \in Worker
    /\ pipe \in [Streams -> Seq(Unit)] /\ buf \in [Streams -> Seq(Unit)]
    /\ rd \in [Streams -> Readers]
    /\ host \in Hosts /\ policy \in Policies[host]

Reported == client.result = "report"

\* Every edit of a file counts, and changes its stamp.
EditsCounted == edits <= host.edits /\ \A i \in Inodes : files[i].stamp <= edits

\* While the source is copied: a file whose stamp is still the first one has the content of
\* then, the path had it, and what is copied is its beginning.
Copying ==
    client.pc \in {"open", "copy", "freeze"} =>
        LET file == files[client.initial[1]]
        IN /\ client.initial[1] \in Inodes /\ client.initial[2] <= MaxInput
           /\ client.initial[3] <= file.stamp
           /\ Len(client.copied) <= client.initial[2]
           /\ file.stamp = client.initial[3] =>
                /\ Len(file.data) = client.initial[2] /\ file.data \in held
                /\ \A k \in 1..Len(client.copied) : client.copied[k] = file.data[k]

Copied ==
    /\ client.pc \in {"select", "lstat", "open"} => client.copied = <<>>
    /\ client.pc = "freeze" => Len(client.copied) = client.initial[2]
    /\ client.pc \in Phases \ {"select", "lstat", "open", "copy", "freeze", "cleanup", "done"}
       \/ Reported => client.copied \in held /\ Len(client.copied) <= MaxInput

\* From the choice of the backend on.
Contained ==
    /\ client.pc \notin {"select", "cleanup", "done"} \/ proc.state # "none" \/ Reported =>
         /\ BackendLevel(client.runner) >= policy.minimum
         /\ client.runner = "bubblewrap" => BubblewrapUsable
    /\ Reported => client.report.level = BackendLevel(client.runner)

\* Which states the processes can be in at each place of the client.
Processes ==
    /\ client.pc \in {"select", "lstat", "open", "copy", "freeze", "start"} => proc.state = "none"
    /\ proc.state = "none" => kid = "none" /\ worker.phase = "off"
    /\ client.pc \in {"poll", "wait"} => proc.state \in {"running", "exited"}
    /\ client.pc \in {"finish", "judge", "verify", "decode"} \/ Reported => proc.state = "reaped"
    /\ proc.state = "reaped" => kid # "alive"
    /\ proc.state = "exited" /\ host.os = "nt" => kid # "alive"
    /\ client.pc = "done" =>
         /\ proc.state = "running" => proc.killed
         /\ kid = "alive" => host.os = "nt" /\ proc.state = "running"
         /\ snap = NoFile

\* What the readers have and have left.
Output ==
    /\ \A s \in Streams :
         /\ Len(buf[s]) <= Limit(s) + 1
         /\ rd[s] = "reading" => Len(buf[s]) <= Limit(s)
    /\ client.pc \in {"poll", "wait", "finish", "judge", "verify", "decode"} \/ Reported =>
         \A s \in Streams : /\ rd[s] # "off"
                            /\ rd[s] = "ended" /\ client.hit = "none" => pipe[s] = <<>>
    /\ client.pc \in {"judge", "verify", "decode"} \/ Reported =>
         \A s \in Streams : rd[s] # "reading"
    /\ proc.state = "none" => \A s \in Streams : buf[s] = <<>> /\ rd[s] = "off"
    /\ client.hit = "contaminated" => buf["err"] # <<>>
    /\ client.pc \in {"verify", "decode"} \/ Reported =>
         /\ client.hit = "none" /\ proc.exit = 0 /\ buf["err"] = <<>>
         /\ \A s \in Streams : rd[s] = "ended"

\* The worker's own answer is about the copy it was asked about: a snapshot whose stamp has
\* not changed since it was measured has not changed either.
Answers ==
    /\ worker.reply.ok /\ ~worker.rogue => worker.read = client.copied
    /\ worker.phase \in {"off", "boot", "before", "parse", "after"} => ~worker.reply.ok
    /\ Alive /\ worker.phase \in {"parse", "after"} =>
         /\ snap.stamp >= worker.stamp
         /\ snap.stamp = worker.stamp =>
              IF worker.phase = "parse" THEN snap.data = client.copied
              ELSE worker.read = client.copied

Concluded ==
    /\ client.pc \notin {"cleanup", "done"} => client.result = "none"
    /\ Reported => /\ client.report.data = client.copied
                   /\ ~worker.rogue => client.report.parsed = client.copied

PInv == StateTyped /\ EditsCounted /\ Copying /\ Copied /\ Contained /\ Processes /\ Output
        /\ Answers /\ Concluded

-----------------------------------------------------------------------------
LEMMA Numbers ==
  /\ MaxInput \in Nat /\ MaxStdout \in Nat /\ MaxStderr \in Nat
  /\ \A h \in Hosts : h.edits \in Nat
  /\ \A s \in Streams : Limit(s) \in Nat
  <1>1. MaxInput \in Nat /\ MaxStdout \in Nat /\ MaxStderr \in Nat /\ \A h \in Hosts : h.edits \in Nat
    BY ParserAssumptionHolds, Zenon DEF ParserAssumption
  <1> QED BY <1>1, Zenon DEF Limit

LEMMA ContentsAre ==
  ASSUME NEW d \in Contents
  PROVE  d \in Seq(Chunk) /\ Len(d) \in Nat /\ DOMAIN d = 1..Len(d)
  <1>1. d \in Seq({d[i] : i \in DOMAIN d})
    BY ParserAssumptionHolds, Zenon DEF ParserAssumption
  <1>2. {d[i] : i \in DOMAIN d} \subseteq Chunk
    BY Zenon DEF Chunk
  <1> DEFINE A == {d[i] : i \in DOMAIN d}
  <1> HIDE DEF A, Chunk
  <1>3. d \in Seq(A) /\ A \subseteq Chunk
    BY <1>1, <1>2, Zenon DEF A
  <1>4. Len(d) \in Nat /\ DOMAIN d = 1..Len(d) /\ \A i \in 1..Len(d) : d[i] \in Chunk
    BY <1>3
  <1>5. d = [i \in 1..Len(d) |-> d[i]]
    BY <1>3
  <1>6. d \in Seq(Chunk)
    BY <1>3
  <1> QED BY <1>4, <1>6

LEMMA PoliciesAre ==
  ASSUME host \in Hosts, policy \in Policies[host]
  PROVE  policy.backend \in {"auto", "process", "bubblewrap"} /\ policy.minimum \in 1..3
  <1>1. Policies[host] \subseteq [backend : {"auto", "process", "bubblewrap"}, minimum : 1..3]
    BY ParserAssumptionHolds, Zenon DEF ParserAssumption
  <1> QED BY <1>1

LEMMA Levels == \A b : BackendLevel(b) \in 1..3 /\ (BackendLevel(b) = OS_SANDBOX => b = "bubblewrap")
  BY DEF BackendLevel, ProcessLevel, OS_SANDBOX, RESOURCE_LIMITED_PROCESS, PROCESS

LEMMA EmptySeq == <<>> \in Seq(Chunk) /\ <<>> \in Seq(Unit) /\ Len(<<>>) = 0
  OBVIOUS

LEMMA ClientFields ==
  ASSUME client \in Client
  PROVE  /\ client.pc \in Phases /\ client.runner \in {"process", "bubblewrap"}
         /\ client.initial \in (0..2) \X Nat \X Nat /\ client.copied \in Seq(Chunk)
         /\ client.hit \in Hits /\ client.report \in Report
  BY DEF Client

LEMMA InitialFields ==
  ASSUME client \in Client
  PROVE  client.initial[1] \in 0..2 /\ client.initial[2] \in Nat /\ client.initial[3] \in Nat
         /\ Len(client.copied) \in Nat
  <1>1. client.initial \in (0..2) \X Nat \X Nat
    BY ClientFields
  <1>2. client.copied \in Seq(Chunk)
    BY ClientFields
  <1> QED BY <1>1, <1>2

LEMMA Failed ==
  ASSUME client \in Client, NEW code \in Errors, Fail(code)
  PROVE  /\ client' \in Client /\ client'.pc = "cleanup" /\ client'.result = code
         /\ client'.runner = client.runner /\ client'.initial = client.initial
         /\ client'.copied = client.copied /\ client'.hit = client.hit
         /\ client'.report = client.report
  BY DEF Fail, Client, Phases

LEMMA WentOn ==
  ASSUME client \in Client, NEW place \in Phases, client' = [client EXCEPT !.pc = place]
  PROVE  /\ client' \in Client /\ client'.pc = place /\ client'.result = client.result
         /\ client'.runner = client.runner /\ client'.initial = client.initial
         /\ client'.copied = client.copied /\ client'.hit = client.hit
         /\ client'.report = client.report
  BY DEF Client

LEMMA TerminateIs ==
  ASSUME proc \in Proc, kid \in Kids, Terminate
  PROVE  /\ proc' \in Proc /\ proc'.state = proc.state /\ proc'.exit = proc.exit
         /\ proc'.killed = (proc.killed \/ proc.state = "running")
         /\ kid' \in Kids /\ kid' = IF kid = "alive" /\ host.os # "nt" THEN "killed" ELSE kid
  <1>1. proc' \in Proc /\ proc'.state = proc.state /\ proc'.exit = proc.exit
        /\ proc'.killed = (proc.killed \/ proc.state = "running")
    BY DEF Terminate, Proc
  <1>2. kid' \in Kids /\ kid' = IF kid = "alive" /\ host.os # "nt" THEN "killed" ELSE kid
    BY DEF Terminate, Kids
  <1> QED BY <1>1, <1>2

LEMMA ExitIs ==
  ASSUME proc \in Proc, kid \in Kids, NEW code \in {0, 1, 9, 70}, Exit(code)
  PROVE  /\ proc' \in Proc /\ proc'.state = "exited" /\ proc'.exit = code
         /\ proc'.killed = proc.killed
         /\ kid' \in Kids /\ kid' = IF host.os = "nt" /\ kid # "none" THEN "dead" ELSE kid
  <1>1. proc' \in Proc /\ proc'.state = "exited" /\ proc'.exit = code /\ proc'.killed = proc.killed
    BY DEF Exit, Proc
  <1>2. kid' \in Kids /\ kid' = IF host.os = "nt" /\ kid # "none" THEN "dead" ELSE kid
    BY DEF Exit, Kids
  <1> QED BY <1>1, <1>2

-----------------------------------------------------------------------------
LEMMA ParserStarts == ParserInit => PInv
  <1> SUFFICES ASSUME ParserInit PROVE PInv
    OBVIOUS
  <1>e. <<>> \in Seq(Chunk) /\ <<>> \in Seq(Unit)
    BY EmptySeq
  <1>1. files \in [Inodes -> File] /\ \A i \in Inodes : files[i].stamp = 0
    <2>1. \A i \in Inodes : Original[i] \in Contents
      <3>1. Original \in [{1, 2} -> Contents]
        BY ParserAssumptionHolds, Zenon DEF ParserAssumption
      <3> QED BY <3>1 DEF Inodes
    <2> QED BY <2>1 DEF ParserInit, File
  <1>2. path \in Inodes \cup {Link, Gone} /\ edits = 0 /\ held = {}
    BY DEF ParserInit, Inodes
  <1>3. snap \in Snap
    BY <1>e DEF ParserInit, Snap, NoFile
  <1>4. client \in Client /\ client.pc = "select" /\ client.copied = <<>> /\ client.result = "none"
        /\ client.hit = "none"
    <2>1. NoReport \in Report
      BY <1>e DEF Report, NoReport
    <2>2. <<0, 0, 0>> \in (0..2) \X Nat \X Nat
      OBVIOUS
    <2>3. "select" \in Phases /\ "none" \in Hits
      BY DEF Phases, Hits
    <2> HIDE DEF NoReport
    <2> QED BY <1>e, <2>1, <2>2, <2>3 DEF ParserInit, Client
  <1>5. proc \in Proc /\ proc.state = "none" /\ kid = "none"
    BY DEF ParserInit, Proc
  <1>6. worker \in Worker /\ worker.phase = "off" /\ worker.reply.ok = FALSE
    BY <1>e DEF ParserInit, Worker, Reply, NoReply
  <1>7. pipe \in [Streams -> Seq(Unit)] /\ buf \in [Streams -> Seq(Unit)] /\ rd \in [Streams -> Readers]
        /\ \A s \in Streams : buf[s] = <<>> /\ rd[s] = "off"
    BY <1>e DEF ParserInit, Readers
  <1>8. host \in Hosts /\ policy \in Policies[host]
    BY DEF ParserInit
  <1>9. StateTyped
    BY <1>1, <1>2, <1>3, <1>4, <1>5, <1>6, <1>7, <1>8, Zenon DEF StateTyped, Kids
  <1>10. EditsCounted
    <2>1. host.edits \in Nat
      BY <1>8, Numbers
    <2> QED BY <1>1, <1>2, <2>1 DEF EditsCounted
  <1>11. Output
    <2>1. \A s \in Streams : Len(buf[s]) = 0 /\ Limit(s) \in Nat
      BY <1>7, Numbers, EmptySeq
    <2>2. \A s \in Streams : Len(buf[s]) <= Limit(s) + 1
      BY <2>1
    <2> QED BY <1>4, <1>7, <2>2 DEF Output, Reported
  <1>12. Copying /\ Copied /\ Contained /\ Processes /\ Answers /\ Concluded
    BY <1>4, <1>5, <1>6 DEF Copying, Copied, Contained, Processes, Answers, Concluded, Reported, Alive
  <1> QED BY <1>9, <1>10, <1>11, <1>12 DEF PInv

-----------------------------------------------------------------------------
\* Everything but the client and what it holds.
Rest == <<files, path, edits, snap, proc, kid, worker, pipe, buf, rd, host, policy>>

\* Every way out with an error.
LEMMA FailStep ==
  ASSUME PInv, NEW code \in Errors, Fail(code),
         client.pc \notin {"cleanup", "done"}, held' \subseteq Contents, UNCHANGED Rest
  PROVE  PInv'
  <1>c. client \in Client
    BY DEF PInv, StateTyped
  <1>1. /\ client' \in Client /\ client'.pc = "cleanup" /\ client'.result = code
        /\ client'.runner = client.runner /\ client'.copied = client.copied /\ client'.hit = client.hit
    BY <1>c, Failed
  <1>2. StateTyped'
    BY <1>1 DEF PInv, StateTyped, Rest
  <1>3. EditsCounted'
    BY DEF PInv, EditsCounted, Rest
  <1>0. code # "report" /\ code # "none"
    BY DEF Errors
  <1>4. Copying' /\ Copied'
    BY <1>0, <1>1 DEF Copying, Copied, Reported
  <1>5. Contained'
    BY <1>0, <1>1 DEF PInv, Contained, Reported, Rest, BackendLevel, BubblewrapUsable, ProcessLevel,
                ResourceLimits, BubblewrapCompatible
  <1>6. Processes'
    BY <1>0, <1>1 DEF PInv, Processes, Reported, Rest
  <1>7. Output'
    BY <1>0, <1>1 DEF PInv, Output, Reported, Rest, Limit
  <1>8. Answers'
    BY <1>1 DEF PInv, Answers, Rest, Alive
  <1>9. Concluded'
    BY <1>0, <1>1 DEF Concluded, Reported
  <1> QED BY <1>2, <1>3, <1>4, <1>5, <1>6, <1>7, <1>8, <1>9 DEF PInv

LEMMA SelectStep ==
  ASSUME PInv, Select
  PROVE  PInv'
  <1>c. client \in Client /\ host \in Hosts /\ policy \in Policies[host]
    BY DEF PInv, StateTyped
  <1>r. UNCHANGED Rest /\ UNCHANGED held /\ held \subseteq Contents /\ client.pc = "select"
    BY DEF PInv, StateTyped, Select, Rest
  <1>1. ASSUME NEW code \in {"backend_unavailable", "containment_too_weak"}, Fail(code)
        PROVE  PInv'
    <2>1. code \in Errors /\ client.pc \notin {"cleanup", "done"}
      BY <1>r, <1>1 DEF Errors
    <2> QED BY <1>1, <1>r, <2>1, FailStep
  <1>2. ASSUME NEW b \in {"process", "bubblewrap"}, BackendAvailable(b),
               ~(BackendLevel(b) < policy.minimum),
               client' = [client EXCEPT !.pc = "lstat", !.runner = b]
        PROVE  PInv'
    <2>1. /\ client' \in Client /\ client'.pc = "lstat" /\ client'.result = client.result
          /\ client'.runner = b /\ client'.copied = client.copied /\ client'.hit = client.hit
      BY <1>c, <1>2 DEF Client, Phases
    <2>2. client.result = "none" /\ client.copied = <<>> /\ proc.state = "none"
      BY <1>r DEF PInv, Concluded, Copied, Processes
    <2>3. StateTyped' /\ EditsCounted'
      BY <1>r, <2>1 DEF PInv, StateTyped, EditsCounted, Rest
    <2>4. Copying' /\ Copied' /\ Concluded'
      BY <2>1, <2>2 DEF Copying, Copied, Concluded, Reported
    <2>5. BackendLevel(b) >= policy.minimum /\ (b = "bubblewrap" => BubblewrapUsable)
      <3>1. BackendLevel(b) \in 1..3 /\ policy.minimum \in 1..3
        BY <1>c, Levels, PoliciesAre
      <3>2. BackendLevel(b) >= policy.minimum
        BY <1>2, <3>1
      <3> QED BY <1>2, <3>2 DEF BackendAvailable
    <2>6. Contained'
      BY <1>r, <2>1, <2>2, <2>5 DEF Contained, Reported, Rest, BackendLevel, BubblewrapUsable, ProcessLevel,
                ResourceLimits, BubblewrapCompatible
    <2>7. Processes'
      BY <1>r, <2>1, <2>2 DEF PInv, Processes, Reported, Rest
    <2>8. Output'
      BY <1>r, <2>1, <2>2 DEF PInv, Output, Reported, Rest, Limit
    <2>9. Answers'
      BY <1>r, <2>1, <2>2 DEF PInv, Answers, Rest, Alive
    <2> QED BY <2>3, <2>4, <2>6, <2>7, <2>8, <2>9 DEF PInv
  <1> DEFINE b == IF policy.backend # "auto" THEN policy.backend
                  ELSE IF BubblewrapUsable THEN "bubblewrap" ELSE "process"
  <1>3. b \in {"process", "bubblewrap"}
    <2>1. policy.backend \in {"auto", "process", "bubblewrap"}
      BY <1>c, PoliciesAre
    <2> QED BY <2>1
  <1>4. CASE ~BackendAvailable(b)
    <2>1. Fail("backend_unavailable")
      BY <1>4 DEF Select
    <2> QED BY <2>1, <1>1
  <1>5. CASE BackendAvailable(b) /\ BackendLevel(b) < policy.minimum
    <2>1. Fail("containment_too_weak")
      BY <1>5 DEF Select
    <2> QED BY <2>1, <1>1
  <1>6. CASE BackendAvailable(b) /\ ~(BackendLevel(b) < policy.minimum)
    <2>1. client' = [client EXCEPT !.pc = "lstat", !.runner = b]
      BY <1>6 DEF Select
    <2> HIDE DEF b
    <2> QED BY <2>1, <1>2, <1>3, <1>6
  <1> QED BY <1>4, <1>5, <1>6

\* Before the worker is started, only what is copied and held needs looking at.
LEMMA SnapshotMove ==
  ASSUME PInv, client.pc \in {"lstat", "open", "copy", "freeze"},
         client' \in Client, client'.pc \in {"lstat", "open", "copy", "freeze", "start"},
         client'.result = client.result, client'.runner = client.runner,
         client'.hit = client.hit,
         held' \subseteq Contents, snap' \in Snap,
         UNCHANGED <<files, path, edits, proc, kid, worker, pipe, buf, rd, host, policy>>,
         Copying', Copied'
  PROVE  PInv'
  <1>1. client.result = "none" /\ proc.state = "none" /\ worker.phase = "off"
    BY DEF PInv, Concluded, Processes
  <1>2. StateTyped' /\ EditsCounted'
    BY DEF PInv, StateTyped, EditsCounted
  <1>3. Contained'
    BY <1>1 DEF PInv, Contained, Reported, BackendLevel, BubblewrapUsable, ProcessLevel,
                ResourceLimits, BubblewrapCompatible
  <1>4. Processes'
    BY <1>1 DEF PInv, Processes, Reported
  <1>5. Output'
    BY <1>1 DEF PInv, Output, Reported, Limit
  <1>6. Answers'
    BY <1>1 DEF PInv, Answers, Alive
  <1>7. Concluded'
    BY <1>1 DEF Concluded, Reported
  <1> QED BY <1>2, <1>3, <1>4, <1>5, <1>6, <1>7 DEF PInv

LEMMA FileIs ==
  ASSUME files \in [Inodes -> File], NEW i \in Inodes
  PROVE  /\ files[i] \in File /\ files[i].data \in Contents /\ files[i].stamp \in Nat
         /\ files[i].data \in Seq(Chunk) /\ Len(files[i].data) \in Nat
  <1>1. files[i] \in File
    OBVIOUS
  <1>2. files[i].data \in Contents /\ files[i].stamp \in Nat
    BY <1>1 DEF File
  <1>3. files[i].data \in Seq(Chunk) /\ Len(files[i].data) \in Nat
    BY <1>2, ContentsAre
  <1> QED BY <1>1, <1>2, <1>3

LEMMA LstatStep ==
  ASSUME PInv, Lstat
  PROVE  PInv'
  <1>c. client \in Client /\ files \in [Inodes -> File] /\ path \in Inodes \cup {Link, Gone}
    BY DEF PInv, StateTyped
  <1>r. UNCHANGED Rest /\ client.pc = "lstat"
        /\ held' = (IF path \in Inodes THEN {files[path].data} ELSE {})
    BY DEF Lstat, Rest
  <1>h. held' \subseteq Contents
    BY <1>c, <1>r, FileIs
  <1>1. ASSUME NEW code \in {"input_not_regular", "input_symlink", "input_too_large"}, Fail(code)
        PROVE  PInv'
    <2>1. code \in Errors /\ client.pc \notin {"cleanup", "done"}
      BY <1>r, <1>1 DEF Errors
    <2> QED BY <1>1, <1>r, <1>h, <2>1, FailStep
  <1>2. ASSUME path \in Inodes, ~(Len(files[path].data) > MaxInput),
               client' = [client EXCEPT !.pc = "open", !.initial = Identity(path)]
        PROVE  PInv'
    <2>1. /\ files[path].data \in Contents /\ files[path].stamp \in Nat
          /\ Len(files[path].data) \in Nat
      BY <1>c, <1>2, FileIs
    <2>2. /\ Identity(path) = <<path, Len(files[path].data), files[path].stamp>>
          /\ Identity(path) \in (0..2) \X Nat \X Nat
      BY <1>2, <2>1 DEF Identity, Inodes
    <2>3. /\ client' \in Client /\ client'.pc = "open" /\ client'.result = client.result
          /\ client'.runner = client.runner /\ client'.copied = client.copied /\ client'.hit = client.hit
          /\ client'.initial = Identity(path)
      BY <1>c, <1>2, <2>2 DEF Client, Phases
    <2>4. client.copied = <<>>
      BY <1>r DEF PInv, Copied
    <2>5. /\ client'.initial[1] = path /\ client'.initial[2] = Len(files[path].data)
          /\ client'.initial[3] = files[path].stamp /\ Len(client'.copied) = 0
      BY <2>2, <2>3, <2>4
    <2>6. UNCHANGED files /\ files[path].data \in held'
      BY <1>r, <1>2 DEF Rest
    <2>7. Len(files[path].data) <= MaxInput
      BY <1>2, <2>1, Numbers
    <2>8. Copying'
      BY <1>2, <2>1, <2>5, <2>6, <2>7 DEF Copying
    <2>9. Copied'
      <3>1. client.result = "none"
        BY <1>r DEF PInv, Concluded
      <3> QED BY <2>3, <2>4, <3>1 DEF Copied, Reported
    <2>10. snap' \in Snap
      BY <1>r DEF PInv, StateTyped, Rest
    <2> QED BY <1>r, <1>h, <2>3, <2>8, <2>9, <2>10, SnapshotMove DEF Rest
  <1>3. CASE path = Gone
    <2>1. Fail("input_not_regular")
      BY <1>3 DEF Lstat, Gone, Link, Inodes
    <2> QED BY <2>1, <1>1
  <1>4. CASE path = Link
    <2>1. Fail("input_symlink")
      BY <1>4 DEF Lstat, Gone, Link, Inodes
    <2> QED BY <2>1, <1>1
  <1>5. CASE path \in Inodes
    <2>n. path # Gone /\ path # Link
      BY <1>5 DEF Gone, Link, Inodes
    <2>1. CASE Len(files[path].data) > MaxInput
      <3>1. Fail("input_too_large")
        BY <1>5, <2>1, <2>n DEF Lstat
      <3> QED BY <3>1, <1>1
    <2>2. CASE ~(Len(files[path].data) > MaxInput)
      <3>1. client' = [client EXCEPT !.pc = "open", !.initial = Identity(path)]
        BY <1>5, <2>2, <2>n DEF Lstat
      <3> QED BY <3>1, <1>2, <1>5, <2>2
    <2> QED BY <2>1, <2>2
  <1> QED BY <1>c, <1>3, <1>4, <1>5

LEMMA OpenStep ==
  ASSUME PInv, Open
  PROVE  PInv'
  <1>c. client \in Client /\ held \subseteq Contents /\ snap \in Snap
    BY DEF PInv, StateTyped
  <1>r. UNCHANGED Rest /\ client.pc = "open" /\ UNCHANGED held
    BY DEF Open, Rest
  <1>1. ASSUME NEW code \in {"snapshot_failed", "input_changed"}, Fail(code)
        PROVE  PInv'
    <2>1. code \in Errors /\ client.pc \notin {"cleanup", "done"}
      BY <1>r, <1>1 DEF Errors
    <2> QED BY <1>1, <1>r, <1>c, <2>1, FailStep
  <1>2. CASE client' = [client EXCEPT !.pc = "copy"]
    <2>1. /\ client' \in Client /\ client'.pc = "copy" /\ client'.result = client.result
          /\ client'.runner = client.runner /\ client'.copied = client.copied /\ client'.hit = client.hit
          /\ client'.initial = client.initial
      BY <1>c, <1>2 DEF Client, Phases
    <2>2. Copying'
      BY <1>r, <2>1 DEF PInv, Copying, Rest
    <2>3. client.result = "none"
      BY <1>r DEF PInv, Concluded
    <2>4. Copied'
      BY <2>1, <2>3 DEF Copied, Reported
    <2>5. snap' \in Snap /\ held' \subseteq Contents
      BY <1>c, <1>r DEF Rest
    <2> QED BY <1>r, <2>1, <2>2, <2>4, <2>5, SnapshotMove DEF Rest
  <1> QED BY <1>1, <1>2 DEF Open

LEMMA CopyStep ==
  ASSUME PInv, Copy
  PROVE  PInv'
  <1>c. client \in Client /\ held \subseteq Contents /\ snap \in Snap /\ files \in [Inodes -> File]
    BY DEF PInv, StateTyped
  <1>r. UNCHANGED Rest /\ client.pc = "copy" /\ UNCHANGED held
    BY DEF Copy, Rest
  <1> DEFINE data == files[client.initial[1]].data
             n == Len(client.copied)
  <1>d. /\ client.initial[1] \in Inodes /\ client.initial[2] <= MaxInput
        /\ client.initial[3] <= files[client.initial[1]].stamp
        /\ n <= client.initial[2]
        /\ files[client.initial[1]].stamp = client.initial[3] =>
             /\ Len(data) = client.initial[2] /\ data \in held
             /\ \A k \in 1..n : client.copied[k] = data[k]
    BY <1>r DEF PInv, Copying
  <1>t. data \in Seq(Chunk) /\ Len(data) \in Nat /\ n \in Nat /\ client.initial[2] \in Nat
        /\ client.copied \in Seq(Chunk)
    BY <1>c, <1>d, FileIs, ClientFields, InitialFields
  <1>n. client.result = "none"
    BY <1>r DEF PInv, Concluded
  <1>s. snap' \in Snap /\ held' \subseteq Contents
    BY <1>c, <1>r DEF Rest
  <1>1. CASE Fail("input_changed")
    <2>1. "input_changed" \in Errors /\ client.pc \notin {"cleanup", "done"}
      BY <1>r DEF Errors
    <2> QED BY <1>1, <1>r, <1>s, <2>1, FailStep
  <1>2. CASE /\ n < client.initial[2] /\ n < Len(data)
             /\ client' = [client EXCEPT !.copied = Append(@, data[n + 1])]
    <2>0. data[n + 1] \in Chunk
      BY <1>t, <1>2
    <2>a. /\ Append(client.copied, data[n + 1]) \in Seq(Chunk)
          /\ Len(Append(client.copied, data[n + 1])) = n + 1
          /\ \A k \in 1..n : Append(client.copied, data[n + 1])[k] = client.copied[k]
          /\ Append(client.copied, data[n + 1])[n + 1] = data[n + 1]
      BY <1>t, <2>0
    <2>1. /\ client' \in Client /\ client'.pc = "copy" /\ client'.result = client.result
          /\ client'.runner = client.runner /\ client'.hit = client.hit
          /\ client'.copied = Append(client.copied, data[n + 1])
          /\ client'.initial = client.initial
      BY <1>c, <1>r, <1>2, <2>a DEF Client
    <2>2. UNCHANGED files
      BY <1>r DEF Rest
    <2>3. Len(client'.copied) = n + 1 /\ n + 1 <= client.initial[2]
          /\ \A k \in 1..(n + 1) : k \in 1..n \/ k = n + 1
      <3>1. Len(client'.copied) = n + 1
        BY <2>a, <2>1
      <3>2. n \in Nat /\ client.initial[2] \in Nat /\ n < client.initial[2]
        BY <1>t, <1>2
      <3>3. PICK e \in Nat : e = client.initial[2]
        BY <3>2
      <3>4. n + 1 <= e /\ \A k \in 1..(n + 1) : k \in 1..n \/ k = n + 1
        BY ONLY <3>2, <3>3
      <3> QED BY <3>1, <3>3, <3>4
    <2>4. (\A k \in 1..n : client.copied[k] = data[k]) =>
            \A k \in 1..(n + 1) : client'.copied[k] = data[k]
      BY <2>a, <2>1, <2>3
    <2> HIDE DEF n
    <2>5. Copying'
      BY <1>r, <1>d, <2>1, <2>2, <2>3, <2>4 DEF Copying
    <2>6. Copied'
      BY <1>n, <2>1 DEF Copied, Reported
    <2> QED BY <1>r, <1>s, <2>1, <2>5, <2>6, SnapshotMove DEF Rest
  <1>3. CASE n = client.initial[2] /\ client' = [client EXCEPT !.pc = "freeze"]
    <2>1. /\ client' \in Client /\ client'.pc = "freeze" /\ client'.result = client.result
          /\ client'.runner = client.runner /\ client'.copied = client.copied /\ client'.hit = client.hit
          /\ client'.initial = client.initial
      BY <1>c, <1>3 DEF Client, Phases
    <2>2. Copying'
      BY <1>r, <2>1 DEF PInv, Copying, Rest
    <2>4. Copied'
      BY <1>n, <1>3, <2>1 DEF Copied, Reported
    <2> QED BY <1>r, <1>s, <2>1, <2>2, <2>4, SnapshotMove DEF Rest
  <1>4. CASE n < client.initial[2]
    <2>1. n < Len(data) \/ n >= Len(data)
      BY <1>t
    <2>2. CASE n < Len(data)
      <3>1. ~(n >= Len(data)) /\ n # client.initial[2]
        BY <1>t, <1>4, <2>2
      <3> QED BY <1>2, <1>4, <2>2, <3>1 DEF Copy
    <2>3. CASE n >= Len(data)
      <3>1. ~(n < Len(data)) /\ n # client.initial[2]
        BY <1>t, <1>4, <2>3
      <3> QED BY <1>1, <1>4, <2>3, <3>1 DEF Copy
    <2> QED BY <2>1, <2>2, <2>3
  <1>5. CASE n = client.initial[2]
    <2>1. ~(n < client.initial[2])
      BY <1>t, <1>5
    <2> QED BY <1>1, <1>3, <1>5, <2>1 DEF Copy
  <1>6. n < client.initial[2] \/ n = client.initial[2]
    BY <1>t, <1>d
  <1> QED BY <1>4, <1>5, <1>6

LEMMA FreezeStep ==
  ASSUME PInv, Freeze
  PROVE  PInv'
  <1>c. client \in Client /\ held \subseteq Contents /\ snap \in Snap /\ files \in [Inodes -> File]
    BY DEF PInv, StateTyped
  <1>r. UNCHANGED <<files, path, edits, proc, kid, worker, pipe, buf, rd, host, policy>>
        /\ client.pc = "freeze" /\ held' = held \cap {client.copied}
    BY DEF Freeze
  <1>s. held' \subseteq Contents
    BY <1>c, <1>r
  <1>1. CASE Fail("input_changed") /\ UNCHANGED snap
    <2>1. "input_changed" \in Errors /\ client.pc \notin {"cleanup", "done"} /\ UNCHANGED Rest
      BY <1>r, <1>1 DEF Errors, Rest
    <2> QED BY <1>1, <1>s, <2>1, FailStep
  <1>2. CASE SourceUnchanged /\ snap' = [data |-> client.copied, stamp |-> 0]
             /\ client' = [client EXCEPT !.pc = "start"]
    <2> DEFINE data == files[client.initial[1]].data
               n == Len(client.copied)
    <2>d. /\ client.initial[1] \in Inodes /\ client.initial[2] <= MaxInput
          /\ files[client.initial[1]].stamp = client.initial[3] =>
               /\ Len(data) = client.initial[2] /\ data \in held
               /\ \A k \in 1..n : client.copied[k] = data[k]
      BY <1>r DEF PInv, Copying
    <2>n. n = client.initial[2]
      BY <1>r DEF PInv, Copied
    <2>t. data \in Seq(Chunk) /\ client.copied \in Seq(Chunk)
      BY <1>c, <2>d, FileIs, ClientFields
    <2>i. files[client.initial[1]].stamp = client.initial[3]
      BY <1>2 DEF SourceUnchanged, Identity
    <2>e. client.copied = data
      BY <2>d, <2>n, <2>t, <2>i, SMTT(30)
    <2>h. client.copied \in held' /\ n <= MaxInput
      BY <1>r, <2>d, <2>n, <2>i, <2>e
    <2>1. /\ client' \in Client /\ client'.pc = "start" /\ client'.result = client.result
          /\ client'.runner = client.runner /\ client'.copied = client.copied /\ client'.hit = client.hit
      BY <1>c, <1>2 DEF Client, Phases
    <2>2. Copying'
      BY <2>1 DEF Copying
    <2>4. Copied'
      BY <2>1, <2>h DEF Copied
    <2>5. snap' \in Snap
      BY <1>2, <2>t DEF Snap
    <2> QED BY <1>r, <1>s, <2>1, <2>2, <2>4, <2>5, SnapshotMove
  <1> QED BY <1>1, <1>2 DEF Freeze

\* Other programs: what they change is only looked at while the source is copied.
LEMMA EditStep ==
  ASSUME PInv, EditSource \/ MovePath
  PROVE  PInv'
  <1>c. client \in Client /\ held \subseteq Contents /\ files \in [Inodes -> File] /\ edits \in Nat
        /\ path \in Inodes \cup {Link, Gone} /\ host \in Hosts
    BY DEF PInv, StateTyped
  <1>r. /\ UNCHANGED <<snap, client, proc, kid, worker, pipe, buf, rd, host, policy>>
        /\ client.pc \in {"lstat", "open", "copy", "freeze"}
        /\ edits < host.edits /\ edits' = edits + 1
    BY DEF EditSource, MovePath, SnapshotPhases
  <1>n. client.result = "none"
    BY <1>r DEF PInv, Concluded
  <1>e. edits' \in Nat /\ edits' <= host.edits /\ host.edits \in Nat
    BY <1>c, <1>r, Numbers
  <1>g. Contained' /\ Processes' /\ Output' /\ Answers' /\ Concluded'
    <2>1. Contained'
      BY <1>r DEF PInv, Contained, Reported, BackendLevel, BubblewrapUsable, ProcessLevel,
                  ResourceLimits, BubblewrapCompatible
    <2>2. Processes' /\ Output'
      BY <1>r DEF PInv, Processes, Output, Reported, Limit
    <2>3. Answers' /\ Concluded'
      BY <1>r DEF PInv, Answers, Concluded, Alive, Reported
    <2> QED BY <2>1, <2>2, <2>3
  <1>1. ASSUME held \subseteq held', held' \subseteq Contents, path' \in Inodes \cup {Link, Gone},
               files' \in [Inodes -> File],
               \A i \in Inodes : files'[i] = files[i] \/ files'[i].stamp = files[i].stamp + 1
        PROVE  PInv'
    <2>1. StateTyped'
      BY <1>1, <1>r, <1>e DEF PInv, StateTyped
    <2>2. EditsCounted'
      <3>1. ASSUME NEW i \in Inodes PROVE files'[i].stamp <= edits'
        <4>1. files[i].stamp \in Nat /\ files[i].stamp <= edits
          BY <1>c, FileIs DEF PInv, EditsCounted
        <4>2. files'[i].stamp = files[i].stamp \/ files'[i].stamp = files[i].stamp + 1
          BY <1>1
        <4> QED BY <1>c, <1>r, <4>1, <4>2
      <3> QED BY <1>e, <1>r, <3>1 DEF EditsCounted
    <2>3. Copied'
      BY <1>r, <1>n DEF PInv, Copied, Reported
    <2>4. Copying'
      <3> SUFFICES ASSUME client.pc \in {"open", "copy", "freeze"}
                   PROVE  LET file == files'[client.initial[1]]
                          IN /\ client.initial[1] \in Inodes /\ client.initial[2] <= MaxInput
                             /\ client.initial[3] <= file.stamp
                             /\ Len(client.copied) <= client.initial[2]
                             /\ file.stamp = client.initial[3] =>
                                  /\ Len(file.data) = client.initial[2] /\ file.data \in held'
                                  /\ \A k \in 1..Len(client.copied) : client.copied[k] = file.data[k]
        BY <1>r DEF Copying
      <3>1. /\ client.initial[1] \in Inodes /\ client.initial[2] <= MaxInput
            /\ client.initial[3] <= files[client.initial[1]].stamp
            /\ Len(client.copied) <= client.initial[2]
            /\ files[client.initial[1]].stamp = client.initial[3] =>
                 /\ Len(files[client.initial[1]].data) = client.initial[2]
                 /\ files[client.initial[1]].data \in held
                 /\ \A k \in 1..Len(client.copied) : client.copied[k] = files[client.initial[1]].data[k]
        BY DEF PInv, Copying
      <3>2. CASE files'[client.initial[1]] = files[client.initial[1]]
        BY <1>1, <3>1, <3>2
      <3>3. CASE files'[client.initial[1]].stamp = files[client.initial[1]].stamp + 1
        <4>1. files[client.initial[1]].stamp \in Nat /\ client.initial[3] \in Nat
          BY <1>c, <3>1, FileIs, InitialFields
        <4>2. client.initial[3] <= files'[client.initial[1]].stamp
              /\ files'[client.initial[1]].stamp # client.initial[3]
          BY <3>1, <3>3, <4>1
        <4> QED BY <3>1, <4>2
      <3> QED BY <1>1, <3>1, <3>2, <3>3
    <2> QED BY <1>g, <2>1, <2>2, <2>3, <2>4 DEF PInv
  <1>2. CASE EditSource
    <2>1. PICK i \in Inodes \cap {path, client.initial[1]}, d \in Contents :
            /\ files' = [files EXCEPT ![i] = [data |-> d, stamp |-> @.stamp + 1]]
            /\ held' = IF path = i THEN held \cup {d} ELSE held
      BY <1>2 DEF EditSource
    <2>2. files[i].stamp \in Nat
      BY <1>c, <2>1, FileIs
    <2>3. [data |-> d, stamp |-> files[i].stamp + 1] \in File
      BY <2>1, <2>2 DEF File
    <2>4. files' \in [Inodes -> File]
      BY <1>c, <2>1, <2>3
    <2>5. \A j \in Inodes : files'[j] = files[j] \/ files'[j].stamp = files[j].stamp + 1
      BY <1>c, <2>1
    <2>6. held \subseteq held' /\ held' \subseteq Contents
      BY <1>c, <2>1
    <2>7. path' \in Inodes \cup {Link, Gone}
      BY <1>c, <1>2 DEF EditSource
    <2> QED BY <1>1, <2>4, <2>5, <2>6, <2>7
  <1>3. CASE MovePath
    <2>1. PICK p \in (Inodes \cup {Link, Gone}) \ {path} :
            path' = p /\ held' = IF p \in Inodes THEN held \cup {files[p].data} ELSE held
      BY <1>3 DEF MovePath
    <2>2. files' = files
      BY <1>3 DEF MovePath
    <2>3. p \in Inodes => files[p].data \in Contents
      BY <1>c, FileIs
    <2>4. held \subseteq held' /\ held' \subseteq Contents /\ path' \in Inodes \cup {Link, Gone}
      BY <1>c, <2>1, <2>3
    <2> QED BY <1>1, <1>c, <2>2, <2>4
  <1> QED BY <1>2, <1>3

-----------------------------------------------------------------------------
\* From the start of the worker on the source does not matter any more.
Source == <<files, path, edits, held, host, policy>>

LEMMA SourceKept ==
  ASSUME PInv, UNCHANGED Source, UNCHANGED <<client.copied, client.initial>>,
         client'.pc \notin {"select", "lstat", "open", "copy", "freeze"},
         client'.pc \in {"cleanup", "done"} \/ client.pc \notin {"select", "lstat", "open", "copy", "freeze", "cleanup", "done"},
         Reported' => Reported \/ client.pc = "decode"
  PROVE  EditsCounted' /\ Copying' /\ Copied'
  <1>1. EditsCounted' /\ Copying'
    BY DEF PInv, EditsCounted, Copying, Source
  <1>2. Copied'
    <2>0. client.pc \in Phases
      BY ClientFields DEF PInv, StateTyped
    <2>1. client.pc \in {"start", "poll", "wait", "finish", "judge", "verify", "decode"} \/ Reported
          => client.copied \in held /\ Len(client.copied) <= MaxInput
      BY DEF PInv, Copied, Phases
    <2>2. client'.pc \notin {"cleanup", "done"} =>
            client.pc \in {"start", "poll", "wait", "finish", "judge", "verify", "decode"}
      BY <2>0 DEF Phases
    <2>3. client'.copied = client.copied /\ held' = held
      BY DEF Source
    <2> QED BY <2>1, <2>2, <2>3 DEF Copied
  <1> QED BY <1>1, <1>2

LEMMA StartStep ==
  ASSUME PInv, Start
  PROVE  PInv'
  <1>c. client \in Client /\ worker \in Worker
    BY DEF PInv, StateTyped
  <1>r. UNCHANGED <<files, path, edits, held, snap, kid, pipe, buf, host, policy>>
        /\ client.pc = "start"
    BY DEF Start
  <1>n. client.result = "none" /\ proc.state = "none" /\ kid = "none" /\ worker.phase = "off"
        /\ ~worker.reply.ok
    BY <1>r DEF PInv, Concluded, Processes, Answers
  <1>1. CASE Fail("worker_start_failed") /\ UNCHANGED <<proc, rd, worker>>
    <2>1. "worker_start_failed" \in Errors /\ client.pc \notin {"cleanup", "done"} /\ UNCHANGED Rest
          /\ held' \subseteq Contents
      BY <1>r, <1>1 DEF Errors, Rest, PInv, StateTyped
    <2> QED BY <1>1, <2>1, FailStep
  <1>2. ASSUME proc' = [state |-> "running", exit |-> 0, killed |-> FALSE],
               worker' = [worker EXCEPT !.phase = "boot"],
               \/ /\ rd' = [s \in Streams |-> "reading"]
                  /\ client' = [client EXCEPT !.pc = "poll"]
               \/ Fail("worker_io_failed") /\ UNCHANGED rd
        PROVE  PInv'
    <2>1. /\ client' \in Client /\ client'.pc \in {"poll", "cleanup"}
          /\ client'.result \in {"none", "worker_io_failed"}
          /\ client'.pc # "cleanup" => client'.result = "none"
          /\ client'.runner = client.runner /\ client'.copied = client.copied
          /\ client'.hit = client.hit /\ client'.initial = client.initial
      BY <1>c, <1>n, <1>2 DEF Client, Phases, Fail, Errors
    <2>2. proc' \in Proc /\ proc'.state = "running" /\ proc'.killed = FALSE
      BY <1>2 DEF Proc
    <2>3. worker' \in Worker /\ worker'.phase = "boot" /\ worker'.reply = worker.reply
          /\ worker'.rogue = worker.rogue
      BY <1>c, <1>2 DEF Worker
    <2>4. rd' \in [Streams -> Readers] /\ (client'.pc = "poll" => \A s \in Streams : rd'[s] = "reading")
      <3>1. CASE rd' = [s \in Streams |-> "reading"]
        BY <3>1 DEF Readers
      <3>2. CASE Fail("worker_io_failed") /\ UNCHANGED rd
        <4>1. client'.pc = "cleanup" /\ rd \in [Streams -> Readers]
          BY <1>c, <3>2 DEF Fail, Client, PInv, StateTyped
        <4> QED BY <3>2, <4>1
      <3> QED BY <1>2, <3>1, <3>2
    <2>5. StateTyped'
      BY <1>r, <2>1, <2>2, <2>3, <2>4 DEF PInv, StateTyped
    <2>6. EditsCounted' /\ Copying' /\ Copied'
      BY <1>r, <1>n, <2>1, SourceKept DEF Source, Reported
    <2>7. Contained'
      BY <1>r, <2>1, <2>2 DEF PInv, Contained, Reported, BackendLevel, BubblewrapUsable, ProcessLevel,
                ResourceLimits, BubblewrapCompatible
    <2>8. Processes'
      BY <1>r, <1>n, <2>1, <2>2 DEF Processes, Reported
    <2>9. Output'
      <3>1. \A s \in Streams : buf[s] = <<>>
        BY <1>n DEF PInv, Output
      <3>2. \A s \in Streams : Len(buf'[s]) <= Limit(s) /\ Len(buf'[s]) <= Limit(s) + 1
        <4>1. \A s \in Streams : Len(buf'[s]) = 0 /\ Limit(s) \in Nat
          BY <1>r, <3>1, EmptySeq, Numbers
        <4> QED BY <4>1
      <3>3. client.hit = "contaminated" => buf["err"] # <<>>
        BY DEF PInv, Output
      <3> QED BY <1>r, <2>1, <2>2, <2>4, <3>2, <3>3 DEF Output, Reported, Limit
    <2>10. Answers'
      BY <1>n, <2>3 DEF Answers
    <2>11. Concluded'
      BY <2>1 DEF Concluded, Reported
    <2> QED BY <2>5, <2>6, <2>7, <2>8, <2>9, <2>10, <2>11 DEF PInv
  <1> QED BY <1>1, <1>2 DEF Start

LEMMA PollStep ==
  ASSUME PInv, Poll
  PROVE  PInv'
  <1>c. client \in Client /\ proc \in Proc /\ kid \in Kids
    BY DEF PInv, StateTyped
  <1>r. UNCHANGED <<files, path, edits, held, snap, worker, pipe, buf, rd, host, policy>>
        /\ client.pc = "poll"
    BY DEF Poll
  <1>n. client.result = "none" /\ proc.state \in {"running", "exited"}
    BY <1>r DEF PInv, Concluded, Processes
  <1>1. ASSUME NEW hit \in Hits, client' = [client EXCEPT !.pc = "wait", !.hit = hit],
               hit = "contaminated" => buf["err"] # <<>>,
               \/ UNCHANGED <<proc, kid>> /\ hit = client.hit
               \/ Terminate /\ hit # "none"
        PROVE  PInv'
    <2>1. /\ client' \in Client /\ client'.pc = "wait" /\ client'.result = "none"
          /\ client'.runner = client.runner /\ client'.copied = client.copied
          /\ client'.hit = hit /\ client'.initial = client.initial
      BY <1>c, <1>n, <1>1 DEF Client, Phases
    <2>2. /\ proc' \in Proc /\ kid' \in Kids /\ proc'.state = proc.state /\ proc'.exit = proc.exit
          /\ proc.killed => proc'.killed
          /\ kid' = "alive" => kid = "alive"
          /\ kid = "none" => kid' = "none"
      BY <1>c, <1>1, TerminateIs
    <2>3. StateTyped'
      BY <1>r, <2>1, <2>2 DEF PInv, StateTyped
    <2>4. EditsCounted' /\ Copying' /\ Copied'
      BY <1>r, <2>1, SourceKept DEF Source, Reported
    <2>5. Contained'
      BY <1>r, <2>1, <2>2 DEF PInv, Contained, Reported, BackendLevel, BubblewrapUsable, ProcessLevel,
                ResourceLimits, BubblewrapCompatible
    <2>6. Processes'
      BY <1>r, <1>n, <2>1, <2>2 DEF PInv, Processes, Reported
    <2>7. Output'
      BY <1>r, <1>n, <1>1, <2>1, <2>2 DEF PInv, Output, Reported, Limit
    <2>8. Answers'
      <3>1. Alive' => Alive
        BY <1>c, <2>2 DEF Alive, Proc
      <3> QED BY <1>r, <2>1, <3>1 DEF PInv, Answers
    <2>9. Concluded'
      BY <2>1 DEF Concluded, Reported
    <2> QED BY <2>3, <2>4, <2>5, <2>6, <2>7, <2>8, <2>9 DEF PInv
  <1>2. CASE client' = [client EXCEPT !.pc = "wait"] /\ UNCHANGED <<proc, kid>>
    <2>1. client.hit \in Hits /\ client' = [client EXCEPT !.pc = "wait", !.hit = client.hit]
      BY <1>c, <1>2 DEF Client
    <2>2. client.hit = "contaminated" => buf["err"] # <<>>
      BY DEF PInv, Output
    <2> QED BY <1>1, <1>2, <2>1, <2>2
  <1>3. ASSUME NEW hit \in {"worker_timeout", "worker_output_limit", "worker_io_failed", "contaminated"},
               hit = "contaminated" => buf["err"] # <<>>, StopPolling(hit)
        PROVE  PInv'
    <2>1. hit \in Hits /\ hit # "none"
      BY <1>3 DEF Hits
    <2> QED BY <1>1, <1>3, <2>1 DEF StopPolling
  <1> QED BY <1>2, <1>3 DEF Poll

LEMMA WaitStep ==
  ASSUME PInv, Wait
  PROVE  PInv'
  <1>c. client \in Client /\ proc \in Proc /\ kid \in Kids
    BY DEF PInv, StateTyped
  <1>r. UNCHANGED <<files, path, edits, held, snap, worker, pipe, buf, rd, host, policy>>
        /\ client.pc = "wait"
    BY DEF Wait
  <1>n. client.result = "none" /\ proc.state \in {"running", "exited"}
    BY <1>r DEF PInv, Concluded, Processes
  <1>1. CASE /\ proc.state = "exited" /\ proc' = [proc EXCEPT !.state = "reaped"]
             /\ kid' = (IF kid = "alive" /\ host.os # "nt" THEN "killed" ELSE kid)
             /\ client' = [client EXCEPT !.pc = "finish"]
    <2>1. /\ client' \in Client /\ client'.pc = "finish" /\ client'.result = "none"
          /\ client'.runner = client.runner /\ client'.copied = client.copied
          /\ client'.hit = client.hit /\ client'.initial = client.initial
      BY <1>c, <1>n, <1>1 DEF Client, Phases
    <2>2. /\ proc' \in Proc /\ proc'.state = "reaped" /\ proc'.exit = proc.exit
      BY <1>c, <1>1 DEF Proc
    <2>k. kid' \in Kids /\ kid' # "alive"
      BY <1>c, <1>1 DEF Kids, PInv, Processes
    <2>3. StateTyped'
      BY <1>r, <2>1, <2>2, <2>k DEF PInv, StateTyped
    <2>4. EditsCounted' /\ Copying' /\ Copied'
      BY <1>r, <2>1, SourceKept DEF Source, Reported
    <2>5. Contained'
      BY <1>r, <2>1, <2>2 DEF PInv, Contained, Reported, BackendLevel, BubblewrapUsable, ProcessLevel,
                ResourceLimits, BubblewrapCompatible
    <2>6. Processes'
      BY <2>1, <2>2, <2>k DEF Processes, Reported
    <2>7. Output'
      BY <1>r, <1>n, <2>1, <2>2 DEF PInv, Output, Reported, Limit
    <2>8. Answers'
      BY <1>r, <2>1, <2>2 DEF PInv, Answers, Alive
    <2>9. Concluded'
      BY <2>1 DEF Concluded, Reported
    <2> QED BY <2>3, <2>4, <2>5, <2>6, <2>7, <2>8, <2>9 DEF PInv
  <1>2. CASE proc.state = "running" /\ Terminate /\ Fail("worker_termination_failed")
    <2>0. "worker_termination_failed" \in Errors
      BY DEF Errors
    <2>1. /\ client' \in Client /\ client'.pc = "cleanup" /\ client'.result = "worker_termination_failed"
          /\ client'.runner = client.runner /\ client'.copied = client.copied
          /\ client'.hit = client.hit /\ client'.initial = client.initial
      BY <1>c, <1>2, <2>0, Failed
    <2>2. /\ proc' \in Proc /\ proc'.state = "running" /\ proc'.exit = proc.exit /\ proc'.killed
          /\ kid' \in Kids
      BY <1>c, <1>2, TerminateIs
    <2>3. StateTyped'
      BY <1>r, <2>1, <2>2 DEF PInv, StateTyped
    <2>4. EditsCounted' /\ Copying' /\ Copied'
      BY <1>r, <2>1, SourceKept DEF Source, Reported
    <2>5. Contained'
      BY <1>r, <2>1, <2>2 DEF PInv, Contained, Reported, BackendLevel, BubblewrapUsable, ProcessLevel,
                ResourceLimits, BubblewrapCompatible
    <2>6. Processes'
      BY <2>1, <2>2 DEF Processes, Reported
    <2>7. Output'
      BY <1>r, <1>n, <2>1, <2>2 DEF PInv, Output, Reported, Limit
    <2>8. Answers'
      BY <1>r, <2>1, <2>2 DEF PInv, Answers, Alive
    <2>9. Concluded'
      BY <2>1 DEF Concluded, Reported
    <2> QED BY <2>3, <2>4, <2>5, <2>6, <2>7, <2>8, <2>9 DEF PInv
  <1> QED BY <1>1, <1>2 DEF Wait

\* Readers that are told to stop.
LEMMA ReadersEnd ==
  ASSUME rd \in [Streams -> Readers],
         rd' = [s \in Streams |-> IF rd[s] = "reading" THEN "ended" ELSE rd[s]]
  PROVE  /\ rd' \in [Streams -> Readers]
         /\ \A s \in Streams : /\ rd'[s] # "reading"
                               /\ rd'[s] = rd[s] \/ (rd[s] = "reading" /\ rd'[s] = "ended")
  <1>1. \A s \in Streams : rd'[s] = IF rd[s] = "reading" THEN "ended" ELSE rd[s]
    BY Zenon
  <1>2. \A s \in Streams : rd'[s] \in Readers
    BY <1>1 DEF Readers
  <1>3. rd' \in [Streams -> Readers]
    BY <1>2, Zenon
  <1>4. ASSUME NEW s \in Streams
        PROVE  rd'[s] # "reading" /\ (rd'[s] = rd[s] \/ (rd[s] = "reading" /\ rd'[s] = "ended"))
    <2>1. rd'[s] = IF rd[s] = "reading" THEN "ended" ELSE rd[s]
      BY <1>1, Zenon
    <2>2. CASE rd[s] = "reading"
      BY <2>1, <2>2, Zenon
    <2>3. CASE rd[s] # "reading"
      <3>1. rd'[s] = rd[s]
        BY <2>1, <2>3, Zenon
      <3> QED BY <2>3, <3>1
    <2> QED BY <2>2, <2>3
  <1> QED BY <1>3, <1>4

LEMMA FinishStep ==
  ASSUME PInv, Finish
  PROVE  PInv'
  <1>c. client \in Client /\ rd \in [Streams -> Readers]
    BY DEF PInv, StateTyped
  <1>r. UNCHANGED <<files, path, edits, held, snap, proc, kid, worker, pipe, buf, host, policy>>
        /\ client.pc = "finish"
        /\ (client.hit = "none" => \A s \in Streams : rd[s] = "reading" => pipe[s] = <<>>)
    BY DEF Finish
  <1>n. client.result = "none" /\ proc.state = "reaped"
    BY <1>r DEF PInv, Concluded, Processes
  <1>1. CASE Fail("worker_io_failed") /\ UNCHANGED rd
    <2>1. "worker_io_failed" \in Errors /\ client.pc \notin {"cleanup", "done"} /\ UNCHANGED Rest
          /\ held' \subseteq Contents
      BY <1>r, <1>1 DEF Errors, Rest, PInv, StateTyped
    <2> QED BY <1>1, <2>1, FailStep
  <1>2. CASE /\ rd' = [s \in Streams |-> IF rd[s] = "reading" THEN "ended" ELSE rd[s]]
             /\ client' = [client EXCEPT !.pc = "judge"]
    <2>1. /\ client' \in Client /\ client'.pc = "judge" /\ client'.result = "none"
          /\ client'.runner = client.runner /\ client'.copied = client.copied
          /\ client'.hit = client.hit /\ client'.initial = client.initial
      BY <1>c, <1>n, <1>2 DEF Client, Phases
    <2>2. /\ rd' \in [Streams -> Readers]
          /\ \A s \in Streams : rd'[s] # "reading" /\ (rd'[s] = rd[s] \/ (rd[s] = "reading" /\ rd'[s] = "ended"))
      BY <1>c, <1>2, ReadersEnd
    <2>3. StateTyped'
      BY <1>r, <2>1, <2>2 DEF PInv, StateTyped
    <2>4. EditsCounted' /\ Copying' /\ Copied'
      BY <1>r, <2>1, SourceKept DEF Source, Reported
    <2>5. Contained'
      BY <1>r, <2>1 DEF PInv, Contained, Reported, BackendLevel, BubblewrapUsable, ProcessLevel,
                ResourceLimits, BubblewrapCompatible
    <2>6. Processes'
      BY <1>r, <1>n, <2>1 DEF PInv, Processes, Reported
    <2>7. Output'
      BY <1>r, <1>n, <2>1, <2>2 DEF PInv, Output, Reported, Limit
    <2>8. Answers'
      BY <1>r, <2>1 DEF PInv, Answers, Alive
    <2>9. Concluded'
      BY <2>1 DEF Concluded, Reported
    <2> QED BY <2>3, <2>4, <2>5, <2>6, <2>7, <2>8, <2>9 DEF PInv
  <1> QED BY <1>1, <1>2 DEF Finish

LEMMA JudgeStep ==
  ASSUME PInv, Judge
  PROVE  PInv'
  <1>c. client \in Client /\ rd \in [Streams -> Readers] /\ held \subseteq Contents
    BY DEF PInv, StateTyped
  <1>r. UNCHANGED Rest /\ UNCHANGED held /\ client.pc = "judge"
    BY DEF Judge, Rest
  <1>n. client.result = "none" /\ proc.state = "reaped"
    BY <1>r DEF PInv, Concluded, Processes
  <1>1. ASSUME NEW code \in {"worker_output_limit", "worker_timeout", "worker_io_failed", "worker_failed"},
               Fail(code)
        PROVE  PInv'
    <2>1. code \in Errors /\ client.pc \notin {"cleanup", "done"}
      BY <1>r, <1>1 DEF Errors
    <2> QED BY <1>1, <1>c, <1>r, <2>1, FailStep
  <1>2. CASE /\ ~SomeReader("over") /\ client.hit \notin {"worker_timeout", "worker_output_limit"}
             /\ client.hit # "worker_io_failed" /\ ~SomeReader("failed")
             /\ proc.exit = 0 /\ buf["err"] = <<>>
             /\ client' = [client EXCEPT !.pc = "verify"]
    <2>1. /\ client' \in Client /\ client'.pc = "verify" /\ client'.result = "none"
          /\ client'.runner = client.runner /\ client'.copied = client.copied
          /\ client'.hit = client.hit /\ client'.initial = client.initial
      BY <1>c, <1>n, <1>2 DEF Client, Phases
    <2>2. client.hit = "none"
      <3>1. client.hit \in Hits
        BY <1>c, ClientFields
      <3>2. client.hit # "contaminated"
        BY <1>2 DEF PInv, Output
      <3> QED BY <1>2, <3>1, <3>2 DEF Hits
    <2>3. \A s \in Streams : rd[s] = "ended"
      <3>1. \A s \in Streams : rd[s] # "off" /\ rd[s] # "reading" /\ rd[s] \in Readers
        BY <1>c, <1>r DEF PInv, Output
      <3> QED BY <1>2, <3>1 DEF SomeReader, Readers
    <2>4. StateTyped'
      BY <1>r, <2>1 DEF PInv, StateTyped, Rest
    <2>5. EditsCounted' /\ Copying' /\ Copied'
      BY <1>r, <2>1, SourceKept DEF Source, Reported, Rest
    <2>6. Contained'
      BY <1>r, <2>1 DEF PInv, Contained, Reported, BackendLevel, BubblewrapUsable, ProcessLevel,
                ResourceLimits, BubblewrapCompatible, Rest
    <2>7. Processes'
      BY <1>r, <1>n, <2>1 DEF PInv, Processes, Reported, Rest
    <2>8. Output'
      BY <1>r, <1>n, <1>2, <2>1, <2>2, <2>3 DEF PInv, Output, Reported, Limit, Rest
    <2>9. Answers'
      BY <1>r, <2>1 DEF PInv, Answers, Alive, Rest
    <2>10. Concluded'
      BY <2>1 DEF Concluded, Reported
    <2> QED BY <2>4, <2>5, <2>6, <2>7, <2>8, <2>9, <2>10 DEF PInv
  <1> QED BY <1>1, <1>2 DEF Judge

LEMMA VerifyStep ==
  ASSUME PInv, Verify
  PROVE  PInv'
  <1>c. client \in Client /\ held \subseteq Contents
    BY DEF PInv, StateTyped
  <1>r. UNCHANGED Rest /\ UNCHANGED held /\ client.pc = "verify"
    BY DEF Verify, Rest
  <1>n. client.result = "none" /\ proc.state = "reaped"
    BY <1>r DEF PInv, Concluded, Processes
  <1>1. CASE Fail("input_snapshot_changed")
    <2>1. "input_snapshot_changed" \in Errors /\ client.pc \notin {"cleanup", "done"}
      BY <1>r DEF Errors
    <2> QED BY <1>1, <1>c, <1>r, <2>1, FailStep
  <1>2. CASE client' = [client EXCEPT !.pc = "decode"]
    <2>1. /\ client' \in Client /\ client'.pc = "decode" /\ client'.result = "none"
          /\ client'.runner = client.runner /\ client'.copied = client.copied
          /\ client'.hit = client.hit /\ client'.initial = client.initial
      BY <1>c, <1>n, <1>2 DEF Client, Phases
    <2>4. StateTyped'
      BY <1>r, <2>1 DEF PInv, StateTyped, Rest
    <2>5. EditsCounted' /\ Copying' /\ Copied'
      BY <1>r, <2>1, SourceKept DEF Source, Reported, Rest
    <2>6. Contained'
      BY <1>r, <2>1 DEF PInv, Contained, Reported, BackendLevel, BubblewrapUsable, ProcessLevel,
                ResourceLimits, BubblewrapCompatible, Rest
    <2>7. Processes'
      BY <1>r, <1>n, <2>1 DEF PInv, Processes, Reported, Rest
    <2>8. Output'
      BY <1>r, <1>n, <2>1 DEF PInv, Output, Reported, Limit, Rest
    <2>9. Answers'
      BY <1>r, <2>1 DEF PInv, Answers, Alive, Rest
    <2>10. Concluded'
      BY <2>1 DEF Concluded, Reported
    <2> QED BY <2>4, <2>5, <2>6, <2>7, <2>8, <2>9, <2>10 DEF PInv
  <1> QED BY <1>1, <1>2 DEF Verify

LEMMA DecodeStep ==
  ASSUME PInv, Decode
  PROVE  PInv'
  <1>c. client \in Client /\ held \subseteq Contents /\ worker \in Worker
    BY DEF PInv, StateTyped
  <1>r. UNCHANGED Rest /\ UNCHANGED held /\ client.pc = "decode"
    BY DEF Decode, Rest
  <1>n. client.result = "none" /\ proc.state = "reaped"
    BY <1>r DEF PInv, Concluded, Processes
  <1>w. worker.reply \in Reply /\ worker.read \in Seq(Chunk) /\ worker.reply.data \in Seq(Chunk)
    BY <1>c DEF Worker, Reply
  <1>1. ASSUME NEW code \in {"protocol_error", "request_mismatch", "worker_failed"}, Fail(code)
        PROVE  PInv'
    <2>1. code \in Errors /\ client.pc \notin {"cleanup", "done"}
      BY <1>r, <1>1 DEF Errors
    <2> QED BY <1>1, <1>c, <1>r, <2>1, FailStep
  <1> DEFINE given == [data |-> worker.reply.data, parsed |-> worker.read,
                       level |-> BackendLevel(client.runner)]
  <1>2. CASE /\ worker.reply.ok /\ worker.reply.data = client.copied
             /\ client' = [client EXCEPT !.pc = "cleanup", !.result = "report", !.report = given]
    <2>0. given \in Report
      <3>1. BackendLevel(client.runner) \in 1..3
        BY Levels
      <3>2. BackendLevel(client.runner) \in 0..3
        BY <3>1
      <3> HIDE DEF BackendLevel
      <3> QED BY <1>w, <3>2 DEF Report
    <2>g. given.data = worker.reply.data /\ given.parsed = worker.read
          /\ given.level = BackendLevel(client.runner)
      OBVIOUS
    <2> HIDE DEF given
    <2>1. /\ client' \in Client /\ client'.pc = "cleanup" /\ client'.result = "report"
          /\ client'.runner = client.runner /\ client'.copied = client.copied
          /\ client'.hit = client.hit /\ client'.initial = client.initial /\ client'.report = given
      BY <1>c, <1>2, <2>0 DEF Client, Phases
    <2>4. StateTyped'
      BY <1>r, <2>1 DEF PInv, StateTyped, Rest
    <2>5. EditsCounted' /\ Copying' /\ Copied'
      BY <1>r, <2>1, SourceKept DEF Source, Reported, Rest
    <2>6. Contained'
      BY <1>r, <2>1, <2>g DEF PInv, Contained, Reported, BackendLevel, BubblewrapUsable, ProcessLevel,
                ResourceLimits, BubblewrapCompatible, Rest
    <2>7. Processes'
      BY <1>r, <1>n, <2>1 DEF PInv, Processes, Reported, Rest
    <2>8. Output'
      BY <1>r, <1>n, <2>1 DEF PInv, Output, Reported, Limit, Rest
    <2>9. Answers'
      BY <1>r, <2>1 DEF PInv, Answers, Alive, Rest
    <2>10. Concluded'
      BY <1>r, <1>2, <2>1, <2>g DEF PInv, Answers, Concluded, Reported, Rest
    <2> QED BY <2>4, <2>5, <2>6, <2>7, <2>8, <2>9, <2>10 DEF PInv
  <1> HIDE DEF given
  <1> DEFINE error == ResponseError(worker.reply)
  <1>3. \/ error \in {"protocol_error", "request_mismatch", "worker_failed"}
        \/ error = "none" /\ worker.reply.ok /\ worker.reply.data = client.copied
    BY DEF ResponseError
  <1>4. IF error # "none" THEN Fail(error)
        ELSE client' = [client EXCEPT !.pc = "cleanup", !.result = "report", !.report = given]
    BY DEF Decode, given
  <1> HIDE DEF error
  <1>5. CASE error = "none"
    BY <1>2, <1>3, <1>4, <1>5
  <1>6. CASE error \in {"protocol_error", "request_mismatch", "worker_failed"}
    <2>1. error # "none"
      BY <1>6
    <2> QED BY <1>1, <1>4, <1>6, <2>1
  <1> QED BY <1>3, <1>5, <1>6

LEMMA CleanupStep ==
  ASSUME PInv, Cleanup
  PROVE  PInv'
  <1>c. client \in Client /\ proc \in Proc /\ kid \in Kids /\ rd \in [Streams -> Readers]
    BY DEF PInv, StateTyped
  <1>r. UNCHANGED <<files, path, edits, held, worker, pipe, buf, host, policy>>
        /\ client.pc = "cleanup" /\ snap' = NoFile
        /\ client' = [client EXCEPT !.pc = "done"]
        /\ rd' = [s \in Streams |-> IF rd[s] = "reading" THEN "ended" ELSE rd[s]]
    BY DEF Cleanup
  <1>1. /\ client' \in Client /\ client'.pc = "done" /\ client'.result = client.result
        /\ client'.runner = client.runner /\ client'.copied = client.copied
        /\ client'.hit = client.hit /\ client'.initial = client.initial
        /\ client'.report = client.report
    BY <1>c, <1>r DEF Client, Phases
  <1>2. /\ rd' \in [Streams -> Readers]
        /\ \A s \in Streams : /\ rd'[s] # "reading"
                              /\ rd'[s] = rd[s] \/ (rd[s] = "reading" /\ rd'[s] = "ended")
    BY <1>c, <1>r, ReadersEnd
  <1>3. /\ proc' \in Proc /\ kid' \in Kids /\ proc'.exit = proc.exit
        /\ proc'.state = (IF proc.state = "exited" THEN "reaped" ELSE proc.state)
        /\ proc'.state = "running" => proc'.killed
        /\ kid' = IF kid = "alive" /\ host.os # "nt" THEN "killed" ELSE kid
    <2>1. CASE proc.state = "exited"
      <3>1. /\ proc' = [proc EXCEPT !.state = "reaped"]
            /\ kid' = IF kid = "alive" /\ host.os # "nt" THEN "killed" ELSE kid
        BY <2>1 DEF Cleanup
      <3>2. kid' \in Kids
        BY <1>c, <3>1 DEF Kids
      <3>3. proc' \in Proc /\ proc'.exit = proc.exit /\ proc'.state = "reaped"
        BY <1>c, <3>1 DEF Proc
      <3> QED BY <2>1, <3>1, <3>2, <3>3
    <2>2. CASE proc.state # "exited"
      <3>1. Terminate
        BY <2>2 DEF Cleanup
      <3> QED BY <1>c, <2>2, <3>1, TerminateIs
    <2> QED BY <2>1, <2>2
  <1>k. /\ kid' = "alive" => host.os = "nt" /\ proc.state = "running"
        /\ kid = "none" => kid' = "none"
    <2>1. proc.state \in {"none", "running", "exited", "reaped"}
      BY <1>c DEF Proc
    <2> QED BY <1>3, <2>1 DEF PInv, Processes
  <1>4. StateTyped'
    <2>1. snap' \in Snap
      BY <1>r, EmptySeq DEF Snap, NoFile
    <2> QED BY <1>r, <1>1, <1>2, <1>3, <2>1 DEF PInv, StateTyped
  <1>5. EditsCounted' /\ Copying' /\ Copied'
    BY <1>r, <1>1, SourceKept DEF Source, Reported
  <1>6. Contained'
    BY <1>r, <1>1, <1>3 DEF PInv, Contained, Reported, BackendLevel, BubblewrapUsable, ProcessLevel,
              ResourceLimits, BubblewrapCompatible
  <1>7. Processes'
    BY <1>r, <1>1, <1>3, <1>k DEF PInv, Processes, Reported
  <1>8. Output'
    BY <1>r, <1>1, <1>2, <1>3 DEF PInv, Output, Reported, Limit
  <1>9. Answers'
    <2>1. ~Alive'
      BY <1>3 DEF Alive
    <2> QED BY <1>r, <1>1, <2>1 DEF PInv, Answers
  <1>10. Concluded'
    BY <1>r, <1>1 DEF PInv, Concluded, Reported
  <1> QED BY <1>4, <1>5, <1>6, <1>7, <1>8, <1>9, <1>10 DEF PInv

-----------------------------------------------------------------------------
\* A step of the worker, of the library in it or of a descendant.
LEMMA WorkerMove ==
  ASSUME PInv, UNCHANGED parentVars, proc.state # "none",
         snap' \in Snap, proc' \in Proc, kid' \in Kids, worker' \in Worker,
         pipe' \in [Streams -> Seq(Unit)],
         \/ proc'.state = proc.state /\ proc'.exit = proc.exit
         \/ proc.state = "running" /\ proc'.state = "exited",
         proc'.killed = proc.killed,
         kid' = "alive" => \/ kid = "alive" /\ ~(proc'.state = "exited" /\ host.os = "nt")
                           \/ Alive /\ proc' = proc,
         snap = NoFile => snap' = NoFile,
         \A s \in Streams : pipe'[s] = pipe[s] \/ rd[s] = "reading",
         worker.rogue => worker'.rogue,
         Answers'
  PROVE  PInv'
  <1>1. StateTyped'
    BY DEF PInv, StateTyped, parentVars
  <1>2. EditsCounted' /\ Copying' /\ Copied'
    BY DEF PInv, EditsCounted, Copying, Copied, Reported, parentVars
  <1>3. Contained'
    BY DEF PInv, Contained, Reported, BackendLevel, BubblewrapUsable, ProcessLevel,
              ResourceLimits, BubblewrapCompatible, parentVars
  <1>4. Processes'
    BY DEF PInv, Processes, Reported, parentVars, Alive
  <1>5. Output'
    <2>1. proc'.state = "reaped" => proc'.exit = proc.exit
      OBVIOUS
    <2>2. client.pc \in {"verify", "decode"} \/ Reported => proc.state = "reaped"
      BY DEF PInv, Processes
    <2>3. proc.state = "reaped" => proc'.exit = proc.exit
      OBVIOUS
    <2>4. proc'.state # "none"
      OBVIOUS
    <2> QED BY <2>2, <2>3, <2>4 DEF PInv, Output, Reported, Limit, parentVars
  <1>6. Concluded'
    BY DEF PInv, Concluded, Reported, parentVars
  <1> QED BY <1>1, <1>2, <1>3, <1>4, <1>5, <1>6 DEF PInv

LEMMA WorkerFields ==
  ASSUME worker \in Worker
  PROVE  /\ worker.stamp \in Int /\ worker.read \in Seq(Chunk) /\ worker.rogue \in BOOLEAN
         /\ worker.noise \in Nat /\ worker.reply \in Reply /\ worker.reply.ok \in BOOLEAN
         /\ worker.phase \in {"off", "boot", "before", "parse", "after", "head", "tail", "exit"}
  BY DEF Worker, Reply

LEMMA ErrorReplyIs == ErrorReply \in Reply /\ ErrorReply.ok = FALSE
  BY EmptySeq DEF ErrorReply, Reply

\* What is known while the worker or the library runs.
LEMMA StateFields ==
  ASSUME PInv
  PROVE  /\ client \in Client /\ proc \in Proc /\ kid \in Kids /\ worker \in Worker
         /\ snap \in Snap /\ snap.stamp \in Int /\ snap.data \in Seq(Chunk)
         /\ pipe \in [Streams -> Seq(Unit)] /\ client.copied \in Seq(Chunk)
         /\ Answers
         /\ Alive \/ kid = "alive" => proc.state # "none" /\ snap.stamp \in Int
         /\ kid = "none" \/ proc.state # "none"
         /\ snap = NoFile => snap.stamp = 0 - 1
  <1>1. /\ client \in Client /\ proc \in Proc /\ kid \in Kids /\ worker \in Worker
        /\ snap \in Snap /\ pipe \in [Streams -> Seq(Unit)] /\ Answers
    BY DEF PInv, StateTyped
  <1>2. snap.stamp \in Int /\ snap.data \in Seq(Chunk)
    BY <1>1 DEF Snap
  <1>3. client.copied \in Seq(Chunk)
    BY <1>1, ClientFields
  <1>4. (Alive \/ kid = "alive" => proc.state # "none") /\ (kid = "none" \/ proc.state # "none")
    BY DEF Alive, PInv, Processes
  <1>5. snap = NoFile => snap.stamp = 0 - 1
    BY DEF NoFile
  <1> QED BY <1>1, <1>2, <1>3, <1>4, <1>5

LEMMA BootStep ==
  ASSUME PInv, WorkerBoot
  PROVE  PInv'
  <1>r. UNCHANGED parentVars /\ UNCHANGED <<snap, pipe>> /\ Alive /\ worker.phase = "boot"
    BY DEF WorkerBoot
  <1>f. /\ client \in Client /\ proc \in Proc /\ kid \in Kids /\ worker \in Worker
        /\ snap \in Snap /\ pipe \in [Streams -> Seq(Unit)] /\ Answers /\ proc.state # "none"
    BY <1>r, StateFields
  <1>a. client' = client /\ ~worker.reply.ok /\ proc.state = "running"
    BY <1>r, <1>f DEF Answers, parentVars, Alive
  <1>1. CASE Exit(1) /\ UNCHANGED worker
    <2>1. /\ proc' \in Proc /\ proc'.state = "exited" /\ proc'.killed = proc.killed
          /\ kid' \in Kids /\ kid' = IF host.os = "nt" /\ kid # "none" THEN "dead" ELSE kid
      BY <1>f, <1>1, ExitIs
    <2>2. Answers'
      BY <1>1, <1>a, <2>1 DEF Answers, Alive
    <2>3. worker' \in Worker /\ snap' \in Snap /\ pipe' \in [Streams -> Seq(Unit)]
      BY <1>r, <1>f, <1>1
    <2> QED BY <1>r, <1>f, <1>a, <1>1, <2>1, <2>2, <2>3, WorkerMove
  <1>2. CASE worker' = [worker EXCEPT !.phase = "before"] /\ UNCHANGED <<proc, kid>>
    <2>1. worker' \in Worker /\ worker'.phase = "before" /\ worker'.reply = worker.reply
          /\ worker'.rogue = worker.rogue
      BY <1>f, <1>2 DEF Worker
    <2>2. Answers'
      BY <1>a, <2>1 DEF Answers
    <2> QED BY <1>r, <1>f, <1>2, <2>1, <2>2, WorkerMove
  <1>3. CASE worker' = [worker EXCEPT !.phase = "head", !.reply = ErrorReply] /\ UNCHANGED <<proc, kid>>
    <2>1. worker' \in Worker /\ worker'.phase = "head" /\ worker'.reply = ErrorReply
          /\ worker'.rogue = worker.rogue
      BY <1>f, <1>3, ErrorReplyIs DEF Worker
    <2>2. Answers'
      BY <2>1, ErrorReplyIs DEF Answers
    <2> QED BY <1>r, <1>f, <1>3, <2>1, <2>2, WorkerMove
  <1> QED BY <1>1, <1>2, <1>3 DEF WorkerBoot

LEMMA MeasureStep ==
  ASSUME PInv, WorkerBefore \/ WorkerParse \/ WorkerAfter
  PROVE  PInv'
  <1>r. UNCHANGED parentVars /\ UNCHANGED <<snap, pipe, proc, kid>> /\ Alive
    BY DEF WorkerBefore, WorkerParse, WorkerAfter
  <1>f. /\ client \in Client /\ proc \in Proc /\ kid \in Kids /\ worker \in Worker
        /\ snap \in Snap /\ pipe \in [Streams -> Seq(Unit)] /\ Answers /\ proc.state # "none"
        /\ snap.stamp \in Int /\ snap.data \in Seq(Chunk) /\ client.copied \in Seq(Chunk)
    BY <1>r, StateFields
  <1>a. client' = client /\ worker.phase \in {"before", "parse", "after"} /\ ~worker.reply.ok
    BY <1>r, <1>f DEF Answers, parentVars, WorkerBefore, WorkerParse, WorkerAfter
  <1>0. ASSUME worker' \in Worker, worker'.rogue = worker.rogue, Answers' PROVE PInv'
    BY <1>r, <1>f, <1>0, WorkerMove
  <1>1. CASE worker' = [worker EXCEPT !.phase = "head", !.reply = ErrorReply]
    <2>1. worker' \in Worker /\ worker'.phase = "head" /\ worker'.reply = ErrorReply
          /\ worker'.rogue = worker.rogue
      BY <1>f, <1>1, ErrorReplyIs DEF Worker
    <2>2. Answers'
      BY <2>1, ErrorReplyIs DEF Answers
    <2> QED BY <1>0, <2>1, <2>2
  <1>2. CASE WorkerBefore /\ snap.data = Requested
             /\ worker' = [worker EXCEPT !.phase = "parse", !.stamp = snap.stamp]
    <2>1. worker' \in Worker /\ worker'.phase = "parse" /\ worker'.reply = worker.reply
          /\ worker'.rogue = worker.rogue /\ worker'.stamp = snap.stamp
      BY <1>f, <1>2 DEF Worker
    <2>2. snap'.stamp >= worker'.stamp /\ snap'.data = client'.copied
      BY <1>r, <1>f, <1>a, <1>2, <2>1 DEF Requested
    <2>3. Answers'
      BY <1>a, <2>1, <2>2 DEF Answers
    <2> QED BY <1>0, <2>1, <2>3
  <1>3. CASE WorkerParse /\ worker' = [worker EXCEPT !.phase = "after", !.read = snap.data]
    <2>1. worker' \in Worker /\ worker'.phase = "after" /\ worker'.reply = worker.reply
          /\ worker'.rogue = worker.rogue /\ worker'.stamp = worker.stamp /\ worker'.read = snap.data
      BY <1>f, <1>3 DEF Worker
    <2>2. worker.phase = "parse" /\ snap' = snap
      BY <1>3, <1>r DEF WorkerParse
    <2>3. Answers'
      BY <1>r, <1>f, <1>a, <2>1, <2>2 DEF Answers
    <2> QED BY <1>0, <2>1, <2>3
  <1>4. CASE WorkerAfter /\ snap = [data |-> Requested, stamp |-> worker.stamp]
             /\ worker' = [worker EXCEPT !.phase = "head", !.reply =
                             [ok |-> TRUE, id |-> TRUE, data |-> snap.data, shape |-> TRUE]]
    <2>0. [ok |-> TRUE, id |-> TRUE, data |-> snap.data, shape |-> TRUE] \in Reply
      BY <1>f DEF Reply
    <2>1. worker' \in Worker /\ worker'.phase = "head" /\ worker'.rogue = worker.rogue
          /\ worker'.read = worker.read
      BY <1>f, <1>4, <2>0 DEF Worker
    <2>2. worker.phase = "after" /\ snap.stamp = worker.stamp
      BY <1>4 DEF WorkerAfter
    <2>3. worker.read = client.copied
      BY <1>r, <1>f, <2>2 DEF Answers
    <2>4. Answers'
      BY <1>a, <2>1, <2>3 DEF Answers
    <2> QED BY <1>0, <2>1, <2>4
  <1>5. CASE WorkerBefore
    BY <1>1, <1>2, <1>5 DEF WorkerBefore
  <1>6. CASE WorkerParse
    BY <1>1, <1>3, <1>6 DEF WorkerParse
  <1>7. CASE WorkerAfter
    <2>1. PICK fits \in BOOLEAN :
         worker' = [worker EXCEPT !.phase = "head", !.reply =
                      IF fits /\ snap = [data |-> Requested, stamp |-> worker.stamp]
                      THEN [ok |-> TRUE, id |-> TRUE, data |-> snap.data, shape |-> TRUE]
                      ELSE ErrorReply]
      BY <1>7 DEF WorkerAfter
    <2>2. CASE fits /\ snap = [data |-> Requested, stamp |-> worker.stamp]
      BY <1>4, <1>7, <2>1, <2>2
    <2>3. CASE ~(fits /\ snap = [data |-> Requested, stamp |-> worker.stamp])
      BY <1>1, <2>1, <2>3
    <2> QED BY <2>2, <2>3
  <1> QED BY <1>5, <1>6, <1>7

LEMMA Appending ==
  ASSUME pipe \in [Streams -> Seq(Unit)], NEW s \in Streams, NEW u \in Unit,
         pipe' = [pipe EXCEPT ![s] = Append(@, u)]
  PROVE  pipe' \in [Streams -> Seq(Unit)] /\ \A t \in Streams : t = s \/ pipe'[t] = pipe[t]
  <1>1. Append(pipe[s], u) \in Seq(Unit)
    OBVIOUS
  <1> QED BY <1>1

LEMMA WriteStep ==
  ASSUME PInv, WorkerWrite \/ WorkerExit \/ LibraryCrash \/ ProcDies
  PROVE  PInv'
  <1>r. UNCHANGED parentVars /\ UNCHANGED snap /\ proc.state = "running"
    BY DEF WorkerWrite, WorkerExit, LibraryCrash, ProcDies, Alive
  <1>f. /\ client \in Client /\ proc \in Proc /\ kid \in Kids /\ worker \in Worker
        /\ snap \in Snap /\ pipe \in [Streams -> Seq(Unit)] /\ Answers
    BY <1>r, StateFields
  <1>a. client' = client /\ rd' = rd
    BY <1>r DEF parentVars
  <1>1. ASSUME NEW code \in {0, 1, 9, 70}, Exit(code), UNCHANGED <<worker, pipe>>
        PROVE  PInv'
    <2>1. /\ proc' \in Proc /\ proc'.state = "exited" /\ proc'.killed = proc.killed
          /\ kid' \in Kids /\ kid' = IF host.os = "nt" /\ kid # "none" THEN "dead" ELSE kid
      BY <1>f, <1>1, ExitIs
    <2>2. Answers'
      BY <1>f, <1>1, <1>a, <2>1 DEF Answers, Alive
    <2>3. worker' \in Worker /\ snap' \in Snap /\ pipe' \in [Streams -> Seq(Unit)]
      BY <1>r, <1>f, <1>1
    <2> QED BY <1>r, <1>f, <1>1, <2>1, <2>2, <2>3, WorkerMove
  <1>2. CASE /\ worker.phase \in {"head", "tail"} /\ rd["out"] = "reading"
             /\ pipe' = [pipe EXCEPT !["out"] = Append(@, worker.phase)]
             /\ worker' = [worker EXCEPT
                             !.phase = IF worker.phase = "head" THEN "tail" ELSE "exit"]
             /\ UNCHANGED <<proc, kid>>
    <2>1. "out" \in Streams /\ worker.phase \in Unit
      BY <1>2 DEF Streams, Unit
    <2>2. pipe' \in [Streams -> Seq(Unit)] /\ \A s \in Streams : s = "out" \/ pipe'[s] = pipe[s]
      BY <1>f, <1>2, <2>1, Appending
    <2>3. /\ worker' \in Worker /\ worker'.phase \in {"tail", "exit"} /\ worker'.reply = worker.reply
          /\ worker'.rogue = worker.rogue /\ worker'.read = worker.read
      BY <1>f, <1>2 DEF Worker
    <2>4. Answers'
      BY <1>f, <1>a, <2>3 DEF Answers
    <2> QED BY <1>r, <1>f, <1>2, <2>2, <2>3, <2>4, WorkerMove
  <1>3. CASE WorkerWrite
    BY <1>1, <1>2, <1>3 DEF WorkerWrite
  <1>4. CASE WorkerExit
    BY <1>1, <1>4 DEF WorkerExit
  <1>5. CASE LibraryCrash
    BY <1>1, <1>5 DEF LibraryCrash
  <1>6. CASE ProcDies
    BY <1>1, <1>6 DEF ProcDies
  <1> QED BY <1>3, <1>4, <1>5, <1>6

LEMMA LibraryStep ==
  ASSUME PInv, LibraryForks \/ KidExits \/ LibraryWrites \/ LibraryTampers \/ LibraryRestores
  PROVE  PInv'
  <1>r. UNCHANGED parentVars /\ UNCHANGED proc
    BY DEF LibraryForks, KidExits, LibraryWrites, LibraryTampers, LibraryRestores
  <1>f. /\ client \in Client /\ proc \in Proc /\ kid \in Kids /\ worker \in Worker
        /\ snap \in Snap /\ pipe \in [Streams -> Seq(Unit)] /\ Answers
        /\ snap.stamp \in Int /\ client.copied \in Seq(Chunk)
        /\ snap = NoFile => snap.stamp = 0 - 1
    BY StateFields
  <1>a. client' = client /\ rd' = rd
    BY <1>r DEF parentVars
  <1>n. proc.state # "none"
    BY StateFields DEF LibraryForks, KidExits, LibraryWrites, LibraryTampers, LibraryRestores, LibraryRuns
  <1>k. kid = "alive" => ~(proc'.state = "exited" /\ host.os = "nt")
    BY <1>r DEF PInv, Processes
  <1>1. CASE LibraryForks \/ KidExits
    <2>1. /\ UNCHANGED <<snap, worker, pipe>> /\ kid' \in Kids
          /\ kid' = "alive" => Alive /\ proc' = proc
      BY <1>1, <1>r DEF LibraryForks, KidExits, Kids
    <2>2. Answers'
      BY <1>f, <1>a, <1>r, <2>1 DEF Answers, Alive
    <2> QED BY <1>r, <1>f, <1>n, <2>1, <2>2, WorkerMove
  <1>2. CASE LibraryWrites
    <2>1. PICK s \in Streams : rd[s] = "reading" /\ pipe' = [pipe EXCEPT ![s] = Append(@, "noise")]
      BY <1>2 DEF LibraryWrites
    <2>2. pipe' \in [Streams -> Seq(Unit)] /\ \A t \in Streams : t = s \/ pipe'[t] = pipe[t]
      BY <1>f, <2>1, Appending DEF Unit
    <2>3. UNCHANGED <<snap, kid>> /\ worker' = [worker EXCEPT !.noise = @ + 1]
      BY <1>2 DEF LibraryWrites
    <2>4. worker.noise + 1 \in Nat
      BY <1>f, WorkerFields
    <2>5. /\ worker' \in Worker /\ worker'.phase = worker.phase /\ worker'.reply = worker.reply
          /\ worker'.rogue = worker.rogue /\ worker'.read = worker.read /\ worker'.stamp = worker.stamp
      BY <1>f, <2>3, <2>4 DEF Worker
    <2>6. Answers'
      BY <1>f, <1>a, <1>r, <2>3, <2>5 DEF Answers, Alive
    <2>7. \A t \in Streams : pipe'[t] = pipe[t] \/ rd[t] = "reading"
      BY <2>1, <2>2
    <2> QED BY <1>r, <1>f, <1>n, <1>k, <2>2, <2>3, <2>5, <2>6, <2>7, WorkerMove
  <1>3. ASSUME NEW data \in Seq(Chunk), NEW stamp \in Int, stamp > snap.stamp, snap.stamp \in {0, 1},
               snap' = [data |-> data, stamp |-> stamp], UNCHANGED <<kid, worker, pipe>>
        PROVE  PInv'
    <2>1. snap' \in Snap /\ snap'.stamp = stamp
      BY <1>3 DEF Snap
    <2>2. snap # NoFile
      BY <1>f, <1>3
    <2>s. worker.stamp \in Int
      BY <1>f, WorkerFields
    <2>3. Alive' = Alive
      BY <1>r DEF Alive
    <2>4. Alive /\ worker.phase \in {"parse", "after"} =>
            snap'.stamp >= worker.stamp /\ snap'.stamp # worker.stamp
      <3>1. Alive /\ worker.phase \in {"parse", "after"} => snap.stamp >= worker.stamp
        BY <1>f DEF Answers
      <3> QED BY <1>3, <1>f, <2>1, <2>s, <3>1
    <2>5. Answers'
      BY <1>f, <1>a, <1>3, <2>3, <2>4 DEF Answers
    <2> QED BY <1>r, <1>f, <1>n, <1>k, <1>3, <2>1, <2>2, <2>5, WorkerMove
  <1>4. CASE LibraryTampers
    <2>1. snap.stamp = 0 /\ snap' = [data |-> <<>>, stamp |-> 1] /\ UNCHANGED <<kid, worker, pipe>>
      BY <1>4 DEF LibraryTampers
    <2>2. 1 > snap.stamp /\ snap.stamp \in {0, 1} /\ 1 \in Int
      BY <2>1
    <2> QED BY <1>3, <2>1, <2>2, EmptySeq
  <1>5. CASE LibraryRestores
    BY <1>3, <1>5, <1>f DEF LibraryRestores
  <1> QED BY <1>1, <1>2, <1>4, <1>5

LEMMA AnswersStep ==
  ASSUME PInv, LibraryAnswers
  PROVE  PInv'
  <1>r. UNCHANGED parentVars /\ UNCHANGED <<snap, proc, kid, pipe>> /\ Alive
    BY DEF LibraryAnswers
  <1>f. /\ client \in Client /\ proc \in Proc /\ kid \in Kids /\ worker \in Worker
        /\ snap \in Snap /\ pipe \in [Streams -> Seq(Unit)] /\ Answers /\ proc.state # "none"
        /\ client.copied \in Seq(Chunk)
    BY <1>r, StateFields
  <1> DEFINE right == [ok |-> TRUE, id |-> TRUE, data |-> client.copied, shape |-> TRUE]
  <1>1. PICK reply \in {right, [right EXCEPT !.ok = FALSE], [right EXCEPT !.id = FALSE],
                        [right EXCEPT !.shape = FALSE], [right EXCEPT !.data = <<>>]} :
          worker' = [worker EXCEPT !.phase = "head", !.rogue = TRUE, !.reply = reply]
    BY DEF LibraryAnswers
  <1>2. reply \in Reply
    <2>1. right \in Reply
      BY <1>f DEF Reply
    <2>2. <<>> \in Seq(Chunk)
      BY EmptySeq
    <2> HIDE DEF right
    <2> QED BY <1>1, <2>1, <2>2 DEF Reply
  <1>3. worker' \in Worker /\ worker'.phase = "head" /\ worker'.rogue = TRUE
    BY <1>f, <1>1, <1>2 DEF Worker
  <1>4. Answers'
    BY <1>3 DEF Answers
  <1> QED BY <1>r, <1>f, <1>3, <1>4, WorkerMove

LEMMA ReadStep ==
  ASSUME PInv, NEW s \in Streams, ReadPipe(s)
  PROVE  PInv'
  <1>r. UNCHANGED <<files, path, edits, held, snap, client, proc, kid, worker, host, policy>>
        /\ rd[s] = "reading"
    BY DEF ReadPipe
  <1>f. pipe \in [Streams -> Seq(Unit)] /\ buf \in [Streams -> Seq(Unit)] /\ rd \in [Streams -> Readers]
    BY DEF PInv, StateTyped
  <1>g. EditsCounted' /\ Copying' /\ Copied' /\ Contained' /\ Processes' /\ Answers' /\ Concluded'
    <2>1. EditsCounted' /\ Copying' /\ Copied'
      BY <1>r DEF PInv, EditsCounted, Copying, Copied, Reported
    <2>2. Contained'
      BY <1>r DEF PInv, Contained, Reported, BackendLevel, BubblewrapUsable, ProcessLevel,
              ResourceLimits, BubblewrapCompatible
    <2>3. Processes' /\ Answers' /\ Concluded'
      BY <1>r DEF PInv, Processes, Answers, Concluded, Reported, Alive
    <2> QED BY <2>1, <2>2, <2>3
  <1>p. /\ proc.state # "none"
        /\ ~(client.pc \in {"judge", "verify", "decode"} \/ Reported)
    BY <1>r DEF PInv, Output
  <1>l. Limit(s) \in Nat /\ Len(buf[s]) \in Nat /\ Len(buf[s]) <= Limit(s)
    BY <1>f, <1>r, Numbers DEF PInv, Output
  <1>1. ASSUME NEW state \in Readers, state # "off", rd' = [rd EXCEPT ![s] = state],
               pipe' \in [Streams -> Seq(Unit)], buf' \in [Streams -> Seq(Unit)],
               \A t \in Streams : t # s => pipe'[t] = pipe[t] /\ buf'[t] = buf[t],
               state = "ended" => pipe'[s] = <<>>,
               Len(buf'[s]) <= Limit(s) + 1, state = "reading" => Len(buf'[s]) <= Limit(s),
               buf[s] # <<>> => buf'[s] # <<>>
        PROVE  PInv'
    <2>1. /\ rd' \in [Streams -> Readers] /\ rd'[s] = state
          /\ \A t \in Streams : t # s => rd'[t] = rd[t]
      BY <1>f, <1>1
    <2>2. StateTyped'
      BY <1>1, <1>r, <2>1 DEF PInv, StateTyped
    <2>3. Output'
      <3>1. \A t \in Streams : /\ Len(buf'[t]) <= Limit(t) + 1
                               /\ rd'[t] = "reading" => Len(buf'[t]) <= Limit(t)
        BY <1>1, <2>1 DEF PInv, Output
      <3>2. client.hit = "contaminated" => buf'["err"] # <<>>
        <4>1. client.hit = "contaminated" => buf["err"] # <<>>
          BY DEF PInv, Output
        <4>2. "err" \in Streams
          BY DEF Streams
        <4> QED BY <1>1, <4>1, <4>2
      <3>3. client.pc \in {"poll", "wait", "finish"} =>
              \A t \in Streams : /\ rd'[t] # "off"
                                 /\ rd'[t] = "ended" /\ client.hit = "none" => pipe'[t] = <<>>
        BY <1>1, <2>1 DEF PInv, Output
      <3>4. ~Reported' /\ client' = client /\ proc' = proc
        BY <1>p, <1>r DEF Reported
      <3>5. \A t \in Streams : Limit(t)' = Limit(t)
        BY DEF Limit
      <3> QED BY <1>p, <3>1, <3>2, <3>3, <3>4, <3>5 DEF Output
    <2> QED BY <1>g, <2>2, <2>3 DEF PInv
  <1>2. CASE /\ pipe[s] # <<>>
             /\ buf' = [buf EXCEPT ![s] = Append(@, Head(pipe[s]))]
             /\ pipe' = [pipe EXCEPT ![s] = Tail(@)]
             /\ rd' = [rd EXCEPT ![s] = IF Len(buf[s]) + 1 > Limit(s) THEN "over" ELSE @]
    <2>1. pipe[s] \in Seq(Unit) /\ buf[s] \in Seq(Unit)
      BY <1>f
    <2>2. Head(pipe[s]) \in Unit /\ Tail(pipe[s]) \in Seq(Unit)
      BY <1>2, <2>1
    <2>3. /\ Append(buf[s], Head(pipe[s])) \in Seq(Unit) /\ Append(buf[s], Head(pipe[s])) # <<>>
          /\ Len(Append(buf[s], Head(pipe[s]))) = Len(buf[s]) + 1
      BY <2>1, <2>2
    <2>4. /\ pipe' \in [Streams -> Seq(Unit)] /\ buf' \in [Streams -> Seq(Unit)]
          /\ buf'[s] = Append(buf[s], Head(pipe[s]))
          /\ \A t \in Streams : t # s => pipe'[t] = pipe[t] /\ buf'[t] = buf[t]
      BY <1>2, <1>f, <2>2, <2>3
    <2> DEFINE state == IF Len(buf[s]) + 1 > Limit(s) THEN "over" ELSE "reading"
    <2>5. rd' = [rd EXCEPT ![s] = state]
      BY <1>2, <1>r, <1>f
    <2>6. state \in Readers /\ state # "off" /\ state # "ended"
      BY DEF Readers
    <2>7. Len(buf'[s]) <= Limit(s) + 1 /\ (state = "reading" => Len(buf'[s]) <= Limit(s))
      BY <1>l, <2>3, <2>4
    <2> HIDE DEF state
    <2> QED BY <1>1, <2>3, <2>4, <2>5, <2>6, <2>7
  <1>3. ASSUME NEW state \in {"ended", "failed"}, state = "ended" => pipe[s] = <<>>,
               rd' = [rd EXCEPT ![s] = state], UNCHANGED <<buf, pipe>>
        PROVE  PInv'
    <2>1. state \in Readers /\ state # "off" /\ state # "reading"
      BY <1>3 DEF Readers
    <2>2. Len(buf[s]) <= Limit(s) + 1
      BY <1>l
    <2> QED BY <1>1, <1>3, <1>f, <2>1, <2>2
  <1> QED BY <1>2, <1>3 DEF ReadPipe

LEMMA ParserSteps == PInv /\ [ParserNext]_parserVars => PInv'
  <1> SUFFICES ASSUME PInv, [ParserNext]_parserVars PROVE PInv'
    OBVIOUS
  <1>1. CASE ClientNext
    BY <1>1, SelectStep, LstatStep, OpenStep, CopyStep, FreezeStep, StartStep, PollStep, WaitStep,
       FinishStep, JudgeStep, VerifyStep, DecodeStep, CleanupStep DEF ClientNext
  <1>2. CASE WorkerNext \/ LibraryNext
    BY <1>2, BootStep, MeasureStep, WriteStep, LibraryStep, AnswersStep DEF WorkerNext, LibraryNext
  <1>3. CASE EditSource \/ MovePath
    BY <1>3, EditStep
  <1>4. ASSUME NEW s \in Streams, ReadPipe(s) PROVE PInv'
    BY <1>4, ReadStep
  <1>5. CASE UNCHANGED parserVars
    <2>1. UNCHANGED <<files, path, edits, held, snap, client, proc, kid, worker, pipe, buf, rd,
                      host, policy>>
      BY <1>5 DEF parserVars
    <2>2. StateTyped' /\ EditsCounted' /\ Copying' /\ Copied'
      BY <2>1 DEF PInv, StateTyped, EditsCounted, Copying, Copied, Reported
    <2>3. Contained'
      BY <2>1 DEF PInv, Contained, Reported, BackendLevel, BubblewrapUsable, ProcessLevel,
              ResourceLimits, BubblewrapCompatible
    <2>4. Processes' /\ Answers' /\ Concluded' /\ Output'
      BY <2>1 DEF PInv, Processes, Answers, Concluded, Reported, Alive, Output, Limit
    <2> QED BY <2>2, <2>3, <2>4 DEF PInv
  <1> QED BY <1>1, <1>2, <1>3, <1>4, <1>5 DEF ParserNext

LEMMA ParserSafe == PInv => InspectionSafe
  <1> SUFFICES ASSUME PInv PROVE InspectionSafe
    OBVIOUS
  <1>1. ParserTypeOK
    <2>1. files \in [Inodes -> [data : Contents, stamp : 0..host.edits]]
      <3>1. files \in [Inodes -> File] /\ host \in Hosts /\ edits \in Nat
            /\ edits <= host.edits /\ \A i \in Inodes : files[i].stamp <= edits
        BY DEF PInv, StateTyped, EditsCounted
      <3>2. host.edits \in Nat
        BY <3>1, Numbers
      <3>3. ASSUME NEW i \in Inodes PROVE files[i] \in [data : Contents, stamp : 0..host.edits]
        <4>1. files[i].stamp \in Nat /\ files[i].stamp <= edits
          BY <3>1, FileIs
        <4>2. files[i].stamp \in 0..host.edits
          BY <3>1, <3>2, <4>1
        <4> QED BY <3>1, <4>2 DEF File
      <3> QED BY <3>1, <3>3
    <2>2. \A s \in Streams : Len(buf[s]) <= Limit(s) + 1
      BY DEF PInv, Output
    <2> QED BY <2>1, <2>2 DEF ParserTypeOK, PInv, StateTyped, Proc, Kids
  <1>2. ReportTruth
    BY DEF PInv, Copied, Concluded, Reported, ReportTruth
  <1>3. ContainmentKept
    BY Levels DEF PInv, Contained, Reported, ContainmentKept
  <1>4. CleanReport
    <2>1. "out" \in Streams /\ "err" \in Streams
      BY DEF Streams
    <2> QED BY <2>1 DEF PInv, Output, Processes, Reported, CleanReport
  <1>5. NothingOutlives
    BY DEF PInv, Processes, NothingOutlives
  <1> QED BY <1>1, <1>2, <1>3, <1>4, <1>5 DEF InspectionSafe

\* A report of the parser worker is about one content that the source had since
\* the call, of a run that ended clean, within the bounds of its output and at
\* the containment level asked for; and when the call is over, its worker and
\* what that forked have ended or are being killed and the snapshot is gone,
\* whatever the library and other programs do (inspect_content).
THEOREM InspectionIsSafe == ParserSpec => []InspectionSafe
  BY ParserStarts, ParserSteps, ParserSafe, PTL DEF ParserSpec

=============================================================================
