---------------------------- MODULE GuardBridge ----------------------------
(***************************************************************************)
(* scan_images: one guard process answers line after line, a thread reads  *)
(* its lines into a queue of one, and the caller waits a limited time for  *)
(* each (external_guard.py).  The guard may answer anything, twice, late   *)
(* or never.                                                               *)
(***************************************************************************)
EXTENDS Naturals, Sequences

CONSTANTS
    Images,     \* number of images to scan
    PipeLines,  \* lines the guard's output pipe holds
    MaxSpare    \* bound: lines beyond one for each request

ASSUME GuardConstants == {Images, PipeLines} \subseteq Nat \ {0} /\ MaxSpare \in Nat

VARIABLES
    scan,       \* the generator: where it is, its request, bytes in its write buffer,
                \* what it yielded, how it ends
    guard,      \* the process: alive, with its input closed, exit status, requests read
                \* and unread, spare lines
    output,     \* lines written and not yet read
    reader,     \* the thread: where it is and the item it holds
    responses   \* the queue between the two

guardVars == <<scan, guard, output, reader, responses>>

Line(kind, id) == [kind |-> kind, id |-> id]
End == Line("end", 0)
ReadError == Line("error", 0)
ScanAt(place) == scan.at = place

-----------------------------------------------------------------------------
(* An exception leaves the with statement: close(check=False).             *)
FailScan == scan' = [scan EXCEPT !.at = "close", !.says = "failed"]
Kill == guard' = [guard EXCEPT !.alive = FALSE, !.status = IF @ = "none" THEN "killed" ELSE @]

(* exchange: the request is written, unless the guard has closed its input;*)
(* then it stays in the buffer of the pipe.                                *)
SendRequest ==
    /\ ScanAt("send")
    /\ IF guard.alive /\ ~guard.deaf
       THEN /\ scan' = [scan EXCEPT !.at = "await"]
            /\ guard' = [guard EXCEPT !.unread = Append(@, scan.request)]
       ELSE /\ scan' = [scan EXCEPT !.at = "close", !.says = "failed", !.unsent = TRUE]
            /\ UNCHANGED guard
    /\ UNCHANGED <<output, reader, responses>>

AcceptedInOrder(item) == item.kind = "answer"

(* A bounded JSON line of the protocol that answers this request.          *)
Accepted(item) == item.kind = "answer" /\ item.id = scan.request

ReceiveAnswer ==
    /\ ScanAt("await") /\ responses # <<>>
    /\ responses' = Tail(responses)
    /\ LET item == Head(responses)
       IN IF Accepted(item)
          THEN /\ scan' = [scan EXCEPT !.at = "yielded", !.yielded = Append(@, item.id)]
               /\ UNCHANGED guard
          ELSE FailScan /\ IF item.kind = "long" THEN Kill ELSE UNCHANGED guard
    /\ UNCHANGED <<output, reader>>

ExpireForTheDead ==
    /\ ScanAt("await") /\ responses = <<>> /\ ~guard.alive
    /\ Kill /\ FailScan
    /\ UNCHANGED <<output, reader, responses>>

(* No answer in time: the guard is killed, nothing is tried again.         *)
Expire ==
    /\ ScanAt("await") /\ responses = <<>>
    /\ Kill /\ FailScan
    /\ UNCHANGED <<output, reader, responses>>

(* The caller takes the next answer or drops the generator, and the next   *)
(* image may have become unreadable.                                       *)
ResumeScan ==
    /\ ScanAt("yielded")
    /\ \/ /\ scan.request < Images
          /\ scan' = [scan EXCEPT !.at = "send", !.request = @ + 1]
       \/ scan.request = Images /\ scan' = [scan EXCEPT !.at = "close"]
       \/ FailScan
    /\ UNCHANGED <<guard, output, reader, responses>>

(* close: the input is closed, then the exit awaited.  Bytes that are      *)
(* still in the buffer make the closing itself raise, out of close.        *)
CloseInput ==
    /\ ScanAt("close")
    /\ scan' = [scan EXCEPT !.at = IF scan.unsent THEN "over" ELSE "exit"]
    /\ UNCHANGED <<guard, output, reader, responses>>

GuardHasStopped ==
    /\ ScanAt("exit") /\ ~guard.alive
    /\ scan' = [scan EXCEPT !.at = "join",
                  !.says = IF @ = "none" /\ guard.status # "zero" THEN "failed" ELSE @]
    /\ UNCHANGED <<guard, output, reader, responses>>

(* It does not stop: it is killed and the scan, if it had gone well, fails.*)
StopWaiting ==
    /\ ScanAt("exit") /\ guard.alive
    /\ scan' = [scan EXCEPT !.at = "join", !.says = "failed"]
    /\ Kill /\ UNCHANGED <<output, reader, responses>>

(* The reader is given a second, then its pipe is closed.                  *)
JoinReader ==
    /\ ScanAt("join")
    /\ scan' = [scan EXCEPT !.at = "over", !.says = IF @ = "none" THEN "done" ELSE @]
    /\ UNCHANGED <<guard, output, reader, responses>>

-----------------------------------------------------------------------------
(* _read_responses.                                                        *)

ReadLine ==
    /\ reader.at = "read"
    /\ \/ /\ output # <<>> /\ ~ScanAt("over")
          /\ reader' = [at |-> "put", item |-> Head(output)] /\ output' = Tail(output)
       \/ /\ \/ output = <<>> /\ ~guard.alive /\ reader' = [at |-> "put", item |-> End]
             \/ ScanAt("over") /\ reader' = [at |-> "put", item |-> ReadError]
          /\ UNCHANGED output
    /\ UNCHANGED <<scan, guard, responses>>

PutLine ==
    /\ reader.at = "put" /\ responses = <<>>
    /\ responses' = <<reader.item>>
    /\ reader' = [reader EXCEPT !.at =
                    IF reader.item.kind \in {"end", "error"} THEN "done" ELSE "read"]
    /\ UNCHANGED <<scan, guard, output>>

-----------------------------------------------------------------------------
(* The guard: it answers what it has read, in its own time.                *)

GuardReads ==
    /\ guard.alive /\ guard.unread # <<>>
    /\ guard' = [guard EXCEPT !.unread = Tail(@), !.read = Head(guard.unread), !.answered = FALSE]
    /\ UNCHANGED <<scan, output, reader, responses>>

GuardWrites ==
    /\ guard.alive /\ guard.read > 0 /\ Len(output) < PipeLines
    /\ guard.answered => guard.spare < MaxSpare
    /\ guard' = [guard EXCEPT !.answered = TRUE, !.spare = @ + (IF guard.answered THEN 1 ELSE 0)]
    /\ \E line \in {Line("answer", id) : id \in 1..guard.read}
                    \cup {Line("malformed", 0), Line("long", 0), ReadError} :
            output' = Append(output, line)
    /\ UNCHANGED <<scan, reader, responses>>

GuardClosesInput ==
    /\ guard.alive /\ ~guard.deaf
    /\ guard' = [guard EXCEPT !.deaf = TRUE, !.unread = <<>>]
    /\ UNCHANGED <<scan, output, reader, responses>>

GuardExits ==
    /\ guard.alive
    /\ \E status \in {"zero", "error"} :
            guard' = [guard EXCEPT !.alive = FALSE, !.status = status]
    /\ UNCHANGED <<scan, output, reader, responses>>

-----------------------------------------------------------------------------
GuardInit ==
    /\ scan = [at |-> "send", request |-> 1, unsent |-> FALSE, yielded |-> <<>>, says |-> "none"]
    /\ guard = [alive |-> TRUE, deaf |-> FALSE, status |-> "none", unread |-> <<>>,
                read |-> 0, answered |-> TRUE, spare |-> 0]
    /\ output = <<>> /\ responses = <<>>
    /\ reader = [at |-> "read", item |-> End]

ScanNext ==
    \/ SendRequest \/ ReceiveAnswer \/ Expire \/ ResumeScan
    \/ CloseInput \/ GuardHasStopped \/ StopWaiting \/ JoinReader

ReaderNext == ReadLine \/ PutLine

GuardNext == ScanNext \/ ReaderNext
             \/ GuardReads \/ GuardWrites \/ GuardClosesInput \/ GuardExits

(* The caller's thread keeps running: it never needs the guard, nor the    *)
(* reader, to go on.                                                       *)
GuardFairness == WF_guardVars(ScanNext)

GuardSpec == GuardInit /\ [][GuardNext]_guardVars

-----------------------------------------------------------------------------
(* Each yielded answer is the answer to its own image, also when the guard *)
(* answers twice, and a scan that ends well has one for every image from a *)
(* guard that ended well (exchange's id check, close(check=True)).         *)
ScanTruth ==
    /\ \A i \in DOMAIN scan.yielded : scan.yielded[i] = i
    /\ scan.says = "done" => Len(scan.yielded) = Images /\ guard.status = "zero"

(* When scan_images is over, its process is too: after a timeout, an       *)
(* answer too long, a dropped generator.  A guard that has closed its input*)
(* is not waited for when the request cannot be written (_BridgeProcess).  *)
GuardGone == ScanAt("over") /\ ~guard.deaf => ~guard.alive

(* A scan as its caller sees it (scan_images).                             *)
ScanSafe == ScanTruth /\ GuardGone

(* A scan ends, whatever the guard does: no wait on the queue, on the      *)
(* process or on the reader is without a limit.                            *)
ScanEnds == <>ScanAt("over")

=============================================================================
