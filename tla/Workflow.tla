------------------------------ MODULE Workflow ------------------------------
(***************************************************************************)
(* One run of the workflow driver (workflow_benchmark.py) with its stage   *)
(* book and its operational event stream (observability.py).  The stages   *)
(* run in order on one thread; any of them can fail, with whatever it has  *)
(* done by then left in the stores.  Records are counted, not told apart:  *)
(* what becomes of one record is modelled in Pipeline.                     *)
(***************************************************************************)
EXTENDS Naturals, Sequences, SequencesExt

CONSTANTS
    Requested,     \* records
    BatchSizes,    \* values of batch_size
    SourceRows,    \* numbers of rows the source may turn out to have
    GroupMax,      \* DATABASE_ATOMIC_BATCH_MAX_RECORDS
    MaxMishaps     \* bound: things that go wrong in one run

WorkflowAssumption ==
    /\ {Requested, GroupMax} \cup BatchSizes \subseteq Nat \ {0}
    /\ SourceRows \cup {MaxMishaps} \subseteq Nat

ASSUME WorkflowAssumptionHolds == WorkflowAssumption

VARIABLES
    batchSize, \* the argument of this run
    step,      \* the next step of _execute_workflow
    rows,      \* rows left in the source
    batch,     \* records of the current batch
    left,      \* records of the batch no chunk has been made of yet
    progress,  \* _Progress
    stores,    \* depths of the outbox and relay, ledger commits, target rows, quarantine
    stream,    \* the event stream of this run; torn when its tail is incomplete
    book,      \* stages marked failed, in the order they were
    failure,   \* the failure the report will carry
    mishaps

wfVars == <<batchSize, step, rows, batch, left, progress, stores, stream, book,
            failure, mishaps>>

None == "none"

Setup == <<"fixture_generation", "destination_setup", "content_inspection",
           "source_schema_inspection", "target_schema_inspection", "mapping_and_plan",
           "full_preflight", "security_and_state_setup">>

Mishap == mishaps < MaxMishaps /\ mishaps' = mishaps + 1
Least(a, b) == IF a < b THEN a ELSE b

-----------------------------------------------------------------------------
(* The event stream.                                                       *)

Event(type, status, items) == [type |-> type, status |-> status, items |-> items]

Batches(n, size) == (n + size - 1) \div size

(* _required_event_stream_bytes in events of the largest size: a delivery  *)
(* for each record, an event for each batch and each atomic chunk of one,  *)
(* the stage summaries (one event here), the start and the completion.     *)
Required(n, size) ==
    LET chunks == IF size = 1 THEN 0
                  ELSE (n \div size) * Batches(size, GroupMax) + Batches(n % size, GroupMax)
    IN n + Batches(n, size) + chunks + 1 + 2

(* _append_encoded_batch and _open_for_append: a stream that is full or    *)
(* torn takes nothing.                                                     *)
Room(n) == ~stream.torn /\ Len(stream.events) + n <= stream.limit

Appended(events) == [stream EXCEPT !.events = @ \o events]

(* A write that fails is cut off again, or leaves a torn tail.             *)
AppendFails == Mishap /\ stream' \in {stream, [stream EXCEPT !.torn = TRUE]}

(* Items of the events of a type: those with a status, or of any status.   *)
Count(type, status) ==
    FoldLeft(LAMBDA n, e : IF e.type = type /\ status \in {e.status, "any"}
                           THEN n + e.items ELSE n, 0, stream.events)

(* summary: the run has one start, first, and one completion, last.        *)
LifecycleValid ==
    /\ stream.events # <<>>
    /\ stream.events[1].type = "workflow_started"
    /\ Last(stream.events).type = "workflow_completed"
    /\ \A i \in 2..Len(stream.events) : stream.events[i].type # "workflow_started"
    /\ \A i \in 1..Len(stream.events) - 1 : stream.events[i].type # "workflow_completed"

(* summary: the completion tells as many records as were delivered, and a  *)
(* passed one as many as were requested and as the batches tell.           *)
CountsValid ==
    LET completed == Last(stream.events)
        delivered == Count("delivery", "delivered")
    IN /\ completed.items = delivered
       /\ completed.status = "passed" =>
            /\ stream.events[1].items = completed.items
            /\ Count("batch_completed", "any") = delivered

-----------------------------------------------------------------------------
(* mark_failed, and the first failure that the report keeps.               *)
MarkFailed(stage) ==
    /\ book' = Append(book, stage)
    /\ failure' = IF failure = None THEN stage ELSE failure

(* A stage that raises stops the loop; verification follows if the stores  *)
(* were set up.                                                            *)
Stops(stage, next) == MarkFailed(stage) /\ step' = next

Passes(next) == step' = next /\ UNCHANGED <<book, failure>>

(* An append that goes on to next, or ends in stop when the stream has no  *)
(* room or the write fails.                                                *)
Emits(events, next, stop) ==
    IF Room(Len(events))
    THEN \/ stream' = Appended(events) /\ Passes(next) /\ UNCHANGED mishaps
         \/ AppendFails /\ stop
    ELSE stop /\ UNCHANGED <<stream, mishaps>>

(* _emit_required_event: workflow_started.                                 *)
Start ==
    /\ step = "start"
    /\ Emits(<<Event("workflow_started", "started", Requested)>>, Setup[1],
             Stops("workflow_internal", "summaries"))
    /\ UNCHANGED <<rows, batch, progress, stores>>

(* The stages before the loop.  The destination is there to be closed from *)
(* the inspection of its schema on.                                        *)
Prepare ==
    /\ \E i \in 1..Len(Setup) :
         /\ step = Setup[i]
         /\ \/ Passes(IF i = Len(Setup) THEN "read" ELSE Setup[i + 1]) /\ UNCHANGED mishaps
            \/ Mishap /\ Stops(step, IF i < 5 THEN "summaries" ELSE "close")
    /\ UNCHANGED <<rows, batch, progress, stores, stream>>

ReadUntilRequested ==
    /\ step = "read" /\ progress.read < Requested
    /\ LET n == Least(batchSize, rows)
       IN /\ rows' = rows - n /\ batch' = n
          /\ progress' = [progress EXCEPT !.read = @ + n]
          /\ Passes(IF n = 0 THEN "read" ELSE "stage") /\ UNCHANGED mishaps
    /\ UNCHANGED <<stores, stream>>

(* source_record_read: a batch is filled without regard to the number of   *)
(* records requested; a failed read loses the part that was read.  After   *)
(* the last batch one more row is looked for.                              *)
Read ==
    /\ step = "read"
    /\ IF progress.read < Requested
       THEN \E n \in 0..Least(batchSize, rows) :
              /\ rows' = rows - n /\ batch' = n
              /\ progress' = [progress EXCEPT !.read = @ + n]
              /\ \/ /\ n = Least(batchSize, rows) /\ UNCHANGED mishaps
                    /\ Passes(IF n = 0 THEN "count" ELSE "stage")
                 \/ Mishap /\ Stops("source_record_read", "unwind")
       ELSE /\ progress' = [progress EXCEPT !.read =
                              @ + IF progress.read = Requested /\ rows > 0 THEN 1 ELSE 0]
            /\ Passes("count") /\ UNCHANGED <<rows, batch, mishaps>>
    /\ UNCHANGED <<stores, stream>>

ReadCountTrusting ==
    /\ step = "count" /\ Passes("unwind")
    /\ UNCHANGED <<rows, batch, progress, stores, stream, mishaps>>

(* source_record_count_mismatch                                            *)
ReadCount ==
    /\ step = "count"
    /\ IF progress.read = Requested THEN Passes("unwind") ELSE Stops("source_record_read", "unwind")
    /\ UNCHANGED <<rows, batch, progress, stores, stream, mishaps>>

(* _seal_and_stage_batch, _reload_and_enqueue and _lease_batch: each all   *)
(* or nothing; a stage can fail before or after its store's commit.        *)
StageBatch ==
    /\ step = "stage"
    /\ \/ /\ stores' = [stores EXCEPT !.outbox = @ + batch]
          /\ progress' = [progress EXCEPT !.staged = @ + batch]
          /\ Passes("send") /\ UNCHANGED mishaps
       \/ /\ Mishap /\ stores' \in {stores, [stores EXCEPT !.outbox = @ + batch]}
          /\ Stops("source_seal_and_outbox_stage", "unwind") /\ UNCHANGED progress
    /\ UNCHANGED <<rows, batch, stream>>

SendBatch ==
    /\ step = "send"
    /\ \/ /\ stores' = [stores EXCEPT !.relay = @ + batch]
          /\ progress' = [progress EXCEPT !.relayed = @ + batch]
          /\ Passes("lease") /\ UNCHANGED mishaps
       \/ /\ Mishap /\ stores' \in {stores, [stores EXCEPT !.relay = @ + batch]}
          /\ Stops("outbox_reload_and_relay_enqueue", "unwind") /\ UNCHANGED progress
    /\ UNCHANGED <<rows, batch, stream>>

LeaseBatch ==
    /\ step = "lease"
    /\ \E n \in 0..batch :
         /\ progress' = [progress EXCEPT !.leased = @ + n]
         /\ \/ n = batch /\ Passes("deliver") /\ UNCHANGED mishaps
            \/ n < batch /\ Mishap /\ Stops("relay_lease", "unwind")
    /\ left' = batch
    /\ UNCHANGED <<rows, batch, stores, stream>>

(* One event for each receipt of a chunk, and one for the chunk when it    *)
(* was written as an atomic batch.                                         *)
ChunkEvents(k, status) ==
    [i \in 1..k |-> Event("delivery", status, 1)]
        \o IF k > 1 THEN <<Event("delivery_batch", status, k)>> ELSE <<>>

Told(events) == stream' = IF Room(Len(events)) THEN Appended(events) ELSE stream

Chunk == Least(GroupMax, left)

(* After the last chunk, a receipt that does not say delivered fails.      *)
AfterChunk ==
    IF left' > 0 THEN Passes("deliver")
    ELSE IF stores'.quarantine = 0 THEN Passes("acknowledge")
    ELSE Stops("destination_delivery", "unwind")

(* _deliver_batch, one chunk of deliver_many at a time: it is delivered,   *)
(* and told of or not; it is quarantined, which the receipts tell at the   *)
(* end; or an exception cuts the batch short.                              *)
DeliverChunk ==
    /\ step = "deliver" /\ left' = left - Chunk
    /\ \/ /\ \/ Told(ChunkEvents(Chunk, "delivered")) /\ UNCHANGED mishaps
             \/ AppendFails
          /\ stores' = [stores EXCEPT !.committed = @ + Chunk, !.target = @ + Chunk]
          /\ progress' = [progress EXCEPT !.delivered = @ + Chunk]
          /\ AfterChunk
       \/ /\ Mishap /\ Told(ChunkEvents(Chunk, "quarantined"))
          /\ stores' = [stores EXCEPT !.quarantine = @ + Chunk]
          /\ UNCHANGED progress
          /\ AfterChunk
       \/ /\ Mishap /\ Stops("destination_delivery", "unwind")
          /\ UNCHANGED <<stores, progress, stream>>
    /\ UNCHANGED <<rows, batch>>

(* _ack_batch: the relay first, then the outbox.                           *)
AckBatch ==
    /\ step = "acknowledge"
    /\ \/ /\ stores' = [stores EXCEPT !.relay = @ - batch, !.outbox = @ - batch]
          /\ progress' = [progress EXCEPT !.acknowledged = @ + batch]
          /\ Passes("check") /\ UNCHANGED mishaps
       \/ /\ Mishap
          /\ stores' \in {stores, [stores EXCEPT !.relay = @ - batch]}
          /\ Stops("acknowledgements", "unwind") /\ UNCHANGED progress
    /\ UNCHANGED <<rows, batch, stream>>

(* The audit outcomes (external: a write may have failed), then the        *)
(* receipts' event outcomes, then the event of the batch.                  *)
CheckBatch ==
    /\ step = "check"
    /\ \/ Passes("events") /\ UNCHANGED mishaps
       \/ Mishap /\ Stops("destination_audit_outcome_check", "unwind")
    /\ UNCHANGED <<rows, batch, progress, stores, stream>>

EventsRecorded == Count("delivery", "any") = progress.delivered

CheckEvents ==
    /\ step = "events"
    /\ IF EventsRecorded THEN Passes("batched")
       ELSE Stops("destination_operational_event_check", "unwind")
    /\ progress' = IF EventsRecorded THEN [progress EXCEPT !.batches = @ + 1] ELSE progress
    /\ UNCHANGED <<rows, batch, stores, stream, mishaps>>

CompleteBatch ==
    /\ step = "batched"
    /\ Emits(<<Event("batch_completed", "passed", batch)>>, "read",
             Stops("workflow_internal", "unwind"))
    /\ UNCHANGED <<rows, batch, progress, stores>>

(* The finally clause closes the source's iterator.                        *)
Unwind ==
    /\ step = "unwind"
    /\ \/ Passes("verify") /\ UNCHANGED mishaps
       \/ Mishap /\ Stops("source_record_read", "verify")
    /\ UNCHANGED <<rows, batch, progress, stores, stream>>

(* _verify_final_state                                                     *)
FinalState ==
    /\ stores.target = Requested /\ stores.committed = Requested
    /\ stores.outbox = 0 /\ stores.relay = 0 /\ stores.quarantine = 0

(* The verification's own scans, of the content of the target and for      *)
(* plaintext in the stores, may fail or find something.                    *)
ScansFail == Mishap

Verify ==
    /\ step = "verify"
    /\ \/ IF FinalState THEN Passes("close") /\ UNCHANGED mishaps
          ELSE Stops("end_to_end_verification", "close") /\ UNCHANGED mishaps
       \/ ScansFail /\ Stops("end_to_end_verification", "close")
    /\ UNCHANGED <<rows, batch, progress, stores, stream>>

Close ==
    /\ step = "close"
    /\ \/ Passes("summaries") /\ UNCHANGED mishaps
       \/ Mishap /\ Stops("resource_cleanup", "summaries")
    /\ UNCHANGED <<rows, batch, progress, stores, stream>>

(* _finalize_observability: the stage summaries (one event here), the      *)
(* completion with the verdict so far, and the check of the stream.        *)
Summaries ==
    /\ step = "summaries"
    /\ Emits(<<Event("stage_summary", "passed", 0),
               Event("workflow_completed", IF failure = None THEN "passed" ELSE "failed",
                     progress.delivered)>>, "summary",
             IF failure = None THEN Stops("workflow_internal", "summary") ELSE Passes("summary"))
    /\ UNCHANGED <<rows, batch, progress, stores>>

Summary ==
    /\ step = "summary"
    /\ IF failure # None \/ (~stream.torn /\ LifecycleValid /\ CountsValid)
       THEN Passes("tidy") ELSE Stops("workflow_internal", "tidy")
    /\ UNCHANGED <<rows, batch, progress, stores, stream, mishaps>>

(* run_workflow_benchmark removes its temporary directory.                 *)
Tidy ==
    /\ step = "tidy"
    /\ \/ Passes("done") /\ UNCHANGED mishaps
       \/ Mishap /\ Stops("resource_cleanup", "done")
    /\ UNCHANGED <<rows, batch, progress, stores, stream>>

NoProgress == [read |-> 0, staged |-> 0, relayed |-> 0, leased |-> 0, delivered |-> 0,
               acknowledged |-> 0, batches |-> 0]

(* _make_transport_runtime opens the stores, new ones, in the last stage of*)
(* the setup.                                                              *)
EmptyStores == [outbox |-> 0, relay |-> 0, committed |-> 0, target |-> 0, quarantine |-> 0]

WorkflowInit ==
    /\ step = "start"
    /\ rows \in SourceRows /\ batch = 0
    /\ progress = NoProgress /\ stores = EmptyStores
    /\ batchSize \in BatchSizes /\ left = 0
    /\ stream = [events |-> <<>>, torn |-> FALSE, limit |-> Required(Requested, batchSize)]
    /\ book = <<>> /\ failure = None /\ mishaps = 0

WorkflowStep ==
    \/ Start \/ Prepare \/ Read \/ ReadCount \/ StageBatch \/ SendBatch
    \/ AckBatch \/ CheckBatch \/ CheckEvents \/ CompleteBatch
    \/ Unwind \/ Verify \/ Close \/ Summaries \/ Summary \/ Tidy

WorkflowNext ==
    /\ LeaseBatch \/ DeliverChunk \/ (WorkflowStep /\ UNCHANGED left)
    /\ UNCHANGED batchSize

(* The driver is one thread that keeps running.                            *)
WorkflowSpec ==
    WorkflowInit /\ [][WorkflowNext]_wfVars /\ WF_wfVars(WorkflowNext)

-----------------------------------------------------------------------------
WorkflowTypeOK ==
    /\ step \in Range(Setup) \cup
         {"start", "read", "count", "stage", "send", "lease", "deliver", "acknowledge",
          "check", "events", "batched", "unwind", "verify", "close", "summaries",
          "summary", "tidy", "done"}
    /\ Len(stream.events) <= stream.limit

(* A report without a failure is true of everything it summarises: each    *)
(* store, each counter and the event stream agree on the records requested *)
(* (success of WorkflowBenchmarkReport).                                   *)
SuccessIsTruth ==
    step = "done" /\ failure = None =>
        /\ FinalState
        /\ \A c \in {"read", "staged", "relayed", "leased", "delivered", "acknowledged"} :
              progress[c] = Requested
        /\ ~stream.torn /\ LifecycleValid /\ Last(stream.events).status = "passed"

(* The failure reported is the first stage that failed, however many later *)
(* steps fail in its wake: verification, cleanup, the event stream.        *)
FirstFailureReported == failure = IF book = <<>> THEN None ELSE book[1]

(* At every moment the counters tell no more than the stores hold: a record*)
(* counted as delivered is in the target and one counted as acknowledged   *)
(* is in neither queue.                                                    *)
CountersAreBacked ==
    /\ progress.delivered <= stores.target
    /\ progress.delivered <= progress.leased /\ progress.leased <= progress.relayed
    /\ progress.relayed <= progress.staged /\ progress.staged <= progress.read
    /\ progress.staged - progress.acknowledged <= stores.outbox

(* The space reserved before the run is enough for every event of it, to   *)
(* the last: no append finds the stream full unless the source turned out  *)
(* to have more rows than requested (_validate_event_stream_capacity).     *)
ReservedIsEnough ==
    ~stream.torn /\ progress.read + rows <= Requested =>
        /\ step = "batched" => Room(1)
        /\ step = "deliver" => Room(Len(ChunkEvents(Chunk, "delivered")))
        /\ step = "summaries" => Room(2)

(* A run of the driver reports truly, at its end and on the way, and its   *)
(* own bookkeeping never makes it fail (_execute_workflow).                *)
WorkflowTrue ==
    WorkflowTypeOK /\ SuccessIsTruth /\ FirstFailureReported /\ CountersAreBacked /\ ReservedIsEnough

(* The run ends, however many rows the source has and whatever fails.      *)
WorkflowEnds == <>(step = "done")

=============================================================================
