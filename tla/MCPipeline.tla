----------------------------- MODULE MCPipeline -----------------------------
(* Either the transfer path with its processes or one run of the workflow  *)
(* driver; the other one stays where it is.                                *)
EXTENDS Pipeline, Workflow

VARIABLE part

WireSizes == [v \in Rows |-> IF v = "x" THEN 1 ELSE 2]

DriverNotRun ==
    /\ step = "done" /\ failure = "not run" /\ book = <<"not run">>
    /\ rows = 0 /\ batch = 0 /\ left = 0 /\ batchSize = 1 /\ mishaps = 0
    /\ progress = NoProgress /\ stores = EmptyStores
    /\ stream = [events |-> <<>>, torn |-> FALSE, limit |-> 0]

MCInit ==
    /\ PipeInit
    /\ \/ part = "path" /\ DriverNotRun
       \/ part = "driver" /\ WorkflowInit

MCNext == \/ part = "path" /\ PipeNext /\ UNCHANGED <<part, wfVars>>
          \/ part = "driver" /\ WorkflowNext /\ UNCHANGED <<part, pipeVars>>

MCSpec == /\ MCInit /\ [][MCNext]_<<part, pipeVars, wfVars>>
          /\ PipeFairness /\ WF_wfVars(WorkflowNext)

=============================================================================
