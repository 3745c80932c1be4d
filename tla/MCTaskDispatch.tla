---------------------------- MODULE MCTaskDispatch ----------------------------
(***************************************************************************)
(* An instance of TaskDispatch: one worker for a batch that runs in        *)
(* parallel, beside a pipeline, on the same orchestrator.                  *)
(***************************************************************************)
EXTENDS TaskDispatch

CONSTANTS t1, t2, t3, t4

TwoBatches ==
  {[tasks |-> <<t1, t2>>, mode |-> "Parallel", workers |-> 1],
   [tasks |-> <<t3, t4>>, mode |-> "Pipeline", workers |-> 0]}
===============================================================================
