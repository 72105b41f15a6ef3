-------------------------- MODULE PipelineService --------------------------
(***************************************************************************)
(* demand_forecasting_pipeline/services/pipeline_service.py: the training  *)
(* and inference runs of one process.                                      *)
(*                                                                         *)
(* One PipelineRun record per pipeline is shared by everybody: the trigger *)
(* that admits a run fills it under _lock, the thread of the run reports   *)
(* its end in it, and what the thread does AFTER that report (the audit    *)
(* hook, the chained inference, the chained reconciliation) runs without   *)
(* the lock while the record already admits the next run.  Threads are     *)
(* numbered in the order they start; what its caller asked for is kept     *)
(* beside each, to compare with what the record says when the thread reads *)
(* it.                                                                     *)
(***************************************************************************)
EXTENDS Naturals, FiniteSets

CONSTANTS
    MaxRuns,    \* bound: the runs a behaviour may start
    Triggers    \* who may start a training: "manual", "schedule", "drift"

ASSUME MaxRunsAssumption == MaxRuns \in Nat
ASSUME TriggersAssumption == "manual" \in Triggers

Threads == 1 .. MaxRuns
Pipelines == {"train", "inference"}
Statuses == {"idle", "running", "success", "failed"}

(* Pipelines that block another one from starting: _PIPELINE_BLOCKING_DEPS. *)
BlockingDeps(p) == IF p = "inference" THEN {"train"} ELSE {}

VARIABLES
    run,         \* _runs: the PipelineRun record of each pipeline
    cancel,      \* _cancel: the shutdown events, never cleared
    thread,      \* the threads that run _execute
    trained,     \* pair_classes.csv exists (the inference preflight)
    reconciled   \* threads whose run fired refresh_reconciliation

pipelineVars == <<run, cancel, thread, trained, reconciled>>

Places == {"unused",
           "work",        \* run_training / run_inference
           "checkpoint",  \* the artifacts are written; was shutdown requested?
           "publish",     \* db_push, then the data_import refresh
           "finish",      \* about to report SUCCESS
           "outcome",     \* _record_training_outcome
           "chain",       \* _maybe_chain_inference: is an inference running?
           "spawn",       \* it decided to call run_inference
           "hook",        \* about to read chained_from_train
           "reconcile",   \* _maybe_chain_reconciliation
           "done", "failed", "dead"}

Runs == [status : Statuses, trigger : Triggers, chained : BOOLEAN]
ThreadRecords == [pipe : Pipelines, at : Places, trigger : Triggers, chained : BOOLEAN,
                  skipped : BOOLEAN]

Unused == [pipe |-> "train", at |-> "unused", trigger |-> "manual", chained |-> FALSE,
           skipped |-> FALSE]
IdleRun == [status |-> "idle", trigger |-> "manual", chained |-> FALSE]

PipelineTypeOK ==
    /\ run \in [Pipelines -> Runs]
    /\ cancel \in [Pipelines -> BOOLEAN]
    /\ thread \in [Threads -> ThreadRecords]
    /\ trained \in BOOLEAN
    /\ reconciled \subseteq Threads

PipelineInit ==
    /\ run = [p \in Pipelines |-> IdleRun]
    /\ cancel = [p \in Pipelines |-> FALSE]
    /\ thread = [t \in Threads |-> Unused]
    /\ trained = FALSE
    /\ reconciled = {}

Running(p) == run[p].status = "running"

(* A thread whose run the record still reports as RUNNING. *)
InFlight(t) == thread[t].at \in {"work", "checkpoint", "publish", "finish"}

Alive(t) == thread[t].at \notin {"unused", "done", "failed", "dead"}

(* The next thread to start. *)
Fresh(t) == thread[t].at = "unused" /\ \A u \in 1 .. t - 1 : thread[u].at # "unused"

Goto(t, place) == thread' = [thread EXCEPT ![t].at = place]
-----------------------------------------------------------------------------
(* Mutant: the guard on a run of the same pipeline is gone. *)
AdmitsTwice(p) ==
    /\ ~cancel[p]
    /\ \A dep \in BlockingDeps(p) : ~Running(dep)
    /\ p = "inference" => trained

(* _run_pipeline, under _lock: the shutdown check, the run guards, the     *)
(* preflight, then the whole record.                                       *)
Admits(p) ==
    /\ ~cancel[p]
    /\ ~Running(p)
    /\ \A dep \in BlockingDeps(p) : ~Running(dep)
    /\ p = "inference" => trained

Admitted(p, trigger, chained) ==
    run' = [run EXCEPT ![p] = [status |-> "running", trigger |-> trigger, chained |-> chained]]

Spawned(t, p, trigger, chained) ==
    [pipe |-> p, at |-> "work", trigger |-> trigger, chained |-> chained, skipped |-> FALSE]

Start(p, trigger, t) ==
    /\ Fresh(t)
    /\ Admits(p)
    /\ Admitted(p, trigger, FALSE)
    /\ thread' = [thread EXCEPT ![t] = Spawned(t, p, trigger, FALSE)]
    /\ UNCHANGED <<cancel, trained, reconciled>>

(* POST /pipeline/train, or the auto-retrain tick; POST /pipeline/inference *)
StartTrain(trigger, t) == Start("train", trigger, t)
StartInference(t) == Start("inference", "manual", t)

(* The pipeline wrote its artifacts; training writes pair_classes.csv last. *)
WorkDone(t) ==
    /\ thread[t].at = "work"
    /\ Goto(t, "checkpoint")
    /\ trained' = (trained \/ thread[t].pipe = "train")
    /\ UNCHANGED <<run, cancel, reconciled>>

(* Mutant: an exception nobody reports. *)
WorkFailsSilently(t) ==
    /\ thread[t].at = "work"
    /\ Goto(t, "failed")
    /\ UNCHANGED <<run, cancel, trained, reconciled>>

(* Any exception of the pipeline: FAILED, and nothing downstream. *)
WorkFails(t) ==
    /\ thread[t].at = "work"
    /\ run' = [run EXCEPT ![thread[t].pipe].status = "failed"]
    /\ Goto(t, "failed")
    /\ UNCHANGED <<cancel, trained, reconciled>>

(* _cancel_requested, read once, after the work: a shutdown skips publish. *)
Checkpoint(t) ==
    /\ thread[t].at = "checkpoint"
    /\ LET stop == cancel[thread[t].pipe]
       IN thread' = [thread EXCEPT ![t].at = IF stop THEN "finish" ELSE "publish",
                                   ![t].skipped = stop]
    /\ UNCHANGED <<run, cancel, trained, reconciled>>

(* _publish never raises: its outcome does not change what follows. *)
Publish(t) ==
    /\ thread[t].at = "publish"
    /\ Goto(t, "finish")
    /\ UNCHANGED <<run, cancel, trained, reconciled>>

AfterFinish(t) ==
    IF thread[t].pipe = "inference" THEN "hook"
    ELSE IF thread[t].skipped THEN "chain" ELSE "outcome"

(* SUCCESS, under _lock: from here on the record admits the next run. *)
Finish(t) ==
    /\ thread[t].at = "finish"
    /\ run' = [run EXCEPT ![thread[t].pipe].status = "success"]
    /\ Goto(t, AfterFinish(t))
    /\ UNCHANGED <<cancel, trained, reconciled>>

(* _record_training_outcome; TrainingLifecycle opens this step up. *)
Outcome(t) ==
    /\ thread[t].at = "outcome"
    /\ Goto(t, "chain")
    /\ UNCHANGED <<run, cancel, trained, reconciled>>

(* _maybe_chain_inference: the operator's flag, then get_status, then, in  *)
(* a second critical section, run_inference with its own guards.           *)
ChainCheck(t, autoInference) ==
    /\ thread[t].at = "chain"
    /\ Goto(t, IF autoInference /\ ~Running("inference") THEN "spawn" ELSE "done")
    /\ UNCHANGED <<run, cancel, trained, reconciled>>

ChainRefused(t) ==
    /\ thread[t].at = "spawn"
    /\ ~Admits("inference")
    /\ Goto(t, "done")
    /\ UNCHANGED <<run, cancel, trained, reconciled>>

ChainStart(t, u) ==
    /\ thread[t].at = "spawn" /\ Fresh(u)
    /\ Admits("inference")
    /\ Admitted("inference", "manual", TRUE)
    /\ thread' = [thread EXCEPT ![t].at = "done",
                                ![u] = Spawned(u, "inference", "manual", TRUE)]
    /\ UNCHANGED <<cancel, trained, reconciled>>

(* Mutant: the cascade does not ask who started the inference. *)
HookAlways(t) ==
    /\ thread[t].at = "hook"
    /\ Goto(t, IF ~thread[t].skipped THEN "reconcile" ELSE "done")
    /\ UNCHANGED <<run, cancel, trained, reconciled>>

(* The tail of an inference reads the shared record, without the lock. *)
Hook(t) ==
    /\ thread[t].at = "hook"
    /\ Goto(t, IF ~thread[t].skipped /\ run["inference"].chained THEN "reconcile" ELSE "done")
    /\ UNCHANGED <<run, cancel, trained, reconciled>>

Reconcile(t) ==
    /\ thread[t].at = "reconcile"
    /\ reconciled' = reconciled \cup {t}
    /\ Goto(t, "done")
    /\ UNCHANGED <<run, cancel, trained>>

(* shutdown(): the events are set, never cleared. *)
Shutdown ==
    /\ cancel' = [p \in Pipelines |-> TRUE]
    /\ UNCHANGED <<run, thread, trained, reconciled>>

(* Mutant: the run records outlive the process. *)
RestartKeepsRuns ==
    /\ cancel' = [p \in Pipelines |-> FALSE]
    /\ thread' = [t \in Threads |-> IF Alive(t) THEN [thread[t] EXCEPT !.at = "dead"] ELSE thread[t]]
    /\ UNCHANGED <<run, trained, reconciled>>

(* The process exits, or is killed, and a new one starts on the same disk. *)
Restart ==
    /\ run' = [p \in Pipelines |-> IdleRun]
    /\ cancel' = [p \in Pipelines |-> FALSE]
    /\ thread' = [t \in Threads |-> IF Alive(t) THEN [thread[t] EXCEPT !.at = "dead"] ELSE thread[t]]
    /\ UNCHANGED <<trained, reconciled>>
-----------------------------------------------------------------------------
(* The steps of _execute between the pipeline itself and the audit hook. *)
Advance(t) ==
    \/ WorkFails(t)
    \/ Checkpoint(t) \/ Publish(t) \/ Finish(t) \/ Hook(t) \/ Reconcile(t)
    \/ \E autoInference \in BOOLEAN : ChainCheck(t, autoInference)
    \/ ChainRefused(t)
    \/ \E u \in Threads : ChainStart(t, u)

ThreadStep(t) == WorkDone(t) \/ Advance(t) \/ Outcome(t)

PipelineNext ==
    \/ \E trigger \in Triggers, t \in Threads : StartTrain(trigger, t)
    \/ \E t \in Threads : StartInference(t)
    \/ \E t \in Threads : ThreadStep(t)
    \/ Shutdown
    \/ Restart

(* Every thread is scheduled, and every call it makes outside the process  *)
(* has a timeout.                                                          *)
PipelineFairness == \A t \in Threads : WF_pipelineVars(ThreadStep(t))

PipelineSpec == PipelineInit /\ [][PipelineNext]_pipelineVars
FairPipelineSpec == PipelineSpec /\ PipelineFairness
-----------------------------------------------------------------------------
(* At most one thread of a pipeline is between its trigger and its final   *)
(* status, so no two trainings write the artifacts at once.                *)
SingleFlight ==
    \A t, u \in Threads :
        InFlight(t) /\ InFlight(u) /\ thread[t].pipe = thread[u].pipe => t = u

(* While a run is in flight the shared record is about that run, and a     *)
(* RUNNING record has a thread that will end it.                           *)
RecordIsOwn ==
    /\ \A t \in Threads : InFlight(t) =>
          run[thread[t].pipe] = [status |-> "running", trigger |-> thread[t].trigger,
                                 chained |-> thread[t].chained]
    /\ \A p \in Pipelines : Running(p) =>
          \E t \in Threads : InFlight(t) /\ thread[t].pipe = p

(* A reconciliation cascade follows a training: whoever fires it, some     *)
(* training succeeded before, and its thread went on to its end.           *)
Completed(t) == thread[t].pipe = "train" /\ thread[t].at = "done"
ReconcileFollowsTraining == reconciled # {} => \E t \in Threads : Completed(t)

(* Every run ends: the record does not stay RUNNING. *)
RunsEnd == \A p \in Pipelines : Running(p) ~> ~Running(p)
=============================================================================
