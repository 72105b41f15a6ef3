------------------------- MODULE TrainingLifecycle -------------------------
(***************************************************************************)
(* A training from its trigger to its row in the history: the pipeline     *)
(* threads (PipelineService), the versions they publish (ModelRegistry),   *)
(* the gate between the two (PromotionGate), and the actors around them:   *)
(* record_training_outcome, the auto-retrain tick with its pending latch,  *)
(* and the operator who trains and rolls back by hand.                     *)
(*                                                                         *)
(* Threads call the registry without any lock of the pipeline, and a       *)
(* training first deletes everything below artifacts_dir but versions/,    *)
(* current.json included, and then writes the live paths, without the lock *)
(* of the registry.  The live paths are the ones training writes; what     *)
(* inference adds to them is not modelled, nor are the baseline and the    *)
(* cooldown that make a tick due: a tick may find a trigger at any time.   *)
(***************************************************************************)
EXTENDS PipelineService, ModelRegistry, PromotionGate, Sequences

CONSTANTS
    Operator,       \* the registry client behind POST /retrain/rollback
    Predictions,    \* the live path with the test predictions a training publishes
    GateEnabled,    \* champion_challenger_enabled
    HistoryMax,     \* retrain_history_max
    Overlap         \* the requests that do not wait: "trainings" may start before
                    \* the last one is recorded, "rollbacks" during any of it

ASSUME ActorsAssumption == Operator \notin Threads /\ Clients = Threads \cup {Operator}
ASSUME ModelsAssumption == Contents = Threads /\ Predictions \in Files
ASSUME LifecycleScoresAssumption == NoScore \in Scores /\ Scores \ {NoScore} \subseteq Int
ASSUME LifecycleBoundsAssumption == MaxRuns <= MaxVersions
ASSUME SettingsAssumption ==
    /\ GateEnabled \in BOOLEAN /\ HistoryMax \in Nat \ {0, 1}
    /\ Overlap \subseteq {"trainings", "rollbacks"}

VARIABLES
    quality,    \* the accuracy of the Test rows as the push of each training left them
    table,      \* the training whose push yf_demand_forecast shows, 0 before the first
    mirror,     \* the training whose push demand_forecast.csv shows
    missed,     \* the trainings whose push or re-import did not succeed, for the properties
    unwiped,    \* what the running training has not deleted yet
    unwritten,  \* live paths the running training has not rewritten yet
    audit,      \* record_training_outcome, per thread
    history,    \* AutoRetrainConfig: rows of finished trainings, newest first
    tick,       \* the auto-retrain tick has started this training and not latched it
    latch       \* _auto_retrain_pending

testVars == <<quality, table, mirror, missed>>
outcomeVars == <<testVars, unwiped, unwritten, audit, history, tick, latch>>
lifecycleVars == <<pipelineVars, registryVars, outcomeVars>>

AuditPlaces == {"none", "status", "probe", "judge", "record", "recording",
                "restore", "restoring", "row"}
Pointer == "current.json"

Audits == [at : AuditPlaces, trigger : Triggers, score : Scores, champion : 0 .. MaxVersions,
           action : Decisions, clean : BOOLEAN]
NoAudit == [at |-> "none", trigger |-> "manual", score |-> NoScore, champion |-> NoVersion,
            action |-> "promote", clean |-> TRUE]

Rows == [run : Threads, trigger : Triggers, status : {"success", "failed"}]

NoRun == [run |-> 0, trigger |-> "manual"]
AutoRuns == [run : Threads, trigger : Triggers \ {"manual"}] \cup {NoRun}

LifecycleTypeOK ==
    /\ PipelineTypeOK
    /\ RegistryTypeOK
    /\ quality \in [Threads -> Scores]
    /\ table \in 0 .. MaxRuns /\ mirror \in 0 .. MaxRuns /\ missed \subseteq Threads
    /\ unwiped \subseteq Files \cup {Pointer}
    /\ unwritten \subseteq Files
    /\ audit \in [Threads -> Audits]
    /\ history \in Seq(Rows) /\ Len(history) <= HistoryMax
    /\ tick \in AutoRuns /\ latch \in AutoRuns

LifecycleInit ==
    /\ PipelineInit
    /\ RegistryInit
    /\ quality = [t \in Threads |-> NoScore]
    /\ table = 0 /\ mirror = 0 /\ missed = {}
    /\ unwiped = {}
    /\ unwritten = {}
    /\ audit = [t \in Threads |-> NoAudit]
    /\ history = <<>>
    /\ tick = NoRun
    /\ latch = NoRun

Training(t) == thread[t].pipe = "train" /\ Alive(t)

(* record_run: newest first, cut at the maximum. *)
RecordRun(row) ==
    LET rows == <<row>> \o history
    IN history' = IF Len(rows) <= HistoryMax THEN rows ELSE SubSeq(rows, 1, HistoryMax)

(* Unless rollbacks overlap everything, one that is under way is waited    *)
(* for, and none starts between the reset of a training and its recording. *)
Working(t) == thread[t].at = "work" /\ thread[t].pipe = "train"

RollbackOver == "rollbacks" \in Overlap \/ op[Operator].at = "idle"

RollbackMayStart ==
    "rollbacks" \in Overlap
    \/ \A t \in Threads : Training(t) => Working(t) /\ unwiped = {}

(* MaxFaults bounds the faults of the registry and the failed publishes    *)
(* together.                                                               *)
FaultsLeft == faults + Cardinality(missed) < MaxFaults

AuditGoto(t, place) == audit' = [audit EXCEPT ![t].at = place]
-----------------------------------------------------------------------------
(* A training starts: a request, or a tick that found a reason to.         *)
StartTraining(trigger, t) ==
    /\ "trainings" \in Overlap \/ \A u \in Threads : ~Training(u)
    /\ RollbackOver
    /\ StartTrain(trigger, t)
    /\ unwiped' = Files \cup {Pointer}
    /\ unwritten' = Files
    /\ UNCHANGED <<registryVars, testVars, audit, history>>

ManualTrain(t) == StartTraining("manual", t) /\ UNCHANGED <<tick, latch>>

(* _reset_artifact_dirs visits the files in no particular order; one that  *)
(* it cannot delete stays, which matters for the pointer only.             *)
WipeArtifact(t, p) ==
    /\ Working(t) /\ p \in unwiped
    /\ \/ p = Pointer /\ (WipePointer \/ UNCHANGED registryVars)
       \/ p # Pointer /\ Overwrite(p, Absent)
    /\ unwiped' = unwiped \ {p}
    /\ UNCHANGED <<pipelineVars, testVars, unwritten, audit, history, tick, latch>>

(* What an audit in progress has staged below artifacts_dir goes as well. *)
WipeCopy(t, c, f) ==
    /\ Working(t) /\ unwiped # {}
    /\ WipeStaged(c, f)
    /\ UNCHANGED <<pipelineVars, outcomeVars>>

WriteModel(t, f) ==
    /\ Working(t) /\ unwiped = {} /\ f \in unwritten
    /\ Overwrite(f, t)
    /\ unwritten' = unwritten \ {f}
    /\ UNCHANGED <<pipelineVars, testVars, unwiped, audit, history, tick, latch>>

WorkEnds(t) ==
    /\ thread[t].pipe = "train" => unwritten = {} /\ RollbackOver
    /\ WorkDone(t)
    /\ UNCHANGED <<registryVars, outcomeVars>>

(* _publish of a training: one transaction upserts the test predictions    *)
(* into yf_demand_forecast, then data_import re-reads the table into the   *)
(* CSV.  How good the predictions turn out is anybody's guess.             *)
PushTest(t) ==
    /\ live[Predictions] # Absent
    /\ table' = t
    /\ \E score \in Scores \ {NoScore} : quality' = [quality EXCEPT ![t] = score]

(* A push that is skipped or fails leaves the CSV alone as well, and an    *)
(* import that fails leaves it behind; the run goes on all the same.       *)
PublishMisses(t) ==
    /\ live[Predictions] = Absent \/ FaultsLeft
    /\ missed' = missed \cup {t}
    /\ PushTest(t) \/ UNCHANGED <<quality, table>>
    /\ UNCHANGED mirror

(* Mutant: the mirror is refreshed before the push. *)
PublishTestEarly(t) ==
    \/ PushTest(t) /\ mirror' = table /\ UNCHANGED missed
    \/ PublishMisses(t)

PublishTest(t) ==
    \/ PushTest(t) /\ mirror' = t /\ UNCHANGED missed
    \/ PublishMisses(t)

(* The pipeline's own steps; an exception leaves the live paths half       *)
(* written, and an inference publishes its Forecast rows only.             *)
PipelineStep(t) ==
    /\ Advance(t)
    /\ IF thread[t].at = "publish" /\ thread[t].pipe = "train" THEN PublishTest(t)
       ELSE UNCHANGED testVars
    /\ UNCHANGED <<registryVars, unwiped, unwritten, audit, history, tick, latch>>

(* Every other import of the table: by the operator, by the cascades, or   *)
(* the one a training gave up waiting for.                                 *)
ImportPredictions ==
    /\ mirror # table
    /\ mirror' = table
    /\ UNCHANGED <<pipelineVars, registryVars, quality, table, missed>>
    /\ UNCHANGED <<unwiped, unwritten, audit, history, tick, latch>>
-----------------------------------------------------------------------------
(* Mutant: the audit takes every training for a manual one. *)
ReadRecordManual(t) ==
    /\ thread[t].at = "outcome" /\ audit[t].at = "none"
    /\ audit' = [audit EXCEPT ![t] = [NoAudit EXCEPT !.at = "status"]]
    /\ UNCHANGED <<pipelineVars, registryVars, testVars, unwiped, unwritten, history, tick, latch>>

(* PipelineService._record_training_outcome reads the shared run record,   *)
(* under _lock; by now it may be the record of the next training.          *)
ReadRecord(t) ==
    /\ thread[t].at = "outcome" /\ audit[t].at = "none"
    /\ audit' = [audit EXCEPT ![t] = [NoAudit EXCEPT !.at = "status",
                                                     !.trigger = run["train"].trigger]]
    /\ UNCHANGED <<pipelineVars, registryVars, testVars, unwiped, unwritten, history, tick, latch>>

(* record_training_outcome gives up unless the record says SUCCESS. *)
NotSuccess(t) ==
    /\ audit[t].at = "status" /\ run["train"].status # "success"
    /\ Outcome(t)
    /\ audit' = [audit EXCEPT ![t] = NoAudit]
    /\ UNCHANGED <<registryVars, testVars, unwiped, unwritten, history, tick, latch>>

IsSuccess(t) ==
    /\ audit[t].at = "status" /\ run["train"].status = "success"
    /\ AuditGoto(t, "probe")
    /\ UNCHANGED <<pipelineVars, registryVars, testVars, unwiped, unwritten, history, tick, latch>>

(* compute_forecast_summary scores the Test rows of demand_forecast.csv,   *)
(* whichever training they are of: the files below artifacts_dir play no   *)
(* part.  Any exception leaves accuracy_after at None.                     *)
MirroredQuality == IF mirror = 0 THEN NoScore ELSE quality[mirror]

Probe(t) ==
    /\ audit[t].at = "probe"
    /\ \E score \in {MirroredQuality, NoScore} :
          audit' = [audit EXCEPT ![t].at = "judge", ![t].score = score]
    /\ UNCHANGED <<pipelineVars, registryVars, testVars, unwiped, unwritten, history, tick, latch>>

(* The champion is read and judged without the registry's lock. *)
ScoreOf(v) == IF v = NoVersion THEN NoScore ELSE snap[v].score

Judge(t) ==
    /\ audit[t].at = "judge"
    /\ LET decision == IF GateEnabled THEN EvaluateChallenger(audit[t].score, ScoreOf(current))
                       ELSE "promote"
       IN audit' = [audit EXCEPT ![t].at = "record", ![t].champion = current,
                                 ![t].action = decision]
    /\ UNCHANGED <<pipelineVars, registryVars, testVars, unwiped, unwritten, history, tick, latch>>

Record(t) ==
    /\ audit[t].at = "record"
    /\ RecordBegin(t, UpdatePointer(audit[t].action), audit[t].score)
    /\ AuditGoto(t, "recording")
    /\ UNCHANGED <<pipelineVars, testVars, unwiped, unwritten, history, tick, latch>>

(* Mutant: a rejected challenger is recorded and stays live. *)
RecordReturnsOnly(t) ==
    /\ RecordEnd(t)
    /\ AuditGoto(t, "row")
    /\ UNCHANGED <<pipelineVars, testVars, unwiped, unwritten, history, tick, latch>>

RecordReturns(t) ==
    /\ RecordEnd(t)
    /\ AuditGoto(t, IF audit[t].action = "reject" /\ audit[t].champion # NoVersion
                    THEN "restore" ELSE "row")
    /\ UNCHANGED <<pipelineVars, testVars, unwiped, unwritten, history, tick, latch>>

(* rollback_if_current to the champion the gate decided against. *)
RestoreChampion(t) ==
    /\ audit[t].at = "restore"
    /\ LET champion == audit[t].champion
       IN \/ RestoreBegin(t, champion, champion) /\ AuditGoto(t, "restoring")
          \/ /\ RestoreDefers(t, champion, champion) \/ RestoreUnknown(t, champion, champion)
             /\ audit' = [audit EXCEPT ![t].at = "row", ![t].clean = FALSE]
    /\ UNCHANGED <<pipelineVars, testVars, unwiped, unwritten, history, tick, latch>>

RestoreReturns(t) ==
    /\ RestoreEnd(t)
    /\ AuditGoto(t, "row")
    /\ UNCHANGED <<pipelineVars, testVars, unwiped, unwritten, history, tick, latch>>

(* A registry exception is logged; the row is written all the same. *)
RegistryRaises(t) ==
    /\ FaultsLeft /\ (RecordFails(t) \/ RestoreFails(t))
    /\ audit' = [audit EXCEPT ![t].at = "row", ![t].clean = FALSE]
    /\ UNCHANGED <<pipelineVars, testVars, unwiped, unwritten, history, tick, latch>>

(* Mutant: the thread ends with its row, without chaining an inference. *)
WriteRowAndStop(t) ==
    /\ audit[t].at = "row"
    /\ RecordRun([run |-> t, trigger |-> audit[t].trigger, status |-> "success"])
    /\ Goto(t, "done")
    /\ audit' = [audit EXCEPT ![t] = NoAudit]
    /\ UNCHANGED <<run, cancel, trained, reconciled>>
    /\ UNCHANGED <<registryVars, testVars, unwiped, unwritten, tick, latch>>

WriteRow(t) ==
    /\ audit[t].at = "row"
    /\ RecordRun([run |-> t, trigger |-> audit[t].trigger, status |-> "success"])
    /\ Outcome(t)
    /\ audit' = [audit EXCEPT ![t] = NoAudit]
    /\ UNCHANGED <<registryVars, testVars, unwiped, unwritten, tick, latch>>

OutcomeStep(t) ==
    \/ ReadRecord(t) \/ NotSuccess(t) \/ IsSuccess(t) \/ Probe(t) \/ Judge(t)
    \/ Record(t) \/ RecordReturns(t)
    \/ RestoreChampion(t) \/ RestoreReturns(t)
    \/ RegistryRaises(t)
    \/ WriteRow(t)
-----------------------------------------------------------------------------
(* Mutant: only a success releases the latch. *)
TickReleasesSuccess ==
    /\ tick = NoRun /\ latch # NoRun
    /\ run["train"].status = "success"
    /\ latch' = NoRun
    /\ UNCHANGED <<pipelineVars, registryVars, testVars, unwiped, unwritten, audit, history, tick>>

(* Mutant: the tick also writes a row for a success. *)
TickReleasesRecords ==
    /\ tick = NoRun /\ latch # NoRun
    /\ run["train"].status \in {"success", "failed"}
    /\ RecordRun([run |-> latch.run, trigger |-> latch.trigger, status |-> run["train"].status])
    /\ latch' = NoRun
    /\ UNCHANGED <<pipelineVars, registryVars, testVars, unwiped, unwritten, audit, tick>>

(* check_and_retrain: a tick that finds the latch set only looks whether   *)
(* the training has ended, and a failure gets its row here.                *)
TickReleases ==
    /\ tick = NoRun /\ latch # NoRun
    /\ run["train"].status \in {"success", "failed"}
    /\ IF run["train"].status = "failed"
       THEN RecordRun([run |-> latch.run, trigger |-> latch.trigger, status |-> "failed"])
       ELSE UNCHANGED history
    /\ latch' = NoRun
    /\ UNCHANGED <<pipelineVars, registryVars, testVars, unwiped, unwritten, audit, tick>>

(* Mutant: a tick that also starts trainings nobody scheduled. *)
TickStartsAny(trigger, t) ==
    /\ tick = NoRun /\ latch = NoRun
    /\ StartTraining(trigger, t)
    /\ tick' = [run |-> t, trigger |-> trigger]
    /\ UNCHANGED latch

(* Otherwise it may start one, and sets the latch after run_training has   *)
(* returned.                                                               *)
TickStarts(trigger, t) ==
    /\ tick = NoRun /\ latch = NoRun
    /\ trigger # "manual"
    /\ StartTraining(trigger, t)
    /\ tick' = [run |-> t, trigger |-> trigger]
    /\ UNCHANGED latch

TickLatches ==
    /\ tick # NoRun
    /\ latch' = tick
    /\ tick' = NoRun
    /\ UNCHANGED <<pipelineVars, registryVars, testVars, unwiped, unwritten, audit, history>>
-----------------------------------------------------------------------------
(* Mutant: a rollback that moves the pointer and restores nothing. *)
OperatorPoints(v) ==
    /\ current' = v
    /\ UNCHANGED <<live, kept, snap, lock, op, minted, spared, faults, pipelineVars, outcomeVars>>

(* POST /retrain/rollback. *)
OperatorRollsBack(v) ==
    /\ RollbackMayStart
    /\ RestoreBegin(Operator, v, AnyVersion) \/ RestoreUnknown(Operator, v, AnyVersion)
    /\ UNCHANGED <<pipelineVars, outcomeVars>>

OperatorStep ==
    /\ RestoreStep(Operator) \/ (FaultsLeft /\ RestoreFails(Operator))
    /\ UNCHANGED <<pipelineVars, outcomeVars>>

(* The registry at work for a thread, and a sweep that fails in a folder. *)
RegistryWork(t) ==
    /\ RecordWork(t) \/ RestoreWork(t)
    /\ UNCHANGED <<pipelineVars, outcomeVars>>

SweepFails(t, v, f) ==
    /\ FaultsLeft /\ PruneHalf(t, v, f)
    /\ UNCHANGED <<pipelineVars, outcomeVars>>

ShutDown == Shutdown /\ UNCHANGED <<registryVars, outcomeVars>>

(* The process is gone with every thread, lock, audit and latch; the disk, *)
(* the history included, is what the next one starts from.                 *)
Reboot ==
    /\ Restart
    /\ FaultsLeft /\ RegistryDies
    /\ audit' = [t \in Threads |-> NoAudit]
    /\ tick' = NoRun
    /\ latch' = NoRun
    /\ UNCHANGED <<testVars, unwiped, unwritten, history>>
-----------------------------------------------------------------------------
LifecycleStep(t) ==
    \/ \E p \in unwiped : WipeArtifact(t, p)
    \/ \E c \in Clients, f \in Files : WipeCopy(t, c, f)
    \/ \E f \in Files : WriteModel(t, f)
    \/ WorkEnds(t)
    \/ PipelineStep(t)
    \/ OutcomeStep(t)
    \/ RegistryWork(t)

LifecycleNext ==
    \/ \E t \in Threads : ManualTrain(t) \/ LifecycleStep(t)
    \/ \E t \in Threads : StartInference(t) /\ UNCHANGED <<registryVars, outcomeVars>>
    \/ \E trigger \in Triggers, t \in Threads : TickStarts(trigger, t)
    \/ TickReleases \/ TickLatches
    \/ ImportPredictions
    \/ \E v \in VersionIds : OperatorRollsBack(v)
    \/ OperatorStep
    \/ \E t \in Threads, v \in VersionIds, f \in Files : SweepFails(t, v, f)
    \/ ShutDown
    \/ Reboot

(* Threads run, the scheduler ticks, a rollback request is carried out. *)
LifecycleFairness ==
    /\ \A t \in Threads : WF_lifecycleVars(LifecycleStep(t))
    /\ WF_lifecycleVars(TickReleases) /\ WF_lifecycleVars(TickLatches)
    /\ WF_lifecycleVars(OperatorStep)

LifecycleSpec == LifecycleInit /\ [][LifecycleNext]_lifecycleVars
FairLifecycleSpec == LifecycleSpec /\ LifecycleFairness
-----------------------------------------------------------------------------
(* "live state inconsistent; next successful retrain will fix"             *)
(* (training_outcome.py, line 157): whatever earlier failures, crashes and *)
(* rollbacks left half done, a training whose own registry calls succeed   *)
(* ends with the version in force restored, and when it is promoted with   *)
(* every live path in that version.  (A rejected one restores the paths    *)
(* its champion still has: a sweep that failed inside that folder before   *)
(* an operator rolled back to it may have taken some.)                     *)
HealedByNextTraining ==
    Overlap = {} => \A t \in Threads :
        audit[t].at = "row" /\ audit[t].clean =>
            /\ current # NoVersion
            /\ Restored(live, snap[current].files)
            /\ audit[t].action # "reject" => live = snap[current].files

(* A training whose push and re-import succeeded is not judged on the      *)
(* predictions of an earlier one: its score is that of the Test rows as it *)
(* or a later training left them, whatever imports, rollbacks and failed   *)
(* publishes of others come in between.  (One whose own publish failed is  *)
(* judged on whatever the mirror shows, its predecessor's rows included:   *)
(* training_outcome.py does not ask how the publish went.)                 *)
Scored(t) == audit[t].at \in {"judge", "record", "recording", "restore", "restoring", "row"}

ScoresAreMeasured ==
    \A t \in Threads \ missed : Scored(t) =>
        \/ audit[t].score = NoScore
        \/ \E u \in t .. MaxRuns : audit[t].score = quality[u]

(* With the gate on, no training moves the pointer to a version that is    *)
(* measurably worse, beyond the tolerance, than the one it replaces.       *)
Worse(v, w) ==
    /\ ScoreOf(w) # NoScore
    /\ ScoreOf(v) = NoScore \/ ScoreOf(v) + Threshold < ScoreOf(w)

NoUngatedRegression ==
    [][Overlap = {} /\ GateEnabled =>
          \A t \in Threads : RecordPoint(t) => ~Worse(op[t].ver, current)]_lifecycleVars

(* "the audit trail is uniform regardless of who started the run"          *)
(* (retrain_scheduler.py, line 543): a training that was published and     *)
(* went on to its end has one row, with its own trigger, unless newer rows *)
(* have pushed it out.                                                     *)
SuccessRows(t) == {i \in 1 .. Len(history) : history[i].run = t /\ history[i].status = "success"}

EverySuccessAudited ==
    \A t \in Threads :
        thread[t].pipe = "train" /\ thread[t].at = "done" /\ ~thread[t].skipped =>
            \/ \E i \in SuccessRows(t) : /\ history[i].trigger = thread[t].trigger
                                         /\ SuccessRows(t) = {i}
            \/ SuccessRows(t) = {} /\ Len(history) = HistoryMax

(* "Audit trail [...] idempotent against the scheduler's tick"             *)
(* (pipeline_service.py, line 344): however trainings overlap, one has at  *)
(* most one success row, and one that failed has none.                     *)
AuditedOnce ==
    \A t \in Threads :
        /\ Cardinality(SuccessRows(t)) <= 1
        /\ thread[t].at = "failed" => SuccessRows(t) = {}

(* "cold_start -- no prior champion existed; promoted unconditionally"     *)
(* (model_registry.py, line 68): the gate lets a training through without  *)
(* a comparison only when no version has been promoted before it.          *)
ColdStartMeansFirst ==
    \A t \in Threads :
        audit[t].at = "record" /\ audit[t].action = "cold_start" /\ audit[t].champion = NoVersion
            => \A v \in kept : ~snap[v].promoted

(* The single-flight latch of the scheduler does not stay set. *)
LatchReleased == latch # NoRun ~> latch = NoRun

(* Every run that starts ends, and a training is audited: no thread waits  *)
(* for ever on the registry, whose lock the operator and the others take.  *)
TrainingsSettle ==
    \A t \in Threads : thread[t].at = "work" ~> ~InFlight(t) /\ thread[t].at # "outcome"

(* Seen through its own variables, each component behaves as it does alone. *)
ComposesPipeline == PipelineSpec
ComposesRegistry == RegistrySpec
=============================================================================
