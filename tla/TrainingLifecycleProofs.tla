----------------------- MODULE TrainingLifecycleProofs -----------------------
(***************************************************************************)
(* Theorems of TrainingLifecycle, for any number of trainings, versions    *)
(* and faults.  That the composition is faithful comes first: each of its  *)
(* steps is a step of the pipeline or leaves it alone, and the same for    *)
(* the registry, so both keep the invariants proved of them on their own.  *)
(* What the threads do between the two is added on top.                    *)
(***************************************************************************)
EXTENDS TrainingLifecycle, ForecastServiceProofs, SequenceTheorems

Recording == {"copy", "point", "prune"}
Restoring == {"restore", "settled"}

OutcomeTypeOK ==
    /\ quality \in [Threads -> Scores]
    /\ table \in 0 .. MaxRuns /\ mirror \in 0 .. MaxRuns /\ missed \subseteq Threads
    /\ unwiped \subseteq Files \cup {Pointer}
    /\ unwritten \subseteq Files
    /\ audit \in [Threads -> Audits]
    /\ history \in Seq(Rows) /\ Len(history) <= HistoryMax
    /\ tick \in AutoRuns /\ latch \in AutoRuns

(* Where a thread is in its audit and in the registry go together; only    *)
(* rollbacks bring the operator into the registry; and a champion is       *)
(* restored only where there is one.                                       *)
AuditPlaced ==
    /\ \A t \in Threads :
          /\ audit[t].at # "none" => thread[t].at = "outcome"
          /\ op[t].at \in Recording <=> audit[t].at = "recording"
          /\ op[t].at \in Restoring <=> audit[t].at = "restoring"
          /\ audit[t].at = "restore" => audit[t].champion \in VersionIds
    /\ op[Operator].at \notin Recording

LifecycleSafe == PipelineSafe /\ ChainInv /\ Safe /\ OutcomeTypeOK /\ AuditPlaced

LEMMA ActorsAreClients == Threads \subseteq Clients /\ Operator \in Clients /\ Operator \notin Threads
  BY ActorsAssumption

LEMMA NoAuditType == NoAudit \in Audits /\ NoAudit.at = "none" /\ NoRun \in AutoRuns
  BY TriggersAssumption, LifecycleScoresAssumption, BoundsAssumption
     DEF NoAudit, Audits, AuditPlaces, Decisions, NoVersion, NoRun, AutoRuns

(* An audit moves to another place and keeps what it has found out.        *)
LEMMA AuditGotoEffect ==
  ASSUME OutcomeTypeOK, NEW t \in Threads, NEW place \in AuditPlaces, AuditGoto(t, place)
  PROVE  /\ audit' \in [Threads -> Audits]
         /\ audit'[t] = [audit[t] EXCEPT !.at = place]
         /\ audit'[t].at = place /\ audit'[t].trigger = audit[t].trigger
         /\ audit'[t].score = audit[t].score /\ audit'[t].champion = audit[t].champion
         /\ audit'[t].action = audit[t].action /\ audit'[t].clean = audit[t].clean
         /\ \A u \in Threads : u # t => audit'[u] = audit[u]
  BY DEF AuditGoto, OutcomeTypeOK, Audits

(* The same when it ends with what went wrong on record.                   *)
LEMMA AuditSoiledEffect ==
  ASSUME OutcomeTypeOK, NEW t \in Threads,
         audit' = [audit EXCEPT ![t].at = "row", ![t].clean = FALSE]
  PROVE  /\ audit' \in [Threads -> Audits]
         /\ audit'[t].at = "row" /\ audit'[t].trigger = audit[t].trigger
         /\ audit'[t].score = audit[t].score /\ ~audit'[t].clean
         /\ \A u \in Threads : u # t => audit'[u] = audit[u]
  <1> DEFINE o == [[audit[t] EXCEPT !.at = "row"] EXCEPT !.clean = FALSE]
  <1>1. audit[t] \in Audits
    BY DEF OutcomeTypeOK
  <1>2. /\ o \in Audits /\ o.at = "row" /\ o.trigger = audit[t].trigger
        /\ o.score = audit[t].score /\ ~o.clean
    BY <1>1 DEF Audits, AuditPlaces
  <1>3. audit' = [audit EXCEPT ![t] = o]
    BY <1>1 DEF OutcomeTypeOK, Audits
  <1> HIDE DEF o
  <1> QED
    BY <1>2, <1>3 DEF OutcomeTypeOK

(* record_run keeps the rows it can.                                       *)
LEMMA RecordRunEffect ==
  ASSUME OutcomeTypeOK, NEW row \in Rows, RecordRun(row)
  PROVE  /\ history' \in Seq(Rows) /\ Len(history') <= HistoryMax
         /\ Len(history') = IF Len(history) < HistoryMax THEN Len(history) + 1 ELSE HistoryMax
         /\ history'[1] = row
         /\ \A i \in 2 .. Len(history') : history'[i] = history[i - 1]
  <1> DEFINE rows == <<row>> \o history
  <1>1. /\ rows \in Seq(Rows) /\ Len(rows) = Len(history) + 1 /\ Len(history) \in Nat
        /\ rows[1] = row /\ \A i \in 2 .. Len(rows) : rows[i] = history[i - 1]
    BY DEF OutcomeTypeOK
  <1>2. HistoryMax \in Nat /\ HistoryMax >= 2 /\ Len(history) <= HistoryMax
    BY SettingsAssumption DEF OutcomeTypeOK
  <1>3. history' = IF Len(rows) <= HistoryMax THEN rows ELSE SubSeq(rows, 1, HistoryMax)
    BY DEF RecordRun
  <1> HIDE DEF rows
  <1>4. CASE Len(rows) <= HistoryMax
    BY <1>1, <1>2, <1>3, <1>4
  <1>5. CASE Len(rows) > HistoryMax
    <2>1. Len(rows) = HistoryMax + 1
      BY <1>1, <1>2, <1>5
    <2>2. history' = SubSeq(rows, 1, HistoryMax)
      BY <1>3, <1>5, <1>2, <2>1
    <2>3. /\ history' \in Seq(Rows) /\ Len(history') = HistoryMax
          /\ \A i \in 1 .. HistoryMax : history'[i] = rows[i]
      BY <1>1, <1>2, <2>1, <2>2, SubSeqProperties
    <2> QED
      BY <1>1, <1>2, <2>1, <2>3
  <1> QED
    BY <1>1, <1>2, <1>4, <1>5
-----------------------------------------------------------------------------
(* What an audit asks of the registry is a call the registry knows.        *)
LEMMA AuditCalls ==
  ASSUME LifecycleSafe, NEW t \in Threads
  PROVE  /\ audit[t].score \in Scores /\ UpdatePointer(audit[t].action) \in BOOLEAN
         /\ audit[t].champion \in 0 .. MaxVersions
         /\ audit[t].at = "restore" => audit[t].champion \in VersionIds
  BY DEF LifecycleSafe, OutcomeTypeOK, Audits, AuditPlaced, UpdatePointer

LEMMA OutcomeComposes ==
  ASSUME LifecycleSafe, NEW t \in Threads, OutcomeStep(t)
  PROVE  [PipelineNext]_pipelineVars /\ [RegistryNext]_registryVars
  <1>1. CASE ReadRecord(t) \/ IsSuccess(t) \/ Probe(t) \/ Judge(t)
    BY <1>1 DEF ReadRecord, IsSuccess, Probe, Judge
  <1>2. CASE NotSuccess(t) \/ WriteRow(t)
    BY <1>2 DEF NotSuccess, WriteRow, PipelineNext, ThreadStep
  <1>3. CASE Record(t)
    BY <1>3, AuditCalls, ActorsAreClients DEF Record, RegistryNext, RegistryCall
  <1>4. CASE RecordReturns(t)
    BY <1>4, ActorsAreClients DEF RecordReturns, RegistryNext, RecordStep
  <1>5. CASE RestoreChampion(t)
    BY <1>5, AuditCalls, ActorsAreClients DEF RestoreChampion, RegistryNext, RegistryCall
  <1>6. CASE RestoreReturns(t)
    BY <1>6, ActorsAreClients DEF RestoreReturns, RegistryNext, RestoreStep
  <1>7. CASE RegistryRaises(t)
    BY <1>7, ActorsAreClients DEF RegistryRaises, RegistryNext
  <1> QED
    BY <1>1, <1>2, <1>3, <1>4, <1>5, <1>6, <1>7 DEF OutcomeStep

LEMMA ThreadComposes ==
  ASSUME LifecycleSafe, NEW t \in Threads, LifecycleStep(t)
  PROVE  [PipelineNext]_pipelineVars /\ [RegistryNext]_registryVars
  <1>1. ASSUME NEW p \in unwiped, WipeArtifact(t, p)
        PROVE  [PipelineNext]_pipelineVars /\ [RegistryNext]_registryVars
    <2>1. p \in Files \/ p = Pointer
      BY DEF LifecycleSafe, OutcomeTypeOK
    <2>2. (p # Pointer /\ Overwrite(p, Absent)) \/ WipePointer \/ UNCHANGED registryVars
      BY <1>1 DEF WipeArtifact
    <2> QED
      BY <1>1, <2>1, <2>2 DEF WipeArtifact, RegistryNext
  <1>2. ASSUME NEW c \in Clients, NEW f \in Files, WipeCopy(t, c, f)
        PROVE  [PipelineNext]_pipelineVars /\ [RegistryNext]_registryVars
    BY <1>2 DEF WipeCopy, RegistryNext
  <1>3. ASSUME NEW f \in Files, WriteModel(t, f)
        PROVE  [PipelineNext]_pipelineVars /\ [RegistryNext]_registryVars
    BY <1>3, ModelsAssumption DEF WriteModel, RegistryNext
  <1>4. CASE WorkEnds(t) \/ PipelineStep(t)
    BY <1>4 DEF WorkEnds, PipelineStep, PipelineNext, ThreadStep
  <1>5. CASE RegistryWork(t)
    BY <1>5, ActorsAreClients DEF RegistryWork, RegistryNext, RecordStep, RestoreStep
  <1> QED
    BY <1>1, <1>2, <1>3, <1>4, <1>5, OutcomeComposes DEF LifecycleStep

(* Every step of the whole is a step of each part, or leaves it alone.     *)
LEMMA StepComposes ==
  ASSUME LifecycleSafe, [LifecycleNext]_lifecycleVars
  PROVE  [PipelineNext]_pipelineVars /\ [RegistryNext]_registryVars
  <1>1. CASE UNCHANGED lifecycleVars
    BY <1>1 DEF lifecycleVars
  <1>2. ASSUME NEW t \in Threads, NEW trigger \in Triggers, StartTraining(trigger, t)
        PROVE  [PipelineNext]_pipelineVars /\ [RegistryNext]_registryVars
    BY <1>2 DEF StartTraining, PipelineNext
  <1>3. ASSUME NEW t \in Threads, ManualTrain(t)
        PROVE  [PipelineNext]_pipelineVars /\ [RegistryNext]_registryVars
    BY <1>2, <1>3, TriggersAssumption DEF ManualTrain
  <1>4. ASSUME NEW t \in Threads, StartInference(t) /\ UNCHANGED <<registryVars, outcomeVars>>
        PROVE  [PipelineNext]_pipelineVars /\ [RegistryNext]_registryVars
    BY <1>4 DEF PipelineNext
  <1>5. ASSUME NEW t \in Threads, NEW trigger \in Triggers, TickStarts(trigger, t)
        PROVE  [PipelineNext]_pipelineVars /\ [RegistryNext]_registryVars
    BY <1>2, <1>5 DEF TickStarts
  <1>6. CASE TickReleases \/ TickLatches \/ ImportPredictions
    BY <1>6 DEF TickReleases, TickLatches, ImportPredictions
  <1>7. ASSUME NEW v \in VersionIds, OperatorRollsBack(v)
        PROVE  [PipelineNext]_pipelineVars /\ [RegistryNext]_registryVars
    <2>1. AnyVersion \in 0 .. MaxVersions
      BY BoundsAssumption DEF AnyVersion
    <2> QED
      BY <1>7, <2>1, ActorsAreClients DEF OperatorRollsBack, RegistryNext, RegistryCall
  <1>8. CASE OperatorStep
    BY <1>8, ActorsAreClients DEF OperatorStep, RegistryNext
  <1>9. ASSUME NEW t \in Threads, NEW v \in VersionIds, NEW f \in Files, SweepFails(t, v, f)
        PROVE  [PipelineNext]_pipelineVars /\ [RegistryNext]_registryVars
    BY <1>9, ActorsAreClients DEF SweepFails, RegistryNext
  <1>10. CASE ShutDown \/ Reboot
    BY <1>10 DEF ShutDown, Reboot, PipelineNext, RegistryNext
  <1>11. CASE LifecycleNext
    BY <1>3, <1>4, <1>5, <1>6, <1>7, <1>8, <1>9, <1>10, <1>11, ThreadComposes DEF LifecycleNext
  <1> QED
    BY <1>1, <1>11
-----------------------------------------------------------------------------
(* A thread in the audit hook stays there while others move.               *)
LEMMA OutcomeKept ==
  ASSUME PipelineSafe, NEW t \in Threads, thread[t].at = "outcome", NEW u \in Threads,
         StartInference(u) \/ (\E trigger \in Triggers : StartTrain(trigger, u))
         \/ WorkDone(u) \/ Advance(u)
  PROVE  thread'[t] = thread[t]
  BY DEF PipelineSafe, PipelineTypeOK, StartInference, StartTrain, Start, Fresh, Advance,
         WorkDone, WorkFails, Checkpoint, Publish, Finish, Hook, Reconcile, ChainCheck,
         ChainRefused, ChainStart, Goto

(* The steps of a call keep its client recording, or restoring.            *)
LEMMA RegistryWorkEffect ==
  ASSUME Safe, NEW c \in Clients, RecordWork(c) \/ RestoreWork(c)
  PROVE  /\ op[c].at \in Recording <=> op'[c].at \in Recording
         /\ op[c].at \in Restoring <=> op'[c].at \in Restoring
         /\ op[c].at \in Recording \cup Restoring
         /\ \A d \in Clients : d # c => op'[d] = op[d]
  <1> USE DEF Recording, Restoring
  <1>1. "prune" \in Stages /\ "settled" \in Stages
    BY DEF Stages
  <1>2. ASSUME NEW f \in Files, RecordCopy(c, f)
        PROVE  /\ op[c].at = "copy" /\ op'[c].at = "copy"
               /\ \A d \in Clients : d # c => op'[d] = op[d]
    BY <1>2, RecordCopyEffect
  <1>3. ASSUME RecordPublish(c)
        PROVE  /\ op[c].at = "copy" /\ op'[c].at \in {"point", "prune"}
               /\ \A d \in Clients : d # c => op'[d] = op[d]
    BY <1>3, RecordPublishEffect
  <1>4. ASSUME RecordPoint(c)
        PROVE  /\ op[c].at = "point" /\ op'[c].at = "prune"
               /\ \A d \in Clients : d # c => op'[d] = op[d]
    BY <1>1, <1>4, StageEffect DEF RecordPoint
  <1>5. ASSUME NEW v \in VersionIds, PruneOne(c, v)
        PROVE  op[c].at = "prune" /\ op' = op
    BY <1>5 DEF PruneOne
  <1>6. ASSUME NEW f \in Files, RestoreFile(c, f)
        PROVE  /\ op[c].at = "restore" /\ op'[c].at = "restore"
               /\ \A d \in Clients : d # c => op'[d] = op[d]
    BY <1>6, RestoreFileEffect
  <1>7. ASSUME RestorePoint(c)
        PROVE  /\ op[c].at = "restore" /\ op'[c].at = "settled"
               /\ \A d \in Clients : d # c => op'[d] = op[d]
    BY <1>1, <1>7, StageEffect DEF RestorePoint
  <1> QED
    BY <1>2, <1>3, <1>4, <1>5, <1>6, <1>7 DEF RecordWork, RestoreWork

(* What can happen without the audit noticing.                             *)
LEMMA QuietPlaced ==
  ASSUME LifecycleSafe, audit' = audit,
         \A t \in Threads : thread[t].at = "outcome" => thread'[t].at = "outcome",
         \A c \in Clients : /\ op[c].at \in Recording <=> op'[c].at \in Recording
                            /\ op[c].at \in Restoring <=> op'[c].at \in Restoring
  PROVE  AuditPlaced'
  BY ActorsAreClients DEF LifecycleSafe, AuditPlaced

(* A step of the audit of one thread.                                      *)
LEMMA OneAuditPlaced ==
  ASSUME LifecycleSafe, NEW t \in Threads,
         \A u \in Threads : u # t => audit'[u] = audit[u] /\ thread'[u] = thread[u],
         \A c \in Clients : c # t => op'[c] = op[c],
         audit'[t].at # "none" => thread'[t].at = "outcome",
         op'[t].at \in Recording <=> audit'[t].at = "recording",
         op'[t].at \in Restoring <=> audit'[t].at = "restoring",
         audit'[t].at = "restore" => audit'[t].champion \in VersionIds
  PROVE  AuditPlaced'
  <1>1. op'[Operator] = op[Operator]
    BY ActorsAreClients
  <1>2. \A u \in Threads : u # t => op'[u] = op[u]
    BY ActorsAreClients
  <1> QED
    BY <1>1, <1>2 DEF LifecycleSafe, AuditPlaced

LEMMA OutcomeStepPlaced ==
  ASSUME LifecycleSafe, NEW t \in Threads, OutcomeStep(t)
  PROVE  AuditPlaced' /\ OutcomeTypeOK'
  <1> USE DEF AuditPlaces
  <1>1. /\ audit \in [Threads -> Audits] /\ audit[t] \in Audits /\ t \in Clients
        /\ thread \in [Threads -> ThreadRecords] /\ OutcomeTypeOK /\ Safe /\ PipelineSafe
    BY ActorsAreClients DEF LifecycleSafe, OutcomeTypeOK, PipelineSafe, PipelineTypeOK
  <1>2. /\ audit[t].at # "none" => thread[t].at = "outcome"
        /\ op[t].at \in Recording <=> audit[t].at = "recording"
        /\ op[t].at \in Restoring <=> audit[t].at = "restoring"
    BY DEF LifecycleSafe, AuditPlaced
  <1>3. CASE ReadRecord(t)
    <2> DEFINE o == [NoAudit EXCEPT !.at = "status", !.trigger = run["train"].trigger]
    <2>1. audit' = [audit EXCEPT ![t] = o] /\ UNCHANGED <<thread, op>>
      BY <1>3 DEF ReadRecord, pipelineVars, registryVars
    <2>2. run["train"].trigger \in Triggers
      BY <1>1 DEF PipelineSafe, PipelineTypeOK, Pipelines, Runs
    <2>3. o \in Audits /\ o.at = "status"
      <3> HIDE DEF NoAudit
      <3>1. o = [[NoAudit EXCEPT !.at = "status"] EXCEPT !.trigger = run["train"].trigger]
        OBVIOUS
      <3> QED
        BY <2>2, <3>1, NoAuditType DEF Audits
    <2> HIDE DEF o
    <2>4. /\ audit' \in [Threads -> Audits] /\ audit'[t] = o
          /\ \A u \in Threads : u # t => audit'[u] = audit[u]
      BY <1>1, <2>1, <2>3
    <2>5. AuditPlaced'
      BY <1>2, <1>3, <2>1, <2>3, <2>4, OneAuditPlaced DEF ReadRecord
    <2>6. OutcomeTypeOK'
      BY <1>1, <1>3, <2>4 DEF ReadRecord, OutcomeTypeOK, testVars
    <2> QED
      BY <2>5, <2>6
  <1>4. ASSUME Outcome(t), audit[t].at \in {"status", "row"}, UNCHANGED registryVars,
               audit' = [audit EXCEPT ![t] = NoAudit]
        PROVE  AuditPlaced' /\ audit' \in [Threads -> Audits]
    <2>1. /\ audit' \in [Threads -> Audits] /\ audit'[t] = NoAudit
          /\ \A u \in Threads : u # t => audit'[u] = audit[u]
      BY <1>1, <1>4, NoAuditType
    <2>2. \A u \in Threads : u # t => thread'[u] = thread[u]
      BY <1>1, <1>4 DEF Outcome, Goto
    <2>3. op' = op
      BY <1>4 DEF registryVars
    <2> QED
      BY <1>2, <1>4, <2>1, <2>2, <2>3, OneAuditPlaced, NoAuditType
  <1>5. CASE NotSuccess(t)
    BY <1>1, <1>4, <1>5 DEF NotSuccess, OutcomeTypeOK, testVars
  <1>6. CASE WriteRow(t)
    <2> DEFINE row == [run |-> t, trigger |-> audit[t].trigger, status |-> "success"]
    <2>1. row \in Rows
      BY <1>1 DEF Rows, Audits
    <2>2. RecordRun(row)
      BY <1>6 DEF WriteRow
    <2> HIDE DEF row
    <2>3. history' \in Seq(Rows) /\ Len(history') <= HistoryMax
      BY <1>1, <2>1, <2>2, RecordRunEffect
    <2>4. AuditPlaced' /\ audit' \in [Threads -> Audits]
      BY <1>4, <1>6 DEF WriteRow
    <2>5. UNCHANGED <<testVars, unwiped, unwritten, tick, latch>>
      BY <1>6 DEF WriteRow
    <2> QED
      BY <1>1, <2>3, <2>4, <2>5 DEF OutcomeTypeOK, testVars
  <1>7. CASE IsSuccess(t)
    <2>1. /\ AuditGoto(t, "probe") /\ UNCHANGED <<thread, op>> /\ audit[t].at = "status"
          /\ UNCHANGED <<testVars, unwiped, unwritten, history, tick, latch>>
      BY <1>7 DEF IsSuccess, pipelineVars, registryVars
    <2> QED
      BY <1>1, <1>2, <2>1, AuditGotoEffect, OneAuditPlaced DEF OutcomeTypeOK, testVars
  <1>8. CASE Probe(t)
    <2>1. PICK score \in {MirroredQuality, NoScore} :
             audit' = [audit EXCEPT ![t].at = "judge", ![t].score = score]
      BY <1>8 DEF Probe
    <2>2. score \in Scores
      <3>1. MirroredQuality \in Scores
        BY <1>1, LifecycleScoresAssumption, MaxRunsAssumption
           DEF MirroredQuality, OutcomeTypeOK, Threads
      <3> QED
        BY <2>1, <3>1, LifecycleScoresAssumption
    <2> DEFINE o == [[audit[t] EXCEPT !.at = "judge"] EXCEPT !.score = score]
    <2>3. audit' = [audit EXCEPT ![t] = o]
      BY <1>1, <2>1 DEF Audits
    <2>4. o \in Audits /\ o.at = "judge"
      BY <1>1, <2>2 DEF Audits
    <2> HIDE DEF o
    <2>5. /\ audit' \in [Threads -> Audits] /\ audit'[t] = o
          /\ \A u \in Threads : u # t => audit'[u] = audit[u]
      BY <1>1, <2>3, <2>4
    <2>6. UNCHANGED <<thread, op, testVars, unwiped, unwritten, history, tick, latch>>
          /\ audit[t].at = "probe"
      BY <1>8 DEF Probe, pipelineVars, registryVars
    <2> QED
      BY <1>1, <1>2, <2>4, <2>5, <2>6, OneAuditPlaced DEF OutcomeTypeOK, testVars
  <1>9. CASE Judge(t)
    <2> DEFINE decision == IF GateEnabled THEN EvaluateChallenger(audit[t].score, ScoreOf(current))
                           ELSE "promote"
    <2>1. decision \in Decisions
      BY DEF EvaluateChallenger, Decisions
    <2>2. current \in 0 .. MaxVersions
      BY <1>1 DEF Safe, RegistryTypeOK
    <2>3. audit' = [audit EXCEPT ![t].at = "record", ![t].champion = current,
                                 ![t].action = decision]
      BY <1>9 DEF Judge
    <2> HIDE DEF decision
    <2> DEFINE o == [[[audit[t] EXCEPT !.at = "record"] EXCEPT !.champion = current]
                        EXCEPT !.action = decision]
    <2>4. audit' = [audit EXCEPT ![t] = o]
      BY <1>1, <2>3 DEF Audits
    <2>5. o \in Audits /\ o.at = "record"
      BY <1>1, <2>1, <2>2 DEF Audits
    <2> HIDE DEF o
    <2>6. /\ audit' \in [Threads -> Audits] /\ audit'[t] = o
          /\ \A u \in Threads : u # t => audit'[u] = audit[u]
      BY <1>1, <2>4, <2>5
    <2>7. UNCHANGED <<thread, op, testVars, unwiped, unwritten, history, tick, latch>>
          /\ audit[t].at = "judge"
      BY <1>9 DEF Judge, pipelineVars, registryVars
    <2> QED
      BY <1>1, <1>2, <2>5, <2>6, <2>7, OneAuditPlaced DEF OutcomeTypeOK, testVars
  <1>10. CASE Record(t)
    <2>1. PICK upd \in BOOLEAN, score \in Scores : RecordBegin(t, upd, score)
      BY <1>10, AuditCalls DEF Record
    <2>2. op'[t].at = "copy" /\ \A c \in Clients : c # t => op'[c] = op[c]
      BY <1>1, <2>1, RecordBeginEffect
    <2>3. /\ AuditGoto(t, "recording") /\ audit[t].at = "record" /\ thread' = thread
          /\ UNCHANGED <<testVars, unwiped, unwritten, history, tick, latch>>
      BY <1>10 DEF Record, pipelineVars
    <2> QED
      BY <1>1, <1>2, <2>2, <2>3, AuditGotoEffect, OneAuditPlaced
         DEF OutcomeTypeOK, Recording, Restoring, testVars
  <1>11. CASE RecordReturns(t)
    <2> DEFINE place == IF audit[t].action = "reject" /\ audit[t].champion # NoVersion
                        THEN "restore" ELSE "row"
    <2>1. /\ AuditGoto(t, place) /\ op[t].at = "prune" /\ thread' = thread
          /\ op' = [op EXCEPT ![t] = Returned("ok")]
          /\ UNCHANGED <<testVars, unwiped, unwritten, history, tick, latch>>
      BY <1>11 DEF RecordReturns, RecordEnd, pipelineVars
    <2>2. place \in AuditPlaces /\ place \in {"restore", "row"}
          /\ (place = "restore" => audit[t].champion \in VersionIds)
      BY <1>1 DEF Audits, VersionIds, NoVersion
    <2> HIDE DEF place
    <2>3. op'[t].at = "idle" /\ \A c \in Clients : c # t => op'[c] = op[c]
      BY <1>1, <2>1, ReturnedEffect
    <2>4. audit[t].at = "recording"
      BY <1>2, <2>1 DEF Recording
    <2> QED
      BY <1>1, <1>2, <2>1, <2>2, <2>3, <2>4, AuditGotoEffect, OneAuditPlaced
         DEF OutcomeTypeOK, Recording, Restoring, testVars
  <1>12. CASE RestoreChampion(t)
    <2> DEFINE champion == audit[t].champion
    <2>1. audit[t].at = "restore" /\ thread' = thread /\ champion \in VersionIds
          /\ UNCHANGED <<testVars, unwiped, unwritten, history, tick, latch>>
      BY <1>12, AuditCalls DEF RestoreChampion, pipelineVars
    <2>2. CASE RestoreBegin(t, champion, champion) /\ AuditGoto(t, "restoring")
      <3>1. op'[t].at = "restore" /\ \A c \in Clients : c # t => op'[c] = op[c]
        BY <1>1, <2>1, <2>2, RestoreBeginEffect
      <3> QED
        BY <1>1, <1>2, <2>1, <2>2, <3>1, AuditGotoEffect, OneAuditPlaced
           DEF OutcomeTypeOK, Recording, Restoring, testVars
    <2>3. CASE /\ RestoreDefers(t, champion, champion) \/ RestoreUnknown(t, champion, champion)
               /\ audit' = [audit EXCEPT ![t].at = "row", ![t].clean = FALSE]
      <3>1. op'[t].at = "idle" /\ \A c \in Clients : c # t => op'[c] = op[c]
        BY <1>1, <2>3, ReturnedEffect DEF RestoreDefers, RestoreUnknown
      <3> QED
        BY <1>1, <1>2, <2>1, <2>3, <3>1, AuditSoiledEffect, OneAuditPlaced
           DEF OutcomeTypeOK, Recording, Restoring, testVars
    <2> QED
      BY <1>12, <2>2, <2>3 DEF RestoreChampion
  <1>13. CASE RestoreReturns(t)
    <2>1. /\ AuditGoto(t, "row") /\ op[t].at = "settled" /\ thread' = thread
          /\ op' = [op EXCEPT ![t] = Returned("ok")]
          /\ UNCHANGED <<testVars, unwiped, unwritten, history, tick, latch>>
      BY <1>13 DEF RestoreReturns, RestoreEnd, pipelineVars
    <2>2. op'[t].at = "idle" /\ \A c \in Clients : c # t => op'[c] = op[c]
      BY <1>1, <2>1, ReturnedEffect
    <2> QED
      BY <1>1, <1>2, <2>1, <2>2, AuditGotoEffect, OneAuditPlaced
         DEF OutcomeTypeOK, Recording, Restoring, testVars
  <1>14. CASE RegistryRaises(t)
    <2>1. /\ audit' = [audit EXCEPT ![t].at = "row", ![t].clean = FALSE] /\ thread' = thread
          /\ op[t].at \in Recording \cup Restoring
          /\ op' = [op EXCEPT ![t] = Returned("error")]
          /\ UNCHANGED <<testVars, unwiped, unwritten, history, tick, latch>>
      BY <1>14 DEF RegistryRaises, RecordFails, RestoreFails, pipelineVars, Recording, Restoring
    <2>2. op'[t].at = "idle" /\ \A c \in Clients : c # t => op'[c] = op[c]
      BY <1>1, <2>1, ReturnedEffect
    <2> QED
      BY <1>1, <1>2, <2>1, <2>2, AuditSoiledEffect, OneAuditPlaced
         DEF OutcomeTypeOK, Recording, Restoring, testVars
  <1> QED
    BY <1>3, <1>5, <1>6, <1>7, <1>8, <1>9, <1>10, <1>11, <1>12, <1>13, <1>14 DEF OutcomeStep
-----------------------------------------------------------------------------
(* What the publish of a training leaves behind.                           *)
LEMMA PublishTestType ==
  ASSUME OutcomeTypeOK, NEW t \in Threads, PublishTest(t)
  PROVE  /\ quality' \in [Threads -> Scores] /\ \A u \in Threads \ {t} : quality'[u] = quality[u]
         /\ table' \in {table, t} /\ (mirror' = mirror \/ (mirror' = t /\ table' = t))
         /\ missed' \subseteq Threads /\ missed \subseteq missed'
         /\ t \in missed' \/ (mirror' = t /\ table' = t)
         /\ table' \in 0 .. MaxRuns /\ mirror' \in 0 .. MaxRuns
  <1>1. /\ quality \in [Threads -> Scores] /\ missed \subseteq Threads
        /\ table \in 0 .. MaxRuns /\ mirror \in 0 .. MaxRuns /\ t \in 0 .. MaxRuns
    BY MaxRunsAssumption DEF OutcomeTypeOK, Threads
  <1>2. ASSUME PushTest(t)
        PROVE  /\ quality' \in [Threads -> Scores] /\ \A u \in Threads \ {t} : quality'[u] = quality[u]
               /\ table' = t
    BY <1>1, <1>2 DEF PushTest
  <1>3. CASE PushTest(t) /\ mirror' = t /\ UNCHANGED missed
    BY <1>1, <1>2, <1>3
  <1>4. CASE PublishMisses(t)
    <2>1. PushTest(t) \/ UNCHANGED <<quality, table>>
      BY <1>4 DEF PublishMisses
    <2>2. mirror' = mirror /\ missed' = missed \cup {t}
      BY <1>4 DEF PublishMisses
    <2> QED
      BY <1>1, <1>2, <2>1, <2>2
  <1> QED
    BY <1>3, <1>4 DEF PublishTest

LEMMA LifecycleStepPlaced ==
  ASSUME LifecycleSafe, NEW t \in Threads, LifecycleStep(t)
  PROVE  AuditPlaced' /\ OutcomeTypeOK'
  <1>1. OutcomeTypeOK /\ Safe /\ PipelineSafe /\ t \in Clients
    BY ActorsAreClients DEF LifecycleSafe
  <1>2. ASSUME NEW p \in unwiped, WipeArtifact(t, p) PROVE AuditPlaced' /\ OutcomeTypeOK'
    <2>1. op' = op /\ thread' = thread /\ audit' = audit
      BY <1>2 DEF WipeArtifact, WipePointer, Overwrite, registryVars, pipelineVars
    <2>2. AuditPlaced'
      BY <2>1, QuietPlaced
    <2> QED
      BY <1>1, <1>2, <2>2 DEF WipeArtifact, OutcomeTypeOK, testVars
  <1>3. ASSUME NEW c \in Clients, NEW f \in Files, WipeCopy(t, c, f)
        PROVE  AuditPlaced' /\ OutcomeTypeOK'
    <2>1. /\ op[c].at = "copy" /\ op'[c].at = "copy"
          /\ \A d \in Clients : d # c => op'[d] = op[d]
      BY <1>1, <1>3, WipeStagedEffect DEF WipeCopy
    <2>2. thread' = thread /\ audit' = audit
      BY <1>3 DEF WipeCopy, outcomeVars, pipelineVars
    <2>3. AuditPlaced'
      BY <2>1, <2>2, QuietPlaced
    <2> QED
      BY <1>1, <1>3, <2>3 DEF WipeCopy, OutcomeTypeOK, outcomeVars, testVars
  <1>4. ASSUME NEW f \in Files, WriteModel(t, f) PROVE AuditPlaced' /\ OutcomeTypeOK'
    <2>1. op' = op /\ thread' = thread /\ audit' = audit
      BY <1>4 DEF WriteModel, Overwrite, pipelineVars
    <2>2. AuditPlaced'
      BY <2>1, QuietPlaced
    <2> QED
      BY <1>1, <1>4, <2>2 DEF WriteModel, OutcomeTypeOK, testVars
  <1>5. CASE WorkEnds(t) \/ PipelineStep(t)
    <2>1. WorkDone(t) \/ Advance(t)
      BY <1>5 DEF WorkEnds, PipelineStep
    <2>2. op' = op /\ audit' = audit
      BY <1>5 DEF WorkEnds, PipelineStep, outcomeVars, registryVars
    <2>3. AuditPlaced'
      BY <1>1, <2>1, <2>2, OutcomeKept, QuietPlaced
    <2>4. UNCHANGED testVars \/ PublishTest(t)
      BY <1>5 DEF WorkEnds, PipelineStep, outcomeVars
    <2>5. UNCHANGED <<unwiped, unwritten, history, tick, latch>>
      BY <1>5 DEF WorkEnds, PipelineStep, outcomeVars
    <2> QED
      BY <1>1, <2>2, <2>3, <2>4, <2>5, PublishTestType DEF OutcomeTypeOK, testVars
  <1>6. CASE RegistryWork(t)
    <2>1. thread' = thread /\ audit' = audit /\ UNCHANGED outcomeVars
      BY <1>6 DEF RegistryWork, outcomeVars, pipelineVars
    <2>2. AuditPlaced'
      BY <1>1, <1>6, <2>1, RegistryWorkEffect, QuietPlaced DEF RegistryWork
    <2> QED
      BY <1>1, <2>1, <2>2 DEF OutcomeTypeOK, outcomeVars, testVars
  <1> QED
    BY <1>2, <1>3, <1>4, <1>5, <1>6, OutcomeStepPlaced DEF LifecycleStep

LEMMA StartTrainingPlaced ==
  ASSUME LifecycleSafe, NEW t \in Threads, NEW trigger \in Triggers, StartTraining(trigger, t)
  PROVE  /\ AuditPlaced'
         /\ UNCHANGED testVars /\ unwiped' \subseteq Files \cup {Pointer}
         /\ unwritten' \subseteq Files /\ audit' = audit /\ history' = history
  <1>1. OutcomeTypeOK /\ PipelineSafe
    BY DEF LifecycleSafe
  <1>2. StartTrain(trigger, t) /\ op' = op /\ audit' = audit
    BY DEF StartTraining, registryVars
  <1>3. AuditPlaced'
    BY <1>1, <1>2, OutcomeKept, QuietPlaced
  <1> QED
    BY <1>1, <1>3 DEF StartTraining, OutcomeTypeOK

(* The audit, the history and the scheduler keep their shape, and audits   *)
(* and registry calls stay in step.                                        *)
LEMMA NextPlaced ==
  ASSUME LifecycleSafe, [LifecycleNext]_lifecycleVars
  PROVE  AuditPlaced' /\ OutcomeTypeOK'
  <1>1. OutcomeTypeOK /\ Safe /\ PipelineSafe /\ AuditPlaced /\ NoRun \in AutoRuns
    BY NoAuditType DEF LifecycleSafe
  <1>2. CASE UNCHANGED lifecycleVars
    <2>1. op' = op /\ thread' = thread /\ audit' = audit /\ UNCHANGED outcomeVars
      BY <1>2 DEF lifecycleVars, outcomeVars, pipelineVars, registryVars
    <2> QED
      BY <1>1, <2>1, QuietPlaced DEF OutcomeTypeOK, outcomeVars, testVars
  <1>3. ASSUME NEW t \in Threads, ManualTrain(t) PROVE AuditPlaced' /\ OutcomeTypeOK'
    BY <1>1, <1>3, TriggersAssumption, StartTrainingPlaced DEF ManualTrain, OutcomeTypeOK, testVars
  <1>4. ASSUME NEW t \in Threads, StartInference(t) /\ UNCHANGED <<registryVars, outcomeVars>>
        PROVE  AuditPlaced' /\ OutcomeTypeOK'
    <2>1. op' = op /\ audit' = audit
      BY <1>4 DEF outcomeVars, registryVars
    <2>2. AuditPlaced'
      BY <1>1, <1>4, <2>1, OutcomeKept, QuietPlaced
    <2> QED
      BY <1>1, <1>4, <2>2 DEF OutcomeTypeOK, outcomeVars, testVars
  <1>5. ASSUME NEW trigger \in Triggers, NEW t \in Threads, TickStarts(trigger, t)
        PROVE  AuditPlaced' /\ OutcomeTypeOK'
    <2>1. tick' \in AutoRuns /\ latch' = latch /\ StartTraining(trigger, t)
      BY <1>5 DEF TickStarts, AutoRuns
    <2> QED
      BY <1>1, <2>1, StartTrainingPlaced DEF OutcomeTypeOK, testVars
  <1>6. CASE TickReleases
    <2>1. op' = op /\ thread' = thread /\ audit' = audit
      BY <1>6 DEF TickReleases, pipelineVars, registryVars
    <2>2. AuditPlaced'
      BY <2>1, QuietPlaced
    <2>3. history' \in Seq(Rows) /\ Len(history') <= HistoryMax
      <3>1. CASE run["train"].status = "failed"
        <4>1. latch.run \in Threads /\ latch.trigger \in Triggers
          BY <1>1, <1>6 DEF TickReleases, OutcomeTypeOK, AutoRuns
        <4>2. [run |-> latch.run, trigger |-> latch.trigger, status |-> "failed"] \in Rows
          BY <4>1 DEF Rows
        <4> QED
          BY <1>1, <1>6, <3>1, <4>2, RecordRunEffect DEF TickReleases
      <3>2. CASE run["train"].status # "failed"
        BY <1>1, <1>6, <3>2 DEF TickReleases, OutcomeTypeOK
      <3> QED
        BY <3>1, <3>2
    <2> QED
      BY <1>1, <1>6, <2>2, <2>3 DEF TickReleases, OutcomeTypeOK, testVars
  <1>7. CASE TickLatches
    <2>1. op' = op /\ thread' = thread /\ audit' = audit
      BY <1>7 DEF TickLatches, pipelineVars, registryVars
    <2> QED
      BY <1>1, <1>7, <2>1, QuietPlaced DEF TickLatches, OutcomeTypeOK, testVars
  <1>8. ASSUME (\E v \in VersionIds : OperatorRollsBack(v)) \/ OperatorStep
        PROVE  AuditPlaced' /\ OutcomeTypeOK'
    <2>1. thread' = thread /\ audit' = audit /\ UNCHANGED outcomeVars
      BY <1>8 DEF OperatorRollsBack, OperatorStep, outcomeVars, pipelineVars
    <2>2. Operator \in Clients /\ op[Operator].at \notin Recording
      BY <1>1, ActorsAreClients DEF AuditPlaced
    <2>3. op'[Operator].at \notin Recording /\ \A c \in Clients : c # Operator => op'[c] = op[c]
      <3>1. ASSUME NEW v \in VersionIds, OperatorRollsBack(v)
            PROVE  /\ op'[Operator].at \notin Recording
                   /\ \A c \in Clients : c # Operator => op'[c] = op[c]
        <4>1. CASE RestoreBegin(Operator, v, AnyVersion)
          BY <1>1, <2>2, <4>1, RestoreBeginEffect DEF Recording
        <4>2. CASE RestoreUnknown(Operator, v, AnyVersion)
          BY <1>1, <2>2, <4>2, ReturnedEffect DEF RestoreUnknown, Recording
        <4> QED
          BY <3>1, <4>1, <4>2 DEF OperatorRollsBack
      <3>2. ASSUME RestoreWork(Operator)
            PROVE  /\ op'[Operator].at \notin Recording
                   /\ \A c \in Clients : c # Operator => op'[c] = op[c]
        BY <1>1, <2>2, <3>2, RegistryWorkEffect
      <3>3. ASSUME RestoreEnd(Operator) \/ RestoreFails(Operator)
            PROVE  /\ op'[Operator].at \notin Recording
                   /\ \A c \in Clients : c # Operator => op'[c] = op[c]
        BY <1>1, <2>2, <3>3, ReturnedEffect DEF RestoreEnd, RestoreFails, Recording
      <3> QED
        BY <1>8, <3>1, <3>2, <3>3 DEF OperatorStep, RestoreStep
    <2>4. \A t \in Threads : op'[t] = op[t]
      BY <2>3, ActorsAreClients
    <2>5. AuditPlaced'
      BY <1>1, <2>1, <2>3, <2>4 DEF AuditPlaced
    <2> QED
      BY <1>1, <2>1, <2>5 DEF OutcomeTypeOK, outcomeVars, testVars
  <1>9. ASSUME NEW t \in Threads, NEW v \in VersionIds, NEW f \in Files, SweepFails(t, v, f)
        PROVE  AuditPlaced' /\ OutcomeTypeOK'
    <2>1. op' = op /\ thread' = thread /\ audit' = audit /\ UNCHANGED outcomeVars
      BY <1>9 DEF SweepFails, PruneHalf, outcomeVars, pipelineVars
    <2> QED
      BY <1>1, <2>1, QuietPlaced DEF OutcomeTypeOK, outcomeVars, testVars
  <1>10. CASE ShutDown
    <2>1. op' = op /\ thread' = thread /\ audit' = audit /\ UNCHANGED outcomeVars
      BY <1>10 DEF ShutDown, Shutdown, outcomeVars, registryVars
    <2> QED
      BY <1>1, <2>1, QuietPlaced DEF OutcomeTypeOK, outcomeVars, testVars
  <1>11. CASE Reboot
    <2>1. audit' = [t \in Threads |-> NoAudit] /\ op' = [c \in Clients |-> Returned("none")]
      BY <1>11 DEF Reboot, RegistryDies
    <2>2. \A c \in Clients : op'[c].at = "idle"
      BY <2>1, ReturnedType DEF Results
    <2>3. AuditPlaced'
      BY <2>1, <2>2, NoAuditType, ActorsAreClients DEF AuditPlaced, Recording, Restoring
    <2> QED
      BY <1>1, <1>11, <2>1, <2>3, NoAuditType DEF Reboot, OutcomeTypeOK, testVars
  <1>12. CASE ImportPredictions
    <2>1. op' = op /\ thread' = thread /\ audit' = audit
      BY <1>12 DEF ImportPredictions, pipelineVars, registryVars
    <2> QED
      BY <1>1, <1>12, <2>1, QuietPlaced DEF ImportPredictions, OutcomeTypeOK
  <1>13. CASE LifecycleNext
    BY <1>3, <1>4, <1>5, <1>6, <1>7, <1>8, <1>9, <1>10, <1>11, <1>12, <1>13, LifecycleStepPlaced
       DEF LifecycleNext
  <1> QED
    BY <1>2, <1>13

(* Nothing has started, nothing is recorded. *)
LEMMA LifecycleInitSafe == LifecycleInit => LifecycleSafe
  <1> SUFFICES ASSUME LifecycleInit PROVE LifecycleSafe
    OBVIOUS
  <1>1. PipelineSafe /\ ChainInv /\ Safe
    BY PipelineInitSafe, InitSafe DEF LifecycleInit
  <1>2. OutcomeTypeOK
    BY NoAuditType, LifecycleScoresAssumption, SettingsAssumption, MaxRunsAssumption
       DEF LifecycleInit, OutcomeTypeOK
  <1>3. \A c \in Clients : op[c].at = "idle"
    BY ReturnedType DEF LifecycleInit, RegistryInit, Results
  <1>4. AuditPlaced
    BY <1>3, NoAuditType, ActorsAreClients DEF LifecycleInit, AuditPlaced, Recording, Restoring
  <1> QED
    BY <1>1, <1>2, <1>4 DEF LifecycleSafe

(* The two parts keep their own invariants inside the whole.               *)
LEMMA LifecycleNextSafe == LifecycleSafe /\ [LifecycleNext]_lifecycleVars => LifecycleSafe'
  <1> SUFFICES ASSUME LifecycleSafe, [LifecycleNext]_lifecycleVars PROVE LifecycleSafe'
    OBVIOUS
  <1>1. [PipelineNext]_pipelineVars /\ [RegistryNext]_registryVars
    BY StepComposes
  <1>2. PipelineSafe' /\ ChainInv' /\ Safe'
    BY <1>1, PipelineNextSafe, ChainNext, NextSafe DEF LifecycleSafe
  <1> QED
    BY <1>2, NextPlaced DEF LifecycleSafe

LEMMA AlwaysLifecycleSafe == LifecycleSpec => []LifecycleSafe
  BY LifecycleInitSafe, LifecycleNextSafe, PTL DEF LifecycleSpec

(* The composition keeps its shape, the audits and the history included.   *)
THEOREM LifecycleTypeCorrect == LifecycleSpec => []LifecycleTypeOK
  <1>1. LifecycleSafe => LifecycleTypeOK
    BY DEF LifecycleSafe, PipelineSafe, Safe, OutcomeTypeOK, LifecycleTypeOK
  <1> QED
    BY <1>1, AlwaysLifecycleSafe, PTL

(* Inside the lifecycle the pipeline does nothing it does not do alone:    *)
(* what is proved of PipelineService is true here.                         *)
THEOREM LifecycleComposesPipeline == LifecycleSpec => ComposesPipeline
  <1>1. LifecycleInit => PipelineInit
    BY DEF LifecycleInit
  <1>2. LifecycleSafe /\ [LifecycleNext]_lifecycleVars => [PipelineNext]_pipelineVars
    BY StepComposes
  <1> QED
    BY <1>1, <1>2, AlwaysLifecycleSafe, PTL DEF LifecycleSpec, ComposesPipeline, PipelineSpec

(* And so for the registry, whose callers are the audits and the operator. *)
THEOREM LifecycleComposesRegistry == LifecycleSpec => ComposesRegistry
  <1>1. LifecycleInit => RegistryInit
    BY DEF LifecycleInit
  <1>2. LifecycleSafe /\ [LifecycleNext]_lifecycleVars => [RegistryNext]_registryVars
    BY StepComposes
  <1> QED
    BY <1>1, <1>2, AlwaysLifecycleSafe, PTL DEF LifecycleSpec, ComposesRegistry, RegistrySpec

(* What was proved of the two parts on their own holds of the lifecycle,   *)
(* whatever audits, ticks, rollbacks and trainings do to each other.       *)
(* First: seen as a store of versions, it implements the abstract one      *)
(* (model_registry.py under retrain_scheduler.py).                         *)
THEOREM LifecycleImplementsStore == LifecycleSpec => ImplementsVersionStore
  BY LifecycleComposesRegistry, RegistryImplementsStore, PTL DEF ComposesRegistry

(* The version in force and the one being restored survive every sweep,    *)
(* versions/ stays bounded, what is published does not change, and a       *)
(* conditional rollback moves only the pointer that it was decided         *)
(* against (_prune_versions, rollback_if_current).                         *)
THEOREM LifecycleKeepsVersions ==
  LifecycleSpec => /\ [](CurrentIsRetained /\ TargetIsRetained /\ RetentionBound)
                   /\ ConditionalRollback /\ SnapshotsImmutable
  BY LifecycleComposesRegistry, PointerNeverDangles, TargetNeverPruned, RetentionIsBounded,
     RollbackIsConditional, PublishedIsImmutable, PTL DEF ComposesRegistry

(* Inside the forecast service too the registry lock is held exactly by a  *)
(* thread or an operator in the middle of a call: none leaks it, and a     *)
(* failed audit never keeps the next one out (_REGISTRY_LOCK).             *)
THEOREM LifecycleLockIsHeldByCall ==
  LifecycleSpec => [](\A c \in Clients : lock = c <=> op[c].at # "idle")
  BY LifecycleComposesRegistry, LockIsHeldByCall, PTL DEF ComposesRegistry

(* One run of a pipeline at a time, the shared record is about it, and no  *)
(* reconciliation is cascaded without a training (pipeline_service.py).    *)
THEOREM LifecycleKeepsRuns ==
  LifecycleSpec => [](SingleFlight /\ RecordIsOwn /\ ReconcileFollowsTraining)
  BY LifecycleComposesPipeline, OneRunAtATime, RecordBelongsToRun, CascadeHasTraining, PTL
     DEF ComposesPipeline
-----------------------------------------------------------------------------
(* A training gets its success row when it leaves the audit hook, and it   *)
(* leaves the hook once.                                                   *)
RowsInv ==
    \A t \in Threads :
        /\ SuccessRows(t) # {} => thread[t].at \in Ended
        /\ \A i, j \in SuccessRows(t) : i = j

(* What one more row does to the success rows of a training: they move by  *)
(* one place, or out.                                                      *)
LEMMA RowsShift ==
  ASSUME OutcomeTypeOK, NEW row \in Rows, RecordRun(row), NEW t \in Threads
  PROVE  /\ \A i \in SuccessRows(t)' :
               (i = 1 /\ row.run = t /\ row.status = "success")
               \/ (i - 1 \in SuccessRows(t) /\ history'[i] = history[i - 1])
         /\ row.run = t /\ row.status = "success" => 1 \in SuccessRows(t)' /\ history'[1] = row
         /\ \A i \in SuccessRows(t) : i + 1 \in SuccessRows(t)' \/ Len(history') = HistoryMax
         /\ Len(history) = HistoryMax => Len(history') = HistoryMax
  <1>1. Len(history) \in Nat /\ Len(history) <= HistoryMax /\ HistoryMax \in Nat /\ HistoryMax >= 2
    BY SettingsAssumption DEF OutcomeTypeOK
  <1>2. /\ Len(history') = IF Len(history) < HistoryMax THEN Len(history) + 1 ELSE HistoryMax
        /\ history'[1] = row
        /\ \A i \in 2 .. Len(history') : history'[i] = history[i - 1]
    BY RecordRunEffect
  <1>3. ASSUME NEW i \in SuccessRows(t)'
        PROVE  (i = 1 /\ row.run = t /\ row.status = "success")
               \/ (i - 1 \in SuccessRows(t) /\ history'[i] = history[i - 1])
    <2>1. i \in 1 .. Len(history') /\ history'[i].run = t /\ history'[i].status = "success"
      BY <1>3 DEF SuccessRows
    <2>2. CASE i = 1
      BY <1>2, <2>1, <2>2
    <2>3. CASE i # 1
      <3>1. i \in 2 .. Len(history') /\ i - 1 \in 1 .. Len(history)
        BY <1>1, <1>2, <2>1, <2>3
      <3> QED
        BY <1>2, <2>1, <3>1 DEF SuccessRows
    <2> QED
      BY <2>2, <2>3
  <1>4. row.run = t /\ row.status = "success" => 1 \in SuccessRows(t)'
    BY <1>1, <1>2 DEF SuccessRows
  <1>5. ASSUME NEW i \in SuccessRows(t), Len(history') # HistoryMax
        PROVE  i + 1 \in SuccessRows(t)'
    <2>1. i \in 1 .. Len(history) /\ history[i].run = t /\ history[i].status = "success"
      BY DEF SuccessRows
    <2>2. i + 1 \in 2 .. Len(history') /\ (i + 1) - 1 = i
      BY <1>1, <1>2, <1>5, <2>1
    <2>3. history'[i + 1] = history[i]
      BY <1>2, <2>2
    <2>4. i + 1 \in 1 .. Len(history')
      BY <2>2
    <2> QED
      BY <2>1, <2>3, <2>4 DEF SuccessRows
  <1> QED
    BY <1>1, <1>2, <1>3, <1>4, <1>5

(* The steps that write to the history.                                    *)
LEMMA HistoryMoves ==
  ASSUME LifecycleSafe, [LifecycleNext]_lifecycleVars
  PROVE  \/ history' = history
         \/ \E t \in Threads : WriteRow(t)
         \/ TickReleases /\ UNCHANGED <<pipelineVars, audit>>
               /\ \E row \in Rows : RecordRun(row) /\ row.status = "failed"
  <1>1. CASE TickReleases
    <2>1. CASE run["train"].status = "failed"
      <3>1. latch.run \in Threads /\ latch.trigger \in Triggers
        BY <1>1 DEF TickReleases, LifecycleSafe, OutcomeTypeOK, AutoRuns
      <3> DEFINE row == [run |-> latch.run, trigger |-> latch.trigger, status |-> "failed"]
      <3>2. row \in Rows /\ row.status = "failed"
        BY <3>1 DEF Rows
      <3>3. RecordRun(row)
        BY <1>1, <2>1 DEF TickReleases
      <3> HIDE DEF row
      <3>4. UNCHANGED <<pipelineVars, audit>>
        BY <1>1 DEF TickReleases
      <3> QED
        BY <1>1, <3>2, <3>3, <3>4
    <2>2. CASE run["train"].status # "failed"
      BY <1>1, <2>2 DEF TickReleases
    <2> QED
      BY <2>1, <2>2
  <1>2. ASSUME NEW t \in Threads, LifecycleStep(t) PROVE history' = history \/ WriteRow(t)
    <2>1. OutcomeStep(t) => history' = history \/ WriteRow(t)
      BY DEF OutcomeStep, ReadRecord, NotSuccess, IsSuccess, Probe, Judge, Record, RecordReturns,
             RestoreChampion, RestoreReturns, RegistryRaises
    <2> QED
      BY <1>2, <2>1 DEF LifecycleStep, WipeArtifact, WipeCopy, WriteModel, WorkEnds,
           PipelineStep, RegistryWork, outcomeVars
  <1>3. UNCHANGED lifecycleVars \/ TickLatches \/ ImportPredictions \/ OperatorStep \/ ShutDown
        \/ Reboot => history' = history
    BY DEF lifecycleVars, TickLatches, ImportPredictions, OperatorStep, ShutDown, Reboot, outcomeVars
  <1>4. ASSUME NEW t \in Threads,
               ManualTrain(t) \/ (\E trigger \in Triggers : TickStarts(trigger, t))
               \/ (StartInference(t) /\ UNCHANGED <<registryVars, outcomeVars>>)
               \/ (\E v \in VersionIds, f \in Files : SweepFails(t, v, f))
        PROVE  history' = history
    BY <1>4 DEF ManualTrain, TickStarts, StartTraining, SweepFails, outcomeVars
  <1>5. ASSUME NEW v \in VersionIds, OperatorRollsBack(v) PROVE history' = history
    BY <1>5 DEF OperatorRollsBack, outcomeVars
  <1> QED
    BY <1>1, <1>2, <1>3, <1>4, <1>5 DEF LifecycleNext

LEMMA RowsNext ==
  ASSUME LifecycleSafe, RowsInv, [LifecycleNext]_lifecycleVars
  PROVE  RowsInv'
  <1>1. \A t \in Threads : Moves(t)
    BY StepComposes, ThreadMoves DEF LifecycleSafe
  <1>2. OutcomeTypeOK /\ AuditPlaced /\ thread \in [Threads -> ThreadRecords]
        /\ audit \in [Threads -> Audits]
    BY DEF LifecycleSafe, OutcomeTypeOK, PipelineSafe, PipelineTypeOK
  <1>3. CASE history' = history
    BY <1>1, <1>3 DEF RowsInv, SuccessRows, Moves
  <1>4. ASSUME NEW t \in Threads, WriteRow(t) PROVE RowsInv'
    <2> DEFINE row == [run |-> t, trigger |-> audit[t].trigger, status |-> "success"]
    <2>1. row \in Rows /\ row.run = t
      BY <1>2 DEF Rows, Audits
    <2>2. RecordRun(row)
      BY <1>4 DEF WriteRow
    <2> HIDE DEF row
    <2>3. thread[t].at = "outcome" /\ thread'[t].at = "chain"
      BY <1>2, <1>4 DEF WriteRow, Outcome, Goto
    <2>4. SuccessRows(t) = {}
      BY <2>3 DEF RowsInv, Ended
    <2> SUFFICES ASSUME NEW u \in Threads
                 PROVE  /\ SuccessRows(u)' # {} => thread'[u].at \in Ended
                        /\ \A i, j \in SuccessRows(u)' : i = j
      BY DEF RowsInv
    <2>5. CASE u = t
      <3>1. \A i \in SuccessRows(u)' : i = 1
        BY <1>2, <2>1, <2>2, <2>4, <2>5, RowsShift
      <3> QED
        BY <2>3, <2>5, <3>1 DEF Ended
    <2>6. CASE u # t
      <3>1. \A i \in SuccessRows(u)' : i - 1 \in SuccessRows(u)
        BY <1>2, <2>1, <2>2, <2>6, RowsShift
      <3>2. \A i \in SuccessRows(u)' : i \in Nat
        BY DEF SuccessRows
      <3> QED
        BY <1>1, <3>1, <3>2 DEF RowsInv, Moves
    <2> QED
      BY <2>5, <2>6
  <1>5. ASSUME NEW row \in Rows, RecordRun(row), row.status = "failed" PROVE RowsInv'
    <2> SUFFICES ASSUME NEW u \in Threads
                 PROVE  /\ SuccessRows(u)' # {} => thread'[u].at \in Ended
                        /\ \A i, j \in SuccessRows(u)' : i = j
      BY DEF RowsInv
    <2>1. \A i \in SuccessRows(u)' : i - 1 \in SuccessRows(u)
      BY <1>2, <1>5, RowsShift
    <2>2. \A i \in SuccessRows(u)' : i \in Nat
      BY DEF SuccessRows
    <2> QED
      BY <1>1, <2>1, <2>2 DEF RowsInv, Moves
  <1> QED
    BY <1>3, <1>4, <1>5, HistoryMoves

LEMMA AlwaysRows == LifecycleSpec => [](LifecycleSafe /\ RowsInv)
  <1>1. LifecycleInit => RowsInv
    BY DEF LifecycleInit, RowsInv, SuccessRows
  <1> QED
    BY <1>1, LifecycleInitSafe, LifecycleNextSafe, RowsNext, PTL DEF LifecycleSpec

(* However trainings, audits and ticks interleave, a training is written   *)
(* up as a success at most once, and a failed one never.                   *)
THEOREM TrainingsAuditedOnce == LifecycleSpec => []AuditedOnce
  <1>1. ASSUME RowsInv PROVE AuditedOnce
    <2> SUFFICES ASSUME NEW t \in Threads
                 PROVE  /\ Cardinality(SuccessRows(t)) <= 1
                        /\ thread[t].at = "failed" => SuccessRows(t) = {}
      BY DEF AuditedOnce
    <2>1. CASE SuccessRows(t) = {}
      BY <2>1, FS_EmptySet
    <2>2. CASE SuccessRows(t) # {}
      <3>1. PICK i : i \in SuccessRows(t)
        BY <2>2
      <3>2. SuccessRows(t) = {i}
        BY <1>1, <3>1 DEF RowsInv
      <3>3. Cardinality({i}) = 1
        BY FS_Singleton
      <3>4. thread[t].at # "failed"
        BY <1>1, <2>2 DEF RowsInv, Ended
      <3>5. Cardinality(SuccessRows(t)) = 1
        BY <3>2, <3>3
      <3> QED
        BY <3>4, <3>5
    <2> QED
      BY <2>1, <2>2
  <1> QED
    BY <1>1, AlwaysRows, PTL
-----------------------------------------------------------------------------
(* An audit advances by its own steps, or ends with the process.           *)
LEMMA Bystander ==
  ASSUME LifecycleSafe, [LifecycleNext]_lifecycleVars, NEW t \in Threads
  PROVE  \/ OutcomeStep(t) \/ Reboot
         \/ audit'[t] = audit[t] /\ (thread[t].at = "outcome" => thread'[t] = thread[t])
  <1> DEFINE Kept == audit'[t] = audit[t] /\ (thread[t].at = "outcome" => thread'[t] = thread[t])
  <1>1. /\ PipelineSafe /\ audit \in [Threads -> Audits] /\ thread \in [Threads -> ThreadRecords]
    BY DEF LifecycleSafe, OutcomeTypeOK, PipelineSafe, PipelineTypeOK
  <1>2. ASSUME NEW u \in Threads, OutcomeStep(u), u # t PROVE Kept
    <2>1. /\ audit' = [audit EXCEPT ![u] = audit'[u]] \/ audit'[t] = audit[t]
          /\ thread' = thread \/ Outcome(u)
      BY <1>1, <1>2
         DEF OutcomeStep, ReadRecord, NotSuccess, IsSuccess, Probe, Judge, Record, RecordReturns,
             RestoreChampion, RestoreReturns, RegistryRaises, WriteRow, AuditGoto, pipelineVars
    <2> QED
      BY <1>1, <1>2, <2>1 DEF Outcome, Goto
  <1>3. ASSUME UNCHANGED pipelineVars \/ Shutdown
               \/ \E u \in Threads :
                     StartInference(u) \/ (\E trigger \in Triggers : StartTrain(trigger, u))
                     \/ WorkDone(u) \/ Advance(u),
               audit' = audit
        PROVE  Kept
    BY <1>1, <1>3, OutcomeKept DEF pipelineVars, Shutdown
  <1>4. ASSUME NEW u \in Threads, LifecycleStep(u), ~OutcomeStep(u) PROVE Kept
    <2>1. ASSUME NEW p \in unwiped, WipeArtifact(u, p) PROVE Kept
      BY <1>3, <2>1 DEF WipeArtifact
    <2>2. ASSUME NEW c \in Clients, NEW f \in Files, WipeCopy(u, c, f) PROVE Kept
      BY <1>3, <2>2 DEF WipeCopy, outcomeVars
    <2>3. ASSUME NEW f \in Files, WriteModel(u, f) PROVE Kept
      BY <1>3, <2>3 DEF WriteModel
    <2>4. ASSUME WorkEnds(u) \/ PipelineStep(u) \/ RegistryWork(u) PROVE Kept
      BY <1>3, <2>4 DEF WorkEnds, PipelineStep, RegistryWork, outcomeVars
    <2> QED
      BY <1>4, <2>1, <2>2, <2>3, <2>4 DEF LifecycleStep
  <1>5. ASSUME NEW u \in Threads,
               ManualTrain(u) \/ (\E trigger \in Triggers : TickStarts(trigger, u))
               \/ (StartInference(u) /\ UNCHANGED <<registryVars, outcomeVars>>)
               \/ (\E v \in VersionIds, f \in Files : SweepFails(u, v, f))
        PROVE  Kept
    BY <1>3, <1>5, TriggersAssumption
       DEF ManualTrain, TickStarts, StartTraining, SweepFails, outcomeVars
  <1>6. ASSUME TickReleases \/ TickLatches \/ ImportPredictions \/ OperatorStep \/ ShutDown
               \/ (\E v \in VersionIds : OperatorRollsBack(v)) \/ UNCHANGED lifecycleVars
        PROVE  Kept
    BY <1>3, <1>6 DEF TickReleases, TickLatches, ImportPredictions, OperatorStep, ShutDown,
                      OperatorRollsBack, outcomeVars, lifecycleVars
  <1> HIDE DEF Kept
  <1>7. OutcomeStep(t) \/ Reboot \/ Kept
    BY <1>2, <1>4, <1>5, <1>6 DEF LifecycleNext
  <1> QED
    BY <1>7 DEF Kept
-----------------------------------------------------------------------------
(* When a training starts only after the last one has been recorded, the   *)
(* shared run record is still about the training whose audit reads it.     *)
Audited(t) ==
    \/ \E i \in SuccessRows(t) : /\ history[i].trigger = thread[t].trigger
                                 /\ SuccessRows(t) = {i}
    \/ SuccessRows(t) = {} /\ Len(history) = HistoryMax

OwnRecord(t) ==
    /\ Training(t) => run["train"].trigger = thread[t].trigger
    /\ Training(t) /\ ~InFlight(t) => run["train"].status = "success"
    /\ audit[t].at # "none" => audit[t].trigger = thread[t].trigger
    /\ thread[t].pipe = "train" /\ thread[t].at \in {"chain", "spawn", "done"}
          /\ ~thread[t].skipped => Audited(t)

SerialInv ==
    "trainings" \notin Overlap =>
        /\ \A t, u \in Threads : Training(t) /\ Training(u) => t = u
        /\ \A t \in Threads : OwnRecord(t)

(* What a step of the pipeline does to the record of the trainings.        *)
LEMMA TrainRecordMoves ==
  ASSUME PipelineSafe, ChainInv, [PipelineNext]_pipelineVars, ~Restart,
         \A t \in Threads, trigger \in Triggers : ~StartTrain(trigger, t)
  PROVE  /\ run'["train"].trigger = run["train"].trigger
         /\ \A t \in Threads : Training(t)' => Training(t)
         /\ \A t \in Threads : Training(t)' /\ ~InFlight(t)' =>
               \/ run'["train"].status = "success"
               \/ ~InFlight(t) /\ run'["train"].status = run["train"].status
               \/ \E u \in Threads \ {t} : Training(u)
  <1>1. /\ thread \in [Threads -> ThreadRecords] /\ run \in [Pipelines -> Runs]
        /\ "train" \in Pipelines
    BY DEF PipelineSafe, PipelineTypeOK, Pipelines
  <1> DEFINE Effect == /\ run'["train"].trigger = run["train"].trigger
                       /\ \A t \in Threads : Training(t)' => Training(t)
                       /\ \A t \in Threads : Training(t)' /\ ~InFlight(t)' =>
                             \/ run'["train"].status = "success"
                             \/ ~InFlight(t) /\ run'["train"].status = run["train"].status
                             \/ \E u \in Threads \ {t} : Training(u)
  <1>2. ASSUME UNCHANGED pipelineVars \/ Shutdown PROVE Effect
    BY <1>2 DEF pipelineVars, Shutdown, Training, Alive, InFlight
  <1>3. ASSUME NEW u \in Threads, NEW place \in Places, Goto(u, place), run' = run,
               thread[u].at \notin {"unused", "done", "failed", "dead"},
               place \in {"work", "checkpoint", "publish", "finish"}
               \/ thread[u].at \notin {"work", "checkpoint", "publish", "finish"}
        PROVE  Effect
    <2>1. /\ thread'[u].at = place /\ thread'[u].pipe = thread[u].pipe
          /\ \A w \in Threads : w # u => thread'[w] = thread[w]
      BY <1>3, GotoEffect DEF PipelineSafe
    <2> QED
      BY <1>3, <2>1 DEF Training, Alive, InFlight
  <1>4. ASSUME NEW u \in Threads,
               WorkDone(u) \/ Publish(u) \/ Outcome(u) \/ Hook(u)
               \/ Reconcile(u) \/ ChainRefused(u)
               \/ (\E autoInference \in BOOLEAN : ChainCheck(u, autoInference))
        PROVE  Effect
    <2> HIDE DEF Effect
    <2> QED
      BY <1>3, <1>4 DEF WorkDone, Publish, Outcome, Hook, Reconcile, ChainRefused, ChainCheck, Places
  <1>5. ASSUME NEW u \in Threads, Checkpoint(u) PROVE Effect
    <2> DEFINE stop == cancel[thread[u].pipe]
               place == IF stop THEN "finish" ELSE "publish"
               o == [[thread[u] EXCEPT !.at = place] EXCEPT !.skipped = stop]
    <2>1. thread[u] \in ThreadRecords /\ place \in {"finish", "publish"}
      BY <1>1
    <2>2. thread' = [thread EXCEPT ![u] = o] /\ thread[u].at = "checkpoint" /\ run' = run
      BY <1>5, <2>1 DEF Checkpoint, ThreadRecords
    <2> HIDE DEF place, stop
    <2>3. o.at = place /\ o.pipe = thread[u].pipe
      BY <2>1 DEF ThreadRecords
    <2> HIDE DEF o
    <2>4. thread'[u] = o /\ \A w \in Threads \ {u} : thread'[w] = thread[w]
      BY <1>1, <2>2
    <2> QED
      BY <2>1, <2>2, <2>3, <2>4 DEF Training, Alive, InFlight
  <1>6. ASSUME NEW u \in Threads, NEW place \in Places, Goto(u, place), InFlight(u),
               NEW status \in {"success", "failed"},
               status = "success" \/ place = "failed",
               run' = [run EXCEPT ![thread[u].pipe].status = status]
        PROVE  Effect
    <2>1. /\ thread'[u].at = place /\ thread'[u].pipe = thread[u].pipe
          /\ \A w \in Threads : w # u => thread'[w] = thread[w]
      BY <1>6, GotoEffect DEF PipelineSafe
    <2>2. thread[u].pipe \in Pipelines /\ Alive(u)
      BY <1>1, <1>6 DEF ThreadRecords, Alive, InFlight
    <2>3. \A w \in Threads : Training(w)' => Training(w)
      BY <2>1, <2>2 DEF Training, Alive
    <2>4. CASE thread[u].pipe = "train"
      <3>1. run'["train"] = [run["train"] EXCEPT !.status = status] /\ run["train"] \in Runs
        BY <1>1, <1>6, <2>4
      <3>2. run'["train"].status = status /\ run'["train"].trigger = run["train"].trigger
        BY <3>1 DEF Runs
      <3>3. Training(u)
        BY <2>2, <2>4 DEF Training
      <3>4. place = "failed" => ~Training(u)'
        BY <2>1 DEF Training, Alive
      <3> QED
        BY <1>6, <2>3, <3>2, <3>3, <3>4
    <2>5. CASE thread[u].pipe # "train"
      <3>1. run'["train"] = run["train"]
        BY <1>1, <1>6, <2>5
      <3>2. ~Training(u)' /\ \A w \in Threads : w # u => (InFlight(w)' <=> InFlight(w))
        BY <2>1, <2>5 DEF Training, InFlight
      <3> QED
        BY <2>3, <3>1, <3>2
    <2> QED
      BY <2>4, <2>5
  <1>7. ASSUME NEW u \in Threads, WorkFails(u) PROVE Effect
    <2>1. "failed" \in Places /\ InFlight(u)
      BY <1>7 DEF WorkFails, InFlight, Places
    <2> HIDE DEF Effect
    <2> QED
      BY <1>6, <1>7, <2>1 DEF WorkFails
  <1>8. ASSUME NEW u \in Threads, Finish(u) PROVE Effect
    <2>1. AfterFinish(u) \in Places /\ InFlight(u)
      BY <1>8 DEF Finish, InFlight, Places, AfterFinish
    <2> HIDE DEF Effect
    <2> QED
      BY <1>6, <1>8, <2>1 DEF Finish
  <1>9. ASSUME NEW u \in Threads, NEW w \in Threads, ChainStart(u, w) PROVE Effect
    <2> DEFINE o == Spawned(w, "inference", "manual", TRUE)
               d == [thread[u] EXCEPT !.at = "done"]
    <2>1. u # w /\ thread[u].at = "spawn" /\ thread[w].at = "unused" /\ thread[u] \in ThreadRecords
      BY <1>1, <1>9 DEF ChainStart, Fresh
    <2>2. thread' = [[thread EXCEPT ![u] = d] EXCEPT ![w] = o]
      BY <1>1, <1>9, <2>1 DEF ChainStart
    <2>3. o.at = "work" /\ o.pipe = "inference" /\ d.at = "done"
      BY <2>1 DEF Spawned, ThreadRecords
    <2> HIDE DEF o, d
    <2>4. thread'[w] = o /\ thread'[u] = d
          /\ \A x \in Threads \ {u, w} : thread'[x] = thread[x]
      BY <1>1, <2>1, <2>2
    <2>5. run'["train"] = run["train"]
      BY <1>1, <1>9 DEF ChainStart, Admitted
    <2> QED
      BY <2>3, <2>4, <2>5 DEF Training, Alive, InFlight
  <1>10. ASSUME NEW u \in Threads, StartInference(u) PROVE Effect
    <2>1. /\ thread[u].at = "unused" /\ thread'[u].pipe = "inference"
          /\ \A w \in Threads \ {u} : thread'[w] = thread[w]
      BY <1>1, <1>10 DEF StartInference, Start, Spawned, Fresh
    <2>2. run'["train"] = run["train"]
      BY <1>1, <1>10 DEF StartInference, Start, Admitted
    <2> QED
      BY <2>1, <2>2 DEF Training, Alive, InFlight
  <1> HIDE DEF Effect
  <1>11. ASSUME NEW u \in Threads, ThreadStep(u) PROVE Effect
    BY <1>4, <1>5, <1>7, <1>8, <1>9, <1>11 DEF ThreadStep, Advance
  <1>12. Effect
    BY <1>2, <1>10, <1>11 DEF PipelineNext
  <1> QED
    BY <1>12 DEF Effect

(* The rows of a training that has its own stay as good as they were.      *)
LEMMA AuditedKept ==
  ASSUME LifecycleSafe, RowsInv, [LifecycleNext]_lifecycleVars, NEW t \in Threads,
         Audited(t), ~WriteRow(t), thread'[t].trigger = thread[t].trigger
  PROVE  Audited(t)'
  <1>1. OutcomeTypeOK
    BY DEF LifecycleSafe
  <1>2. CASE history' = history
    BY <1>2 DEF Audited, SuccessRows
  <1>3. ASSUME NEW row \in Rows, RecordRun(row), row.run # t \/ row.status = "failed"
        PROVE  Audited(t)'
    <2>1. /\ \A i \in SuccessRows(t)' : i - 1 \in SuccessRows(t) /\ history'[i] = history[i - 1]
          /\ \A i \in SuccessRows(t) : i + 1 \in SuccessRows(t)' \/ Len(history') = HistoryMax
          /\ Len(history) = HistoryMax => Len(history') = HistoryMax
      BY <1>1, <1>3, RowsShift
    <2>2. \A i \in SuccessRows(t) \cup SuccessRows(t)' : i \in Int
      BY DEF SuccessRows
    <2>3. CASE SuccessRows(t) = {}
      BY <2>1, <2>3 DEF Audited
    <2>4. CASE SuccessRows(t) # {}
      <3>1. PICK i \in SuccessRows(t) : history[i].trigger = thread[t].trigger /\ SuccessRows(t) = {i}
        BY <2>4 DEF Audited
      <3>2. CASE SuccessRows(t)' = {}
        BY <2>1, <3>1, <3>2 DEF Audited
      <3>3. CASE SuccessRows(t)' # {}
        <4>1. PICK j \in SuccessRows(t)' : TRUE
          BY <3>3
        <4>2. \A k \in SuccessRows(t)' : k - 1 = i /\ history'[k] = history[i]
          BY <2>1, <3>1
        <4>3. \A k \in SuccessRows(t)' : k = j
          BY <2>2, <4>1, <4>2
        <4>4. SuccessRows(t)' = {j}
          BY <4>1, <4>3
        <4>5. history'[j].trigger = thread'[t].trigger
          BY <3>1, <4>1, <4>2
        <4> QED
          BY <4>1, <4>4, <4>5 DEF Audited
      <3> QED
        BY <3>2, <3>3
    <2> QED
      BY <2>3, <2>4
  <1>4. ASSUME NEW u \in Threads, WriteRow(u) PROVE Audited(t)'
    <2> DEFINE row == [run |-> u, trigger |-> audit[u].trigger, status |-> "success"]
    <2>1. audit[u].trigger \in Triggers
      BY <1>1 DEF OutcomeTypeOK, Audits
    <2>2. row \in Rows /\ row.run = u
      BY <2>1 DEF Rows
    <2>3. RecordRun(row)
      BY <1>4 DEF WriteRow
    <2> HIDE DEF row
    <2>4. u # t
      BY <1>4
    <2> QED
      BY <1>3, <2>2, <2>3, <2>4
  <1> QED
    BY <1>2, <1>3, <1>4, HistoryMoves

(* A training is started by the lifecycle's own step, which waits when it  *)
(* has to.                                                                 *)
LEMMA TrainingsStart ==
  ASSUME LifecycleSafe, [LifecycleNext]_lifecycleVars,
         NEW t \in Threads, NEW trigger \in Triggers, StartTrain(trigger, t)
  PROVE  \E u \in Threads, g \in Triggers : StartTraining(g, u)
  <1>1. thread \in [Threads -> ThreadRecords]
    BY DEF LifecycleSafe, PipelineSafe, PipelineTypeOK
  <1>2. thread'[t] # thread[t] /\ thread[t].at = "unused" /\ thread'[t].pipe = "train"
        /\ thread'[t].at = "work"
    BY <1>1 DEF StartTrain, Start, Spawned, Fresh
  <1>3. ASSUME NEW u \in Threads, LifecycleStep(u) PROVE FALSE
    <2>1. UNCHANGED thread \/ WorkDone(u) \/ Advance(u) \/ Outcome(u)
      BY <1>3 DEF LifecycleStep, WipeArtifact, WipeCopy, WriteModel, WorkEnds, PipelineStep,
         RegistryWork, OutcomeStep, ReadRecord, NotSuccess, IsSuccess, Probe, Judge, Record,
         RecordReturns, RestoreChampion, RestoreReturns, RegistryRaises, WriteRow,
         pipelineVars
    <2>2. ASSUME NEW w \in Threads, ChainStart(u, w) PROVE FALSE
      <3>1. u # w /\ u # t
        BY <1>1, <1>2, <2>2 DEF ChainStart, Fresh
      <3>2. thread' = [[thread EXCEPT ![u] = [thread[u] EXCEPT !.at = "done"]]
                         EXCEPT ![w] = Spawned(w, "inference", "manual", TRUE)]
        BY <1>1, <2>2, <3>1 DEF ChainStart
      <3>3. thread'[t] = thread[t] \/ thread'[t] = Spawned(w, "inference", "manual", TRUE)
        BY <1>1, <3>1, <3>2
      <3> QED
        BY <1>2, <3>3 DEF Spawned
    <2>3. thread[u].at # "unused" /\ \A w \in Threads : w # u => thread'[w] = thread[w]
      BY <1>1, <1>2, <2>1, <2>2
         DEF WorkDone, Advance, Outcome, WorkFails, Checkpoint, Publish, Finish, Hook,
             Reconcile, ChainCheck, ChainRefused, Goto
    <2> QED
      BY <1>2, <2>3
  <1>4. ASSUME NEW u \in Threads, StartInference(u) PROVE FALSE
    BY <1>1, <1>2, <1>4 DEF StartInference, Start, Spawned
  <1>5. ~Reboot
    BY <1>1, <1>2 DEF Reboot, Restart, Alive
  <1>6. thread' # thread
    BY <1>2
  <1> QED
    BY <1>3, <1>4, <1>5, <1>6, TriggersAssumption
       DEF LifecycleNext, ManualTrain, TickStarts, TickReleases, TickLatches, ImportPredictions,
           OperatorRollsBack, OperatorStep, SweepFails, ShutDown, Shutdown,
           lifecycleVars, pipelineVars

LEMMA SerialNext ==
  ASSUME LifecycleSafe, RowsInv, SerialInv, [LifecycleNext]_lifecycleVars
  PROVE  SerialInv'
  <1> SUFFICES ASSUME "trainings" \notin Overlap
               PROVE  /\ \A t, u \in Threads : Training(t)' /\ Training(u)' => t = u
                      /\ \A t \in Threads : OwnRecord(t)'
    BY DEF SerialInv
  <1>1. /\ PipelineSafe /\ ChainInv /\ OutcomeTypeOK /\ AuditPlaced
        /\ thread \in [Threads -> ThreadRecords] /\ run \in [Pipelines -> Runs]
        /\ audit \in [Threads -> Audits] /\ "train" \in Pipelines
    BY DEF LifecycleSafe, OutcomeTypeOK, PipelineSafe, PipelineTypeOK, Pipelines
  <1>2. /\ \A t, u \in Threads : Training(t) /\ Training(u) => t = u
        /\ \A t \in Threads : OwnRecord(t)
    BY DEF SerialInv
  <1>3. /\ [PipelineNext]_pipelineVars
        /\ \A t \in Threads : Moves(t)
    BY StepComposes, ThreadMoves DEF LifecycleSafe
  <1>4. \A t \in Threads : thread[t].at = "outcome" => Training(t) /\ ~InFlight(t)
    BY <1>1 DEF ChainInv, Training, Alive, InFlight
  <1>5. \A t \in Threads : audit[t].at # "none" => thread[t].at = "outcome"
    BY <1>1 DEF AuditPlaced
  (* A training that goes on to its end has been recorded on its way. *)
  <1>6. ASSUME NEW t \in Threads, thread'[t].pipe = "train",
               thread'[t].at \in {"chain", "spawn", "done"}, ~thread'[t].skipped
        PROVE  Audited(t)'
    <2>1. /\ thread[t].pipe = "train" /\ ~thread[t].skipped
          /\ thread[t].at \in {"outcome", "chain", "spawn", "done"}
          /\ thread'[t].trigger = thread[t].trigger
      BY <1>3, <1>6 DEF Moves
    <2>2. CASE thread[t].at # "outcome"
      <3>1. Audited(t)
        BY <1>2, <2>1, <2>2 DEF OwnRecord
      <3>2. ~WriteRow(t)
        BY <2>2 DEF WriteRow, Outcome
      <3> QED
        BY <2>1, <3>1, <3>2, AuditedKept
    <2>3. CASE thread[t].at = "outcome"
      <3>1. thread'[t] # thread[t]
        BY <1>6, <2>3
      <3>2. ~Reboot
        BY <1>1, <1>6, <2>3 DEF Reboot, Restart, Alive, ThreadRecords
      <3>3. OutcomeStep(t)
        BY <2>3, <3>1, <3>2, Bystander
      <3>4. ~NotSuccess(t)
        BY <1>2, <1>4, <2>3 DEF NotSuccess, OwnRecord
      <3>5. WriteRow(t)
        BY <3>1, <3>3, <3>4
           DEF OutcomeStep, ReadRecord, IsSuccess, Probe, Judge, Record, RecordReturns,
               RestoreChampion, RestoreReturns, RegistryRaises, pipelineVars
      <3> DEFINE row == [run |-> t, trigger |-> audit[t].trigger, status |-> "success"]
      <3>6. row \in Rows /\ row.run = t /\ row.status = "success" /\ row.trigger = audit[t].trigger
        BY <1>1 DEF Rows, Audits
      <3>7. RecordRun(row)
        BY <3>5 DEF WriteRow
      <3> HIDE DEF row
      <3>8. SuccessRows(t) = {}
        BY <2>3 DEF RowsInv, Ended
      <3>9. 1 \in SuccessRows(t)' /\ history'[1] = row /\ \A i \in SuccessRows(t)' : i = 1
        BY <1>1, <3>6, <3>7, <3>8, RowsShift
      <3>10. audit[t].trigger = thread[t].trigger
        BY <1>2, <3>5 DEF WriteRow, OwnRecord
      <3>11. SuccessRows(t)' = {1} /\ history'[1].trigger = thread'[t].trigger
        BY <2>1, <3>6, <3>9, <3>10
      <3> QED
        BY <3>11 DEF Audited
    <2> QED
      BY <2>2, <2>3
  (* An audit copies the trigger of its own run. *)
  <1>7. ASSUME NEW t \in Threads, audit'[t].at # "none" PROVE audit'[t].trigger = thread'[t].trigger
    <2>1. ASSUME OutcomeStep(t) PROVE audit'[t].trigger = thread'[t].trigger
      <3>1. CASE ReadRecord(t)
        <4>1. audit' = [audit EXCEPT ![t] =
                          [NoAudit EXCEPT !.at = "status", !.trigger = run["train"].trigger]]
              /\ thread' = thread /\ thread[t].at = "outcome"
          BY <3>1 DEF ReadRecord, pipelineVars
        <4>2. audit'[t].trigger = run["train"].trigger
          BY <1>1, <4>1 DEF NoAudit
        <4> QED
          BY <1>2, <1>4, <4>1, <4>2 DEF OwnRecord
      <3>2. CASE ~ReadRecord(t)
        <4>1. thread' = thread \/ audit' = [audit EXCEPT ![t] = NoAudit]
          BY <2>1, <3>2 DEF OutcomeStep, NotSuccess, IsSuccess, Probe, Judge, Record,
             RecordReturns, RestoreChampion, RestoreReturns, RegistryRaises, WriteRow, pipelineVars
        <4>2. \/ audit[t].at # "none" /\ audit'[t].trigger = audit[t].trigger
              \/ audit' = [audit EXCEPT ![t] = NoAudit]
          <5>1. ASSUME NEW place \in AuditPlaces, AuditGoto(t, place)
                PROVE  audit'[t].trigger = audit[t].trigger
            BY <1>1, <5>1, AuditGotoEffect
          <5>2. ASSUME IsSuccess(t) \/ Record(t) \/ RestoreReturns(t) \/ RecordReturns(t)
                PROVE  audit'[t].trigger = audit[t].trigger
            BY <5>1, <5>2 DEF IsSuccess, Record, RestoreReturns, RecordReturns, AuditPlaces
          <5>3. ASSUME RestoreChampion(t) \/ RegistryRaises(t)
                PROVE  audit'[t].trigger = audit[t].trigger
            BY <1>1, <5>1, <5>3, AuditSoiledEffect DEF RestoreChampion, RegistryRaises, AuditPlaces
          <5>4. ASSUME Probe(t) \/ Judge(t) PROVE audit'[t].trigger = audit[t].trigger
            BY <1>1, <5>4 DEF Probe, Judge, Audits
          <5>5. CASE audit[t].at = "none"
            BY <2>1, <3>2, <5>5, <1>1
               DEF OutcomeStep, NotSuccess, IsSuccess, Probe, Judge, Record, RecordReturns,
                   RestoreChampion, RestoreReturns, RegistryRaises, WriteRow, AuditPlaced,
                   RecordEnd, RestoreEnd, RecordFails, RestoreFails, Recording, Restoring
          <5> QED
            BY <2>1, <3>2, <5>2, <5>3, <5>4, <5>5 DEF OutcomeStep, NotSuccess, WriteRow
        <4>3. audit' # [audit EXCEPT ![t] = NoAudit]
          BY <1>1, <1>7, NoAuditType
        <4> QED
          BY <1>2, <4>1, <4>2, <4>3 DEF OwnRecord
      <3> QED
        BY <3>1, <3>2
    <2>2. CASE Reboot
      BY <1>7, <2>2, NoAuditType DEF Reboot
    <2>3. CASE audit'[t] = audit[t] /\ (thread[t].at = "outcome" => thread'[t] = thread[t])
      BY <1>2, <1>5, <1>7, <2>3 DEF OwnRecord
    <2> QED
      BY <2>1, <2>2, <2>3, Bystander
  <1> DEFINE Alone == /\ \A t, u \in Threads : Training(t)' /\ Training(u)' => t = u
                      /\ \A t \in Threads : Training(t)' =>
                            /\ run'["train"].trigger = thread'[t].trigger
                            /\ ~InFlight(t)' => run'["train"].status = "success"
  <1>8. ASSUME NEW t \in Threads, NEW trigger \in Triggers, StartTrain(trigger, t) PROVE Alone
    <2>1. \A u \in Threads : ~Training(u)
      BY <1>8, TrainingsStart DEF StartTraining
    <2>2. /\ thread'[t] = Spawned(t, "train", trigger, FALSE)
          /\ \A u \in Threads \ {t} : thread'[u] = thread[u]
      BY <1>1, <1>8 DEF StartTrain, Start
    <2>3. run'["train"] = [status |-> "running", trigger |-> trigger, chained |-> FALSE]
      BY <1>1, <1>8 DEF StartTrain, Start, Admitted
    <2>4. \A u \in Threads \ {t} : ~Training(u)'
      BY <2>1, <2>2 DEF Training, Alive
    <2>5. thread'[t].trigger = trigger /\ InFlight(t)'
      BY <2>2 DEF Spawned, InFlight
    <2> QED
      BY <2>3, <2>4, <2>5
  <1>9. CASE Restart
    <2>1. \A t \in Threads : ~Training(t)'
      BY <1>1, <1>9 DEF Restart, Training, Alive, ThreadRecords
    <2>2. Alone
      BY <2>1
    <2> QED
      BY <1>6, <1>7, <2>2 DEF OwnRecord
  <1>10. ASSUME ~Restart, \A t \in Threads, trigger \in Triggers : ~StartTrain(trigger, t)
         PROVE  Alone
    <2>1. /\ run'["train"].trigger = run["train"].trigger
          /\ \A t \in Threads : Training(t)' => Training(t)
          /\ \A t \in Threads : Training(t)' /\ ~InFlight(t)' =>
                \/ run'["train"].status = "success"
                \/ ~InFlight(t) /\ run'["train"].status = run["train"].status
                \/ \E u \in Threads \ {t} : Training(u)
      BY <1>1, <1>3, <1>10, TrainRecordMoves
    <2>2. \A t \in Threads : Training(t) => thread'[t].trigger = thread[t].trigger
      BY <1>3 DEF Moves, Training, Alive
    <2> QED
      BY <1>2, <2>1, <2>2 DEF OwnRecord
  <1> HIDE DEF Alone
  <1>11. ~Restart => Alone
    BY <1>8, <1>10
  <1>12. ASSUME Alone
         PROVE  /\ \A t, u \in Threads : Training(t)' /\ Training(u)' => t = u
                /\ \A t \in Threads : OwnRecord(t)'
    BY <1>6, <1>7, <1>12 DEF Alone, OwnRecord
  <1> QED
    BY <1>9, <1>11, <1>12

LEMMA AlwaysSerial == LifecycleSpec => [](LifecycleSafe /\ RowsInv /\ SerialInv)
  <1>1. LifecycleInit => SerialInv
    BY NoAuditType DEF LifecycleInit, PipelineInit, Unused, SerialInv, OwnRecord, Training, Alive
  <1> QED
    BY <1>1, LifecycleInitSafe, LifecycleNextSafe, RowsNext, SerialNext, AlwaysRows, PTL
       DEF LifecycleSpec

(* With trainings that wait for the last one to be recorded, each of them  *)
(* that is published and goes on to its end has its row, with its own      *)
(* trigger; the lost-audit run shows that the condition is needed.         *)
THEOREM SuccessesAreAudited == LifecycleSpec => []("trainings" \notin Overlap => EverySuccessAudited)
  <1>1. SerialInv => ("trainings" \notin Overlap => EverySuccessAudited)
    BY DEF SerialInv, OwnRecord, Audited, EverySuccessAudited
  <1> QED
    BY <1>1, AlwaysSerial, PTL
-----------------------------------------------------------------------------
(* When nothing overlaps, the audit of a training has the registry and the *)
(* live paths to itself: the operator is out of the registry from before   *)
(* the training resets them until its row is written.                      *)
OperatorAway ==
    \A t \in Threads : Training(t) /\ ~(Working(t) /\ unwiped = {}) => op[Operator].at = "idle"

(* What the gate decided is still what it would decide.                    *)
Judged(t) ==
    /\ audit[t].champion = current
    /\ GateEnabled => audit[t].action = EvaluateChallenger(audit[t].score, ScoreOf(current))

(* How far the registry has come with what the audit asked of it.          *)
RecordingDone(t) ==
    /\ op[t].score = audit[t].score /\ op[t].upd = UpdatePointer(audit[t].action)
    /\ op[t].at = "copy" =>
          /\ Judged(t)
          /\ \A f \in Files \ op[t].todo : op[t].stage[f] = live[f]
    /\ op[t].at = "point" =>
          /\ op[t].upd /\ Judged(t)
          /\ snap[op[t].ver].files = live /\ snap[op[t].ver].score = audit[t].score
    /\ op[t].at = "prune" /\ op[t].upd =>
          current # NoVersion /\ snap[current].files = live

RestoringDone(t) ==
    /\ op[t].at = "restore" =>
          \A f \in Present(snap[op[t].ver].files) \ op[t].todo : live[f] = snap[op[t].ver].files[f]
    /\ op[t].at = "settled" => current # NoVersion /\ Restored(live, snap[current].files)

Healed(t) ==
    /\ current # NoVersion
    /\ Restored(live, snap[current].files)
    /\ audit[t].action # "reject" => live = snap[current].files

Progress(t) ==
    /\ audit[t].at = "record" => Judged(t)
    /\ audit[t].at \in {"record", "recording"} /\ audit[t].action = "reject" =>
          audit[t].champion # NoVersion
    /\ audit[t].at = "recording" => RecordingDone(t)
    /\ audit[t].at \in {"restore", "restoring"} => audit[t].action = "reject"
    /\ audit[t].at = "restoring" => RestoringDone(t)
    /\ audit[t].at = "row" /\ audit[t].clean => Healed(t)

QuietInv ==
    Overlap = {} => OperatorAway /\ \A t \in Threads : Progress(t)

-----------------------------------------------------------------------------
(* Who moves the registry and the live paths.                              *)
LEMMA WhoMoves ==
  ASSUME LifecycleSafe, [LifecycleNext]_lifecycleVars
  PROVE  \/ UNCHANGED registryVars
         \/ Reboot
         \/ \E t \in Threads, p \in unwiped : WipeArtifact(t, p)
         \/ \E t \in Threads, c \in Clients, f \in Files : WipeCopy(t, c, f)
         \/ \E t \in Threads, f \in Files : WriteModel(t, f)
         \/ \E t \in Threads : OutcomeStep(t) \/ RegistryWork(t)
         \/ \E t \in Threads, v \in VersionIds, f \in Files : SweepFails(t, v, f)
         \/ (\E v \in VersionIds : OperatorRollsBack(v)) \/ OperatorStep
  <1>1. ASSUME NEW t \in Threads, LifecycleStep(t)
        PROVE  \/ UNCHANGED registryVars
               \/ \E p \in unwiped : WipeArtifact(t, p)
               \/ \E c \in Clients, f \in Files : WipeCopy(t, c, f)
               \/ \E f \in Files : WriteModel(t, f)
               \/ OutcomeStep(t) \/ RegistryWork(t)
    BY <1>1 DEF LifecycleStep, WorkEnds, PipelineStep
  <1>2. ASSUME NEW t \in Threads, ManualTrain(t) \/ \E trigger \in Triggers : TickStarts(trigger, t)
        PROVE  UNCHANGED registryVars
    BY <1>2 DEF ManualTrain, TickStarts, StartTraining
  <1>3. UNCHANGED lifecycleVars \/ TickReleases \/ TickLatches \/ ImportPredictions \/ ShutDown
        => UNCHANGED registryVars
    BY DEF lifecycleVars, TickReleases, TickLatches, ImportPredictions, ShutDown
  <1> QED
    BY <1>1, <1>2, <1>3 DEF LifecycleNext

-----------------------------------------------------------------------------
(* An audit runs in its thread's hook.                                     *)
LEMMA AuditsInHook ==
  ASSUME LifecycleSafe, NEW t \in Threads, OutcomeStep(t)
  PROVE  thread[t].at = "outcome"
  <1>1. /\ audit[t].at # "none" => thread[t].at = "outcome"
        /\ op[t].at \in Recording => audit[t].at = "recording"
        /\ op[t].at \in Restoring => audit[t].at = "restoring"
    BY DEF LifecycleSafe, AuditPlaced
  <1> QED
    BY <1>1 DEF OutcomeStep, ReadRecord, NotSuccess, IsSuccess, Probe, Judge, Record, RecordReturns,
                RestoreChampion, RestoreReturns, RegistryRaises, WriteRow, RecordEnd, RestoreEnd,
                RecordFails, RestoreFails, Recording, Restoring

(* The live paths are to be wiped when a training starts.                  *)
LEMMA ResetMoves ==
  ASSUME LifecycleSafe, [LifecycleNext]_lifecycleVars
  PROVE  \/ unwiped' \subseteq unwiped
         \/ \E t \in Threads, trigger \in Triggers : StartTraining(trigger, t)
  <1> DEFINE Kept == unwiped' \subseteq unwiped
  <1>1. ASSUME NEW t \in Threads, LifecycleStep(t) PROVE Kept
    <2>1. OutcomeStep(t) => Kept
      BY DEF OutcomeStep, ReadRecord, NotSuccess, IsSuccess, Probe, Judge, Record, RecordReturns,
             RestoreChampion, RestoreReturns, RegistryRaises, WriteRow
    <2> QED
      BY <1>1, <2>1 DEF LifecycleStep, WipeArtifact, WipeCopy, WriteModel, WorkEnds,
           PipelineStep, RegistryWork, outcomeVars
  <1>2. UNCHANGED lifecycleVars \/ TickReleases \/ TickLatches \/ ImportPredictions
        \/ OperatorStep \/ ShutDown \/ Reboot => Kept
    BY DEF lifecycleVars, TickReleases, TickLatches, ImportPredictions, OperatorStep, ShutDown,
           Reboot, outcomeVars
  <1>3. ASSUME NEW t \in Threads,
               (StartInference(t) /\ UNCHANGED <<registryVars, outcomeVars>>)
               \/ (\E v \in VersionIds, f \in Files : SweepFails(t, v, f))
        PROVE  Kept
    BY <1>3 DEF SweepFails, outcomeVars
  <1>4. ASSUME NEW v \in VersionIds, OperatorRollsBack(v) PROVE Kept
    BY <1>4 DEF OperatorRollsBack, outcomeVars
  <1>5. ASSUME NEW t \in Threads, ManualTrain(t) \/ \E trigger \in Triggers : TickStarts(trigger, t)
        PROVE  \E trigger \in Triggers : StartTraining(trigger, t)
    BY <1>5, TriggersAssumption DEF ManualTrain, TickStarts
  <1> HIDE DEF Kept
  <1>6. Kept \/ \E t \in Threads, trigger \in Triggers : StartTraining(trigger, t)
    BY <1>1, <1>2, <1>3, <1>4, <1>5 DEF LifecycleNext
  <1> QED
    BY <1>6 DEF Kept

(* When nothing overlaps, an audit is alone with the registry and the live *)
(* paths.                                                                  *)
LEMMA Undisturbed ==
  ASSUME LifecycleSafe, SerialInv, OperatorAway, Overlap = {}, [LifecycleNext]_lifecycleVars,
         NEW t \in Threads, thread[t].at = "outcome"
  PROVE  \/ OutcomeStep(t) \/ RegistryWork(t) \/ Reboot
         \/ \E v \in VersionIds, f \in Files : SweepFails(t, v, f)
         \/ UNCHANGED registryVars /\ audit'[t] = audit[t]
  <1>1. /\ PipelineSafe /\ Safe /\ ChainInv /\ AuditPlaced
    BY DEF LifecycleSafe
  <1>2. Training(t) /\ ~Working(t)
    BY <1>1 DEF ChainInv, Training, Alive, Working
  <1>3. \A u \in Threads : Training(u) => u = t
    BY <1>2 DEF SerialInv
  <1>4. \A u \in Threads : ~Working(u)
    BY <1>2, <1>3 DEF Working, Training, Alive
  <1>5. op[Operator].at = "idle" /\ Operator \in Clients
    BY <1>2, ActorsAreClients DEF OperatorAway
  <1>6. \A u \in Threads : u # t => thread[u].at # "outcome"
    BY <1>1, <1>3 DEF ChainInv, Training, Alive
  <1>7. \A u \in Threads : u # t => op[u].at \notin Recording \cup Restoring
    BY <1>1, <1>6 DEF AuditPlaced
  <1>8. \A u \in Threads : OutcomeStep(u) => u = t
    BY <1>6, AuditsInHook
  <1>9. \A u \in Threads : RegistryWork(u) => u = t
    BY <1>1, <1>7, RegistryWorkEffect, ActorsAreClients DEF RegistryWork
  <1>10. \A u \in Threads, v \in VersionIds, f \in Files : SweepFails(u, v, f) => u = t
    BY <1>7 DEF SweepFails, PruneHalf, Recording
  <1>11. ~OperatorStep
    BY <1>5 DEF OperatorStep, RestoreStep, RestoreWork, RestoreFile, RestorePoint, RestoreEnd, RestoreFails
  <1>12. \A v \in VersionIds : ~OperatorRollsBack(v)
    BY <1>2 DEF OperatorRollsBack, RollbackMayStart
  <1>13. /\ \A u \in Threads, p \in unwiped : ~WipeArtifact(u, p)
         /\ \A u \in Threads, c \in Clients, f \in Files : ~WipeCopy(u, c, f)
         /\ \A u \in Threads, f \in Files : ~WriteModel(u, f)
    BY <1>4 DEF WipeArtifact, WipeCopy, WriteModel
  <1>14. OutcomeStep(t) \/ Reboot \/ audit'[t] = audit[t]
    BY Bystander
  <1> QED
    BY <1>8, <1>9, <1>10, <1>11, <1>12, <1>13, <1>14, WhoMoves

LEMMA RecordingProgress ==
  ASSUME LifecycleSafe, NEW t \in Threads, Progress(t),
         audit' = audit,
         RecordWork(t) \/ \E v \in VersionIds, f \in Files : PruneHalf(t, v, f)
  PROVE  Progress(t)'
  <1>1. /\ Safe /\ t \in Clients /\ live \in Tree /\ op[t] \in Ops /\ op[t].stage \in Tree
        /\ snap \in [VersionIds -> Manifests] /\ current \in 0 .. MaxVersions
        /\ kept \subseteq VersionIds /\ (current = NoVersion \/ current \in kept)
    BY ActorsAreClients
       DEF LifecycleSafe, Safe, RegistryTypeOK, Ops, VersionInv, CurrentIsRetained
  <1>2. op[t].at \in Recording
    BY <1>1, RegistryWorkEffect
       DEF RecordWork, RecordCopy, RecordPublish, RecordPoint, PruneOne, PruneHalf, Recording
  <1>3. audit[t].at = "recording"
    BY <1>2 DEF LifecycleSafe, AuditPlaced
  <1>4. RecordingDone(t)
    BY <1>3 DEF Progress
  <1> SUFFICES RecordingDone(t)'
    BY <1>3 DEF Progress
  <1>5. ASSUME NEW f \in Files, RecordCopy(t, f) PROVE RecordingDone(t)'
    <2>1. /\ op[t].at = "copy" /\ op'[t].at = "copy" /\ op'[t].todo = op[t].todo \ {f}
          /\ op'[t].stage = [op[t].stage EXCEPT ![f] = live[f]]
          /\ op'[t].upd = op[t].upd /\ op'[t].score = op[t].score
      BY <1>1, <1>5, RecordCopyEffect
    <2>2. UNCHANGED <<live, snap, current>>
      BY <1>5 DEF RecordCopy
    <2>3. \A g \in Files \ op'[t].todo : op'[t].stage[g] = live'[g]
      BY <1>1, <1>4, <2>1, <2>2 DEF RecordingDone, Tree
    <2>4. Judged(t)'
      BY <1>4, <2>1, <2>2 DEF RecordingDone, Judged, ScoreOf
    <2> QED
      BY <1>4, <2>1, <2>3, <2>4 DEF RecordingDone
  <1>6. CASE RecordPublish(t)
    <2>1. /\ op[t].at = "copy" /\ op'[t].at = IF op[t].upd THEN "point" ELSE "prune"
          /\ op'[t].ver = op[t].ver /\ op'[t].upd = op[t].upd /\ op'[t].score = op[t].score
          /\ op[t].ver \in VersionIds \ kept
          /\ snap'[op[t].ver] = [files |-> op[t].stage, score |-> op[t].score,
                                 promoted |-> op[t].upd]
          /\ \A v \in VersionIds \ {op[t].ver} : snap'[v] = snap[v]
      BY <1>1, <1>6, RecordPublishEffect
    <2>2. op[t].todo = {} /\ UNCHANGED <<live, current>>
      BY <1>6 DEF RecordPublish
    <2>3. op[t].stage = live
      <3>1. \A f \in Files : op[t].stage[f] = live[f]
        BY <1>4, <2>1, <2>2 DEF RecordingDone
      <3> QED
        BY <1>1, <3>1 DEF Tree
    <2>4. ScoreOf(current)' = ScoreOf(current)
      BY <1>1, <2>1, <2>2 DEF ScoreOf
    <2>5. Judged(t)'
      BY <1>4, <2>1, <2>2, <2>4 DEF RecordingDone, Judged
    <2>6. snap'[op[t].ver].files = live /\ snap'[op[t].ver].score = op[t].score
      BY <2>1, <2>3
    <2> QED
      BY <1>4, <2>1, <2>2, <2>5, <2>6 DEF RecordingDone
  <1>7. CASE RecordPoint(t)
    <2>1. "prune" \in Stages
      BY DEF Stages
    <2>2. /\ op[t].at = "point" /\ op'[t].at = "prune" /\ op'[t].ver = op[t].ver
          /\ op'[t].upd = op[t].upd /\ op'[t].score = op[t].score
      BY <1>1, <1>7, <2>1, StageEffect DEF RecordPoint
    <2>3. current' = op[t].ver /\ UNCHANGED <<live, snap>> /\ op[t].ver \in VersionIds
      BY <1>1, <1>7 DEF RecordPoint, Safe, VersionInv
    <2>4. op[t].ver # NoVersion
      BY <2>3 DEF VersionIds, NoVersion
    <2> QED
      BY <1>4, <2>2, <2>3, <2>4 DEF RecordingDone
  <1>8. ASSUME NEW v \in VersionIds,
               PruneOne(t, v) \/ \E f \in Files : PruneHalf(t, v, f)
        PROVE  RecordingDone(t)'
    <2>1. op[t].at = "prune" /\ op' = op /\ UNCHANGED <<live, current>> /\ v # current
      BY <1>8 DEF PruneOne, PruneHalf, Prunable
    <2>2. \A w \in VersionIds \ {v} : snap'[w] = snap[w]
      BY <1>1, <1>8 DEF PruneOne, PruneHalf
    <2>3. current # NoVersion => snap'[current] = snap[current]
      BY <1>1, <2>1, <2>2
    <2> QED
      BY <1>4, <2>1, <2>3 DEF RecordingDone
  <1> QED
    BY <1>5, <1>6, <1>7, <1>8 DEF RecordWork

LEMMA RestoringProgress ==
  ASSUME LifecycleSafe, NEW t \in Threads, Progress(t), audit' = audit, RestoreWork(t)
  PROVE  Progress(t)'
  <1>1. /\ Safe /\ t \in Clients /\ live \in Tree /\ op[t] \in Ops
        /\ kept \subseteq VersionIds
    BY ActorsAreClients DEF LifecycleSafe, Safe, RegistryTypeOK
  <1>2. op[t].at = "restore"
    BY DEF RestoreWork, RestoreFile, RestorePoint
  <1>3. audit[t].at = "restoring"
    BY <1>2 DEF LifecycleSafe, AuditPlaced, Restoring
  <1>4. RestoringDone(t) /\ audit[t].action = "reject"
    BY <1>3 DEF Progress
  <1> SUFFICES RestoringDone(t)'
    BY <1>3, <1>4 DEF Progress
  <1>5. ASSUME NEW f \in Files, RestoreFile(t, f) PROVE RestoringDone(t)'
    <2>1. /\ op'[t].at = "restore" /\ op'[t].todo = op[t].todo \ {f} /\ op'[t].ver = op[t].ver
      BY <1>1, <1>5, RestoreFileEffect
    <2>2. live' = [live EXCEPT ![f] = snap[op[t].ver].files[f]] /\ snap' = snap
      BY <1>5 DEF RestoreFile
    <2>3. \A g \in Present(snap[op[t].ver].files) \ op[t].todo : live[g] = snap[op[t].ver].files[g]
      BY <1>2, <1>4 DEF RestoringDone
    <2>4. \A g \in Present(snap[op[t].ver].files) \ (op[t].todo \ {f}) :
             live'[g] = snap[op[t].ver].files[g]
      BY <1>1, <2>2, <2>3 DEF Present, Tree
    <2> QED
      BY <2>1, <2>2, <2>4 DEF RestoringDone
  <1>6. CASE RestorePoint(t)
    <2>1. "settled" \in Stages
      BY DEF Stages
    <2>2. op'[t].at = "settled" /\ op[t].todo = {}
      BY <1>1, <1>6, <2>1, StageEffect DEF RestorePoint
    <2>3. current' = op[t].ver /\ UNCHANGED <<live, snap>> /\ op[t].ver \in VersionIds
      BY <1>1, <1>6 DEF RestorePoint, Safe, VersionInv
    <2>4. op[t].ver # NoVersion
      BY <2>3 DEF VersionIds, NoVersion
    <2>5. Restored(live, snap[op[t].ver].files)
      BY <1>2, <1>4, <2>2 DEF RestoringDone, Restored
    <2> QED
      BY <2>2, <2>3, <2>4, <2>5 DEF RestoringDone
  <1> QED
    BY <1>5, <1>6 DEF RestoreWork

(* The champion is judged only if there is one.                            *)
LEMMA RejectHasChampion ==
  ASSUME NEW score, EvaluateChallenger(score, ScoreOf(current)) = "reject"
  PROVE  current # NoVersion
  BY DEF EvaluateChallenger, ScoreOf

LEMMA OutcomeProgress ==
  ASSUME LifecycleSafe, NEW t \in Threads, Progress(t), OutcomeStep(t)
  PROVE  Progress(t)'
  <1>1. /\ Safe /\ t \in Clients /\ live \in Tree /\ op[t] \in Ops /\ OutcomeTypeOK
        /\ audit \in [Threads -> Audits] /\ audit[t] \in Audits
    BY ActorsAreClients DEF LifecycleSafe, Safe, RegistryTypeOK, OutcomeTypeOK
  <1>2. /\ op[t].at \in Recording => audit[t].at = "recording"
        /\ op[t].at \in Restoring => audit[t].at = "restoring"
        /\ audit[t].at = "restore" => audit[t].champion \in VersionIds
    BY DEF LifecycleSafe, AuditPlaced
  <1>3. ASSUME audit'[t].at \in {"none", "status", "probe"} PROVE Progress(t)'
    BY <1>3 DEF Progress
  <1>4. CASE ReadRecord(t)
    <2>1. audit'[t].at = "status"
      BY <1>1, <1>4 DEF ReadRecord, NoAudit
    <2> QED
      BY <1>3, <2>1
  <1>5. CASE NotSuccess(t) \/ WriteRow(t)
    <2>1. audit'[t].at = "none"
      BY <1>1, <1>5, NoAuditType DEF NotSuccess, WriteRow
    <2> QED
      BY <1>3, <2>1
  <1>6. CASE IsSuccess(t)
    <2>1. audit'[t].at = "probe"
      BY <1>1, <1>6, AuditGotoEffect DEF IsSuccess, AuditPlaces
    <2> QED
      BY <1>3, <2>1
  <1>7. CASE Probe(t)
    <2>1. audit'[t].at = "judge"
      BY <1>1, <1>7 DEF Probe, Audits
    <2> QED
      BY <2>1 DEF Progress
  <1>8. CASE Judge(t)
    <2> DEFINE decision == IF GateEnabled THEN EvaluateChallenger(audit[t].score, ScoreOf(current))
                           ELSE "promote"
    <2>1. /\ audit' = [audit EXCEPT ![t].at = "record", ![t].champion = current,
                                    ![t].action = decision]
          /\ audit[t].at = "judge" /\ UNCHANGED <<live, snap, current>>
      BY <1>8 DEF Judge, registryVars
    <2>2. /\ audit'[t].at = "record" /\ audit'[t].champion = current
          /\ audit'[t].action = decision /\ audit'[t].score = audit[t].score
      <3> HIDE DEF decision
      <3> QED
        BY <1>1, <2>1 DEF Audits
    <2>3. Judged(t)'
      BY <2>1, <2>2 DEF Judged, ScoreOf
    <2>4. decision = "reject" => current # NoVersion
      BY RejectHasChampion
    <2> HIDE DEF decision
    <2> QED
      BY <2>2, <2>3, <2>4 DEF Progress
  <1>9. CASE Record(t)
    <2>1. RecordBegin(t, UpdatePointer(audit[t].action), audit[t].score) /\ audit[t].at = "record"
      BY <1>9 DEF Record
    <2>2. /\ op'[t].at = "copy" /\ op'[t].todo = Present(live) /\ op'[t].stage = EmptyTree
          /\ op'[t].upd = UpdatePointer(audit[t].action) /\ op'[t].score = audit[t].score
      BY <1>1, <2>1, RecordBeginEffect
    <2>3. AuditGoto(t, "recording") /\ UNCHANGED <<live, snap, current>>
      BY <1>9 DEF Record, RecordBegin
    <2>4. /\ audit'[t].at = "recording" /\ audit'[t].score = audit[t].score
          /\ audit'[t].champion = audit[t].champion /\ audit'[t].action = audit[t].action
      BY <1>1, <2>3, AuditGotoEffect DEF AuditPlaces
    <2>5. \A f \in Files \ Present(live) : EmptyTree[f] = live[f]
      BY DEF Present, EmptyTree
    <2>6. Judged(t) /\ (audit[t].action = "reject" => audit[t].champion # NoVersion)
      BY <2>1 DEF Progress
    <2>7. Judged(t)'
      BY <2>3, <2>4, <2>6 DEF Judged, ScoreOf
    <2>8. RecordingDone(t)'
      BY <2>2, <2>3, <2>4, <2>5, <2>7 DEF RecordingDone
    <2> QED
      BY <2>4, <2>6, <2>8 DEF Progress
  <1>10. CASE RecordReturns(t)
    <2> DEFINE place == IF audit[t].action = "reject" /\ audit[t].champion # NoVersion
                        THEN "restore" ELSE "row"
    <2>1. /\ AuditGoto(t, place) /\ op[t].at = "prune" /\ UNCHANGED <<live, snap, current>>
      BY <1>10 DEF RecordReturns, RecordEnd
    <2>2. audit[t].at = "recording"
      BY <1>2, <2>1 DEF Recording
    <2>3. /\ op[t].upd = UpdatePointer(audit[t].action)
          /\ op[t].upd => current # NoVersion /\ snap[current].files = live
          /\ audit[t].action = "reject" => audit[t].champion # NoVersion
      BY <2>1, <2>2 DEF Progress, RecordingDone
    <2>4. place \in AuditPlaces /\ place \in {"restore", "row"}
      BY DEF AuditPlaces
    <2>5. /\ place = "restore" => audit[t].action = "reject"
          /\ place = "row" => audit[t].action # "reject" /\ op[t].upd
      BY <2>3 DEF UpdatePointer
    <2> HIDE DEF place
    <2>6. audit'[t].at = place /\ audit'[t].action = audit[t].action
      BY <1>1, <2>1, <2>4, AuditGotoEffect
    <2>7. place = "row" => Healed(t)'
      BY <2>1, <2>3, <2>5, <2>6 DEF Healed, Restored
    <2> QED
      BY <2>4, <2>5, <2>6, <2>7 DEF Progress
  <1>11. CASE RestoreChampion(t)
    <2> DEFINE champion == audit[t].champion
    <2>1. audit[t].at = "restore" /\ champion \in VersionIds /\ audit[t].action = "reject"
      BY <1>2, <1>11 DEF RestoreChampion, Progress
    <2>2. CASE RestoreBegin(t, champion, champion) /\ AuditGoto(t, "restoring")
      <3>1. op'[t].at = "restore" /\ op'[t].ver = champion /\ op'[t].todo = Present(snap[champion].files)
        BY <1>1, <2>1, <2>2, RestoreBeginEffect
      <3>2. audit'[t].at = "restoring" /\ audit'[t].action = audit[t].action
        BY <1>1, <2>2, AuditGotoEffect DEF AuditPlaces
      <3>3. snap' = snap
        BY <2>2 DEF RestoreBegin
      <3>4. RestoringDone(t)'
        BY <3>1, <3>3 DEF RestoringDone
      <3> QED
        BY <2>1, <3>2, <3>4 DEF Progress
    <2>3. CASE audit' = [audit EXCEPT ![t].at = "row", ![t].clean = FALSE]
      BY <1>1, <2>3, AuditSoiledEffect DEF Progress
    <2> QED
      BY <1>11, <2>2, <2>3 DEF RestoreChampion
  <1>12. CASE RestoreReturns(t)
    <2>1. AuditGoto(t, "row") /\ op[t].at = "settled" /\ UNCHANGED <<live, snap, current>>
      BY <1>12 DEF RestoreReturns, RestoreEnd
    <2>2. audit[t].at = "restoring"
      BY <1>2, <2>1 DEF Restoring
    <2>3. /\ audit[t].action = "reject" /\ current # NoVersion
          /\ Restored(live, snap[current].files)
      BY <2>1, <2>2 DEF Progress, RestoringDone
    <2>4. audit'[t].at = "row" /\ audit'[t].action = audit[t].action
      BY <1>1, <2>1, AuditGotoEffect DEF AuditPlaces
    <2>5. Healed(t)'
      BY <2>1, <2>3, <2>4 DEF Healed
    <2> QED
      BY <2>4, <2>5 DEF Progress
  <1>13. CASE RegistryRaises(t)
    BY <1>1, <1>13, AuditSoiledEffect DEF RegistryRaises, Progress
  <1> QED
    BY <1>4, <1>5, <1>6, <1>7, <1>8, <1>9, <1>10, <1>11, <1>12, <1>13 DEF OutcomeStep

LEMMA ProgressNext ==
  ASSUME LifecycleSafe, SerialInv, OperatorAway, Overlap = {}, [LifecycleNext]_lifecycleVars,
         NEW t \in Threads, Progress(t)
  PROVE  Progress(t)'
  <1>1. CASE thread[t].at # "outcome"
    <2>1. audit[t].at = "none" /\ ~OutcomeStep(t)
      BY <1>1, AuditsInHook DEF LifecycleSafe, AuditPlaced
    <2>2. audit'[t].at = "none"
      BY <2>1, Bystander, NoAuditType DEF Reboot
    <2> QED
      BY <2>2 DEF Progress
  <1>2. CASE thread[t].at = "outcome"
    <2>1. ASSUME RegistryWork(t) \/ \E v \in VersionIds, f \in Files : SweepFails(t, v, f)
          PROVE  Progress(t)'
      BY <2>1, RecordingProgress, RestoringProgress DEF RegistryWork, SweepFails, outcomeVars
    <2>2. ASSUME Reboot PROVE Progress(t)'
      <3>1. audit'[t].at = "none"
        BY <2>2, NoAuditType DEF Reboot
      <3> QED
        BY <3>1 DEF Progress
    <2>3. ASSUME UNCHANGED registryVars, audit'[t] = audit[t] PROVE Progress(t)'
      BY <2>3 DEF registryVars, Progress, Judged, ScoreOf, RecordingDone, RestoringDone,
                  Healed, Restored, Present
    <2> QED
      BY <1>2, <2>1, <2>2, <2>3, Undisturbed, OutcomeProgress
  <1> QED
    BY <1>1, <1>2

(* A training goes on with its work until it ends it or fails.             *)
LEMMA WorkerStays ==
  ASSUME LifecycleSafe, [LifecycleNext]_lifecycleVars, NEW t \in Threads, Working(t)
  PROVE  Working(t)' \/ ~Training(t)' \/ WorkEnds(t)
  <1>1. thread \in [Threads -> ThreadRecords] /\ thread[t].at = "work"
    BY DEF LifecycleSafe, PipelineSafe, PipelineTypeOK, Working
  <1> DEFINE Stays == thread'[t] = thread[t]
  <1>2. ASSUME NEW u \in Threads, LifecycleStep(u) PROVE Stays \/ ~Training(t)' \/ WorkEnds(t)
    <2>1. UNCHANGED thread \/ WorkEnds(u) \/ Advance(u) \/ Outcome(u)
      BY <1>2 DEF LifecycleStep, WipeArtifact, WipeCopy, WriteModel, PipelineStep,
         RegistryWork, OutcomeStep, ReadRecord, NotSuccess, IsSuccess, Probe, Judge, Record,
         RecordReturns, RestoreChampion, RestoreReturns, RegistryRaises, WriteRow, pipelineVars
    <2>2. CASE WorkEnds(u)
      BY <1>1, <2>2 DEF WorkEnds, WorkDone, Goto
    <2>3. CASE Outcome(u)
      BY <1>1, <2>3 DEF Outcome, Goto
    <2>4. CASE Advance(u)
      <3>1. WorkFails(t) \/ Stays
        BY <1>1, <2>4 DEF Advance, WorkFails, Checkpoint, Publish, Finish, Hook, Reconcile,
                          ChainCheck, ChainRefused, ChainStart, Fresh, Goto
      <3>2. WorkFails(t) => ~Training(t)'
        BY <1>1 DEF WorkFails, Goto, Training, Alive
      <3> QED
        BY <3>1, <3>2
    <2> QED
      BY <2>1, <2>2, <2>3, <2>4
  <1>3. ASSUME NEW u \in Threads,
               StartInference(u) \/ \E trigger \in Triggers : StartTrain(trigger, u)
        PROVE  Stays
    BY <1>1, <1>3 DEF StartInference, StartTrain, Start, Fresh
  <1>4. ASSUME NEW u \in Threads, ManualTrain(u) \/ \E trigger \in Triggers : TickStarts(trigger, u)
        PROVE  \E trigger \in Triggers : StartTrain(trigger, u)
    BY <1>4, TriggersAssumption DEF ManualTrain, TickStarts, StartTraining
  <1>5. CASE Reboot
    BY <1>1, <1>5 DEF Reboot, Restart, Training, Alive, ThreadRecords
  <1>6. ASSUME \/ UNCHANGED lifecycleVars \/ TickReleases \/ TickLatches \/ ImportPredictions
               \/ OperatorStep \/ ShutDown
               \/ \E v \in VersionIds : OperatorRollsBack(v)
               \/ \E u \in Threads, v \in VersionIds, f \in Files : SweepFails(u, v, f)
        PROVE  Stays
    BY <1>6 DEF lifecycleVars, TickReleases, TickLatches, ImportPredictions, OperatorStep, ShutDown,
                Shutdown, OperatorRollsBack, SweepFails, pipelineVars
  <1>7. Stays => Working(t)'
    BY DEF Working
  <1> HIDE DEF Stays
  <1> QED
    BY <1>2, <1>3, <1>4, <1>5, <1>6, <1>7 DEF LifecycleNext

(* Only a rollback takes the operator into the registry.                   *)
LEMMA OperatorStays ==
  ASSUME LifecycleSafe, [LifecycleNext]_lifecycleVars, op[Operator].at = "idle",
         \A v \in VersionIds : ~OperatorRollsBack(v)
  PROVE  op'[Operator].at = "idle"
  <1>1. Safe /\ Operator \in Clients /\ Threads \subseteq Clients /\ Operator \notin Threads
    BY ActorsAreClients DEF LifecycleSafe
  <1>2. ASSUME NEW t \in Threads, OutcomeStep(t) PROVE op'[Operator] = op[Operator]
    <2>1. \/ op' = op
          \/ RecordBegin(t, UpdatePointer(audit[t].action), audit[t].score)
          \/ RestoreBegin(t, audit[t].champion, audit[t].champion) /\ audit[t].at = "restore"
          \/ \E r : op' = [op EXCEPT ![t] = Returned(r)]
      BY <1>2 DEF OutcomeStep, ReadRecord, NotSuccess, IsSuccess, Probe, Judge, Record,
         RecordReturns, RestoreChampion, RestoreReturns, RegistryRaises, WriteRow, registryVars,
         RecordEnd, RestoreDefers, RestoreUnknown, RestoreEnd, RecordFails, RestoreFails
    <2>2. audit[t].at = "restore" => audit[t].champion \in VersionIds
      BY DEF LifecycleSafe, AuditPlaced
    <2> QED
      BY <1>1, <2>1, <2>2, RecordBeginEffect, RestoreBeginEffect, ReturnedEffect
  <1>3. ASSUME NEW t \in Threads, RegistryWork(t) PROVE op'[Operator] = op[Operator]
    BY <1>1, <1>3, RegistryWorkEffect DEF RegistryWork
  <1>4. ASSUME NEW t \in Threads, NEW c \in Clients, NEW f \in Files, WipeCopy(t, c, f)
        PROVE  op'[Operator] = op[Operator]
    BY <1>1, <1>4, WipeStagedEffect DEF WipeCopy
  <1>5. ASSUME Reboot PROVE op'[Operator].at = "idle"
    BY <1>1, <1>5 DEF Reboot, RegistryDies, Returned
  <1>6. ASSUME \/ UNCHANGED registryVars
               \/ \E t \in Threads, p \in unwiped : WipeArtifact(t, p)
               \/ \E t \in Threads, f \in Files : WriteModel(t, f)
               \/ \E t \in Threads, v \in VersionIds, f \in Files : SweepFails(t, v, f)
        PROVE  op' = op
    BY <1>6 DEF registryVars, WipeArtifact, WipePointer, WriteModel, Overwrite, SweepFails, PruneHalf
  <1>7. ~OperatorStep
    BY DEF OperatorStep, RestoreStep, RestoreWork, RestoreFile, RestorePoint, RestoreEnd,
           RestoreFails
  <1> QED
    BY <1>2, <1>3, <1>4, <1>5, <1>6, <1>7, WhoMoves

(* The operator stays away until the training is recorded.                 *)
LEMMA AwayNext ==
  ASSUME LifecycleSafe, OperatorAway, Overlap = {}, [LifecycleNext]_lifecycleVars
  PROVE  OperatorAway'
  <1>1. Safe /\ Operator \in Clients /\ Operator \notin Threads
    BY ActorsAreClients DEF LifecycleSafe
  <1> SUFFICES ASSUME NEW t \in Threads, Training(t)', ~(Working(t) /\ unwiped = {})'
               PROVE  op'[Operator].at = "idle"
    BY DEF OperatorAway
  <1>2. CASE \E u \in Threads, trigger \in Triggers : StartTraining(trigger, u)
    BY <1>2 DEF StartTraining, RollbackOver, registryVars
  <1>3. CASE WorkEnds(t)
    <2>1. thread[t].pipe = "train"
      BY <1>3 DEF WorkEnds, WorkDone, Goto, LifecycleSafe, PipelineSafe, PipelineTypeOK,
                  ThreadRecords, Training
    <2> QED
      BY <1>3, <2>1 DEF WorkEnds, RollbackOver, registryVars
  <1>4. CASE ~WorkEnds(t) /\ ~\E u \in Threads, trigger \in Triggers : StartTraining(trigger, u)
    <2>1. unwiped' \subseteq unwiped
      BY <1>4, ResetMoves
    <2>2. Training(t)
      <3>1. thread[t].at = "unused" => FALSE
        <4>1. ASSUME thread[t].at = "unused" PROVE FALSE
          <5>1. /\ PipelineSafe /\ ChainInv /\ [PipelineNext]_pipelineVars
            BY StepComposes DEF LifecycleSafe
          <5>2. ~Restart
            BY <4>1 DEF Restart, Training, Alive, LifecycleSafe, PipelineSafe, PipelineTypeOK
          <5>3. ASSUME NEW u \in Threads, NEW g \in Triggers, StartTrain(g, u) PROVE FALSE
            BY <1>4, <5>3, TrainingsStart
          <5>4. Training(t)
            BY <5>1, <5>2, <5>3, TrainRecordMoves
          <5> QED
            BY <4>1, <5>4 DEF Training, Alive
        <4> QED
          BY <4>1
      <3>2. Moves(t)
        BY StepComposes, ThreadMoves DEF LifecycleSafe
      <3> QED
        BY <3>1, <3>2 DEF Moves, Training, Alive
    <2>3. ~(Working(t) /\ unwiped = {})
      BY <1>4, <2>1, WorkerStays
    <2>4. op[Operator].at = "idle"
      BY <2>2, <2>3 DEF OperatorAway
    <2>5. \A v \in VersionIds : ~OperatorRollsBack(v)
      BY <2>2, <2>3 DEF OperatorRollsBack, RollbackMayStart
    <2> QED
      BY <2>4, <2>5, OperatorStays
  <1> QED
    BY <1>2, <1>3, <1>4
-----------------------------------------------------------------------------
LEMMA QuietNext ==
  ASSUME LifecycleSafe, SerialInv, QuietInv, [LifecycleNext]_lifecycleVars
  PROVE  QuietInv'
  BY AwayNext, ProgressNext DEF QuietInv

LEMMA AlwaysQuiet == LifecycleSpec => [](LifecycleSafe /\ SerialInv /\ QuietInv)
  <1>1. ASSUME LifecycleInit PROVE QuietInv
    <2>1. op[Operator].at = "idle"
      BY <1>1, ActorsAreClients DEF LifecycleInit, RegistryInit, Returned
    <2>2. \A t \in Threads : Progress(t)
      BY <1>1, NoAuditType DEF LifecycleInit, Progress
    <2> QED
      BY <2>1, <2>2 DEF QuietInv, OperatorAway
  <1> QED
    BY <1>1, QuietNext, AlwaysSerial, PTL DEF LifecycleSpec

(* A training whose own registry calls succeed leaves the version in force *)
(* restored, whatever state it found (training_outcome.py, line 157).      *)
THEOREM TrainingHeals == LifecycleSpec => []HealedByNextTraining
  <1>1. QuietInv => HealedByNextTraining
    BY DEF QuietInv, Progress, Healed, HealedByNextTraining
  <1> QED
    BY <1>1, AlwaysQuiet, PTL

(* With the gate on, the pointer never moves to a version that is          *)
(* measurably worse than the one it replaces.                              *)
THEOREM NoRegression == LifecycleSpec => NoUngatedRegression
  <1>1. ASSUME LifecycleSafe, QuietInv, Overlap = {}, GateEnabled, NEW t \in Threads, RecordPoint(t)
        PROVE  ~Worse(op[t].ver, current)
    <2>1. op[t].at = "point" /\ Safe /\ t \in Clients
      BY <1>1, ActorsAreClients DEF RecordPoint, LifecycleSafe
    <2>2. audit[t].at = "recording"
      BY <1>1, <2>1 DEF LifecycleSafe, AuditPlaced, Recording
    <2> DEFINE verdict == EvaluateChallenger(audit[t].score, ScoreOf(current))
    <2>3. verdict # "reject" /\ snap[op[t].ver].score = audit[t].score
      BY <1>1, <2>1, <2>2 DEF QuietInv, Progress, RecordingDone, Judged, UpdatePointer
    <2>4. ScoreOf(op[t].ver) = audit[t].score
      BY <2>1, <2>3 DEF Safe, VersionInv, RegistryTypeOK, VersionIds, ScoreOf, NoVersion
    <2>5. ScoreOf(current) \in Scores /\ audit[t].score \in Scores
      BY <1>1, <2>1, LifecycleScoresAssumption
         DEF LifecycleSafe, OutcomeTypeOK, Audits, Safe, RegistryTypeOK, Manifests, VersionIds,
             ScoreOf, NoVersion
    <2>6. ScoreOf(current) # NoScore =>
             audit[t].score # NoScore /\ ~(audit[t].score - ScoreOf(current) < -Threshold)
      BY <2>3 DEF EvaluateChallenger
    <2>7. Threshold \in Int
      BY ToleranceAssumption DEF Threshold
    <2> QED
      BY <2>4, <2>5, <2>6, <2>7, LifecycleScoresAssumption DEF Worse
  <1>2. LifecycleSafe /\ QuietInv /\ [LifecycleNext]_lifecycleVars =>
          (Overlap = {} /\ GateEnabled =>
              \A t \in Threads : RecordPoint(t) => ~Worse(op[t].ver, current))
    BY <1>1
  <1> QED
    BY <1>2, AlwaysQuiet, PTL DEF LifecycleSpec, NoUngatedRegression
-----------------------------------------------------------------------------
(* Trainings push in the order they start: no two are in flight together,  *)
(* and numbers go up.                                                      *)
Flying(t) == thread[t].pipe = "train" /\ InFlight(t)

StartOrder ==
    \A t, u \in Threads : u < t =>
        /\ thread[t].at # "unused" => thread[u].at # "unused"
        /\ Flying(u) /\ thread[t].pipe = "train" => thread[t].at = "unused"

(* Where a training is before its publish, and where it goes from there.   *)
Unpublished == {"unused", "work", "checkpoint", "publish"}
Published(t) ==
    \/ thread[t].at = "outcome"
    \/ thread[t].at = "finish" /\ thread[t].pipe = "train" /\ ~thread[t].skipped

Onward(t) ==
    /\ thread'[t].at \in Unpublished => thread[t].at \in Unpublished
    /\ Published(t)' => Published(t) \/ (thread[t].at = "publish" /\ thread[t].pipe = "train")
    /\ Flying(t)' => Flying(t) \/ thread[t].at = "unused"
    /\ thread[t].at # "unused" => thread'[t].at # "unused" /\ thread'[t].pipe = thread[t].pipe

Started(u) ==
    /\ Fresh(u) /\ (thread'[u].pipe = "train" => \A t \in Threads : ~Flying(t))
    /\ \A t \in Threads \ {u} : thread[t].at = "unused" => thread'[t].at = "unused"

NobodyStarts == \A t \in Threads : thread[t].at = "unused" => thread'[t].at = "unused"

LEMMA StayOnward ==
  ASSUME NEW t \in Threads, thread'[t] = thread[t]
  PROVE  Onward(t)
  BY DEF Onward, Published, Flying, InFlight

(* A step of one thread that starts nobody.                                *)
LEMMA GotoOnward ==
  ASSUME PipelineSafe, ChainInv, NEW u \in Threads,
         WorkDone(u) \/ WorkFails(u) \/ Publish(u) \/ Finish(u) \/ Outcome(u) \/ Hook(u)
         \/ Reconcile(u) \/ ChainRefused(u)
         \/ (\E autoInference \in BOOLEAN : ChainCheck(u, autoInference))
  PROVE  NobodyStarts /\ \A t \in Threads : Onward(t)
  <1>1. thread[u] \in ThreadRecords
    BY DEF PipelineSafe, PipelineTypeOK
  <1>2. PICK place \in Places :
          /\ Goto(u, place)
          /\ \/ thread[u].at = "work" /\ place \in {"checkpoint", "failed"}
             \/ thread[u].at = "publish" /\ place = "finish"
             \/ thread[u].at = "finish" /\ place \in {"hook", "chain"}
             \/ /\ thread[u].at = "finish" /\ place = "outcome"
                /\ thread[u].pipe = "train" /\ ~thread[u].skipped
             \/ thread[u].at = "outcome" /\ place = "chain"
             \/ thread[u].at \in {"chain", "spawn"} /\ place \in {"spawn", "done"}
             \/ thread[u].at \in {"hook", "reconcile"} /\ place \in {"reconcile", "done"}
    BY <1>1 DEF WorkDone, WorkFails, Publish, Finish, Outcome, Hook, Reconcile, ChainRefused,
           ChainCheck, Places, AfterFinish, ThreadRecords, Pipelines
  <1>3. /\ thread'[u].at = place /\ thread'[u].pipe = thread[u].pipe
        /\ thread'[u].skipped = thread[u].skipped
        /\ \A w \in Threads : w # u => thread'[w] = thread[w]
    BY <1>2, GotoEffect DEF PipelineSafe
  <1>4. Onward(u)
    BY <1>2, <1>3 DEF Onward, Published, Unpublished, Flying, InFlight
  <1>5. NobodyStarts
    BY <1>2, <1>3 DEF NobodyStarts
  <1> QED
    BY <1>3, <1>4, <1>5, StayOnward

LEMMA PlacesOnward ==
  ASSUME PipelineSafe, ChainInv, [PipelineNext]_pipelineVars
  PROVE  /\ \A t \in Threads : Onward(t)
         /\ NobodyStarts \/ \E u \in Threads : Started(u)
  <1> DEFINE Effect == /\ \A t \in Threads : Onward(t)
                       /\ NobodyStarts \/ \E u \in Threads : Started(u)
  <1>1. thread \in [Threads -> ThreadRecords]
    BY DEF PipelineSafe, PipelineTypeOK
  <1>2. CASE UNCHANGED pipelineVars \/ Shutdown
    BY <1>2, StayOnward DEF pipelineVars, Shutdown, NobodyStarts
  <1>3. ASSUME NEW u \in Threads, NEW p \in Pipelines, NEW trigger \in Triggers,
               Start(p, trigger, u)
        PROVE  Effect
    <2>1. /\ thread[u].at = "unused" /\ thread'[u].at = "work" /\ thread'[u].pipe = p
          /\ \A w \in Threads \ {u} : thread'[w] = thread[w]
      BY <1>1, <1>3 DEF Start, Spawned, Fresh
    <2>2. Onward(u)
      BY <2>1 DEF Onward, Published, Unpublished
    <2>3. p = "train" => \A t \in Threads : ~Flying(t)
      <3>1. p = "train" => run["train"].status # "running"
        BY <1>3 DEF Start, Admits, Running
      <3>2. ASSUME NEW t \in Threads, Flying(t) PROVE run["train"].status = "running"
        <4>1. run[thread[t].pipe] = [status |-> "running", trigger |-> thread[t].trigger,
                                     chained |-> thread[t].chained]
          BY <3>2 DEF PipelineSafe, RecordIsOwn, Flying
        <4> QED
          BY <3>2, <4>1 DEF Flying
      <3> QED
        BY <3>1, <3>2
    <2>4. Started(u)
      BY <1>3, <2>1, <2>3 DEF Started, Start
    <2> QED
      BY <2>1, <2>2, <2>4, StayOnward
  <1>4. ASSUME NEW u \in Threads, Checkpoint(u) PROVE Effect
    <2> DEFINE stop == cancel[thread[u].pipe]
               place == IF stop THEN "finish" ELSE "publish"
               o == [[thread[u] EXCEPT !.at = place] EXCEPT !.skipped = stop]
    <2>1. thread[u] \in ThreadRecords /\ place \in {"finish", "publish"}
          /\ (place = "finish" => stop)
      BY <1>1
    <2>2. thread' = [thread EXCEPT ![u] = o] /\ thread[u].at = "checkpoint"
      BY <1>4, <2>1 DEF Checkpoint, ThreadRecords
    <2> HIDE DEF place, stop
    <2>3. o.at = place /\ o.pipe = thread[u].pipe /\ o.skipped = stop
      BY <2>1 DEF ThreadRecords
    <2> HIDE DEF o
    <2>4. thread'[u] = o /\ \A w \in Threads \ {u} : thread'[w] = thread[w]
      BY <1>1, <2>2
    <2>5. Onward(u)
      BY <2>1, <2>2, <2>3, <2>4 DEF Onward, Published, Unpublished, Flying, InFlight
    <2>6. NobodyStarts
      BY <2>2, <2>4 DEF NobodyStarts
    <2> QED
      BY <2>4, <2>5, <2>6, StayOnward
  <1>5. ASSUME NEW u \in Threads, NEW w \in Threads, ChainStart(u, w) PROVE Effect
    <2> DEFINE o == Spawned(w, "inference", "manual", TRUE)
               d == [thread[u] EXCEPT !.at = "done"]
    <2>1. u # w /\ thread[u].at = "spawn" /\ Fresh(w) /\ thread[w].at = "unused"
          /\ thread[u] \in ThreadRecords
      BY <1>1, <1>5 DEF ChainStart, Fresh
    <2>2. thread' = [[thread EXCEPT ![u] = d] EXCEPT ![w] = o]
      BY <1>1, <1>5, <2>1 DEF ChainStart
    <2>3. o.at = "work" /\ o.pipe = "inference" /\ d.at = "done" /\ d.pipe = thread[u].pipe
      BY <2>1 DEF Spawned, ThreadRecords
    <2> HIDE DEF o, d
    <2>4. thread'[w] = o /\ thread'[u] = d
          /\ \A x \in Threads \ {u, w} : thread'[x] = thread[x]
      BY <1>1, <2>1, <2>2
    <2>5. Onward(u) /\ Onward(w)
      BY <2>1, <2>3, <2>4 DEF Onward, Published, Unpublished, Flying, InFlight
    <2>6. Started(w)
      BY <2>1, <2>3, <2>4 DEF Started
    <2> QED
      BY <2>4, <2>5, <2>6, StayOnward
  <1>6. CASE Restart
    <2>1. ASSUME NEW t \in Threads, Alive(t) PROVE Onward(t) /\ thread[t].at # "unused"
      <3>1. thread'[t] = [thread[t] EXCEPT !.at = "dead"] /\ thread[t] \in ThreadRecords
        BY <1>1, <1>6, <2>1 DEF Restart
      <3>2. thread'[t].at = "dead" /\ thread'[t].pipe = thread[t].pipe
        BY <3>1 DEF ThreadRecords
      <3> QED
        BY <2>1, <3>2 DEF Onward, Published, Unpublished, Flying, InFlight, Alive
    <2>2. ASSUME NEW t \in Threads, ~Alive(t) PROVE thread'[t] = thread[t]
      BY <1>1, <1>6, <2>2 DEF Restart
    <2> QED
      BY <2>1, <2>2, StayOnward DEF NobodyStarts
  <1> HIDE DEF Effect
  <1>7. ASSUME NEW u \in Threads, ThreadStep(u) PROVE Effect
    BY <1>4, <1>5, <1>7, GotoOnward DEF ThreadStep, Advance, Effect
  <1>8. Effect
    BY <1>2, <1>3, <1>6, <1>7, TriggersAssumption
       DEF PipelineNext, StartTrain, StartInference, Pipelines, Effect
  <1> QED
    BY <1>8 DEF Effect

LEMMA OrderNext ==
  ASSUME PipelineSafe, ChainInv, StartOrder, [PipelineNext]_pipelineVars
  PROVE  StartOrder'
  <1>1. /\ \A t \in Threads : Onward(t)
        /\ NobodyStarts \/ \E u \in Threads : Started(u)
    BY PlacesOnward
  <1> SUFFICES ASSUME NEW t \in Threads, NEW u \in Threads, u < t, thread'[t].at # "unused"
               PROVE  thread'[u].at # "unused" /\ ~(Flying(u)' /\ thread'[t].pipe = "train")
    BY DEF StartOrder
  <1>2. CASE thread[t].at # "unused"
    <2>1. thread[u].at # "unused" /\ thread'[t].pipe = thread[t].pipe
      BY <1>1, <1>2 DEF StartOrder, Onward
    <2>2. Flying(u)' => Flying(u)
      BY <1>1, <2>1 DEF Onward
    <2> QED
      BY <1>1, <1>2, <2>1, <2>2 DEF StartOrder, Onward
  <1>3. CASE thread[t].at = "unused"
    <2>1. Started(t)
      BY <1>1, <1>3 DEF NobodyStarts, Started
    <2>2. u \in 1 .. t - 1
      BY MaxRunsAssumption DEF Threads
    <2>3. thread[u].at # "unused"
      BY <2>1, <2>2 DEF Started, Fresh
    <2>4. Flying(u)' => Flying(u)
      BY <1>1, <2>3 DEF Onward
    <2> QED
      BY <1>1, <2>1, <2>3, <2>4 DEF Started, Onward
  <1> QED
    BY <1>2, <1>3
-----------------------------------------------------------------------------
(* What the score of a training can be, and what makes it so: the table    *)
(* and the mirror never go back to an earlier training, and a training     *)
(* that was published without a miss is in both.                           *)
Measured(t) ==
    \/ t \in missed
    \/ audit[t].score = NoScore
    \/ \E u \in t .. MaxRuns : audit[t].score = quality[u]

PushOrder ==
    /\ mirror <= table
    /\ table # 0 => thread[table].at # "unused" /\ thread[table].pipe = "train"
    /\ \A t \in Threads :
          /\ thread[t].at \in Unpublished => quality[t] = NoScore
          /\ Published(t) => t \in missed \/ t <= mirror
          /\ Scored(t) => Measured(t)

(* Who moves the test predictions.                                         *)
Publishes(t) ==
    /\ Publish(t) /\ thread[t].pipe = "train" /\ PublishTest(t)
    /\ audit' = audit

LEMMA PublishingStep ==
  ASSUME NEW t \in Threads, PipelineStep(t), thread[t].at = "publish", thread[t].pipe = "train"
  PROVE  Publishes(t)
  BY DEF PipelineStep, Publishes, Advance, WorkFails, Checkpoint, Finish, Hook, Reconcile,
         ChainCheck, ChainRefused, ChainStart

LEMMA TestMoves ==
  ASSUME LifecycleSafe, [LifecycleNext]_lifecycleVars
  PROVE  \/ UNCHANGED testVars
         \/ ImportPredictions
         \/ \E t \in Threads : Publishes(t)
  <1> DEFINE Kept == UNCHANGED testVars
  <1>1. ASSUME NEW t \in Threads, LifecycleStep(t) PROVE Kept \/ Publishes(t)
    <2>1. OutcomeStep(t) => Kept
      BY DEF OutcomeStep, ReadRecord, NotSuccess, IsSuccess, Probe, Judge, Record, RecordReturns,
             RestoreChampion, RestoreReturns, RegistryRaises, WriteRow
    <2>2. PipelineStep(t) => Kept \/ Publishes(t)
      BY PublishingStep DEF PipelineStep
    <2> QED
      BY <1>1, <2>1, <2>2 DEF LifecycleStep, WipeArtifact, WipeCopy, WriteModel, WorkEnds,
           RegistryWork, outcomeVars
  <1>2. UNCHANGED lifecycleVars \/ TickReleases \/ TickLatches \/ OperatorStep \/ ShutDown
        \/ Reboot => Kept
    BY DEF lifecycleVars, TickReleases, TickLatches, OperatorStep, ShutDown, Reboot, outcomeVars
  <1>3. ASSUME NEW t \in Threads,
               ManualTrain(t) \/ (\E trigger \in Triggers : TickStarts(trigger, t))
               \/ (StartInference(t) /\ UNCHANGED <<registryVars, outcomeVars>>)
               \/ (\E v \in VersionIds, f \in Files : SweepFails(t, v, f))
        PROVE  Kept
    BY <1>3 DEF ManualTrain, TickStarts, StartTraining, SweepFails, outcomeVars
  <1>4. ASSUME NEW v \in VersionIds, OperatorRollsBack(v) PROVE Kept
    BY <1>4 DEF OperatorRollsBack, outcomeVars
  <1> HIDE DEF Kept
  <1>5. Kept \/ ImportPredictions \/ \E t \in Threads : Publishes(t)
    BY <1>1, <1>2, <1>3, <1>4 DEF LifecycleNext
  <1> QED
    BY <1>5 DEF Kept

(* A thread in its publish leaves it by publishing, or with the process.   *)
LEMMA PublisherStays ==
  ASSUME LifecycleSafe, [LifecycleNext]_lifecycleVars, NEW t \in Threads,
         thread[t].at = "publish", thread[t].pipe = "train", Published(t)'
  PROVE  Publishes(t)
  <1>1. thread \in [Threads -> ThreadRecords]
    BY DEF LifecycleSafe, PipelineSafe, PipelineTypeOK
  <1>2. thread'[t].at \in {"finish", "outcome"} /\ thread'[t] # thread[t]
    BY DEF Published
  <1>3. ASSUME NEW u \in Threads, LifecycleStep(u) PROVE Publishes(t)
    <2>1. UNCHANGED thread \/ WorkDone(u) \/ PipelineStep(u) \/ Outcome(u)
      BY <1>3 DEF LifecycleStep, WipeArtifact, WipeCopy, WriteModel, WorkEnds,
         RegistryWork, OutcomeStep, ReadRecord, NotSuccess, IsSuccess, Probe, Judge, Record,
         RecordReturns, RestoreChampion, RestoreReturns, RegistryRaises, WriteRow, pipelineVars
    <2>2. ~WorkDone(u) /\ ~Outcome(u)
      BY <1>1, <1>2 DEF WorkDone, Outcome, Goto
    <2>3. PipelineStep(u)
      BY <1>2, <2>1, <2>2
    <2>4. ASSUME u # t PROVE thread'[t] = thread[t]
      BY <1>1, <2>3, <2>4 DEF PipelineStep, Advance, WorkFails, Checkpoint, Publish, Finish,
           Hook, Reconcile, ChainCheck, ChainRefused, ChainStart, Fresh, Goto
    <2> QED
      BY <1>2, <2>3, <2>4, PublishingStep
  <1>4. ASSUME NEW u \in Threads,
               StartInference(u) \/ \E trigger \in Triggers : StartTrain(trigger, u)
        PROVE  FALSE
    BY <1>1, <1>2, <1>4 DEF StartInference, StartTrain, Start, Fresh
  <1>5. ASSUME NEW u \in Threads, ManualTrain(u) \/ \E trigger \in Triggers : TickStarts(trigger, u)
        PROVE  FALSE
    BY <1>4, <1>5, TriggersAssumption DEF ManualTrain, TickStarts, StartTraining
  <1>6. ~Reboot
    BY <1>1, <1>2 DEF Reboot, Restart, Alive, ThreadRecords
  <1>7. ASSUME \/ UNCHANGED lifecycleVars \/ TickReleases \/ TickLatches \/ ImportPredictions
               \/ OperatorStep \/ ShutDown
               \/ \E v \in VersionIds : OperatorRollsBack(v)
               \/ \E u \in Threads, v \in VersionIds, f \in Files : SweepFails(u, v, f)
        PROVE  FALSE
    BY <1>2, <1>7 DEF lifecycleVars, TickReleases, TickLatches, ImportPredictions, OperatorStep,
                ShutDown, Shutdown, OperatorRollsBack, SweepFails, pipelineVars
  <1> QED
    BY <1>3, <1>4, <1>5, <1>6, <1>7 DEF LifecycleNext

(* An audit gets its score from its probe and keeps it.                    *)
LEMMA ScoreKept ==
  ASSUME LifecycleSafe, [LifecycleNext]_lifecycleVars, NEW t \in Threads, Scored(t)'
  PROVE  Probe(t) \/ (Scored(t) /\ audit'[t].score = audit[t].score)
  <1>1. OutcomeTypeOK /\ audit \in [Threads -> Audits] /\ audit[t] \in Audits
    BY DEF LifecycleSafe, OutcomeTypeOK
  <1>2. /\ op[t].at \in Recording <=> audit[t].at = "recording"
        /\ op[t].at \in Restoring <=> audit[t].at = "restoring"
    BY DEF LifecycleSafe, AuditPlaced
  <1>3. ASSUME audit'[t].at \in {"none", "status", "probe"} PROVE FALSE
    BY <1>3 DEF Scored
  <1>4. ~ReadRecord(t)
    BY <1>1, <1>3 DEF ReadRecord, NoAudit
  <1>5. ~NotSuccess(t) /\ ~WriteRow(t) /\ ~Reboot
    BY <1>1, <1>3, NoAuditType DEF NotSuccess, WriteRow, Reboot
  <1>6. ~IsSuccess(t)
    BY <1>1, <1>3, AuditGotoEffect DEF IsSuccess, AuditPlaces
  <1>7. ASSUME Judge(t) PROVE Scored(t) /\ audit'[t].score = audit[t].score
    BY <1>1, <1>7 DEF Judge, Scored, Audits
  <1>8. ASSUME NEW place \in AuditPlaces, AuditGoto(t, place)
        PROVE  audit'[t].score = audit[t].score
    BY <1>1, <1>8, AuditGotoEffect
  <1>9. ASSUME audit' = [audit EXCEPT ![t].at = "row", ![t].clean = FALSE]
        PROVE  audit'[t].score = audit[t].score
    BY <1>1, <1>9, AuditSoiledEffect
  <1>10. ASSUME Record(t) \/ RecordReturns(t) \/ RestoreChampion(t) \/ RestoreReturns(t)
                \/ RegistryRaises(t)
         PROVE  Scored(t) /\ audit'[t].score = audit[t].score
    <2>1. Scored(t)
      BY <1>2, <1>10 DEF Scored, Record, RecordReturns, RecordEnd, RestoreChampion,
         RestoreReturns, RestoreEnd, RegistryRaises, RecordFails, RestoreFails, Recording, Restoring
    <2>2. \/ \E place \in AuditPlaces : AuditGoto(t, place)
          \/ audit' = [audit EXCEPT ![t].at = "row", ![t].clean = FALSE]
      BY <1>10 DEF Record, RecordReturns, RestoreChampion, RestoreReturns, RegistryRaises,
                   AuditPlaces
    <2> QED
      BY <1>8, <1>9, <2>1, <2>2
  <1> QED
    BY <1>4, <1>5, <1>6, <1>7, <1>10, Bystander DEF OutcomeStep, Scored

LEMMA PushOrderNext ==
  ASSUME LifecycleSafe, StartOrder, PushOrder, [LifecycleNext]_lifecycleVars
  PROVE  PushOrder'
  <1>1. /\ OutcomeTypeOK /\ AuditPlaced /\ MaxRuns \in Nat
        /\ table \in 0 .. MaxRuns /\ mirror \in 0 .. MaxRuns
    BY MaxRunsAssumption DEF LifecycleSafe, OutcomeTypeOK
  <1>2. \A t \in Threads : Onward(t)
    BY StepComposes, PlacesOnward DEF LifecycleSafe
  (* Up to the publish of a training, the table is not ahead of it. *)
  <1>3. ASSUME NEW t \in Threads, Publishes(t)
        PROVE  /\ table <= t /\ quality[t] = NoScore
               /\ \A u \in Threads \ {t} : thread'[u] = thread[u]
               /\ thread'[t].at = "finish"
    <2>1. Flying(t) /\ thread[t].at = "publish"
      BY <1>3 DEF Publishes, Publish, Flying, InFlight
    <2>2. table > t => table \in Threads /\ table # 0
      BY <1>1 DEF Threads
    <2>3. table > t => FALSE
      BY <2>1, <2>2 DEF StartOrder, PushOrder
    <2>4. /\ thread'[t].at = "finish" /\ \A u \in Threads : u # t => thread'[u] = thread[u]
      <3>1. PipelineTypeOK /\ "finish" \in Places /\ Goto(t, "finish")
        BY <1>3 DEF Publishes, Publish, LifecycleSafe, PipelineSafe, Places
      <3> QED
        BY <3>1, GotoEffect
    <2> QED
      BY <1>1, <2>1, <2>3, <2>4 DEF PushOrder, Unpublished, Threads
  <1>4. /\ mirror' <= table'
        /\ table' # 0 => thread'[table'].at # "unused" /\ thread'[table'].pipe = "train"
        /\ mirror <= mirror' /\ missed \subseteq missed'
    <2>1. ASSUME NEW t \in Threads, Publishes(t)
          PROVE  /\ mirror' <= table' /\ mirror <= mirror' /\ missed \subseteq missed'
                 /\ table' \in {table, t} /\ thread[t].at # "unused" /\ thread[t].pipe = "train"
      BY <1>1, <1>3, <2>1, PublishTestType DEF PushOrder, Publishes, Publish, Threads
    <2>2. ASSUME UNCHANGED testVars \/ ImportPredictions
          PROVE  /\ mirror' <= table' /\ mirror <= mirror' /\ missed \subseteq missed'
                 /\ table' = table
      BY <1>1, <2>2 DEF testVars, ImportPredictions, PushOrder
    <2>3. table # 0 => table \in Threads
      BY <1>1 DEF Threads
    <2> QED
      BY <1>2, <2>1, <2>2, <2>3, TestMoves DEF PushOrder, Onward
  <1>5. ASSUME NEW t \in Threads, thread'[t].at \in Unpublished PROVE quality'[t] = NoScore
    <2>1. quality[t] = NoScore
      BY <1>2, <1>5 DEF PushOrder, Onward
    <2>2. ASSUME NEW u \in Threads, Publishes(u) PROVE quality'[t] = quality[t]
      <3>1. u # t
        BY <1>3, <1>5, <2>2 DEF Unpublished
      <3> QED
        BY <1>1, <2>2, <3>1, PublishTestType DEF Publishes
    <2> QED
      BY <2>1, <2>2, TestMoves DEF testVars, ImportPredictions
  <1>6. ASSUME NEW t \in Threads, Published(t)' PROVE t \in missed' \/ t <= mirror'
    <2>1. CASE Published(t)
      <3>1. mirror' \in 0 .. MaxRuns
        BY NextPlaced DEF OutcomeTypeOK
      <3>2. t \in missed \/ t <= mirror
        BY <2>1 DEF PushOrder
      <3> QED
        BY <1>1, <1>4, <3>1, <3>2 DEF Threads
    <2>2. CASE thread[t].at = "publish" /\ thread[t].pipe = "train"
      <3>1. Publishes(t)
        BY <1>6, <2>2, PublisherStays
      <3> QED
        BY <1>1, <3>1, PublishTestType DEF Publishes, Threads
    <2> QED
      BY <1>2, <1>6, <2>1, <2>2 DEF Onward
  <1>7. ASSUME NEW t \in Threads, Scored(t)' PROVE Measured(t)'
    <2>1. CASE Probe(t)
      <3>1. /\ UNCHANGED <<quality, mirror, missed>>
            /\ audit'[t].score \in {MirroredQuality, NoScore}
        BY <1>1, <2>1 DEF Probe, testVars, OutcomeTypeOK, Audits
      <3>2. OutcomeStep(t)
        BY <2>1 DEF OutcomeStep
      <3>3. thread[t].at = "outcome"
        BY <3>2, AuditsInHook
      <3>4. t \in missed \/ t <= mirror
        BY <3>3 DEF PushOrder, Published
      <3>5. t <= mirror => mirror \in t .. MaxRuns /\ MirroredQuality = quality[mirror]
        BY <1>1 DEF MirroredQuality, Threads
      <3> QED
        BY <3>1, <3>4, <3>5 DEF Measured
    <2>2. CASE Scored(t) /\ audit'[t].score = audit[t].score
      <3>1. Measured(t)
        BY <2>2 DEF PushOrder
      <3>2. ASSUME NEW u \in Threads, Publishes(u), audit[t].score = quality[u]
            PROVE  audit[t].score = NoScore
        BY <1>3, <3>2
      <3>3. \A u \in t .. MaxRuns : u \in Threads
        BY <1>1 DEF Threads
      <3>4. ASSUME NEW u \in Threads, Publishes(u), NEW w \in Threads, w # u
            PROVE  quality'[w] = quality[w]
        BY <1>1, <3>4, PublishTestType DEF Publishes
      <3>5. (\E u \in Threads : Publishes(u)) \/ quality' = quality
        BY TestMoves DEF testVars, ImportPredictions
      <3> QED
        BY <1>4, <2>2, <3>1, <3>2, <3>3, <3>4, <3>5 DEF Measured
    <2> QED
      BY <1>7, <2>1, <2>2, ScoreKept
  <1> QED
    BY <1>4, <1>5, <1>6, <1>7 DEF PushOrder

LEMMA AlwaysPushOrder == LifecycleSpec => [](LifecycleSafe /\ StartOrder /\ PushOrder)
  <1>1. ASSUME LifecycleInit PROVE StartOrder /\ PushOrder
    <2>1. \A t \in Threads : thread[t].at = "unused" /\ audit[t].at = "none" /\ quality[t] = NoScore
      BY <1>1, NoAuditType DEF LifecycleInit, PipelineInit, Unused
    <2>2. table = 0 /\ mirror = 0
      BY <1>1 DEF LifecycleInit
    <2> QED
      BY <2>1, <2>2 DEF StartOrder, PushOrder, Flying, InFlight, Published, Scored
  <1>2. LifecycleSafe /\ StartOrder /\ [LifecycleNext]_lifecycleVars => StartOrder'
    BY StepComposes, OrderNext DEF LifecycleSafe
  <1> QED
    BY <1>1, <1>2, LifecycleInitSafe, LifecycleNextSafe, PushOrderNext, PTL DEF LifecycleSpec

(* However trainings, imports, rollbacks and failed publishes of others    *)
(* interleave, a training whose push and re-import succeeded is judged on  *)
(* the Test rows as it or a later training left them, or on none.          *)
THEOREM ScoresMeasured == LifecycleSpec => []ScoresAreMeasured
  <1>1. PushOrder => ScoresAreMeasured
    BY DEF PushOrder, Measured, ScoresAreMeasured
  <1> QED
    BY <1>1, AlwaysPushOrder, PTL
=============================================================================
