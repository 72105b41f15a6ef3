------------------------ MODULE ForecastServiceProofs ------------------------
(***************************************************************************)
(* Theorems of the two components that TrainingLifecycle composes, each of *)
(* them on its own: the pipeline service first, then the model registry.   *)
(***************************************************************************)
EXTENDS PipelineService, ModelRegistry, TLAPS, Integers, FiniteSetTheorems, WellFoundedInduction

-----------------------------------------------------------------------------
(***************************************************************************)
(* Theorems of PipelineService, for any number of runs and any triggers.   *)
(* That the shared record is about the run in flight (RecordIsOwn) and     *)
(* that there is one such run (SingleFlight) are inductive together: each  *)
(* needs the other across the trigger and across the final status.         *)
(***************************************************************************)

(* Only a training gets to the steps that chain an inference, and only an  *)
(* inference to those that chain a reconciliation; a chained record, a     *)
(* cascade about to fire and a fired one have a training behind.           *)
ChainInv ==
    /\ \A t \in Threads :
          /\ thread[t].at \in {"outcome", "chain", "spawn"} => thread[t].pipe = "train"
          /\ thread[t].at \in {"hook", "reconcile"} => thread[t].pipe = "inference"
    /\ \/ run["inference"].chained
       \/ reconciled # {}
       \/ \E t \in Threads : thread[t].at = "reconcile"
       => \E t \in Threads : Completed(t)

PipelineSafe == PipelineTypeOK /\ SingleFlight /\ RecordIsOwn

(* A new process has no run, no thread and no cascade behind it. *)
THEOREM PipelineInitSafe == PipelineInit => PipelineSafe /\ ChainInv
  <1> SUFFICES ASSUME PipelineInit PROVE PipelineSafe /\ ChainInv
    OBVIOUS
  <1>1. Unused \in ThreadRecords /\ IdleRun \in Runs
    BY TriggersAssumption
       DEF Unused, ThreadRecords, IdleRun, Runs, Pipelines, Places, Statuses
  <1>2. PipelineTypeOK
    BY <1>1 DEF PipelineInit, PipelineTypeOK
  <1>3. \A t \in Threads : ~InFlight(t) /\ thread[t].at = "unused"
    BY DEF PipelineInit, InFlight, Unused
  <1>4. \A p \in Pipelines : ~Running(p) /\ ~run[p].chained
    BY DEF PipelineInit, Running, IdleRun
  <1> QED
    BY <1>2, <1>3, <1>4
       DEF PipelineInit, PipelineSafe, SingleFlight, RecordIsOwn, ChainInv, Pipelines

(* Moving a thread changes its place and nothing else. *)
LEMMA GotoEffect ==
  ASSUME PipelineTypeOK, NEW t \in Threads, NEW place \in Places, Goto(t, place)
  PROVE  /\ thread' \in [Threads -> ThreadRecords]
         /\ thread'[t].at = place
         /\ thread'[t].pipe = thread[t].pipe
         /\ thread'[t].trigger = thread[t].trigger
         /\ thread'[t].chained = thread[t].chained
         /\ thread'[t].skipped = thread[t].skipped
         /\ \A u \in Threads : u # t => thread'[u] = thread[u]
  BY DEF Goto, PipelineTypeOK, ThreadRecords

(* A run is admitted: the thread that starts is the only one in flight.    *)
LEMMA AdmitSafe ==
  ASSUME PipelineSafe, NEW p \in Pipelines, NEW trigger \in Triggers, NEW chained \in BOOLEAN,
         NEW t \in Threads, ~InFlight(t), ~Running(p),
         Admitted(p, trigger, chained),
         thread' \in [Threads -> ThreadRecords],
         thread'[t] = Spawned(t, p, trigger, chained),
         \A u \in Threads \ {t} : thread'[u].pipe = thread[u].pipe
            /\ thread'[u].trigger = thread[u].trigger /\ thread'[u].chained = thread[u].chained,
         \A u \in Threads \ {t} : InFlight(u)' <=> InFlight(u),
         UNCHANGED <<cancel, trained, reconciled>>
  PROVE  PipelineSafe'
  <1>1. run' \in [Pipelines -> Runs]
    BY DEF Admitted, PipelineSafe, PipelineTypeOK, Runs, Statuses
  <1>2. /\ run'[p] = [status |-> "running", trigger |-> trigger, chained |-> chained]
        /\ \A q \in Pipelines \ {p} : run'[q] = run[q]
    BY DEF Admitted, PipelineSafe, PipelineTypeOK
  <1>3. thread'[t].pipe = p /\ thread'[t].trigger = trigger /\ thread'[t].chained = chained
        /\ InFlight(t)'
    BY DEF Spawned, InFlight
  <1>4. \A u \in Threads : InFlight(u) => thread[u].pipe # p
    <2> SUFFICES ASSUME NEW u \in Threads, InFlight(u), thread[u].pipe = p PROVE FALSE
      OBVIOUS
    <2>1. run[p] = [status |-> "running", trigger |-> thread[u].trigger,
                    chained |-> thread[u].chained]
      BY DEF PipelineSafe, RecordIsOwn
    <2>2. run[p].status = "running"
      BY <2>1
    <2> QED
      BY <2>2 DEF Running
  <1>5. \A u \in Threads : thread[u].pipe \in Pipelines
    BY DEF PipelineSafe, PipelineTypeOK, ThreadRecords
  <1>6. PipelineTypeOK'
    BY <1>1 DEF PipelineSafe, PipelineTypeOK
  <1>7. SingleFlight'
    BY <1>3, <1>4 DEF PipelineSafe, SingleFlight
  <1>8. RecordIsOwn'
    <2>1. ASSUME NEW u \in Threads, InFlight(u)'
          PROVE  run'[thread'[u].pipe] = [status |-> "running", trigger |-> thread'[u].trigger,
                                          chained |-> thread'[u].chained]
      <3>1. CASE u = t
        BY <3>1, <1>2, <1>3
      <3>2. CASE u # t
        BY <2>1, <3>2, <1>2, <1>4, <1>5 DEF PipelineSafe, RecordIsOwn
      <3> QED
        BY <3>1, <3>2
    <2>2. ASSUME NEW q \in Pipelines, Running(q)'
          PROVE  \E u \in Threads : InFlight(u)' /\ thread'[u].pipe = q
      <3>1. CASE q = p
        BY <3>1, <1>3
      <3>2. CASE q # p
        <4>1. Running(q)
          BY <2>2, <3>2, <1>2 DEF Running
        <4>2. PICK u \in Threads : InFlight(u) /\ thread[u].pipe = q
          BY <4>1 DEF PipelineSafe, RecordIsOwn
        <4> QED
          BY <4>2
      <3> QED
        BY <3>1, <3>2
    <2> QED
      BY <2>1, <2>2 DEF RecordIsOwn
  <1> QED
    BY <1>6, <1>7, <1>8 DEF PipelineSafe

(* A step that changes neither the records nor who is in flight. *)
LEMMA QuietSafe ==
  ASSUME PipelineSafe, run' = run, thread' \in [Threads -> ThreadRecords],
         \A u \in Threads : /\ thread'[u].pipe = thread[u].pipe
                            /\ thread'[u].trigger = thread[u].trigger
                            /\ thread'[u].chained = thread[u].chained,
         \A u \in Threads : InFlight(u)' <=> InFlight(u),
         cancel' \in [Pipelines -> BOOLEAN], trained' \in BOOLEAN, reconciled' \subseteq Threads
  PROVE  PipelineSafe'
  <1>1. \A p \in Pipelines : Running(p)' <=> Running(p)
    BY DEF Running
  <1>2. PipelineTypeOK'
    BY DEF PipelineSafe, PipelineTypeOK
  <1>3. SingleFlight' /\ RecordIsOwn'
    BY <1>1 DEF PipelineSafe, SingleFlight, RecordIsOwn
  <1> QED
    BY <1>2, <1>3 DEF PipelineSafe

(* A thread moves on within its flight, or within its tail. *)
LEMMA MoveSafe ==
  ASSUME PipelineSafe, NEW t \in Threads, NEW place \in Places, Goto(t, place),
         InFlight(t) <=> place \in {"work", "checkpoint", "publish", "finish"}, run' = run,
         cancel' \in [Pipelines -> BOOLEAN], trained' \in BOOLEAN, reconciled' \subseteq Threads
  PROVE  PipelineSafe'
  <1>1. \A u \in Threads : InFlight(u)' <=> InFlight(u)
    BY GotoEffect DEF PipelineSafe, InFlight
  <1> QED
    BY <1>1, GotoEffect, QuietSafe DEF PipelineSafe

(* A run reports its final status: its pipeline has nobody in flight.      *)
LEMMA EndSafe ==
  ASSUME PipelineSafe, NEW t \in Threads, InFlight(t), NEW place \in Places, Goto(t, place),
         place \notin {"work", "checkpoint", "publish", "finish"},
         NEW status \in {"success", "failed"},
         run' = [run EXCEPT ![thread[t].pipe].status = status],
         UNCHANGED <<cancel, trained, reconciled>>
  PROVE  PipelineSafe'
  <1> DEFINE p == thread[t].pipe
  <1>1. /\ thread' \in [Threads -> ThreadRecords]
        /\ \A u \in Threads : /\ thread'[u].pipe = thread[u].pipe
                               /\ thread'[u].trigger = thread[u].trigger
                               /\ thread'[u].chained = thread[u].chained
        /\ thread'[t].at = place
        /\ \A u \in Threads : u # t => thread'[u] = thread[u]
    BY GotoEffect DEF PipelineSafe
  <1>2. ~InFlight(t)' /\ \A u \in Threads : u # t => (InFlight(u)' <=> InFlight(u))
    BY <1>1 DEF InFlight
  <1>3. p \in Pipelines /\ run \in [Pipelines -> Runs]
    BY DEF PipelineSafe, PipelineTypeOK, ThreadRecords
  <1>4. run' \in [Pipelines -> Runs]
    BY <1>3 DEF Runs, Statuses
  <1>5. run'[p].status # "running" /\ \A q \in Pipelines \ {p} : run'[q] = run[q]
    BY <1>3 DEF Runs
  <1>6. \A u \in Threads : u # t /\ InFlight(u) => thread[u].pipe # p
    BY DEF PipelineSafe, SingleFlight
  <1>7. PipelineTypeOK'
    BY <1>1, <1>4 DEF PipelineSafe, PipelineTypeOK
  <1>8. SingleFlight'
    BY <1>1, <1>2 DEF PipelineSafe, SingleFlight
  <1>9. \A u \in Threads : thread[u].pipe \in Pipelines
    BY DEF PipelineSafe, PipelineTypeOK, ThreadRecords
  <1>10. ASSUME NEW u \in Threads, InFlight(u)'
         PROVE  run'[thread'[u].pipe] = [status |-> "running", trigger |-> thread'[u].trigger,
                                         chained |-> thread'[u].chained]
    <2>1. u # t /\ InFlight(u) /\ thread[u].pipe \in Pipelines \ {p}
      BY <1>2, <1>6, <1>9, <1>10
    <2>2. run'[thread[u].pipe] = run[thread[u].pipe]
      BY <1>5, <2>1
    <2> QED
      BY <1>1, <2>1, <2>2 DEF PipelineSafe, RecordIsOwn
  <1>11. ASSUME NEW q \in Pipelines, Running(q)'
         PROVE  \E u \in Threads : InFlight(u)' /\ thread'[u].pipe = q
    <2>1. q # p /\ Running(q)
      BY <1>5, <1>11 DEF Running
    <2>2. PICK u \in Threads : InFlight(u) /\ thread[u].pipe = q
      BY <2>1 DEF PipelineSafe, RecordIsOwn
    <2> QED
      BY <1>1, <1>2, <2>1, <2>2
  <1> QED
    BY <1>7, <1>8, <1>10, <1>11 DEF PipelineSafe, RecordIsOwn

LEMMA StartSafe ==
  ASSUME PipelineSafe, NEW p \in Pipelines, NEW trigger \in Triggers, NEW t \in Threads,
         Start(p, trigger, t)
  PROVE  PipelineSafe'
  <1>1. Spawned(t, p, trigger, FALSE) \in ThreadRecords
    BY DEF Spawned, ThreadRecords, Places
  <1>2. /\ thread' \in [Threads -> ThreadRecords]
        /\ thread'[t] = Spawned(t, p, trigger, FALSE)
        /\ \A u \in Threads \ {t} : thread'[u] = thread[u]
    BY <1>1 DEF Start, PipelineSafe, PipelineTypeOK
  <1>3. ~InFlight(t) /\ ~Running(p) /\ Admitted(p, trigger, FALSE)
        /\ UNCHANGED <<cancel, trained, reconciled>>
    BY DEF Start, Fresh, Admits, InFlight
  <1>4. \A u \in Threads \ {t} : InFlight(u)' <=> InFlight(u)
    BY <1>2 DEF InFlight
  <1> QED
    BY <1>2, <1>3, <1>4, AdmitSafe

LEMMA ChainStartSafe ==
  ASSUME PipelineSafe, NEW t \in Threads, NEW u \in Threads, ChainStart(t, u)
  PROVE  PipelineSafe'
  <1> DEFINE o == Spawned(u, "inference", "manual", TRUE)
  <1>1. o \in ThreadRecords
    BY TriggersAssumption DEF Spawned, ThreadRecords, Places, Pipelines
  <1>2. t # u /\ thread[t].at = "spawn" /\ thread[u].at = "unused"
    BY DEF ChainStart, Fresh
  <1>3. thread' = [[thread EXCEPT ![t] = [thread[t] EXCEPT !.at = "done"]] EXCEPT ![u] = o]
    BY <1>2 DEF ChainStart, PipelineSafe, PipelineTypeOK
  <1>4. [thread[t] EXCEPT !.at = "done"] \in ThreadRecords
    BY DEF PipelineSafe, PipelineTypeOK, ThreadRecords, Places
  <1> HIDE DEF o
  <1>5. /\ thread' \in [Threads -> ThreadRecords]
        /\ thread'[u] = o
        /\ \A w \in Threads \ {t, u} : thread'[w] = thread[w]
        /\ thread'[t] = [thread[t] EXCEPT !.at = "done"]
    BY <1>1, <1>2, <1>3, <1>4 DEF PipelineSafe, PipelineTypeOK
  <1>6. /\ thread'[t].at = "done" /\ thread'[t].pipe = thread[t].pipe
        /\ thread'[t].trigger = thread[t].trigger /\ thread'[t].chained = thread[t].chained
    BY <1>5 DEF PipelineSafe, PipelineTypeOK, ThreadRecords
  <1>7. \A w \in Threads \ {u} : InFlight(w)' <=> InFlight(w)
    BY <1>2, <1>5, <1>6 DEF InFlight
  <1>8. ~InFlight(u) /\ ~Running("inference") /\ Admitted("inference", "manual", TRUE)
        /\ UNCHANGED <<cancel, trained, reconciled>>
    BY <1>2 DEF ChainStart, Admits, InFlight
  <1>9. \A w \in Threads \ {u} : /\ thread'[w].pipe = thread[w].pipe
                                  /\ thread'[w].trigger = thread[w].trigger
                                  /\ thread'[w].chained = thread[w].chained
    BY <1>5, <1>6
  <1>10. "inference" \in Pipelines /\ "manual" \in Triggers /\ TRUE \in BOOLEAN
    BY TriggersAssumption DEF Pipelines
  <1> QED
    BY <1>5, <1>7, <1>8, <1>9, <1>10, AdmitSafe DEF o

LEMMA RestartSafe ==
  ASSUME PipelineSafe, Restart
  PROVE  PipelineSafe'
  <1>1. IdleRun \in Runs
    BY TriggersAssumption DEF IdleRun, Runs, Statuses
  <1>2. ASSUME NEW t \in Threads PROVE thread'[t] \in ThreadRecords /\ ~InFlight(t)'
    <2>1. CASE Alive(t)
      BY <2>1 DEF Restart, InFlight, PipelineSafe, PipelineTypeOK, ThreadRecords, Places
    <2>2. CASE ~Alive(t)
      BY <2>2 DEF Restart, InFlight, Alive, PipelineSafe, PipelineTypeOK
    <2> QED
      BY <2>1, <2>2
  <1>3. thread' \in [Threads -> ThreadRecords]
    BY <1>2 DEF Restart
  <1>4. \A p \in Pipelines : ~Running(p)'
    BY DEF Restart, Running, IdleRun
  <1> QED
    BY <1>1, <1>2, <1>3, <1>4
       DEF Restart, PipelineSafe, PipelineTypeOK, SingleFlight, RecordIsOwn

(* Every trigger, step of a thread, shutdown and restart keeps one run in  *)
(* flight per pipeline, and its record about it.                           *)
THEOREM PipelineNextSafe == PipelineSafe /\ [PipelineNext]_pipelineVars => PipelineSafe'
  <1> SUFFICES ASSUME PipelineSafe, [PipelineNext]_pipelineVars PROVE PipelineSafe'
    OBVIOUS
  <1> USE DEF Places
  <1>0. /\ cancel \in [Pipelines -> BOOLEAN] /\ trained \in BOOLEAN /\ reconciled \subseteq Threads
        /\ thread \in [Threads -> ThreadRecords]
    BY DEF PipelineSafe, PipelineTypeOK
  <1>1. CASE UNCHANGED pipelineVars
    BY <1>0, <1>1, QuietSafe DEF pipelineVars, InFlight
  <1>2. ASSUME NEW t \in Threads,
               StartInference(t) \/ \E trigger \in Triggers : StartTrain(trigger, t)
        PROVE  PipelineSafe'
    BY <1>2, TriggersAssumption, StartSafe DEF StartTrain, StartInference, Pipelines
  <1>3. ASSUME NEW t \in Threads, WorkDone(t) PROVE PipelineSafe'
    BY <1>0, <1>3, MoveSafe DEF WorkDone, InFlight
  <1>4. ASSUME NEW t \in Threads, WorkFails(t) PROVE PipelineSafe'
    BY <1>4, EndSafe DEF WorkFails, InFlight
  <1>5. ASSUME NEW t \in Threads, Checkpoint(t) PROVE PipelineSafe'
    <2> DEFINE stop == cancel[thread[t].pipe]
               o == [[thread[t] EXCEPT !.at = IF stop THEN "finish" ELSE "publish"]
                        EXCEPT !.skipped = stop]
    <2>1. thread[t] \in ThreadRecords /\ stop \in BOOLEAN
      BY <1>0 DEF ThreadRecords
    <2>2. /\ o \in ThreadRecords /\ o.at \in {"finish", "publish"} /\ o.pipe = thread[t].pipe
          /\ o.trigger = thread[t].trigger /\ o.chained = thread[t].chained
      <3> HIDE DEF stop
      <3> QED
        BY <2>1 DEF ThreadRecords
    <2>3. thread' = [thread EXCEPT ![t] = o]
      BY <1>5, <2>1 DEF Checkpoint, ThreadRecords
    <2> HIDE DEF o
    <2>4. /\ thread' \in [Threads -> ThreadRecords] /\ thread'[t] = o
          /\ \A u \in Threads \ {t} : thread'[u] = thread[u]
      BY <1>0, <2>2, <2>3
    <2>5. \A u \in Threads : InFlight(u)' <=> InFlight(u)
      BY <1>5, <2>2, <2>4 DEF Checkpoint, InFlight
    <2> QED
      BY <1>0, <1>5, <2>2, <2>4, <2>5, QuietSafe DEF Checkpoint
  <1>6. ASSUME NEW t \in Threads, Publish(t) PROVE PipelineSafe'
    BY <1>0, <1>6, MoveSafe DEF Publish, InFlight
  <1>7. ASSUME NEW t \in Threads, Finish(t) PROVE PipelineSafe'
    BY <1>7, EndSafe DEF Finish, AfterFinish, InFlight
  <1>8. ASSUME NEW t \in Threads,
               Outcome(t) \/ Hook(t) \/ Reconcile(t) \/ ChainRefused(t)
               \/ (\E autoInference \in BOOLEAN : ChainCheck(t, autoInference))
        PROVE  PipelineSafe'
    BY <1>0, <1>8, MoveSafe DEF Outcome, Hook, Reconcile, ChainRefused, ChainCheck, InFlight
  <1>9. ASSUME NEW t \in Threads, ThreadStep(t) PROVE PipelineSafe'
    BY <1>3, <1>4, <1>5, <1>6, <1>7, <1>8, <1>9, ChainStartSafe DEF ThreadStep, Advance
  <1>10. CASE Shutdown
    BY <1>0, <1>10, QuietSafe DEF Shutdown, InFlight
  <1>11. CASE PipelineNext
    BY <1>2, <1>9, <1>10, <1>11, RestartSafe DEF PipelineNext
  <1> QED
    BY <1>1, <1>11

LEMMA AlwaysPipelineSafe == PipelineSpec => []PipelineSafe
  <1>1. PipelineInit => PipelineSafe
    BY PipelineInitSafe
  <1> QED
    BY <1>1, PipelineNextSafe, PTL DEF PipelineSpec

(* The pipeline's state keeps its shape. *)
THEOREM PipelineTypeCorrect == PipelineSpec => []PipelineTypeOK
  BY AlwaysPipelineSafe, PTL DEF PipelineSafe

(* One run of a pipeline at a time, for any number of callers, with chains *)
(* and restarts.                                                           *)
THEOREM OneRunAtATime == PipelineSpec => []SingleFlight
  BY AlwaysPipelineSafe, PTL DEF PipelineSafe

(* While a run is in flight nobody else's trigger is in the shared record. *)
THEOREM RecordBelongsToRun == PipelineSpec => []RecordIsOwn
  BY AlwaysPipelineSafe, PTL DEF PipelineSafe
-----------------------------------------------------------------------------
(* A completed training stays completed: no step touches its thread again. *)
LEMMA CompletedStays ==
  ASSUME PipelineSafe, [PipelineNext]_pipelineVars, NEW t \in Threads, Completed(t)
  PROVE  Completed(t)'
  <1>1. thread \in [Threads -> ThreadRecords] /\ thread[t].at = "done"
    BY DEF PipelineSafe, PipelineTypeOK, Completed
  <1>2. ASSUME NEW u \in Threads,
               StartInference(u) \/ (\E trigger \in Triggers : StartTrain(trigger, u)) \/ ThreadStep(u)
        PROVE  thread'[t] = thread[t]
    BY <1>1, <1>2
       DEF StartInference, StartTrain, Start, Fresh, ThreadStep, Advance, WorkDone, WorkFails,
           Checkpoint, Publish, Finish, Hook, Reconcile, ChainCheck, ChainRefused, ChainStart,
           Outcome, Goto
  <1>3. Shutdown \/ Restart \/ UNCHANGED pipelineVars => thread'[t] = thread[t]
    BY <1>1 DEF Shutdown, Restart, Alive, pipelineVars
  <1>4. thread'[t] = thread[t]
    BY <1>2, <1>3 DEF PipelineNext
  <1> QED
    BY <1>4 DEF Completed

(* What a step may do to the three signs of a cascade.                     *)
LEMMA ChainNext ==
  ASSUME PipelineSafe, ChainInv, [PipelineNext]_pipelineVars
  PROVE  ChainInv'
  <1> DEFINE Signs == \/ run["inference"].chained
                      \/ reconciled # {}
                      \/ \E t \in Threads : thread[t].at = "reconcile"
             Trains == \A t \in Threads :
                /\ thread[t].at \in {"outcome", "chain", "spawn"} => thread[t].pipe = "train"
                /\ thread[t].at \in {"hook", "reconcile"} => thread[t].pipe = "inference"
  <1>1. /\ thread \in [Threads -> ThreadRecords] /\ run \in [Pipelines -> Runs]
        /\ Trains /\ "inference" \in Pipelines
    BY DEF PipelineSafe, PipelineTypeOK, ChainInv, Pipelines
  <1>2. (\E t \in Threads : Completed(t)) => \E t \in Threads : Completed(t)'
    BY CompletedStays
  <1>3. Signs => \E t \in Threads : Completed(t)'
    BY <1>2 DEF ChainInv
  <1>4. CASE UNCHANGED pipelineVars
    BY <1>4 DEF pipelineVars, ChainInv, Completed
  <1>5. ASSUME NEW t \in Threads, NEW p \in Pipelines, NEW trigger \in Triggers, Start(p, trigger, t)
        PROVE  ChainInv'
    <2>1. /\ thread'[t].at = "work"
          /\ \A u \in Threads \ {t} : thread'[u] = thread[u]
      BY <1>1, <1>5 DEF Start, Spawned
    <2>2. run'["inference"].chained => run["inference"].chained
      BY <1>1, <1>5 DEF Start, Admitted
    <2>3. reconciled' = reconciled
      BY <1>5 DEF Start
    <2>4. Trains'
      BY <1>1, <2>1
    <2>5. Signs' => Signs
      BY <2>1, <2>2, <2>3
    <2> QED
      BY <1>3, <2>4, <2>5 DEF ChainInv
  <1>6. ASSUME NEW t \in Threads, NEW u \in Threads, ChainStart(t, u) PROVE ChainInv'
    <2>1. /\ t # u /\ thread[t].pipe = "train"
          /\ thread' = [[thread EXCEPT ![t] = [thread[t] EXCEPT !.at = "done"]]
                           EXCEPT ![u] = Spawned(u, "inference", "manual", TRUE)]
      BY <1>1, <1>6 DEF ChainStart, Fresh
    <2>2. thread'[t] = [thread[t] EXCEPT !.at = "done"] /\ thread[t] \in ThreadRecords
      BY <1>1, <2>1
    <2>3. Completed(t)'
      BY <2>1, <2>2 DEF Completed, ThreadRecords
    <2>4. thread'[u].at = "work" /\ thread'[t].at = "done"
          /\ \A w \in Threads \ {t, u} : thread'[w] = thread[w]
      BY <1>1, <2>1, <2>2 DEF Spawned, ThreadRecords
    <2>5. Trains'
      BY <1>1, <2>4
    <2> QED
      BY <2>3, <2>5 DEF ChainInv
  <1>7. ASSUME NEW t \in Threads, WorkDone(t) \/ Checkpoint(t) \/ Publish(t)
        PROVE  ChainInv'
    <2>1. thread'[t].at \in {"checkpoint", "finish", "publish"} /\ run' = run /\ reconciled' = reconciled
          /\ \A u \in Threads \ {t} : thread'[u] = thread[u]
      BY <1>1, <1>7 DEF WorkDone, Checkpoint, Publish, Goto, ThreadRecords
    <2>2. Trains' /\ (Signs' => Signs)
      BY <1>1, <2>1
    <2> QED
      BY <1>3, <2>2 DEF ChainInv
  <1>8. ASSUME NEW t \in Threads, WorkFails(t) \/ Finish(t) PROVE ChainInv'
    <2>1. PICK place \in Places : Goto(t, place) /\ place # "reconcile"
             /\ (place \in {"outcome", "chain", "spawn"} => thread[t].pipe = "train")
             /\ (place = "hook" => thread[t].pipe = "inference")
      BY <1>1, <1>8 DEF WorkFails, Finish, AfterFinish, Places, ThreadRecords, Pipelines
    <2>2. /\ thread'[t].at = place /\ thread'[t].pipe = thread[t].pipe
          /\ \A u \in Threads \ {t} : thread'[u] = thread[u]
      BY <2>1, GotoEffect DEF PipelineSafe
    <2>3. reconciled' = reconciled /\ (run'["inference"].chained => run["inference"].chained)
      <3>1. PICK p \in Pipelines, s \in Statuses :
                run' = [run EXCEPT ![p] = [run[p] EXCEPT !.status = s]]
        BY <1>1, <1>8 DEF WorkFails, Finish, ThreadRecords, Statuses
      <3>2. CASE p = "inference"
        <4>1. run'["inference"] = [run["inference"] EXCEPT !.status = s]
          BY <1>1, <3>1, <3>2
        <4>2. run["inference"] \in Runs
          BY <1>1 DEF Pipelines
        <4>3. run'["inference"].chained = run["inference"].chained
          BY <4>1, <4>2 DEF Runs
        <4> QED
          BY <1>8, <4>3 DEF WorkFails, Finish
      <3>3. CASE p # "inference"
        <4>1. run'["inference"] = run["inference"]
          BY <1>1, <3>1, <3>3 DEF Pipelines
        <4> QED
          BY <1>8, <4>1 DEF WorkFails, Finish
      <3> QED
        BY <3>2, <3>3
    <2>4. Trains' /\ (Signs' => Signs)
      BY <1>1, <2>1, <2>2, <2>3
    <2> QED
      BY <1>3, <2>4 DEF ChainInv
  <1>9. ASSUME NEW t \in Threads,
               Outcome(t) \/ Hook(t) \/ Reconcile(t) \/ ChainRefused(t)
               \/ (\E autoInference \in BOOLEAN : ChainCheck(t, autoInference))
        PROVE  ChainInv'
    <2>1. PICK place \in Places : Goto(t, place)
             /\ (place = "reconcile" => run["inference"].chained /\ thread[t].at = "hook")
             /\ place # "hook"
             /\ (place \in {"outcome", "chain", "spawn"} => thread[t].at \in {"outcome", "chain"})
      BY <1>9 DEF Outcome, Hook, Reconcile, ChainRefused, ChainCheck, Places
    <2>2. /\ thread'[t].at = place /\ thread'[t].pipe = thread[t].pipe
          /\ \A u \in Threads \ {t} : thread'[u] = thread[u]
      BY <2>1, GotoEffect DEF PipelineSafe
    <2>3. run' = run /\ (reconciled' = reconciled \/ thread[t].at = "reconcile")
      BY <1>9 DEF Outcome, Hook, Reconcile, ChainRefused, ChainCheck
    <2>4. Trains' /\ (Signs' => Signs)
      BY <1>1, <2>1, <2>2, <2>3
    <2> QED
      BY <1>3, <2>4 DEF ChainInv
  <1>10. CASE Shutdown
    BY <1>10 DEF Shutdown, ChainInv, Completed
  <1>11. CASE Restart
    <2>1. \A t \in Threads :
             thread'[t].at \notin {"outcome", "chain", "spawn", "hook", "reconcile"}
      BY <1>1, <1>11 DEF Restart, Alive, ThreadRecords
    <2>2. ~run'["inference"].chained /\ reconciled' = reconciled
      BY <1>1, <1>11 DEF Restart, IdleRun
    <2> QED
      BY <1>3, <2>1, <2>2 DEF ChainInv
  <1>12. CASE PipelineNext
    BY <1>5, <1>6, <1>7, <1>8, <1>9, <1>10, <1>11, <1>12, TriggersAssumption
       DEF PipelineNext, ThreadStep, Advance, StartTrain, StartInference, Pipelines
  <1> QED
    BY <1>4, <1>12

(* No reconciliation cascade without a completed training behind it.       *)
THEOREM CascadeHasTraining == PipelineSpec => []ReconcileFollowsTraining
  <1>1. ChainInv => ReconcileFollowsTraining
    BY DEF ChainInv, ReconcileFollowsTraining
  <1> QED
    BY <1>1, PipelineInitSafe, ChainNext, AlwaysPipelineSafe, PTL DEF PipelineSpec
-----------------------------------------------------------------------------
(* How a thread gets from place to place, for those who compose the        *)
(* pipeline with what its threads do: it starts once, keeps what it was    *)
(* started for, does not come back from its end, and leaves the audit hook *)
(* only by the hook's own step or with the process.                        *)
Ended == {"chain", "spawn", "done", "dead"}

Moves(t) ==
    /\ thread[t].at # "unused" =>
          /\ thread'[t].at # "unused"
          /\ thread'[t].pipe = thread[t].pipe /\ thread'[t].trigger = thread[t].trigger
    /\ thread[t].at \in {"done", "failed", "dead"} => thread'[t] = thread[t]
    /\ thread[t].at \in Ended => thread'[t].at \in Ended
    /\ thread'[t].at = "failed" => thread[t].at \in {"work", "failed"}
    /\ thread'[t].pipe = "train" /\ thread'[t].at \in {"chain", "spawn", "done"}
          /\ ~thread'[t].skipped =>
          /\ thread[t].pipe = "train" /\ ~thread[t].skipped
          /\ thread[t].at \in {"outcome", "chain", "spawn", "done"}
    /\ thread[t].at = "outcome" => thread'[t] = thread[t] \/ Outcome(t) \/ Restart

LEMMA StayMoves ==
  ASSUME NEW t \in Threads, thread'[t] = thread[t]
  PROVE  Moves(t)
  BY DEF Moves

LEMMA GotoMoves ==
  ASSUME PipelineSafe, ChainInv, NEW t \in Threads, NEW u \in Threads,
         WorkDone(u) \/ WorkFails(u) \/ Publish(u) \/ Finish(u) \/ Outcome(u) \/ Hook(u)
         \/ Reconcile(u) \/ ChainRefused(u)
         \/ (\E autoInference \in BOOLEAN : ChainCheck(u, autoInference))
  PROVE  Moves(t)
  <1>1. thread[u] \in ThreadRecords
    BY DEF PipelineSafe, PipelineTypeOK
  <1>2. PICK place \in Places :
          /\ Goto(u, place)
          /\ \/ thread[u].at = "work" /\ place \in {"checkpoint", "failed"}
             \/ thread[u].at = "publish" /\ place = "finish"
             \/ thread[u].at = "finish" /\ place \in {"outcome", "hook"}
             \/ thread[u].at = "finish" /\ place = "chain" /\ thread[u].skipped
             \/ thread[u].at = "outcome" /\ Outcome(u) /\ place = "chain"
             \/ thread[u].at \in {"chain", "spawn"} /\ place \in {"spawn", "done"}
             \/ thread[u].at \in {"hook", "reconcile"} /\ place \in {"reconcile", "done"}
    BY DEF WorkDone, WorkFails, Publish, Finish, Outcome, Hook, Reconcile, ChainRefused,
           ChainCheck, Places, AfterFinish
  <1>3. /\ thread'[u].at = place /\ thread'[u].pipe = thread[u].pipe
        /\ thread'[u].trigger = thread[u].trigger /\ thread'[u].skipped = thread[u].skipped
        /\ \A w \in Threads : w # u => thread'[w] = thread[w]
    BY <1>2, GotoEffect DEF PipelineSafe
  <1>4. /\ thread[u].at \in {"outcome", "chain", "spawn"} => thread[u].pipe = "train"
        /\ thread[u].at \in {"hook", "reconcile"} => thread[u].pipe = "inference"
    BY DEF ChainInv
  <1>5. CASE t = u
    BY <1>1, <1>2, <1>3, <1>4, <1>5 DEF Moves, Ended
  <1> QED
    BY <1>3, <1>5, StayMoves

LEMMA ThreadMoves ==
  ASSUME PipelineSafe, ChainInv, [PipelineNext]_pipelineVars, NEW t \in Threads
  PROVE  Moves(t)
  <1>1. thread \in [Threads -> ThreadRecords]
    BY DEF PipelineSafe, PipelineTypeOK
  <1>2. CASE UNCHANGED pipelineVars \/ Shutdown
    BY <1>2, StayMoves DEF pipelineVars, Shutdown
  <1>3. ASSUME NEW u \in Threads, NEW p \in Pipelines, NEW trigger \in Triggers,
               Start(p, trigger, u)
        PROVE  Moves(t)
    <2>1. /\ thread[u].at = "unused" /\ thread'[u].at = "work"
          /\ \A w \in Threads \ {u} : thread'[w] = thread[w]
      BY <1>1, <1>3 DEF Start, Spawned, Fresh
    <2> QED
      BY <2>1, StayMoves DEF Moves, Ended
  <1>4. ASSUME NEW u \in Threads, Checkpoint(u) PROVE Moves(t)
    <2> DEFINE stop == cancel[thread[u].pipe]
               place == IF stop THEN "finish" ELSE "publish"
               o == [[thread[u] EXCEPT !.at = place] EXCEPT !.skipped = stop]
    <2>1. thread[u] \in ThreadRecords /\ place \in {"finish", "publish"}
      BY <1>1
    <2>2. thread' = [thread EXCEPT ![u] = o] /\ thread[u].at = "checkpoint"
      BY <1>4, <2>1 DEF Checkpoint, ThreadRecords
    <2> HIDE DEF place, stop
    <2>3. o.at = place /\ o.pipe = thread[u].pipe /\ o.trigger = thread[u].trigger
      BY <2>1 DEF ThreadRecords
    <2> HIDE DEF o
    <2>4. thread'[u] = o /\ \A w \in Threads \ {u} : thread'[w] = thread[w]
      BY <1>1, <2>2
    <2> QED
      BY <2>1, <2>2, <2>3, <2>4, StayMoves DEF Moves, Ended
  <1>5. ASSUME NEW u \in Threads, NEW w \in Threads, ChainStart(u, w) PROVE Moves(t)
    <2> DEFINE o == Spawned(w, "inference", "manual", TRUE)
               d == [thread[u] EXCEPT !.at = "done"]
    <2>1. u # w /\ thread[u].at = "spawn" /\ thread[w].at = "unused" /\ thread[u] \in ThreadRecords
      BY <1>1, <1>5 DEF ChainStart, Fresh
    <2>2. thread' = [[thread EXCEPT ![u] = d] EXCEPT ![w] = o]
      BY <1>1, <1>5, <2>1 DEF ChainStart
    <2>3. o.at = "work" /\ o.pipe = "inference"
      BY DEF Spawned
    <2>4. d.at = "done" /\ d.pipe = thread[u].pipe /\ d.trigger = thread[u].trigger
          /\ d.skipped = thread[u].skipped
      BY <2>1 DEF ThreadRecords
    <2> HIDE DEF o, d
    <2>5. thread'[w] = o /\ thread'[u] = d
          /\ \A x \in Threads \ {u, w} : thread'[x] = thread[x]
      BY <1>1, <2>1, <2>2
    <2>6. thread[u].pipe = "train"
      BY <2>1 DEF ChainInv
    <2> QED
      BY <2>1, <2>3, <2>4, <2>5, <2>6, StayMoves DEF Moves, Ended
  <1>6. CASE Restart
    <2>1. CASE Alive(t)
      <3>1. thread'[t] = [thread[t] EXCEPT !.at = "dead"] /\ thread[t] \in ThreadRecords
        BY <1>1, <1>6, <2>1 DEF Restart
      <3>2. thread'[t].at = "dead" /\ thread'[t].pipe = thread[t].pipe
            /\ thread'[t].trigger = thread[t].trigger
        BY <3>1 DEF ThreadRecords
      <3> QED
        BY <1>6, <2>1, <3>2 DEF Moves, Ended, Alive
    <2>2. CASE ~Alive(t)
      BY <1>1, <1>6, <2>2, StayMoves DEF Restart
    <2> QED
      BY <2>1, <2>2
  <1>7. CASE PipelineNext
    BY <1>2, <1>3, <1>4, <1>5, <1>6, <1>7, GotoMoves, TriggersAssumption
       DEF PipelineNext, ThreadStep, Advance, StartTrain, StartInference, Pipelines
  <1> QED
    BY <1>2, <1>7

-----------------------------------------------------------------------------
(***************************************************************************)
(* Theorems of ModelRegistry, for every set of files and clients, every    *)
(* cap and every bound.  The invariant has three parts: who may be inside  *)
(* the registry (the lock), which versions the calls in progress and the   *)
(* pointer refer to, and how far a copy has come (the contents).           *)
(***************************************************************************)

(* A client inside a registry call holds _REGISTRY_LOCK. *)
LockInv == \A c \in Clients : op[c].at # "idle" => lock = c

(* Ids are minted in order; a call refers to a version that is still to be *)
(* published, or to one that is retained.                                  *)
VersionInv ==
    /\ \A v \in kept : v <= minted
    /\ CurrentIsRetained
    /\ \A c \in Clients : op[c].at = "copy" =>
          op[c].ver = minted /\ op[c].ver \in VersionIds \ kept
    /\ \A c \in Clients : op[c].at \in {"point", "restore", "settled"} => op[c].ver \in kept

Safe == RegistryTypeOK /\ LockInv /\ VersionInv

LEMMA SomeScoreType == SomeScore \in Scores
  BY ScoresAssumption DEF SomeScore

LEMMA EmptyTreeType == EmptyTree \in Tree
  BY DEF EmptyTree, Tree

LEMMA ReturnedType ==
  ASSUME NEW r \in Results
  PROVE  Returned(r) \in Ops /\ Returned(r).at = "idle"
  <1>1. 0 \in 0 .. MaxVersions
    BY BoundsAssumption
  <1> QED
    BY <1>1, SomeScoreType, EmptyTreeType DEF Returned, Ops, Stages, NoVersion, AnyVersion

(* A client that changes only its own record keeps the others' records. *)
LEMMA OpUpdate ==
  ASSUME op \in [Clients -> Ops], NEW c \in Clients, NEW o \in Ops,
         op' = [op EXCEPT ![c] = o]
  PROVE  /\ op' \in [Clients -> Ops]
         /\ op'[c] = o
         /\ \A d \in Clients : d # c => op'[d] = op[d]
  OBVIOUS

(* The registry starts safe: nobody is inside it and it holds no version. *)
THEOREM InitSafe == RegistryInit => Safe
  <1> SUFFICES ASSUME RegistryInit PROVE Safe
    OBVIOUS
  <1>1. "none" \in Results
    BY DEF Results
  <1>2. \A c \in Clients : op[c] \in Ops /\ op[c].at = "idle"
    BY <1>1, ReturnedType DEF RegistryInit
  <1>3. NoManifest \in Manifests
    BY SomeScoreType, EmptyTreeType DEF NoManifest, Manifests
  <1>4. RegistryTypeOK
    <2>1. op \in [Clients -> Ops]
      BY <1>2 DEF RegistryInit
    <2> QED
      BY <2>1, <1>3, EmptyTreeType, BoundsAssumption
         DEF RegistryInit, RegistryTypeOK, NoVersion
  <1>5. LockInv /\ VersionInv
    BY <1>2 DEF RegistryInit, LockInv, VersionInv, CurrentIsRetained
  <1> QED
    BY <1>4, <1>5 DEF Safe

(* Every call ends, and every crash leaves, idle clients and a free lock. *)
LEMMA ReleaseSafe ==
  ASSUME Safe, NEW c \in Clients, op[c].at # "idle", NEW r \in Results,
         lock' = NoClient, op' = [op EXCEPT ![c] = Returned(r)],
         UNCHANGED <<live, kept, snap, current, minted>>,
         spared' \subseteq VersionIds, faults' \in 0 .. MaxFaults
  PROVE  Safe'
  <1>1. /\ op' \in [Clients -> Ops] /\ op'[c].at = "idle"
        /\ \A d \in Clients : d # c => op'[d] = op[d]
    BY ReturnedType DEF Safe, RegistryTypeOK
  <1>2. \A d \in Clients : op'[d].at = "idle"
    BY <1>1 DEF Safe, LockInv
  <1> QED
    BY <1>1, <1>2 DEF Safe, RegistryTypeOK, LockInv, VersionInv, CurrentIsRetained

LEMMA RecordBeginSafe ==
  ASSUME Safe, NEW c \in Clients, NEW upd \in BOOLEAN, NEW score \in Scores,
         RecordBegin(c, upd, score)
  PROVE  Safe'
  <1> DEFINE o == [at |-> "copy", ver |-> minted + 1, todo |-> Present(live),
                   stage |-> EmptyTree, upd |-> upd, score |-> score,
                   expect |-> AnyVersion, res |-> "none"]
  <1>1. minted \in Nat /\ minted + 1 \in VersionIds /\ minted + 1 \in 0 .. MaxVersions
    BY BoundsAssumption DEF Safe, RegistryTypeOK, RecordBegin, VersionIds
  <1>2. o \in Ops /\ o.at = "copy" /\ o.ver = minted + 1
    BY <1>1, EmptyTreeType, BoundsAssumption
       DEF Ops, Stages, Results, Present, AnyVersion
  <1>3. op' \in [Clients -> Ops] /\ op'[c] = o /\ \A d \in Clients : d # c => op'[d] = op[d]
    BY <1>2 DEF RecordBegin, Safe, RegistryTypeOK
  <1>4. RegistryTypeOK'
    BY <1>1, <1>3 DEF RecordBegin, Safe, RegistryTypeOK
  <1>5. \A d \in Clients : d # c => op'[d].at = "idle"
    BY <1>3, ClientsAssumption DEF RecordBegin, Safe, LockInv
  <1>6. LockInv'
    BY <1>5 DEF RecordBegin, LockInv
  <1>7. \A v \in kept : v <= minted /\ v \in Nat
    BY DEF Safe, VersionInv, RegistryTypeOK, VersionIds
  <1>8. minted + 1 \notin kept
    BY <1>1, <1>7
  <1>9. VersionInv'
    BY <1>1, <1>2, <1>3, <1>5, <1>7, <1>8 DEF RecordBegin, VersionInv, CurrentIsRetained, Safe
  <1> QED
    BY <1>4, <1>6, <1>9 DEF Safe

LEMMA PruneBeginSafe ==
  ASSUME Safe, NEW c \in Clients, PruneBegin(c)
  PROVE  Safe'
  <1> DEFINE o == [Returned("none") EXCEPT !.at = "prune"]
  <1>1. Returned("none") \in Ops
    BY ReturnedType DEF Results
  <1>2. o \in Ops /\ o.at = "prune"
    BY <1>1 DEF Ops, Stages
  <1>3. op' = [op EXCEPT ![c] = o]
    BY DEF PruneBegin
  <1> HIDE DEF o
  <1>4. op' \in [Clients -> Ops] /\ op'[c].at = "prune" /\ \A d \in Clients : d # c => op'[d] = op[d]
    BY <1>2, <1>3 DEF Safe, RegistryTypeOK
  <1>5. \A d \in Clients : d # c => op'[d].at = "idle"
    BY <1>4, ClientsAssumption DEF PruneBegin, Safe, LockInv
  <1>6. lock' = c /\ UNCHANGED <<live, kept, snap, current, minted, spared, faults>>
    BY DEF PruneBegin
  <1> QED
    BY <1>4, <1>5, <1>6 DEF Safe, RegistryTypeOK, LockInv, VersionInv, CurrentIsRetained

LEMMA RecordCopySafe ==
  ASSUME Safe, NEW c \in Clients, NEW f \in Files, RecordCopy(c, f)
  PROVE  Safe'
  <1> DEFINE staged == [op[c].stage EXCEPT ![f] = live[f]]
             o == [[op[c] EXCEPT !.todo = @ \ {f}] EXCEPT !.stage = staged]
  <1>1. live \in Tree /\ op[c] \in Ops /\ op \in [Clients -> Ops]
    BY DEF Safe, RegistryTypeOK
  <1>2. staged \in Tree
    <2>1. op[c].stage \in Tree
      BY <1>1 DEF Ops
    <2> QED
      BY <1>1, <2>1 DEF Tree
  <1>3. o \in Ops /\ o.at = op[c].at /\ o.ver = op[c].ver
    <2> HIDE DEF staged
    <2> QED
      BY <1>1, <1>2 DEF Ops
  <1>4. op' = [op EXCEPT ![c] = o]
    BY <1>1 DEF RecordCopy, Ops
  <1>5. /\ op' \in [Clients -> Ops]
        /\ op'[c].at = op[c].at /\ op'[c].ver = op[c].ver
        /\ \A d \in Clients : d # c => op'[d] = op[d]
    BY <1>1, <1>3, <1>4
  <1> QED
    BY <1>5 DEF RecordCopy, Safe, RegistryTypeOK, LockInv, VersionInv, CurrentIsRetained

LEMMA RecordPublishSafe ==
  ASSUME Safe, NEW c \in Clients, RecordPublish(c)
  PROVE  Safe'
  <1>1. /\ op' \in [Clients -> Ops]
        /\ op'[c].at \in {"point", "prune"} /\ op'[c].ver = op[c].ver
        /\ \A d \in Clients : d # c => op'[d] = op[d]
    BY DEF RecordPublish, Safe, RegistryTypeOK, Ops, Stages
  <1>2. op[c].ver = minted /\ op[c].ver \in VersionIds \ kept
    BY DEF RecordPublish, Safe, VersionInv
  <1>3. [files |-> op[c].stage, score |-> op[c].score, promoted |-> op[c].upd] \in Manifests
    BY DEF Safe, RegistryTypeOK, Ops, Manifests
  <1>4. RegistryTypeOK'
    BY <1>1, <1>2, <1>3 DEF RecordPublish, Safe, RegistryTypeOK
  <1>5. \A d \in Clients : d # c => op[d].at = "idle"
    BY DEF RecordPublish, Safe, LockInv
  <1>6. LockInv'
    BY <1>1 DEF RecordPublish, Safe, LockInv
  <1>7. minted <= minted
    BY DEF Safe, RegistryTypeOK
  <1>8. VersionInv'
    BY <1>1, <1>2, <1>5, <1>7 DEF RecordPublish, Safe, VersionInv, CurrentIsRetained
  <1> QED
    BY <1>4, <1>6, <1>8 DEF Safe

LEMMA PointSafe ==
  ASSUME Safe, NEW c \in Clients, RecordPoint(c) \/ RestorePoint(c)
  PROVE  Safe'
  <1>1. /\ op' \in [Clients -> Ops]
        /\ op'[c].at \in {"prune", "settled"} /\ op'[c].ver = op[c].ver
        /\ \A d \in Clients : d # c => op'[d] = op[d]
    BY DEF RecordPoint, RestorePoint, Safe, RegistryTypeOK, Ops, Stages
  <1>2. current' = op[c].ver /\ op[c].ver \in kept /\ op[c].ver \in 0 .. MaxVersions
    BY DEF RecordPoint, RestorePoint, Safe, RegistryTypeOK, VersionInv, Ops
  <1>3. UNCHANGED <<live, kept, snap, lock, minted, spared, faults>> /\ op[c].at # "idle"
    BY DEF RecordPoint, RestorePoint
  <1> QED
    BY <1>1, <1>2, <1>3 DEF Safe, RegistryTypeOK, LockInv, VersionInv, CurrentIsRetained

LEMMA PruneSafe ==
  ASSUME Safe, NEW c \in Clients, NEW v \in VersionIds, PruneOne(c, v)
  PROVE  Safe'
  <1>1. v \in kept /\ v # current /\ kept' = kept \ {v}
    BY DEF PruneOne, Prunable
  <1>2. \A d \in Clients : op[d].at \in {"copy", "point", "restore", "settled"} => d # c
    BY DEF PruneOne
  <1>3. \A d \in Clients : op[d].at \in {"idle", "prune"}
    BY <1>2 DEF PruneOne, Safe, LockInv
  <1>4. NoManifest \in Manifests
    BY SomeScoreType, EmptyTreeType DEF NoManifest, Manifests
  <1>5. snap' \in [VersionIds -> Manifests]
    BY <1>4 DEF PruneOne, Safe, RegistryTypeOK
  <1> QED
    BY <1>1, <1>3, <1>5
       DEF PruneOne, Safe, RegistryTypeOK, LockInv, VersionInv, CurrentIsRetained

LEMMA PruneHalfSafe ==
  ASSUME Safe, NEW c \in Clients, NEW v \in VersionIds, NEW f \in Files, PruneHalf(c, v, f)
  PROVE  Safe'
  <1> DEFINE left == [snap[v].files EXCEPT ![f] = Absent]
             m == [snap[v] EXCEPT !.files = left]
  <1>1. snap[v] \in Manifests /\ snap[v].files \in Tree
    BY DEF Safe, RegistryTypeOK, Manifests
  <1>2. left \in Tree
    BY <1>1 DEF Tree
  <1>3. m \in Manifests
    <2> HIDE DEF left
    <2> QED
      BY <1>1, <1>2 DEF Manifests
  <1>4. snap' \in [VersionIds -> Manifests]
    <2>1. snap' = [snap EXCEPT ![v] = m]
      BY DEF PruneHalf, Safe, RegistryTypeOK
    <2> QED
      BY <1>3, <2>1 DEF Safe, RegistryTypeOK
  <1>5. faults' \in 0 .. MaxFaults
    BY BoundsAssumption DEF PruneHalf, Safe, RegistryTypeOK
  <1> QED
    BY <1>4, <1>5
       DEF PruneHalf, Safe, RegistryTypeOK, LockInv, VersionInv, CurrentIsRetained

(* A rollback that is refused changes only what its caller is told. *)
LEMMA RefusedSafe ==
  ASSUME Safe, NEW c \in Clients, NEW v \in VersionIds, NEW expect \in 0 .. MaxVersions,
         RestoreDefers(c, v, expect) \/ RestoreUnknown(c, v, expect)
  PROVE  Safe'
  <1>1. PICK r \in Results : op' = [op EXCEPT ![c] = Returned(r)]
    BY DEF RestoreDefers, RestoreUnknown, Results
  <1>2. op' \in [Clients -> Ops] /\ op'[c].at = "idle" /\ \A d \in Clients : d # c => op'[d] = op[d]
    BY <1>1, ReturnedType DEF Safe, RegistryTypeOK
  <1>3. UNCHANGED <<live, kept, snap, current, lock, minted, spared, faults>>
    BY DEF RestoreDefers, RestoreUnknown
  <1> QED
    BY <1>2, <1>3 DEF Safe, RegistryTypeOK, LockInv, VersionInv, CurrentIsRetained

LEMMA RestoreBeginSafe ==
  ASSUME Safe, NEW c \in Clients, NEW v \in VersionIds, NEW expect \in 0 .. MaxVersions,
         RestoreBegin(c, v, expect)
  PROVE  Safe'
  <1> DEFINE o == [at |-> "restore", ver |-> v, todo |-> Present(snap[v].files),
                   stage |-> EmptyTree, upd |-> FALSE, score |-> SomeScore,
                   expect |-> expect, res |-> "none"]
  <1>1. v \in 0 .. MaxVersions
    BY BoundsAssumption DEF VersionIds
  <1>2. o \in Ops /\ o.at = "restore" /\ o.ver = v
    BY <1>1, EmptyTreeType, SomeScoreType DEF Ops, Stages, Results, Present
  <1>3. op' \in [Clients -> Ops] /\ op'[c] = o /\ \A d \in Clients : d # c => op'[d] = op[d]
    BY <1>2 DEF RestoreBegin, Safe, RegistryTypeOK
  <1>4. \A d \in Clients : d # c => op'[d].at = "idle"
    BY <1>3, ClientsAssumption DEF RestoreBegin, Safe, LockInv
  <1>5. lock' = c /\ v \in kept /\ UNCHANGED <<live, kept, snap, current, minted, spared, faults>>
    BY DEF RestoreBegin
  <1> HIDE DEF o
  <1> QED
    BY <1>2, <1>3, <1>4, <1>5
       DEF Safe, RegistryTypeOK, LockInv, VersionInv, CurrentIsRetained

LEMMA RestoreFileSafe ==
  ASSUME Safe, NEW c \in Clients, NEW f \in Files, RestoreFile(c, f)
  PROVE  Safe'
  <1> DEFINE o == [op[c] EXCEPT !.todo = @ \ {f}]
  <1>1. op[c].ver \in VersionIds
    BY DEF RestoreFile, Safe, VersionInv, RegistryTypeOK
  <1>2. live' \in Tree
    <2>1. snap[op[c].ver].files \in Tree
      BY <1>1 DEF Safe, RegistryTypeOK, Manifests
    <2> QED
      BY <2>1 DEF RestoreFile, Safe, RegistryTypeOK, Tree
  <1>3. o \in Ops /\ o.at = op[c].at /\ o.ver = op[c].ver
    BY DEF Safe, RegistryTypeOK, Ops
  <1>4. /\ op' \in [Clients -> Ops]
        /\ op'[c].at = op[c].at /\ op'[c].ver = op[c].ver
        /\ \A d \in Clients : d # c => op'[d] = op[d]
    BY <1>3 DEF RestoreFile, Safe, RegistryTypeOK
  <1> QED
    BY <1>2, <1>4
       DEF RestoreFile, Safe, RegistryTypeOK, LockInv, VersionInv, CurrentIsRetained

LEMMA WipeSafe ==
  ASSUME Safe, WipePointer \/ \E c \in Clients, f \in Files : WipeStaged(c, f)
  PROVE  Safe'
  <1>1. CASE WipePointer
    BY <1>1, BoundsAssumption
       DEF WipePointer, Safe, RegistryTypeOK, LockInv, VersionInv, CurrentIsRetained, NoVersion
  <1>2. ASSUME NEW c \in Clients, NEW f \in Files, WipeStaged(c, f) PROVE Safe'
    <2> DEFINE staged == [op[c].stage EXCEPT ![f] = Absent]
               o == [op[c] EXCEPT !.stage = staged]
    <2>1. op[c] \in Ops /\ op \in [Clients -> Ops]
      BY DEF Safe, RegistryTypeOK
    <2>2. staged \in Tree
      BY <2>1 DEF Ops, Tree
    <2>3. o \in Ops /\ o.at = op[c].at /\ o.ver = op[c].ver
      <3> HIDE DEF staged
      <3> QED
        BY <2>1, <2>2 DEF Ops
    <2>4. op' = [op EXCEPT ![c] = o]
      BY <1>2, <2>1 DEF WipeStaged, Ops
    <2>5. /\ op' \in [Clients -> Ops]
          /\ op'[c].at = op[c].at /\ op'[c].ver = op[c].ver
          /\ \A d \in Clients : d # c => op'[d] = op[d]
      BY <2>1, <2>3, <2>4
    <2> QED
      BY <1>2, <2>5 DEF WipeStaged, Safe, RegistryTypeOK, LockInv, VersionInv, CurrentIsRetained
  <1> QED
    BY <1>1, <1>2

LEMMA DiesSafe ==
  ASSUME Safe, RegistryDies
  PROVE  Safe'
  <1>1. "none" \in Results
    BY DEF Results
  <1>2. \A c \in Clients : op'[c] \in Ops /\ op'[c].at = "idle"
    BY <1>1, ReturnedType DEF RegistryDies
  <1>3. op' \in [Clients -> Ops]
    BY <1>2 DEF RegistryDies
  <1>4. faults' \in 0 .. MaxFaults
    BY BoundsAssumption DEF RegistryDies, Safe, RegistryTypeOK
  <1> QED
    BY <1>2, <1>3, <1>4
       DEF RegistryDies, Safe, RegistryTypeOK, LockInv, VersionInv, CurrentIsRetained

(* Every step of the registry, of a training or of a fault keeps Safe. *)
THEOREM NextSafe == Safe /\ [RegistryNext]_registryVars => Safe'
  <1> SUFFICES ASSUME Safe, [RegistryNext]_registryVars PROVE Safe'
    OBVIOUS
  <1>1. CASE UNCHANGED registryVars
    BY <1>1 DEF registryVars, Safe, RegistryTypeOK, LockInv, VersionInv, CurrentIsRetained
  <1>2. ASSUME NEW f \in Files, NEW x \in Contents \cup {Absent}, Overwrite(f, x) PROVE Safe'
    BY <1>2 DEF Overwrite, Safe, RegistryTypeOK, LockInv, VersionInv, CurrentIsRetained, Tree
  <1>3. ASSUME NEW c \in Clients, RegistryCall(c) PROVE Safe'
    BY <1>3, RecordBeginSafe, RefusedSafe, RestoreBeginSafe, PruneBeginSafe DEF RegistryCall
  <1>4. ASSUME NEW c \in Clients, RecordEnd(c) \/ RestoreEnd(c) PROVE Safe'
    <2>1. /\ op[c].at # "idle" /\ "ok" \in Results
          /\ spared' \subseteq VersionIds /\ faults' \in 0 .. MaxFaults
      BY <1>4 DEF RecordEnd, RestoreEnd, Results, Safe, RegistryTypeOK
    <2> QED
      BY <1>4, <2>1, ReleaseSafe DEF RecordEnd, RestoreEnd
  <1>5. ASSUME NEW c \in Clients, RecordFails(c) \/ RestoreFails(c) PROVE Safe'
    <2>1. op[c].at # "idle" /\ "error" \in Results
      BY <1>5 DEF RecordFails, RestoreFails, Results
    <2>2. spared' \subseteq VersionIds /\ faults' \in 0 .. MaxFaults
      BY <1>5, BoundsAssumption DEF RecordFails, RestoreFails, Safe, RegistryTypeOK
    <2> QED
      BY <1>5, <2>1, <2>2, ReleaseSafe DEF RecordFails, RestoreFails
  <1>6. ASSUME NEW c \in Clients, RecordStep(c) PROVE Safe'
    BY <1>6, <1>4, RecordCopySafe, RecordPublishSafe, PointSafe, PruneSafe
       DEF RecordStep, RecordWork
  <1>7. ASSUME NEW c \in Clients, RestoreStep(c) PROVE Safe'
    BY <1>7, <1>4, RestoreFileSafe, PointSafe DEF RestoreStep, RestoreWork
  <1>8. CASE RegistryNext
    BY <1>8, <1>2, <1>3, <1>5, <1>6, <1>7, WipeSafe, PruneHalfSafe, DiesSafe DEF RegistryNext
  <1> QED
    BY <1>1, <1>8

LEMMA AlwaysSafe == RegistrySpec => []Safe
  BY InitSafe, NextSafe, PTL DEF RegistrySpec

(* The registry's state keeps its shape. *)
THEOREM TypeCorrect == RegistrySpec => []RegistryTypeOK
  BY AlwaysSafe, PTL DEF Safe

(* current.json never dangles, whatever fails and however calls interleave. *)
THEOREM PointerNeverDangles == RegistrySpec => []CurrentIsRetained
  BY AlwaysSafe, PTL DEF Safe, VersionInv

(* No retention sweep deletes a version that is being restored. *)
THEOREM TargetNeverPruned == RegistrySpec => []TargetIsRetained
  <1>1. Safe => TargetIsRetained
    BY DEF Safe, VersionInv, TargetIsRetained
  <1> QED
    BY <1>1, AlwaysSafe, PTL
-----------------------------------------------------------------------------
(* How far a copy has come.  A path that is no longer to be copied is      *)
(* already equal on both sides, unless the version will not be promoted    *)
(* and a training may reset what is staged of it; a version that was just  *)
(* published is the live tree; nobody but the holder of the lock moves     *)
(* either side.                                                            *)
Copied(c) ==
    /\ op[c].at = "copy" /\ op[c].upd =>
          \A f \in Files \ op[c].todo : op[c].stage[f] = live[f]
    /\ op[c].at = "point" \/ (op[c].at = "prune" /\ op[c].upd) =>
          \A f \in Files : snap[op[c].ver].files[f] = live[f]
    /\ op[c].at = "restore" =>
          \A f \in Present(snap[op[c].ver].files) \ op[c].todo : live[f] = snap[op[c].ver].files[f]
    /\ op[c].at = "settled" => Restored(live, snap[op[c].ver].files)
    /\ InForce(c) => op[c].ver = current

ContentInv == WritersWait => \A c \in Clients : Copied(c)

LEMMA IdleCopied ==
  ASSUME NEW c \in Clients, op[c].at = "idle"
  PROVE  Copied(c)
  BY DEF Copied, InForce

(* A step of the lock's holder leaves nothing to show for the others. *)
LEMMA HolderContent ==
  ASSUME Safe, NEW c \in Clients, op[c].at # "idle" \/ lock = NoClient,
         \A d \in Clients : d # c => op'[d] = op[d],
         WritersWait => Copied(c)'
  PROVE  ContentInv'
  <1>1. \A d \in Clients : d # c => op'[d].at = "idle"
    BY ClientsAssumption DEF Safe, LockInv
  <1>2. ASSUME NEW d \in Clients, d # c PROVE Copied(d)'
    BY <1>1, <1>2 DEF Copied, InForce
  <1> QED
    BY <1>2 DEF ContentInv

LEMMA ReleaseContent ==
  ASSUME Safe, NEW c \in Clients, op[c].at # "idle" \/ lock = NoClient, NEW r \in Results,
         op' = [op EXCEPT ![c] = Returned(r)]
  PROVE  ContentInv'
  <1>1. op'[c].at = "idle" /\ \A d \in Clients : d # c => op'[d] = op[d]
    BY ReturnedType DEF Safe, RegistryTypeOK
  <1>2. Copied(c)'
    BY <1>1 DEF Copied, InForce
  <1> QED
    BY <1>1, <1>2, HolderContent

LEMMA RecordBeginContent ==
  ASSUME Safe, NEW c \in Clients, NEW upd \in BOOLEAN, NEW score \in Scores,
         RecordBegin(c, upd, score)
  PROVE  ContentInv'
  <1>1. /\ op'[c].at = "copy" /\ op'[c].todo = Present(live) /\ op'[c].stage = EmptyTree
        /\ \A d \in Clients : d # c => op'[d] = op[d]
    BY DEF RecordBegin, Safe, RegistryTypeOK
  <1>2. live' = live /\ lock = NoClient
    BY DEF RecordBegin
  <1>3. \A f \in Files \ Present(live) : EmptyTree[f] = live[f]
    BY DEF Present, EmptyTree
  <1>4. Copied(c)'
    BY <1>1, <1>2, <1>3 DEF Copied, InForce
  <1> QED
    BY <1>1, <1>2, <1>4, HolderContent

LEMMA PruneBeginContent ==
  ASSUME Safe, NEW c \in Clients, PruneBegin(c)
  PROVE  ContentInv'
  <1>1. /\ op'[c].at = "prune" /\ ~op'[c].upd /\ lock = NoClient
        /\ \A d \in Clients : d # c => op'[d] = op[d]
    BY DEF PruneBegin, Safe, RegistryTypeOK, Returned
  <1>2. Copied(c)'
    BY <1>1 DEF Copied, InForce
  <1> QED
    BY <1>1, <1>2, HolderContent

LEMMA RecordCopyContent ==
  ASSUME Safe, ContentInv, NEW c \in Clients, NEW f \in Files, RecordCopy(c, f)
  PROVE  ContentInv'
  <1>1. op[c] \in Ops /\ op[c].stage \in Tree /\ op \in [Clients -> Ops]
    BY DEF Safe, RegistryTypeOK, Ops
  <1>2. /\ op'[c].at = "copy" /\ op'[c].todo = op[c].todo \ {f} /\ op'[c].upd = op[c].upd
        /\ op'[c].stage = [op[c].stage EXCEPT ![f] = live[f]]
        /\ \A d \in Clients : d # c => op'[d] = op[d]
    <2>1. op' = [op EXCEPT ![c] = [[op[c] EXCEPT !.todo = @ \ {f}]
                                      EXCEPT !.stage = [op[c].stage EXCEPT ![f] = live[f]]]]
      BY <1>1 DEF RecordCopy, Ops
    <2> QED
      BY <2>1, <1>1 DEF RecordCopy, Ops
  <1>3. live' = live /\ op[c].at = "copy"
    BY DEF RecordCopy
  <1>4. ASSUME WritersWait, op[c].upd, NEW g \in Files \ op'[c].todo PROVE op'[c].stage[g] = live[g]
    <2>1. CASE g = f
      BY <1>1, <1>2, <2>1 DEF Tree
    <2>2. CASE g # f
      <3>1. g \in Files \ op[c].todo
        BY <1>2, <1>4, <2>2
      <3>2. op[c].stage[g] = live[g]
        BY <1>3, <1>4, <3>1 DEF ContentInv, Copied
      <3> QED
        BY <1>1, <1>2, <2>2, <3>2 DEF Tree
    <2> QED
      BY <2>1, <2>2
  <1>5. WritersWait => Copied(c)'
    BY <1>2, <1>3, <1>4 DEF Copied, InForce
  <1> QED
    BY <1>2, <1>3, <1>5, HolderContent

LEMMA RecordPublishContent ==
  ASSUME Safe, ContentInv, NEW c \in Clients, RecordPublish(c)
  PROVE  ContentInv'
  <1>1. /\ op'[c].at = IF op[c].upd THEN "point" ELSE "prune"
        /\ op'[c].ver = op[c].ver /\ op'[c].upd = op[c].upd
        /\ \A d \in Clients : d # c => op'[d] = op[d]
    BY DEF RecordPublish, Safe, RegistryTypeOK, Ops
  <1>2. op[c].ver \in VersionIds /\ op[c].upd \in BOOLEAN
    BY DEF RecordPublish, Safe, VersionInv, RegistryTypeOK, Ops
  <1>3. snap'[op[c].ver].files = op[c].stage /\ live' = live /\ op[c].at = "copy" /\ op[c].todo = {}
    BY <1>2 DEF RecordPublish, Safe, RegistryTypeOK
  <1>4. WritersWait /\ op[c].upd => \A f \in Files : op[c].stage[f] = live[f]
    BY <1>3 DEF ContentInv, Copied
  <1>5. WritersWait => Copied(c)'
    BY <1>1, <1>2, <1>3, <1>4 DEF Copied, InForce
  <1> QED
    BY <1>1, <1>3, <1>5, HolderContent

LEMMA RecordPointContent ==
  ASSUME Safe, ContentInv, NEW c \in Clients, RecordPoint(c)
  PROVE  ContentInv'
  <1>1. /\ op'[c].at = "prune" /\ op'[c].ver = op[c].ver /\ op'[c].upd = op[c].upd
        /\ \A d \in Clients : d # c => op'[d] = op[d]
    BY DEF RecordPoint, Safe, RegistryTypeOK, Ops
  <1>2. op[c].at = "point" /\ current' = op[c].ver /\ UNCHANGED <<live, snap>>
    BY DEF RecordPoint
  <1>3. WritersWait => Copied(c)'
    BY <1>1, <1>2 DEF ContentInv, Copied, InForce
  <1> QED
    BY <1>1, <1>2, <1>3, HolderContent

LEMMA PruneContent ==
  ASSUME Safe, ContentInv, NEW c \in Clients, NEW v \in VersionIds, PruneOne(c, v)
  PROVE  ContentInv'
  <1>1. op[c].at = "prune" /\ v # current /\ UNCHANGED <<live, current, op>>
    BY DEF PruneOne, Prunable
  <1>2. WritersWait /\ op[c].upd => op[c].ver = current
    BY <1>1 DEF ContentInv, Copied, InForce
  <1>3. WritersWait /\ op[c].upd => snap'[op[c].ver] = snap[op[c].ver]
    BY <1>1, <1>2 DEF PruneOne, Safe, RegistryTypeOK
  <1>4. WritersWait => Copied(c)'
    BY <1>1, <1>2, <1>3 DEF ContentInv, Copied, InForce
  <1> QED
    BY <1>1, <1>4, HolderContent

LEMMA PruneHalfContent ==
  ASSUME Safe, ContentInv, NEW c \in Clients, NEW v \in VersionIds, NEW f \in Files,
         PruneHalf(c, v, f)
  PROVE  ContentInv'
  <1>1. op[c].at = "prune" /\ v # current /\ UNCHANGED <<live, current, op>>
    BY DEF PruneHalf, Prunable
  <1>2. WritersWait /\ op[c].upd => op[c].ver = current
    BY <1>1 DEF ContentInv, Copied, InForce
  <1>3. WritersWait /\ op[c].upd => snap'[op[c].ver] = snap[op[c].ver]
    BY <1>1, <1>2 DEF PruneHalf, Safe, RegistryTypeOK
  <1>4. WritersWait => Copied(c)'
    BY <1>1, <1>2, <1>3 DEF ContentInv, Copied, InForce
  <1> QED
    BY <1>1, <1>4, HolderContent

LEMMA RestoreBeginContent ==
  ASSUME Safe, NEW c \in Clients, NEW v \in VersionIds, NEW expect \in 0 .. MaxVersions,
         RestoreBegin(c, v, expect)
  PROVE  ContentInv'
  <1>1. /\ op'[c].at = "restore" /\ op'[c].ver = v /\ op'[c].todo = Present(snap[v].files)
        /\ \A d \in Clients : d # c => op'[d] = op[d]
    BY DEF RestoreBegin, Safe, RegistryTypeOK
  <1>2. lock = NoClient /\ UNCHANGED snap
    BY DEF RestoreBegin
  <1>3. Copied(c)'
    BY <1>1, <1>2 DEF Copied, InForce, Present
  <1> QED
    BY <1>1, <1>2, <1>3, HolderContent

LEMMA RestoreFileContent ==
  ASSUME Safe, ContentInv, NEW c \in Clients, NEW f \in Files, RestoreFile(c, f)
  PROVE  ContentInv'
  <1> DEFINE saved == snap[op[c].ver].files
  <1>1. /\ op'[c].at = "restore" /\ op'[c].ver = op[c].ver /\ op'[c].todo = op[c].todo \ {f}
        /\ \A d \in Clients : d # c => op'[d] = op[d]
    BY DEF RestoreFile, Safe, RegistryTypeOK, Ops
  <1>2. op[c].at = "restore" /\ UNCHANGED snap
    BY DEF RestoreFile
  <1>3. live'[f] = saved[f] /\ \A g \in Files \ {f} : live'[g] = live[g]
    BY DEF RestoreFile, Safe, RegistryTypeOK, Tree
  <1>4. WritersWait => \A g \in Present(saved) \ op[c].todo : live[g] = saved[g]
    BY <1>2 DEF ContentInv, Copied
  <1>5. WritersWait => \A g \in Present(saved) \ op'[c].todo : live'[g] = saved[g]
    BY <1>1, <1>3, <1>4 DEF Present
  <1>6. WritersWait => Copied(c)'
    BY <1>1, <1>2, <1>5 DEF Copied, InForce, Present
  <1> QED
    BY <1>1, <1>2, <1>6, HolderContent

LEMMA RestorePointContent ==
  ASSUME Safe, ContentInv, NEW c \in Clients, RestorePoint(c)
  PROVE  ContentInv'
  <1>1. /\ op'[c].at = "settled" /\ op'[c].ver = op[c].ver
        /\ \A d \in Clients : d # c => op'[d] = op[d]
    BY DEF RestorePoint, Safe, RegistryTypeOK, Ops
  <1>2. /\ op[c].at = "restore" /\ op[c].todo = {}
        /\ current' = op[c].ver /\ UNCHANGED <<live, snap>>
    BY DEF RestorePoint
  <1>3. WritersWait => Restored(live, snap[op[c].ver].files)
    BY <1>2 DEF ContentInv, Copied, Restored
  <1>4. WritersWait => Copied(c)'
    BY <1>1, <1>2, <1>3 DEF Copied, InForce, Restored, Present
  <1> QED
    BY <1>1, <1>2, <1>4, HolderContent

(* Under the assumption that no training writes while the lock is held,    *)
(* every step keeps the copies in step with the live tree.                 *)
THEOREM NextContent == Safe /\ ContentInv /\ [RegistryNext]_registryVars => ContentInv'
  <1> SUFFICES ASSUME Safe, ContentInv, [RegistryNext]_registryVars PROVE ContentInv'
    OBVIOUS
  <1>1. CASE UNCHANGED registryVars
    BY <1>1 DEF registryVars, ContentInv, Copied, InForce, Restored, Present
  <1>2. ASSUME WipePointer \/ \E f \in Files, x \in Contents \cup {Absent} : Overwrite(f, x)
        PROVE  ContentInv'
    <2>1. WritersWait => \A c \in Clients : op'[c].at = "idle"
      BY <1>2, ClientsAssumption DEF Overwrite, WipePointer, Safe, LockInv
    <2>2. WritersWait => \A c \in Clients : Copied(c)'
      BY <2>1 DEF Copied, InForce
    <2> QED
      BY <2>2 DEF ContentInv
  <1>8. ASSUME NEW c \in Clients, NEW f \in Files, WipeStaged(c, f) PROVE ContentInv'
    <2>1. /\ op[c].at = "copy" /\ op'[c].at = "copy" /\ op'[c].upd = op[c].upd
          /\ \A d \in Clients : d # c => op'[d] = op[d]
      BY <1>8 DEF WipeStaged, Safe, RegistryTypeOK, Ops
    <2>2. WritersWait => Copied(c)'
      BY <1>8, <2>1 DEF WipeStaged, Copied, InForce
    <2> QED
      BY <2>1, <2>2, HolderContent
  <1>3. ASSUME NEW c \in Clients, RegistryCall(c) PROVE ContentInv'
    <2>1. ASSUME NEW v \in VersionIds, NEW expect \in 0 .. MaxVersions,
                 RestoreDefers(c, v, expect) \/ RestoreUnknown(c, v, expect)
          PROVE  ContentInv'
      BY <2>1, ReleaseContent DEF RestoreDefers, RestoreUnknown, Results
    <2> QED
      BY <1>3, <2>1, RecordBeginContent, RestoreBeginContent, PruneBeginContent DEF RegistryCall
  <1>4. ASSUME NEW c \in Clients,
               RecordEnd(c) \/ RestoreEnd(c) \/ RecordFails(c) \/ RestoreFails(c)
        PROVE  ContentInv'
    BY <1>4, ReleaseContent DEF RecordEnd, RestoreEnd, RecordFails, RestoreFails, Results
  <1>5. ASSUME NEW c \in Clients, RecordStep(c) \/ RestoreStep(c) PROVE ContentInv'
    BY <1>4, <1>5, RecordCopyContent, RecordPublishContent, RecordPointContent, PruneContent,
       RestoreFileContent, RestorePointContent
       DEF RecordStep, RestoreStep, RecordWork, RestoreWork
  <1>6. CASE RegistryDies
    <2>1. \A c \in Clients : op'[c].at = "idle"
      BY <1>6, ReturnedType DEF RegistryDies, Results
    <2> QED
      BY <2>1 DEF ContentInv, Copied, InForce
  <1>7. CASE RegistryNext
    BY <1>7, <1>2, <1>3, <1>4, <1>5, <1>6, <1>8, PruneHalfContent DEF RegistryNext
  <1> QED
    BY <1>1, <1>7

(* When a promotion or a rollback settles, what is live is the version the *)
(* pointer names, whatever earlier calls left half done.                   *)
THEOREM SettledVersionIsLive == RegistrySpec => []SettledIsLive
  <1>1. RegistryInit => ContentInv
    BY ReturnedType DEF RegistryInit, ContentInv, Copied, InForce, Results
  <1>2. Safe /\ ContentInv => SettledIsLive
    <2> SUFFICES ASSUME ContentInv, WritersWait, NEW c \in Clients, InForce(c)
                 PROVE  op[c].ver = current /\ Restored(live, snap[current].files)
      BY DEF SettledIsLive
    <2>1. Copied(c) /\ op[c].ver = current
      BY DEF ContentInv, Copied
    <2> QED
      BY <2>1 DEF Copied, InForce, Restored, Present
  <1> QED
    BY <1>1, <1>2, AlwaysSafe, NextContent, PTL DEF RegistrySpec
-----------------------------------------------------------------------------
(* Which version a step of the registry publishes, points at or deletes.   *)
LEMMA StoreStep ==
  ASSUME Safe, RegistryNext
  PROVE  \/ UNCHANGED <<kept, current>>
         \/ Store!Forget
         \/ \E v \in VersionIds : Store!Add(v) \/ Store!PointTo(v) \/ Store!Drop(v)
  <1>1. ASSUME NEW c \in Clients, RecordPublish(c)
        PROVE  op[c].ver \in VersionIds /\ Store!Add(op[c].ver)
    <2>1. op[c].ver = minted /\ op[c].ver \in VersionIds \ kept
      BY <1>1 DEF RecordPublish, Safe, VersionInv
    <2>2. \A w \in kept : w < op[c].ver
      BY <2>1 DEF Safe, VersionInv, RegistryTypeOK, VersionIds
    <2> QED
      BY <1>1, <2>1, <2>2 DEF RecordPublish, Store!Add
  <1>2. ASSUME NEW c \in Clients, RecordPoint(c) \/ RestorePoint(c)
        PROVE  op[c].ver \in VersionIds /\ Store!PointTo(op[c].ver)
    BY <1>2 DEF RecordPoint, RestorePoint, Safe, VersionInv, RegistryTypeOK, Store!PointTo
  <1>3. ASSUME NEW c \in Clients, NEW v \in VersionIds, PruneOne(c, v)
        PROVE  Store!Drop(v)
    BY <1>3 DEF PruneOne, Prunable, Store!Drop
  <1>4. ASSUME NEW c \in Clients, RegistryCall(c)
        PROVE  UNCHANGED <<kept, current>>
    BY <1>4 DEF RegistryCall, RecordBegin, RestoreDefers, RestoreUnknown, RestoreBegin, PruneBegin
  <1>5. ASSUME NEW c \in Clients,
               RecordEnd(c) \/ RestoreEnd(c) \/ RecordFails(c) \/ RestoreFails(c)
        PROVE  UNCHANGED <<kept, current>>
    BY <1>5 DEF RecordEnd, RestoreEnd, RecordFails, RestoreFails
  <1>6. ASSUME NEW c \in Clients, NEW f \in Files, RecordCopy(c, f) \/ RestoreFile(c, f)
        PROVE  UNCHANGED <<kept, current>>
    BY <1>6 DEF RecordCopy, RestoreFile
  <1>7. RegistryDies => UNCHANGED <<kept, current>>
    BY DEF RegistryDies
  <1>8. ASSUME NEW f \in Files,
               \/ \E x \in Contents \cup {Absent} : Overwrite(f, x)
               \/ \E c \in Clients : WipeStaged(c, f)
        PROVE  UNCHANGED <<kept, current>>
    BY <1>8 DEF Overwrite, WipeStaged
  <1>9. ASSUME NEW c \in Clients, NEW v \in VersionIds, NEW f \in Files, PruneHalf(c, v, f)
        PROVE  UNCHANGED <<kept, current>>
    BY <1>9 DEF PruneHalf
  <1>10. WipePointer => Store!Forget
    BY DEF WipePointer, Store!Forget, NoVersion, Store!NoVersion
  <1> QED
    BY <1>1, <1>2, <1>3, <1>4, <1>5, <1>6, <1>7, <1>8, <1>9, <1>10
       DEF RegistryNext, RecordStep, RestoreStep, RecordWork, RestoreWork

(* The detailed registry implements the version store: to an observer of   *)
(* versions/ and current.json every call is a sequence of its three steps. *)
THEOREM RegistryImplementsStore == RegistrySpec => ImplementsVersionStore
  <1>1. RegistryInit => Store!Init
    BY DEF RegistryInit, Store!Init, NoVersion, Store!NoVersion
  <1>2. Safe /\ [RegistryNext]_registryVars => [Store!Next]_(Store!vars)
    <2> SUFFICES ASSUME Safe, [RegistryNext]_registryVars
                 PROVE  [Store!Next]_(Store!vars)
      OBVIOUS
    <2>1. CASE UNCHANGED registryVars
      BY <2>1 DEF registryVars, Store!vars
    <2>2. CASE RegistryNext
      BY <2>2, StoreStep DEF Store!Next, Store!vars, VersionIds, Store!VersionIds
    <2> QED
      BY <2>1, <2>2
  <1> QED
    BY <1>1, <1>2, AlwaysSafe, PTL DEF RegistrySpec, ImplementsVersionStore, Store!Spec
-----------------------------------------------------------------------------
(* A conditional rollback in progress still sees the pointer it was asked  *)
(* to find, or none: the pointer moves only under the lock it holds, and   *)
(* what a training does to it is to delete it.                             *)
ExpectInv ==
    \A c \in Clients : op[c].at = "restore" /\ op[c].expect # AnyVersion =>
                          current \in {op[c].expect, NoVersion}

THEOREM NextExpect == Safe /\ ExpectInv /\ [RegistryNext]_registryVars => ExpectInv'
  <1> SUFFICES ASSUME Safe, ExpectInv, [RegistryNext]_registryVars,
                      NEW d \in Clients, op'[d].at = "restore", op'[d].expect # AnyVersion
               PROVE  current' \in {op'[d].expect, NoVersion}
    BY DEF ExpectInv
  <1>1. op \in [Clients -> Ops]
    BY DEF Safe, RegistryTypeOK
  <1>2. CASE op' = op /\ current' = current
    BY <1>2 DEF ExpectInv
  <1>3. ASSUME NEW c \in Clients, op' = [op EXCEPT ![c] = op'[c]], c # d, op[c].at # "idle"
        PROVE  FALSE
    <2>1. op'[d] = op[d]
      BY <1>1, <1>3
    <2> QED
      BY <1>3, <2>1 DEF Safe, LockInv
  <1>4. ASSUME NEW c \in Clients, op' = [op EXCEPT ![c] = op'[c]], c # d, current' = current
        PROVE  current' \in {op'[d].expect, NoVersion}
    BY <1>1, <1>4 DEF ExpectInv
  <1>5. ASSUME NEW c \in Clients, NEW r \in Results, op' = [op EXCEPT ![c] = Returned(r)],
               current' = current
        PROVE  current' \in {op'[d].expect, NoVersion}
    BY <1>1, <1>5, ReturnedType DEF ExpectInv
  <1>6. ASSUME NEW c \in Clients, RegistryCall(c) PROVE current' \in {op'[d].expect, NoVersion}
    <2>1. ASSUME NEW v \in VersionIds, NEW expect \in 0 .. MaxVersions, RestoreBegin(c, v, expect)
          PROVE  current' \in {op'[d].expect, NoVersion}
      BY <1>1, <2>1 DEF RestoreBegin, ExpectInv
    <2>2. ASSUME NEW upd \in BOOLEAN, NEW score \in Scores, RecordBegin(c, upd, score)
          PROVE  current' \in {op'[d].expect, NoVersion}
      BY <1>1, <2>2 DEF RecordBegin, ExpectInv
    <2>3. ASSUME NEW v \in VersionIds, NEW expect \in 0 .. MaxVersions,
                 RestoreDefers(c, v, expect) \/ RestoreUnknown(c, v, expect)
          PROVE  current' \in {op'[d].expect, NoVersion}
      BY <2>3, <1>5 DEF RestoreDefers, RestoreUnknown, Results
    <2>4. CASE PruneBegin(c)
      BY <1>1, <2>4 DEF PruneBegin, Returned, ExpectInv
    <2> QED
      BY <1>6, <2>1, <2>2, <2>3, <2>4 DEF RegistryCall
  <1>7. ASSUME NEW c \in Clients,
               RecordEnd(c) \/ RestoreEnd(c) \/ RecordFails(c) \/ RestoreFails(c)
        PROVE  current' \in {op'[d].expect, NoVersion}
    BY <1>7, <1>5 DEF RecordEnd, RestoreEnd, RecordFails, RestoreFails, Results
  <1>8. ASSUME NEW c \in Clients, RecordPoint(c) \/ RestorePoint(c)
        PROVE  current' \in {op'[d].expect, NoVersion}
    <2>1. /\ op'[c].at \in {"prune", "settled"} /\ op[c].at # "idle"
          /\ op' = [op EXCEPT ![c] = op'[c]]
      BY <1>1, <1>8 DEF RecordPoint, RestorePoint, Ops
    <2> QED
      BY <2>1, <1>3
  <1>9. ASSUME NEW c \in Clients, RecordPublish(c) \/ \E f \in Files : RecordCopy(c, f)
        PROVE  current' \in {op'[d].expect, NoVersion}
    <2>1. op[c].at = "copy" /\ current' = current /\ op' = [op EXCEPT ![c] = op'[c]]
      BY <1>1, <1>9 DEF RecordPublish, RecordCopy
    <2>2. CASE RecordPublish(c)
      <3>1. op'[c].at \in {"point", "prune"}
        BY <2>2, <1>1 DEF RecordPublish, Ops
      <3>2. c # d
        BY <3>1
      <3> QED
        BY <2>1, <3>2, <1>4
    <2>3. ASSUME NEW f \in Files, RecordCopy(c, f) PROVE op'[c].at = "copy"
      BY <2>1, <2>3, <1>1 DEF RecordCopy, Ops
    <2> QED
      BY <2>1, <2>2, <2>3, <1>4, <1>9
  <1>10. ASSUME NEW c \in Clients, NEW f \in Files, RestoreFile(c, f)
         PROVE  current' \in {op'[d].expect, NoVersion}
    <2>1. /\ current' = current /\ op' = [op EXCEPT ![c] = op'[c]]
          /\ op'[c].expect = op[c].expect /\ op[c].at = "restore"
      BY <1>1, <1>10 DEF RestoreFile, Ops
    <2> QED
      BY <2>1, <1>4 DEF ExpectInv
  <1>11. ASSUME NEW c \in Clients, NEW v \in VersionIds,
                PruneOne(c, v) \/ \E f \in Files : PruneHalf(c, v, f)
         PROVE  current' \in {op'[d].expect, NoVersion}
    BY <1>11, <1>2 DEF PruneOne, PruneHalf
  <1>12. CASE RegistryDies
    BY <1>12, ReturnedType DEF RegistryDies, Results
  <1>13. ASSUME WipePointer \/ (\E c \in Clients, f \in Files : WipeStaged(c, f))
                  \/ \E f \in Files, x \in Contents \cup {Absent} : Overwrite(f, x)
         PROVE  current' \in {op'[d].expect, NoVersion}
    <2>1. ASSUME NEW c \in Clients, NEW f \in Files, WipeStaged(c, f)
          PROVE  current' \in {op'[d].expect, NoVersion}
      <3>1. current' = current /\ op'[d].at = op[d].at /\ op'[d].expect = op[d].expect
        BY <1>1, <2>1 DEF WipeStaged, Ops
      <3> QED
        BY <3>1 DEF ExpectInv
    <2> QED
      BY <1>13, <2>1, <1>2 DEF Overwrite, WipePointer
  <1>14. CASE RegistryNext
    BY <1>14, <1>6, <1>7, <1>8, <1>9, <1>10, <1>11, <1>12, <1>13
       DEF RegistryNext, RecordStep, RestoreStep, RecordWork, RestoreWork
  <1>15. CASE UNCHANGED registryVars
    BY <1>15, <1>2 DEF registryVars
  <1> QED
    BY <1>14, <1>15

(* A gate's rollback to the champion never overrides an operator's: the    *)
(* pointer it moves is the one the gate decided against.                   *)
THEOREM RollbackIsConditional == RegistrySpec => ConditionalRollback
  <1>1. RegistryInit => ExpectInv
    BY ReturnedType DEF RegistryInit, ExpectInv, Results
  <1>2. ExpectInv => \A c \in Clients :
           op[c].at = "restore" /\ op[c].expect # AnyVersion /\ op'[c].at = "settled"
              => current \in {op[c].expect, NoVersion}
    BY DEF ExpectInv
  <1> QED
    BY <1>1, <1>2, AlwaysSafe, NextExpect, PTL DEF RegistrySpec, ConditionalRollback
-----------------------------------------------------------------------------
(* The converse of LockInv: whoever holds _REGISTRY_LOCK is inside a call, *)
(* so no way out of a call, by success, refusal, I/O error or the death of *)
(* the process, leaves the lock behind for the next caller to wait on.     *)
HeldByCall == \A c \in Clients : lock = c => op[c].at # "idle"

THEOREM NextHeld == Safe /\ HeldByCall /\ [RegistryNext]_registryVars => HeldByCall'
  <1> SUFFICES ASSUME Safe, HeldByCall, [RegistryNext]_registryVars,
                      NEW d \in Clients, lock' = d
               PROVE  op'[d].at # "idle"
    BY DEF HeldByCall
  <1>1. op \in [Clients -> Ops] /\ d # NoClient
    BY ClientsAssumption DEF Safe, RegistryTypeOK
  <1>2. CASE lock' = lock /\ op' = op
    BY <1>2 DEF HeldByCall
  <1>3. ASSUME NEW c \in Clients, lock' = lock, op' = [op EXCEPT ![c] = op'[c]],
               op'[c].at # "idle"
        PROVE  op'[d].at # "idle"
    BY <1>1, <1>3 DEF HeldByCall
  <1>4. ASSUME NEW c \in Clients, RegistryCall(c) PROVE op'[d].at # "idle"
    <2>1. ASSUME NEW upd \in BOOLEAN, NEW score \in Scores, RecordBegin(c, upd, score)
          PROVE  op'[d].at # "idle"
      BY <1>1, <2>1 DEF RecordBegin
    <2>2. ASSUME NEW v \in VersionIds, NEW expect \in 0 .. MaxVersions, RestoreBegin(c, v, expect)
          PROVE  op'[d].at # "idle"
      BY <1>1, <2>2 DEF RestoreBegin
    <2>3. ASSUME NEW v \in VersionIds, NEW expect \in 0 .. MaxVersions,
                 RestoreDefers(c, v, expect) \/ RestoreUnknown(c, v, expect)
          PROVE  op'[d].at # "idle"
      BY <1>1, <2>3 DEF RestoreDefers, RestoreUnknown
    <2>4. CASE PruneBegin(c)
      BY <1>1, <2>4 DEF PruneBegin, Returned
    <2> QED
      BY <1>4, <2>1, <2>2, <2>3, <2>4 DEF RegistryCall
  <1>5. ASSUME NEW c \in Clients,
               RecordEnd(c) \/ RestoreEnd(c) \/ RecordFails(c) \/ RestoreFails(c) \/ RegistryDies
        PROVE  FALSE
    BY <1>1, <1>5 DEF RecordEnd, RestoreEnd, RecordFails, RestoreFails, RegistryDies
  <1>6. ASSUME NEW c \in Clients, RecordWork(c) \/ RestoreWork(c) PROVE op'[d].at # "idle"
    <2>1. ASSUME NEW f \in Files, RecordCopy(c, f) \/ RestoreFile(c, f) PROVE op'[d].at # "idle"
      <3>1. /\ lock' = lock /\ op' = [op EXCEPT ![c] = op'[c]]
            /\ op'[c].at = op[c].at /\ op[c].at # "idle"
        BY <1>1, <2>1 DEF RecordCopy, RestoreFile, Ops
      <3> QED
        BY <3>1, <1>3
    <2>2. CASE RecordPublish(c) \/ RecordPoint(c) \/ RestorePoint(c)
      <3>1. lock' = lock /\ op' = [op EXCEPT ![c] = op'[c]] /\ op'[c].at # "idle"
        BY <1>1, <2>2 DEF RecordPublish, RecordPoint, RestorePoint, Ops
      <3> QED
        BY <3>1, <1>3
    <2>3. ASSUME NEW v \in VersionIds, PruneOne(c, v) PROVE op'[d].at # "idle"
      BY <2>3, <1>2 DEF PruneOne
    <2> QED
      BY <1>6, <2>1, <2>2, <2>3 DEF RecordWork, RestoreWork
  <1>7. ASSUME NEW c \in Clients, NEW f \in Files, WipeStaged(c, f) PROVE op'[d].at # "idle"
    <2>1. lock' = lock /\ op'[d].at = op[d].at
      BY <1>1, <1>7 DEF WipeStaged, Ops
    <2> QED
      BY <2>1 DEF HeldByCall
  <1>8. ASSUME WipePointer \/ (\E f \in Files, x \in Contents \cup {Absent} : Overwrite(f, x))
                 \/ \E c \in Clients, v \in VersionIds, f \in Files : PruneHalf(c, v, f)
        PROVE  op'[d].at # "idle"
    BY <1>8, <1>2 DEF WipePointer, Overwrite, PruneHalf
  <1>9. CASE RegistryNext
    <2>1. ~RegistryDies
      BY <1>1 DEF RegistryDies
    <2> QED
      BY <1>9, <2>1, <1>4, <1>5, <1>6, <1>7, <1>8 DEF RegistryNext, RecordStep, RestoreStep
  <1>10. CASE UNCHANGED registryVars
    BY <1>10, <1>2 DEF registryVars
  <1> QED
    BY <1>9, <1>10

(* _REGISTRY_LOCK is held exactly by the client that is inside a call: the *)
(* calls exclude each other, and none of them leaks the lock.              *)
THEOREM LockIsHeldByCall ==
  RegistrySpec => [](\A c \in Clients : lock = c <=> op[c].at # "idle")
  <1>1. RegistryInit => HeldByCall
    BY ClientsAssumption DEF RegistryInit, HeldByCall
  <1>2. Safe /\ HeldByCall => \A c \in Clients : lock = c <=> op[c].at # "idle"
    BY DEF Safe, LockInv, HeldByCall
  <1> QED
    BY <1>1, <1>2, AlwaysSafe, NextHeld, PTL DEF RegistrySpec
-----------------------------------------------------------------------------
(* How much the disk may hold.  A folder the sweep could not delete has    *)
(* cost a fault, and so has a call that failed before its own sweep; only  *)
(* the call in progress may have one folder more.                          *)
SizeInv ==
    /\ Cardinality(spared) <= faults
    /\ Cardinality(kept) <= Cap + faults + 1
    /\ Cardinality(kept) <= Cap + faults \/ \E c \in Clients : op[c].at \in {"point", "prune"}

LEMMA FiniteFolders ==
  ASSUME RegistryTypeOK
  PROVE  /\ IsFiniteSet(VersionIds)
         /\ IsFiniteSet(kept) /\ Cardinality(kept) \in Nat
         /\ IsFiniteSet(spared) /\ Cardinality(spared) \in Nat
         /\ faults \in Nat /\ Cap \in Nat
  <1>1. IsFiniteSet(VersionIds)
    BY BoundsAssumption, FS_Interval DEF VersionIds
  <1>2. IsFiniteSet(kept) /\ IsFiniteSet(spared)
    BY <1>1, FS_Subset DEF RegistryTypeOK
  <1> QED
    BY <1>1, <1>2, FS_CardinalityType, CapAssumption DEF RegistryTypeOK

(* A set of versions that is not empty has an oldest one. *)
LEMMA OldestExists ==
  ASSUME NEW S, S \subseteq VersionIds, S # {}
  PROVE  \E v \in S : \A w \in S : v <= w
  <1>1. S \subseteq Nat
    BY BoundsAssumption DEF VersionIds
  <1>2. PICK v \in S : \A w \in S : <<w, v>> \notin OpToRel(<, Nat)
    BY <1>1, NatLessThanWellFounded, WFMin
  <1>3. ASSUME NEW w \in S PROVE v <= w
    <2>1. v \in Nat /\ w \in Nat
      BY <1>1
    <2>2. ~(w < v)
      BY <1>2, <2>1 DEF OpToRel
    <2> QED
      BY <2>1, <2>2
  <1> QED
    BY <1>3

(* When a sweep has nothing left to delete, it has come down to the cap,   *)
(* but for the folders it could not delete.                                *)
LEMMA SweptEnough ==
  ASSUME RegistryTypeOK, \A v \in kept : ~Prunable(v)
  PROVE  Cardinality(kept) <= Cap + Cardinality(spared)
  <1> DEFINE R == kept \ (spared \cup {current})
  <1>0. IsFiniteSet(kept) /\ IsFiniteSet(spared)
    BY FiniteFolders
  <1>1. /\ IsFiniteSet(kept \ spared) /\ Cardinality(kept \ spared) \in Nat
        /\ Cardinality(kept \cap spared) \in Nat
        /\ Cardinality(kept) = Cardinality(kept \ spared) + Cardinality(kept \cap spared)
        /\ Cardinality(kept \cap spared) <= Cardinality(spared)
    <2>1. /\ IsFiniteSet(kept \ spared)
          /\ Cardinality(kept \ spared) = Cardinality(kept) - Cardinality(kept \cap spared)
      BY <1>0, FS_Difference
    <2>2. IsFiniteSet(kept \cap spared) /\ Cardinality(kept \cap spared) <= Cardinality(spared)
      BY <1>0, FS_Intersection
    <2>3. /\ Cardinality(kept) \in Nat /\ Cardinality(kept \ spared) \in Nat
          /\ Cardinality(kept \cap spared) \in Nat
      BY <1>0, <2>1, <2>2, FS_CardinalityType
    <2> QED
      BY <2>1, <2>2, <2>3
  <1>2. CASE R = {}
    <2>1. kept \ spared \subseteq {current}
      BY <1>2
    <2>2. Cardinality(kept \ spared) <= 1
      <3>1. IsFiniteSet({current}) /\ Cardinality({current}) = 1
        BY FS_Singleton
      <3> QED
        BY <2>1, <3>1, FS_Subset
    <2> QED
      BY <1>1, <2>2, CapAssumption, FiniteFolders
  <1>3. CASE R # {}
    <2>1. PICK v \in R : \A w \in R : v <= w
      BY <1>3, OldestExists DEF RegistryTypeOK
    <2>2. ~(Cardinality(kept \ spared) > Cap)
      BY <2>1 DEF Prunable
    <2> QED
      BY <1>1, <2>2, FiniteFolders
  <1> QED
    BY <1>2, <1>3

(* A call that ends, or is ended, leaves no folder unaccounted for. *)
LEMMA LeaveSize ==
  ASSUME Safe, SizeInv, kept' = kept, Cardinality(spared') <= faults',
         \/ faults' = faults + 1
         \/ faults' = faults /\ Cardinality(kept) <= Cap + faults
  PROVE  SizeInv'
  BY FiniteFolders DEF SizeInv, Safe

(* A step that only moves a call along, before its version is published or *)
(* while another one's folders are restored.                               *)
LEMMA QuietSize ==
  ASSUME Safe, SizeInv, UNCHANGED <<kept, spared, faults>>,
         \A c \in Clients : op[c].at \in {"point", "prune"} => op'[c].at \in {"point", "prune"}
  PROVE  SizeInv'
  BY DEF SizeInv

(* While a call is elsewhere than in its publication, the cap holds.       *)
LEMMA HolderSize ==
  ASSUME Safe, SizeInv, NEW c \in Clients, op[c].at \notin {"idle", "point", "prune"}
  PROVE  Cardinality(kept) <= Cap + faults
  BY DEF Safe, LockInv, SizeInv

THEOREM NextSize == Safe /\ SizeInv /\ [RegistryNext]_registryVars => SizeInv'
  <1> SUFFICES ASSUME Safe, SizeInv, [RegistryNext]_registryVars PROVE SizeInv'
    OBVIOUS
  <1>0. /\ RegistryTypeOK /\ op \in [Clients -> Ops]
        /\ Cardinality(kept) \in Nat /\ Cardinality(spared) \in Nat /\ faults \in Nat /\ Cap \in Nat
    BY FiniteFolders DEF Safe, RegistryTypeOK
  <1>1. CASE UNCHANGED registryVars
    BY <1>1, QuietSize DEF registryVars
  <1>2. ASSUME \/ WipePointer
               \/ \E f \in Files, x \in Contents \cup {Absent} : Overwrite(f, x)
        PROVE  SizeInv'
    BY <1>2, QuietSize DEF Overwrite, WipePointer
  <1>3. ASSUME NEW c \in Clients,
               \/ \E f \in Files : WipeStaged(c, f) \/ RecordCopy(c, f) \/ RestoreFile(c, f)
               \/ RegistryCall(c) \/ RecordPoint(c) \/ RestorePoint(c)
        PROVE  SizeInv'
    <2>1. UNCHANGED <<kept, spared, faults>>
      BY <1>3 DEF WipeStaged, RecordCopy, RestoreFile, RegistryCall, RecordBegin, RestoreDefers,
                  RestoreUnknown, RestoreBegin, PruneBegin, RecordPoint, RestorePoint
    <2>2. op[c].at \in {"point", "prune"} => op'[c].at \in {"point", "prune"}
      <3>1. op[c].at \in {"copy", "restore", "idle"} \/ RecordPoint(c)
        BY <1>3 DEF WipeStaged, RecordCopy, RestoreFile, RegistryCall, RecordBegin, RestoreDefers,
                    RestoreUnknown, RestoreBegin, PruneBegin, RestorePoint
      <3>2. RecordPoint(c) => op'[c].at = "prune"
        BY <1>0 DEF RecordPoint, Ops
      <3> QED
        BY <3>1, <3>2
    <2>3. \A d \in Clients : d # c => op'[d] = op[d]
      BY <1>0, <1>3
         DEF WipeStaged, RecordCopy, RestoreFile, RegistryCall, RecordBegin, RestoreDefers,
             RestoreUnknown, RestoreBegin, PruneBegin, RecordPoint, RestorePoint
    <2>4. \A d \in Clients : op[d].at \in {"point", "prune"} => op'[d].at \in {"point", "prune"}
      BY <2>2, <2>3
    <2> QED
      BY <2>1, <2>4, QuietSize
  <1>4. ASSUME NEW c \in Clients, RecordPublish(c) PROVE SizeInv'
    <2>1. Cardinality(kept) <= Cap + faults
      BY <1>4, HolderSize DEF RecordPublish
    <2>2. Cardinality(kept') = Cardinality(kept) + 1
      BY <1>4, FiniteFolders, FS_AddElement DEF RecordPublish, Safe, VersionInv
    <2>3. op'[c].at \in {"point", "prune"}
      BY <1>0, <1>4 DEF RecordPublish, Ops
    <2> QED
      BY <1>0, <1>4, <2>1, <2>2, <2>3 DEF RecordPublish, SizeInv
  <1>5. ASSUME NEW c \in Clients, NEW v \in VersionIds, PruneOne(c, v) PROVE SizeInv'
    <2>1. Cardinality(kept') <= Cardinality(kept) /\ Cardinality(kept') \in Nat
      BY <1>5, FiniteFolders, FS_Subset, FS_CardinalityType DEF PruneOne, Safe
    <2>2. UNCHANGED <<spared, faults, op>> /\ op[c].at = "prune"
      BY <1>5 DEF PruneOne
    <2> QED
      BY <1>0, <2>1, <2>2 DEF SizeInv
  <1>6. ASSUME NEW c \in Clients, NEW v \in VersionIds, NEW f \in Files, PruneHalf(c, v, f)
        PROVE  SizeInv'
    <2>1. Cardinality(spared') = Cardinality(spared) + 1
      BY <1>6, FiniteFolders, FS_AddElement DEF PruneHalf, Prunable, Safe
    <2>2. UNCHANGED <<kept, op>> /\ op[c].at = "prune" /\ faults' = faults + 1
      BY <1>6 DEF PruneHalf
    <2> QED
      BY <1>0, <2>1, <2>2 DEF SizeInv
  <1>7. ASSUME NEW c \in Clients, RecordEnd(c) PROVE SizeInv'
    <2>1. Cardinality(kept) <= Cap + faults
      BY <1>0, <1>7, SweptEnough DEF RecordEnd, SizeInv
    <2>2. Cardinality({}) = 0
      BY FS_EmptySet
    <2> QED
      BY <1>0, <1>7, <2>1, <2>2, LeaveSize DEF RecordEnd
  <1>8. ASSUME NEW c \in Clients, RestoreEnd(c) PROVE SizeInv'
    <2>1. Cardinality(kept) <= Cap + faults
      BY <1>8, HolderSize DEF RestoreEnd
    <2> QED
      BY <1>8, <2>1, LeaveSize DEF RestoreEnd, SizeInv
  <1>9. ASSUME RegistryDies \/ \E c \in Clients : RecordFails(c) \/ RestoreFails(c) PROVE SizeInv'
    <2>1. Cardinality({}) = 0
      BY FS_EmptySet
    <2>2. kept' = kept /\ faults' = faults + 1 /\ (spared' = {} \/ spared' = spared)
      BY <1>9 DEF RegistryDies, RecordFails, RestoreFails
    <2>3. Cardinality(spared') <= faults'
      BY <1>0, <2>1, <2>2 DEF SizeInv
    <2> QED
      BY <2>2, <2>3, LeaveSize
  <1>10. CASE RegistryNext
    BY <1>10, <1>2, <1>3, <1>4, <1>5, <1>6, <1>7, <1>8, <1>9
       DEF RegistryNext, RecordStep, RestoreStep, RecordWork, RestoreWork
  <1> QED
    BY <1>1, <1>10

(* Retention bounds the disk, for every cap: what exceeds it has been paid *)
(* for by a failed call, a dead process or a folder that would not go.     *)
THEOREM RetentionIsBounded == RegistrySpec => []RetentionBound
  <1>1. RegistryInit => SizeInv
    BY FS_EmptySet, CapAssumption DEF RegistryInit, SizeInv
  <1>2. Safe /\ SizeInv => RetentionBound
    BY ClientsAssumption DEF Safe, LockInv, SizeInv, RetentionBound
  <1> QED
    BY <1>1, <1>2, AlwaysSafe, NextSize, PTL DEF RegistrySpec
-----------------------------------------------------------------------------
(* The only step inside a published folder is the sweep that fails in it.  *)
LEMMA SnapshotStep ==
  ASSUME Safe, [RegistryNext]_registryVars, NEW v \in kept \cap kept', snap'[v] # snap[v]
  PROVE  /\ faults' > faults /\ v # current
         /\ \A c \in Clients : op[c].at \in {"restore", "settled"} => op[c].ver # v
  <1>1. v \in VersionIds /\ snap \in [VersionIds -> Manifests] /\ faults \in Nat
    BY FiniteFolders DEF Safe, RegistryTypeOK
  <1>2. snap' # snap
    OBVIOUS
  <1>3. ASSUME NEW c \in Clients, RecordPublish(c) PROVE FALSE
    BY <1>1, <1>3 DEF RecordPublish, Safe, VersionInv
  <1>4. ASSUME NEW c \in Clients, NEW w \in VersionIds, PruneOne(c, w) PROVE FALSE
    BY <1>1, <1>4 DEF PruneOne
  <1>5. PICK c \in Clients, w \in VersionIds, f \in Files : PruneHalf(c, w, f)
    BY <1>2, <1>3, <1>4
       DEF RegistryNext, registryVars, Overwrite, WipeStaged, WipePointer, RegistryCall,
           RecordBegin, RestoreDefers, RestoreUnknown, RestoreBegin, PruneBegin, RecordStep,
           RecordWork, RecordCopy, RecordPoint, RecordEnd, RestoreStep, RestoreWork, RestoreFile,
           RestorePoint, RestoreEnd, RecordFails, RestoreFails, RegistryDies
  <1>6. w = v /\ faults' = faults + 1 /\ Prunable(w) /\ op[c].at = "prune"
    BY <1>1, <1>5 DEF PruneHalf
  <1>7. \A d \in Clients : op[d].at # "idle" => d = c
    BY <1>6 DEF Safe, LockInv
  <1> QED
    BY <1>1, <1>6, <1>7 DEF Prunable

(* A version that is in force, or being restored, is read as it was        *)
(* published; any other changes only under a sweep that fails in it.       *)
THEOREM PublishedIsImmutable == RegistrySpec => SnapshotsImmutable
  <1>1. Safe /\ [RegistryNext]_registryVars =>
           \A v \in kept \cap kept' : snap'[v] # snap[v] =>
              /\ faults' > faults /\ v # current
              /\ \A c \in Clients : op[c].at \in {"restore", "settled"} => op[c].ver # v
    BY SnapshotStep
  <1> QED
    BY <1>1, AlwaysSafe, PTL DEF RegistrySpec, SnapshotsImmutable
-----------------------------------------------------------------------------
(* What each step of a call does to the record of its client, and that it  *)
(* leaves the others' alone, field by field: for those who compose the     *)
(* registry with its callers.                                              *)
LEMMA RecordBeginEffect ==
  ASSUME Safe, NEW c \in Clients, NEW upd, NEW score, RecordBegin(c, upd, score)
  PROVE  /\ op'[c].at = "copy" /\ op'[c].ver = minted + 1 /\ op'[c].todo = Present(live)
         /\ op'[c].stage = EmptyTree /\ op'[c].upd = upd /\ op'[c].score = score
         /\ \A d \in Clients : d # c => op'[d] = op[d]
  BY DEF RecordBegin, Safe, RegistryTypeOK

LEMMA RecordCopyEffect ==
  ASSUME Safe, NEW c \in Clients, NEW f \in Files, RecordCopy(c, f)
  PROVE  /\ op[c].at = "copy" /\ op'[c].at = "copy" /\ op'[c].todo = op[c].todo \ {f}
         /\ op'[c].stage = [op[c].stage EXCEPT ![f] = live[f]] /\ op'[c].ver = op[c].ver
         /\ op'[c].upd = op[c].upd /\ op'[c].score = op[c].score
         /\ \A d \in Clients : d # c => op'[d] = op[d]
  <1>1. op[c] \in Ops /\ op \in [Clients -> Ops]
    BY DEF Safe, RegistryTypeOK
  <1>2. op' = [op EXCEPT ![c] = [[op[c] EXCEPT !.todo = @ \ {f}]
                                    EXCEPT !.stage = [op[c].stage EXCEPT ![f] = live[f]]]]
    BY <1>1 DEF RecordCopy, Ops
  <1>3. op'[c] = [[op[c] EXCEPT !.todo = @ \ {f}]
                     EXCEPT !.stage = [op[c].stage EXCEPT ![f] = live[f]]]
    BY <1>1, <1>2
  <1> QED
    BY <1>1, <1>2, <1>3 DEF RecordCopy, Ops

LEMMA WipeStagedEffect ==
  ASSUME Safe, NEW c \in Clients, NEW f \in Files, WipeStaged(c, f)
  PROVE  /\ op[c].at = "copy" /\ op'[c].at = "copy" /\ op'[c].todo = op[c].todo
         /\ op'[c].stage = [op[c].stage EXCEPT ![f] = Absent] /\ op'[c].ver = op[c].ver
         /\ op'[c].upd = op[c].upd /\ op'[c].score = op[c].score
         /\ \A d \in Clients : d # c => op'[d] = op[d]
  <1>1. op[c] \in Ops /\ op \in [Clients -> Ops]
    BY DEF Safe, RegistryTypeOK
  <1>2. op'[c] = [op[c] EXCEPT !.stage = [op[c].stage EXCEPT ![f] = Absent]]
    BY <1>1 DEF WipeStaged, Ops
  <1> QED
    BY <1>1, <1>2 DEF WipeStaged, Ops

(* The steps that change where the call is and nothing else of it.         *)
LEMMA StageEffect ==
  ASSUME Safe, NEW c \in Clients, NEW stage \in Stages, op' = [op EXCEPT ![c].at = stage]
  PROVE  /\ op'[c].at = stage /\ op'[c].todo = op[c].todo /\ op'[c].stage = op[c].stage
         /\ op'[c].ver = op[c].ver /\ op'[c].upd = op[c].upd /\ op'[c].score = op[c].score
         /\ \A d \in Clients : d # c => op'[d] = op[d]
  <1>1. op[c] \in Ops /\ op \in [Clients -> Ops]
    BY DEF Safe, RegistryTypeOK
  <1>2. op'[c] = [op[c] EXCEPT !.at = stage]
    BY <1>1 DEF Ops
  <1> QED
    BY <1>1, <1>2 DEF Ops

LEMMA RecordPublishEffect ==
  ASSUME Safe, NEW c \in Clients, RecordPublish(c)
  PROVE  /\ op[c].at = "copy" /\ op'[c].at = IF op[c].upd THEN "point" ELSE "prune"
         /\ op'[c].todo = op[c].todo /\ op'[c].stage = op[c].stage
         /\ op'[c].ver = op[c].ver /\ op'[c].upd = op[c].upd /\ op'[c].score = op[c].score
         /\ \A d \in Clients : d # c => op'[d] = op[d]
         /\ op[c].ver \in VersionIds \ kept
         /\ snap'[op[c].ver] = [files |-> op[c].stage, score |-> op[c].score,
                                promoted |-> op[c].upd]
         /\ \A v \in VersionIds \ {op[c].ver} : snap'[v] = snap[v]
  <1>1. op[c].at = "copy" /\ op[c].ver \in VersionIds \ kept
    BY DEF RecordPublish, Safe, VersionInv
  <1> DEFINE stage == IF op[c].upd THEN "point" ELSE "prune"
  <1>2. stage \in Stages
    BY DEF Stages
  <1>3. op' = [op EXCEPT ![c].at = stage]
    BY DEF RecordPublish
  <1>4. snap' = [snap EXCEPT ![op[c].ver] = [files |-> op[c].stage, score |-> op[c].score,
                                             promoted |-> op[c].upd]]
    BY DEF RecordPublish
  <1>5. /\ snap'[op[c].ver] = [files |-> op[c].stage, score |-> op[c].score,
                               promoted |-> op[c].upd]
        /\ \A v \in VersionIds \ {op[c].ver} : snap'[v] = snap[v]
    BY <1>1, <1>4 DEF Safe, RegistryTypeOK
  <1> HIDE DEF stage
  <1>6. /\ op'[c].at = stage /\ op'[c].todo = op[c].todo /\ op'[c].stage = op[c].stage
        /\ op'[c].ver = op[c].ver /\ op'[c].upd = op[c].upd /\ op'[c].score = op[c].score
        /\ \A d \in Clients : d # c => op'[d] = op[d]
    BY <1>2, <1>3, StageEffect
  <1> QED
    BY <1>1, <1>5, <1>6 DEF stage

LEMMA ReturnedEffect ==
  ASSUME Safe, NEW c \in Clients, NEW r, op' = [op EXCEPT ![c] = Returned(r)]
  PROVE  op'[c].at = "idle" /\ \A d \in Clients : d # c => op'[d] = op[d]
  BY DEF Safe, RegistryTypeOK, Returned

LEMMA RestoreBeginEffect ==
  ASSUME Safe, NEW c \in Clients, NEW v \in VersionIds, NEW expect, RestoreBegin(c, v, expect)
  PROVE  /\ op'[c].at = "restore" /\ op'[c].ver = v /\ op'[c].todo = Present(snap[v].files)
         /\ op'[c].stage = EmptyTree
         /\ \A d \in Clients : d # c => op'[d] = op[d]
  BY DEF RestoreBegin, Safe, RegistryTypeOK

LEMMA RestoreFileEffect ==
  ASSUME Safe, NEW c \in Clients, NEW f \in Files, RestoreFile(c, f)
  PROVE  /\ op[c].at = "restore" /\ op'[c].at = "restore" /\ op'[c].todo = op[c].todo \ {f}
         /\ op'[c].stage = op[c].stage /\ op'[c].ver = op[c].ver
         /\ \A d \in Clients : d # c => op'[d] = op[d]
  <1>1. op[c] \in Ops /\ op \in [Clients -> Ops]
    BY DEF Safe, RegistryTypeOK
  <1>2. op'[c] = [op[c] EXCEPT !.todo = @ \ {f}]
    BY <1>1 DEF RestoreFile, Ops
  <1> QED
    BY <1>1, <1>2 DEF RestoreFile, Ops
=============================================================================
