-------------------------- MODULE DailyRefreshProofs --------------------------
(***************************************************************************)
(* Theorems of DailyRefresh, for any horizons, posts, retrains and faults.  *)
(* SalesInv is why overlapping refreshes never take sales back: what a run  *)
(* read is not newer than YaumiLive and not older than the table, and the   *)
(* lock keeps every other MERGE out until the run has written it.           *)
(***************************************************************************)
EXTENDS DailyRefresh, TLAPS, Integers, FiniteSetTheorems

Locked  == {"loading", "writing"}
Steps   == {"idle", "due", "waiting", "loading", "writing", "mirroring", "generating", "stamping"}
RunRecords == [pc : Steps, date : Nat, oldest : Nat, next : Int, model : Models,
               snap : [Ages -> Maybe(Posts)], ok : BOOLEAN]

RunsOK ==
    /\ run \in [Callers -> RunRecords]
    /\ \A c \in Callers : lock = c <=> run[c].pc \in Locked

WorldOK ==
    /\ slot \in {"day", "primary", "backstop"}
    /\ live \in [Ages -> Posts]
    /\ forecast \in Models /\ csv \in Models
    /\ table \in [Ages -> Rows] /\ mirror \in [Ages -> Rows]
    /\ recs \subseteq Ages
    /\ stamp \in {"day", "primary", "backstop", None}
    /\ calls \in 0..MaxManual /\ faults \in 0..MaxFaults

\* what a run holds is between what the table has and what YaumiLive says
SalesInv ==
    /\ \A a \in Ages : table[a].rep # None => table[a].rep <= live[a]
    /\ \A c \in Callers : run[c].pc = "writing" =>
          \A a \in Ages : run[c].snap[a] # None =>
             /\ run[c].snap[a] <= live[a]
             /\ table[a].rep # None => table[a].rep <= run[c].snap[a]

\* a night's callers are done before their next turn comes
NightInv ==
    /\ slot = "day" => \A c \in {"nightly", "backstop"} :
                         run[c].pc = "idle" \/ (Active(c) /\ run[c].date # 0)
    /\ slot = "primary" => run["backstop"].pc = "idle"

RefreshSafe == RunsOK /\ WorldOK /\ SalesInv /\ NightInv

-----------------------------------------------------------------------------
LEMMA IdleType == Idle \in RunRecords /\ Idle.pc = "idle"
  BY RefreshAssumption DEF Idle, RunRecords, Steps, Models, Maybe

LEMMA NoRowType == NoRow \in Rows /\ NoRow.rep = None
  BY DEF NoRow, Rows, Maybe

LEMMA AgedType ==
  ASSUME NEW S, NEW f \in [Ages -> S], NEW x \in S
  PROVE  Aged(f, x) \in [Ages -> S]
  <1> SUFFICES ASSUME NEW a \in Ages, a # 0 PROVE f[a - 1] \in S
    BY DEF Aged
  <1>1. a - 1 \in Ages
    BY RefreshAssumption DEF Ages
  <1> QED
    BY <1>1

LEMMA RunType ==
  ASSUME RunsOK, NEW c \in Callers
  PROVE  /\ run[c] \in RunRecords
         /\ run[c].pc \in Steps /\ run[c].date \in Nat /\ run[c].oldest \in Nat
         /\ run[c].next \in Int /\ run[c].model \in Models
         /\ run[c].snap \in [Ages -> Maybe(Posts)] /\ run[c].ok \in BOOLEAN
  BY DEF RunsOK, RunRecords

(* One caller moves; the lock changes hands with it or not at all.          *)
LEMMA OneMoves ==
  ASSUME RunsOK, NEW c \in Callers, NEW rec \in RunRecords,
         run' = [run EXCEPT ![c] = rec],
         lock' = c <=> rec.pc \in Locked,
         \A d \in Callers \ {c} : lock' = d <=> lock = d
  PROVE  /\ RunsOK'
         /\ run'[c] = rec
         /\ \A d \in Callers \ {c} : run'[d] = run[d]
  BY DEF RunsOK

(* A caller that is neither taking nor holding the lock moves.              *)
LEMMA LocklessMove ==
  ASSUME RunsOK, NEW c \in Callers, NEW rec \in RunRecords,
         run' = [run EXCEPT ![c] = rec], lock' = lock,
         run[c].pc \notin Locked, rec.pc \notin Locked
  PROVE  /\ RunsOK'
         /\ run'[c] = rec
         /\ \A d \in Callers \ {c} : run'[d] = run[d]
  <1>1. lock' = c <=> rec.pc \in Locked
    BY DEF RunsOK
  <1> QED
    BY <1>1, OneMoves

(* The holder of the lock gives it back, whatever it does next.             *)
LEMMA ReleaseMove ==
  ASSUME RunsOK, NEW c \in Callers, NEW rec \in RunRecords,
         run' = [run EXCEPT ![c] = rec], lock' = None,
         run[c].pc \in Locked, rec.pc \notin Locked
  PROVE  /\ RunsOK'
         /\ run'[c] = rec
         /\ \A d \in Callers \ {c} : run'[d] = run[d]
  <1>1. lock = c
    BY DEF RunsOK
  <1>2. \A d \in Callers : lock' # d
    BY RefreshAssumption DEF Callers
  <1> QED
    BY <1>1, <1>2, OneMoves

(* When neither sales nor the table change and nobody starts to write, what *)
(* the runs hold stays in between.                                          *)
LEMMA SalesKept ==
  ASSUME RefreshSafe, live' = live, table' = table,
         \A c \in Callers : run'[c].pc = "writing" => run'[c] = run[c]
  PROVE  SalesInv'
  BY DEF RefreshSafe, SalesInv

(* A run that goes on keeps its date.                                       *)
LEMMA NightKept ==
  ASSUME NightInv, NEW c \in Callers, slot' = slot,
         \A d \in Callers \ {c} : run'[d] = run[d],
         \/ run'[c].pc = "idle"
         \/ /\ Active(c) /\ run'[c].pc \notin {"idle", "due"}
            /\ run'[c].date = run[c].date
         \/ c = "manual"
  PROVE  NightInv'
  BY DEF NightInv, Active, Callers

-----------------------------------------------------------------------------
THEOREM RefreshInitSafe == Init => RefreshSafe
  <1> SUFFICES ASSUME Init PROVE RefreshSafe
    OBVIOUS
  <1>1. RunsOK
    BY IdleType, RefreshAssumption DEF Init, RunsOK, Locked, Callers
  <1>2. WorldOK
    BY NoRowType, RefreshAssumption DEF Init, WorldOK, Posts, Models, Rows, Maybe, Ages
  <1>3. SalesInv
    BY IdleType, RefreshAssumption DEF Init, SalesInv, NoRow, Ages
  <1>4. NightInv
    BY IdleType DEF Init, NightInv, Callers
  <1> QED
    BY <1>1, <1>2, <1>3, <1>4 DEF RefreshSafe

LEMMA PostSafe ==
  ASSUME RefreshSafe, NEW a \in Ages, Post(a)
  PROVE  RefreshSafe'
  <1>1. live' \in [Ages -> Posts] /\ \A b \in Ages : live[b] \in Nat /\ live'[b] >= live[b]
    BY RefreshAssumption DEF Post, RefreshSafe, WorldOK, Posts
  <1>2. /\ table' = table /\ run' = run /\ lock' = lock
        /\ UNCHANGED <<slot, forecast, csv, mirror, recs, stamp, calls, faults>>
    BY DEF Post
  <1>3. RunsOK' /\ WorldOK'
    BY <1>1, <1>2 DEF RefreshSafe, RunsOK, WorldOK
  <1>4. \A b \in Ages : table[b].rep # None => table[b].rep \in Nat
    BY DEF RefreshSafe, WorldOK, Rows, Maybe, Posts
  <1>5. \A c \in Callers, b \in Ages : run[c].snap[b] # None => run[c].snap[b] \in Nat
    <2> TAKE c \in Callers, b \in Ages
    <2>1. run[c].snap \in [Ages -> Maybe(Posts)]
      BY RunType DEF RefreshSafe
    <2>2. run[c].snap[b] \in Maybe(Posts)
      BY <2>1
    <2> QED
      BY <2>2 DEF Maybe, Posts
  <1>6. ASSUME NEW b \in Ages, table'[b].rep # None PROVE table'[b].rep <= live'[b]
    <2>1. table[b].rep \in Nat /\ table[b].rep <= live[b] /\ table'[b].rep = table[b].rep
      BY <1>2, <1>4, <1>6 DEF RefreshSafe, SalesInv
    <2>2. live[b] \in Nat /\ live'[b] \in Nat /\ live'[b] >= live[b]
      BY <1>1 DEF Posts
    <2> QED
      BY <2>1, <2>2
  <1>7. ASSUME NEW c \in Callers, run'[c].pc = "writing", NEW b \in Ages, run'[c].snap[b] # None
        PROVE  /\ run'[c].snap[b] <= live'[b]
               /\ table'[b].rep # None => table'[b].rep <= run'[c].snap[b]
    <2>1. /\ run[c].pc = "writing" /\ run[c].snap[b] # None /\ run'[c].snap[b] = run[c].snap[b]
          /\ table'[b].rep = table[b].rep
      BY <1>2, <1>7
    <2>2. /\ run[c].snap[b] \in Nat /\ run[c].snap[b] <= live[b]
          /\ table[b].rep # None => table[b].rep <= run[c].snap[b]
      BY <2>1, <1>5 DEF RefreshSafe, SalesInv
    <2>3. live[b] \in Nat /\ live'[b] \in Nat /\ live'[b] >= live[b]
      BY <1>1 DEF Posts
    <2> QED
      BY <2>1, <2>2, <2>3
  <1>8. SalesInv'
    BY <1>6, <1>7 DEF SalesInv
  <1> QED
    BY <1>2, <1>3, <1>8 DEF RefreshSafe, NightInv, Active

LEMMA PredictSafe ==
  ASSUME RefreshSafe, Predict
  PROVE  RefreshSafe'
  <1>1. forecast' \in Models
    BY RefreshAssumption DEF Predict, RefreshSafe, WorldOK, Models
  <1> QED
    BY <1>1 DEF Predict, RefreshSafe, RunsOK, WorldOK, SalesInv, NightInv, Active

-----------------------------------------------------------------------------
(* The clock.                                                               *)
LEMMA FireEffect ==
  ASSUME RunsOK, NEW c \in Callers, Fire(c), run[c].pc = "idle", lock' = lock
  PROVE  /\ RunsOK'
         /\ run'[c].pc = "due"
         /\ \A d \in Callers \ {c} : run'[d] = run[d]
  <1> DEFINE rec == [run[c] EXCEPT !.pc = "due"]
  <1>1. rec \in RunRecords /\ rec.pc = "due"
    BY RunType DEF RunRecords, Steps
  <1>2. run' = [run EXCEPT ![c] = rec]
    BY DEF Fire, RunsOK
  <1> QED
    BY <1>1, <1>2, LocklessMove DEF Locked

LEMMA PrimaryTimeSafe ==
  ASSUME RefreshSafe, PrimaryTime
  PROVE  RefreshSafe'
  <1>1. run["nightly"].pc = "idle" /\ run["backstop"].pc = "idle"
    BY DEF PrimaryTime, RefreshSafe, NightInv, Callers
  <1>2. /\ RunsOK' /\ run'["nightly"].pc = "due"
        /\ \A d \in Callers \ {"nightly"} : run'[d] = run[d]
    BY <1>1, FireEffect DEF PrimaryTime, RefreshSafe, Callers
  <1>3. UNCHANGED <<live, forecast, csv, table, mirror, recs, stamp, calls, faults>> /\ slot' = "primary"
    BY DEF PrimaryTime, data
  <1>4. WorldOK'
    BY <1>3 DEF RefreshSafe, WorldOK
  <1>5. SalesInv'
    BY <1>2, <1>3, SalesKept DEF Callers
  <1>6. NightInv'
    BY <1>1, <1>2, <1>3 DEF NightInv, Callers
  <1> QED
    BY <1>2, <1>4, <1>5, <1>6 DEF RefreshSafe

LEMMA BackstopTimeSafe ==
  ASSUME RefreshSafe, BackstopTime
  PROVE  RefreshSafe'
  <1>1. run["backstop"].pc = "idle"
    BY DEF BackstopTime, RefreshSafe, NightInv
  <1>2. /\ RunsOK' /\ run'["backstop"].pc = "due"
        /\ \A d \in Callers \ {"backstop"} : run'[d] = run[d]
    BY <1>1, FireEffect DEF BackstopTime, RefreshSafe, Callers
  <1>3. /\ UNCHANGED <<live, forecast, csv, table, mirror, recs, calls, faults>>
        /\ slot' = "backstop" /\ stamp' \in {stamp, None}
    BY DEF BackstopTime, data
  <1>4. WorldOK'
    BY <1>3 DEF RefreshSafe, WorldOK
  <1>5. SalesInv'
    BY <1>2, <1>3, SalesKept DEF Callers
  <1>6. NightInv'
    BY <1>3 DEF NightInv
  <1> QED
    BY <1>2, <1>4, <1>5, <1>6 DEF RefreshSafe

Shifted(r) == [r EXCEPT !.date = 1, !.oldest = @ + 1, !.next = @ + 1, !.snap = Aged(@, None)]

LEMMA ShiftedRecord ==
  ASSUME NEW r \in RunRecords
  PROVE  /\ Shifted(r) \in RunRecords /\ Shifted(r).pc = r.pc
         /\ Shifted(r).date = 1 /\ Shifted(r).snap = Aged(r.snap, None)
  <1>1. /\ r.oldest + 1 \in Nat /\ r.next + 1 \in Int
        /\ r.pc \in Steps /\ r.model \in Models /\ r.ok \in BOOLEAN
    BY DEF RunRecords
  <1>2. Aged(r.snap, None) \in [Ages -> Maybe(Posts)]
    BY AgedType DEF RunRecords, Maybe
  <1>3. Shifted(r) = [pc |-> r.pc, date |-> 1, oldest |-> r.oldest + 1, next |-> r.next + 1,
                      model |-> r.model, snap |-> Aged(r.snap, None), ok |-> r.ok]
    <2>1. ASSUME NEW g, NEW o, NEW n, NEW q, q = [r EXCEPT !.date = 1, !.oldest = o, !.next = n, !.snap = g]
          PROVE q
           = [pc |-> r.pc, date |-> 1, oldest |-> o, next |-> n,
                      model |-> r.model, snap |-> g, ok |-> r.ok]
      <3>1. DOMAIN q = DOMAIN r /\ DOMAIN r = {"pc", "date", "oldest", "next", "model", "snap", "ok"}
        BY <2>1 DEF RunRecords
      <3>2. q.pc = r.pc /\ q.model = r.model /\ q.ok = r.ok
        BY <2>1 DEF RunRecords
      <3>3. q.date = 1 /\ q.oldest = o /\ q.next = n /\ q.snap = g
        BY <2>1 DEF RunRecords
      <3> QED
        BY <3>1, <3>2, <3>3, <2>1
    <2> QED
      BY <2>1 DEF Shifted
  <1> QED
    BY <1>1, <1>2, <1>3 DEF RunRecords

(* Midnight moves every table by one date and every run in flight with it.  *)
LEMMA MidnightSafe ==
  ASSUME RefreshSafe, Midnight
  PROVE  RefreshSafe'
  <1>1. /\ slot' = "day" /\ stamp' = None /\ lock' = lock /\ NobodyDue
        /\ live' = Aged(live, 0) /\ table' = Aged(table, NoRow) /\ mirror' = Aged(mirror, NoRow)
        /\ recs' \subseteq Ages
        /\ UNCHANGED <<forecast, csv, faults, calls>>
    BY DEF Midnight
  <1>2. 0 \in Posts /\ None \in Maybe(Posts)
    BY RefreshAssumption DEF Posts, Maybe
  <1>3. WorldOK'
    BY <1>1, <1>2, AgedType, NoRowType DEF RefreshSafe, WorldOK
  <1>4. ASSUME NEW c \in Callers
        PROVE  /\ run'[c] = IF Active(c) THEN Shifted(run[c]) ELSE run[c]
               /\ Shifted(run[c]) \in RunRecords /\ Shifted(run[c]).pc = run[c].pc
               /\ Shifted(run[c]).date = 1 /\ Shifted(run[c]).snap = Aged(run[c].snap, None)
    <2>1. run'[c] = IF Active(c) THEN Shifted(run[c]) ELSE run[c]
      BY DEF Midnight, Shifted
    <2> QED
      BY <2>1, RunType, ShiftedRecord DEF RefreshSafe
  <1>5. /\ run' = [c \in Callers |-> run'[c]]
        /\ \A c \in Callers : run'[c].pc = run[c].pc
    BY <1>4 DEF Midnight
  <1>6. RunsOK'
    <2>1. \A c \in Callers : run'[c] \in RunRecords
      BY <1>4, RunType DEF RefreshSafe
    <2>2. run' \in [Callers -> RunRecords]
      BY <1>5, <2>1
    <2> QED
      BY <1>1, <1>5, <2>2 DEF RefreshSafe, RunsOK
  <1>7. NightInv'
    <2>1. ASSUME NEW c \in {"nightly", "backstop"}
          PROVE  run'[c].pc = "idle" \/ (Active(c)' /\ run'[c].date # 0)
      <3>1. c \in Callers
        BY DEF Callers
      <3>2. run[c].pc # "due"
        BY <1>1, <3>1 DEF NobodyDue
      <3> QED
        BY <1>4, <1>5, <3>1, <3>2 DEF Active
    <2> QED
      BY <1>1, <2>1 DEF NightInv
  <1>8. \A a \in Ages : a # 0 => a - 1 \in Ages /\ table'[a] = table[a - 1] /\ live'[a] = live[a - 1]
    BY <1>1, RefreshAssumption DEF Aged, Ages
  <1>9. 0 \in Ages /\ table'[0] = NoRow
    BY <1>1, RefreshAssumption DEF Aged, Ages
  <1>10. ASSUME NEW a \in Ages, table'[a].rep # None
         PROVE  table'[a].rep <= live'[a]
    BY <1>8, <1>9, <1>10, NoRowType DEF RefreshSafe, SalesInv
  <1>11. ASSUME NEW c \in Callers, run'[c].pc = "writing", NEW a \in Ages, run'[c].snap[a] # None
         PROVE  /\ run'[c].snap[a] <= live'[a]
                /\ table'[a].rep # None => table'[a].rep <= run'[c].snap[a]
    <2>1. run[c].pc = "writing" /\ run'[c].snap = Aged(run[c].snap, None)
      BY <1>4, <1>5, <1>11 DEF Active
    <2>2. a # 0 /\ run'[c].snap[a] = run[c].snap[a - 1]
      BY <1>9, <1>11, <2>1 DEF Aged
    <2> QED
      BY <1>8, <1>11, <2>1, <2>2 DEF RefreshSafe, SalesInv
  <1>12. SalesInv'
    BY <1>10, <1>11 DEF SalesInv
  <1> QED
    BY <1>3, <1>6, <1>7, <1>12 DEF RefreshSafe

-----------------------------------------------------------------------------
(* The callers.                                                             *)
LEMMA BegunType ==
  ASSUME NEW horizon \in Nat
  PROVE  /\ [Idle EXCEPT !.pc = "waiting", !.oldest = horizon] \in RunRecords
         /\ [Idle EXCEPT !.pc = "waiting", !.oldest = horizon].pc = "waiting"
  BY IdleType DEF RunRecords, Steps

\* a caller outside the lock goes to a place outside the lock
LEMMA CallerMoves ==
  ASSUME RefreshSafe, NEW c \in Callers, NEW rec \in RunRecords,
         run' = [run EXCEPT ![c] = rec], lock' = lock,
         run[c].pc \notin Locked, rec.pc \notin Locked,
         slot' = slot, live' = live, table' = table,
         rec.pc = "idle" \/ run[c].pc = "due" \/ c = "manual"
  PROVE  RunsOK' /\ SalesInv' /\ NightInv'
  <1>1. RunsOK' /\ run'[c] = rec /\ \A d \in Callers \ {c} : run'[d] = run[d]
    BY LocklessMove DEF RefreshSafe
  <1>2. SalesInv'
    BY <1>1, SalesKept DEF Locked
  <1>3. CASE rec.pc = "idle" \/ c = "manual"
    BY <1>1, <1>2, <1>3, NightKept DEF RefreshSafe
  <1>4. CASE run[c].pc = "due"
    <2>1. NightInv'
      BY <1>1, <1>4 DEF RefreshSafe, NightInv, Active, Callers
    <2> QED
      BY <2>1, <1>1, <1>2
  <1> QED
    BY <1>1, <1>2, <1>3, <1>4

LEMMA ImportAllType ==
  ASSUME RefreshSafe, ImportAll
  PROVE  mirror' \in [Ages -> Rows]
  BY DEF ImportAll, RefreshSafe, WorldOK

LEMMA FaultType ==
  ASSUME WorldOK, Fault
  PROVE  faults' \in 0 .. MaxFaults
  BY RefreshAssumption DEF WorldOK, Fault

LEMMA CronSafe ==
  ASSUME RefreshSafe, Cron
  PROVE  RefreshSafe'
  <1>1. "nightly" \in Callers /\ "backstop" \in Callers
    BY DEF Callers
  <1>2. CASE Nightly
    <2>1. RunsOK' /\ SalesInv' /\ NightInv'
      BY <1>1, <1>2, BegunType, CallerMoves DEF Nightly, Begin, Locked
    <2>2. WorldOK'
      BY <1>2, ImportAllType DEF Nightly, RefreshSafe, WorldOK
    <2> QED
      BY <2>1, <2>2 DEF RefreshSafe
  <1>3. CASE NightlyLost
    <2>1. RunsOK' /\ SalesInv' /\ NightInv'
      BY <1>1, <1>3, IdleType, CallerMoves DEF NightlyLost, Locked
    <2>2. WorldOK'
      BY <1>3, ImportAllType, FaultType DEF NightlyLost, RefreshSafe, WorldOK
    <2> QED
      BY <2>1, <2>2 DEF RefreshSafe
  <1>4. CASE BackstopSkips
    <2>1. RunsOK' /\ SalesInv' /\ NightInv'
      BY <1>1, <1>4, IdleType, CallerMoves DEF BackstopSkips, Locked, data
    <2>2. WorldOK'
      BY <1>4 DEF BackstopSkips, data, RefreshSafe, WorldOK
    <2> QED
      BY <2>1, <2>2 DEF RefreshSafe
  <1>5. CASE BackstopRuns
    <2>1. RunsOK' /\ SalesInv' /\ NightInv'
      BY <1>1, <1>5, BegunType, CallerMoves, RefreshAssumption DEF BackstopRuns, Begin, Locked, data
    <2>2. WorldOK'
      BY <1>5 DEF BackstopRuns, data, RefreshSafe, WorldOK
    <2> QED
      BY <2>1, <2>2 DEF RefreshSafe
  <1> QED
    BY <1>2, <1>3, <1>4, <1>5 DEF Cron

LEMMA ManualSafe ==
  ASSUME RefreshSafe, NEW h \in ManualHorizons, Manual(h)
  PROVE  RefreshSafe'
  <1>1. "manual" \in Callers /\ h \in Nat
    BY RefreshAssumption DEF Callers
  <1>2. RunsOK' /\ SalesInv' /\ NightInv'
    BY <1>1, BegunType, CallerMoves DEF Manual, Begin, Locked, data
  <1>3. calls' \in 0 .. MaxManual
    BY RefreshAssumption DEF Manual, RefreshSafe, WorldOK
  <1>4. WorldOK'
    BY <1>3 DEF Manual, data, RefreshSafe, WorldOK
  <1> QED
    BY <1>2, <1>4 DEF RefreshSafe

-----------------------------------------------------------------------------
(* The steps of a refresh.                                                  *)
LEMMA GoEffect ==
  ASSUME RunsOK, NEW c \in Callers, NEW pc \in Steps, Go(c, pc)
  PROVE  \E rec \in RunRecords : /\ run' = [run EXCEPT ![c] = rec]
                                 /\ rec.pc = pc /\ rec.date = run[c].date
  <1> DEFINE rec == [run[c] EXCEPT !.pc = pc]
  <1>1. rec \in RunRecords /\ rec.pc = pc /\ rec.date = run[c].date
    BY RunType DEF RunRecords
  <1>2. run' = [run EXCEPT ![c] = rec]
    BY DEF Go, RunsOK
  <1> QED
    BY <1>1, <1>2

LEMMA TakeLockSafe ==
  ASSUME RefreshSafe, NEW c \in Callers, TakeLock(c)
  PROVE  RefreshSafe'
  <1>1. PICK rec \in RunRecords : /\ run' = [run EXCEPT ![c] = rec]
                                  /\ rec.pc = "loading" /\ rec.date = run[c].date
    BY GoEffect DEF TakeLock, RefreshSafe, Steps
  <1>2. lock = None /\ lock' = c /\ run[c].pc = "waiting"
    BY DEF TakeLock, At
  <1>3. \A d \in Callers \ {c} : lock' = d <=> lock = d
    BY <1>2, RefreshAssumption DEF Callers
  <1>4. RunsOK' /\ run'[c] = rec /\ \A d \in Callers \ {c} : run'[d] = run[d]
    BY <1>1, <1>2, <1>3, OneMoves DEF RefreshSafe, Locked
  <1>5. csv' \in Models /\ faults' \in 0 .. MaxFaults
    BY FaultType DEF TakeLock, Fine, RefreshSafe, WorldOK
  <1>6. UNCHANGED <<slot, live, forecast, table, mirror, recs, stamp, calls>>
    BY DEF TakeLock
  <1>7. WorldOK'
    BY <1>5, <1>6 DEF RefreshSafe, WorldOK
  <1>8. SalesInv'
    BY <1>1, <1>4, <1>6, SalesKept
  <1>9. NightInv'
    BY <1>1, <1>2, <1>4, <1>6, NightKept DEF RefreshSafe, Active
  <1> QED
    BY <1>4, <1>7, <1>8, <1>9 DEF RefreshSafe

(* Giving up under the lock, before or after the MERGE was tried.           *)
LEMMA GiveUpSafe ==
  ASSUME RefreshSafe, NEW c \in Callers, run[c].pc \in Locked, GiveUp(c), Fault,
         UNCHANGED <<slot, data, stamp, calls>>
  PROVE  RefreshSafe'
  <1>1. RunsOK' /\ run'[c] = Idle /\ \A d \in Callers \ {c} : run'[d] = run[d]
    BY IdleType, ReleaseMove DEF GiveUp, RefreshSafe, Locked
  <1>2. faults' \in 0 .. MaxFaults
    BY FaultType DEF RefreshSafe
  <1>3. WorldOK'
    BY <1>2 DEF RefreshSafe, WorldOK, data
  <1>4. SalesInv'
    BY <1>1, IdleType, SalesKept DEF data
  <1>5. NightInv'
    BY <1>1, IdleType, NightKept DEF RefreshSafe
  <1> QED
    BY <1>1, <1>3, <1>4, <1>5 DEF RefreshSafe

(* The reads: what they return is what YaumiLive says now, or nothing.      *)
LEMMA LoadSafe ==
  ASSUME RefreshSafe, NEW c \in Callers, Load(c)
  PROVE  RefreshSafe'
  <1>1. PICK seen \in {live, [a \in Ages |-> None]} :
           /\ (seen = live \/ Fault) /\ (seen # live \/ Fine)
           /\ run' = [run EXCEPT ![c].pc = "writing", ![c].model = csv, ![c].snap = seen]
    BY DEF Load
  <1> DEFINE rec == [run[c] EXCEPT !.pc = "writing", !.model = csv, !.snap = seen]
  <1>2. csv \in Models /\ seen \in [Ages -> Maybe(Posts)]
    BY <1>1 DEF RefreshSafe, WorldOK, Maybe
  <1>3. rec \in RunRecords /\ rec.pc = "writing" /\ rec.date = run[c].date /\ rec.snap = seen
    BY <1>2, RunType DEF RefreshSafe, RunRecords, Steps
  <1>4. run' = [run EXCEPT ![c] = rec]
    BY <1>1 DEF RefreshSafe, RunsOK
  <1> HIDE DEF rec
  <1>5. run[c].pc = "loading" /\ lock' = lock /\ UNCHANGED <<slot, data, stamp, calls>>
    BY DEF Load, At
  <1>6. RunsOK' /\ run'[c] = rec /\ \A d \in Callers \ {c} : run'[d] = run[d]
    <2>1. lock' = c
      BY <1>5 DEF RefreshSafe, RunsOK, Locked
    <2> QED
      BY <1>3, <1>4, <1>5, <2>1, OneMoves DEF RefreshSafe, Locked
  <1>7. faults' \in 0 .. MaxFaults
    BY <1>1, FaultType DEF Fine, RefreshSafe, WorldOK
  <1>8. WorldOK'
    BY <1>5, <1>7 DEF RefreshSafe, WorldOK, data
  <1>9. ASSUME NEW d \in Callers, run'[d].pc = "writing", NEW a \in Ages, run'[d].snap[a] # None
        PROVE  /\ run'[d].snap[a] <= live'[a]
               /\ table'[a].rep # None => table'[a].rep <= run'[d].snap[a]
    <2>1. live' = live /\ table' = table
      BY <1>5 DEF data
    <2>2. CASE d = c
      <3>1. run'[d].snap[a] = live[a]
        BY <1>1, <1>3, <1>6, <1>9, <2>2
      <3>2. live[a] \in Nat
        BY DEF RefreshSafe, WorldOK, Posts
      <3> QED
        BY <2>1, <3>1, <3>2 DEF RefreshSafe, SalesInv
    <2>3. CASE d # c
      BY <1>6, <1>9, <2>1, <2>3 DEF RefreshSafe, SalesInv
    <2> QED
      BY <2>2, <2>3
  <1>10. SalesInv'
    BY <1>5, <1>9 DEF RefreshSafe, SalesInv, data
  <1>11. NightInv'
    BY <1>3, <1>5, <1>6, NightKept DEF RefreshSafe, Active
  <1> QED
    BY <1>6, <1>8, <1>10, <1>11 DEF RefreshSafe

(* The MERGE: no other run is between its reads and its own MERGE.          *)
LEMMA MergedRow ==
  ASSUME RefreshSafe, NEW c \in Callers, NEW a \in Ages
  PROVE  Merged(c, a) \in Rows /\ Merged(c, a).rep = run[c].snap[a]
  <1>1. run[c].model \in Models /\ run[c].snap[a] \in Maybe(Posts)
    BY RunType DEF RefreshSafe
  <1>2. table[a].model \in Maybe(Models)
    BY DEF RefreshSafe, WorldOK, Rows
  <1> QED
    BY <1>1, <1>2 DEF Merged, Rows, Maybe

LEMMA UpsertSafe ==
  ASSUME RefreshSafe, NEW c \in Callers, Upsert(c)
  PROVE  RefreshSafe'
  <1> DEFINE rec == [run[c] EXCEPT !.pc = "mirroring", !.model = 0, !.snap = Idle.snap]
  <1>1. Idle.snap \in [Ages -> Maybe(Posts)] /\ 0 \in Models
    BY RefreshAssumption DEF Idle, Maybe, Models
  <1>2. rec \in RunRecords /\ rec.pc = "mirroring" /\ rec.date = run[c].date
    BY <1>1, RunType DEF RefreshSafe, RunRecords, Steps
  <1>3. run' = [run EXCEPT ![c] = rec] /\ lock' = None /\ run[c].pc = "writing"
    BY DEF Upsert, At, RefreshSafe, RunsOK
  <1> HIDE DEF rec
  <1>4. RunsOK' /\ run'[c] = rec /\ \A d \in Callers \ {c} : run'[d] = run[d]
    BY <1>2, <1>3, ReleaseMove DEF RefreshSafe, Locked
  <1>5. /\ table' = [a \in Ages |-> IF a \in Window(c) THEN Merged(c, a) ELSE table[a]]
        /\ UNCHANGED <<slot, live, forecast, csv, mirror, recs, stamp, faults, calls>>
    BY DEF Upsert
  <1>6. table' \in [Ages -> Rows]
    BY <1>5, MergedRow DEF RefreshSafe, WorldOK
  <1>7. WorldOK'
    BY <1>5, <1>6 DEF RefreshSafe, WorldOK
  <1>8. ASSUME NEW d \in Callers PROVE run'[d].pc # "writing"
    <2>1. lock = c
      BY <1>3 DEF RefreshSafe, RunsOK, Locked
    <2>2. d # c => run[d].pc # "writing"
      BY <2>1 DEF RefreshSafe, RunsOK, Locked
    <2> QED
      BY <1>2, <1>4, <2>2
  <1>9. ASSUME NEW a \in Ages, table'[a].rep # None PROVE table'[a].rep <= live'[a]
    <2>1. table'[a].rep \in {table[a].rep, run[c].snap[a]}
      BY <1>5, MergedRow
    <2> QED
      BY <1>3, <1>5, <1>9, <2>1 DEF RefreshSafe, SalesInv
  <1>10. SalesInv'
    BY <1>8, <1>9 DEF SalesInv
  <1>11. NightInv'
    BY <1>2, <1>3, <1>4, <1>5, NightKept DEF RefreshSafe, Active
  <1> QED
    BY <1>4, <1>7, <1>10, <1>11 DEF RefreshSafe

(* The cascades and the stamp: outside the lock, on the run's own date.     *)
LEMMA CascadeMoves ==
  ASSUME RefreshSafe, NEW c \in Callers, NEW rec \in RunRecords,
         run' = [run EXCEPT ![c] = rec],
         run[c].pc \in {"mirroring", "generating", "stamping"},
         \/ rec.pc = "idle"
         \/ rec.pc \in {"generating", "stamping"} /\ rec.date = run[c].date,
         UNCHANGED <<slot, live, table, lock>>
  PROVE  RunsOK' /\ SalesInv' /\ NightInv'
  <1>1. RunsOK' /\ run'[c] = rec /\ \A d \in Callers \ {c} : run'[d] = run[d]
    BY LocklessMove DEF RefreshSafe, Locked
  <1>2. SalesInv'
    BY <1>1, SalesKept
  <1>3. NightInv'
    BY <1>1, NightKept DEF RefreshSafe, Active
  <1> QED
    BY <1>1, <1>2, <1>3

LEMMA MirrorTableSafe ==
  ASSUME RefreshSafe, NEW c \in Callers, MirrorTable(c)
  PROVE  RefreshSafe'
  <1>1. PICK ok \in BOOLEAN : ToGenerate(c, ok)
    BY DEF MirrorTable
  <1> DEFINE rec == [run[c] EXCEPT !.pc = "generating", !.next = run[c].oldest, !.ok = ok]
  <1>2. rec \in RunRecords /\ rec.pc = "generating" /\ rec.date = run[c].date
    <2>1. run[c].oldest \in Int /\ ok \in BOOLEAN /\ "generating" \in Steps
      BY RunType DEF RefreshSafe, RunRecords, Steps
    <2> QED
      BY <2>1, RunType DEF RefreshSafe, RunRecords
  <1>3. run' = [run EXCEPT ![c] = rec]
    BY <1>1 DEF ToGenerate, RefreshSafe, RunsOK
  <1> HIDE DEF rec
  <1>4. RunsOK' /\ SalesInv' /\ NightInv'
    BY <1>2, <1>3, CascadeMoves DEF MirrorTable, At
  <1>5. mirror' \in [Ages -> Rows] /\ faults' \in 0 .. MaxFaults
    BY FaultType DEF MirrorTable, Fine, RefreshSafe, WorldOK
  <1>6. WorldOK'
    BY <1>5 DEF MirrorTable, RefreshSafe, WorldOK
  <1> QED
    BY <1>4, <1>6 DEF RefreshSafe

LEMMA GenerateSafe ==
  ASSUME RefreshSafe, NEW c \in Callers, Generate(c)
  PROVE  RefreshSafe'
  <1>1. PICK outcome \in BOOLEAN : Following(c, outcome)
    BY DEF Generate
  <1> DEFINE rec == [run[c] EXCEPT
                       !.ok   = run[c].ok /\ outcome,
                       !.pc   = IF run[c].next = run[c].date THEN "stamping" ELSE "generating",
                       !.next = IF run[c].next = run[c].date THEN 0 ELSE run[c].next - 1]
  <1>2. /\ rec \in RunRecords /\ rec.pc \in {"generating", "stamping"}
        /\ rec.date = run[c].date
    <2>1. /\ (run[c].ok /\ outcome) \in BOOLEAN
          /\ (IF run[c].next = run[c].date THEN 0 ELSE run[c].next - 1) \in Int
          /\ (IF run[c].next = run[c].date THEN "stamping" ELSE "generating") \in Steps
      BY RunType DEF RefreshSafe, Steps
    <2> QED
      BY <2>1, RunType DEF RefreshSafe, RunRecords
  <1>3. run' = [run EXCEPT ![c] = rec]
    BY <1>1 DEF Following
  <1> HIDE DEF rec
  <1>4. RunsOK' /\ SalesInv' /\ NightInv'
    BY <1>2, <1>3, CascadeMoves DEF Generate, At
  <1>5. recs' \subseteq Ages /\ faults' \in 0 .. MaxFaults
    BY FaultType DEF Generate, Fine, RefreshSafe, WorldOK
  <1>6. WorldOK'
    BY <1>5 DEF Generate, RefreshSafe, WorldOK
  <1> QED
    BY <1>4, <1>6 DEF RefreshSafe

LEMMA StampSafe ==
  ASSUME RefreshSafe, NEW c \in Callers, Stamp(c)
  PROVE  RefreshSafe'
  <1>1. RunsOK' /\ SalesInv' /\ NightInv'
    BY IdleType, CascadeMoves DEF Stamp, At, data
  <1>2. WorldOK'
    BY DEF Stamp, data, RefreshSafe, WorldOK
  <1> QED
    BY <1>1, <1>2 DEF RefreshSafe

(* The service dies: nobody holds the lock and nobody is between two steps. *)
LEMMA RestartSafe ==
  ASSUME RefreshSafe, Restart
  PROVE  RefreshSafe'
  <1> DEFINE hit == {c \in Callers : Active(c)}
  <1>1. IsFiniteSet(hit)
    <2>1. IsFiniteSet({"nightly", "backstop", "manual"})
      <3>1. IsFiniteSet({"manual"})
        BY FS_Singleton
      <3>2. IsFiniteSet({"manual"} \cup {"backstop"})
        BY <3>1, FS_AddElement
      <3>3. IsFiniteSet(({"manual"} \cup {"backstop"}) \cup {"nightly"})
        BY <3>2, FS_AddElement
      <3>4. ({"manual"} \cup {"backstop"}) \cup {"nightly"} = {"nightly", "backstop", "manual"}
        OBVIOUS
      <3> QED
        BY <3>3, <3>4
    <2> QED
      BY <2>1, FS_Subset DEF Callers
  <1>2. Cardinality(hit) \in Nat
    BY <1>1, FS_CardinalityType
  <1>3. faults' \in 0 .. MaxFaults
    <2> DEFINE killed == Cardinality(hit)
    <2>1. faults + killed <= MaxFaults /\ faults' = faults + killed /\ faults \in 0 .. MaxFaults
      BY DEF Restart, RefreshSafe, WorldOK
    <2>2. killed \in Nat
      BY <1>2
    <2> HIDE DEF killed
    <2> QED
      BY <2>1, <2>2, RefreshAssumption
  <1>4. /\ run' = [c \in Callers |-> IF Active(c) THEN Idle ELSE run[c]]
        /\ lock' = None /\ stamp' = None
        /\ UNCHANGED <<slot, data, calls>>
    BY DEF Restart
  <1>5. \A c \in Callers : run'[c] \in RunRecords /\ run'[c].pc \in {"idle", "due"}
    BY <1>4, IdleType, RunType DEF RefreshSafe, Active
  <1>6. RunsOK'
    <2>1. \A c \in Callers : lock' # c
      BY <1>4, RefreshAssumption DEF Callers
    <2>2. run' \in [Callers -> RunRecords]
      BY <1>4, <1>5
    <2> QED
      BY <1>5, <2>1, <2>2 DEF RunsOK, Locked
  <1>7. WorldOK'
    BY <1>3, <1>4 DEF RefreshSafe, WorldOK, data
  <1>8. SalesInv'
    BY <1>4, <1>5, SalesKept DEF data
  <1>9. NightInv'
    <2>1. \A c \in {"nightly", "backstop"} : run[c].pc = "idle" => run'[c].pc = "idle"
      BY <1>4, IdleType DEF Callers
    <2>2. \A c \in {"nightly", "backstop"} : Active(c) => run'[c].pc = "idle"
      BY <1>4, IdleType DEF Callers
    <2> QED
      BY <1>4, <2>1, <2>2 DEF RefreshSafe, NightInv
  <1> QED
    BY <1>6, <1>7, <1>8, <1>9 DEF RefreshSafe

-----------------------------------------------------------------------------
(* Every step keeps the types, the lock discipline and the order of sales.  *)
THEOREM RefreshNextSafe == RefreshSafe /\ [Next]_vars => RefreshSafe'
  <1> SUFFICES ASSUME RefreshSafe, [Next]_vars PROVE RefreshSafe'
    OBVIOUS
  <1>1. CASE \E a \in Ages : Post(a)
    BY <1>1, PostSafe
  <1>2. CASE Predict
    BY <1>2, PredictSafe
  <1>3. CASE Clock
    BY <1>3, PrimaryTimeSafe, BackstopTimeSafe, MidnightSafe DEF Clock
  <1>4. CASE Cron
    BY <1>4, CronSafe
  <1>5. CASE \E h \in ManualHorizons : Manual(h)
    BY <1>5, ManualSafe
  <1>6. ASSUME NEW c \in Callers, Refresh(c) PROVE RefreshSafe'
    <2>1. CASE TakeLock(c)
      BY <2>1, TakeLockSafe
    <2>2. CASE Refuse(c)
      BY <2>2, GiveUpSafe DEF Refuse, At, Locked
    <2>3. CASE Load(c)
      BY <2>3, LoadSafe
    <2>4. CASE Upsert(c)
      BY <2>4, UpsertSafe
    <2>5. CASE UpsertFails(c)
      BY <2>5, GiveUpSafe DEF UpsertFails, At, Locked
    <2>6. CASE MirrorTable(c)
      BY <2>6, MirrorTableSafe
    <2>7. CASE Generate(c)
      BY <2>7, GenerateSafe
    <2>8. CASE Stamp(c)
      BY <2>8, StampSafe
    <2> QED
      BY <1>6, <2>1, <2>2, <2>3, <2>4, <2>5, <2>6, <2>7, <2>8 DEF Refresh
  <1>7. CASE Restart
    BY <1>7, RestartSafe
  <1>8. CASE UNCHANGED vars
    BY <1>8 DEF vars, data, RefreshSafe, RunsOK, WorldOK, SalesInv, NightInv, Active
  <1> QED
    BY <1>1, <1>2, <1>3, <1>4, <1>5, <1>6, <1>7, <1>8 DEF Next

LEMMA RefreshAlwaysSafe == Spec => []RefreshSafe
  BY RefreshInitSafe, RefreshNextSafe, PTL DEF Spec

(* The lock is held by exactly the run between its acquire and its MERGE,   *)
(* for any number of posts, retrains, manual calls, failures and restarts.  *)
THEOREM RefreshTypeCorrect == Spec => []RefreshTypeOK
  <1>1. RefreshSafe => RefreshTypeOK
    <2> SUFFICES ASSUME RefreshSafe PROVE RefreshTypeOK
      OBVIOUS
    <2>1. \A c \in Callers :
            /\ run[c].pc \in {"idle", "due", "waiting", "loading", "writing",
                              "mirroring", "generating", "stamping"}
            /\ run[c].snap \in [Ages -> Maybe(Posts)]
            /\ run[c].model \in Models /\ run[c].ok \in BOOLEAN
            /\ lock = c <=> run[c].pc \in {"loading", "writing"}
      BY RunType DEF RefreshSafe, RunsOK, Steps, Locked
    <2> QED
      BY <2>1 DEF RefreshSafe, WorldOK, RefreshTypeOK
  <1> QED
    BY <1>1, RefreshAlwaysSafe, PTL

(* Only a MERGE touches a row, and it does not touch the model columns a    *)
(* date already has once that date is over: the recommendation a day was    *)
(* driven with stays, whichever windows later refreshes cover.              *)
THEOREM HistoryIsFrozen == Spec => FrozenHistory
  <1>1. ASSUME RefreshSafe, [Next]_vars, NEW a \in Ages \ {0}, slot = slot',
               table[a].model # None, \A c \in Callers : Active(c) => run[c].date < a
        PROVE  table'[a].model = table[a].model
    <2>1. CASE \E c \in Callers : Upsert(c)
      <3> PICK c \in Callers : Upsert(c)
        BY <2>1
      <3>1. run[c].date < a
        BY <1>1 DEF Upsert, At, Active
      <3>2. table'[a] = IF a \in Window(c) THEN Merged(c, a) ELSE table[a]
        BY DEF Upsert
      <3>3. ~(a <= run[c].date)
        BY <1>1, <3>1, RunType, RefreshAssumption DEF RefreshSafe, Ages
      <3> QED
        BY <1>1, <3>2, <3>3 DEF Merged
    <2>2. CASE ~\E c \in Callers : Upsert(c)
      <3>1. table' = table \/ slot' # slot
        BY <1>1, <2>2 DEF Next, vars, data, Post, Predict, Clock, PrimaryTime, BackstopTime,
                          Midnight, Cron, Nightly, NightlyLost, BackstopSkips, BackstopRuns,
                          Manual, Refresh, TakeLock, Refuse, Load, UpsertFails, MirrorTable,
                          Generate, Stamp, Restart
      <3> QED
        BY <1>1, <3>1
    <2> QED
      BY <2>1, <2>2
  <1>2. RefreshSafe /\ [Next]_vars
        => [\A a \in Ages \ {0} :
              /\ slot = slot' /\ table[a].model # None
              /\ \A c \in Callers : Active(c) => run[c].date < a
              => table'[a].model = table[a].model]_vars
    BY <1>1
  <1> QED
    BY <1>2, RefreshAlwaysSafe, PTL DEF Spec, FrozenHistory

(* Sales only catch up: the lock keeps every other MERGE out between what a *)
(* run reads from YaumiLive and what it writes.                             *)
THEOREM SalesOnlyCatchUp == Spec => SalesNeverGoBack
  <1>1. ASSUME RefreshSafe, [Next]_vars, NEW a \in Ages, slot = slot',
               table[a].rep # None, table'[a].rep # None
        PROVE  table'[a].rep >= table[a].rep
    <2>0. table[a].rep \in Nat
      BY <1>1, RefreshAssumption DEF RefreshSafe, WorldOK, Rows, Maybe, Posts
    <2>1. CASE \E c \in Callers : Upsert(c)
      <3> PICK c \in Callers : Upsert(c)
        BY <2>1
      <3>1. table'[a] = IF a \in Window(c) THEN Merged(c, a) ELSE table[a]
        BY DEF Upsert
      <3>2. run[c].pc = "writing" /\ Merged(c, a).rep = run[c].snap[a]
        BY DEF Upsert, At, Merged
      <3>3. CASE a \in Window(c)
        <4>1. table'[a].rep = run[c].snap[a]
          BY <3>1, <3>2, <3>3
        <4>2. table[a].rep <= run[c].snap[a]
          BY <1>1, <3>2, <4>1 DEF RefreshSafe, SalesInv
        <4>3. run[c].snap[a] \in Nat
          BY <1>1, <4>1, RunType, RefreshAssumption DEF RefreshSafe, Maybe, Posts
        <4> QED
          BY <2>0, <4>1, <4>2, <4>3
      <3>4. CASE a \notin Window(c)
        BY <2>0, <3>1, <3>4
      <3> QED
        BY <3>3, <3>4
    <2>2. CASE ~\E c \in Callers : Upsert(c)
      <3>1. table' = table \/ slot' # slot
        BY <1>1, <2>2 DEF Next, vars, data, Post, Predict, Clock, PrimaryTime, BackstopTime,
                          Midnight, Cron, Nightly, NightlyLost, BackstopSkips, BackstopRuns,
                          Manual, Refresh, TakeLock, Refuse, Load, UpsertFails, MirrorTable,
                          Generate, Stamp, Restart
      <3> QED
        BY <1>1, <2>0, <3>1
    <2> QED
      BY <2>1, <2>2
  <1>2. RefreshSafe /\ [Next]_vars
        => [\A a \in Ages :
              slot = slot' /\ table[a].rep # None /\ table'[a].rep # None
                => table'[a].rep >= table[a].rep]_vars
    BY <1>1
  <1> QED
    BY <1>2, RefreshAlwaysSafe, PTL DEF Spec, SalesNeverGoBack
-----------------------------------------------------------------------------
(* Why the backstop covers: a night has two chances to write the day that   *)
(* is ending, the nightly run and the backstop; only a fault takes one away *)
(* without the row being in the table and in the mirror, and each fault     *)
(* takes one at most.                                                       *)
Covered(a) == table[a].model # None /\ mirror[a].model # None
Tonight == IF slot = "day" THEN 1 ELSE 0

Promising == {"due", "waiting", "loading", "writing", "mirroring"}
Chance(c) == IF run[c].pc \in Promising \/ (c = "backstop" /\ slot = "primary") THEN 1 ELSE 0

ChanceInv == Covered(Tonight) \/ Chance("nightly") + Chance("backstop") + faults >= 2

\* a run writes the day it began on, at the least
DatesInv ==
    \A c \in Callers : Active(c) =>
        /\ run[c].date \in {0, 1} /\ run[c].date <= run[c].oldest
        /\ slot # "day" => run[c].date = 0

\* how far a run has come with that day, and what its stamp says
RowsInv ==
    /\ \A a \in Ages : mirror[a].model # None => table[a].model # None
    /\ \A c \in Callers :
          /\ run[c].pc \in {"mirroring", "generating", "stamping"} =>
                table[run[c].date].model # None
          /\ run[c].pc \in {"generating", "stamping"} /\ run[c].ok => Covered(run[c].date)
    /\ Recent => slot # "day" /\ Covered(0)

CoverInv == DatesInv /\ RowsInv /\ ChanceInv

\* a step that takes no row away and leaves the mirror behind the table
RowsKept ==
    \A a \in Ages :
        /\ table[a].model # None => table'[a].model # None
        /\ mirror[a].model # None => mirror'[a].model # None
        /\ mirror'[a].model # None => table'[a].model # None

LEMMA DaysFollowed == 0 \in Ages /\ 1 \in Ages /\ Tonight \in {0, 1} /\ Tonight \in Ages
  BY RefreshAssumption DEF Ages, Tonight

LEMMA SameRowsKept ==
  ASSUME RowsInv, table' = table, mirror' = mirror
  PROVE  RowsKept
  BY DEF RowsInv, RowsKept

LEMMA CoverInitSafe == Init => CoverInv
  <1> SUFFICES ASSUME Init PROVE CoverInv
    OBVIOUS
  <1>1. \A c \in Callers : run[c].pc = "idle"
    BY IdleType DEF Init
  <1>2. slot = "day" /\ stamp = None
    BY DEF Init
  <1>3. Covered(1)
    BY DaysFollowed, RefreshAssumption DEF Init, Covered
  <1>4. DatesInv
    BY <1>1 DEF DatesInv, Active
  <1>5. RowsInv
    <2>1. ~Recent
      BY <1>2, RefreshAssumption DEF Init, Recent
    <2>2. mirror = table
      BY DEF Init
    <2> QED
      BY <1>1, <2>1, <2>2 DEF RowsInv
  <1>6. ChanceInv
    BY <1>2, <1>3 DEF ChanceInv, Tonight
  <1> QED
    BY <1>4, <1>5, <1>6 DEF CoverInv

(* One caller moves.  It gives its chance up for a fault, or because the    *)
(* day that is ending has its row.                                          *)
LEMMA CoverStep ==
  ASSUME RefreshSafe, CoverInv, RowsKept, slot' = slot,
         NEW c \in Callers, NEW rec,
         run' = [run EXCEPT ![c] = rec],
         rec.pc \notin {"idle", "due"} =>
            /\ rec.date \in {0, 1} /\ rec.date <= rec.oldest
            /\ slot # "day" => rec.date = 0,
         rec.pc \in {"mirroring", "generating", "stamping"} => table'[rec.date].model # None,
         rec.pc \in {"generating", "stamping"} /\ rec.ok => mirror'[rec.date].model # None,
         stamp' = stamp \/ (Recent' => slot # "day" /\ Covered(0)'),
         faults' \in Nat, faults' >= faults,
         \/ c = "manual" \/ run[c].pc \notin Promising
         \/ rec.pc \in Promising
         \/ faults' >= faults + 1
         \/ Covered(Tonight)'
  PROVE  CoverInv'
  <1>1. /\ run'[c] = rec
        /\ \A d \in Callers \ {c} : run'[d] = run[d]
    BY DEF RefreshSafe, RunsOK
  <1>2. \A a \in Ages : Covered(a) => Covered(a)'
    BY DEF RowsKept, Covered
  <1>3. DatesInv'
    BY <1>1 DEF CoverInv, DatesInv, Active
  <1>4. RowsInv'
    <2>1. \A d \in Callers : Active(d) => run[d].date \in Ages
      BY DaysFollowed DEF CoverInv, DatesInv
    <2>2. ASSUME NEW d \in Callers \ {c}
          PROVE  /\ run'[d].pc \in {"mirroring", "generating", "stamping"} =>
                      table'[run'[d].date].model # None
                 /\ run'[d].pc \in {"generating", "stamping"} /\ run'[d].ok => Covered(run[d].date)'
      BY <1>1, <1>2, <2>1, <2>2 DEF CoverInv, RowsInv, RowsKept, Active
    <2>3. Recent' => slot' # "day" /\ Covered(0)'
      BY <1>2, DaysFollowed DEF CoverInv, RowsInv, Recent
    <2>4. ASSUME NEW d \in Callers
          PROVE  /\ run'[d].pc \in {"mirroring", "generating", "stamping"} =>
                      table'[run'[d].date].model # None
                 /\ run'[d].pc \in {"generating", "stamping"} /\ run'[d].ok => Covered(run[d].date)'
      BY <1>1, <2>2 DEF Covered
    <2> QED
      BY <2>3, <2>4 DEF RowsInv, RowsKept
  <1>5. ChanceInv'
    <2>1. "nightly" \in Callers /\ "backstop" \in Callers /\ "nightly" # "backstop"
      BY DEF Callers
    <2>2. CASE Covered(Tonight)
      BY <1>2, <2>2, DaysFollowed DEF ChanceInv, Tonight, Covered
    <2>3. CASE Covered(Tonight)'
      BY <2>3 DEF ChanceInv
    <2>4. CASE ~Covered(Tonight) /\ ~Covered(Tonight)'
      <3>1. Chance("nightly") + Chance("backstop") + faults >= 2
        BY <2>4 DEF CoverInv, ChanceInv
      <3>2. faults \in Nat
        BY DEF RefreshSafe, WorldOK
      <3>3. \A d \in Callers : Chance(d) \in {0, 1} /\ Chance(d)' \in {0, 1}
        BY DEF Chance
      <3>4. \A d \in Callers \ {c} : Chance(d)' = Chance(d)
        BY <1>1 DEF Chance
      <3>5. c = "manual" \/ Chance(c)' >= Chance(c) \/ faults' >= faults + 1
        BY <1>1, <2>4 DEF Chance
      <3>6. Chance("nightly")' + Chance("backstop")' + faults' >= 2
        BY <2>1, <3>1, <3>2, <3>3, <3>4, <3>5
      <3> QED
        BY <3>6 DEF ChanceInv
    <2> QED
      BY <2>2, <2>3, <2>4
  <1> QED
    BY <1>3, <1>4, <1>5 DEF CoverInv

(* The world goes on and no caller moves.                                   *)
LEMMA CoverIdleStep ==
  ASSUME RefreshSafe, CoverInv, UNCHANGED <<slot, table, mirror, stamp, run, faults>>
  PROVE  CoverInv'
  BY DEF CoverInv, DatesInv, RowsInv, ChanceInv, Active, Recent, Covered, Tonight, Chance

(* The clock.                                                               *)
LEMMA PrimaryTimeCovers ==
  ASSUME RefreshSafe, CoverInv, PrimaryTime
  PROVE  CoverInv'
  <1>1. run["nightly"].pc = "idle" /\ run["backstop"].pc = "idle"
    BY DEF PrimaryTime, RefreshSafe, NightInv, Callers
  <1>2. /\ run'["nightly"].pc = "due"
        /\ \A d \in Callers \ {"nightly"} : run'[d] = run[d]
    BY <1>1, FireEffect DEF PrimaryTime, RefreshSafe, Callers
  <1>3. /\ UNCHANGED <<table, mirror, stamp, faults>> /\ slot = "day" /\ slot' = "primary"
        /\ \A c \in Callers : Active(c) => run[c].date = 0
    BY DEF PrimaryTime, data
  <1>4. DatesInv'
    BY <1>2, <1>3 DEF CoverInv, DatesInv, Active
  <1>5. RowsInv'
    BY <1>2, <1>3 DEF CoverInv, RowsInv, Recent, Covered
  <1>6. ChanceInv'
    <2>1. Chance("nightly")' = 1 /\ Chance("backstop")' = 1
      BY <1>2, <1>3 DEF Chance, Promising
    <2>2. faults' \in Nat
      BY <1>3 DEF RefreshSafe, WorldOK
    <2>3. Chance("nightly")' + Chance("backstop")' + faults' >= 2
      BY <2>1, <2>2
    <2> QED
      BY <2>3 DEF ChanceInv
  <1> QED
    BY <1>4, <1>5, <1>6 DEF CoverInv

LEMMA BackstopTimeCovers ==
  ASSUME RefreshSafe, CoverInv, BackstopTime
  PROVE  CoverInv'
  <1>1. run["backstop"].pc = "idle"
    BY DEF BackstopTime, RefreshSafe, NightInv
  <1>2. /\ run'["backstop"].pc = "due"
        /\ \A d \in Callers \ {"backstop"} : run'[d] = run[d]
    BY <1>1, FireEffect DEF BackstopTime, RefreshSafe, Callers
  <1>3. /\ UNCHANGED <<table, mirror, faults>> /\ slot = "primary" /\ slot' = "backstop"
        /\ Recent' => Recent
    BY RefreshAssumption DEF BackstopTime, data, Recent
  <1>4. DatesInv'
    BY <1>2, <1>3 DEF CoverInv, DatesInv, Active
  <1>5. RowsInv'
    BY <1>2, <1>3 DEF CoverInv, RowsInv, Covered
  <1>6. ChanceInv'
    <2>1. Chance("nightly")' = Chance("nightly")
      BY <1>2 DEF Chance, Callers
    <2>2. Chance("backstop")' = Chance("backstop")
      BY <1>2, <1>3 DEF Chance, Promising
    <2>3. Covered(Tonight)' <=> Covered(Tonight)
      BY <1>3 DEF Covered, Tonight
    <2> QED
      BY <1>3, <2>1, <2>2, <2>3 DEF CoverInv, ChanceInv
  <1> QED
    BY <1>4, <1>5, <1>6 DEF CoverInv

(* Midnight: the day that was ending is yesterday, for tables and runs.     *)
LEMMA MidnightCovers ==
  ASSUME RefreshSafe, CoverInv, Midnight
  PROVE  CoverInv'
  <1>1. /\ slot = "backstop" /\ slot' = "day" /\ stamp' = None /\ NobodyDue
        /\ table' = Aged(table, NoRow) /\ mirror' = Aged(mirror, NoRow) /\ faults' = faults
    BY DEF Midnight
  <1>2. ASSUME NEW c \in Callers
        PROVE  /\ run'[c].pc = run[c].pc /\ run'[c].ok = run[c].ok
               /\ Active(c) => /\ run'[c].date = 1 /\ run'[c].oldest = run[c].oldest + 1
                               /\ run[c].date = 0 /\ run[c].oldest \in Nat
    <2>1. run'[c] = IF Active(c) THEN Shifted(run[c]) ELSE run[c]
      BY DEF Midnight, Shifted
    <2>2. run[c] \in RunRecords
      BY RunType DEF RefreshSafe
    <2>3. Active(c) => run[c].date = 0
      BY <1>1 DEF CoverInv, DatesInv
    <2>4. /\ Shifted(run[c]).pc = run[c].pc /\ Shifted(run[c]).ok = run[c].ok
          /\ Shifted(run[c]).date = 1 /\ Shifted(run[c]).oldest = run[c].oldest + 1
      BY <2>2 DEF Shifted, RunRecords
    <2> QED
      BY <2>1, <2>2, <2>3, <2>4 DEF RunRecords
  <1>3. /\ table'[1] = table[0] /\ mirror'[1] = mirror[0]
        /\ table'[0] = NoRow /\ mirror'[0] = NoRow
        /\ \A a \in Ages : a # 0 => /\ a - 1 \in Ages
                                    /\ table'[a] = table[a - 1] /\ mirror'[a] = mirror[a - 1]
    BY <1>1, RefreshAssumption DEF Aged, Ages
  <1>4. Covered(1)' <=> Covered(0)
    BY <1>3 DEF Covered
  <1>5. DatesInv'
    BY <1>1, <1>2 DEF DatesInv, Active
  <1>6. RowsInv'
    <2>1. \A a \in Ages : mirror'[a].model # None => table'[a].model # None
      BY <1>3 DEF CoverInv, RowsInv, NoRow
    <2>2. ASSUME NEW c \in Callers
          PROVE  /\ run'[c].pc \in {"mirroring", "generating", "stamping"} =>
                      table'[run'[c].date].model # None
                 /\ run'[c].pc \in {"generating", "stamping"} /\ run'[c].ok =>
                      Covered(run[c].date)'
      BY <1>2, <1>3, <1>4 DEF CoverInv, RowsInv, Active, Covered
    <2>3. ~Recent'
      BY <1>1, RefreshAssumption DEF Recent
    <2> QED
      BY <2>1, <2>2, <2>3 DEF RowsInv
  <1>7. ChanceInv'
    <2>1. "nightly" \in Callers /\ "backstop" \in Callers
      BY DEF Callers
    <2>2. \A c \in Callers : Chance(c)' = Chance(c)
      BY <1>1, <1>2 DEF Chance
    <2>3. Covered(Tonight)' <=> Covered(Tonight)
      BY <1>1, <1>4 DEF Tonight, Covered
    <2> QED
      BY <1>1, <2>1, <2>2, <2>3 DEF CoverInv, ChanceInv
  <1> QED
    BY <1>5, <1>6, <1>7 DEF CoverInv

-----------------------------------------------------------------------------
(* The callers.                                                             *)
LEMMA BegunRecord ==
  ASSUME NEW horizon \in Nat, NEW rec, rec = [Idle EXCEPT !.pc = "waiting", !.oldest = horizon]
  PROVE  rec.pc = "waiting" /\ rec.date = 0 /\ rec.date <= rec.oldest
  BY DEF Idle

\* dates the mirror has a row for are not asked for again
LEMMA ImportAllKeepsRows ==
  ASSUME RefreshSafe, CoverInv, ImportAll, table' = table
  PROVE  RowsKept
  <1> SUFFICES ASSUME NEW a \in Ages
               PROVE  /\ mirror[a].model # None => mirror'[a].model # None
                      /\ mirror'[a].model # None => table'[a].model # None
    BY DEF RowsKept
  <1>1. mirror'[a] = IF Unseen(a) THEN table[a] ELSE mirror[a]
    BY DEF ImportAll
  <1>2. mirror[a].model # None => ~Unseen(a)
    <2>1. a <= a
      BY DEF Ages
    <2>2. Unseen(a) => mirror[a] = NoRow
      BY <2>1 DEF Unseen
    <2> QED
      BY <2>2 DEF NoRow
  <1> QED
    BY <1>1, <1>2 DEF CoverInv, RowsInv

LEMMA FaultCounts ==
  ASSUME RefreshSafe
  PROVE  /\ faults \in Nat
         /\ Fault => faults' \in Nat /\ faults' >= faults /\ faults' >= faults + 1
         /\ Fine => faults' = faults /\ faults' \in Nat /\ faults' >= faults
  BY DEF RefreshSafe, WorldOK, Fault, Fine

LEMMA CronCovers ==
  ASSUME RefreshSafe, CoverInv, Cron
  PROVE  CoverInv'
  <1>1. "nightly" \in Callers /\ "backstop" \in Callers /\ Idle.pc = "idle"
    BY IdleType DEF Callers
  <1>2. CASE Nightly
    <2> DEFINE rec == [Idle EXCEPT !.pc = "waiting", !.oldest = 0]
    <2>1. rec.pc = "waiting" /\ rec.date = 0 /\ rec.date <= rec.oldest
      BY BegunRecord
    <2>2. /\ run' = [run EXCEPT !["nightly"] = rec]
          /\ UNCHANGED <<slot, table, stamp, faults>>
      BY <1>2 DEF Nightly, Begin
    <2>3. RowsKept
      BY <1>2, ImportAllKeepsRows DEF Nightly
    <2> HIDE DEF rec
    <2> QED
      BY <1>1, <2>1, <2>2, <2>3, FaultCounts, CoverStep DEF Fine, Promising
  <1>3. CASE NightlyLost
    <2>1. RowsKept
      BY <1>3, ImportAllKeepsRows DEF NightlyLost
    <2> QED
      BY <1>1, <1>3, <2>1, FaultCounts, CoverStep DEF NightlyLost
  <1>4. CASE BackstopSkips
    <2>1. UNCHANGED <<slot, table, mirror, stamp, faults>>
      BY <1>4 DEF BackstopSkips, data
    <2>2. RowsKept
      BY <2>1, SameRowsKept DEF CoverInv
    <2>3. Covered(Tonight)'
      <3>1. slot # "day" /\ Covered(0)
        BY <1>4 DEF BackstopSkips, CoverInv, RowsInv
      <3> QED
        BY <2>1, <3>1 DEF Tonight, Covered
    <2> QED
      BY <1>1, <1>4, <2>1, <2>2, <2>3, FaultCounts, CoverStep DEF BackstopSkips, Fine
  <1>5. CASE BackstopRuns
    <2> DEFINE rec == [Idle EXCEPT !.pc = "waiting", !.oldest = CronHorizon]
    <2>1. rec.pc = "waiting" /\ rec.date = 0 /\ rec.date <= rec.oldest
      BY BegunRecord, RefreshAssumption
    <2>2. /\ run' = [run EXCEPT !["backstop"] = rec]
          /\ UNCHANGED <<slot, table, mirror, stamp, faults>>
      BY <1>5 DEF BackstopRuns, Begin, data
    <2>3. RowsKept
      BY <2>2, SameRowsKept DEF CoverInv
    <2> HIDE DEF rec
    <2> QED
      BY <1>1, <2>1, <2>2, <2>3, FaultCounts, CoverStep DEF Fine, Promising
  <1> QED
    BY <1>2, <1>3, <1>4, <1>5 DEF Cron

LEMMA ManualCovers ==
  ASSUME RefreshSafe, CoverInv, NEW h \in ManualHorizons, Manual(h)
  PROVE  CoverInv'
  <1> DEFINE rec == [Idle EXCEPT !.pc = "waiting", !.oldest = h]
  <1>1. "manual" \in Callers /\ h \in Nat
    BY RefreshAssumption DEF Callers
  <1>2. rec.pc = "waiting" /\ rec.date = 0 /\ rec.date <= rec.oldest
    BY <1>1, BegunRecord
  <1>3. /\ run' = [run EXCEPT !["manual"] = rec] /\ run["manual"].pc = "idle"
        /\ UNCHANGED <<slot, table, mirror, stamp, faults>>
    BY DEF Manual, Begin, data
  <1>4. RowsKept
    BY <1>3, SameRowsKept DEF CoverInv
  <1> HIDE DEF rec
  <1> QED
    BY <1>1, <1>2, <1>3, <1>4, FaultCounts, CoverStep DEF Fine, Promising

-----------------------------------------------------------------------------
(* The steps of a refresh, on the date it began on.                         *)
LEMMA RunDates ==
  ASSUME RefreshSafe, CoverInv, NEW c \in Callers, Active(c)
  PROVE  /\ run[c].date \in {0, 1} /\ run[c].date \in Ages /\ run[c].oldest \in Nat
         /\ run[c].date <= run[c].oldest
         /\ slot # "day" => run[c].date = 0
         /\ c # "manual" => run[c].date = Tonight
  <1>1. /\ run[c].date \in {0, 1} /\ run[c].date <= run[c].oldest
        /\ slot # "day" => run[c].date = 0
    BY DEF CoverInv, DatesInv
  <1>2. c # "manual" /\ slot = "day" => run[c].date # 0
    BY DEF RefreshSafe, NightInv, Active, Callers
  <1> QED
    BY <1>1, <1>2, DaysFollowed, RunType DEF Tonight, RefreshSafe

LEMMA TakeLockCovers ==
  ASSUME RefreshSafe, CoverInv, NEW c \in Callers, TakeLock(c)
  PROVE  CoverInv'
  <1> DEFINE rec == [run[c] EXCEPT !.pc = "loading"]
  <1>1. /\ run[c].pc = "waiting" /\ run' = [run EXCEPT ![c] = rec]
        /\ UNCHANGED <<slot, table, mirror, stamp>> /\ (Fault \/ Fine)
    BY DEF TakeLock, At, Go, RefreshSafe, RunsOK
  <1>2. rec.pc = "loading" /\ rec.date = run[c].date /\ rec.oldest = run[c].oldest
    BY RunType DEF RefreshSafe, RunRecords
  <1>3. RowsKept
    BY <1>1, SameRowsKept DEF CoverInv
  <1>4. Active(c)
    BY <1>1 DEF Active
  <1> HIDE DEF rec
  <1> QED
    BY <1>1, <1>2, <1>3, <1>4, RunDates, FaultCounts, CoverStep DEF Promising

\* giving up under the lock costs a fault
LEMMA GiveUpCovers ==
  ASSUME RefreshSafe, CoverInv, NEW c \in Callers, GiveUp(c), Fault,
         UNCHANGED <<slot, data, stamp, calls>>
  PROVE  CoverInv'
  <1>1. UNCHANGED <<slot, table, mirror, stamp>> /\ run' = [run EXCEPT ![c] = Idle]
    BY DEF data, GiveUp
  <1>2. RowsKept
    BY <1>1, SameRowsKept DEF CoverInv
  <1> QED
    BY <1>1, <1>2, IdleType, FaultCounts, CoverStep

LEMMA LoadCovers ==
  ASSUME RefreshSafe, CoverInv, NEW c \in Callers, Load(c)
  PROVE  CoverInv'
  <1>1. PICK seen \in {live, [a \in Ages |-> None]} :
           /\ (seen = live \/ Fault) /\ (seen # live \/ Fine)
           /\ run' = [run EXCEPT ![c].pc = "writing", ![c].model = csv, ![c].snap = seen]
    BY DEF Load
  <1> DEFINE rec == [run[c] EXCEPT !.pc = "writing", !.model = csv, !.snap = seen]
  <1>2. rec.pc = "writing" /\ rec.date = run[c].date /\ rec.oldest = run[c].oldest
    BY RunType DEF RefreshSafe, RunRecords
  <1>3. /\ run[c].pc = "loading" /\ run' = [run EXCEPT ![c] = rec]
        /\ UNCHANGED <<slot, table, mirror, stamp>> /\ (Fault \/ Fine)
    BY <1>1 DEF Load, At, data, RefreshSafe, RunsOK
  <1>4. RowsKept
    BY <1>3, SameRowsKept DEF CoverInv
  <1>5. Active(c)
    BY <1>3 DEF Active
  <1> HIDE DEF rec
  <1> QED
    BY <1>2, <1>3, <1>4, <1>5, RunDates, FaultCounts, CoverStep DEF Promising

(* The MERGE writes its own date and empties no model column.               *)
LEMMA UpsertCovers ==
  ASSUME RefreshSafe, CoverInv, NEW c \in Callers, Upsert(c)
  PROVE  CoverInv'
  <1> DEFINE rec == [run[c] EXCEPT !.pc = "mirroring", !.model = 0, !.snap = Idle.snap]
  <1>1. rec.pc = "mirroring" /\ rec.date = run[c].date /\ rec.oldest = run[c].oldest
    BY RunType DEF RefreshSafe, RunRecords
  <1>2. /\ run[c].pc = "writing" /\ run' = [run EXCEPT ![c] = rec]
        /\ UNCHANGED <<slot, mirror, stamp, faults>>
        /\ table' = [a \in Ages |-> IF a \in Window(c) THEN Merged(c, a) ELSE table[a]]
    BY DEF Upsert, At, RefreshSafe, RunsOK
  <1>3. Active(c)
    BY <1>2 DEF Active
  <1>4. run[c].model # None
    BY RunType, RefreshAssumption DEF RefreshSafe, Models
  <1>5. \A a \in Ages : table[a].model # None => table'[a].model # None
    BY <1>2, <1>4 DEF Merged
  <1>6. table'[run[c].date].model # None
    <2>1. run[c].date \in Window(c) /\ run[c].date <= run[c].date
      BY <1>3, RunDates DEF Window
    <2> QED
      BY <1>2, <1>3, <1>4, <2>1, RunDates DEF Merged
  <1>7. RowsKept
    BY <1>2, <1>5 DEF RowsKept, CoverInv, RowsInv
  <1> HIDE DEF rec
  <1> QED
    BY <1>1, <1>2, <1>3, <1>6, <1>7, RunDates, FaultCounts, CoverStep DEF Fine, Promising

Caught(c) == [a \in Ages |-> IF a \in Lookback(c) THEN table[a] ELSE mirror[a]]

(* The re-mirror: once it succeeds, the run's own date is in both.          *)
LEMMA MirrorTableCovers ==
  ASSUME RefreshSafe, CoverInv, NEW c \in Callers, MirrorTable(c)
  PROVE  CoverInv'
  <1>1. PICK ok \in BOOLEAN :
           /\ ToGenerate(c, ok)
           /\ ok => mirror' = Caught(c) /\ Fine
           /\ ~ok => mirror' = mirror /\ Fault
    BY DEF MirrorTable, Caught
  <1> DEFINE rec == [run[c] EXCEPT !.pc = "generating", !.next = run[c].oldest, !.ok = ok]
  <1>2. /\ rec.pc = "generating" /\ rec.date = run[c].date /\ rec.oldest = run[c].oldest
        /\ rec.ok = ok
    BY RunType DEF RefreshSafe, RunRecords
  <1>3. /\ run[c].pc = "mirroring" /\ run' = [run EXCEPT ![c] = rec]
        /\ UNCHANGED <<slot, table, stamp>>
    BY <1>1 DEF MirrorTable, At, ToGenerate, RefreshSafe, RunsOK
  <1>4. Active(c) /\ table[run[c].date].model # None
    BY <1>3 DEF Active, CoverInv, RowsInv
  <1>5. RowsKept
    <2>1. \A a \in Ages : mirror'[a] \in {mirror[a], table[a]}
      BY <1>1 DEF Caught
    <2> QED
      BY <1>3, <2>1 DEF RowsKept, CoverInv, RowsInv
  <1>6. ok => table'[run[c].date].model # None /\ mirror'[run[c].date].model # None
    <2>1. run[c].date \in {0, 1}
      BY <1>4, RunDates
    <2>2. run[c].date \in Lookback(c)
      BY <2>1, DaysFollowed, RefreshAssumption DEF Lookback
    <2> QED
      BY <1>1, <1>3, <1>4, <2>1, <2>2, DaysFollowed DEF Caught
  <1>7. ok /\ c # "manual" => Covered(Tonight)'
    <2>1. Tonight' = Tonight
      BY <1>3 DEF Tonight
    <2> QED
      BY <1>4, <1>6, <2>1, RunDates DEF Covered
  <1>8. /\ faults' \in Nat /\ faults' >= faults
        /\ ok \/ faults' >= faults + 1
    BY <1>1, FaultCounts
  <1>9. /\ rec.date \in {0, 1} /\ rec.date <= rec.oldest
        /\ slot # "day" => rec.date = 0
    BY <1>2, <1>4, RunDates
  <1> HIDE DEF rec
  <1> QED
    BY <1>2, <1>3, <1>4, <1>5, <1>6, <1>7, <1>8, <1>9, CoverStep

LEMMA GenerateCovers ==
  ASSUME RefreshSafe, CoverInv, NEW c \in Callers, Generate(c)
  PROVE  CoverInv'
  <1>1. PICK outcome \in BOOLEAN : Following(c, outcome) /\ (Fault \/ Fine)
    BY DEF Generate
  <1> DEFINE pc   == IF run[c].next = run[c].date THEN "stamping" ELSE "generating"
             next == IF run[c].next = run[c].date THEN 0 ELSE run[c].next - 1
             ok   == run[c].ok /\ outcome
             rec  == [run[c] EXCEPT !.ok = ok, !.pc = pc, !.next = next]
  <1>2. /\ run[c].pc = "generating" /\ run' = [run EXCEPT ![c] = rec]
        /\ UNCHANGED <<slot, table, mirror, stamp>>
    BY <1>1 DEF Generate, At, Following
  <1>3. pc \in {"generating", "stamping"} /\ (ok => run[c].ok)
    OBVIOUS
  <1>4. Active(c) /\ table[run[c].date].model # None /\ (run[c].ok => mirror[run[c].date].model # None)
    BY <1>2 DEF Active, CoverInv, RowsInv, Covered
  <1> HIDE DEF pc, next, ok
  <1>5. rec.pc = pc /\ rec.ok = ok /\ rec.date = run[c].date /\ rec.oldest = run[c].oldest
    BY RunType DEF RefreshSafe, RunRecords
  <1>6. RowsKept
    BY <1>2, SameRowsKept DEF CoverInv
  <1> HIDE DEF rec
  <1> QED
    BY <1>1, <1>2, <1>3, <1>4, <1>5, <1>6, RunDates, FaultCounts, CoverStep DEF Promising

(* The stamp says that the day that is ending has its row.                  *)
LEMMA StampCovers ==
  ASSUME RefreshSafe, CoverInv, NEW c \in Callers, Stamp(c)
  PROVE  CoverInv'
  <1>1. /\ run[c].pc = "stamping" /\ run' = [run EXCEPT ![c] = Idle]
        /\ UNCHANGED <<slot, table, mirror, faults>>
        /\ stamp' = IF run[c].ok THEN slot ELSE stamp
    BY DEF Stamp, At, data
  <1>2. RowsKept
    BY <1>1, SameRowsKept DEF CoverInv
  <1>3. stamp' = stamp \/ (Recent' => slot # "day" /\ Covered(0)')
    <2>1. CASE run[c].ok
      <3>1. Covered(run[c].date)
        BY <1>1, <2>1 DEF CoverInv, RowsInv
      <3>2. slot # "day" => Covered(0)
        BY <1>1, <3>1, RunDates DEF Active
      <3>3. Recent' => slot # "day"
        BY <1>1, <2>1 DEF Recent
      <3> QED
        BY <1>1, <3>2, <3>3 DEF Covered
    <2>2. CASE ~run[c].ok
      BY <1>1, <2>2
    <2> QED
      BY <2>1, <2>2
  <1> QED
    BY <1>1, <1>2, <1>3, IdleType, FaultCounts, CoverStep DEF Promising, Fine

(* A restart costs one fault for every run it kills, so it takes no more    *)
(* chances than it costs.                                                   *)
LEMMA KilledChances ==
  ASSUME NEW killed, killed = Cardinality({c \in Callers : Active(c)})
  PROVE  /\ killed \in Nat
         /\ Active("nightly") \/ Active("backstop") => killed >= 1
         /\ Active("nightly") /\ Active("backstop") => killed >= 2
  <1> DEFINE hit == {c \in Callers : Active(c)}
             two == {"nightly", "backstop"}
  <1>1. IsFiniteSet({"nightly"}) /\ Cardinality({"nightly"}) = 1
    BY FS_Singleton
  <1>2. IsFiniteSet({"backstop"}) /\ Cardinality({"backstop"}) = 1
    BY FS_Singleton
  <1>3. IsFiniteSet(two) /\ Cardinality(two) = 2
    <2>1. two = {"backstop"} \cup {"nightly"} /\ "nightly" \notin {"backstop"}
      OBVIOUS
    <2> QED
      BY <1>2, <2>1, FS_AddElement
  <1>4. IsFiniteSet(Callers)
    <2>1. Callers = two \cup {"manual"}
      BY DEF Callers
    <2> QED
      BY <1>3, <2>1, FS_AddElement
  <1>5. IsFiniteSet(hit)
    BY <1>4, FS_Subset
  <1>6. Cardinality(hit) \in Nat
    BY <1>5, FS_CardinalityType
  <1>7. "nightly" \in hit => Cardinality(hit) >= 1
    BY <1>1, <1>5, FS_Subset
  <1>8. "backstop" \in hit => Cardinality(hit) >= 1
    BY <1>2, <1>5, FS_Subset
  <1>9. "nightly" \in hit /\ "backstop" \in hit => Cardinality(hit) >= 2
    BY <1>3, <1>5, FS_Subset
  <1> QED
    BY <1>6, <1>7, <1>8, <1>9 DEF Callers

LEMMA RestartCovers ==
  ASSUME RefreshSafe, CoverInv, Restart
  PROVE  CoverInv'
  <1> DEFINE killed == Cardinality({c \in Callers : Active(c)})
  <1>1. /\ run' = [c \in Callers |-> IF Active(c) THEN Idle ELSE run[c]]
        /\ UNCHANGED <<slot, table, mirror>> /\ stamp' = None /\ faults' = faults + killed
    BY DEF Restart, data
  <1>2. \A c \in Callers : /\ Active(c) => run'[c].pc = "idle"
                           /\ ~Active(c) => run'[c] = run[c]
    BY <1>1, IdleType
  <1>3. DatesInv'
    BY <1>2 DEF DatesInv, Active
  <1>4. RowsInv'
    <2>1. ~Recent'
      BY <1>1, RefreshAssumption DEF Recent
    <2> QED
      BY <1>1, <1>2, <2>1 DEF CoverInv, RowsInv, Active
  <1>5. ChanceInv'
    <2>1. /\ killed \in Nat
          /\ Active("nightly") \/ Active("backstop") => killed >= 1
          /\ Active("nightly") /\ Active("backstop") => killed >= 2
      BY KilledChances
    <2> HIDE DEF killed
    <2>2. "nightly" \in Callers /\ "backstop" \in Callers
      BY DEF Callers
    <2>3. \A c \in Callers : /\ Chance(c) \in {0, 1} /\ Chance(c)' \in {0, 1}
                             /\ ~Active(c) => Chance(c)' = Chance(c)
      BY <1>1, <1>2 DEF Chance
    <2>4. Covered(Tonight)' <=> Covered(Tonight)
      BY <1>1 DEF Tonight, Covered
    <2>5. ASSUME ~Covered(Tonight)
          PROVE  Chance("nightly")' + Chance("backstop")' + faults' >= 2
      <3>1. Chance("nightly") + Chance("backstop") + faults >= 2
        BY <2>5 DEF CoverInv, ChanceInv
      <3>2. faults \in Nat /\ faults' = faults + killed
        BY <1>1, FaultCounts
      <3> QED
        BY <2>1, <2>2, <2>3, <3>1, <3>2
    <2> QED
      BY <2>4, <2>5 DEF ChanceInv
  <1> QED
    BY <1>3, <1>4, <1>5 DEF CoverInv

-----------------------------------------------------------------------------
(* No step takes a night's chance away without the row or a fault.          *)
THEOREM CoverNext == RefreshSafe /\ CoverInv /\ [Next]_vars => CoverInv'
  <1> SUFFICES ASSUME RefreshSafe, CoverInv, [Next]_vars PROVE CoverInv'
    OBVIOUS
  <1>1. CASE \E a \in Ages : Post(a)
    BY <1>1, CoverIdleStep DEF Post
  <1>2. CASE Predict
    BY <1>2, CoverIdleStep DEF Predict
  <1>3. CASE Clock
    BY <1>3, PrimaryTimeCovers, BackstopTimeCovers, MidnightCovers DEF Clock
  <1>4. CASE Cron
    BY <1>4, CronCovers
  <1>5. CASE \E h \in ManualHorizons : Manual(h)
    BY <1>5, ManualCovers
  <1>6. ASSUME NEW c \in Callers, Refresh(c) PROVE CoverInv'
    <2>1. CASE TakeLock(c)
      BY <2>1, TakeLockCovers
    <2>2. CASE Refuse(c)
      BY <2>2, GiveUpCovers DEF Refuse
    <2>3. CASE Load(c)
      BY <2>3, LoadCovers
    <2>4. CASE Upsert(c)
      BY <2>4, UpsertCovers
    <2>5. CASE UpsertFails(c)
      BY <2>5, GiveUpCovers DEF UpsertFails
    <2>6. CASE MirrorTable(c)
      BY <2>6, MirrorTableCovers
    <2>7. CASE Generate(c)
      BY <2>7, GenerateCovers
    <2>8. CASE Stamp(c)
      BY <2>8, StampCovers
    <2> QED
      BY <1>6, <2>1, <2>2, <2>3, <2>4, <2>5, <2>6, <2>7, <2>8 DEF Refresh
  <1>7. CASE Restart
    BY <1>7, RestartCovers
  <1>8. CASE UNCHANGED vars
    BY <1>8, CoverIdleStep DEF vars, data
  <1> QED
    BY <1>1, <1>2, <1>3, <1>4, <1>5, <1>6, <1>7, <1>8 DEF Next

(* One fault a night is survived: with both runs over and at most one step  *)
(* gone wrong, the day that has ended has its row in the table and in the   *)
(* mirror, whatever the other callers did in between.                       *)
THEOREM BackstopAlwaysCovers == Spec => []BackstopCovers
  <1>1. RefreshSafe /\ CoverInv => BackstopCovers
    <2> SUFFICES ASSUME RefreshSafe, CoverInv, slot = "day", Quiet, faults <= 1
                 PROVE  Covered(1)
      BY DEF BackstopCovers, Covered
    <2>1. Chance("nightly") = 0 /\ Chance("backstop") = 0
      BY DEF Quiet, Chance, Promising, Callers
    <2>2. faults \in Nat
      BY FaultCounts
    <2> QED
      BY <2>1, <2>2 DEF CoverInv, ChanceInv, Tonight
  <1>2. Spec => [](RefreshSafe /\ CoverInv)
    BY RefreshInitSafe, CoverInitSafe, RefreshNextSafe, CoverNext, PTL DEF Spec
  <1> QED
    BY <1>1, <1>2, PTL

-----------------------------------------------------------------------------
(* What a cascade asks for reaches as far back as its refresh wrote: with a *)
(* pad of a day, also when midnight comes in between.                       *)
LEMMA LookbackReaches ==
  ASSUME RefreshSafe, CoverInv, CascadePad >= 1, NEW c \in Callers, Active(c)
  PROVE  Window(c) \subseteq Lookback(c)
  <1>1. run[c].date \in {0, 1} /\ run[c].oldest \in Nat
    BY RunDates, RunType DEF RefreshSafe, RunRecords
  <1> SUFFICES ASSUME NEW a \in Ages, a <= run[c].oldest
               PROVE  a + run[c].date <= run[c].oldest + CascadePad
    BY DEF Window, Lookback
  <1> QED
    BY <1>1, RefreshAssumption DEF Ages

(* Steps that leave both tables alone and take no re-mirror away.           *)
LEMMA MirrorStill ==
  ASSUME MirrorKeepsUp, UNCHANGED <<table, mirror>>, faults' = 0 => faults = 0,
         \A c \in Callers : At(c, "mirroring") => run'[c] = run[c] \/ faults' # 0
  PROVE  MirrorKeepsUp'
  <1> SUFFICES ASSUME faults' = 0, NEW a \in Ages, mirror[a] # table[a]
               PROVE  \E c \in Callers : At(c, "mirroring")' /\ a \in Window(c)'
    BY DEF MirrorKeepsUp
  <1>1. PICK c \in Callers : At(c, "mirroring") /\ a \in Window(c)
    BY DEF MirrorKeepsUp
  <1> QED
    BY <1>1 DEF At, Window

LEMMA UpsertMirrored ==
  ASSUME RefreshSafe, MirrorKeepsUp, NEW c \in Callers, Upsert(c)
  PROVE  MirrorKeepsUp'
  <1>1. /\ run[c].pc = "writing" /\ UNCHANGED <<mirror, faults>>
        /\ run' = [run EXCEPT ![c] =
              [run[c] EXCEPT !.pc = "mirroring", !.model = 0, !.snap = Idle.snap]]
        /\ table' = [a \in Ages |-> IF a \in Window(c) THEN Merged(c, a) ELSE table[a]]
    BY DEF Upsert, At, RefreshSafe, RunsOK
  <1>2. /\ run'[c].pc = "mirroring" /\ Window(c)' = Window(c)
        /\ \A d \in Callers \ {c} : run'[d] = run[d]
    BY <1>1, RunType DEF RefreshSafe, RunsOK, RunRecords, Window
  <1> SUFFICES ASSUME faults = 0, NEW a \in Ages, mirror[a] # table'[a]
               PROVE  \E d \in Callers : At(d, "mirroring")' /\ a \in Window(d)'
    BY <1>1 DEF MirrorKeepsUp
  <1>3. CASE a \in Window(c)
    BY <1>2, <1>3 DEF At
  <1>4. CASE a \notin Window(c)
    <2>1. PICK d \in Callers : At(d, "mirroring") /\ a \in Window(d)
      BY <1>1, <1>4 DEF MirrorKeepsUp
    <2>2. d # c
      BY <1>1, <2>1 DEF At
    <2> QED
      BY <1>2, <2>1, <2>2 DEF At, Window
  <1> QED
    BY <1>3, <1>4

LEMMA MirrorMirrored ==
  ASSUME RefreshSafe, CoverInv, MirrorKeepsUp, CascadePad >= 1, NEW c \in Callers, MirrorTable(c)
  PROVE  MirrorKeepsUp'
  <1>1. /\ run[c].pc = "mirroring" /\ table' = table
        /\ \A d \in Callers \ {c} : run'[d] = run[d]
        /\ (mirror' = Caught(c) /\ Fine) \/ Fault
    BY DEF MirrorTable, At, Caught, ToGenerate, RefreshSafe, RunsOK
  <1> SUFFICES ASSUME faults' = 0, NEW a \in Ages, mirror'[a] # table[a]
               PROVE  \E d \in Callers : At(d, "mirroring")' /\ a \in Window(d)'
    BY <1>1 DEF MirrorKeepsUp
  <1>2. faults = 0 /\ mirror' = Caught(c)
    BY <1>1, FaultCounts DEF Fault, Fine
  <1>3. a \notin Lookback(c) /\ mirror[a] # table[a]
    BY <1>2 DEF Caught
  <1>4. PICK d \in Callers : At(d, "mirroring") /\ a \in Window(d)
    BY <1>2, <1>3 DEF MirrorKeepsUp
  <1>5. d # c
    BY <1>1, <1>3, <1>4, LookbackReaches DEF Active
  <1> QED
    BY <1>1, <1>4, <1>5 DEF At, Window

\* the import asks for what the mirror has never seen
LEMMA ImportMirrored ==
  ASSUME MirrorKeepsUp, ImportAll, table' = table, faults' = 0 => faults = 0,
         \A c \in Callers : At(c, "mirroring") => run'[c] = run[c]
  PROVE  MirrorKeepsUp'
  <1> SUFFICES ASSUME faults' = 0, NEW a \in Ages, mirror'[a] # table[a]
               PROVE  \E c \in Callers : At(c, "mirroring")' /\ a \in Window(c)'
    BY DEF MirrorKeepsUp
  <1>1. mirror[a] # table[a]
    BY DEF ImportAll
  <1>2. PICK c \in Callers : At(c, "mirroring") /\ a \in Window(c)
    BY <1>1 DEF MirrorKeepsUp
  <1> QED
    BY <1>2 DEF At, Window

LEMMA MidnightMirrored ==
  ASSUME RefreshSafe, CoverInv, MirrorKeepsUp, Midnight
  PROVE  MirrorKeepsUp'
  <1>1. /\ slot = "backstop" /\ faults' = faults
        /\ table' = Aged(table, NoRow) /\ mirror' = Aged(mirror, NoRow)
    BY DEF Midnight
  <1> SUFFICES ASSUME faults = 0, NEW a \in Ages, mirror'[a] # table'[a]
               PROVE  \E c \in Callers : At(c, "mirroring")' /\ a \in Window(c)'
    BY <1>1 DEF MirrorKeepsUp
  <1>2. a # 0 /\ a - 1 \in Ages /\ mirror[a - 1] # table[a - 1]
    BY <1>1, RefreshAssumption DEF Aged, Ages
  <1>3. PICK c \in Callers : At(c, "mirroring") /\ a - 1 \in Window(c)
    BY <1>2 DEF MirrorKeepsUp
  <1>4. Active(c) /\ run[c].date = 0
    <2>1. Active(c)
      BY <1>3 DEF At, Active
    <2> QED
      BY <1>1, <2>1, RunDates
  <1>5. run'[c].pc = "mirroring" /\ run'[c].date = 1 /\ run'[c].oldest = run[c].oldest + 1
    <2>1. run'[c] = [run[c] EXCEPT !.date = 1, !.oldest = @ + 1, !.next = @ + 1,
                                   !.snap = Aged(@, None)]
      BY <1>4 DEF Midnight
    <2> QED
      BY <1>3, <2>1, RunType DEF At, RefreshSafe, RunRecords
  <1>6. a \in Window(c)'
    BY <1>2, <1>3, <1>5, RunType DEF Window, Ages, RefreshSafe, RunRecords
  <1> QED
    BY <1>5, <1>6 DEF At

LEMMA MirrorNext ==
  ASSUME RefreshSafe, CoverInv, MirrorKeepsUp, CascadePad >= 1, [Next]_vars
  PROVE  MirrorKeepsUp'
  <1>0. /\ Fine => (faults' = 0 => faults = 0)
        /\ Fault => faults' # 0
    BY FaultCounts DEF Fine, Fault
  <1>1. CASE \E a \in Ages : Post(a)
    BY <1>1, MirrorStill DEF Post
  <1>2. CASE Predict
    BY <1>2, MirrorStill DEF Predict
  <1>3. CASE PrimaryTime
    BY <1>3, MirrorStill DEF PrimaryTime, Fire, data, At, NobodyDue, RefreshSafe, RunsOK, NightInv, Active
  <1>4. CASE BackstopTime
    <2>1. run["backstop"].pc = "idle"
      BY <1>4 DEF BackstopTime, RefreshSafe, NightInv
    <2> QED
      BY <1>4, <2>1, MirrorStill DEF BackstopTime, Fire, data, At, RefreshSafe, RunsOK
  <1>5. CASE Midnight
    BY <1>5, MidnightMirrored
  <1>6. CASE Nightly \/ NightlyLost
    <2>1. /\ run["nightly"].pc = "due" /\ ImportAll /\ table' = table /\ (Fine \/ Fault)
      BY <1>6 DEF Nightly, NightlyLost, Fine
    <2>2. \A c \in Callers : At(c, "mirroring") => run'[c] = run[c]
      BY <1>6, <2>1 DEF Nightly, NightlyLost, Begin, At, RefreshSafe, RunsOK
    <2> QED
      BY <1>0, <1>6, <2>2, ImportMirrored DEF Nightly, NightlyLost, Fine
  <1>7. CASE BackstopSkips \/ BackstopRuns
    BY <1>7, MirrorStill DEF BackstopSkips, BackstopRuns, Begin, data, At, RefreshSafe, RunsOK
  <1>8. CASE \E h \in ManualHorizons : Manual(h)
    BY <1>8, MirrorStill DEF Manual, Begin, data, At, RefreshSafe, RunsOK
  <1>9. ASSUME NEW c \in Callers, Refresh(c) PROVE MirrorKeepsUp'
    <2>1. CASE Upsert(c)
      BY <2>1, UpsertMirrored
    <2>2. CASE MirrorTable(c)
      BY <2>2, MirrorMirrored
    <2>3. CASE TakeLock(c) \/ Refuse(c) \/ Load(c) \/ UpsertFails(c) \/ Generate(c) \/ Stamp(c)
      <3>1. UNCHANGED <<table, mirror>> /\ (Fine \/ Fault)
        BY <2>3 DEF TakeLock, Refuse, Load, UpsertFails, Generate, Stamp, data, Fine
      <3>2. /\ run[c].pc # "mirroring"
            /\ \A d \in Callers \ {c} : run'[d] = run[d]
        BY <2>3 DEF TakeLock, Refuse, Load, UpsertFails, Generate, Stamp, At, Go, GiveUp, Following,
                    RefreshSafe, RunsOK
      <3> QED
        BY <1>0, <3>1, <3>2, MirrorStill DEF At, Fine
    <2> QED
      BY <1>9, <2>1, <2>2, <2>3 DEF Refresh
  <1>10. CASE Restart
    <2> DEFINE killed == Cardinality({c \in Callers : Active(c)})
    <2>1. killed > 0 /\ faults' = faults + killed /\ UNCHANGED <<table, mirror>>
      BY <1>10 DEF Restart, data
    <2>2. faults' # 0
      <3>1. killed \in Nat
        BY KilledChances
      <3> HIDE DEF killed
      <3> QED
        BY <2>1, <3>1, FaultCounts
    <2> QED
      BY <2>1, <2>2, MirrorStill
  <1>11. CASE UNCHANGED vars
    BY <1>11, MirrorStill DEF vars
  <1> QED
    BY <1>1, <1>2, <1>3, <1>4, <1>5, <1>6, <1>7, <1>8, <1>9, <1>10, <1>11 DEF Next, Clock, Cron

(* For any horizons, minimum, posts, retrains and overlap of the callers:   *)
(* with a pad of a day or more the mirror keeps up with the table.          *)
THEOREM MirrorFollows ==
  ASSUME CascadePad >= 1
  PROVE  Spec => []MirrorKeepsUp
  <1>1. Init => MirrorKeepsUp
    BY DEF Init, MirrorKeepsUp
  <1>2. RefreshSafe /\ CoverInv /\ MirrorKeepsUp /\ [Next]_vars => MirrorKeepsUp'
    BY MirrorNext
  <1> QED
    BY <1>1, <1>2, RefreshInitSafe, CoverInitSafe, RefreshNextSafe, CoverNext, PTL DEF Spec
=============================================================================
