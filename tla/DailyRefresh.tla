---------------------------- MODULE DailyRefresh ----------------------------
(***************************************************************************)
(* The nightly data chain: YaumiLive posts and yf_demand_forecast flow      *)
(* through reconciliation_refresh into yf_sales_transactions, from there    *)
(* into the CSV mirror of data_import and into the recommendations of       *)
(* recommended_order.  Three callers start refreshes of one service         *)
(* process: the data_import cron at 03:00 Dubai (through HTTP), the         *)
(* backstop cron at 03:30 and whoever POSTs /reconciliation/refresh or      *)
(* finishes an inference.                                                   *)
(*                                                                          *)
(* A date is known by its age in days, 0 being the current UTC date: the    *)
(* service takes "today" from the UTC clock, and both crons fire before     *)
(* midnight UTC.  Values are versions: the larger one was posted later.     *)
(***************************************************************************)
EXTENDS Naturals, FiniteSets

CONSTANTS
    Keep,            \* oldest age followed
    CronHorizon,     \* reconciliation_refresh_horizon_days of the backstop
    ManualHorizons,  \* horizons other callers ask for
    CascadePad,      \* reconciliation_cascade_lookback_pad_days
    CascadeMin,      \* reconciliation_cascade_lookback_min_days
    ManualSlots,     \* bound: the parts of the day they call in
    MaxManual,       \* bound: how often they call
    MaxPosts,        \* bound: corrections YaumiLive posts per date
    MaxPostAge,      \* bound: the oldest date it still corrects
    PostSlots,       \* bound: the parts of the day it posts in
    MaxModels,       \* bound: retrains that rewrite yf_demand_forecast
    MaxFaults,       \* bound: failed steps, lost calls and killed runs
    None             \* SQL NULL, or no row; also the free lock

ASSUME RefreshAssumption ==
    /\ Keep \in Nat \ {0}
    /\ CronHorizon \in Nat
    /\ ManualHorizons \subseteq Nat
    /\ CascadePad \in Nat /\ CascadeMin \in Nat \ {0}
    /\ MaxManual \in Nat
    /\ MaxPosts \in Nat /\ MaxPostAge \in Nat /\ MaxModels \in Nat /\ MaxFaults \in Nat
    /\ None \notin Nat /\ None \notin {"nightly", "backstop", "manual", "day", "primary"}

Ages     == 0..Keep
Callers  == {"nightly", "backstop", "manual"}
Posts    == 0..MaxPosts
Models   == 0..MaxModels
Maybe(S) == S \cup {None}
Rows     == [model : Maybe(Models), rep : Maybe(Posts)]
NoRow    == [model |-> None, rep |-> None]

VARIABLES
    slot,      \* the part of the UTC day: "day", "primary" 23:00, "backstop" 23:30
    live,      \* YaumiLive: what sales and returns say of each date
    forecast,  \* version of the predictions in yf_demand_forecast
    csv,       \* version of them in demand_forecast.csv
    table,     \* yf_sales_transactions: model-side and rep-side columns
    mirror,    \* sales_transactions.csv
    recs,      \* yf_recommended_orders: the dates it has recommendations for
    stamp,     \* _LAST_REFRESH_AT: the slot it was last set in, or None
    lock,      \* _REFRESH_LOCK
    run,       \* the call of refresh_reconciliation each caller is in
    calls,     \* how many calls other callers have made
    faults     \* how many steps have failed

data == <<live, forecast, csv, table, mirror, recs>>
vars == <<slot, live, forecast, csv, table, mirror, recs, stamp, lock, run, calls, faults>>

Idle == [pc |-> "idle", date |-> 0, oldest |-> 0, next |-> 0, model |-> 0,
         snap |-> [a \in Ages |-> None], ok |-> TRUE]

Active(c) == run[c].pc \notin {"idle", "due"}
Quiet     == \A c \in Callers : run[c].pc = "idle"
Window(c) == {a \in Ages : run[c].date <= a /\ a <= run[c].oldest}

Fault == faults < MaxFaults /\ faults' = faults + 1
Fine  == UNCHANGED faults

Init ==
    /\ slot = "day"
    /\ live = [a \in Ages |-> 0]
    /\ forecast = 0 /\ csv = 0
    /\ table = [a \in Ages |-> IF a = 0 THEN NoRow ELSE [model |-> 0, rep |-> 0]]
    /\ mirror = table
    /\ recs = Ages \ {0}
    /\ stamp = None /\ lock = None
    /\ run = [c \in Callers |-> Idle]
    /\ calls = 0 /\ faults = 0

-----------------------------------------------------------------------------
(* The world: sales and late returns, retrains, the clock.                  *)

\* YaumiLive posts a sale, a return or a closing-stock correction for a date
Post(a) ==
    /\ a <= MaxPostAge /\ slot \in PostSlots /\ live[a] < MaxPosts
    /\ live' = [live EXCEPT ![a] = @ + 1]
    /\ UNCHANGED <<slot, forecast, csv, table, mirror, recs, stamp, lock, run, faults, calls>>

\* a retrain, an inference or a direct DbPusher call rewrites the predictions
Predict ==
    /\ forecast < MaxModels
    /\ forecast' = forecast + 1
    /\ UNCHANGED <<slot, live, csv, table, mirror, recs, stamp, lock, run, faults, calls>>

Fire(c) == run' = [run EXCEPT ![c].pc = "due"]

NobodyDue == \A c \in Callers : run[c].pc # "due"

\* 03:00 Dubai.  A run of the night before is over: its HTTP calls time out.
PrimaryTime ==
    /\ slot = "day" /\ slot' = "primary"
    /\ \A c \in Callers : Active(c) => run[c].date = 0
    /\ Fire("nightly")
    /\ UNCHANGED <<data, stamp, lock, faults, calls>>

\* thirty minutes later; the dedup window of the stamp is that long
BackstopTime ==
    /\ slot = "primary" /\ NobodyDue
    /\ slot' = "backstop"
    /\ stamp' = IF stamp = "primary" THEN stamp ELSE None
    /\ Fire("backstop")
    /\ UNCHANGED <<data, lock, faults, calls>>

Aged(f, fresh) == [a \in Ages |-> IF a = 0 THEN fresh ELSE f[a - 1]]

\* midnight UTC; a run in flight keeps the date it began on
Midnight ==
    /\ slot = "backstop" /\ NobodyDue
    /\ slot' = "day" /\ stamp' = None
    /\ live' = Aged(live, 0)
    /\ table' = Aged(table, NoRow)
    /\ mirror' = Aged(mirror, NoRow)
    /\ recs' = {a \in Ages : a > 0 /\ a - 1 \in recs}
    /\ run' = [c \in Callers |->
                IF ~Active(c) THEN run[c]
                ELSE [run[c] EXCEPT !.date = 1, !.oldest = @ + 1, !.next = @ + 1,
                                    !.snap = Aged(@, None)]]
    /\ UNCHANGED <<forecast, csv, lock, faults, calls>>

-----------------------------------------------------------------------------
(* The callers.                                                             *)

Begin(c, horizon) ==
    run' = [run EXCEPT ![c] = [Idle EXCEPT !.pc = "waiting", !.oldest = horizon]]

\* import_all("incremental") asks for dates later than the newest it has
Unseen(a) == \A b \in Ages : b <= a => mirror[b] = NoRow
ImportAll == mirror' = [a \in Ages |-> IF Unseen(a) THEN table[a] ELSE mirror[a]]

\* the import is done and POSTs /reconciliation/refresh without a horizon
Nightly ==
    /\ run["nightly"].pc = "due"
    /\ ImportAll
    /\ Begin("nightly", 0)
    /\ UNCHANGED <<slot, live, forecast, csv, table, recs, stamp, lock, faults, calls>>

\* the forecast service does not answer: the reverse cascade is skipped
NightlyLost ==
    /\ run["nightly"].pc = "due"
    /\ ImportAll /\ Fault
    /\ run' = [run EXCEPT !["nightly"] = Idle]
    /\ UNCHANGED <<slot, live, forecast, csv, table, recs, stamp, lock, calls>>

\* force=False: a refresh within the dedup window makes this one a no-op; the
\* stamp is read under the lock
Recent == stamp \in {"primary", "backstop"}

BackstopSkips ==
    /\ run["backstop"].pc = "due" /\ lock = None /\ Recent
    /\ run' = [run EXCEPT !["backstop"] = Idle]
    /\ UNCHANGED <<slot, data, stamp, lock, faults, calls>>

BackstopRuns ==
    /\ run["backstop"].pc = "due" /\ lock = None /\ ~Recent
    /\ Begin("backstop", CronHorizon)
    /\ UNCHANGED <<slot, data, stamp, lock, faults, calls>>

Manual(horizon) ==
    /\ run["manual"].pc = "idle"
    /\ slot \in ManualSlots
    /\ calls < MaxManual /\ calls' = calls + 1
    /\ Begin("manual", horizon)
    /\ UNCHANGED <<slot, data, stamp, lock, faults>>

-----------------------------------------------------------------------------
(* refresh_reconciliation, under _REFRESH_LOCK up to the MERGE.             *)

At(c, pc) == run[c].pc = pc
Go(c, pc) == run' = [run EXCEPT ![c].pc = pc]
\* Mutant: the early return leaves the lock taken.
GiveUpHolding(c) == run' = [run EXCEPT ![c] = Idle] /\ UNCHANGED lock
GiveUp(c) == run' = [run EXCEPT ![c] = Idle] /\ lock' = None

\* take the lock, then mirror yf_demand_forecast (a failure is ignored)
TakeLock(c) ==
    /\ At(c, "waiting") /\ lock = None
    /\ lock' = c
    /\ Go(c, "loading")
    /\ \/ csv' = forecast /\ Fine
       \/ UNCHANGED csv /\ Fault
    /\ UNCHANGED <<slot, live, forecast, table, mirror, recs, stamp, calls>>

\* no mirror file, an empty one, a stale forecast or an exception: no write
Refuse(c) ==
    /\ At(c, "loading") /\ Fault
    /\ GiveUp(c)
    /\ UNCHANGED <<slot, data, stamp, calls>>

\* Mutant: the lock covers the reads only.
LoadUnlocked(c) ==
    /\ At(c, "loading")
    /\ lock' = None
    /\ run' = [run EXCEPT ![c].pc = "writing", ![c].model = csv, ![c].snap = live]
    /\ UNCHANGED <<slot, data, stamp, faults, calls>>

\* read the forecast CSV, then YaumiLive; a failed query leaves no actuals
Load(c) ==
    /\ At(c, "loading")
    /\ \E seen \in {live, [a \in Ages |-> None]} :
        /\ seen = live \/ Fault
        /\ seen # live \/ Fine
        /\ run' = [run EXCEPT ![c].pc = "writing", ![c].model = csv, ![c].snap = seen]
    /\ UNCHANGED <<slot, data, stamp, lock, calls>>

\* Mutant: the MERGE rewrites the model columns of every date.
MergedAfresh(c, a) == [model |-> run[c].model, rep |-> run[c].snap[a]]

\* the MERGE: model columns of a past date keep what they have unless NULL,
\* rep columns take what was read
Merged(c, a) ==
    [model |-> IF a <= run[c].date \/ table[a].model = None
               THEN run[c].model ELSE table[a].model,
     rep   |-> run[c].snap[a]]

Upsert(c) ==
    /\ At(c, "writing")
    /\ table' = [a \in Ages |-> IF a \in Window(c) THEN Merged(c, a) ELSE table[a]]
    /\ lock' = None
    /\ run' = [run EXCEPT ![c].pc = "mirroring", ![c].model = 0, ![c].snap = Idle.snap]
    /\ UNCHANGED <<slot, live, forecast, csv, mirror, recs, stamp, faults, calls>>

UpsertFails(c) ==
    /\ At(c, "writing") /\ Fault
    /\ GiveUp(c)
    /\ UNCHANGED <<slot, data, stamp, calls>>

-----------------------------------------------------------------------------
(* The cascades, outside the lock.                                          *)

ToGenerate(c, outcome) ==
    run' = [run EXCEPT ![c].pc = "generating", ![c].next = run[c].oldest, ![c].ok = outcome]

\* Mutant: the cascade asks for the horizon without its pad.
LookbackUnpadded(c) ==
    {a \in Ages : a <= CascadeMin \/ a + run[c].date <= run[c].oldest}

\* the dates the cascade asks data_import for: the horizon of the run and a
\* pad, or the minimum when that is more
Lookback(c) ==
    {a \in Ages : a <= CascadeMin \/ a + run[c].date <= run[c].oldest + CascadePad}

MirrorTable(c) ==
    /\ At(c, "mirroring")
    /\ \/ /\ mirror' = [a \in Ages |-> IF a \in Lookback(c) THEN table[a] ELSE mirror[a]]
          /\ ToGenerate(c, TRUE) /\ Fine
       \/ UNCHANGED mirror /\ ToGenerate(c, FALSE) /\ Fault
    /\ UNCHANGED <<slot, live, forecast, csv, table, recs, stamp, lock, calls>>

\* oldest date first; past the youngest one the run is over
Following(c, outcome) ==
    LET r == run[c]
    IN  run' = [run EXCEPT ![c] =
            [r EXCEPT !.ok   = r.ok /\ outcome,
                      !.pc   = IF r.next = r.date THEN "stamping" ELSE "generating",
                      !.next = IF r.next = r.date THEN 0 ELSE r.next - 1]]

\* POST /generate for one date.  The endpoint answers success whatever its
\* routes did, so only a transport failure (twice) counts against the run.
Generate(c) ==
    /\ At(c, "generating")
    /\ LET a == run[c].next
       IN  \/ recs' = recs \cup ({a} \cap Ages) /\ Following(c, TRUE) /\ Fine
           \/ UNCHANGED recs /\ Following(c, FALSE) /\ Fault
           \/ UNCHANGED recs /\ Following(c, TRUE) /\ Fault
    /\ UNCHANGED <<slot, live, forecast, csv, table, mirror, stamp, lock, calls>>

\* Mutant: the stamp is set whatever the cascades did.
StampAnyway(c) ==
    /\ At(c, "stamping") /\ lock = None
    /\ stamp' = slot
    /\ run' = [run EXCEPT ![c] = Idle]
    /\ UNCHANGED <<slot, data, lock, faults, calls>>

\* the stamp waits for both cascades and is set under the lock
Stamp(c) ==
    /\ At(c, "stamping")
    /\ run[c].ok => lock = None
    /\ stamp' = IF run[c].ok THEN slot ELSE stamp
    /\ run' = [run EXCEPT ![c] = Idle]
    /\ UNCHANGED <<slot, data, lock, faults, calls>>

\* the forecast service dies: every run with it is one fault
Restart ==
    LET killed == Cardinality({c \in Callers : Active(c)})
    IN  /\ killed > 0 /\ faults + killed <= MaxFaults
        /\ faults' = faults + killed
        /\ run' = [c \in Callers |-> IF Active(c) THEN Idle ELSE run[c]]
        /\ lock' = None /\ stamp' = None
        /\ UNCHANGED <<slot, data, calls>>

-----------------------------------------------------------------------------
Refresh(c) ==
    \/ TakeLock(c) \/ Refuse(c) \/ Load(c) \/ Upsert(c) \/ UpsertFails(c)
    \/ MirrorTable(c) \/ Generate(c) \/ Stamp(c)

Clock == PrimaryTime \/ BackstopTime \/ Midnight
Cron  == Nightly \/ NightlyLost \/ BackstopSkips \/ BackstopRuns

Next ==
    \/ \E a \in Ages : Post(a)
    \/ Predict
    \/ Clock
    \/ Cron
    \/ \E h \in ManualHorizons : Manual(h)
    \/ \E c \in Callers : Refresh(c)
    \/ Restart

Spec == Init /\ [][Next]_vars

\* Something always moves: the clock, a due cron or a thread of a refresh, as
\* every query and HTTP call returns or times out.  Nothing is assumed of which
\* one moves: the clock waits for the runs of the night before.
Fairness == WF_vars(Clock \/ Cron \/ \E c \in Callers : Refresh(c))

FairSpec == Spec /\ Fairness

-----------------------------------------------------------------------------
(* The variables keep their types, and the lock is held by exactly the run  *)
(* that is between its acquire and its MERGE.                               *)
RefreshTypeOK ==
    /\ slot \in {"day", "primary", "backstop"}
    /\ live \in [Ages -> Posts]
    /\ forecast \in Models /\ csv \in Models
    /\ table \in [Ages -> Rows] /\ mirror \in [Ages -> Rows]
    /\ recs \subseteq Ages
    /\ stamp \in {"day", "primary", "backstop", None}
    /\ calls \in 0..MaxManual /\ faults \in 0..MaxFaults
    /\ \A c \in Callers :
        /\ run[c].pc \in {"idle", "due", "waiting", "loading", "writing",
                          "mirroring", "generating", "stamping"}
        /\ run[c].snap \in [Ages -> Maybe(Posts)]
        /\ run[c].model \in Models /\ run[c].ok \in BOOLEAN
        /\ lock = c <=> run[c].pc \in {"loading", "writing"}

(* What was recommended for a past date is history: once a date is over and *)
(* no run begun on it is left, no retrain and no refresh of any window      *)
(* changes its model-side columns again (the freeze of the MERGE).          *)
FrozenHistory ==
    [][\A a \in Ages \ {0} :
        /\ slot = slot' /\ table[a].model # None
        /\ \A c \in Callers : Active(c) => run[c].date < a
        => table'[a].model = table[a].model]_vars

(* Sales columns only catch up: whatever overlap of the crons and manual    *)
(* calls, no refresh replaces what YaumiLive said of a date by something    *)
(* YaumiLive said before it.  (A failed query writes NULL; that is not an   *)
(* older answer.)                                                           *)
SalesNeverGoBack ==
    [][\A a \in Ages :
        slot = slot' /\ table[a].rep # None /\ table'[a].rep # None
            => table'[a].rep >= table[a].rep]_vars

(* The backstop does its job: when at most one step of the night went       *)
(* wrong, wherever it was, the day that has ended has its row in the table  *)
(* and in the mirror once the night's runs are over.                        *)
BackstopCovers ==
    slot = "day" /\ Quiet /\ faults <= 1 =>
        table[1].model # None /\ mirror[1].model # None

(* No night waits for ever on the one before: every refresh that is called  *)
(* comes to an end, and no early return and no exception in it keeps        *)
(* _REFRESH_LOCK from the next.                                             *)
NightsKeepComing == []<>(slot = "primary")

(* The mirror follows the table, however refreshes overlap and although the *)
(* cascades run outside _REFRESH_LOCK: while nothing has failed, a date     *)
(* differs between the two only as long as a refresh that wrote it has its  *)
(* re-mirror still to do.  What a cascade asks for must reach as far back   *)
(* as its refresh wrote, a midnight in between included.                    *)
MirrorKeepsUp ==
    faults = 0 =>
        \A a \in Ages : mirror[a] # table[a] => \E c \in Callers : At(c, "mirroring") /\ a \in Window(c)
=============================================================================
