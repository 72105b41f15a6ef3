--------------------------- MODULE RecommendedOrders ---------------------------
(***************************************************************************)
(* The recommended_order service and the plans of one date, today.  Plans   *)
(* are made on demand by the page of a route or the grid (POST /get), by    *)
(* the daily cron, and by the cascade of a reconciliation refresh (POST     *)
(* /generate with force).  The refresh is the nightly one, or the one a     *)
(* generation asks for when sales_transactions.csv has no row of the date.  *)
(* A plan goes to yf_recommended_orders first and to its CSV second; reads  *)
(* and skip_existing look at the CSV.                                       *)
(*                                                                          *)
(* The source CSVs are one bundle; its version is its modification time,    *)
(* and version 0 does not reach the date.                                   *)
(***************************************************************************)
EXTENDS Naturals

CONSTANTS
    Routes,        \* the routes on the journey plan; a page asks for its own
    Grid, Cron, Nightly,
    MaxImports,    \* bound: how often data_import replaces the bundle
    MaxCalls,      \* bound: calls that start
    MaxFaults,     \* bound: failed steps and restarts
    ReplaceWaits,  \* TRUE when no CSV is replaced while it is being loaded
    None

ASSUME OrdersAssumption ==
    /\ Grid \notin Routes /\ Cron \notin Routes /\ Nightly \notin Routes
    /\ Grid # Cron /\ Grid # Nightly /\ Cron # Nightly
    /\ MaxImports \in Nat /\ MaxCalls \in Nat /\ MaxFaults \in Nat
    /\ ReplaceWaits \in BOOLEAN
    /\ None \notin Nat
    /\ None \notin [frame : Nat, early : BOOLEAN, cascade : BOOLEAN]

Callers  == Routes \cup {Grid, Cron, Nightly}
Versions == 0 .. MaxImports
Maybe(S) == S \cup {None}

\* what a plan was made of: the frames, whether the carry chain had no row of
\* the date yet, and whether a cascade asked for it
Plan == [frame : Nat, early : BOOLEAN, cascade : BOOLEAN]

VARIABLES
    disk,    \* version of the source CSVs
    chain,   \* sales_transactions.csv has a row of the date, of any route
    frame,   \* DataManager: version of the frames in memory
    seen,    \* DataManager: the modification time remembered with them
    table,   \* yf_recommended_orders, by route
    file,    \* recommendations_<date>_<route>.csv
    call,    \* the calls in flight
    calls,   \* how many have started
    faults   \* how many steps have failed

vars == <<disk, chain, frame, seen, table, file, call, calls, faults>>

\* a call: whether it is the generation of a cascade, what the refresh behind
\* it will answer, whether its heal is over, what a load has read, its gap
\* list, and each route's stage and plan
Calls ==
    [pc : {"idle", "checking", "reading", "publishing", "choosing", "guarding", "refreshing",
           "rechecking", "gap", "working"},
     cascade : BOOLEAN, ok : BOOLEAN, healed : BOOLEAN, read : Maybe(Nat), want : SUBSET Routes,
     work : [Routes -> {"none", "due", "made", "pushed"}], plan : [Routes -> Maybe(Plan)]]

Idle == [pc |-> "idle", cascade |-> FALSE, ok |-> TRUE, healed |-> FALSE, read |-> None, want |-> {},
         work |-> [r \in Routes |-> "none"], plan |-> [r \in Routes |-> None]]

\* lifespan loads the frames before the service answers
Init ==
    /\ disk = 0 /\ frame = 0 /\ seen = 0
    /\ chain = FALSE
    /\ table = [r \in Routes |-> None] /\ file = [r \in Routes |-> None]
    /\ call = [c \in Callers |-> Idle]
    /\ calls = 0 /\ faults = 0

Fault == faults < MaxFaults /\ faults' = faults + 1
Fine  == UNCHANGED faults

At(c, pc) == call[c].pc = pc
Go(c, pc) == call' = [call EXCEPT ![c].pc = pc]
End(c)    == call' = [call EXCEPT ![c] = Idle]

Loaded  == UNCHANGED <<frame, seen>>
Stored  == UNCHANGED <<table, file>>
Sources == UNCHANGED <<disk, chain>>

Unplanned(S) == {r \in S : file[r] = None}

-----------------------------------------------------------------------------
(* What starts a call, and the world.                                       *)

Entry(c) == IF c = Cron THEN "reading" ELSE IF c = Nightly THEN "refreshing" ELSE "checking"

Start(c) ==
    /\ At(c, "idle") /\ calls < MaxCalls
    /\ calls' = calls + 1
    /\ Go(c, Entry(c))
    /\ Fine /\ Loaded /\ Stored /\ Sources

Import ==
    /\ disk < MaxImports
    /\ ReplaceWaits => \A c \in Callers : ~At(c, "publishing")
    /\ disk' = disk + 1
    /\ UNCHANGED <<chain, frame, seen, table, file, call, calls, faults>>

-----------------------------------------------------------------------------
(* DataManager: a load reads the CSVs, then publishes the frames with the   *)
(* modification time it finds then.                                         *)

AfterLoad(c) == IF call[c].healed THEN "rechecking" ELSE "choosing"

\* ensure_fresh
Check(c) ==
    /\ At(c, "checking")
    /\ Go(c, IF disk = seen THEN "choosing" ELSE "reading")
    /\ UNCHANGED calls /\ Fine /\ Loaded /\ Stored /\ Sources

Read(c) ==
    /\ At(c, "reading")
    /\ call' = [call EXCEPT ![c].pc = "publishing", ![c].read = disk]
    /\ UNCHANGED calls /\ Fine /\ Loaded /\ Stored /\ Sources

\* Mutant: the modification time is remembered although the CSV did not parse.
ReadFailsSeen(c) ==
    /\ At(c, "reading") /\ Fault
    /\ Go(c, AfterLoad(c))
    /\ seen' = disk
    /\ UNCHANGED <<calls, frame>> /\ Stored /\ Sources

\* a CSV that does not parse leaves its frame and its time as they were
ReadFails(c) ==
    /\ At(c, "reading") /\ Fault
    /\ Go(c, AfterLoad(c))
    /\ UNCHANGED calls /\ Loaded /\ Stored /\ Sources

Publish(c) ==
    /\ At(c, "publishing")
    /\ frame' = call[c].read /\ seen' = disk
    /\ call' = [call EXCEPT ![c].pc = AfterLoad(c), ![c].read = None]
    /\ UNCHANGED calls /\ Fine /\ Stored /\ Sources

-----------------------------------------------------------------------------
(* /get, the cron and /generate, up to the guards of _generate_routes.      *)

Wanted(c) ==
    IF call[c].cascade \/ c = Cron THEN Routes
    ELSE Unplanned(IF c = Grid THEN Routes ELSE Routes \cap {c})

\* a refresh is over: the nightly one with it, and a generation whose refresh
\* answers failure (carry_chain_missing); else the frames are reloaded and the
\* chain is looked at again
Return(c) ==
    IF c = Nightly \/ ~call[c].ok THEN End(c)
    ELSE call' = [call EXCEPT ![c].pc = "reading", ![c].cascade = FALSE, ![c].healed = TRUE]

Leave(c) == IF call[c].cascade THEN Return(c) ELSE End(c)

\* nothing to do, stale frames (assert_fresh), or on to the carry chain
Choose(c) ==
    /\ At(c, "choosing")
    /\ IF Wanted(c) = {} \/ frame = 0 THEN Leave(c)
       ELSE IF call[c].cascade THEN Go(c, "gap")
       ELSE call' = [call EXCEPT ![c].pc = "guarding", ![c].want = Wanted(c)]
    /\ UNCHANGED calls /\ Fine /\ Loaded /\ Stored /\ Sources

\* _ensure_carry_chain_present asks for a row of the date, of any route; a
\* cascade skips it (X-Skip-Carry-Chain-Heal)
Guard(c) ==
    /\ At(c, "guarding")
    /\ Go(c, IF chain THEN "gap" ELSE "refreshing")
    /\ UNCHANGED calls /\ Fine /\ Loaded /\ Stored /\ Sources

\* the forecast service merges, mirrors the table into the CSV and POSTs
\* /generate; a failed mirror does not stop it, but is answered as a failure
Refresh(c) ==
    /\ At(c, "refreshing")
    /\ \E ok \in BOOLEAN :
        /\ IF ok THEN chain' = TRUE /\ Fine ELSE UNCHANGED chain /\ Fault
        /\ call' = [call EXCEPT ![c].pc = "checking", ![c].cascade = TRUE, ![c].ok = ok]
    /\ UNCHANGED <<calls, disk>> /\ Loaded /\ Stored

\* the refresh succeeds on other days: its today is the UTC one, or its
\* forecasts have no row of the date
RefreshMisses(c) ==
    /\ At(c, "refreshing") /\ Fault
    /\ Return(c)
    /\ UNCHANGED calls /\ Loaded /\ Stored /\ Sources

\* the refresh is refused or not reached: carry_chain_missing
RefreshFails(c) ==
    /\ At(c, "refreshing") /\ Fault
    /\ End(c)
    /\ UNCHANGED calls /\ Loaded /\ Stored /\ Sources

\* the rows are there but /generate could not be called, a failure as well
CascadeLost(c) ==
    /\ At(c, "refreshing") /\ Fault
    /\ chain' = TRUE
    /\ End(c)
    /\ UNCHANGED <<calls, disk>> /\ Loaded /\ Stored

\* Mutant: a refresh that answered success is trusted.
RecheckTrusting(c) ==
    /\ At(c, "rechecking")
    /\ Go(c, "gap")
    /\ UNCHANGED calls /\ Fine /\ Loaded /\ Stored /\ Sources

Recheck(c) ==
    /\ At(c, "rechecking")
    /\ IF chain THEN Go(c, "gap") ELSE End(c)
    /\ UNCHANGED calls /\ Fine /\ Loaded /\ Stored /\ Sources

\* skip_existing, unless forced; the grid comes with its own gap list
ToGenerate(c) ==
    IF call[c].cascade THEN Routes ELSE IF c = Grid THEN call[c].want ELSE Unplanned(call[c].want)

Gap(c) ==
    /\ At(c, "gap")
    /\ call' = [call EXCEPT ![c].pc = "working",
                  ![c].work = [r \in Routes |-> IF r \in ToGenerate(c) THEN "due" ELSE "none"]]
    /\ UNCHANGED calls /\ Fine /\ Loaded /\ Stored /\ Sources

-----------------------------------------------------------------------------
(* _one, for all routes at once in a thread pool.                           *)

Working(c, r, stage) == At(c, "working") /\ call[c].work[r] = stage

\* the route is over for this call: saved, skipped or failed
Over(c, r) == call' = [call EXCEPT ![c].work[r] = "none", ![c].plan[r] = None]

\* the engine, which finds something to recommend on every route; frames
\* that do not reach the date have no load for the van.  get_van_items takes
\* the load from the van's own rows of the chain, or enriches the forecast
\* inline when it has none or their index does not parse: a plan either way
Make(c, r) ==
    /\ Working(c, r, "due")
    /\ IF frame = 0 THEN Over(c, r)
       ELSE call' = [call EXCEPT ![c].work[r] = "made",
                       ![c].plan[r] = [frame |-> frame, early |-> ~chain, cascade |-> call[c].cascade]]
    /\ UNCHANGED calls /\ Fine /\ Loaded /\ Stored /\ Sources

\* DELETE and INSERT in one transaction
Push(c, r) ==
    /\ Working(c, r, "made")
    /\ table' = [table EXCEPT ![r] = call[c].plan[r]]
    /\ call' = [call EXCEPT ![c].work[r] = "pushed"]
    /\ UNCHANGED <<calls, file>> /\ Fine /\ Loaded /\ Sources

Save(c, r) ==
    /\ Working(c, r, "pushed")
    /\ file' = [file EXCEPT ![r] = call[c].plan[r]]
    /\ Over(c, r)
    /\ UNCHANGED <<calls, table>> /\ Fine /\ Loaded /\ Sources

\* Mutant: the answer of a failed push is not looked at.
RouteFailsOn(c, r) ==
    /\ At(c, "working") /\ call[c].work[r] # "none" /\ Fault
    /\ IF call[c].work[r] = "made" THEN call' = [call EXCEPT ![c].work[r] = "pushed"] ELSE Over(c, r)
    /\ UNCHANGED calls /\ Loaded /\ Stored /\ Sources

\* the engine raises, the push gives up and is rolled back, or the CSV
\* cannot be written: the route is reported as an error and left
RouteFails(c, r) ==
    /\ At(c, "working") /\ call[c].work[r] # "none" /\ Fault
    /\ Over(c, r)
    /\ UNCHANGED calls /\ Loaded /\ Stored /\ Sources

Finish(c) ==
    /\ At(c, "working") /\ \A r \in Routes : call[c].work[r] = "none"
    /\ Leave(c)
    /\ UNCHANGED calls /\ Fine /\ Loaded /\ Stored /\ Sources

\* the service dies and loads the frames anew, or fails to.  The forecast
\* service goes on: the nightly cascade is posted once more, or given up
Restart ==
    /\ Fault
    /\ \E again \in BOOLEAN :
        call' = [c \in Callers |->
                    IF c # Nightly THEN Idle
                    ELSE IF call[c].cascade
                         THEN IF again THEN [Idle EXCEPT !.pc = "checking", !.cascade = TRUE] ELSE Idle
                    ELSE call[c]]
    /\ \/ frame' = disk /\ seen' = disk
       \/ frame' = 0 /\ seen' = None
    /\ UNCHANGED calls /\ Stored /\ Sources

-----------------------------------------------------------------------------
Route(c, r) == Make(c, r) \/ Push(c, r) \/ Save(c, r) \/ RouteFails(c, r)

Step(c) ==
    \/ Check(c) \/ Read(c) \/ ReadFails(c) \/ Publish(c)
    \/ Choose(c) \/ Guard(c) \/ Refresh(c) \/ RefreshMisses(c) \/ RefreshFails(c)
    \/ CascadeLost(c) \/ Recheck(c) \/ Gap(c) \/ Finish(c)
    \/ \E r \in Routes : Route(c, r)

Next == Import \/ Restart \/ \E c \in Callers : Start(c) \/ Step(c)

Spec == Init /\ [][Next]_vars

\* Every thread runs and every query and HTTP call returns or times out.
\* Nobody has to ask, and nothing has to be imported.
Fairness == \A c \in Callers : WF_vars(Step(c))

FairSpec == Spec /\ Fairness

-----------------------------------------------------------------------------
(* Properties.                                                              *)

\* The state has its shape: a load that is about to publish has read the
\* CSVs, and a route that is being pushed or saved has a plan.
OrdersTypeOK ==
    /\ disk \in Nat /\ chain \in BOOLEAN
    /\ frame \in Nat /\ seen \in Maybe(Nat)
    /\ table \in [Routes -> Maybe(Plan)] /\ file \in [Routes -> Maybe(Plan)]
    /\ call \in [Callers -> Calls]
    /\ \A c \in Callers : At(c, "publishing") => call[c].read \in Nat
    /\ \A c \in Callers, r \in Routes :
          call[c].work[r] \in {"made", "pushed"} => call[c].plan[r] \in Plan
    /\ calls \in Nat /\ faults \in Nat

\* No orphan CSV: whichever generation of a route fails, overlaps another or
\* dies, a plan a page can read is in yf_recommended_orders too ("The prior
\* order left orphan CSVs on transient DB failure", api/routes.py:521).
NoOrphanFile == \A r \in Routes : file[r] # None => table[r] # None

\* Nobody plans ahead of the carry chain: a plan made while the CSV had no row
\* of the date was asked for by a cascade, whose refresh could not mirror them;
\* a page, the grid and the cron wait, also behind a refresh that answered
\* success (_ensure_carry_chain_present).  It is not said that a van is loaded
\* from its own rows: the guard takes a row of any route.
PlannedAfterChain ==
    \A r \in Routes : \A plan \in {table[r], file[r]} :
        plan # None /\ plan.early => plan.cascade

\* The lazy path makes good for whatever failed before: when nothing fails any
\* more and the sources reach the date, a page that asks gets its route
\* planned ("Missing/failed cron is covered by the lazy POST /get path",
\* scheduler/jobs.py:4).
NextAskServes ==
    \A r \in Routes :
        (At(r, "checking") /\ ~call[r].cascade /\ disk > 0 /\ faults = MaxFaults) ~> file[r] # None
=============================================================================
