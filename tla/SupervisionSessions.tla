------------------------ MODULE SupervisionSessions ------------------------
(***************************************************************************)
(* One route on one day in the sales supervision service.  The invoices of *)
(* the day (sales) and the plan of the day (plan) belong to other services *)
(* and change at any time.  Two reconcilers, the scheduled tick and the    *)
(* background task that a page open starts, mirror the invoices into the   *)
(* supervision tables (header, rows); the page itself holds a session of   *)
(* its own (web) and writes visits (posts).  A session is a mutable object *)
(* that several of them may share, so sessions live in a heap.             *)
(*                                                                         *)
(* A customer buys one item.  Of a customer a session and a row keep what  *)
(* was recommended, what was sold and the place in the order of visits     *)
(* (0 is not visited); Absent is a customer who is not there.              *)
(***************************************************************************)
EXTENDS Naturals, FiniteSets, FiniteSetsExt

CONSTANTS
    Customers,
    Qty,        \* what a customer may buy or be recommended, besides nothing
    MaxEvents,  \* bound: sales, plans, page opens, visits, restarts and losses
    Losses      \* which of "load", "recs", "write", "feed", "repair" may fail

ASSUME CustomersAssumption == IsFiniteSet(Customers)
ASSUME QtyAssumption == Qty \subseteq Nat \ {0}
ASSUME EventsAssumption == MaxEvents \in Nat

VARIABLES
    sales,      \* YaumiLive: what each customer has been invoiced so far
    plan,       \* yf_recommended_orders: what each customer is recommended
    planCache,  \* RecommendedOrderClient._cache: a plan fetched earlier, or NoPlan
    heap,       \* the session objects
    entry,      \* AutoVisitService._sessions: the cached object and its header signature
    worker,     \* the reconcilers
    web,        \* the object in _SessionRegistry, or None
    posts,      \* background upserts of /visit that have not run yet
    header,     \* the route row, or None
    rows,       \* the customer rows with their items
    repair,     \* "idle", "due" (the plan's cascade has yet to call) or "scheduled"
    events      \* how many of the bounded events have happened

vars == <<sales, plan, planCache, heap, entry, worker, web, posts, header, rows, repair, events>>
feeds  == <<sales, plan>>
tables == <<header, rows>>

None    == [none |-> TRUE]
NoPlan  == [c \in Customers |-> 0]    \* an empty answer is never cached
Absent  == [rec |-> 0, act |-> 0, seq |-> 0]
Nobody  == [c \in Customers |-> Absent]
Amounts == Qty \cup {0}
Objects == 1 .. 4                     \* one for the entry, one for the page, one per reconciler
NoEntry == [obj |-> 0, sig |-> None]
Idle    == [phase |-> "idle", obj |-> 0, found |-> Nobody, feed |-> NoPlan, out |-> {}]

Present(s) == {c \in Customers : s[c] # Absent}
(* A drop-in bought only off the plan; one who has no item counts as planned. *)
DropIns(s) == {c \in Customers : s[c].rec = 0 /\ s[c].act > 0}
Visited(s) == {c \in Customers : s[c].seq > 0}
VisitCounter(s) == Max({s[c].seq : c \in Customers})

Totals(s, planned) ==
    LET rec(c) == s[c].rec
        act(c) == s[c].act
        seen   == planned \cap Visited(s)
    IN  [planned |-> Cardinality(planned), visited |-> Cardinality(seen),
         plannedRec |-> MapThenSumSet(rec, Customers), visitedRec |-> MapThenSumSet(rec, seen),
         visitedAct |-> MapThenSumSet(act, seen)]

(* What the route header is written from, and its signature. *)
HeaderOf(s) == Totals(s, Present(s) \ DropIns(s))

(* Mutant: the plan's row replaces that of a customer without recommendation. *)
MergeReplacing(s, recs) ==
    [c \in Customers |-> IF s[c].rec = 0 THEN [Absent EXCEPT !.rec = recs[c]] ELSE s[c]]

(* New customers and items come from the plan, zero recommendations heal. *)
Merge(s, recs) ==
    [c \in Customers |-> IF s[c].rec = 0 THEN [s[c] EXCEPT !.rec = recs[c]] ELSE s[c]]

(* The invoiced quantity; the first visit takes the next place. *)
Apply(s, c, qty) ==
    [s EXCEPT ![c].act = qty, ![c].seq = IF @ > 0 THEN @ ELSE VisitCounter(s) + 1]

(* The persisted planned visits put on a fresh session, numbered anew. *)
Hydrate(s, saved) ==
    LET known == {c \in Visited(saved) : saved[c].rec > 0 /\ s[c] # Absent}
        place(c) == Cardinality({d \in known : saved[d].seq <= saved[c].seq})
    IN  [c \in Customers |->
            IF c \in known THEN [s[c] EXCEPT !.act = saved[c].act, !.seq = place(c)] ELSE s[c]]

Reachable == {entry.obj, web} \cup {worker[w].obj : w \in DOMAIN worker}
FreeObject == Min(Objects \ Reachable)
(* The heap after a step: object o becomes s, what nobody holds is gone. *)
Put(o, s) ==
    heap' = [x \in Objects |-> IF x \notin Reachable' THEN Nobody ELSE IF x = o THEN s ELSE heap[x]]
Collect == Put(0, Nobody)

Event == events < MaxEvents /\ events' = events + 1
Quiet == UNCHANGED events
(* A call that may fail costs an event when it does. *)
Outcome(call, ok) == IF ok THEN Quiet ELSE call \in Losses /\ Event

Init ==
    /\ sales \in [Customers -> Amounts]
    /\ plan \in [Customers -> Amounts]
    /\ planCache = NoPlan
    /\ heap = [o \in Objects |-> Nobody]
    /\ entry = NoEntry
    /\ worker = [w \in {"tick", "page"} |-> Idle]
    /\ web = 0
    /\ posts = {}
    /\ header = None
    /\ rows = Nobody
    /\ repair = "idle"
    /\ events = 0
-----------------------------------------------------------------------------
(* The other services. *)

(* An invoice, a return or a void changes what a customer has bought. *)
Sell(c, qty) ==
    /\ qty # sales[c]
    /\ Event
    /\ sales' = [sales EXCEPT ![c] = qty]
    /\ UNCHANGED <<plan, planCache, heap, entry, worker, web, posts, tables, repair>>

(* A plan with somebody on it lands; its cascade will call invalidate-day. *)
PlanLands(p) ==
    /\ p \notin {NoPlan, plan}
    /\ Event
    /\ plan' = p
    /\ repair' = "due"
    /\ UNCHANGED <<sales, planCache, heap, entry, worker, web, posts, tables>>

-----------------------------------------------------------------------------
(* POST /internal/invalidate-day: the cached session goes, a repair is scheduled. *)
InvalidateDay ==
    /\ repair = "due"
    /\ entry' = NoEntry
    /\ repair' = "scheduled"
    /\ Quiet
    /\ UNCHANGED <<feeds, planCache, worker, web, posts, tables>>
    /\ Collect

(* One transaction; its header counts every customer row as planned. *)
Repair(ok) ==
    /\ repair = "scheduled"
    /\ repair' = "idle"
    /\ Outcome("repair", ok)
    /\ IF ok /\ header # None
       THEN /\ rows' = Merge(rows, plan)
            /\ header' = Totals(rows', Present(rows'))
       ELSE UNCHANGED tables
    /\ UNCHANGED <<feeds, planCache, heap, entry, worker, web, posts>>
-----------------------------------------------------------------------------
(* The page. *)

(* POST /session/initialize: the reconciler's session is dropped, a reconcile *)
(* is queued, and the page gets a session of its own.                         *)
PageOpen(recs) ==
    /\ recs \in {plan, planCache}
    /\ worker["page"].phase = "idle"
    /\ Event
    /\ entry' = NoEntry
    /\ worker' = [worker EXCEPT !["page"].phase = "queued"]
    /\ web' = FreeObject
    /\ UNCHANGED <<feeds, planCache, posts, tables, repair>>
    /\ Put(web', Hydrate(Merge(Nobody, recs), rows))

(* POST /session/visit: 404 unless the customer is in the page's session; the *)
(* upsert of the snapshot follows in the background.                          *)
Visit(c, qty) ==
    /\ web # 0
    /\ heap[web][c] # Absent
    /\ qty \in {sales[c], 0}          \* a live service that does not answer sold nothing
    /\ Event
    /\ UNCHANGED <<feeds, planCache, entry, worker, web, tables, repair>>
    /\ Put(web, Apply(heap[web], c, qty))
    /\ posts' = posts \cup {[cust |-> c, snap |-> heap'[web]]}

(* The registry drops a page session it has kept too long. *)
WebExpires ==
    /\ web # 0
    /\ web' = 0
    /\ Event
    /\ UNCHANGED <<feeds, planCache, entry, worker, posts, tables, repair>>
    /\ Collect

(* Mutant: the header is left to Phase 0. *)
UpsertRow(post, ok) ==
    /\ Outcome("write", ok)
    /\ IF ok
       THEN rows' = [rows EXCEPT ![post.cust] = post.snap[post.cust]] /\ UNCHANGED header
       ELSE UNCHANGED tables

(* upsert_visit: the header and the customer of the snapshot, in one transaction. *)
Upsert(post, ok) ==
    /\ Outcome("write", ok)
    /\ IF ok
       THEN /\ header' = HeaderOf(post.snap)
            /\ rows' = [rows EXCEPT ![post.cust] = post.snap[post.cust]]
       ELSE UNCHANGED tables

PostVisit(post, ok) ==
    /\ post \in posts
    /\ posts' = posts \ {post}
    /\ Upsert(post, ok)
    /\ UNCHANGED <<feeds, planCache, heap, entry, worker, web, repair>>
-----------------------------------------------------------------------------
(* reconcile_route, run by worker w. *)

(* A tick begins whenever the last one is over, a page's run when it is queued. *)
Ready(w) == worker[w].phase = IF w = "tick" THEN "idle" ELSE "queued"

ResolveCached(w) ==
    /\ Ready(w)
    /\ entry # NoEntry
    /\ worker' = [worker EXCEPT ![w].phase = "header", ![w].obj = entry.obj]
    /\ Quiet
    /\ UNCHANGED <<feeds, planCache, heap, entry, web, posts, tables, repair>>

(* load_session: no header row and a failed load look the same. *)
ResolveLoad(w, ok) ==
    /\ Ready(w)
    /\ entry = NoEntry
    /\ Outcome("load", ok)
    /\ worker' = [worker EXCEPT ![w].phase = IF ok /\ header # None THEN "rebuild" ELSE "create",
                                ![w].found = IF ok THEN rows ELSE Nobody]
    /\ UNCHANGED <<feeds, planCache, heap, entry, web, posts, tables, repair>>

(* The plan, or the one cached as long as it lives, merged into the stored   *)
(* session or, when nothing was loaded, made into a new one, which needs it. *)
ResolveBuild(w, recs, ok) ==
    LET obj == FreeObject
    IN  /\ worker[w].phase \in {"rebuild", "create"}
        /\ recs \in IF ok THEN {plan, planCache} \ ({NoPlan} \ {plan}) ELSE {NoPlan}
        /\ Outcome("recs", ok)
        /\ planCache' = IF recs = NoPlan THEN planCache ELSE recs
        /\ UNCHANGED <<feeds, web, posts, tables, repair>>
        /\ IF worker[w].phase = "create" /\ recs = NoPlan
           THEN /\ worker' = [worker EXCEPT ![w] = Idle]
                /\ UNCHANGED <<heap, entry>>
           ELSE /\ worker' = [worker EXCEPT ![w] = [Idle EXCEPT !.phase = "header", !.obj = obj]]
                /\ entry' = [obj |-> obj, sig |-> None]
                /\ Put(obj, Merge(worker[w].found, recs))

(* Phase 0: a header whose signature is the cached one is not written. *)
HeaderSkip(w) ==
    /\ worker[w].phase = "header"
    /\ entry.sig = HeaderOf(heap[worker[w].obj])
    /\ worker' = [worker EXCEPT ![w].phase = "fetch"]
    /\ Quiet
    /\ UNCHANGED <<feeds, planCache, heap, entry, web, posts, tables, repair>>

HeaderWrite(w, ok) ==
    LET head == HeaderOf(heap[worker[w].obj])
    IN  /\ worker[w].phase = "header"
        /\ entry.sig # head
        /\ Outcome("write", ok)
        /\ header' = IF ok THEN head ELSE header
        /\ worker' = [worker EXCEPT ![w].phase = "stamp", ![w].out = {head}]
        /\ UNCHANGED <<feeds, planCache, heap, entry, web, posts, rows, repair>>

(* Whatever the write did, and whichever session the cache holds by now. *)
HeaderStamp(w) ==
    /\ worker[w].phase = "stamp"
    /\ entry' = IF entry = NoEntry THEN entry
                ELSE [entry EXCEPT !.sig = CHOOSE h \in worker[w].out : TRUE]
    /\ worker' = [worker EXCEPT ![w].phase = "fetch", ![w].out = {}]
    /\ Quiet
    /\ UNCHANGED <<feeds, planCache, heap, web, posts, tables, repair>>

(* Mutants: customers off the session are skipped;                           *)
(* customers whose quantity the session already has are skipped.             *)
FetchWhere(w, ok, Keep(_)) ==
    LET feed == [c \in Customers |-> IF ok /\ Keep(c) THEN sales[c] ELSE 0]
    IN  /\ worker[w].phase = "fetch"
        /\ Outcome("feed", ok)
        /\ worker' = [worker EXCEPT ![w] = IF feed = NoPlan \/ entry = NoEntry THEN Idle
                                           ELSE [@ EXCEPT !.phase = "sync", !.feed = feed]]
        /\ UNCHANGED <<feeds, planCache, entry, web, posts, tables, repair>>
        /\ Collect
FetchKnown(w, ok) ==
    LET known(c) == heap[worker[w].obj][c] # Absent IN FetchWhere(w, ok, known)
FetchChanged(w, ok) ==
    LET changed(c) == heap[worker[w].obj][c].act # sales[c] IN FetchWhere(w, ok, changed)

(* Phase 1: the customers invoiced so far.  Nobody, or no cached session any *)
(* more (a KeyError), ends the run.                                          *)
Fetch(w, ok) ==
    LET feed == IF ok THEN sales ELSE NoPlan
    IN  /\ worker[w].phase = "fetch"
        /\ Outcome("feed", ok)
        /\ worker' = [worker EXCEPT ![w] = IF feed = NoPlan \/ entry = NoEntry THEN Idle
                                           ELSE [@ EXCEPT !.phase = "sync", !.feed = feed]]
        /\ UNCHANGED <<feeds, planCache, entry, web, posts, tables, repair>>
        /\ Collect

(* Under the entry's lock a pool thread changes the session and snapshots it. *)
SyncCustomer(w, c) ==
    LET s == Apply(heap[worker[w].obj], c, worker[w].feed[c])
    IN  /\ worker[w].phase = "sync"
        /\ worker[w].feed[c] > 0
        /\ worker' = [worker EXCEPT ![w].feed[c] = 0,
                                    ![w].out = @ \cup {[cust |-> c, snap |-> s]}]
        /\ Quiet
        /\ UNCHANGED <<feeds, planCache, entry, web, posts, tables, repair>>
        /\ Put(worker[w].obj, s)

(* The upserts run outside the lock, in any order; the last one ends the run. *)
SyncUpsert(w, post, ok) ==
    LET out == worker[w].out \ {post}
    IN  /\ worker[w].phase = "sync"
        /\ post \in worker[w].out
        /\ worker' = [worker EXCEPT ![w] = IF out = {} /\ @.feed = NoPlan THEN Idle
                                           ELSE [@ EXCEPT !.out = out]]
        /\ Upsert(post, ok)
        /\ UNCHANGED <<feeds, planCache, entry, web, posts, repair>>
        /\ Collect

(* The process restarts: everything but the tables is gone. *)
Restart ==
    /\ Event
    /\ planCache' = NoPlan
    /\ heap' = [o \in Objects |-> Nobody]
    /\ entry' = NoEntry
    /\ worker' = [w \in DOMAIN worker |-> Idle]
    /\ web' = 0
    /\ posts' = {}
    /\ repair' = IF repair = "scheduled" THEN "idle" ELSE repair
    /\ UNCHANGED <<feeds, tables>>
-----------------------------------------------------------------------------
Reconcile(w) ==
    \/ ResolveCached(w)
    \/ \E ok \in BOOLEAN : ResolveLoad(w, ok)
    \/ \E recs \in {plan, planCache, NoPlan}, ok \in BOOLEAN : ResolveBuild(w, recs, ok)
    \/ HeaderSkip(w)
    \/ \E ok \in BOOLEAN : HeaderWrite(w, ok)
    \/ HeaderStamp(w)
    \/ \E ok \in BOOLEAN : Fetch(w, ok)
    \/ \E c \in Customers : SyncCustomer(w, c)
    \/ \E post \in worker[w].out, ok \in BOOLEAN : SyncUpsert(w, post, ok)

PostVisits == \E post \in posts, ok \in BOOLEAN : PostVisit(post, ok)
RunRepair  == \E ok \in BOOLEAN : Repair(ok)

Next ==
    \/ \E c \in Customers, qty \in Amounts : Sell(c, qty)
    \/ \E p \in [Customers -> Amounts] : PlanLands(p)
    \/ InvalidateDay
    \/ RunRepair
    \/ \E recs \in [Customers -> Amounts] : PageOpen(recs)
    \/ \E c \in Customers, qty \in Amounts : Visit(c, qty)
    \/ WebExpires
    \/ PostVisits
    \/ \E w \in DOMAIN worker : Reconcile(w)
    \/ Restart

Spec == Init /\ [][Next]_vars

(* The scheduler keeps ticking, its threads and the background tasks run.   *)
Fairness ==
    /\ \A w \in {"tick", "page"} : WF_vars(Reconcile(w))
    /\ WF_vars(PostVisits)
    /\ WF_vars(InvalidateDay)
    /\ WF_vars(RunRepair)

FairSpec == Spec /\ Fairness
-----------------------------------------------------------------------------
(* The states of the program: two reconcilers that share a session, the     *)
(* tables they write, and the objects the references point to.              *)
SupervisionTypeOK ==
    LET Sessions == [Customers -> [rec : Amounts, act : Amounts, seq : Nat]]
    IN  /\ {sales, plan, planCache} \subseteq [Customers -> Amounts]
        /\ heap \in [Objects -> Sessions]
        /\ rows \in Sessions
        /\ entry.obj \in {0} \cup Objects
        /\ web \in {0} \cup Objects
        /\ \A w \in DOMAIN worker : /\ worker[w].obj \in {0} \cup Objects
                                    /\ worker[w].found \in Sessions
                                    /\ worker[w].feed \in [Customers -> Amounts]
        /\ \A post \in posts : post.cust \in Customers /\ post.snap \in Sessions
        /\ header = None => rows = Nobody
        /\ repair \in {"idle", "due", "scheduled"}
        /\ events \in 0 .. MaxEvents

(* A visit that reached the tables is never undone: no upsert of a stale     *)
(* snapshot, no repair and no session rebuilt after a crash or a failed load *)
(* turns a visited customer back into an unvisited one (auto_visit_service,  *)
(* db_saver.upsert_visit, repair_supervision_day).                           *)
VisitsNeverLost == [][Visited(rows) \subseteq Visited(rows')]_vars

Scoped == \E c \in Customers : plan[c] > 0   \* a route without a plan has no session

(* Whatever was lost, raced or restarted on the way, a quantity that stays   *)
(* invoiced is in the tables in the end and stays there: the upserts are     *)
(* idempotent and every tick repeats them (reconcile_route).                 *)
VisitsConverge ==
    <>[](Scoped => \A c \in Customers : sales[c] > 0 => rows[c].act = sales[c] /\ rows[c].seq > 0)

(* With somebody invoiced, the route header ends as the totals of the cached *)
(* session: an upsert of an older snapshot is overwritten by a later tick.   *)
HeaderConverges ==
    <>[](entry # NoEntry /\ sales # NoPlan => header = HeaderOf(heap[entry.obj]))
=============================================================================
