--------------------- MODULE SupervisionSessionsProofs ---------------------
(***************************************************************************)
(* Theorems of SupervisionSessions, for every set of customers and amounts *)
(* and any number of events.  The invariant follows the two kinds of       *)
(* copies a visit travels in, the session objects of the heap and the      *)
(* snapshots on their way to the tables: whatever is under way to a row    *)
(* has its customer visited.                                               *)
(***************************************************************************)
EXTENDS SupervisionSessions, TLAPS, FiniteSetTheorems, WellFoundedInduction

Reconcilers == {"tick", "page"}
Phases == {"idle", "queued", "rebuild", "create", "header", "stamp", "fetch", "sync"}
Plans == [Customers -> Amounts]
Sessions == [Customers -> [rec : Amounts, act : Amounts, seq : Nat]]

(* What a reconciler has in hand: the header it has written, or snapshots. *)
Heads == {HeaderOf(s) : s \in Sessions}
Snapshots == {post \in [cust : Customers, snap : Sessions] : post.snap[post.cust].seq > 0}

RunRecords == [phase : Phases, obj : {0} \cup Objects, found : Sessions, feed : Plans,
               out : SUBSET (Heads \cup Snapshots)]
Entries == [obj : Objects, sig : Heads \cup {None}] \cup {NoEntry}

(* A reconciler has a session from the time it has resolved one.           *)
RunPlaced(r) ==
    /\ r.obj # 0 <=> r.phase \in {"header", "stamp", "fetch", "sync"}
    /\ r.phase = "stamp" => r.out # {} /\ r.out \subseteq Heads
    /\ r.phase = "sync" => r.out \subseteq Snapshots
    /\ r.phase \notin {"stamp", "sync"} => r.out = {}

FeedsOK == {sales, plan, planCache} \subseteq Plans
MemoryOK == heap \in [Objects -> Sessions] /\ entry \in Entries /\ web \in {0} \cup Objects
RunsOK == worker \in [Reconcilers -> RunRecords] /\ \A w \in Reconcilers : RunPlaced(worker[w])
TablesOK == rows \in Sessions /\ (header = None => rows = Nobody)

SessionsSafe ==
    /\ FeedsOK /\ MemoryOK /\ RunsOK /\ TablesOK
    /\ posts \subseteq Snapshots
    /\ repair \in {"idle", "due", "scheduled"}
    /\ events \in 0 .. MaxEvents
-----------------------------------------------------------------------------
(* Sets of numbers have a least element.                                   *)
LEMMA LeastExists ==
  ASSUME NEW S, S \subseteq Nat, S # {}
  PROVE  \E m \in S : \A x \in S : m <= x
  <1>1. PICK m \in S : \A x \in S : <<x, m>> \notin OpToRel(<, Nat)
    BY NatLessThanWellFounded, WFMin
  <1>2. ASSUME NEW x \in S PROVE m <= x
    <2>1. m \in Nat /\ x \in Nat
      OBVIOUS
    <2>2. ~(x < m)
      BY <1>1, <2>1 DEF OpToRel
    <2> QED
      BY <2>1, <2>2
  <1> QED
    BY <1>2

(* Finite sets of numbers have a largest element: of the subsets without   *)
(* one, take a smallest.                                                   *)
LEMMA LargestExists ==
  ASSUME NEW S, S \subseteq Nat, S # {}, IsFiniteSet(S)
  PROVE  \E m \in S : \A x \in S : m >= x
  <1> DEFINE HasLargest(T) == \E m \in T : \A x \in T : m >= x
             Sizes == {k \in Nat : \E T \in SUBSET S : T # {} /\ ~HasLargest(T) /\ Cardinality(T) = k}
  <1> SUFFICES ASSUME ~HasLargest(S) PROVE FALSE
    OBVIOUS
  <1>1. \A T \in SUBSET S : IsFiniteSet(T) /\ Cardinality(T) \in Nat
    BY FS_Subset, FS_CardinalityType
  <1>2. Sizes # {} /\ Sizes \subseteq Nat
    BY <1>1
  <1>3. PICK k \in Sizes : \A j \in Sizes : k <= j
    BY <1>2, LeastExists
  <1>4. PICK T \in SUBSET S : T # {} /\ ~HasLargest(T) /\ Cardinality(T) = k
    BY <1>3
  <1>5. PICK x \in T : TRUE
    BY <1>4
  <1> DEFINE R == T \ {x}
  <1>6. R \in SUBSET S /\ Cardinality(R) = k - 1 /\ Cardinality(R) \in Nat
    BY <1>1, <1>4, <1>5, FS_RemoveElement
  <1>7. R = {} \/ HasLargest(R)
    <2>1. Cardinality(R) \notin Sizes
      <3> HIDE DEF Sizes, R
      <3>1. k \in Nat /\ ~(k <= k - 1)
        BY <1>2
      <3> QED
        BY <1>3, <1>6, <3>1
    <2> QED
      BY <1>6, <2>1
  <1>8. R # {}
    <2>1. R = {} => T = {x}
      BY <1>5
    <2> QED
      BY <1>4, <1>5, <2>1
  <1>9. PICK m \in R : \A y \in R : m >= y
    BY <1>7, <1>8
  <1>10. T = R \cup {x} /\ m \in Nat /\ x \in Nat /\ R \subseteq Nat
    BY <1>4, <1>5, <1>6, <1>9
  <1>11. HasLargest(T)
    <2>1. CASE m >= x
      BY <1>9, <1>10, <2>1
    <2>2. CASE ~(m >= x)
      <3>1. \A y \in T : x >= y
        BY <1>9, <1>10, <2>2
      <3> QED
        BY <1>5, <3>1
    <2> QED
      BY <2>1, <2>2
  <1> QED
    BY <1>4, <1>11

(* The counter of visits is a number in every session with a customer.     *)
LEMMA VisitCounterType ==
  ASSUME NEW s \in Sessions, NEW c \in Customers
  PROVE  VisitCounter(s) \in Nat
  <1> DEFINE Places == {s[d].seq : d \in Customers}
  <1>1. Places \subseteq Nat /\ Places # {}
    BY DEF Sessions
  <1>2. IsFiniteSet(Places)
    <2>1. [d \in Customers |-> s[d].seq] \in Surjection(Customers, Places)
      BY DEF Surjection
    <2> QED
      BY <2>1, CustomersAssumption, FS_Surjection
  <1>3. \E m \in Places : \A x \in Places : m >= x
    BY <1>1, <1>2, LargestExists
  <1>4. Max(Places) \in Places
    BY <1>3 DEF Max
  <1> QED
    BY <1>1, <1>4 DEF VisitCounter

LEMMA AmountsType == 0 \in Amounts /\ Amounts \subseteq Nat
  BY QtyAssumption DEF Amounts

LEMMA NobodyType == Absent \in [rec : Amounts, act : Amounts, seq : Nat] /\ Nobody \in Sessions
                    /\ NoPlan \in Plans
  BY AmountsType DEF Nobody, Absent, Sessions, NoPlan, Plans

(* A visit leaves the customer visited and the other customers alone.      *)
LEMMA ApplyType ==
  ASSUME NEW s \in Sessions, NEW c \in Customers, NEW qty \in Amounts
  PROVE  /\ Apply(s, c, qty) \in Sessions /\ Apply(s, c, qty)[c].seq > 0
         /\ \A d \in Customers \ {c} : Apply(s, c, qty)[d] = s[d]
  <1> DEFINE place == IF s[c].seq > 0 THEN s[c].seq ELSE VisitCounter(s) + 1
             visited == [[s[c] EXCEPT !.act = qty] EXCEPT !.seq = place]
  <1>1. place \in Nat /\ place > 0
    BY VisitCounterType DEF Sessions
  <1>2. Apply(s, c, qty) = [s EXCEPT ![c] = visited]
    BY DEF Apply, Sessions
  <1> HIDE DEF place
  <1>3. visited \in [rec : Amounts, act : Amounts, seq : Nat] /\ visited.seq > 0
    BY <1>1 DEF Sessions
  <1> HIDE DEF visited
  <1> QED
    BY <1>2, <1>3 DEF Sessions

(* The plan is merged in without a trace on the visits.                    *)
LEMMA MergeType ==
  ASSUME NEW s \in Sessions, NEW recs \in Plans
  PROVE  Merge(s, recs) \in Sessions /\ \A c \in Customers : Merge(s, recs)[c].seq = s[c].seq
  <1>1. ASSUME NEW c \in Customers
        PROVE  /\ [s[c] EXCEPT !.rec = recs[c]] \in [rec : Amounts, act : Amounts, seq : Nat]
               /\ [s[c] EXCEPT !.rec = recs[c]].seq = s[c].seq
    BY DEF Sessions, Plans
  <1> QED
    BY <1>1 DEF Merge, Sessions

LEMMA HydrateType ==
  ASSUME NEW s \in Sessions, NEW saved \in Sessions
  PROVE  Hydrate(s, saved) \in Sessions
  <1> DEFINE known == {c \in Visited(saved) : saved[c].rec > 0 /\ s[c] # Absent}
             place(c) == Cardinality({d \in known : saved[d].seq <= saved[c].seq})
             put(c) == [s[c] EXCEPT !.act = saved[c].act, !.seq = place(c)]
  <1>1. ASSUME NEW c \in Customers PROVE place(c) \in Nat
    <2>1. {d \in known : saved[d].seq <= saved[c].seq} \in SUBSET Customers
      BY DEF Visited
    <2> QED
      BY <2>1, CustomersAssumption, FS_Subset, FS_CardinalityType
  <1> HIDE DEF place
  <1>2. ASSUME NEW c \in Customers PROVE put(c) \in [rec : Amounts, act : Amounts, seq : Nat]
    BY <1>1 DEF Sessions
  <1>3. Hydrate(s, saved) = [c \in Customers |-> IF c \in known THEN put(c) ELSE s[c]]
    BY DEF Hydrate, place
  <1> HIDE DEF put, known
  <1> QED
    BY <1>2, <1>3 DEF Sessions

(* A header that is written is not the missing one.                        *)
LEMMA TotalsPresent ==
  ASSUME NEW s, NEW planned
  PROVE  Totals(s, planned) # None
  <1> DEFINE t == Totals(s, planned)
  <1>1. DOMAIN t = {"planned", "visited", "plannedRec", "visitedRec", "visitedAct"}
    BY DEF Totals
  <1>2. DOMAIN None = {"none"}
    BY DEF None
  <1> QED
    BY <1>1, <1>2

LEMMA HeadsPresent == None \notin Heads
  BY TotalsPresent DEF Heads, HeaderOf

(* Of four objects three references leave one free.                        *)
LEMMA FreeObjectType ==
  ASSUME RunsOK, NEW w \in Reconcilers, worker[w].obj = 0
  PROVE  FreeObject \in Objects
  <1>1. DOMAIN worker = Reconcilers
    BY DEF RunsOK
  <1>2. PICK x : Reachable \subseteq {entry.obj, web, x, 0}
    BY <1>1 DEF Reachable, Reconcilers
  <1>3. PICK o \in Objects : o \notin {entry.obj, web, x, 0}
    BY DEF Objects
  <1> DEFINE Free == Objects \ Reachable
  <1>4. Free \subseteq Nat /\ Free # {}
    BY <1>2, <1>3 DEF Objects
  <1>5. \E m \in Free : \A y \in Free : m <= y
    BY <1>4, LeastExists
  <1>6. Min(Free) \in Free
    BY <1>5 DEF Min
  <1> QED
    BY <1>6 DEF FreeObject

(* The heap stays one of sessions; the object that is put holds what was   *)
(* put, when somebody refers to it.                                        *)
LEMMA PutType ==
  ASSUME heap \in [Objects -> Sessions], NEW o, NEW s \in Sessions, Put(o, s)
  PROVE  heap' \in [Objects -> Sessions] /\ (o \in Objects \cap Reachable' => heap'[o] = s)
  BY NobodyType DEF Put
-----------------------------------------------------------------------------
(* Bounded events, the records of the reconcilers, the tables.             *)
LEMMA EventsType ==
  ASSUME events \in 0 .. MaxEvents,
         Quiet \/ Event \/ \E call, ok : Outcome(call, ok)
  PROVE  events' \in 0 .. MaxEvents
  BY EventsAssumption DEF Quiet, Event, Outcome

LEMMA WorkerMoves ==
  ASSUME RunsOK, NEW w \in Reconcilers, NEW r \in RunRecords, RunPlaced(r),
         worker' = [worker EXCEPT ![w] = r]
  PROVE  RunsOK'
  BY DEF RunsOK

LEMMA WorkerType ==
  ASSUME RunsOK, NEW w \in Reconcilers
  PROVE  /\ worker[w] \in RunRecords /\ RunPlaced(worker[w])
         /\ worker[w].phase \in Phases /\ worker[w].obj \in {0} \cup Objects
         /\ worker[w].found \in Sessions /\ worker[w].feed \in Plans
         /\ worker[w].out \in SUBSET (Heads \cup Snapshots)
  BY DEF RunsOK, RunRecords

LEMMA IdleType == Idle \in RunRecords /\ RunPlaced(Idle) /\ Idle.phase = "idle" /\ Idle.out = {}
  BY NobodyType DEF Idle, RunRecords, Phases, RunPlaced

(* A snapshot that is written has its customer visited, and only its row   *)
(* changes.                                                                *)
LEMMA UpsertKeeps ==
  ASSUME TablesOK, NEW post \in Snapshots, NEW ok, Upsert(post, ok)
  PROVE  TablesOK' /\ Visited(rows) \subseteq Visited(rows')
  <1>1. /\ post.cust \in Customers /\ post.snap \in Sessions
        /\ post.snap[post.cust] \in [rec : Amounts, act : Amounts, seq : Nat]
        /\ post.snap[post.cust].seq > 0
    BY DEF Snapshots, Sessions
  <1>2. CASE ok
    <2>1. header' = HeaderOf(post.snap) /\ rows' = [rows EXCEPT ![post.cust] = post.snap[post.cust]]
      BY <1>2 DEF Upsert
    <2>2. header' # None
      BY <2>1, TotalsPresent DEF HeaderOf
    <2> QED
      BY <1>1, <2>1, <2>2 DEF TablesOK, Sessions, Visited
  <1>3. CASE ~ok
    BY <1>3 DEF Upsert, TablesOK, tables
  <1> QED
    BY <1>2, <1>3
-----------------------------------------------------------------------------
(* Nothing happens to the tables but upserts, headers and repairs.         *)
LEMMA InitSafe == Init => SessionsSafe
  <1> SUFFICES ASSUME Init PROVE SessionsSafe
    OBVIOUS
  <1>1. RunsOK
    BY IdleType DEF Init, RunsOK, Reconcilers
  <1>2. FeedsOK
    BY NobodyType DEF Init, FeedsOK, Plans
  <1>3. MemoryOK /\ TablesOK
    BY NobodyType DEF Init, MemoryOK, TablesOK, Entries
  <1> QED
    BY <1>1, <1>2, <1>3, EventsAssumption DEF Init, SessionsSafe

LEMMA SellSafe ==
  ASSUME SessionsSafe, NEW c \in Customers, NEW qty \in Amounts, Sell(c, qty)
  PROVE  SessionsSafe'
  <1>1. FeedsOK'
    BY DEF Sell, SessionsSafe, FeedsOK, Plans
  <1>2. MemoryOK' /\ RunsOK' /\ TablesOK'
    BY DEF Sell, tables, SessionsSafe, MemoryOK, RunsOK, TablesOK
  <1> QED
    BY <1>1, <1>2, EventsType DEF Sell, SessionsSafe

LEMMA PlanLandsSafe ==
  ASSUME SessionsSafe, NEW p \in Plans, PlanLands(p)
  PROVE  SessionsSafe'
  <1>1. FeedsOK'
    BY DEF PlanLands, SessionsSafe, FeedsOK
  <1>2. MemoryOK' /\ RunsOK' /\ TablesOK'
    BY DEF PlanLands, tables, SessionsSafe, MemoryOK, RunsOK, TablesOK
  <1> QED
    BY <1>1, <1>2, EventsType DEF PlanLands, SessionsSafe

(* A step that only lets go of objects.                                    *)
LEMMA CollectSafe ==
  ASSUME MemoryOK, Collect, entry' \in Entries, web' \in {0} \cup Objects
  PROVE  MemoryOK'
  BY PutType, NobodyType DEF MemoryOK, Collect

LEMMA InvalidateDaySafe ==
  ASSUME SessionsSafe, InvalidateDay
  PROVE  SessionsSafe'
  <1>1. MemoryOK'
    BY CollectSafe DEF InvalidateDay, SessionsSafe, MemoryOK, Entries
  <1>2. FeedsOK' /\ RunsOK' /\ TablesOK'
    BY DEF InvalidateDay, feeds, tables, SessionsSafe, FeedsOK, RunsOK, TablesOK
  <1> QED
    BY <1>1, <1>2, EventsType DEF InvalidateDay, SessionsSafe

LEMMA RepairSafe ==
  ASSUME SessionsSafe, NEW ok, Repair(ok)
  PROVE  SessionsSafe' /\ Visited(rows) \subseteq Visited(rows')
  <1>1. TablesOK' /\ Visited(rows) \subseteq Visited(rows')
    <2>1. CASE ok /\ header # None
      <3>1. rows' = Merge(rows, plan) /\ header' = Totals(rows', Present(rows'))
        BY <2>1 DEF Repair
      <3>2. rows' \in Sessions /\ \A c \in Customers : rows'[c].seq = rows[c].seq
        BY <3>1, MergeType DEF SessionsSafe, TablesOK, FeedsOK
      <3>3. header' # None
        BY <3>1, TotalsPresent
      <3> QED
        BY <3>2, <3>3 DEF TablesOK, Visited
    <2>2. CASE ~(ok /\ header # None)
      BY <2>2 DEF Repair, tables, SessionsSafe, TablesOK
    <2> QED
      BY <2>1, <2>2
  <1>2. FeedsOK' /\ RunsOK' /\ MemoryOK'
    BY DEF Repair, feeds, SessionsSafe, FeedsOK, RunsOK, MemoryOK
  <1> QED
    BY <1>1, <1>2, EventsType DEF Repair, SessionsSafe

LEMMA PageOpenSafe ==
  ASSUME SessionsSafe, NEW recs \in Plans, PageOpen(recs)
  PROVE  SessionsSafe'
  <1>1. "page" \in Reconcilers /\ RunsOK
    BY DEF Reconcilers, SessionsSafe
  <1>2. worker["page"].obj = 0 /\ worker["page"].out = {}
    BY <1>1, WorkerType DEF PageOpen, RunPlaced
  <1>3. FreeObject \in Objects
    BY <1>1, <1>2, FreeObjectType
  <1> DEFINE queued == [worker["page"] EXCEPT !.phase = "queued"]
             session == Hydrate(Merge(Nobody, recs), rows)
  <1>4. queued \in RunRecords /\ RunPlaced(queued)
    BY <1>1, <1>2, WorkerType DEF RunRecords, Phases, RunPlaced
  <1>5. worker' = [worker EXCEPT !["page"] = queued]
    BY DEF PageOpen
  <1> HIDE DEF queued
  <1>6. RunsOK'
    BY <1>1, <1>4, <1>5, WorkerMoves
  <1>7. session \in Sessions
    BY NobodyType, MergeType, HydrateType DEF SessionsSafe, TablesOK
  <1> HIDE DEF session
  <1>8. MemoryOK'
    <2>1. Put(web', session) /\ entry' = NoEntry /\ web' = FreeObject
      BY DEF PageOpen, session
    <2> QED
      BY <1>3, <1>7, <2>1, PutType DEF SessionsSafe, MemoryOK, Entries
  <1>9. FeedsOK' /\ TablesOK'
    BY DEF PageOpen, feeds, tables, SessionsSafe, FeedsOK, TablesOK
  <1> QED
    BY <1>6, <1>8, <1>9, EventsType DEF PageOpen, SessionsSafe

LEMMA VisitSafe ==
  ASSUME SessionsSafe, NEW c \in Customers, NEW qty \in Amounts, Visit(c, qty)
  PROVE  SessionsSafe'
  <1> DEFINE s == Apply(heap[web], c, qty)
  <1>1. web \in Objects /\ heap[web] \in Sessions
    BY DEF Visit, SessionsSafe, MemoryOK
  <1>2. s \in Sessions /\ s[c].seq > 0
    BY <1>1, ApplyType
  <1>3. Put(web, s) /\ web' = web /\ entry' = entry
        /\ posts' = posts \cup {[cust |-> c, snap |-> heap'[web]]}
    BY DEF Visit
  <1>4. web \in Reachable'
    BY <1>3 DEF Reachable
  <1> HIDE DEF s
  <1>5. heap' \in [Objects -> Sessions] /\ heap'[web] = s
    BY <1>1, <1>2, <1>3, <1>4, PutType DEF SessionsSafe, MemoryOK
  <1>6. [cust |-> c, snap |-> s] \in Snapshots
    BY <1>2 DEF Snapshots
  <1>7. MemoryOK' /\ posts' \subseteq Snapshots
    BY <1>1, <1>3, <1>5, <1>6 DEF SessionsSafe, MemoryOK
  <1>8. FeedsOK' /\ TablesOK' /\ RunsOK'
    BY DEF Visit, feeds, tables, SessionsSafe, FeedsOK, TablesOK, RunsOK
  <1> QED
    BY <1>7, <1>8, EventsType DEF Visit, SessionsSafe

LEMMA WebExpiresSafe ==
  ASSUME SessionsSafe, WebExpires
  PROVE  SessionsSafe'
  <1>1. MemoryOK'
    BY CollectSafe DEF WebExpires, SessionsSafe, MemoryOK
  <1>2. FeedsOK' /\ RunsOK' /\ TablesOK'
    BY DEF WebExpires, feeds, tables, SessionsSafe, FeedsOK, RunsOK, TablesOK
  <1> QED
    BY <1>1, <1>2, EventsType DEF WebExpires, SessionsSafe

LEMMA PostVisitSafe ==
  ASSUME SessionsSafe, NEW post, NEW ok, PostVisit(post, ok)
  PROVE  SessionsSafe' /\ Visited(rows) \subseteq Visited(rows')
  <1>1. post \in Snapshots /\ posts' \subseteq Snapshots /\ Upsert(post, ok)
    BY DEF PostVisit, SessionsSafe
  <1>2. TablesOK' /\ Visited(rows) \subseteq Visited(rows')
    BY <1>1, UpsertKeeps DEF SessionsSafe
  <1>3. FeedsOK' /\ RunsOK' /\ MemoryOK'
    BY DEF PostVisit, feeds, SessionsSafe, FeedsOK, RunsOK, MemoryOK
  <1>4. events' \in 0 .. MaxEvents
    BY <1>1, EventsType DEF Upsert, SessionsSafe
  <1> QED
    BY <1>1, <1>2, <1>3, <1>4 DEF PostVisit, SessionsSafe
-----------------------------------------------------------------------------
(* The steps of reconcile_route.                                           *)
LEMMA ResolveCachedSafe ==
  ASSUME SessionsSafe, NEW w \in Reconcilers, ResolveCached(w)
  PROVE  SessionsSafe'
  <1>1. RunsOK /\ worker[w].phase \in {"idle", "queued"} /\ worker[w].out = {}
    BY WorkerType DEF SessionsSafe, ResolveCached, Ready, RunPlaced
  <1>2. entry.obj \in Objects
    BY DEF ResolveCached, SessionsSafe, MemoryOK, Entries
  <1> DEFINE r == [[worker[w] EXCEPT !.phase = "header"] EXCEPT !.obj = entry.obj]
  <1>3. worker' = [worker EXCEPT ![w] = r]
    BY <1>1 DEF ResolveCached, RunsOK, RunRecords
  <1>4. r \in RunRecords /\ RunPlaced(r)
    <2>1. "header" \in Phases /\ 0 \notin Objects
      BY DEF Phases, Objects
    <2>2. r \in RunRecords /\ r.phase = "header" /\ r.obj = entry.obj /\ r.out = {}
      BY <1>1, <1>2, <2>1, WorkerType DEF RunRecords
    <2> HIDE DEF r
    <2> QED
      BY <1>2, <2>1, <2>2 DEF RunPlaced
  <1> HIDE DEF r
  <1>5. RunsOK'
    BY <1>1, <1>3, <1>4, WorkerMoves
  <1>6. FeedsOK' /\ TablesOK' /\ MemoryOK'
    BY DEF ResolveCached, feeds, tables, SessionsSafe, FeedsOK, TablesOK, MemoryOK
  <1> QED
    BY <1>5, <1>6, EventsType DEF ResolveCached, SessionsSafe

LEMMA ResolveLoadSafe ==
  ASSUME SessionsSafe, NEW w \in Reconcilers, NEW ok \in BOOLEAN, ResolveLoad(w, ok)
  PROVE  SessionsSafe'
  <1>1. /\ RunsOK /\ worker[w].phase \in {"idle", "queued"} /\ worker[w].out = {}
        /\ worker[w].obj = 0
    BY WorkerType DEF SessionsSafe, ResolveLoad, Ready, RunPlaced
  <1> DEFINE next == IF ok /\ header # None THEN "rebuild" ELSE "create"
             found == IF ok THEN rows ELSE Nobody
             r == [[worker[w] EXCEPT !.phase = next] EXCEPT !.found = found]
  <1>2. found \in Sessions /\ next \in {"rebuild", "create"}
    BY NobodyType DEF SessionsSafe, TablesOK
  <1>3. worker' = [worker EXCEPT ![w] = r]
    BY <1>1 DEF ResolveLoad, RunsOK, RunRecords
  <1> HIDE DEF next, found
  <1>4. r \in RunRecords /\ RunPlaced(r)
    BY <1>1, <1>2, WorkerType DEF RunRecords, Phases, RunPlaced
  <1> HIDE DEF r
  <1>5. RunsOK'
    BY <1>1, <1>3, <1>4, WorkerMoves
  <1>6. FeedsOK' /\ TablesOK' /\ MemoryOK'
    BY DEF ResolveLoad, feeds, tables, SessionsSafe, FeedsOK, TablesOK, MemoryOK
  <1> QED
    BY <1>5, <1>6, EventsType DEF ResolveLoad, SessionsSafe

LEMMA ResolveBuildSafe ==
  ASSUME SessionsSafe, NEW w \in Reconcilers, NEW recs, NEW ok \in BOOLEAN,
         ResolveBuild(w, recs, ok)
  PROVE  SessionsSafe'
  <1>1. /\ RunsOK /\ worker[w].phase \in {"rebuild", "create"}
        /\ worker[w].obj = 0 /\ worker[w].found \in Sessions
    BY WorkerType DEF SessionsSafe, ResolveBuild, RunPlaced
  <1>2. recs \in Plans /\ planCache' \in Plans /\ UNCHANGED feeds
    BY NobodyType DEF ResolveBuild, SessionsSafe, FeedsOK
  <1>3. FeedsOK' /\ TablesOK'
    BY <1>2 DEF ResolveBuild, feeds, tables, SessionsSafe, FeedsOK, TablesOK
  <1>4. CASE worker[w].phase = "create" /\ recs = NoPlan
    <2>1. worker' = [worker EXCEPT ![w] = Idle] /\ UNCHANGED <<heap, entry, web>>
      BY <1>4 DEF ResolveBuild
    <2>2. RunsOK' /\ MemoryOK'
      BY <1>1, <2>1, IdleType, WorkerMoves DEF SessionsSafe, MemoryOK
    <2> QED
      BY <1>3, <2>2, EventsType DEF ResolveBuild, SessionsSafe
  <1>5. CASE ~(worker[w].phase = "create" /\ recs = NoPlan)
    <2> DEFINE obj == FreeObject
               session == Merge(worker[w].found, recs)
               r == [[Idle EXCEPT !.phase = "header"] EXCEPT !.obj = obj]
    <2>1. /\ worker' = [worker EXCEPT ![w] = r] /\ entry' = [obj |-> obj, sig |-> None]
          /\ Put(obj, session) /\ web' = web
      BY <1>5 DEF ResolveBuild
    <2>2. obj \in Objects
      BY <1>1, FreeObjectType
    <2>3. session \in Sessions
      BY <1>1, <1>2, MergeType
    <2> HIDE DEF obj, session
    <2>4. r \in RunRecords /\ RunPlaced(r)
      <3>1. "header" \in Phases
        BY DEF Phases
      <3>2. r \in RunRecords /\ r.phase = "header" /\ r.obj = obj /\ r.out = {}
        BY <2>2, <3>1, NobodyType DEF Idle, RunRecords
      <3> HIDE DEF r
      <3> QED
        BY <2>2, <3>2 DEF RunPlaced, Objects
    <2> HIDE DEF r
    <2>5. RunsOK'
      BY <1>1, <2>1, <2>4, WorkerMoves
    <2>6. MemoryOK'
      BY <2>1, <2>2, <2>3, PutType DEF SessionsSafe, MemoryOK, Entries
    <2> QED
      BY <1>3, <2>5, <2>6, EventsType DEF ResolveBuild, SessionsSafe
  <1> QED
    BY <1>4, <1>5

(* What Phase 0 writes, skips or stamps is the header of a session.        *)
LEMMA ObjectHeader ==
  ASSUME SessionsSafe, NEW w \in Reconcilers, worker[w].phase = "header"
  PROVE  /\ RunsOK /\ worker[w].obj \in Objects /\ worker[w].out = {}
         /\ HeaderOf(heap[worker[w].obj]) \in Heads
  <1>1. worker[w].obj \in Objects /\ RunsOK /\ worker[w].out = {}
    BY WorkerType DEF SessionsSafe, RunPlaced
  <1>2. heap[worker[w].obj] \in Sessions
    BY <1>1 DEF SessionsSafe, MemoryOK
  <1> QED
    BY <1>1, <1>2 DEF Heads

LEMMA HeaderSkipSafe ==
  ASSUME SessionsSafe, NEW w \in Reconcilers, HeaderSkip(w)
  PROVE  SessionsSafe'
  <1>1. RunsOK /\ worker[w].obj \in Objects /\ worker[w].out = {}
    BY ObjectHeader DEF HeaderSkip
  <1> DEFINE r == [worker[w] EXCEPT !.phase = "fetch"]
  <1>2. worker' = [worker EXCEPT ![w] = r]
    BY DEF HeaderSkip
  <1>3. r \in RunRecords /\ RunPlaced(r)
    BY <1>1, WorkerType DEF RunRecords, Phases, RunPlaced, Objects
  <1> HIDE DEF r
  <1>4. RunsOK'
    BY <1>1, <1>2, <1>3, WorkerMoves
  <1>5. FeedsOK' /\ TablesOK' /\ MemoryOK'
    BY DEF HeaderSkip, feeds, tables, SessionsSafe, FeedsOK, TablesOK, MemoryOK
  <1> QED
    BY <1>4, <1>5, EventsType DEF HeaderSkip, SessionsSafe

LEMMA HeaderWriteSafe ==
  ASSUME SessionsSafe, NEW w \in Reconcilers, NEW ok \in BOOLEAN, HeaderWrite(w, ok)
  PROVE  SessionsSafe'
  <1> DEFINE head == HeaderOf(heap[worker[w].obj])
             r == [[worker[w] EXCEPT !.phase = "stamp"] EXCEPT !.out = {head}]
  <1>1. RunsOK /\ worker[w].obj \in Objects /\ head \in Heads
    BY ObjectHeader DEF HeaderWrite
  <1>2. worker' = [worker EXCEPT ![w] = r] /\ header' = IF ok THEN head ELSE header
    BY <1>1 DEF HeaderWrite, RunsOK, RunRecords
  <1> HIDE DEF head
  <1>3. r \in RunRecords /\ RunPlaced(r)
    <2>1. "stamp" \in Phases /\ {head} \in SUBSET (Heads \cup Snapshots)
      BY <1>1 DEF Phases
    <2>2. /\ r \in RunRecords /\ r.phase = "stamp"
          /\ r.obj = worker[w].obj /\ r.out = {head}
      BY <1>1, <2>1, WorkerType DEF RunRecords
    <2> HIDE DEF r
    <2> QED
      BY <1>1, <2>2 DEF RunPlaced, Objects
  <1> HIDE DEF r
  <1>4. RunsOK'
    BY <1>1, <1>2, <1>3, WorkerMoves
  <1>5. TablesOK'
    BY <1>1, <1>2, HeadsPresent DEF HeaderWrite, SessionsSafe, TablesOK
  <1>6. FeedsOK' /\ MemoryOK'
    BY DEF HeaderWrite, feeds, SessionsSafe, FeedsOK, MemoryOK
  <1> QED
    BY <1>4, <1>5, <1>6, EventsType DEF HeaderWrite, SessionsSafe

LEMMA HeaderStampSafe ==
  ASSUME SessionsSafe, NEW w \in Reconcilers, HeaderStamp(w)
  PROVE  SessionsSafe'
  <1>1. /\ RunsOK /\ worker[w].obj \in Objects
        /\ worker[w].out # {} /\ worker[w].out \subseteq Heads
    BY WorkerType DEF SessionsSafe, HeaderStamp, RunPlaced
  <1> DEFINE r == [[worker[w] EXCEPT !.phase = "fetch"] EXCEPT !.out = {}]
             sig == CHOOSE h \in worker[w].out : TRUE
  <1>2. sig \in Heads
    BY <1>1
  <1>3. /\ worker' = [worker EXCEPT ![w] = r]
        /\ entry' = IF entry = NoEntry THEN entry ELSE [entry EXCEPT !.sig = sig]
    BY <1>1 DEF HeaderStamp, RunsOK, RunRecords
  <1> HIDE DEF sig
  <1>4. entry' \in Entries
    BY <1>2, <1>3 DEF SessionsSafe, MemoryOK, Entries
  <1>5. r \in RunRecords /\ RunPlaced(r)
    BY <1>1, WorkerType DEF RunRecords, Phases, RunPlaced, Objects
  <1> HIDE DEF r
  <1>6. RunsOK' /\ MemoryOK'
    BY <1>1, <1>3, <1>4, <1>5, WorkerMoves DEF HeaderStamp, SessionsSafe, MemoryOK
  <1>7. FeedsOK' /\ TablesOK'
    BY DEF HeaderStamp, feeds, tables, SessionsSafe, FeedsOK, TablesOK
  <1> QED
    BY <1>6, <1>7, EventsType DEF HeaderStamp, SessionsSafe

LEMMA FetchSafe ==
  ASSUME SessionsSafe, NEW w \in Reconcilers, NEW ok \in BOOLEAN, Fetch(w, ok)
  PROVE  SessionsSafe'
  <1>1. RunsOK /\ worker[w].obj \in Objects /\ worker[w].out = {}
    BY WorkerType DEF SessionsSafe, Fetch, RunPlaced
  <1> DEFINE feed == IF ok THEN sales ELSE NoPlan
             r == IF feed = NoPlan \/ entry = NoEntry THEN Idle
                  ELSE [[worker[w] EXCEPT !.phase = "sync"] EXCEPT !.feed = feed]
  <1>2. feed \in Plans
    BY NobodyType DEF SessionsSafe, FeedsOK
  <1>3. worker' = [worker EXCEPT ![w] = r]
    BY <1>1 DEF Fetch, RunsOK, RunRecords
  <1> HIDE DEF feed
  <1> DEFINE sync == [[worker[w] EXCEPT !.phase = "sync"] EXCEPT !.feed = feed]
  <1>4. sync \in RunRecords /\ RunPlaced(sync)
    <2>1. "sync" \in Phases
      BY DEF Phases
    <2>2. /\ sync \in RunRecords /\ sync.phase = "sync"
          /\ sync.obj = worker[w].obj /\ sync.out = worker[w].out
      BY <1>1, <1>2, <2>1, WorkerType DEF RunRecords
    <2> HIDE DEF sync
    <2> QED
      BY <1>1, <2>2 DEF RunPlaced, Objects
  <1>5. r = Idle \/ r = sync
    OBVIOUS
  <1> HIDE DEF r, sync
  <1>6. RunsOK'
    BY <1>1, <1>3, <1>4, <1>5, IdleType, WorkerMoves
  <1>7. MemoryOK'
    BY CollectSafe DEF Fetch, SessionsSafe, MemoryOK
  <1>8. FeedsOK' /\ TablesOK'
    BY DEF Fetch, feeds, tables, SessionsSafe, FeedsOK, TablesOK
  <1> QED
    BY <1>6, <1>7, <1>8, EventsType DEF Fetch, SessionsSafe

LEMMA SyncCustomerSafe ==
  ASSUME SessionsSafe, NEW w \in Reconcilers, NEW c \in Customers, SyncCustomer(w, c)
  PROVE  SessionsSafe'
  <1> DEFINE s == Apply(heap[worker[w].obj], c, worker[w].feed[c])
             post == [cust |-> c, snap |-> s]
             feed == [worker[w].feed EXCEPT ![c] = 0]
             out == worker[w].out \cup {post}
             r == [[worker[w] EXCEPT !.feed = feed] EXCEPT !.out = out]
  <1>1. /\ RunsOK /\ worker[w].obj \in Objects /\ worker[w].phase = "sync"
        /\ worker[w].out \subseteq Snapshots /\ worker[w].feed \in Plans
    BY WorkerType DEF SessionsSafe, SyncCustomer, RunPlaced
  <1>2. heap[worker[w].obj] \in Sessions /\ worker[w].feed[c] \in Amounts
    BY <1>1 DEF SessionsSafe, MemoryOK, Plans
  <1>3. s \in Sessions /\ s[c].seq > 0
    BY <1>2, ApplyType
  <1>4. worker' = [worker EXCEPT ![w] = r]
    BY <1>1 DEF SyncCustomer, RunsOK, RunRecords
  <1>5. Put(worker[w].obj, s) /\ UNCHANGED <<entry, web>>
    BY DEF SyncCustomer
  <1> HIDE DEF s
  <1>6. post \in Snapshots
    BY <1>3 DEF Snapshots
  <1>7. feed \in Plans
    BY <1>1, AmountsType DEF Plans
  <1> HIDE DEF post, feed
  <1>8. out \subseteq Snapshots
    BY <1>1, <1>6
  <1> HIDE DEF out
  <1>9. r \in RunRecords /\ RunPlaced(r)
    BY <1>1, <1>7, <1>8, WorkerType DEF RunRecords, Phases, RunPlaced, Objects
  <1> HIDE DEF r
  <1>10. RunsOK'
    BY <1>1, <1>4, <1>9, WorkerMoves
  <1>11. MemoryOK'
    BY <1>3, <1>5, PutType DEF SessionsSafe, MemoryOK
  <1>12. FeedsOK' /\ TablesOK'
    BY DEF SyncCustomer, feeds, tables, SessionsSafe, FeedsOK, TablesOK
  <1> QED
    BY <1>10, <1>11, <1>12, EventsType DEF SyncCustomer, SessionsSafe

LEMMA SyncUpsertSafe ==
  ASSUME SessionsSafe, NEW w \in Reconcilers, NEW post, NEW ok \in BOOLEAN,
         SyncUpsert(w, post, ok)
  PROVE  SessionsSafe' /\ Visited(rows) \subseteq Visited(rows')
  <1> DEFINE out == worker[w].out \ {post}
             r == IF out = {} /\ worker[w].feed = NoPlan THEN Idle
                  ELSE [worker[w] EXCEPT !.out = out]
  <1>1. /\ RunsOK /\ worker[w].obj \in Objects /\ worker[w].phase = "sync"
        /\ out \subseteq Snapshots /\ post \in Snapshots
    BY WorkerType DEF SessionsSafe, SyncUpsert, RunPlaced
  <1>2. worker' = [worker EXCEPT ![w] = r]
    BY <1>1 DEF SyncUpsert, RunsOK, RunRecords
  <1> HIDE DEF out
  <1>3. r \in RunRecords /\ RunPlaced(r)
    BY <1>1, IdleType, WorkerType DEF RunRecords, Phases, RunPlaced, Objects
  <1> HIDE DEF r
  <1>4. RunsOK'
    BY <1>1, <1>2, <1>3, WorkerMoves
  <1>5. TablesOK' /\ Visited(rows) \subseteq Visited(rows')
    BY <1>1, UpsertKeeps DEF SyncUpsert, SessionsSafe
  <1>6. MemoryOK'
    BY CollectSafe DEF SyncUpsert, SessionsSafe, MemoryOK
  <1>7. FeedsOK' /\ events' \in 0 .. MaxEvents
    BY EventsType DEF SyncUpsert, Upsert, feeds, SessionsSafe, FeedsOK
  <1> QED
    BY <1>4, <1>5, <1>6, <1>7 DEF SyncUpsert, SessionsSafe

(* A restart keeps the tables and nothing else.                            *)
LEMMA RestartSafe ==
  ASSUME SessionsSafe, Restart
  PROVE  SessionsSafe'
  <1>1. worker' = [w \in Reconcilers |-> Idle]
    BY DEF Restart, SessionsSafe, RunsOK
  <1>2. RunsOK'
    BY <1>1, IdleType DEF RunsOK
  <1>3. MemoryOK'
    BY NobodyType DEF Restart, MemoryOK, Entries
  <1>4. FeedsOK' /\ TablesOK'
    BY NobodyType DEF Restart, feeds, tables, SessionsSafe, FeedsOK, TablesOK
  <1> QED
    BY <1>2, <1>3, <1>4, EventsType DEF Restart, SessionsSafe
-----------------------------------------------------------------------------
(* Every step keeps the invariant, and every visit in the tables.          *)
LEMMA NextSafe ==
  ASSUME SessionsSafe, [Next]_vars
  PROVE  SessionsSafe' /\ Visited(rows) \subseteq Visited(rows')
  <1> DEFINE Goal == SessionsSafe' /\ Visited(rows) \subseteq Visited(rows')
  <1>1. rows' = rows => Visited(rows) \subseteq Visited(rows')
    OBVIOUS
  <1>2. ASSUME UNCHANGED vars PROVE Goal
    BY <1>1, <1>2
       DEF vars, feeds, tables, SessionsSafe, FeedsOK, MemoryOK, RunsOK, TablesOK
  <1>3. ASSUME NEW c \in Customers, NEW qty \in Amounts, Sell(c, qty) \/ Visit(c, qty) PROVE Goal
    BY <1>1, <1>3, SellSafe, VisitSafe DEF Sell, Visit, tables
  <1>4. ASSUME NEW p \in Plans, PlanLands(p) \/ PageOpen(p) PROVE Goal
    BY <1>1, <1>4, PlanLandsSafe, PageOpenSafe DEF PlanLands, PageOpen, tables
  <1>5. ASSUME InvalidateDay \/ WebExpires \/ Restart PROVE Goal
    BY <1>1, <1>5, InvalidateDaySafe, WebExpiresSafe, RestartSafe
       DEF InvalidateDay, WebExpires, Restart, tables
  <1>6. RunRepair \/ PostVisits => Goal
    BY RepairSafe, PostVisitSafe DEF RunRepair, PostVisits
  <1>7. ASSUME NEW w \in Reconcilers, Reconcile(w) PROVE Goal
    <2>1. ASSUME NEW post, NEW ok \in BOOLEAN, SyncUpsert(w, post, ok) PROVE Goal
      BY <2>1, SyncUpsertSafe
    <2>2. ASSUME NEW ok \in BOOLEAN,
                 \/ ResolveCached(w) \/ ResolveLoad(w, ok) \/ HeaderSkip(w) \/ HeaderWrite(w, ok)
                 \/ HeaderStamp(w) \/ Fetch(w, ok)
                 \/ (\E recs : ResolveBuild(w, recs, ok))
                 \/ (\E c \in Customers : SyncCustomer(w, c))
          PROVE  Goal
      <3>1. SessionsSafe'
        BY <2>2, ResolveCachedSafe, ResolveLoadSafe, ResolveBuildSafe, HeaderSkipSafe,
           HeaderWriteSafe, HeaderStampSafe, FetchSafe, SyncCustomerSafe
      <3>2. rows' = rows
        BY <2>2 DEF ResolveCached, ResolveLoad, ResolveBuild, HeaderSkip, HeaderWrite,
                    HeaderStamp, Fetch, SyncCustomer, tables
      <3> QED
        BY <1>1, <3>1, <3>2
    <2> HIDE DEF Goal
    <2> QED
      BY <1>7, <2>1, <2>2 DEF Reconcile
  <1>8. DOMAIN worker = Reconcilers
    BY DEF SessionsSafe, RunsOK
  <1> HIDE DEF Goal
  <1>9. \A p \in [Customers -> Amounts] : PlanLands(p) \/ PageOpen(p) => Goal
    BY <1>4 DEF Plans
  <1>10. \A w \in DOMAIN worker : Reconcile(w) => Goal
    BY <1>7, <1>8
  <1>11. ASSUME Next PROVE Goal
    BY <1>3, <1>5, <1>6, <1>9, <1>10, <1>11 DEF Next
  <1>12. Goal
    BY <1>2, <1>11
  <1> QED
    BY <1>12 DEF Goal

LEMMA AlwaysSafe == Spec => []SessionsSafe
  BY InitSafe, NextSafe, PTL DEF Spec

(* The sessions, snapshots and rows of every reachable state have their    *)
(* types, and a route without a header has no rows.                        *)
THEOREM SupervisionTypeCorrect == Spec => []SupervisionTypeOK
  <1>1. SessionsSafe => SupervisionTypeOK
    <2> SUFFICES ASSUME SessionsSafe PROVE SupervisionTypeOK
      OBVIOUS
    <2>1. DOMAIN worker = Reconcilers
      BY DEF SessionsSafe, RunsOK
    <2>2. \A w \in Reconcilers : /\ worker[w].obj \in {0} \cup Objects
                                 /\ worker[w].found \in Sessions /\ worker[w].feed \in Plans
      BY WorkerType DEF SessionsSafe
    <2>3. \A post \in posts : post.cust \in Customers /\ post.snap \in Sessions
      BY DEF SessionsSafe, Snapshots
    <2>4. entry.obj \in {0} \cup Objects
      BY DEF SessionsSafe, MemoryOK, Entries, NoEntry
    <2> QED
      BY <2>1, <2>2, <2>3, <2>4
         DEF SupervisionTypeOK, SessionsSafe, FeedsOK, MemoryOK, TablesOK, Sessions, Plans
  <1> QED
    BY <1>1, AlwaysSafe, PTL

(* A visit that reached the tables is never undone, whatever is stale,     *)
(* lost, rebuilt or repaired.                                              *)
THEOREM VisitsAreKept == Spec => VisitsNeverLost
  BY AlwaysSafe, NextSafe, PTL DEF Spec, VisitsNeverLost
=============================================================================
