------------------------------ MODULE RouteEngine ------------------------------
(***************************************************************************)
(* RecommendationEngine.generate for one route and date: thresholds are     *)
(* calibrated from the route's history, every customer on the journey goes  *)
(* through the candidate lanes, feedback weighs the lanes, candidates are   *)
(* merged and ranked, and the load of the van is allocated.                 *)
(*                                                                          *)
(* Ratios, frequencies and confidences are percents, scores hundredths of   *)
(* a point (0 .. 10000, more when feedback lifts them), quantities units.   *)
(* Statistics of the history are inputs of any value.                       *)
(***************************************************************************)
EXTENDS Integers, FiniteSets, FiniteSetsExt, Sequences, SequencesExt

CONSTANTS
    Items,      \* item codes
    Journey,    \* the customers planned for the route, in the order of their codes
    Inputs,     \* what generate may be called with
    MaxFaults,  \* bound: lanes that raise
    Never       \* the customer never bought the item

Customers == Range(Journey)
Lanes     == <<"history", "peer", "basket", "reactivation", "seed">>

\* what the history says of an item that a customer bought
Purchase ==
    [days : Int, cycle : Int, frequency : Int, timing : Int, volume : Int, steadiness : Int,
     average : Int, recent : Int, historical : Int, gaps : Int]

\* what calibration gathers; quartiles of the same ranks are in order
Statistics ==
    {s \in [active : Int, corpus : Int, frequency : Int, gap : Int, quantity : Int, cycle : Int,
            confidence : Int, p25 : Int, p50 : Int, p75 : Int, p90 : Int,
            basket25 : Int, basket75 : Int,
            bands : [{"frequency", "dormancy", "gate", "confidence"} ->
                        [low : Int, high : Int, p95 : Int]]] : s.p25 <= s.p50}

\* the arguments of generate
Arguments ==
    [van      : [Items -> Nat],
     past     : [Customers -> [Items -> Purchase \cup {Never}]],
     habits   : [Customers -> [basket : Int, visits : Int, cycle : Int]],
     alike    : [Customers -> [Items -> [score : Int, qty : Int]]],
     together : [Items -> [Items -> [confidence : Nat, qty : Int]]],
     evidence : [Range(Lanes) -> [n : Nat, hit : Int, corpus : Int, prior : Nat, previous : Int]],
     stats    : Statistics]

ASSUME EngineAssumption ==
    /\ IsFiniteSet(Items)
    /\ Journey \in Seq(Range(Journey)) /\ Cardinality(Range(Journey)) = Len(Journey)
    /\ Inputs \subseteq Arguments
    /\ MaxFaults \in Nat

VARIABLES
    input,       \* the arguments of this call
    turn,        \* the position on the journey
    stage,       \* the lane the customer is in, "rank", "allocate" or "done"
    candidates,  \* all_cands of the customer
    records,     \* the rows of the customers so far
    plan,        \* what generate returns
    faults       \* how many lanes have raised

vars == <<input, turn, stage, candidates, records, plan, faults>>

Clamp(x, lo, hi) == Max({lo, Min({hi, x})})

-----------------------------------------------------------------------------
(* Calibration, from the statistics of the trailing window.                 *)

\* routes with few customers get a lower floor
Relief(s) ==
    IF s.corpus > 0 /\ 100 * s.active < 75 * s.corpus
    THEN 50 + (5000 * s.active) \div (75 * s.corpus) ELSE 100

\* more than three deviations from the other routes: their 95th percentile
Sane(s, field, x) ==
    LET band == s.bands[field] IN IF x \in band.low .. band.high THEN x ELSE band.p95

FrequencyFloor(s) == Sane(s, "frequency", Clamp((s.frequency * Relief(s)) \div 100, 2, 50))
DormancyDays(s)   == Sane(s, "dormancy", Clamp(s.gap, 30, 180))
PeerMax(s)        == Clamp(Clamp(s.quantity, 5, 500) \div 10, 2, 8)
RouteGate(s) ==
    Sane(s, "gate", IF s.cycle <= 1 THEN 60 ELSE Clamp(100 - 100 \div s.cycle, 30, 60))
MinConfidence(s)  == Sane(s, "confidence", Clamp(s.confidence, 30, 70))

\* tier cuts in points
Cuts(s) ==
    [must    |-> Clamp(s.p90, 70, 95), should  |-> Clamp(s.p75, 50, 80),
     consider |-> Clamp(s.p50, 30, 60), monitor |-> Clamp(s.p25, 10, 40)]

\* the customer's tier from the route's basket quartiles, and a gate of its
\* own when it has three visits or more
Profile(s, c) ==
    LET h == input.habits[c]
    IN  [tier |-> IF s.basket75 > 0 /\ h.basket >= s.basket75 THEN "HEAVY"
                  ELSE IF s.basket25 > 0 /\ h.basket <= s.basket25 THEN "LIGHT" ELSE "MEDIUM",
         gate |-> IF h.visits >= 3 /\ h.cycle > 1 THEN Clamp(100 - 100 \div h.cycle, 40, 95)
                  ELSE RouteGate(s)]

-----------------------------------------------------------------------------
(* Trend, priority and quantity of an item the customer has bought.         *)

\* the recent cycle against the historical one; two gaps count half
Trend(p) ==
    LET r == 100 * p.recent
        h == p.historical
        f == IF r < 80 * h THEN 130 ELSE IF r < 90 * h THEN 115
             ELSE IF r <= 110 * h THEN 100 ELSE IF r <= 120 * h THEN 85 ELSE 70
    IN  IF p.gaps < 2 \/ h = 0 THEN 100 ELSE IF p.gaps = 2 THEN 100 + (f - 100) \div 2 ELSE f

\* weights move from quantity to timing with the item's frequency
Blend(s, tier, frequency) ==
    LET floor   == FrequencyFloor(s)
        ceiling == Max({floor + 1, 50})
        nudge   == [HEAVY |-> -20, MEDIUM |-> 0, LIGHT |-> 20][tier]
        t       == Clamp((100 * (frequency - floor)) \div (ceiling - floor) + nudge, 0, 100)
    IN  [timing |-> 30 + (25 * t) \div 100, quantity |-> 40 - (15 * t) \div 100,
         consistency |-> 30 - (10 * t) \div 100]

Priority(s, tier, p) ==
    LET w == Blend(s, tier, p.frequency)
    IN  Clamp(w.timing * p.timing + w.quantity * p.volume + w.consistency * p.steadiness, 0, 10000)

\* the recency-weighted average times the trend, aimed at the middle of the
\* perfect zone (97.5 percent), rounded up and capped by the van
Quantity(p, van) ==
    LET expected == p.average * Trend(p)
    IN  IF expected <= 0 THEN 0 ELSE Min({Max({1, (expected * 975 + 99999) \div 100000}), van})

-----------------------------------------------------------------------------
(* The candidate lanes.                                                     *)

Candidate(i, qty, score, lane) == [item |-> i, qty |-> qty, score |-> score, lane |-> lane]

Loaded == {i \in Items : input.van[i] > 0}

\* at most k elements of S, none of them smaller than one left out
Best(S, value, k) ==
    CHOOSE T \in SUBSET S :
        /\ Cardinality(T) = Min({k, Cardinality(S)})
        /\ \A x \in T, y \in S \ T : value[x] >= value[y]

Bought(c) == {i \in Items : input.past[c][i] # Never}

\* an item of the customer's own: frequent enough, due by its cycle, and not
\* below the monitor cut
OwnScore(c, i) ==
    LET s == input.stats
        p == input.past[c][i]
    IN  (Priority(s, Profile(s, c).tier, p) * Trend(p)) \div 100

Due(c, i) ==
    LET s == input.stats
        p == input.past[c][i]
    IN  /\ p.days > 0 /\ p.frequency >= FrequencyFloor(s)
        /\ 100 * p.days >= Profile(s, c).gate * Max({1, p.cycle})
        /\ OwnScore(c, i) >= 100 * Cuts(s).monitor

History(c) ==
    {k \in {Candidate(i, Quantity(input.past[c][i], input.van[i]), OwnScore(c, i), "history") :
                i \in {j \in Bought(c) \cap Loaded : Due(c, j)}} :
        k.qty > 0}

\* np.percentile(values, 75) of the values of f over S
Percentile75(f, S) ==
    LET v  == SortSeq(SetToSeq({<<f[i], i>> : i \in S}), LAMBDA a, b : a[1] < b[1])
        at == 75 * (Len(v) - 1)
        lo == v[at \div 100 + 1][1]
        hi == v[Min({at \div 100 + 2, Len(v)})][1]
    IN  lo + ((hi - lo) * (at % 100)) \div 100

\* a score of a lane that ranks between "consider" and "should stock"
Between(s, share) ==
    100 * Cuts(s).consider + Min({100, share}) * (Cuts(s).should - Cuts(s).consider)

\* what similar customers buy, above the 75th percentile of what they buy here
Peer(c) ==
    LET s     == input.stats
        alike == input.alike[c]
        score == [i \in Items |-> alike[i].score]
        some  == {i \in Loaded : score[i] > 0}
        floor == Clamp(Percentile75(score, some), 5, 50)
        good  == {i \in some : score[i] >= floor}
    IN  IF some = {} \/ s.active < 3 THEN {}
        ELSE {Candidate(i, Min({input.van[i], alike[i].qty}), Between(s, score[i]), "peer") :
                 i \in {j \in Best(good, score, PeerMax(s)) : alike[j].qty > 0}}

\* what is bought together with the customer's history picks
Basket ==
    LET s       == input.stats
        anchors == {k.item : k \in {h \in candidates : h.lane = "history"}}
        taken   == {k.item : k \in candidates}
        conf(i) == Max({input.together[a][i].confidence : a \in anchors})
        found   == {i \in Loaded \ taken : anchors # {} /\ conf(i) >= MinConfidence(s)}
        by      == [i \in found |-> conf(i)]
        with(i) == CHOOSE a \in anchors : input.together[a][i].confidence = by[i]
    IN  {Candidate(i, Min({input.van[i], Max({1, input.together[with(i)][i].qty})}),
                   Between(s, by[i]), "basket") : i \in Best(found, by, 3)}

\* the largest loads of the van, as starter quantities
Starters(lane) ==
    {Candidate(i, Min({5, input.van[i]}), 100 * Cuts(input.stats).consider, lane) :
        i \in Best(Loaded, input.van, 5)}

\* a customer whose last purchase of anything is too long ago
Reactivation(c) ==
    IF Min({input.past[c][i].days : i \in Bought(c)}) > DormancyDays(input.stats)
    THEN Starters("reactivation") ELSE {}

-----------------------------------------------------------------------------
(* Feedback: how a lane has done on this route against the whole corpus,    *)
(* shrunk towards the corpus and smoothed against the last multiplier,      *)
(* which is carried forward where nothing was observed.                     *)

Multiplier(e) ==
    IF e.n = 0 THEN e.previous
    ELSE LET raw == IF e.corpus <= 0 THEN 100
                    ELSE Clamp((100 * (e.n * e.hit + e.prior * e.corpus))
                                   \div ((e.n + e.prior) * e.corpus), 50, 150)
         IN  Clamp((30 * raw + 70 * e.previous) \div 100, 50, 150)

Weighed(k) == [k EXCEPT !.score = (@ * Multiplier(input.evidence[k.lane])) \div 100]

-----------------------------------------------------------------------------
(* Merging, and the van.                                                    *)

LaneRank(lane) == CHOOSE n \in DOMAIN Lanes : Lanes[n] = lane

Beats(k, other) ==
    \/ k.score > other.score
    \/ k.score = other.score /\ LaneRank(k.lane) < LaneRank(other.lane)

\* merge_and_rank: one candidate of each item, the earlier lane on a tie
Merged(S) == {k \in S : \A other \in S \ {k} : other.item = k.item => Beats(k, other)}

\* Mutant: what is not worth considering is excluded too.
RowsConsidered(c, S) ==
    {[customer |-> c, item |-> k.item, qty |-> k.qty, score |-> k.score] :
        k \in {j \in S : j.score > 100 * Cuts(input.stats).consider}}

\* _rows: what is below the monitor cut is excluded
Rows(c, S) ==
    {[customer |-> c, item |-> k.item, qty |-> k.qty, score |-> k.score] :
        k \in {j \in S : j.score >= 100 * Cuts(input.stats).monitor}}

Wanted(S) == MapThenSumSet(LAMBDA r : r.qty, S)

OfItem(S, i) == {r \in S : r.item = i}

\* descending priorities, ties in any order (sort_values is not stable)
Orders(S) ==
    {q \in SetToSeqs(S) : \A m, n \in 1 .. Len(q) : m < n => q[m].score >= q[n].score}

\* Mutant: what the customers before got is not deducted.
ShareOfAll(q, n, load) == Min({load, q[n].qty})

\* what is left of the load for the n-th of q
Share(q, n, load) ==
    Clamp(load - Wanted({q[m] : m \in 1 .. n - 1}), 0, q[n].qty)

\* apply_van_load_constraints for one item
Served(q, load) ==
    {r \in {[q[n] EXCEPT !.qty = Share(q, n, load)] : n \in 1 .. Len(q)} : r.qty > 0}

Allocations(S, load) ==
    IF Wanted(S) <= load THEN {S} ELSE {Served(q, load) : q \in Orders(S)}

\* one allocation of each item, together
Plans ==
    LET all == [i \in Items |-> Allocations(OfItem(records, i), input.van[i])]
    IN  {UNION Range(p) : p \in {q \in [Items -> UNION Range(all)] : \A i \in Items : q[i] \in all[i]}}

-----------------------------------------------------------------------------
(* The call.                                                                *)

Customer == Journey[turn]
Known(c) == Bought(c) # {}

Init ==
    /\ input \in Inputs
    /\ turn = 1 /\ stage = IF Journey = <<>> THEN "allocate" ELSE "history"
    /\ candidates = {} /\ records = {} /\ plan = {}
    /\ faults = 0

\* _safe_call: a lane that raises contributes nothing
Contribute(found, next) ==
    /\ \/ candidates' = candidates \cup found /\ UNCHANGED faults
       \/ faults < MaxFaults /\ faults' = faults + 1 /\ UNCHANGED candidates
    /\ stage' = next
    /\ UNCHANGED <<input, turn, records, plan>>

\* a planned customer without history gets starters; nothing is weighed or merged
SeedLane == stage = "history" /\ ~Known(Customer) /\ Contribute(Starters("seed"), "rows")

HistoryLane == stage = "history" /\ Known(Customer) /\ Contribute(History(Customer), "peer")
PeerLane    == stage = "peer" /\ Contribute(Peer(Customer), "basket")
BasketLane  == stage = "basket" /\ Contribute(Basket, "reactivation")
ReactLane   == stage = "reactivation" /\ Contribute(Reactivation(Customer), "rank")

Rank ==
    /\ stage = "rank" /\ stage' = "rows"
    /\ candidates' = Merged({Weighed(k) : k \in candidates})
    /\ UNCHANGED <<input, turn, records, plan, faults>>

Collect ==
    /\ stage = "rows"
    /\ records' = records \cup Rows(Customer, candidates)
    /\ candidates' = {}
    /\ IF turn < Len(Journey) THEN turn' = turn + 1 /\ stage' = "history"
                              ELSE stage' = "allocate" /\ UNCHANGED turn
    /\ UNCHANGED <<input, plan, faults>>

Allocate ==
    /\ stage = "allocate" /\ stage' = "done"
    /\ plan' \in Plans
    /\ UNCHANGED <<input, turn, candidates, records, faults>>

Next ==
    SeedLane \/ HistoryLane \/ PeerLane \/ BasketLane \/ ReactLane \/ Rank \/ Collect \/ Allocate

Spec == Init /\ [][Next]_vars

-----------------------------------------------------------------------------
(* Properties.                                                              *)

\* The load of the van is used up, strongest first: of every item the plan
\* asks for what the customers want in all, or for exactly the load when they
\* want more, no line is empty, and a customer whose quantity was reduced or
\* dropped is outranked by, or level with, everyone who still has some of the
\* item, by the score that feedback has weighed (apply_van_load_constraints).
LoadFollowsPriority ==
    stage = "done" =>
        /\ \A i \in Items :
              Wanted(OfItem(plan, i)) = Min({input.van[i], Wanted(OfItem(records, i))})
        /\ \A r \in plan : r.qty >= 1
        /\ \A cut \in records \ plan, served \in plan :
              served.item = cut.item /\ served.customer # cut.customer
                  => served.score >= cut.score

\* A first visit goes without a starter only for want of load: if nothing
\* failed, a planned customer without history has a line of every starter, or
\* the whole load of that item went to customers whose score is at least the
\* starter's. Feedback and the cuts cannot drop starters (gen_seed, _rows),
\* only apply_van_load_constraints can.
NewcomersAreServed ==
    stage = "done" /\ faults = 0 =>
        \A c \in Customers : ~Known(c) =>
            \A k \in Starters("seed") :
                \/ \E r \in plan : r.customer = c /\ r.item = k.item
                \/ /\ Wanted(OfItem(plan, k.item)) = input.van[k.item]
                   /\ \A r \in OfItem(plan, k.item) : r.score >= k.score
=============================================================================
