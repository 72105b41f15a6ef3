------------------------------ MODULE CarryChain ------------------------------
(***************************************************************************)
(* The van-load policy of one (route, item) pair: enrich_with_load walks    *)
(* the pair's days from the first one, carrying what its own policy would   *)
(* have left on the truck, and reconciliation_refresh merges the result     *)
(* into yf_sales_transactions, where past days are frozen.  One refresh is  *)
(* in flight at a time (_REFRESH_LOCK); sales may be posted meanwhile.      *)
(*                                                                          *)
(* Quantities are hundredths of a unit, ratios and quantiles are percents.  *)
(***************************************************************************)
EXTENDS Integers

CONSTANTS
    LastDay,    \* bound: the days followed
    MaxPosts,   \* bound: corrections of sales
    Forecasts,  \* what the model may predict for a day
    Limits,     \* quantile limits (q_10, q_90) it may predict
    Sales,      \* what a day may sell
    Classes,    \* demand classes
    Ratios,     \* calibration ratios of BiasService
    Bands,      \* envelopes <<floor, ceiling>> around the recent sales
    Horizons,   \* days behind today a refresh may write
    None        \* no row, no ratio, no envelope

ASSUME ChainAssumption ==
    /\ LastDay \in Nat \ {0} /\ MaxPosts \in Nat
    /\ Forecasts \subseteq Nat /\ Limits \subseteq Nat /\ Sales \subseteq Nat
    /\ Classes \subseteq {"smooth", "intermittent", "erratic", "lumpy"}
    /\ Ratios \subseteq Nat /\ Horizons \subseteq Nat
    /\ \A b \in Bands : b \in Nat \X Nat /\ b[1] <= b[2]
    /\ None \notin Ratios /\ None \notin Bands
    /\ None \notin [opening : Nat, load : Nat, leftover : Nat]

Days  == 1 .. LastDay
Row   == [opening : Nat, load : Nat, leftover : Nat]
Maybe(S) == S \cup {None}
Least(x, y)    == IF x <= y THEN x ELSE y
Greatest(x, y) == IF x >= y THEN x ELSE y

VARIABLES
    today,   \* the UTC date
    actual,  \* invoiced sales of each day so far, 0 when there are none
    posts,   \* how many corrections there were
    table,   \* model-side columns of yf_sales_transactions
    walk     \* the refresh in flight

vars == <<today, actual, posts, table, walk>>

\* what a refresh knows of the pair for all its days
Pairs == [class : Classes, ratio : Maybe(Ratios), band : Maybe(Bands), dormant : BOOLEAN]

\* a refresh that enriches the pair.  peak is a history variable: the largest
\* expected demand of the walk so far
Walks == [on : BOOLEAN, pair : Maybe(Pairs), horizon : Horizons \cup {0}, latest : Days \cup {0},
          sold : [Days -> Sales \cup {0}], day : Days \cup {0}, carry : Nat, peak : Nat,
          rows : [Days -> Maybe(Row)]]

NoSales == [d \in Days |-> 0]
NoRows  == [d \in Days |-> None]

Start(p, horizon, latest) ==
    [on |-> TRUE, pair |-> p, horizon |-> horizon, latest |-> latest, sold |-> actual,
     day |-> 0, carry |-> 0, peak |-> 0, rows |-> NoRows]

Resting ==
    [on |-> FALSE, pair |-> None, horizon |-> 0, latest |-> 0, sold |-> NoSales,
     day |-> 0, carry |-> 0, peak |-> 0, rows |-> NoRows]

Init ==
    /\ today = 1
    /\ actual = NoSales /\ posts = 0
    /\ table = NoRows
    /\ walk = Resting

-----------------------------------------------------------------------------
(* ReconciliationEngine and the envelope: what the policy expects to sell.  *)

\* loading_quantile_for_class
Quantile(class) ==
    [smooth |-> 50, intermittent |-> 40, erratic |-> 35, lumpy |-> 30][class]

Clip(x, lo, hi) == Least(Greatest(x, lo), hi)

\* the correction of erratic and lumpy items is trimmed; a pair without
\* history gets calibration_cold_start_ratio
Ratio(p) ==
    IF p.ratio = None THEN 85
    ELSE IF p.class \in {"erratic", "lumpy"} THEN Clip(p.ratio, 90, 110) ELSE p.ratio

Corrected(p, f) == (f * Ratio(p)) \div 100

\* L4: the class quantile, interpolated between the predicted limits, which
\* are pulled apart until they hold the corrected forecast
Target(p, f, qlo, qhi) ==
    LET mid == Corrected(p, f)
        lo  == Least(qlo, mid)
        hi  == Greatest(qhi, mid)
        q   == Quantile(p.class)
        at  == IF q < 50 THEN lo + ((q - 10) * (mid - lo)) \div 40
                         ELSE mid + ((q - 50) * (hi - mid)) \div 40
    IN  IF f > 0 THEN Greatest(at, 0) ELSE 0

Enveloped(p, x) == IF p.band = None THEN x ELSE Clip(x, p.band[1], p.band[2])

\* a dormant pair is expected to sell nothing, and so is one whose dominant
\* buyers are not on the day's journey
Expected(p, f, qlo, qhi, away) ==
    IF p.dormant \/ away THEN 0 ELSE Enveloped(p, Target(p, f, qlo, qhi))

-----------------------------------------------------------------------------
(* The world.                                                               *)

\* a sale, a return or a correction for a day that has begun
Post(d, qty) ==
    /\ d <= today /\ qty # actual[d]
    /\ posts < MaxPosts /\ posts' = posts + 1
    /\ actual' = [actual EXCEPT ![d] = qty]
    /\ UNCHANGED <<today, table, walk>>

NextDay ==
    /\ ~walk.on /\ today < LastDay
    /\ today' = today + 1
    /\ UNCHANGED <<actual, posts, table, walk>>

-----------------------------------------------------------------------------
(* refresh_reconciliation around enrich_with_load.                          *)

\* latest: newest day any pair has sales for (latest_actual_date); the sales are
\* fetched once, before the walk
Begin(p, horizon, latest) ==
    /\ ~walk.on
    /\ \A d \in Days : d > latest /\ d <= today => actual[d] = 0
    /\ walk' = Start(p, horizon, latest)
    /\ UNCHANGED <<today, actual, posts, table>>

\* Mutant: the van is loaded for the whole day whatever is left on it.
LoadOnTop(expected, opening) == expected
Load(expected, opening) == Greatest(0, expected - opening)

\* Mutant: sales beyond what the van had are taken from it all the same.
LeftOwing(van, demand) == van - demand
Left(van, demand) == van - Least(demand, van)

\* invoiced sales win; without them an absent buyer buys nothing
Demand(d, f, away) ==
    IF d <= walk.latest THEN walk.sold[d] ELSE IF away THEN 0 ELSE f

\* one day of the walk
Walk(f, qlo, qhi, away) ==
    LET d        == walk.day + 1
        expected == Expected(walk.pair, f, qlo, qhi, away)
        load     == Load(expected, walk.carry)
        left     == Left(walk.carry + load, Demand(d, f, away))
    IN  /\ walk.on /\ walk.day < today
        /\ walk' = [walk EXCEPT !.day = d, !.carry = left,
                                !.peak = Greatest(@, expected),
                                !.rows[d] = [opening |-> walk.carry, load |-> load, leftover |-> left]]
        /\ UNCHANGED <<today, actual, posts, table>>

\* a day the model has no row for does not move the carry
Skip ==
    /\ walk.on /\ walk.day < today
    /\ walk' = [walk EXCEPT !.day = @ + 1]
    /\ UNCHANGED <<today, actual, posts, table>>

\* the MERGE: days of the window; a past day keeps what it has unless NULL, a
\* day with sales and no forecast has NULL model columns
Merge ==
    /\ walk.on /\ walk.day = today
    /\ table' = [d \in Days |->
                    IF d > today \/ d < today - walk.horizon THEN table[d]
                    ELSE IF walk.rows[d] = None
                         THEN IF d = today /\ walk.sold[d] > 0 THEN None ELSE table[d]
                    ELSE IF d = today \/ table[d] = None THEN walk.rows[d]
                    ELSE table[d]]
    /\ walk' = Resting
    /\ UNCHANGED <<today, actual, posts>>

\* a refusal, an exception or the end of the process: nothing is written
GiveUp ==
    /\ walk.on
    /\ walk' = Resting
    /\ UNCHANGED <<today, actual, posts, table>>

-----------------------------------------------------------------------------
Next ==
    \/ \E d \in Days, qty \in Sales : Post(d, qty)
    \/ NextDay
    \/ \E p \in Pairs, h \in Horizons, latest \in 0 .. today : Begin(p, h, latest)
    \/ \E f \in Forecasts, qlo, qhi \in Limits, away \in BOOLEAN : Walk(f, qlo, qhi, away)
    \/ Skip
    \/ Merge
    \/ GiveUp

Spec == Init /\ [][Next]_vars

-----------------------------------------------------------------------------
\* The state has its shape: no walk and no merge ever leaves a negative load
\* or a negative stock on the truck (enrich_with_load).
ChainTypeOK ==
    /\ today \in Days
    /\ actual \in [Days -> Sales \cup {0}] /\ posts \in 0 .. MaxPosts
    /\ table \in [Days -> Maybe(Row)]
    /\ walk \in Walks
    /\ walk.on => walk.pair \in Pairs
    /\ walk.day <= today /\ walk.latest <= today

\* Leftovers never pile up: whatever was forecast, guarded, dormant or late,
\* the truck of the policy never carries, and is never loaded with, more than
\* the largest demand the policy expected of a day so far.
StockNeverPilesUp ==
    /\ walk.carry <= walk.peak
    /\ walk.on => \A d \in Days : walk.rows[d] # None =>
                      walk.rows[d].opening + walk.rows[d].load <= walk.peak
=============================================================================
