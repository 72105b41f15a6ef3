--------------------------- MODULE CarryChainProofs ---------------------------
(***************************************************************************)
(* Theorems of CarryChain, for any number of days, any forecasts, limits,   *)
(* sales and ratios.  The bound on the truck is inductive: the opening of a *)
(* day is the leftover of the one before, a load only fills up to the       *)
(* expected demand, and sales only take away.                               *)
(***************************************************************************)
EXTENDS CarryChain, TLAPS

ChainSafe == ChainTypeOK /\ StockNeverPilesUp

(* The percentages of the engine keep quantities natural numbers.           *)
LEMMA PercentNat == \A x \in Nat : x \div 100 \in Nat /\ x \div 40 \in Nat
  OBVIOUS

LEMMA ProductNat == \A x, y \in Nat : x * y \in Nat
  OBVIOUS

LEMMA ClipNat == \A x, lo, hi \in Nat : Clip(x, lo, hi) \in Nat
  BY DEF Clip, Least, Greatest

(* ReconciliationEngine never asks for a negative or fractional ratio.      *)
LEMMA RatioNat ==
  ASSUME NEW p \in Pairs PROVE Ratio(p) \in Nat
  <1>1. p.ratio # None => p.ratio \in Nat
    BY ChainAssumption DEF Pairs, Maybe
  <1>2. p.ratio # None => Clip(p.ratio, 90, 110) \in Nat
    BY <1>1, ClipNat
  <1> QED
    BY <1>1, <1>2 DEF Ratio

LEMMA QuantileBounds ==
  ASSUME NEW c \in Classes
  PROVE  /\ Quantile(c) \in Nat
         /\ Quantile(c) >= 10
  BY ChainAssumption DEF Quantile

(* The interpolation of L4 runs upwards from the lower limit or from the    *)
(* corrected forecast: the target is never negative.                        *)
LEMMA TargetNat ==
  ASSUME NEW p \in Pairs, NEW f \in Nat, NEW qlo \in Nat, NEW qhi \in Nat
  PROVE  Target(p, f, qlo, qhi) \in Nat
  <1> DEFINE mid == Corrected(p, f)
             lo  == Least(qlo, mid)
             hi  == Greatest(qhi, mid)
             q   == Quantile(p.class)
  <1>1. mid \in Nat
    <2>1. f * Ratio(p) \in Nat
      BY RatioNat, ProductNat
    <2> QED
      BY <2>1, PercentNat DEF Corrected
  <1>2. /\ lo \in Nat /\ mid - lo \in Nat
        /\ hi \in Nat /\ hi - mid \in Nat
    BY <1>1 DEF Least, Greatest
  <1>3. q \in Nat /\ q >= 10
    <2>1. p.class \in Classes
      BY DEF Pairs
    <2> QED
      BY <2>1, QuantileBounds
  <1>4. lo + ((q - 10) * (mid - lo)) \div 40 \in Nat
    <2>1. q - 10 \in Nat
      BY <1>3
    <2> HIDE DEF q, mid, lo
    <2>2. (q - 10) * (mid - lo) \in Nat
      BY <2>1, <1>2, ProductNat
    <2> QED
      BY <2>2, <1>2, PercentNat
  <1>5. q >= 50 => mid + ((q - 50) * (hi - mid)) \div 40 \in Nat
    <2> SUFFICES ASSUME q >= 50 PROVE mid + ((q - 50) * (hi - mid)) \div 40 \in Nat
      OBVIOUS
    <2>1. q - 50 \in Nat
      BY <1>3
    <2> HIDE DEF q, mid, hi
    <2>2. (q - 50) * (hi - mid) \in Nat
      BY <2>1, <1>2, ProductNat
    <2> QED
      BY <2>2, <1>1, PercentNat
  <1> DEFINE at == IF q < 50 THEN lo + ((q - 10) * (mid - lo)) \div 40
                             ELSE mid + ((q - 50) * (hi - mid)) \div 40
  <1>6. at \in Nat
    <2> HIDE DEF q, mid, lo, hi
    <2> QED BY <1>3, <1>4, <1>5
  <1>7. Target(p, f, qlo, qhi) = IF f > 0 THEN Greatest(at, 0) ELSE 0
    BY DEF Target
  <1> HIDE DEF at
  <1> QED
    BY <1>6, <1>7 DEF Greatest

(* What the policy expects to sell is a quantity.                           *)
LEMMA ExpectedNat ==
  ASSUME NEW p \in Pairs, NEW f \in Nat, NEW qlo \in Nat, NEW qhi \in Nat, NEW away \in BOOLEAN
  PROVE  Expected(p, f, qlo, qhi, away) \in Nat
  <1>1. p.band # None => p.band[1] \in Nat /\ p.band[2] \in Nat
    BY ChainAssumption DEF Pairs, Maybe
  <1>2. \A x \in Nat : Enveloped(p, x) \in Nat
    BY <1>1, ClipNat DEF Enveloped
  <1> QED
    BY <1>2, TargetNat DEF Expected

(* The truck after a day: filled to the expected demand or as it came, and  *)
(* emptied by the sales but never below nothing.                            *)
LEMMA TruckBound ==
  ASSUME NEW expected \in Nat, NEW opening \in Nat, NEW demand \in Nat
  PROVE  /\ Load(expected, opening) \in Nat
         /\ opening + Load(expected, opening) = Greatest(expected, opening)
         /\ Left(opening + Load(expected, opening), demand) \in Nat
         /\ Left(opening + Load(expected, opening), demand) <= opening + Load(expected, opening)
  BY DEF Load, Left, Greatest, Least

-----------------------------------------------------------------------------
LEMMA RestingSafe ==
  /\ Resting \in Walks /\ ~Resting.on /\ Resting.day = 0 /\ Resting.latest = 0
  /\ Resting.carry = 0 /\ Resting.peak = 0
  BY ChainAssumption DEF Resting, Walks, NoSales, NoRows, Maybe

THEOREM ChainInitSafe == Init => ChainSafe
  BY ChainAssumption, RestingSafe
     DEF Init, ChainSafe, ChainTypeOK, StockNeverPilesUp, NoSales, NoRows, Maybe, Days

LEMMA PostSafe ==
  ASSUME ChainSafe, NEW d \in Days, NEW qty \in Sales, Post(d, qty)
  PROVE  ChainSafe'
  <1>1. actual' \in [Days -> Sales \cup {0}] /\ posts' \in 0 .. MaxPosts
    BY ChainAssumption DEF ChainSafe, ChainTypeOK, Post
  <1>2. today' = today /\ table' = table /\ walk' = walk
    BY DEF Post
  <1>3. ChainTypeOK'
    BY <1>1, <1>2 DEF ChainSafe, ChainTypeOK
  <1>4. StockNeverPilesUp'
    BY <1>2 DEF ChainSafe, StockNeverPilesUp
  <1> QED
    BY <1>3, <1>4 DEF ChainSafe

LEMMA NextDaySafe ==
  ASSUME ChainSafe, NextDay
  PROVE  ChainSafe'
  <1>1. today' \in Days /\ today' >= today /\ today \in Nat
    BY ChainAssumption DEF ChainSafe, ChainTypeOK, NextDay, Days
  <1>2. actual' = actual /\ posts' = posts /\ table' = table /\ walk' = walk
    BY DEF NextDay
  <1>3. walk.day \in Nat /\ walk.latest \in Nat
    BY DEF ChainSafe, ChainTypeOK, Walks, Days
  <1>4. ChainTypeOK'
    BY <1>1, <1>2, <1>3 DEF ChainSafe, ChainTypeOK
  <1>5. StockNeverPilesUp'
    BY <1>2 DEF ChainSafe, StockNeverPilesUp
  <1> QED
    BY <1>4, <1>5 DEF ChainSafe

LEMMA BeginSafe ==
  ASSUME ChainSafe, NEW p \in Pairs, NEW h \in Horizons, NEW latest \in 0 .. today,
         Begin(p, h, latest)
  PROVE  ChainSafe'
  <1>1. /\ walk' \in Walks /\ walk'.pair \in Pairs /\ walk'.day = 0 /\ walk'.latest = latest
        /\ walk'.carry = 0 /\ walk'.peak = 0 /\ \A d \in Days : walk'.rows[d] = None
    BY ChainAssumption
       DEF Begin, Start, Walks, ChainSafe, ChainTypeOK, NoRows, Maybe, Days
  <1> QED
    BY <1>1, ChainAssumption DEF Begin, ChainSafe, ChainTypeOK, StockNeverPilesUp, Days

LEMMA DemandNat ==
  ASSUME ChainSafe, NEW d \in Days, NEW f \in Nat, NEW away \in BOOLEAN
  PROVE  Demand(d, f, away) \in Nat
  <1>1. walk.sold[d] \in Nat
    <2>1. walk.sold \in [Days -> Sales \cup {0}]
      BY DEF ChainSafe, ChainTypeOK, Walks
    <2>2. walk.sold[d] \in Sales \cup {0}
      BY <2>1
    <2>3. Sales \cup {0} \subseteq Nat
      BY ChainAssumption
    <2> QED
      BY <2>2, <2>3
  <1> QED
    BY <1>1 DEF Demand

(* One day of the walk.                                                     *)
LEMMA WalkSafe ==
  ASSUME ChainSafe, NEW f \in Forecasts, NEW qlo \in Limits, NEW qhi \in Limits,
         NEW away \in BOOLEAN, Walk(f, qlo, qhi, away)
  PROVE  ChainSafe'
  <1> DEFINE d        == walk.day + 1
             expected == Expected(walk.pair, f, qlo, qhi, away)
             load     == Load(expected, walk.carry)
             left     == Left(walk.carry + load, Demand(d, f, away))
             row      == [opening |-> walk.carry, load |-> load, leftover |-> left]
  <1>1. /\ walk.on /\ walk \in Walks /\ walk.pair \in Pairs
        /\ walk.carry \in Nat /\ walk.peak \in Nat /\ walk.carry <= walk.peak
        /\ walk.rows \in [Days -> Maybe(Row)]
    BY DEF Walk, ChainSafe, ChainTypeOK, StockNeverPilesUp, Walks
  <1>2. d \in Days /\ d <= today
    <2>1. walk.day \in Nat /\ today \in Days /\ walk.day < today
      BY DEF Walk, ChainSafe, ChainTypeOK, Walks, Days
    <2> QED
      BY <2>1, ChainAssumption DEF Days
  <1>3. f \in Nat /\ qlo \in Nat /\ qhi \in Nat
    BY ChainAssumption
  <1>4. expected \in Nat
    BY <1>1, <1>3, ExpectedNat
  <1>5. Demand(d, f, away) \in Nat
    BY <1>2, <1>3, DemandNat
  <1>6. walk' = [walk EXCEPT !.day = d, !.carry = left, !.peak = Greatest(walk.peak, expected),
                             !.rows[d] = row]
    BY DEF Walk
  <1> HIDE DEF d, expected
  <1>7. /\ load \in Nat /\ left \in Nat
        /\ walk.carry + load = Greatest(expected, walk.carry)
        /\ left <= walk.carry + load
    BY <1>1, <1>4, <1>5, TruckBound
  <1>8. row \in Row /\ row # None /\ row.opening + row.load = Greatest(expected, walk.carry)
    BY <1>1, <1>7, ChainAssumption DEF Row
  <1> HIDE DEF load, left, row
  <1>9. Greatest(walk.peak, expected) \in Nat
    BY <1>1, <1>4 DEF Greatest
  <1>10. /\ walk' \in Walks /\ walk'.pair = walk.pair /\ walk'.on
         /\ walk'.day = d /\ walk'.latest = walk.latest
         /\ walk'.carry = left /\ walk'.peak = Greatest(walk.peak, expected)
         /\ walk'.rows = [walk.rows EXCEPT ![d] = row]
    BY <1>1, <1>2, <1>6, <1>7, <1>8, <1>9 DEF Walks, Maybe
  <1>11. ChainTypeOK'
    BY <1>1, <1>2, <1>10 DEF Walk, ChainSafe, ChainTypeOK
  <1>12. Greatest(walk.peak, expected) >= walk.peak /\ Greatest(walk.peak, expected) >= expected
    BY <1>1, <1>4 DEF Greatest
  <1>13. Greatest(expected, walk.carry) <= Greatest(walk.peak, expected)
    BY <1>1, <1>4 DEF Greatest
  <1>14. walk'.carry <= walk'.peak
    BY <1>1, <1>4, <1>7, <1>9, <1>10, <1>13 DEF Greatest
  <1>15. ASSUME NEW e \in Days, walk'.rows[e] # None
         PROVE  walk'.rows[e].opening + walk'.rows[e].load <= walk'.peak
    <2>1. CASE e = d
      <3>1. walk'.rows[e] = row
        BY <2>1, <1>1, <1>10
      <3> QED
        BY <3>1, <1>8, <1>10, <1>13
    <2>2. CASE e # d
      <3>1. walk'.rows[e] = walk.rows[e]
        BY <2>2, <1>1, <1>10
      <3>2. walk.rows[e] \in Row
        BY <3>1, <1>1, <1>15 DEF Maybe
      <3>3. walk.rows[e].opening + walk.rows[e].load <= walk.peak
        BY <3>1, <1>1, <1>15 DEF ChainSafe, StockNeverPilesUp
      <3> QED
        BY <3>1, <3>2, <3>3, <1>1, <1>9, <1>10, <1>12 DEF Row
    <2> QED
      BY <2>1, <2>2
  <1> QED
    BY <1>11, <1>14, <1>15 DEF ChainSafe, StockNeverPilesUp

LEMMA SkipSafe ==
  ASSUME ChainSafe, Skip
  PROVE  ChainSafe'
  <1>1. /\ walk' \in Walks /\ walk'.pair = walk.pair /\ walk'.on = walk.on
        /\ walk'.day = walk.day + 1 /\ walk'.day <= today /\ walk'.latest = walk.latest
        /\ walk'.carry = walk.carry /\ walk'.peak = walk.peak /\ walk'.rows = walk.rows
    <2>1. walk \in Walks /\ walk' = [walk EXCEPT !.day = walk.day + 1]
      BY DEF Skip, ChainSafe, ChainTypeOK
    <2>2. walk.day + 1 \in Days /\ walk.day + 1 <= today
      <3>1. walk.day \in Nat /\ today \in Days /\ walk.day < today
        BY DEF Skip, ChainSafe, ChainTypeOK, Walks, Days
      <3> QED
        BY <3>1, ChainAssumption DEF Days
    <2> QED
      BY <2>1, <2>2 DEF Walks
  <1> QED
    BY <1>1 DEF Skip, ChainSafe, ChainTypeOK, StockNeverPilesUp

LEMMA MergeSafe ==
  ASSUME ChainSafe, Merge
  PROVE  ChainSafe'
  <1>1. table' \in [Days -> Maybe(Row)]
    BY DEF Merge, ChainSafe, ChainTypeOK, Walks, Maybe
  <1> QED
    BY <1>1, RestingSafe, ChainAssumption
       DEF Merge, ChainSafe, ChainTypeOK, StockNeverPilesUp, Days

LEMMA GiveUpSafe ==
  ASSUME ChainSafe, GiveUp
  PROVE  ChainSafe'
  BY RestingSafe, ChainAssumption DEF GiveUp, ChainSafe, ChainTypeOK, StockNeverPilesUp, Days

(* Every step keeps the shape of the state and the bound on the truck.      *)
THEOREM ChainNextSafe == ChainSafe /\ [Next]_vars => ChainSafe'
  <1> SUFFICES ASSUME ChainSafe, [Next]_vars PROVE ChainSafe'
    OBVIOUS
  <1>1. CASE \E d \in Days, qty \in Sales : Post(d, qty)
    BY <1>1, PostSafe
  <1>2. CASE NextDay
    BY <1>2, NextDaySafe
  <1>3. CASE \E p \in Pairs, h \in Horizons, latest \in 0 .. today : Begin(p, h, latest)
    BY <1>3, BeginSafe
  <1>4. CASE \E f \in Forecasts, qlo, qhi \in Limits, away \in BOOLEAN : Walk(f, qlo, qhi, away)
    BY <1>4, WalkSafe
  <1>5. CASE Skip
    BY <1>5, SkipSafe
  <1>6. CASE Merge
    BY <1>6, MergeSafe
  <1>7. CASE GiveUp
    BY <1>7, GiveUpSafe
  <1>8. CASE UNCHANGED vars
    BY <1>8 DEF vars, ChainSafe, ChainTypeOK, StockNeverPilesUp
  <1> QED
    BY <1>1, <1>2, <1>3, <1>4, <1>5, <1>6, <1>7, <1>8 DEF Next

LEMMA ChainAlwaysSafe == Spec => []ChainSafe
  BY ChainInitSafe, ChainNextSafe, PTL DEF Spec

(* Whatever is forecast and sold, loads, openings and leftovers stay        *)
(* natural quantities (enrich_with_load, the MERGE).                        *)
THEOREM ChainTypeCorrect == Spec => []ChainTypeOK
  <1>1. ChainSafe => ChainTypeOK
    BY DEF ChainSafe
  <1> QED
    BY <1>1, ChainAlwaysSafe, PTL

(* The carry chain never accumulates: over any number of days the truck     *)
(* holds no more than the largest demand the policy expected of a day.      *)
THEOREM TruckIsBounded == Spec => []StockNeverPilesUp
  <1>1. ChainSafe => StockNeverPilesUp
    BY DEF ChainSafe
  <1> QED
    BY <1>1, ChainAlwaysSafe, PTL
=============================================================================
