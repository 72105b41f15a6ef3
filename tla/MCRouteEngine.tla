--------------------------- MODULE MCRouteEngine ---------------------------
(* Two customers and a newcomer, two items: what each bought of each item,   *)
(* the load of the van, the size of the route and the record of the lanes.   *)
EXTENDS RouteEngine

CONSTANTS i1, i2, c1, c2, c3

MCJourney == <<c1, c2, c3>>

Purchases(days, cycle, frequency, timing, average, recent, gaps) ==
    [days |-> days, cycle |-> cycle, frequency |-> frequency, timing |-> timing, volume |-> 80,
     steadiness |-> 80, average |-> average, recent |-> recent, historical |-> 10, gaps |-> gaps]

Regular == Purchases(9, 8, 60, 95, 5, 10, 4)   \* due, stable
Rising  == Purchases(6, 8, 40, 90, 3, 7, 4)    \* due, bought ever faster
Lapsed  == Purchases(200, 12, 30, 0, 2, 13, 2) \* long dormant
Pasts   == {Never, Regular, Rising, Lapsed}

Alike  == [low |-> 0, high |-> 365, p95 |-> 60]
Bands  == [frequency |-> Alike, dormancy |-> Alike, gate |-> Alike, confidence |-> Alike]
Outlier == [Bands EXCEPT !.frequency = [low |-> 30, high |-> 50, p95 |-> 45],
                         !.dormancy = [low |-> 100, high |-> 365, p95 |-> 250]]

Stats(active, p25, bands) ==
    [active |-> active, corpus |-> 8, frequency |-> 20, gap |-> 45, quantity |-> 25, cycle |-> 4,
     confidence |-> 45, p25 |-> p25, p50 |-> 55, p75 |-> 75, p90 |-> 92, basket25 |-> 3, basket75 |-> 9,
     bands |-> bands]

Evidence(n, hit) == [n |-> n, hit |-> hit, corpus |-> 40, prior |-> 2, previous |-> 100]
Plain   == [lane \in Range(Lanes) |-> Evidence(0, 0)]
Learned == [Plain EXCEPT !["history"] = Evidence(6, 10), !["peer"] = Evidence(6, 90),
                         !["reactivation"] = [Evidence(0, 0) EXCEPT !.previous = 50]]

MCInputs ==
    {[van   |-> [i \in Items |-> IF i = i1 THEN load[1] ELSE load[2]],
      past  |-> [c \in Customers |->
                    IF c = c1 THEN first ELSE IF c = c2 THEN second ELSE [i \in Items |-> Never]],
      habits |-> [c \in Customers |-> [basket |-> IF c = c1 THEN 10 ELSE 2, visits |-> 4, cycle |-> 3]],
      alike |-> [c \in Customers |-> [i \in Items |->
                    [score |-> IF c = c1 \/ i = i1 THEN 60 ELSE 30, qty |-> 4]]],
      together |-> [a \in Items |-> [i \in Items |-> [confidence |-> 65, qty |-> 3]]],
      evidence |-> lanes,
      stats |-> stats] :
        load \in {<<6, 2>>, <<0, 9>>, <<20, 5>>},
        first \in [Items -> Pasts], second \in [Items -> Pasts],
        lanes \in {Plain, Learned},
        stats \in {Stats(6, 35, Bands), Stats(2, 50, Outlier)}}
=============================================================================
