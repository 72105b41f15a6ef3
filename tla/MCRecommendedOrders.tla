------------------------ MODULE MCRecommendedOrders ------------------------
(* Two routes, whose pages ask next to the grid, the cron and the nightly    *)
(* refresh.                                                                  *)
EXTENDS RecommendedOrders

CONSTANTS r1, r2
=============================================================================
