--------------------------- MODULE MCDailyRefresh ---------------------------
(* Instances of the nightly chain small enough for TLC.                     *)
EXTENDS DailyRefresh

TheWindow == {2}
=============================================================================
