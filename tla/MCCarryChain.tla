----------------------------- MODULE MCCarryChain -----------------------------
(* Instances of the carry chain small enough for TLC. *)
EXTENDS CarryChain

SomeForecasts == {0, 200}
SomeLimits    == {100}
SomeSales     == {0, 100}
SomeClasses   == {"smooth", "lumpy"}
SomeRatios    == {150}
SomeBands     == {<<50, 250>>}
Yesterday     == {1}
=============================================================================
