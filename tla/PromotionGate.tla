--------------------------- MODULE PromotionGate ---------------------------
(***************************************************************************)
(* demand_forecasting_pipeline/services/retrain_scheduler.py,              *)
(* evaluate_challenger: may a freshly trained model replace the champion?  *)
(* Accuracies are integers here; the code only subtracts and compares.     *)
(***************************************************************************)
EXTENDS Integers

CONSTANTS
    NoScore,     \* an accuracy that is missing, NaN or infinite
    Tolerance    \* challenger_max_regression_pp

ASSUME NoScoreAssumption == NoScore \notin Int
ASSUME ToleranceAssumption == Tolerance \in Int

Decisions == {"promote", "reject", "cold_start"}

Threshold == IF Tolerance > 0 THEN Tolerance ELSE 0

(* Mutant: a challenger without a score is promoted. *)
EvaluateUnknown(challenger, champion) ==
    IF champion = NoScore THEN "cold_start"
    ELSE IF challenger # NoScore /\ challenger - champion < -Threshold THEN "reject" ELSE "promote"

EvaluateChallenger(challenger, champion) ==
    CASE champion = NoScore -> "cold_start"
      [] champion # NoScore /\ challenger = NoScore -> "reject"
      [] champion # NoScore /\ challenger # NoScore ->
            IF challenger - champion < -Threshold THEN "reject" ELSE "promote"

(* PromotionDecision.update_pointer: only a reject holds the pointer back. *)
UpdatePointer(decision) == decision # "reject"
=============================================================================
