----------------------- MODULE MCSupervisionSessions -----------------------
(* Instances of the supervision service for TLC. *)
EXTENDS SupervisionSessions, TLC

CONSTANTS c1, c2

AllLosses == {"load", "recs", "write", "feed", "repair"}

(* The day starts with a plan that leaves a customer out. *)
FirstPlan == [c \in Customers |-> IF c = c2 THEN 0 ELSE Min(Qty)]
DayStart == Init /\ plan = FirstPlan /\ sales = [c \in Customers |-> Min(Qty) - FirstPlan[c]]
DaySpec == DayStart /\ [][Next]_vars /\ Fairness
=============================================================================
