----------------------- MODULE RecommendedOrdersProofs -----------------------
(***************************************************************************)
(* Proofs about RecommendedOrders: its types, the order of the two writes   *)
(* of a plan, and which plans wait for the chain.                           *)
(***************************************************************************)
EXTENDS RecommendedOrders, TLAPS

Pcs == {"idle", "checking", "reading", "publishing", "choosing", "guarding", "refreshing",
        "rechecking", "gap", "working"}

\* what OrdersTypeOK says of one call
CallOK(x) ==
    /\ x \in Calls
    /\ x.pc = "publishing" => x.read \in Nat
    /\ \A r \in Routes : x.work[r] \in {"made", "pushed"} => x.plan[r] \in Plan

\* what it says of everything else
RestOK ==
    /\ disk \in Nat /\ chain \in BOOLEAN
    /\ frame \in Nat /\ seen \in Maybe(Nat)
    /\ table \in [Routes -> Maybe(Plan)] /\ file \in [Routes -> Maybe(Plan)]
    /\ calls \in Nat /\ faults \in Nat

\* A call that has not begun is a call.
LEMMA IdleIsACall == CallOK(Idle)
  <1>1. [r \in Routes |-> "none"] \in [Routes -> {"none", "due", "made", "pushed"}]
    OBVIOUS
  <1>2. [r \in Routes |-> None] \in [Routes -> Maybe(Plan)]
    BY DEF Maybe
  <1>3. Idle \in Calls
    BY <1>1, <1>2 DEF Idle, Calls, Maybe
  <1> QED BY <1>3 DEF CallOK, Idle

\* The type invariant, call by call.
LEMMA CallByCall ==
  OrdersTypeOK <=> RestOK /\ call \in [Callers -> Calls] /\ \A c \in Callers : CallOK(call[c])
  BY DEF OrdersTypeOK, RestOK, CallOK, At

\* Moving a call on keeps it a call, unless it claims to have read.
LEMMA MovedOn ==
  ASSUME NEW x, CallOK(x), NEW p \in Pcs \ {"publishing"}
  PROVE  CallOK([x EXCEPT !.pc = p])
  BY DEF CallOK, Calls, Pcs

\* One call changes, and nothing else of it is disturbed.
LEMMA OneCallChanges ==
  ASSUME OrdersTypeOK, NEW c \in Callers, NEW x, CallOK(x), call' = [call EXCEPT ![c] = x], RestOK'
  PROVE  OrdersTypeOK'
  <1>1. call \in [Callers -> Calls] /\ \A d \in Callers : CallOK(call[d])
    BY CallByCall
  <1>2. x \in Calls
    BY DEF CallOK
  <1>3. call' \in [Callers -> Calls]
    BY <1>1, <1>2
  <1>4. \A d \in Callers : CallOK(call'[d])
    BY <1>1
  <1> QED BY <1>3, <1>4 DEF OrdersTypeOK, RestOK, CallOK, At

\* The initial state has its shape.
LEMMA InitTyped == Init => OrdersTypeOK
  <1> SUFFICES ASSUME Init PROVE OrdersTypeOK
    OBVIOUS
  <1>1. RestOK
    BY DEF Init, RestOK, Maybe
  <1>2. call \in [Callers -> Calls] /\ \A c \in Callers : CallOK(call[c])
    BY IdleIsACall DEF Init, CallOK
  <1> QED BY <1>1, <1>2, CallByCall

\* Every step of a call keeps the shape.
LEMMA StepTyped ==
  ASSUME OrdersTypeOK, NEW c \in Callers, Step(c)
  PROVE  OrdersTypeOK'
  <1> DEFINE x == call[c]
  <1>a. CallOK(x) /\ RestOK /\ x \in Calls /\ call \in [Callers -> Calls]
    BY CallByCall
  <1>b. ASSUME NEW p \in Pcs \ {"publishing"}, Go(c, p), RestOK'
        PROVE  OrdersTypeOK'
    <2>1. call' = [call EXCEPT ![c] = [x EXCEPT !.pc = p]]
      BY <1>b DEF Go
    <2> QED BY <2>1, <1>a, <1>b, MovedOn, OneCallChanges
  <1>c. ASSUME End(c), RestOK' PROVE OrdersTypeOK'
    BY <1>c, IdleIsACall, OneCallChanges DEF End
  <1>d. ASSUME Return(c), RestOK' PROVE OrdersTypeOK'
    <2>1. CASE c = Nightly \/ ~x.ok
      BY <2>1, <1>c, <1>d DEF Return
    <2>2. CASE ~(c = Nightly \/ ~x.ok)
      <3> DEFINE y == [x EXCEPT !.pc = "reading", !.cascade = FALSE, !.healed = TRUE]
      <3>1. call' = [call EXCEPT ![c] = y]
        BY <2>2, <1>d DEF Return
      <3>2. CallOK(y)
        BY <1>a DEF CallOK, Calls
      <3> QED BY <3>1, <3>2, <1>d, OneCallChanges
    <2> QED BY <2>1, <2>2
  <1>e. ASSUME Leave(c), RestOK' PROVE OrdersTypeOK'
    BY <1>e, <1>c, <1>d DEF Leave
  <1>f. ASSUME Loaded, Stored, Sources, calls' \in Nat, faults' \in Nat PROVE RestOK'
    BY <1>a, <1>f DEF RestOK, Loaded, Stored, Sources
  <1>g. ASSUME UNCHANGED calls, Fine \/ Fault PROVE calls' \in Nat /\ faults' \in Nat
    BY <1>a, <1>g DEF RestOK, Fine, Fault
  <1>1. CASE Check(c)
    <2>1. RestOK'
      BY <1>1, <1>f, <1>g DEF Check
    <2>2. \/ Go(c, "choosing") \/ Go(c, "reading")
      BY <1>1 DEF Check
    <2> QED BY <2>1, <2>2, <1>b DEF Pcs
  <1>2. CASE Read(c)
    <2> DEFINE y == [x EXCEPT !.pc = "publishing", !.read = disk]
    <2>1. RestOK'
      BY <1>2, <1>f, <1>g DEF Read
    <2>2. call' = [call EXCEPT ![c] = y]
      BY <1>2 DEF Read
    <2>3. CallOK(y)
      BY <1>a DEF CallOK, Calls, RestOK, Maybe
    <2> QED BY <2>1, <2>2, <2>3, OneCallChanges
  <1>3. CASE ReadFails(c)
    <2>1. RestOK'
      BY <1>3, <1>f, <1>g DEF ReadFails
    <2>2. Go(c, "rechecking") \/ Go(c, "choosing")
      BY <1>3 DEF ReadFails, AfterLoad
    <2> QED BY <2>1, <2>2, <1>b DEF Pcs
  <1>4. CASE Publish(c)
    <2> DEFINE y == [x EXCEPT !.pc = AfterLoad(c), !.read = None]
    <2>1. RestOK'
      BY <1>4, <1>a, <1>g DEF Publish, RestOK, Stored, Sources, CallOK, At, Maybe
    <2>2. call' = [call EXCEPT ![c] = y]
      BY <1>4 DEF Publish
    <2>3. CallOK(y)
      BY <1>a DEF CallOK, Calls, AfterLoad, Maybe
    <2> QED BY <2>1, <2>2, <2>3, OneCallChanges
  <1>5. CASE Choose(c)
    <2>1. RestOK'
      BY <1>5, <1>f, <1>g DEF Choose
    <2>2. CASE Leave(c)
      BY <2>1, <2>2, <1>e
    <2>3. CASE Go(c, "gap")
      BY <2>1, <2>3, <1>b DEF Pcs
    <2>4. CASE call' = [call EXCEPT ![c].pc = "guarding", ![c].want = Wanted(c)] /\ ~x.cascade
      <3> DEFINE y == [x EXCEPT !.pc = "guarding", !.want = Wanted(c)]
      <3>1. call' = [call EXCEPT ![c] = y]
        BY <2>4
      <3>2. Wanted(c) \in SUBSET Routes
        BY DEF Wanted, Unplanned, Callers
      <3>3. CallOK(y)
        BY <3>2, <1>a DEF CallOK, Calls
      <3> QED BY <2>1, <3>1, <3>3, OneCallChanges
    <2> QED BY <1>5, <2>2, <2>3, <2>4 DEF Choose
  <1>6. CASE Guard(c)
    <2>1. RestOK'
      BY <1>6, <1>f, <1>g DEF Guard
    <2>2. Go(c, "gap") \/ Go(c, "refreshing")
      BY <1>6 DEF Guard
    <2> QED BY <2>1, <2>2, <1>b DEF Pcs
  <1>7. CASE Refresh(c)
    <2>1. RestOK'
      BY <1>7, <1>a, <1>g DEF Refresh, RestOK, Loaded, Stored
    <2>0. PICK ok \in BOOLEAN :
             call' = [call EXCEPT ![c].pc = "checking", ![c].cascade = TRUE, ![c].ok = ok]
      BY <1>7 DEF Refresh
    <2> DEFINE y == [x EXCEPT !.pc = "checking", !.cascade = TRUE, !.ok = ok]
    <2>2. call' = [call EXCEPT ![c] = y]
      BY <2>0
    <2>3. CallOK(y)
      BY <1>a DEF CallOK, Calls
    <2> QED BY <2>1, <2>2, <2>3, OneCallChanges
  <1>8. CASE RefreshFails(c)
    <2>1. RestOK'
      BY <1>8, <1>f, <1>g DEF RefreshFails
    <2> QED BY <2>1, <1>8, <1>c DEF RefreshFails
  <1>9. CASE CascadeLost(c)
    <2>1. RestOK'
      BY <1>9, <1>a, <1>g DEF CascadeLost, RestOK, Loaded, Stored
    <2> QED BY <2>1, <1>9, <1>c DEF CascadeLost
  <1>14. CASE RefreshMisses(c)
    <2>1. RestOK'
      BY <1>14, <1>f, <1>g DEF RefreshMisses
    <2> QED BY <2>1, <1>14, <1>d DEF RefreshMisses
  <1>10. CASE Recheck(c)
    <2>1. RestOK'
      BY <1>10, <1>f, <1>g DEF Recheck
    <2>2. Go(c, "gap") \/ End(c)
      BY <1>10 DEF Recheck
    <2> QED BY <2>1, <2>2, <1>b, <1>c DEF Pcs
  <1>11. CASE Gap(c)
    <2> DEFINE w == [r \in Routes |-> IF r \in ToGenerate(c) THEN "due" ELSE "none"]
               y == [x EXCEPT !.pc = "working", !.work = w]
    <2>1. RestOK'
      BY <1>11, <1>f, <1>g DEF Gap
    <2>2. call' = [call EXCEPT ![c] = y]
      BY <1>11 DEF Gap
    <2>3. w \in [Routes -> {"none", "due"}]
      OBVIOUS
    <2>4. CallOK(y)
      BY <2>3, <1>a DEF CallOK, Calls
    <2> QED BY <2>1, <2>2, <2>4, OneCallChanges
  <1>12. CASE Finish(c)
    <2>1. RestOK'
      BY <1>12, <1>f, <1>g DEF Finish
    <2> QED BY <2>1, <1>12, <1>e DEF Finish
  <1>13. CASE \E r \in Routes : Route(c, r)
    <2>1. PICK r \in Routes : Route(c, r)
      BY <1>13
    <2>a. ASSUME Over(c, r), RestOK' PROVE OrdersTypeOK'
      <3> DEFINE y == [x EXCEPT !.work[r] = "none", !.plan[r] = None]
      <3>1. call' = [call EXCEPT ![c] = y]
        BY <2>a DEF Over
      <3>2. CallOK(y)
        BY <1>a DEF CallOK, Calls, Maybe
      <3> QED BY <3>1, <3>2, <2>a, OneCallChanges
    <2>2. CASE Make(c, r)
      <3>1. RestOK'
        BY <2>2, <1>f, <1>g DEF Make
      <3>2. CASE Over(c, r)
        BY <3>1, <3>2, <2>a
      <3>3. CASE ~Over(c, r)
        <4> DEFINE p == [frame |-> frame, early |-> ~chain, cascade |-> call[c].cascade]
                   y == [x EXCEPT !.work[r] = "made", !.plan[r] = p]
        <4>1. call' = [call EXCEPT ![c] = y]
          BY <3>3, <2>2 DEF Make
        <4>2. p \in Plan
          BY <1>a DEF Plan, RestOK, Calls
        <4>3. CallOK(y)
          <5> HIDE DEF p
          <5> QED BY <4>2, <1>a DEF CallOK, Calls, Maybe
        <4> QED BY <3>1, <4>1, <4>3, OneCallChanges
      <3> QED BY <3>2, <3>3
    <2>3. CASE Push(c, r)
      <3> DEFINE y == [x EXCEPT !.work[r] = "pushed"]
      <3>1. x.plan[r] \in Plan
        BY <2>3, <1>a DEF Push, Working, CallOK
      <3>2. RestOK'
        BY <3>1, <2>3, <1>a, <1>g DEF Push, RestOK, Loaded, Sources, Maybe
      <3>3. call' = [call EXCEPT ![c] = y]
        BY <2>3 DEF Push
      <3>4. CallOK(y)
        BY <3>1, <1>a DEF CallOK, Calls
      <3> QED BY <3>2, <3>3, <3>4, OneCallChanges
    <2>4. CASE Save(c, r)
      <3>1. x.plan[r] \in Plan
        BY <2>4, <1>a DEF Save, Working, CallOK
      <3>2. RestOK'
        BY <3>1, <2>4, <1>a, <1>g DEF Save, RestOK, Loaded, Sources, Maybe
      <3> QED BY <3>2, <2>4, <2>a DEF Save
    <2>5. CASE RouteFails(c, r)
      <3>1. RestOK'
        BY <2>5, <1>f, <1>g DEF RouteFails
      <3> QED BY <3>1, <2>5, <2>a DEF RouteFails
    <2> QED BY <2>1, <2>2, <2>3, <2>4, <2>5 DEF Route
  <1> QED
    BY <1>1, <1>2, <1>3, <1>4, <1>5, <1>6, <1>7, <1>8, <1>9, <1>10, <1>11, <1>12, <1>13, <1>14 DEF Step

\* So does everything else that may happen.
LEMMA NextTyped ==
  ASSUME OrdersTypeOK, [Next]_vars
  PROVE  OrdersTypeOK'
  <1>a. RestOK /\ call \in [Callers -> Calls] /\ \A c \in Callers : CallOK(call[c])
    BY CallByCall
  <1>1. CASE Import
    BY <1>1 DEF Import, OrdersTypeOK, At
  <1>2. CASE Restart
    <2> DEFINE again == [Idle EXCEPT !.pc = "checking", !.cascade = TRUE]
    <2>1. RestOK'
      BY <1>2, <1>a DEF Restart, RestOK, Fault, Stored, Sources, Maybe
    <2>2. CallOK(again)
      BY IdleIsACall DEF CallOK, Calls
    <2>3. PICK b \in BOOLEAN :
             call' = [c \in Callers |->
                        IF c # Nightly THEN Idle
                        ELSE IF call[c].cascade THEN IF b THEN again ELSE Idle
                        ELSE call[c]]
      BY <1>2 DEF Restart
    <2>4. \A c \in Callers : CallOK(call'[c]) /\ call'[c] \in Calls
      <3> HIDE DEF again
      <3>1. \A c \in Callers : CallOK(call'[c])
        BY <2>2, <2>3, <1>a, IdleIsACall
      <3> QED BY <3>1 DEF CallOK
    <2>5. call' \in [Callers -> Calls]
      BY <2>3, <2>4
    <2> QED BY <2>1, <2>4, <2>5 DEF OrdersTypeOK, RestOK, CallOK, At
  <1>3. ASSUME NEW c \in Callers, Start(c) PROVE OrdersTypeOK'
    <2> DEFINE y == [call[c] EXCEPT !.pc = Entry(c)]
    <2>1. RestOK'
      BY <1>3, <1>a DEF Start, RestOK, Fine, Loaded, Stored, Sources
    <2>2. call' = [call EXCEPT ![c] = y]
      BY <1>3 DEF Start, Go
    <2>3. Entry(c) \in Pcs \ {"publishing"}
      BY DEF Entry, Pcs
    <2> QED BY <2>1, <2>2, <2>3, <1>a, MovedOn, OneCallChanges
  <1>4. CASE UNCHANGED vars
    BY <1>4 DEF vars, OrdersTypeOK, At
  <1> QED BY <1>1, <1>2, <1>3, <1>4, StepTyped DEF Next

\* In every reachable state of the service the variables have their shape.
THEOREM OrdersTypeCorrect == Spec => []OrdersTypeOK
  BY InitTyped, NextTyped, PTL DEF Spec

-----------------------------------------------------------------------------
(* The order of the writes.                                                 *)

\* a route that is about to be saved is in the table
Pushed ==
    \A c \in Callers, r \in Routes : call[c].work[r] = "pushed" => table[r] # None

\* Steps of a call that do not push leave no route more pushed than before.
LEMMA PushedBefore ==
  ASSUME OrdersTypeOK, [Next]_vars,
         NEW c \in Callers, NEW r \in Routes, call'[c].work[r] = "pushed"
  PROVE  call[c].work[r] = "pushed" \/ Push(c, r)
  <1>a. call \in [Callers -> Calls]
    BY DEF OrdersTypeOK
  <1>b. Idle.work[r] = "none"
    BY DEF Idle
  <1>1. CASE Import \/ UNCHANGED vars
    BY <1>1 DEF Import, vars
  <1>2. CASE Restart
    BY <1>2, <1>a, <1>b DEF Restart, Calls, Idle
  <1>3. ASSUME NEW d \in Callers, Start(d) PROVE call[c].work[r] = "pushed"
    BY <1>3, <1>a DEF Start, Go, Calls
  <1>4. ASSUME NEW d \in Callers, Step(d) PROVE call[c].work[r] = "pushed" \/ Push(c, r)
    <2>a. ASSUME NEW y, call' = [call EXCEPT ![d] = y], y.work[r] = "pushed" => call[d].work[r] = "pushed"
          PROVE  call[c].work[r] = "pushed"
      BY <2>a, <1>a
    <2>b. ASSUME NEW p, Go(d, p) PROVE call[c].work[r] = "pushed"
      <3> DEFINE y == [call[d] EXCEPT !.pc = p]
      <3>1. call' = [call EXCEPT ![d] = y]
        BY <2>b DEF Go
      <3>2. y.work[r] = call[d].work[r]
        BY <1>a DEF Calls
      <3> QED BY <3>1, <3>2, <2>a
    <2>c. ASSUME End(d) PROVE call[c].work[r] = "pushed"
      BY <2>c, <2>a, <1>b DEF End
    <2>d. ASSUME Return(d) PROVE call[c].work[r] = "pushed"
      <3>1. CASE d = Nightly \/ ~call[d].ok
        BY <3>1, <2>d, <2>c DEF Return
      <3>2. CASE ~(d = Nightly \/ ~call[d].ok)
        <4> DEFINE y == [call[d] EXCEPT !.pc = "reading", !.cascade = FALSE, !.healed = TRUE]
        <4>1. call' = [call EXCEPT ![d] = y]
          BY <3>2, <2>d DEF Return
        <4>2. y.work[r] = call[d].work[r]
          BY <1>a DEF Calls
        <4> QED BY <4>1, <4>2, <2>a
      <3> QED BY <3>1, <3>2
    <2>e. ASSUME Leave(d) PROVE call[c].work[r] = "pushed"
      BY <2>e, <2>c, <2>d DEF Leave
    <2>f. ASSUME NEW q \in Routes, Over(d, q) PROVE call[c].work[r] = "pushed"
      <3> DEFINE y == [call[d] EXCEPT !.work[q] = "none", !.plan[q] = None]
      <3>1. call' = [call EXCEPT ![d] = y]
        BY <2>f DEF Over
      <3>2. y.work[r] = "pushed" => call[d].work[r] = "pushed"
        BY <1>a DEF Calls
      <3> QED BY <3>1, <3>2, <2>a
    <2>1. CASE Check(d) \/ ReadFails(d) \/ Guard(d)
      BY <2>1, <2>b DEF Check, ReadFails, Guard
    <2>7. CASE Read(d) \/ Publish(d)
      BY <2>7, <1>a DEF Read, Publish, Calls
    <2>6. CASE Refresh(d)
      <3>1. PICK ok \in BOOLEAN :
               call' = [call EXCEPT ![d].pc = "checking", ![d].cascade = TRUE, ![d].ok = ok]
        BY <2>6 DEF Refresh
      <3> DEFINE y == [call[d] EXCEPT !.pc = "checking", !.cascade = TRUE, !.ok = ok]
      <3>2. call' = [call EXCEPT ![d] = y]
        BY <3>1
      <3>3. y.work[r] = call[d].work[r]
        BY <1>a DEF Calls
      <3> QED BY <3>2, <3>3, <2>a
    <2>2. CASE Choose(d)
      <3>1. CASE call' = [call EXCEPT ![d].pc = "guarding", ![d].want = Wanted(d)]
        <4> DEFINE y == [call[d] EXCEPT !.pc = "guarding", !.want = Wanted(d)]
        <4>1. call' = [call EXCEPT ![d] = y]
          BY <3>1
        <4>2. y.work[r] = call[d].work[r]
          BY <1>a DEF Calls
        <4> QED BY <4>1, <4>2, <2>a
      <3> QED BY <3>1, <2>2, <2>b, <2>e DEF Choose
    <2>3. CASE RefreshMisses(d) \/ RefreshFails(d) \/ CascadeLost(d) \/ Recheck(d) \/ Finish(d)
      BY <2>3, <2>b, <2>c, <2>d, <2>e DEF RefreshMisses, RefreshFails, CascadeLost, Recheck, Finish
    <2>4. CASE Gap(d)
      BY <2>4, <1>a DEF Gap, Calls
    <2>5. ASSUME NEW q \in Routes, Route(d, q) PROVE call[c].work[r] = "pushed" \/ Push(c, r)
      <3>1. CASE Push(d, q)
        BY <3>1, <1>a DEF Push, Calls
      <3>2. CASE Make(d, q)
        <4>1. CASE ~Over(d, q)
          <5> DEFINE p == [frame |-> frame, early |-> ~chain, cascade |-> call[d].cascade]
                     y == [call[d] EXCEPT !.work[q] = "made", !.plan[q] = p]
          <5>1. call' = [call EXCEPT ![d] = y]
            BY <4>1, <3>2 DEF Make
          <5>2. y.work[r] = "pushed" => call[d].work[r] = "pushed"
            BY <1>a DEF Calls
          <5> QED BY <5>1, <5>2, <2>a
        <4> QED BY <4>1, <2>f
      <3>3. CASE Save(d, q) \/ RouteFails(d, q)
        BY <3>3, <2>f DEF Save, RouteFails
      <3> QED BY <2>5, <3>1, <3>2, <3>3 DEF Route
    <2> QED BY <1>4, <2>1, <2>2, <2>3, <2>4, <2>5, <2>6, <2>7 DEF Step
  <1> QED BY <1>1, <1>2, <1>3, <1>4 DEF Next

\* Only a push changes the table, to a plan.
LEMMA TableGrows ==
  ASSUME OrdersTypeOK, [Next]_vars, NEW r \in Routes
  PROVE  \/ table'[r] = table[r]
         \/ \E c \in Callers : Push(c, r) /\ table'[r] = call[c].plan[r] /\ table'[r] \in Plan
  <1>a. table \in [Routes -> Maybe(Plan)]
    BY DEF OrdersTypeOK
  <1>1. CASE Import \/ Restart \/ UNCHANGED vars
    BY <1>1 DEF Import, Restart, Stored, vars
  <1>2. ASSUME NEW c \in Callers, Start(c) PROVE table' = table
    BY <1>2 DEF Start, Stored
  <1>3. ASSUME NEW c \in Callers, NEW q \in Routes, Push(c, q)
        PROVE  table'[r] = table[r] \/ (q = r /\ table'[r] = call[c].plan[r] /\ table'[r] \in Plan)
    BY <1>3, <1>a DEF Push, Working, OrdersTypeOK
  <1>4. ASSUME NEW c \in Callers, Step(c), \A q \in Routes : ~Push(c, q) PROVE table' = table
    BY <1>4 DEF Step, Route, Check, Read, ReadFails, Publish, Choose, Guard, Refresh, RefreshMisses, RefreshFails,
                CascadeLost, Recheck, Gap, Finish, Make, Save, RouteFails, Stored
  <1> QED BY <1>1, <1>2, <1>3, <1>4 DEF Next

\* Only a save changes the CSV of a route.
LEMMA FileGrows ==
  ASSUME OrdersTypeOK, [Next]_vars, NEW r \in Routes
  PROVE  file'[r] = file[r] \/ \E c \in Callers : Save(c, r) /\ file'[r] = call[c].plan[r]
  <1>a. file \in [Routes -> Maybe(Plan)]
    BY DEF OrdersTypeOK
  <1>1. CASE Import \/ Restart \/ UNCHANGED vars
    BY <1>1 DEF Import, Restart, Stored, vars
  <1>2. ASSUME NEW c \in Callers, Start(c) PROVE file' = file
    BY <1>2 DEF Start, Stored
  <1>3. ASSUME NEW c \in Callers, NEW q \in Routes, Save(c, q)
        PROVE  file'[r] = file[r] \/ (q = r /\ file'[r] = call[c].plan[r])
    BY <1>3, <1>a DEF Save
  <1>4. ASSUME NEW c \in Callers, Step(c), \A q \in Routes : ~Save(c, q) PROVE file' = file
    BY <1>4 DEF Step, Route, Check, Read, ReadFails, Publish, Choose, Guard, Refresh, RefreshMisses, RefreshFails,
                CascadeLost, Recheck, Gap, Finish, Make, Push, RouteFails, Stored
  <1> QED BY <1>1, <1>2, <1>3, <1>4 DEF Next

\* For any routes and any overlap of generations, failures and restarts, a
\* plan a page can read is in the table.
THEOREM NoFileWithoutRow == Spec => []NoOrphanFile
  <1> DEFINE Inv == OrdersTypeOK /\ Pushed /\ NoOrphanFile
  <1>1. Init => Inv
    BY InitTyped DEF Init, Pushed, NoOrphanFile, Idle
  <1>2. Inv /\ [Next]_vars => Inv'
    <2> SUFFICES ASSUME Inv, [Next]_vars PROVE Inv'
      OBVIOUS
    <2>1. OrdersTypeOK'
      BY NextTyped
    <2>2. \A r \in Routes : table[r] # None => table'[r] # None
      BY TableGrows, OrdersAssumption DEF Plan
    <2>3. ASSUME NEW c \in Callers, NEW r \in Routes, Push(c, r) PROVE table'[r] # None
      BY <2>3, OrdersAssumption DEF Push, Working, OrdersTypeOK, Plan
    <2>4. Pushed'
      BY <2>2, <2>3, PushedBefore DEF Pushed
    <2>5. NoOrphanFile'
      BY <2>2, FileGrows DEF NoOrphanFile, Pushed, Save, Working
    <2> QED BY <2>1, <2>4, <2>5
  <1>3. Inv => NoOrphanFile
    OBVIOUS
  <1> QED BY <1>1, <1>2, <1>3, PTL DEF Spec

-----------------------------------------------------------------------------
(* The carry chain.                                                         *)

Marked(plan) == plan # None /\ plan.early => plan.cascade

\* past the guards, a generation nobody cascaded has found today's rows, and
\* plans in the making know who asked for them
Grounded ==
    /\ \A c \in Callers : call[c].pc \in {"gap", "working"} => chain \/ call[c].cascade
    /\ \A c \in Callers, r \in Routes : Marked(call[c].plan[r])

\* Rows of the date stay in the CSV once they are there.
LEMMA ChainStays ==
  ASSUME OrdersTypeOK, [Next]_vars
  PROVE  chain => chain'
  BY DEF Next, vars, Import, Restart, Start, Step, Route, Check, Read, ReadFails, Publish, Choose,
         Guard, Refresh, RefreshMisses, RefreshFails, CascadeLost, Recheck, Gap, Finish, Make, Push, Save,
         RouteFails, Sources

\* Every step keeps generations grounded.
LEMMA NextGrounded ==
  ASSUME OrdersTypeOK, Grounded, [Next]_vars
  PROVE  Grounded'
  <1>a. call \in [Callers -> Calls] /\ chain \in BOOLEAN
    BY DEF OrdersTypeOK
  <1>b. Idle.pc = "idle" /\ \A r \in Routes : Idle.plan[r] = None
    BY DEF Idle
  <1>c. chain => chain'
    BY ChainStays
  <1>1. CASE Import \/ UNCHANGED vars
    BY <1>1 DEF Import, vars, Grounded
  <1>2. CASE Restart
    BY <1>2, <1>a, <1>b, <1>c DEF Restart, Grounded, Marked, Calls, Idle
  <1>3. ASSUME NEW c \in Callers, Start(c) PROVE Grounded'
    BY <1>3, <1>a, <1>c DEF Start, Entry, Go, Grounded, Calls
  <1>4. ASSUME NEW c \in Callers, Step(c) PROVE Grounded'
    <2> DEFINE x == call[c]
    <2>0. x \in Calls /\ \A r \in Routes : Marked(x.plan[r])
      BY <1>a DEF Grounded
    <2>a. ASSUME NEW y, call' = [call EXCEPT ![c] = y],
                 y.pc \in {"gap", "working"} => chain' \/ y.cascade,
                 \A r \in Routes : Marked(y.plan[r])
          PROVE  Grounded'
      <3>1. \A d \in Callers : call'[d] = IF d = c THEN y ELSE call[d]
        BY <2>a, <1>a
      <3>2. \A d \in Callers : call'[d].pc \in {"gap", "working"} => chain' \/ call'[d].cascade
        BY <3>1, <2>a, <1>c DEF Grounded
      <3>3. \A d \in Callers, r \in Routes : Marked(call'[d].plan[r])
        BY <3>1, <2>a DEF Grounded
      <3> QED BY <3>2, <3>3 DEF Grounded, Marked
    <2>b. ASSUME NEW p, Go(c, p), p \in {"gap", "working"} => chain' \/ x.cascade PROVE Grounded'
      <3> DEFINE y == [x EXCEPT !.pc = p]
      <3>1. call' = [call EXCEPT ![c] = y]
        BY <2>b DEF Go
      <3>2. y.pc = p /\ y.cascade = x.cascade /\ y.plan = x.plan
        BY <2>0 DEF Calls
      <3> HIDE DEF y
      <3> QED BY <3>1, <3>2, <2>0, <2>a, <2>b
    <2>c. ASSUME End(c) PROVE Grounded'
      BY <2>c, <2>a, <1>b DEF End, Marked
    <2>d. ASSUME Return(c) PROVE Grounded'
      <3>1. CASE c = Nightly \/ ~x.ok
        BY <3>1, <2>d, <2>c DEF Return
      <3>2. CASE ~(c = Nightly \/ ~x.ok)
        <4> DEFINE y == [x EXCEPT !.pc = "reading", !.cascade = FALSE, !.healed = TRUE]
        <4>1. call' = [call EXCEPT ![c] = y]
          BY <3>2, <2>d DEF Return
        <4>2. y.pc = "reading" /\ y.plan = x.plan
          BY <2>0 DEF Calls
        <4> HIDE DEF y
        <4> QED BY <4>1, <4>2, <2>0, <2>a
      <3> QED BY <3>1, <3>2
    <2>e. ASSUME Leave(c) PROVE Grounded'
      BY <2>e, <2>c, <2>d DEF Leave
    <2>f. ASSUME NEW q \in Routes, Over(c, q) PROVE Grounded'
      <3> DEFINE y == [x EXCEPT !.work[q] = "none", !.plan[q] = None]
      <3>1. call' = [call EXCEPT ![c] = y]
        BY <2>f DEF Over
      <3>2. y.pc = x.pc /\ y.cascade = x.cascade
        BY <2>0 DEF Calls
      <3>3. \A r \in Routes : y.plan[r] = IF r = q THEN None ELSE x.plan[r]
        BY <2>0 DEF Calls
      <3>4. \A r \in Routes : Marked(y.plan[r])
        BY <3>3, <2>0 DEF Marked
      <3>5. x.pc \in {"gap", "working"} => chain' \/ x.cascade
        BY <1>c DEF Grounded
      <3> HIDE DEF y
      <3> QED BY <3>1, <3>2, <3>4, <3>5, <2>a
    <2>1. CASE Check(c)
      BY <2>1, <2>b DEF Check
    <2>2. CASE Read(c)
      <3> DEFINE y == [x EXCEPT !.pc = "publishing", !.read = disk]
      <3>1. call' = [call EXCEPT ![c] = y]
        BY <2>2 DEF Read
      <3>2. y.pc = "publishing" /\ y.plan = x.plan
        BY <2>0 DEF Calls
      <3> HIDE DEF y
      <3> QED BY <3>1, <3>2, <2>0, <2>a
    <2>3. CASE ReadFails(c)
      BY <2>3, <2>b DEF ReadFails, AfterLoad
    <2>4. CASE Publish(c)
      <3> DEFINE y == [x EXCEPT !.pc = AfterLoad(c), !.read = None]
      <3>1. call' = [call EXCEPT ![c] = y]
        BY <2>4 DEF Publish
      <3>2. y.pc \in {"rechecking", "choosing"} /\ y.plan = x.plan
        BY <2>0 DEF Calls, AfterLoad
      <3> HIDE DEF y
      <3> QED BY <3>1, <3>2, <2>0, <2>a
    <2>5. CASE Choose(c)
      <3>1. CASE call' = [call EXCEPT ![c].pc = "guarding", ![c].want = Wanted(c)]
        <4> DEFINE y == [x EXCEPT !.pc = "guarding", !.want = Wanted(c)]
        <4>1. call' = [call EXCEPT ![c] = y]
          BY <3>1
        <4>2. y.pc = "guarding" /\ y.plan = x.plan
          BY <2>0 DEF Calls
        <4> HIDE DEF y
        <4> QED BY <4>1, <4>2, <2>0, <2>a
      <3> QED BY <3>1, <2>5, <2>b, <2>e DEF Choose
    <2>6. CASE Guard(c)
      BY <2>6, <1>c, <2>b DEF Guard
    <2>7. CASE Refresh(c)
      <3>0. PICK ok \in BOOLEAN :
               call' = [call EXCEPT ![c].pc = "checking", ![c].cascade = TRUE, ![c].ok = ok]
        BY <2>7 DEF Refresh
      <3> DEFINE y == [x EXCEPT !.pc = "checking", !.cascade = TRUE, !.ok = ok]
      <3>1. call' = [call EXCEPT ![c] = y]
        BY <3>0
      <3>2. y.pc = "checking" /\ y.plan = x.plan
        BY <2>0 DEF Calls
      <3> HIDE DEF y
      <3> QED BY <3>1, <3>2, <2>0, <2>a
    <2>8. CASE RefreshMisses(c) \/ RefreshFails(c) \/ CascadeLost(c) \/ Finish(c)
      BY <2>8, <2>c, <2>d, <2>e DEF RefreshMisses, RefreshFails, CascadeLost, Finish
    <2>9. CASE Recheck(c)
      BY <2>9, <1>c, <2>b, <2>c DEF Recheck
    <2>10. CASE Gap(c)
      <3> DEFINE w == [r \in Routes |-> IF r \in ToGenerate(c) THEN "due" ELSE "none"]
                 y == [x EXCEPT !.pc = "working", !.work = w]
      <3>1. call' = [call EXCEPT ![c] = y]
        BY <2>10 DEF Gap
      <3>2. y.cascade = x.cascade /\ y.plan = x.plan
        BY <2>0 DEF Calls
      <3>3. chain' \/ x.cascade
        BY <2>10, <1>c DEF Gap, At, Grounded
      <3> HIDE DEF y
      <3> QED BY <3>1, <3>2, <3>3, <2>0, <2>a
    <2>11. ASSUME NEW q \in Routes, Route(c, q) PROVE Grounded'
      <3>1. CASE Make(c, q)
        <4>1. CASE ~Over(c, q)
          <5> DEFINE p == [frame |-> frame, early |-> ~chain, cascade |-> x.cascade]
                     y == [x EXCEPT !.work[q] = "made", !.plan[q] = p]
          <5>1. call' = [call EXCEPT ![c] = y]
            BY <4>1, <3>1 DEF Make
          <5>2. chain \/ x.cascade
            BY <3>1 DEF Make, Working, At, Grounded
          <5>3. Marked(p)
            BY <5>2 DEF Marked
          <5>4. y.pc = x.pc /\ y.cascade = x.cascade /\ (\A r \in Routes : y.plan[r] = IF r = q THEN p ELSE x.plan[r])
            <6> HIDE DEF p
            <6> QED BY <2>0 DEF Calls
          <5>5. \A r \in Routes : Marked(y.plan[r])
            <6> HIDE DEF p, y
            <6> QED BY <5>3, <5>4, <2>0
          <5> HIDE DEF y
          <5> QED BY <5>1, <5>2, <5>4, <5>5, <1>c, <2>a
        <4> QED BY <4>1, <2>f
      <3>2. CASE Push(c, q)
        <4> DEFINE y == [x EXCEPT !.work[q] = "pushed"]
        <4>1. call' = [call EXCEPT ![c] = y]
          BY <3>2 DEF Push
        <4>2. y.pc = x.pc /\ y.cascade = x.cascade /\ y.plan = x.plan
          BY <2>0 DEF Calls
        <4>3. x.pc \in {"gap", "working"} => chain' \/ x.cascade
          BY <1>c DEF Grounded
        <4> HIDE DEF y
        <4> QED BY <4>1, <4>2, <4>3, <2>0, <2>a
      <3>3. CASE Save(c, q) \/ RouteFails(c, q)
        BY <3>3, <2>f DEF Save, RouteFails
      <3> QED BY <2>11, <3>1, <3>2, <3>3 DEF Route
    <2> QED BY <1>4, <2>1, <2>2, <2>3, <2>4, <2>5, <2>6, <2>7, <2>8, <2>9, <2>10, <2>11 DEF Step
  <1> QED BY <1>1, <1>2, <1>3, <1>4 DEF Next

\* For any routes and any interleaving of calls, refreshes that fail or miss
\* the date and restarts, only a cascade plans before the chain has the date.
THEOREM PlansWaitForChain == Spec => []PlannedAfterChain
  <1> DEFINE Inv == OrdersTypeOK /\ Grounded /\ PlannedAfterChain
  <1>1. Init => Inv
    BY InitTyped DEF Init, Grounded, Marked, PlannedAfterChain, Idle
  <1>2. Inv /\ [Next]_vars => Inv'
    <2> SUFFICES ASSUME Inv, [Next]_vars PROVE Inv'
      OBVIOUS
    <2>1. OrdersTypeOK' /\ Grounded'
      BY NextTyped, NextGrounded
    <2>2. \A r \in Routes : Marked(table[r]) /\ Marked(file[r])
      BY DEF PlannedAfterChain, Marked
    <2>3. \A r \in Routes : Marked(table'[r])
      BY <2>2, TableGrows DEF Grounded
    <2>4. \A r \in Routes : Marked(file'[r])
      BY <2>2, FileGrows DEF Grounded
    <2>5. PlannedAfterChain'
      BY <2>3, <2>4 DEF PlannedAfterChain, Marked
    <2> QED BY <2>1, <2>5
  <1>3. Inv => PlannedAfterChain
    OBVIOUS
  <1> QED BY <1>1, <1>2, <1>3, PTL DEF Spec
=============================================================================
