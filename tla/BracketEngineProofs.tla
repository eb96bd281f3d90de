------------------------ MODULE BracketEngineProofs ------------------------
(***************************************************************************)
(* Theorems about BracketEngine, for any number of lots, evaluations,      *)
(* cancel requests, prices and restarts.                                   *)
(***************************************************************************)
EXTENDS BracketEngine, TLAPS

USE DEF lots, rules, evals, reqs

-----------------------------------------------------------------------------
(* Type correctness.                                                       *)

LEMMA RulePair ==
    ASSUME NEW r \in Rules
    PROVE  r[1] \in Lots /\ r[2] \in Roles /\ Sibling(r) \in Rules
BY DEF Rules, Roles, Sibling

LEMMA CasTypes ==
    ASSUME TypeOK, NEW r \in Rules, NEW expected, NEW new \in RuleStates, CasState(r, expected, new)
    PROVE  /\ state' \in [Rules -> RuleStates]
           /\ version' \in [Rules -> Nat]
           /\ value' \in [Rules -> Int]
<1>1. state' \in [Rules -> RuleStates]
  BY DEF TypeOK, CasState
<1>2. version' \in [Rules -> Nat]
  <2>1. [version EXCEPT ![r] = @ + 1] \in [Rules -> Nat]
    BY DEF TypeOK
  <2> QED
    BY <2>1 DEF TypeOK, CasState, Bumped
<1>3. value' \in [Rules -> Int]
  BY DEF TypeOK, CasState
<1> QED
  BY <1>1, <1>2, <1>3

LEMMA AppendTypes ==
    ASSUME book \in Seq(OrderRecord), NEW r \in Rules \cup {NoRule},
           NEW sd \in {"BUY", "SELL"}, NEW n \in Nat
    PROVE  Append(book, Order(r, sd, n)) \in Seq(OrderRecord)
<1>1. Order(r, sd, n) \in OrderRecord
  BY DEF Order, OrderRecord
<1> QED
  BY <1>1

LEMMA StatusTypes ==
    ASSUME book \in Seq(OrderRecord), NEW i \in DOMAIN book,
           NEW st \in {"open", "cancelling", "cancelled", "complete", "rejected"},
           book' = [book EXCEPT ![i].status = st]
    PROVE  /\ book' \in Seq(OrderRecord)
           /\ DOMAIN book' = DOMAIN book
           /\ \A j \in DOMAIN book : book'[j].tag = book[j].tag
<1>1. book[i] \in OrderRecord
  OBVIOUS
<1>2. /\ [book[i] EXCEPT !.status = st] \in OrderRecord
      /\ [book[i] EXCEPT !.status = st].tag = book[i].tag
  BY <1>1 DEF OrderRecord
<1>3. book' = [book EXCEPT ![i] = [book[i] EXCEPT !.status = st]]
  OBVIOUS
<1>4. book' \in Seq(OrderRecord) /\ DOMAIN book' = DOMAIN book
  BY <1>2, <1>3
<1>5. ASSUME NEW j \in DOMAIN book PROVE book'[j].tag = book[j].tag
  <2>1. CASE j = i
    BY <1>2, <1>3, <2>1
  <2>2. CASE j # i
    BY <1>3, <2>2
  <2> QED
    BY <2>1, <2>2
<1> QED
  BY <1>4, <1>5

LEMMA RecordedTypes ==
    ASSUME book \in Seq(OrderRecord), NEW i \in DOMAIN book,
           book' = [book EXCEPT ![i].recorded = TRUE]
    PROVE  /\ book' \in Seq(OrderRecord)
           /\ DOMAIN book' = DOMAIN book
           /\ \A j \in DOMAIN book : book'[j].tag = book[j].tag
<1>1. book[i] \in OrderRecord
  OBVIOUS
<1>2. /\ [book[i] EXCEPT !.recorded = TRUE] \in OrderRecord
      /\ [book[i] EXCEPT !.recorded = TRUE].tag = book[i].tag
  BY <1>1 DEF OrderRecord
<1>3. book' = [book EXCEPT ![i] = [book[i] EXCEPT !.recorded = TRUE]]
  OBVIOUS
<1>4. book' \in Seq(OrderRecord) /\ DOMAIN book' = DOMAIN book
  BY <1>2, <1>3
<1>5. ASSUME NEW j \in DOMAIN book PROVE book'[j].tag = book[j].tag
  <2>1. CASE j = i
    BY <1>2, <1>3, <2>1
  <2>2. CASE j # i
    BY <1>3, <2>2
  <2> QED
    BY <2>1, <2>2
<1> QED
  BY <1>4, <1>5

LEMMA BracketTypes ==
    ASSUME TypeOK, NEW l \in Lots, NEW sd \in {"BUY", "SELL"}, NEW n \in Nat,
           NEW legs \in SUBSET Roles, NEW price \in [legs -> Prices],
           ArmLotBracket(l, sd, n, price)
    PROVE  /\ side' \in [Lots -> {"NONE", "BUY", "SELL"}]
           /\ remaining' \in [Lots -> Nat]
           /\ state' \in [Rules -> RuleStates]
           /\ version' \in [Rules -> Nat]
           /\ value' \in [Rules -> Int]
BY PricesAssumption DEF TypeOK, ArmLotBracket, RuleStates

LEMMA InitTypes == Init => TypeOK
<1> SUFFICES ASSUME Init PROVE TypeOK
  OBVIOUS
<1>1. book \in Seq(OrderRecord)
  BY DEF Init
<1> QED
  BY <1>1 DEF Init, TypeOK, RuleStates

\* An evaluation that is firing holds a rule, and a request that is cancelling names one.
HoldsRule ==
    /\ \A t \in Evals : pc[t] \in FiringPcs \cup {"settled"} => mine[t] \in Rules
    /\ \A q \in Requests : rpc[q] # "idle" => rrule[q] \in Rules

LEMMA EnterTypes ==
    ASSUME TypeOK, NEW l \in Lots, EnterLot(l)
    PROVE  TypeOK'
<1>1. PICK sd \in Sides, legs \in SUBSET Roles :
        /\ \E price \in [legs -> Prices] : ArmLotBracket(l, sd, LotQty, price)
        /\ position' = position + Signed(sd, LotQty)
  BY DEF EnterLot
<1>2. PICK price \in [legs -> Prices] : ArmLotBracket(l, sd, LotQty, price)
  BY <1>1
<1>3. sd \in {"BUY", "SELL"} /\ LotQty \in Nat
  BY SidesAssumption, BoundsAssumption
<1>4. position' \in Int
  BY <1>1, <1>3 DEF Signed, TypeOK
<1> QED
  BY <1>2, <1>3, <1>4, BracketTypes DEF EnterLot, TypeOK

LEMMA LoopTypes ==
    ASSUME TypeOK, HoldsRule, NEW t \in Evals, StartCheck(t) \/ Loop(t)
    PROVE  TypeOK'
<1>1. CASE StartCheck(t)
  <2>1. {Snapshot(r) : r \in Armed} \subseteq SnapshotRecord
    BY DEF TypeOK, Armed, Snapshot, SnapshotRecord
  <2> QED
    BY <1>1, <2>1, PricesAssumption DEF StartCheck, TypeOK
<1>2. ASSUME NEW s \in todo[t], SkipRule(t, s) PROVE TypeOK'
  BY <1>2 DEF SkipRule, NextRule, TypeOK
<1>3. ASSUME NEW s \in todo[t], WinRule(t, s) PROVE TypeOK'
  <2>1. s.rule \in Rules
    BY DEF TypeOK, SnapshotRecord
  <2>2. CasState(s.rule, s.version, "FIRING")
    BY <1>3 DEF WinRule
  <2>3. state' \in [Rules -> RuleStates] /\ version' \in [Rules -> Nat] /\ value' \in [Rules -> Int]
    BY <2>1, <2>2, CasTypes DEF RuleStates
  <2>4. /\ todo' = [todo EXCEPT ![t] = @ \ {s}]
        /\ mine' = [mine EXCEPT ![t] = s.rule]
        /\ held' = [held EXCEPT ![t] = version[s.rule] + 1]
        /\ pc' = [pc EXCEPT ![t] = "checklot"]
        /\ UNCHANGED <<lots, book, position, running, ltp, ask, reqs, modifies, restarts>>
    BY <1>3 DEF WinRule, NextRule
  <2>5. version[s.rule] + 1 \in Nat
    BY <2>1 DEF TypeOK
  <2>6. /\ todo' \in [Evals -> SUBSET SnapshotRecord]
        /\ mine' \in [Evals -> Rules \cup {NoRule}]
        /\ held' \in [Evals -> Nat]
    BY <2>1, <2>4, <2>5 DEF TypeOK
  <2> QED
    BY <2>3, <2>4, <2>6 DEF TypeOK, lots, reqs
<1>4. CASE CheckLot(t)
  <2>1. CASE remaining[mine[t][1]] > 0
    <3>1. mine[t] \in Rules
      BY <1>4 DEF CheckLot, HoldsRule, FiringPcs
    <3>2. remaining[mine[t][1]] \in Nat
      BY <3>1, RulePair DEF TypeOK
    <3> QED
      BY <1>4, <2>1, <3>2 DEF CheckLot, TypeOK
  <2>2. CASE ~(remaining[mine[t][1]] > 0)
    <3>1. CasState(mine[t], held[t], "FAILED") /\ mine[t] \in Rules
      BY <1>4, <2>2 DEF CheckLot, HoldsRule, FiringPcs
    <3>2. state' \in [Rules -> RuleStates] /\ version' \in [Rules -> Nat] /\ value' \in [Rules -> Int]
      BY <3>1, CasTypes DEF RuleStates
    <3>3. /\ pc' = [pc EXCEPT ![t] = "loop"]
          /\ Forget(t)
          /\ UNCHANGED <<lots, book, position, running, ltp, todo, reqs, modifies, restarts>>
      BY <1>4, <2>2 DEF CheckLot
    <3> QED
      BY <3>2, <3>3 DEF Forget, TypeOK
  <2> QED
    BY <2>1, <2>2
<1>5. CASE CancelSibling(t)
  <2>1. state' \in [Rules -> RuleStates] /\ version' \in [Rules -> Nat] /\ value' \in [Rules -> Int]
    <3>1. CASE OcoApplies(mine[t])
      <4>1. Sibling(mine[t]) \in Rules
        BY <1>5, RulePair DEF CancelSibling, Moves, HoldsRule
      <4> QED
        BY <1>5, <3>1, <4>1, CasTypes DEF CancelSibling, RuleStates
    <3>2. CASE ~OcoApplies(mine[t])
      BY <1>5, <3>2 DEF CancelSibling, TypeOK
    <3> QED
      BY <3>1, <3>2
  <2> QED
    BY <1>5, <2>1 DEF CancelSibling, Moves, Forget, TypeOK
<1>6. CASE EndCheck(t)
  BY <1>6 DEF EndCheck, TypeOK
<1> QED
  BY <1>1, <1>2, <1>3, <1>4, <1>5, <1>6 DEF Loop

LEMMA ReplyTypes ==
    ASSUME TypeOK, HoldsRule, NEW t \in Evals, BrokerReply(t) \/ Continue(t)
    PROVE  TypeOK'
<1>1. CASE BrokerReply(t)
  <2>1. book' \in Seq(OrderRecord)
    <3>1. Opposite(side[mine[t][1]]) \in {"BUY", "SELL"}
      BY DEF Opposite
    <3>2. Append(book, ExitOrder(t)) \in Seq(OrderRecord)
      BY <3>1, AppendTypes DEF ExitOrder, TypeOK
    <3> QED
      BY <1>1, <3>2 DEF BrokerReply, FindExisting, PlaceAccepted, PlaceLost, CallFails, TypeOK
  <2>2. pc' \in [Evals -> {"idle", "loop", "checklot", "lookup", "placing", "accepted",
                           "refused", "settled", "notify"}]
    <3>1. PICK next \in {"placing", "accepted", "refused"} : pc' = [pc EXCEPT ![t] = next]
      BY <1>1 DEF BrokerReply, FindExisting, PlaceAccepted, PlaceLost, CallFails, Moves
    <3> QED
      BY <3>1 DEF TypeOK
  <2> QED
    BY <1>1, <2>1, <2>2 DEF BrokerReply, TypeOK
<1>2. CASE Settle(t)
  <2>1. state' \in [Rules -> RuleStates] /\ version' \in [Rules -> Nat] /\ value' \in [Rules -> Int]
    BY <1>2, CasTypes DEF Settle, Moves, HoldsRule, FiringPcs, RuleStates
  <2> QED
    BY <1>2, <2>1 DEF Settle, Moves, TypeOK
<1>3. CASE MarkFailed(t)
  <2>1. state' \in [Rules -> RuleStates] /\ version' \in [Rules -> Nat] /\ value' \in [Rules -> Int]
    BY <1>3, CasTypes DEF MarkFailed, Moves, HoldsRule, FiringPcs, RuleStates, AfterFailure
  <2> QED
    BY <1>3, <2>1 DEF MarkFailed, Moves, Forget, TypeOK
<1>4. CASE Resume(t)
  BY <1>4 DEF Resume, Moves, TypeOK
<1> QED
  BY <1>1, <1>2, <1>3, <1>4 DEF Continue

LEMMA RouteTypes ==
    ASSUME TypeOK, HoldsRule, Routes
    PROVE  TypeOK'
<1>1. ASSUME NEW r \in Rules, CancelArmedRule(r) PROVE TypeOK'
  <2>1. state' \in [Rules -> RuleStates] /\ version' \in [Rules -> Nat] /\ value' \in [Rules -> Int]
    BY <1>1, CasTypes DEF CancelArmedRule, RuleStates
  <2> QED
    BY <1>1, <2>1 DEF CancelArmedRule, TypeOK
<1>2. ASSUME NEW r \in Rules, NEW v \in Prices, ModifyLeg(r, v) PROVE TypeOK'
  BY <1>2, PricesAssumption DEF ModifyLeg, Bumped, TypeOK
<1>3. ASSUME NEW q \in Requests, CancelRequest(q) PROVE TypeOK'
  <2>1. ASSUME NEW r \in Rules, CancelPlacedRule(q, r) PROVE TypeOK'
    BY <2>1 DEF CancelPlacedRule, TypeOK
  <2>2. CASE CancelFind(q)
    BY <2>2 DEF CancelFind, EndRequest, ContinueRequest, TypeOK
  <2>3. CASE CancelAtBroker(q)
    <3>1. book' \in Seq(OrderRecord)
      BY <2>3, StatusTypes DEF CancelAtBroker, OrdersOf, TypeOK
    <3>2. /\ rpc' \in [Requests -> {"idle", "find", "cancel", "confirm"}]
          /\ rrule' \in [Requests -> Rules \cup {NoRule}]
      BY <2>3 DEF CancelAtBroker, EndRequest, ContinueRequest, TypeOK
    <3> QED
      BY <2>3, <3>1, <3>2 DEF CancelAtBroker, TypeOK
  <2>4. CASE CancelConfirmed(q)
    <3>1. rrule[q] \in Rules
      BY <2>4 DEF CancelConfirmed, HoldsRule
    <3>2. state' \in [Rules -> RuleStates] /\ version' \in [Rules -> Nat] /\ value' \in [Rules -> Int]
      <4>1. CASE state[rrule[q]] = "PLACED"
        BY <2>4, <3>1, <4>1, CasTypes DEF CancelConfirmed, RuleStates
      <4>2. CASE state[rrule[q]] # "PLACED"
        BY <2>4, <4>2 DEF CancelConfirmed, TypeOK
      <4> QED
        BY <4>1, <4>2
    <3> QED
      BY <2>4, <3>2 DEF CancelConfirmed, EndRequest, TypeOK
  <2>5. CASE CancelAborts(q)
    BY <2>5 DEF CancelAborts, EndRequest, TypeOK
  <2> QED
    BY <1>3, <2>1, <2>2, <2>3, <2>4, <2>5 DEF CancelRequest
<1>4. CASE ManualExit
  <2>1. book' \in Seq(OrderRecord)
    <3>1. CASE position > 0
      <4>1. position \in Nat /\ book' = Append(book, Order(NoRule, "SELL", position))
        BY <1>4, <3>1 DEF ManualExit, TypeOK
      <4> QED
        BY <4>1, AppendTypes DEF TypeOK
    <3>2. CASE ~(position > 0)
      <4>1. -position \in Nat /\ book' = Append(book, Order(NoRule, "BUY", -position))
        BY <1>4, <3>2 DEF ManualExit, TypeOK
      <4> QED
        BY <4>1, AppendTypes DEF TypeOK
    <3> QED
      BY <3>1, <3>2
  <2> QED
    BY <1>4, <2>1 DEF ManualExit, TypeOK
<1> QED
  BY <1>1, <1>2, <1>3, <1>4 DEF Routes

LEMMA BrokerTypes ==
    ASSUME TypeOK, Broker \/ Pushes \/ Restart
    PROVE  TypeOK'
<1>1. ASSUME NEW i \in DOMAIN book, OrderFills(i) PROVE TypeOK'
  <2>1. book' \in Seq(OrderRecord)
    BY <1>1, StatusTypes DEF OrderFills, OrderMoves, TypeOK
  <2>2. book[i] \in OrderRecord
    BY DEF TypeOK
  <2>3. position' \in Int
    BY <1>1, <2>2 DEF OrderFills, Signed, OrderRecord, TypeOK
  <2> QED
    BY <1>1, <2>1, <2>3 DEF OrderFills, OrderMoves, TypeOK
<1>2. ASSUME NEW i \in DOMAIN book, OrderCancelled(i) \/ OrderRejected(i) PROVE TypeOK'
  <2>1. book' \in Seq(OrderRecord)
    BY <1>2, StatusTypes DEF OrderCancelled, OrderRejected, OrderMoves, TypeOK
  <2> QED
    BY <1>2, <2>1 DEF OrderCancelled, OrderRejected, OrderMoves, TypeOK
<1>3. ASSUME NEW i \in DOMAIN book, FillExit(i) PROVE TypeOK'
  <2>1. book' \in Seq(OrderRecord)
    BY <1>3, RecordedTypes DEF FillExit, RecordFill, TypeOK
  <2>2. book[i] \in OrderRecord
    BY DEF TypeOK
  <2>3. \A l \in Lots : Deplete(remaining[l], book[i].qty) \in Nat
    BY <2>2 DEF Deplete, OrderRecord, TypeOK
  <2>4. remaining' \in [Lots -> Nat]
    BY <1>3, <2>3 DEF FillExit, TypeOK
  <2> QED
    BY <1>3, <2>1, <2>4 DEF FillExit, RecordFill, TypeOK
<1>4. ASSUME NEW i \in DOMAIN book, NEW l \in Lots, FillEntry(i, l) PROVE TypeOK'
  <2>1. book' \in Seq(OrderRecord)
    BY <1>4, RecordedTypes DEF FillEntry, RecordFill, TypeOK
  <2>2. book[i] \in OrderRecord
    BY DEF TypeOK
  <2>3. book[i].side \in {"BUY", "SELL"} /\ book[i].qty \in Nat
    BY <2>2 DEF OrderRecord
  <2>4. PICK price \in [Roles -> Prices] : ArmLotBracket(l, book[i].side, book[i].qty, price)
    BY <1>4 DEF FillEntry
  <2> QED
    BY <1>4, <2>1, <2>3, <2>4, BracketTypes DEF FillEntry, RecordFill, TypeOK
<1>5. CASE Restart
  BY <1>5 DEF Restart, TypeOK
<1> QED
  BY <1>1, <1>2, <1>3, <1>4, <1>5 DEF Broker, Pushes

LEMMA NextTypes ==
    ASSUME TypeOK, HoldsRule, [Next]_vars
    PROVE  TypeOK'
<1>1. CASE UNCHANGED vars
  BY <1>1 DEF vars, TypeOK
<1> QED
  BY <1>1, EnterTypes, LoopTypes, ReplyTypes, RouteTypes, BrokerTypes DEF Next, Evaluator

-----------------------------------------------------------------------------
(* The inductive invariant.                                                *)

\* A row an evaluation has read: it was armed then, so as long as its version has not moved
\* it is armed still and its price is unchanged.
FreshSnapshots ==
    \A t \in Evals : \A s \in todo[t] :
        /\ state[s.rule] # "ABSENT"
        /\ s.version <= version[s.rule]
        /\ s.version = version[s.rule] =>
             state[s.rule] = "ARMED" /\ value[s.rule] = s.value

\* A lot that does not exist has no rules.
NoRulesBeforeLot == \A r \in Rules : side[r[1]] = "NONE" => state[r] = "ABSENT"

\* Two evaluations never fire the same rule.
FiringApart ==
    \A t, u \in Evals :
        pc[t] \in FiringPcs /\ pc[u] \in FiringPcs /\ mine[t] = mine[u] => t = u

\* An order carries the tag of a rule that has been fired, and the rule of an evaluation
\* that has not sent its order yet has none.
OrdersAfterFiring ==
    /\ \A i \in DOMAIN book :
         book[i].tag # NoRule => state[book[i].tag] \notin {"ABSENT", "ARMED"}
    /\ \A t \in Evals :
         pc[t] \in {"checklot", "lookup", "placing"} =>
             \A i \in DOMAIN book : book[i].tag # mine[t]

IInv ==
    /\ TypeOK
    /\ HoldsRule
    /\ FreshSnapshots
    /\ NoRulesBeforeLot
    /\ FiringIsExclusive
    /\ FiringApart
    /\ OrdersAfterFiring
    /\ OneOrderPerRule

LEMMA InitIInv == Init => IInv
<1> SUFFICES ASSUME Init PROVE IInv
  OBVIOUS
<1>1. TypeOK
  BY InitTypes
<1>2. DOMAIN book = {}
  BY DEF Init
<1> QED
  BY <1>1, <1>2 DEF Init, IInv, HoldsRule, FreshSnapshots, NoRulesBeforeLot,
     FiringIsExclusive, FiringApart, OrdersAfterFiring, OneOrderPerRule, FiringPcs

LEMMA NextHoldsRule ==
    ASSUME TypeOK, HoldsRule, [Next]_vars
    PROVE  HoldsRule'
<1> USE DEF HoldsRule, FiringPcs, TypeOK
<1>1. CASE UNCHANGED vars
  BY <1>1 DEF vars
<1>2. ASSUME NEW l \in Lots, EnterLot(l) PROVE HoldsRule'
  BY <1>2 DEF EnterLot
<1>3. ASSUME NEW t \in Evals, Evaluator(t) PROVE HoldsRule'
  <2>1. CASE StartCheck(t)
    BY <2>1 DEF StartCheck
  <2>2. ASSUME NEW s \in todo[t], SkipRule(t, s) PROVE HoldsRule'
    BY <2>2 DEF SkipRule
  <2>3. ASSUME NEW s \in todo[t], WinRule(t, s) PROVE HoldsRule'
    <3>1. s.rule \in Rules
      BY DEF SnapshotRecord
    <3> QED
      BY <2>3, <3>1 DEF WinRule
  <2>4. CASE CheckLot(t)
    BY <2>4 DEF CheckLot, Forget
  <2>5. CASE CancelSibling(t)
    BY <2>5 DEF CancelSibling, Moves, Forget
  <2>6. CASE EndCheck(t)
    BY <2>6 DEF EndCheck
  <2>7. CASE BrokerReply(t)
    BY <2>7 DEF BrokerReply, FindExisting, PlaceAccepted, PlaceLost, CallFails, Moves
  <2>8. CASE Settle(t)
    BY <2>8 DEF Settle, Moves
  <2>9. CASE MarkFailed(t)
    BY <2>9 DEF MarkFailed, Moves, Forget
  <2>10. CASE Resume(t)
    BY <2>10 DEF Resume, Moves
  <2> QED
    BY <1>3, <2>1, <2>2, <2>3, <2>4, <2>5, <2>6, <2>7, <2>8, <2>9, <2>10
       DEF Evaluator, Loop, Continue
<1>4. CASE Routes
  <2>1. ASSUME NEW r \in Rules, CancelArmedRule(r) PROVE HoldsRule'
    BY <2>1 DEF CancelArmedRule
  <2>2. ASSUME NEW r \in Rules, NEW v \in Prices, ModifyLeg(r, v) PROVE HoldsRule'
    BY <2>2 DEF ModifyLeg
  <2>3. ASSUME NEW q \in Requests, CancelRequest(q) PROVE HoldsRule'
    <3>1. ASSUME NEW r \in Rules, CancelPlacedRule(q, r) PROVE HoldsRule'
      BY <3>1 DEF CancelPlacedRule
    <3>2. CASE CancelFind(q)
      BY <3>2 DEF CancelFind, EndRequest, ContinueRequest
    <3>3. CASE CancelAtBroker(q)
      BY <3>3 DEF CancelAtBroker, EndRequest, ContinueRequest
    <3>4. CASE CancelConfirmed(q) \/ CancelAborts(q)
      BY <3>4 DEF CancelConfirmed, CancelAborts, EndRequest
    <3> QED
      BY <2>3, <3>1, <3>2, <3>3, <3>4 DEF CancelRequest
  <2>4. CASE ManualExit
    BY <2>4 DEF ManualExit
  <2> QED
    BY <1>4, <2>1, <2>2, <2>3, <2>4 DEF Routes
<1>5. CASE Broker \/ Pushes
  BY <1>5 DEF Broker, Pushes, OrderFills, OrderCancelled, OrderRejected, OrderMoves,
     FillExit, FillEntry, RecordFill
<1>6. CASE Restart
  BY <1>6 DEF Restart
<1> QED
  BY <1>1, <1>2, <1>3, <1>4, <1>5, <1>6 DEF Next

\* What the six conjuncts beyond types say, as one formula.
Safe ==
    /\ FreshSnapshots
    /\ NoRulesBeforeLot
    /\ FiringIsExclusive
    /\ FiringApart
    /\ OrdersAfterFiring
    /\ OneOrderPerRule

SameTags ==
    /\ DOMAIN book' = DOMAIN book
    /\ \A i \in DOMAIN book : book'[i].tag = book[i].tag

\* Steps that write no rule and start no firing.
LEMMA QuietSteps ==
    ASSUME IInv, TypeOK',
           UNCHANGED <<side, state, version, value, pc, mine, held>>,
           \A t \in Evals : todo'[t] \subseteq todo[t],
           SameTags
    PROVE  Safe'
<1> USE DEF IInv, TypeOK, SameTags
<1>1. FreshSnapshots'
  BY DEF FreshSnapshots
<1>2. NoRulesBeforeLot' /\ FiringIsExclusive' /\ FiringApart'
  BY DEF NoRulesBeforeLot, FiringIsExclusive, FiringApart
<1>3. OrdersAfterFiring' /\ OneOrderPerRule'
  BY DEF OrdersAfterFiring, OneOrderPerRule
<1> QED
  BY <1>1, <1>2, <1>3 DEF Safe

\* A compare-and-set of the current version out of a state that exists.
LEMMA RuleMove ==
    ASSUME IInv, NEW r \in Rules, NEW new \in RuleStates \ {"ABSENT", "ARMED"},
           state[r] # "ABSENT", CasState(r, version[r], new), UNCHANGED side,
           \A t \in Evals : todo'[t] \subseteq todo[t]
    PROVE  /\ FreshSnapshots'
           /\ NoRulesBeforeLot'
           /\ state'[r] = new
           /\ version'[r] = version[r] + 1
           /\ \A o \in Rules \ {r} : state'[o] = state[o] /\ version'[o] = version[o]
<1> USE DEF IInv, TypeOK
<1>1. /\ state'[r] = new
      /\ version'[r] = version[r] + 1
      /\ \A o \in Rules \ {r} : state'[o] = state[o] /\ version'[o] = version[o]
      /\ value' = value
  BY DEF CasState, CasWins, Bumped
<1>2. FreshSnapshots'
  <2> SUFFICES ASSUME NEW t \in Evals, NEW s \in todo'[t]
      PROVE  /\ state'[s.rule] # "ABSENT"
             /\ s.version <= version'[s.rule]
             /\ s.version = version'[s.rule] =>
                  state'[s.rule] = "ARMED" /\ value'[s.rule] = s.value
    BY DEF FreshSnapshots
  <2>1. s \in todo[t] /\ s \in SnapshotRecord /\ s.rule \in Rules /\ s.version \in Nat
    BY DEF SnapshotRecord
  <2>2. CASE s.rule = r
    <3>1. s.version <= version[r] /\ version[r] \in Nat
      BY <2>1, <2>2 DEF FreshSnapshots
    <3>2. s.version <= version[r] + 1 /\ s.version # version[r] + 1
      BY <2>1, <3>1
    <3> QED
      BY <1>1, <2>2, <3>2
  <2>3. CASE s.rule # r
    BY <1>1, <2>1, <2>3 DEF FreshSnapshots
  <2> QED
    BY <2>2, <2>3
<1>3. NoRulesBeforeLot'
  BY <1>1 DEF NoRulesBeforeLot
<1> QED
  BY <1>1, <1>2, <1>3

\* An evaluation that is not firing, or fires a rule nobody has just moved, is left alone.
LEMMA OthersKeepFiring ==
    ASSUME HoldsRule, FiringIsExclusive, FiringApart, NEW r \in Rules, NEW t \in Evals,
           \A o \in Rules \ {r} : state'[o] = state[o] /\ version'[o] = version[o],
           \A u \in Evals \ {t} : pc'[u] = pc[u] /\ mine'[u] = mine[u] /\ held'[u] = held[u],
           \A u \in Evals \ {t} : pc[u] \in FiringPcs => mine[u] # r,
           pc'[t] \in FiringPcs =>
               /\ state'[mine'[t]] = "FIRING" /\ version'[mine'[t]] = held'[t]
               /\ mine'[t] = r
    PROVE  FiringIsExclusive' /\ FiringApart'
<1> USE DEF HoldsRule
<1>1. FiringIsExclusive'
  <2> SUFFICES ASSUME NEW u \in Evals, pc'[u] \in FiringPcs
      PROVE  state'[mine'[u]] = "FIRING" /\ version'[mine'[u]] = held'[u]
    BY DEF FiringIsExclusive, FiringPcs
  <2>1. CASE u = t
    BY <2>1
  <2>2. CASE u # t
    <3>1. pc[u] \in FiringPcs /\ mine[u] \in Rules \ {r}
      BY <2>2
    <3> QED
      BY <2>2, <3>1 DEF FiringIsExclusive
  <2> QED
    BY <2>1, <2>2
<1>2. FiringApart'
  BY DEF FiringApart, FiringPcs
<1> QED
  BY <1>1, <1>2

LEMMA TagTypes == TypeOK => \A i \in DOMAIN book : book[i].tag \in Rules \cup {NoRule}
<1> SUFFICES ASSUME book \in Seq(OrderRecord), NEW i \in DOMAIN book
    PROVE  book[i].tag \in Rules \cup {NoRule}
  BY DEF TypeOK
<1>1. book[i] \in OrderRecord
  OBVIOUS
<1> QED
  BY <1>1 DEF OrderRecord

\* The same for the orders, when no order is sent.
LEMMA OthersKeepOrders ==
    ASSUME TypeOK, OrdersAfterFiring, UNCHANGED book, NEW r \in Rules, NEW t \in Evals,
           state'[r] \notin {"ABSENT", "ARMED"},
           \A o \in Rules \ {r} : state'[o] = state[o],
           \A u \in Evals \ {t} : pc'[u] = pc[u] /\ mine'[u] = mine[u],
           pc'[t] \in {"checklot", "lookup", "placing"} =>
               \A i \in DOMAIN book : book[i].tag # mine'[t]
    PROVE  OrdersAfterFiring'
<1>1. ASSUME NEW i \in DOMAIN book, book[i].tag # NoRule
      PROVE  state'[book[i].tag] \notin {"ABSENT", "ARMED"}
  <2>1. book[i].tag \in Rules
    BY <1>1, TagTypes
  <2>2. CASE book[i].tag = r
    BY <2>2
  <2>3. CASE book[i].tag # r
    BY <1>1, <2>1, <2>3 DEF OrdersAfterFiring
  <2> QED
    BY <2>2, <2>3
<1>2. ASSUME NEW u \in Evals, pc'[u] \in {"checklot", "lookup", "placing"}
      PROVE  \A i \in DOMAIN book : book[i].tag # mine'[u]
  <2>1. CASE u = t
    BY <1>2, <2>1
  <2>2. CASE u # t
    <3>1. pc[u] \in {"checklot", "lookup", "placing"} /\ mine'[u] = mine[u]
      BY <1>2, <2>2
    <3> QED
      BY <3>1 DEF OrdersAfterFiring
  <2> QED
    BY <2>1, <2>2
<1> QED
  BY <1>1, <1>2 DEF OrdersAfterFiring

\* A rule that an evaluation fires is fired by that evaluation alone.
LEMMA FiringAlone ==
    ASSUME IInv, NEW t \in Evals, pc[t] \in FiringPcs
    PROVE  /\ mine[t] \in Rules
           /\ state[mine[t]] = "FIRING" /\ version[mine[t]] = held[t]
           /\ \A u \in Evals \ {t} : pc[u] \in FiringPcs => mine[u] # mine[t]
BY DEF IInv, HoldsRule, FiringIsExclusive, FiringApart

\* Steps that start no firing and leave the ledger alone.
LEMMA StillFiring ==
    ASSUME FiringIsExclusive, FiringApart, UNCHANGED <<state, version>>,
           \A u \in Evals : pc'[u] \in FiringPcs =>
               pc[u] \in FiringPcs /\ mine'[u] = mine[u] /\ held'[u] = held[u]
    PROVE  FiringIsExclusive' /\ FiringApart'
<1> DEFINE firing(u) == pc[u] \in FiringPcs
<1>1. ASSUME NEW u \in Evals, firing(u)'
      PROVE  firing(u) /\ mine'[u] = mine[u] /\ held'[u] = held[u]
  BY <1>1 DEF FiringPcs
<1> QED
  BY <1>1 DEF FiringIsExclusive, FiringApart, FiringPcs

LEMMA StillOrders ==
    ASSUME OrdersAfterFiring, UNCHANGED <<state, book>>,
           \A u \in Evals : pc'[u] \in {"checklot", "lookup", "placing"} =>
               pc[u] \in {"checklot", "lookup", "placing"} /\ mine'[u] = mine[u]
    PROVE  OrdersAfterFiring'
BY DEF OrdersAfterFiring

LEMMA LoopSafe ==
    ASSUME IInv, TypeOK', NEW t \in Evals, StartCheck(t) \/ Loop(t)
    PROVE  Safe'
<1> USE DEF IInv, TypeOK
<1>1. CASE StartCheck(t)
  <2>1. todo'[t] = {Snapshot(r) : r \in Armed}
    BY <1>1 DEF StartCheck
  <2>2. FreshSnapshots'
    <3> SUFFICES ASSUME NEW u \in Evals, NEW s \in todo'[u]
        PROVE  /\ state[s.rule] # "ABSENT"
               /\ s.version <= version[s.rule]
               /\ s.version = version[s.rule] =>
                    state[s.rule] = "ARMED" /\ value[s.rule] = s.value
      BY <1>1 DEF StartCheck, FreshSnapshots
    <3>1. CASE u = t
      <4>1. PICK r \in Armed : s = Snapshot(r)
        BY <2>1, <3>1
      <4>2. s.rule = r /\ s.version = version[r] /\ s.value = value[r]
        BY <4>1 DEF Snapshot
      <4>3. r \in Rules /\ state[r] = "ARMED" /\ version[r] \in Nat
        BY <4>1 DEF Armed
      <4> QED
        BY <4>2, <4>3
    <3>2. CASE u # t
      BY <1>1, <3>2 DEF StartCheck, FreshSnapshots
    <3> QED
      BY <3>1, <3>2
  <2>3. pc[t] \notin FiringPcs /\ pc'[t] \notin FiringPcs
    BY <1>1 DEF StartCheck, FiringPcs
  <2>4. FiringIsExclusive' /\ FiringApart'
    BY <1>1, <2>3 DEF StartCheck, FiringIsExclusive, FiringApart
  <2>5. NoRulesBeforeLot' /\ OrdersAfterFiring' /\ OneOrderPerRule'
    BY <1>1 DEF StartCheck, NoRulesBeforeLot, OrdersAfterFiring, OneOrderPerRule
  <2> QED
    BY <2>2, <2>4, <2>5 DEF Safe
<1>2. ASSUME NEW s \in todo[t], SkipRule(t, s) PROVE Safe'
  BY <1>2, QuietSteps DEF SkipRule, NextRule, SameTags
<1>3. ASSUME NEW s \in todo[t], WinRule(t, s) PROVE Safe'
  <2> DEFINE r == s.rule
  <2>1. r \in Rules /\ s.version = version[r]
    BY <1>3 DEF SnapshotRecord, WinRule, CasWins
  <2>2. state[r] = "ARMED"
    BY <2>1 DEF FreshSnapshots
  <2>3. CasState(r, version[r], "FIRING") /\ UNCHANGED side
        /\ \A u \in Evals : todo'[u] \subseteq todo[u]
    BY <1>3, <2>1 DEF WinRule, NextRule
  <2>4. /\ FreshSnapshots' /\ NoRulesBeforeLot'
        /\ state'[r] = "FIRING" /\ version'[r] = version[r] + 1
        /\ \A o \in Rules \ {r} : state'[o] = state[o] /\ version'[o] = version[o]
    BY <2>1, <2>2, <2>3, RuleMove DEF RuleStates
  <2>5. /\ pc'[t] = "checklot" /\ mine'[t] = r /\ held'[t] = version[r] + 1
        /\ \A u \in Evals \ {t} : pc'[u] = pc[u] /\ mine'[u] = mine[u] /\ held'[u] = held[u]
        /\ UNCHANGED book
    BY <1>3 DEF WinRule
  <2>6. \A u \in Evals : pc[u] \in FiringPcs => mine[u] # r
    BY <2>2 DEF FiringIsExclusive
  <2>7. FiringIsExclusive' /\ FiringApart'
    <3>1. /\ state'[mine'[t]] = "FIRING" /\ version'[mine'[t]] = held'[t]
          /\ mine'[t] = r
      BY <2>4, <2>5
    <3>2. HoldsRule /\ FiringIsExclusive /\ FiringApart
      OBVIOUS
    <3> HIDE DEF r, IInv, TypeOK
    <3> QED
      BY <2>1, <2>4, <2>5, <2>6, <3>1, <3>2, OthersKeepFiring
  <2>8. \A i \in DOMAIN book : book[i].tag # r
    <3> SUFFICES ASSUME NEW i \in DOMAIN book, book[i].tag = r PROVE FALSE
      OBVIOUS
    <3>1. book[i].tag # NoRule
      BY <2>1, NullsAssumption
    <3> QED
      BY <2>2, <3>1 DEF OrdersAfterFiring
  <2>9. OrdersAfterFiring'
    <3>1. state'[r] \notin {"ABSENT", "ARMED"}
      BY <2>4
    <3>2. \A i \in DOMAIN book : book[i].tag # mine'[t]
      BY <2>5, <2>8
    <3>3. TypeOK /\ OrdersAfterFiring
      OBVIOUS
    <3> HIDE DEF r, IInv, TypeOK
    <3> QED
      BY <2>1, <2>4, <2>5, <3>1, <3>2, <3>3, OthersKeepOrders
  <2>10. OneOrderPerRule'
    BY <2>5 DEF OneOrderPerRule
  <2> QED
    BY <2>4, <2>7, <2>9, <2>10 DEF Safe
<1>4. CASE CheckLot(t)
  <2>0. pc[t] = "checklot" /\ pc[t] \in FiringPcs
    BY <1>4 DEF CheckLot, FiringPcs
  <2>1. /\ mine[t] \in Rules
        /\ state[mine[t]] = "FIRING" /\ version[mine[t]] = held[t]
        /\ \A u \in Evals \ {t} : pc[u] \in FiringPcs => mine[u] # mine[t]
    BY <2>0, FiringAlone
  <2>2. CASE remaining[mine[t][1]] > 0
    <3>1. /\ pc' = [pc EXCEPT ![t] = "lookup"]
          /\ UNCHANGED <<side, rules, book, todo, mine, held>>
      BY <1>4, <2>2 DEF CheckLot
    <3>2. FreshSnapshots' /\ NoRulesBeforeLot' /\ OneOrderPerRule'
      BY <3>1 DEF FreshSnapshots, NoRulesBeforeLot, OneOrderPerRule
    <3>3. \A u \in Evals : mine'[u] = mine[u] /\ held'[u] = held[u] /\ (u # t => pc'[u] = pc[u])
      BY <3>1
    <3>4. FiringIsExclusive' /\ FiringApart' /\ OrdersAfterFiring'
      <4>1. FiringIsExclusive /\ FiringApart /\ OrdersAfterFiring
        OBVIOUS
      <4>2. UNCHANGED <<state, version, book>>
        BY <3>1 DEF rules
      <4> HIDE DEF IInv, TypeOK
      <4>3. FiringIsExclusive' /\ FiringApart'
        BY <2>0, <3>3, <4>1, <4>2, StillFiring
      <4>4. OrdersAfterFiring'
        BY <2>0, <3>3, <4>1, <4>2, StillOrders
      <4> QED
        BY <4>3, <4>4
    <3> QED
      BY <3>2, <3>4 DEF Safe
  <2>3. CASE ~(remaining[mine[t][1]] > 0)
    <3>1. /\ CasState(mine[t], version[mine[t]], "FAILED")
          /\ pc' = [pc EXCEPT ![t] = "loop"]
          /\ Forget(t)
          /\ UNCHANGED <<side, book, todo>>
      BY <1>4, <2>1, <2>3 DEF CheckLot
    <3>2. /\ FreshSnapshots' /\ NoRulesBeforeLot'
          /\ state'[mine[t]] = "FAILED"
          /\ \A o \in Rules \ {mine[t]} : state'[o] = state[o] /\ version'[o] = version[o]
      <4>1. "FAILED" \in RuleStates \ {"ABSENT"}
        BY DEF RuleStates
      <4> HIDE DEF IInv, TypeOK
      <4> QED
        BY <2>1, <3>1, <4>1, RuleMove
    <3>3. /\ pc'[t] \notin FiringPcs /\ pc'[t] = "loop"
          /\ \A u \in Evals \ {t} : pc'[u] = pc[u] /\ mine'[u] = mine[u] /\ held'[u] = held[u]
      BY <3>1 DEF Forget, FiringPcs
    <3>4. TypeOK /\ HoldsRule /\ FiringIsExclusive /\ FiringApart /\ OrdersAfterFiring
      OBVIOUS
    <3>5. FiringIsExclusive' /\ FiringApart' /\ OrdersAfterFiring'
      <4> HIDE DEF IInv, TypeOK
      <4>1. FiringIsExclusive' /\ FiringApart'
        BY <2>1, <3>2, <3>3, <3>4, OthersKeepFiring
      <4>2. OrdersAfterFiring'
        BY <2>1, <3>1, <3>2, <3>3, <3>4, OthersKeepOrders
      <4> QED
        BY <4>1, <4>2
    <3>6. OneOrderPerRule'
      BY <3>1 DEF OneOrderPerRule
    <3> QED
      BY <3>2, <3>5, <3>6 DEF Safe
  <2> QED
    BY <2>2, <2>3
<1>5. CASE CancelSibling(t)
  <2> DEFINE sib == Sibling(mine[t])
  <2>0. /\ pc[t] = "settled" /\ pc' = [pc EXCEPT ![t] = "loop"]
        /\ Forget(t)
        /\ UNCHANGED <<side, book, todo>>
    BY <1>5 DEF CancelSibling, Moves
  <2>1. sib \in Rules
    BY <2>0, RulePair DEF HoldsRule
  <2>2. /\ pc[t] \notin FiringPcs /\ pc'[t] \notin FiringPcs /\ pc'[t] = "loop"
        /\ \A u \in Evals \ {t} : pc'[u] = pc[u] /\ mine'[u] = mine[u] /\ held'[u] = held[u]
    BY <2>0 DEF Forget, FiringPcs
  <2>3. CASE OcoApplies(mine[t])
    <3>1. state[sib] = "ARMED" /\ CasState(sib, version[sib], "CANCELLED")
      BY <1>5, <2>3 DEF CancelSibling, OcoApplies
    <3>2. /\ FreshSnapshots' /\ NoRulesBeforeLot'
          /\ state'[sib] = "CANCELLED"
          /\ \A o \in Rules \ {sib} : state'[o] = state[o] /\ version'[o] = version[o]
      BY <2>0, <2>1, <3>1, RuleMove DEF RuleStates
    <3>3. \A u \in Evals \ {t} : pc[u] \in FiringPcs => mine[u] # sib
      BY <3>1 DEF FiringIsExclusive
    <3>4. TypeOK /\ HoldsRule /\ FiringIsExclusive /\ FiringApart /\ OrdersAfterFiring
      OBVIOUS
    <3>5. FiringIsExclusive' /\ FiringApart' /\ OrdersAfterFiring'
      <4> HIDE DEF IInv, TypeOK, sib
      <4>1. FiringIsExclusive' /\ FiringApart'
        BY <2>1, <2>2, <3>2, <3>3, <3>4, OthersKeepFiring
      <4>2. OrdersAfterFiring'
        BY <2>0, <2>1, <2>2, <3>2, <3>4, OthersKeepOrders
      <4> QED
        BY <4>1, <4>2
    <3>6. OneOrderPerRule'
      BY <2>0 DEF OneOrderPerRule
    <3> QED
      BY <3>2, <3>5, <3>6 DEF Safe
  <2>4. CASE ~OcoApplies(mine[t])
    <3>1. UNCHANGED rules
      BY <1>5, <2>4 DEF CancelSibling
    <3>2. FreshSnapshots' /\ NoRulesBeforeLot' /\ OneOrderPerRule'
      BY <2>0, <3>1 DEF FreshSnapshots, NoRulesBeforeLot, OneOrderPerRule
    <3>3. FiringIsExclusive' /\ FiringApart' /\ OrdersAfterFiring'
      <4>1. FiringIsExclusive /\ FiringApart /\ OrdersAfterFiring
        OBVIOUS
      <4>2. UNCHANGED <<state, version, book>>
        BY <2>0, <3>1 DEF rules
      <4> HIDE DEF IInv, TypeOK
      <4>3. FiringIsExclusive' /\ FiringApart'
        BY <2>2, <4>1, <4>2, StillFiring
      <4>4. OrdersAfterFiring'
        BY <2>2, <4>1, <4>2, StillOrders
      <4> QED
        BY <4>3, <4>4
    <3> QED
      BY <3>2, <3>3 DEF Safe
  <2> QED
    BY <2>3, <2>4
<1>6. CASE EndCheck(t)
  <2>1. /\ pc[t] = "loop" /\ pc' = [pc EXCEPT ![t] = "idle"]
        /\ UNCHANGED <<side, rules, book, todo, mine, held>>
    BY <1>6 DEF EndCheck
  <2>2. FreshSnapshots' /\ NoRulesBeforeLot' /\ OneOrderPerRule'
    BY <2>1 DEF FreshSnapshots, NoRulesBeforeLot, OneOrderPerRule
  <2>3. FiringIsExclusive' /\ FiringApart' /\ OrdersAfterFiring'
    BY <2>1 DEF FiringIsExclusive, FiringApart, OrdersAfterFiring, FiringPcs
  <2> QED
    BY <2>2, <2>3 DEF Safe
<1> QED
  BY <1>1, <1>2, <1>3, <1>4, <1>5, <1>6 DEF Loop

\* An order sent for a rule that has none yet.
LEMMA SentOrder ==
    ASSUME IInv, NEW t \in Evals, pc[t] = "placing", book' = Append(book, ExitOrder(t)),
           UNCHANGED <<state, mine>>, pc'[t] \in {"accepted", "refused"},
           \A u \in Evals \ {t} : pc'[u] = pc[u]
    PROVE  OrdersAfterFiring' /\ OneOrderPerRule'
<1> DEFINE r == mine[t]
<1>1. /\ r \in Rules /\ state[r] = "FIRING"
      /\ \A u \in Evals \ {t} : pc[u] \in FiringPcs => mine[u] # r
  BY FiringAlone DEF FiringPcs
<1>2. /\ DOMAIN book' = DOMAIN book \cup {Len(book) + 1} /\ Len(book) + 1 \notin DOMAIN book
      /\ book'[Len(book) + 1].tag = r
      /\ \A i \in DOMAIN book : book'[i] = book[i]
  <2>1. book \in Seq(OrderRecord)
    BY DEF IInv, TypeOK
  <2>2. ExitOrder(t).tag = r
    BY DEF ExitOrder, Order
  <2> HIDE DEF r
  <2> QED
    BY <2>1, <2>2
<1>3. \A i \in DOMAIN book : book[i].tag # r
  BY DEF IInv, OrdersAfterFiring
<1>4. OneOrderPerRule'
  <2> SUFFICES ASSUME NEW i \in DOMAIN book', NEW j \in DOMAIN book',
                      book'[i].tag = book'[j].tag, book'[i].tag # NoRule
      PROVE  i = j
    BY DEF OneOrderPerRule
  <2> HIDE DEF r
  <2>1. CASE i \in DOMAIN book /\ j \in DOMAIN book
    BY <1>2, <2>1 DEF IInv, OneOrderPerRule
  <2>2. CASE ~(i \in DOMAIN book /\ j \in DOMAIN book)
    BY <1>2, <1>3, <2>2
  <2> QED
    BY <2>1, <2>2
<1>5. OrdersAfterFiring'
  <2>1. ASSUME NEW i \in DOMAIN book', book'[i].tag # NoRule
        PROVE  state[book'[i].tag] \notin {"ABSENT", "ARMED"}
    <3>1. CASE i \in DOMAIN book
      BY <1>2, <2>1, <3>1 DEF IInv, OrdersAfterFiring
    <3>2. CASE i = Len(book) + 1
      BY <1>1, <1>2, <3>2
    <3> QED
      BY <1>2, <3>1, <3>2
  <2>2. ASSUME NEW u \in Evals, pc'[u] \in {"checklot", "lookup", "placing"},
               NEW i \in DOMAIN book'
        PROVE  book'[i].tag # mine[u]
    <3>1. u # t /\ pc[u] = pc'[u]
      BY <2>2
    <3>2. mine[u] # r
      BY <1>1, <2>2, <3>1 DEF FiringPcs
    <3>3. CASE i \in DOMAIN book
      BY <1>2, <2>2, <3>1, <3>3 DEF IInv, OrdersAfterFiring
    <3>4. CASE i = Len(book) + 1
      BY <1>2, <3>2, <3>4
    <3> QED
      BY <1>2, <3>3, <3>4
  <2> QED
    BY <2>1, <2>2 DEF OrdersAfterFiring
<1> QED
  BY <1>4, <1>5

LEMMA ReplySafe ==
    ASSUME IInv, TypeOK', NEW t \in Evals, BrokerReply(t) \/ Continue(t)
    PROVE  Safe'
<1>1. CASE BrokerReply(t)
  <2>1. /\ UNCHANGED <<side, rules, todo, mine, held>>
        /\ pc[t] \in {"lookup", "placing"}
        /\ pc'[t] \in {"placing", "accepted", "refused"}
        /\ \A u \in Evals \ {t} : pc'[u] = pc[u]
    BY <1>1 DEF BrokerReply, FindExisting, PlaceAccepted, PlaceLost, CallFails, Moves,
       IInv, TypeOK
  <2>2. pc[t] \in FiringPcs
    BY <2>1 DEF FiringPcs
  <2>3. FreshSnapshots' /\ NoRulesBeforeLot'
    BY <2>1 DEF IInv, FreshSnapshots, NoRulesBeforeLot
  <2>4. FiringIsExclusive' /\ FiringApart'
    <3>1. \A u \in Evals : pc'[u] \in FiringPcs => pc[u] \in FiringPcs
      BY <2>1, <2>2
    <3> QED
      BY <2>1, <3>1 DEF IInv, FiringIsExclusive, FiringApart, FiringPcs
  <2>5. OrdersAfterFiring' /\ OneOrderPerRule'
    <3>1. CASE PlaceAccepted(t) \/ PlaceLost(t)
      <4>1. /\ pc[t] = "placing" /\ pc'[t] \in {"accepted", "refused"}
            /\ book' = Append(book, ExitOrder(t))
        BY <3>1 DEF PlaceAccepted, PlaceLost, Moves, IInv, TypeOK
      <4> QED
        BY <2>1, <4>1, SentOrder
    <3>2. CASE FindExisting(t) \/ CallFails(t)
      <4>1. UNCHANGED book
        BY <3>2 DEF FindExisting, CallFails
      <4>2. pc'[t] = "placing" => \A i \in DOMAIN book : book[i].tag # mine[t]
        BY <3>2 DEF FindExisting, CallFails, Moves, OrdersOf, IInv, TypeOK
      <4>3. OneOrderPerRule'
        BY <4>1 DEF IInv, OneOrderPerRule
      <4>4. ASSUME NEW u \in Evals, pc'[u] \in {"checklot", "lookup", "placing"}
            PROVE  \A i \in DOMAIN book : book[i].tag # mine[u]
        BY <2>1, <4>2, <4>4 DEF IInv, OrdersAfterFiring
      <4>5. OrdersAfterFiring'
        BY <2>1, <4>1, <4>4 DEF IInv, OrdersAfterFiring
      <4> QED
        BY <4>3, <4>5
    <3> QED
      BY <1>1, <3>1, <3>2 DEF BrokerReply
  <2> QED
    BY <2>3, <2>4, <2>5 DEF Safe
<1>2. ASSUME NEW from \in {"accepted", "refused"}, NEW to \in {"settled", "notify"},
             NEW new \in {"PLACED", "FAILED"},
             Moves(t, from, to), CasState(mine[t], held[t], new),
             UNCHANGED <<side, book, todo>>,
             \A u \in Evals \ {t} : mine'[u] = mine[u] /\ held'[u] = held[u]
      PROVE  Safe'
  <2>1. pc[t] = from /\ pc'[t] = to /\ \A u \in Evals \ {t} : pc'[u] = pc[u]
    BY <1>2 DEF Moves, IInv, TypeOK
  <2>2. pc[t] \in FiringPcs /\ pc'[t] \notin FiringPcs
        /\ pc'[t] \notin {"checklot", "lookup", "placing"}
    BY <2>1 DEF FiringPcs
  <2>3. /\ mine[t] \in Rules
        /\ state[mine[t]] = "FIRING" /\ version[mine[t]] = held[t]
        /\ \A u \in Evals \ {t} : pc[u] \in FiringPcs => mine[u] # mine[t]
    BY <2>2, FiringAlone
  <2>4. /\ FreshSnapshots' /\ NoRulesBeforeLot'
        /\ state'[mine[t]] = new
        /\ \A o \in Rules \ {mine[t]} : state'[o] = state[o] /\ version'[o] = version[o]
    BY <1>2, <2>3, RuleMove DEF RuleStates
  <2>5. TypeOK /\ HoldsRule /\ FiringIsExclusive /\ FiringApart /\ OrdersAfterFiring
    BY DEF IInv
  <2>6. FiringIsExclusive' /\ FiringApart'
    BY <1>2, <2>1, <2>2, <2>3, <2>4, <2>5, OthersKeepFiring
  <2>7. OrdersAfterFiring'
    BY <1>2, <2>1, <2>2, <2>3, <2>4, <2>5, OthersKeepOrders
  <2>8. OneOrderPerRule'
    BY <1>2 DEF IInv, OneOrderPerRule
  <2> QED
    BY <2>4, <2>6, <2>7, <2>8 DEF Safe
<1>3. CASE Settle(t)
  <2>1. /\ Moves(t, "accepted", "settled") /\ CasState(mine[t], held[t], "PLACED")
        /\ UNCHANGED <<side, book, todo, mine, held>>
    BY <1>3 DEF Settle
  <2> QED
    BY <1>2, <2>1
<1>4. CASE MarkFailed(t)
  <2>1. /\ Moves(t, "refused", "notify") /\ CasState(mine[t], held[t], "FAILED")
        /\ UNCHANGED <<side, book, todo>>
    BY <1>4 DEF MarkFailed, AfterFailure
  <2>2. \A u \in Evals \ {t} : mine'[u] = mine[u] /\ held'[u] = held[u]
    BY <1>4 DEF MarkFailed, Forget, IInv, TypeOK
  <2> QED
    BY <1>2, <2>1, <2>2
<1>5. CASE Resume(t)
  <2>1. /\ pc[t] = "notify" /\ pc' = [pc EXCEPT ![t] = "loop"]
        /\ UNCHANGED <<side, rules, book, todo, mine, held>>
    BY <1>5 DEF Resume, Moves
  <2>2. FreshSnapshots' /\ NoRulesBeforeLot' /\ OneOrderPerRule'
    BY <2>1 DEF IInv, FreshSnapshots, NoRulesBeforeLot, OneOrderPerRule
  <2>3. FiringIsExclusive' /\ FiringApart' /\ OrdersAfterFiring'
    BY <2>1 DEF IInv, TypeOK, FiringIsExclusive, FiringApart, OrdersAfterFiring, FiringPcs
  <2> QED
    BY <2>2, <2>3 DEF Safe
<1> QED
  BY <1>1, <1>3, <1>4, <1>5 DEF Continue

\* A rule moved while nobody fires it.
LEMMA MovedSafe ==
    ASSUME IInv, NEW r \in Rules, NEW new \in RuleStates \ {"ABSENT", "ARMED"},
           state[r] \notin {"ABSENT", "FIRING"}, CasState(r, version[r], new),
           UNCHANGED <<side, book, todo, pc, mine, held>>
    PROVE  Safe'
<1>1. /\ FreshSnapshots' /\ NoRulesBeforeLot'
      /\ state'[r] = new
      /\ \A o \in Rules \ {r} : state'[o] = state[o] /\ version'[o] = version[o]
  BY RuleMove
<1>2. \A u \in Evals : pc[u] \in FiringPcs => mine[u] \in Rules \ {r}
  BY DEF IInv, HoldsRule, FiringIsExclusive
<1>3. FiringIsExclusive' /\ FiringApart'
  BY <1>1, <1>2 DEF IInv, FiringIsExclusive, FiringApart, FiringPcs
<1>4. OrdersAfterFiring'
  <2>1. ASSUME NEW i \in DOMAIN book, book[i].tag # NoRule
        PROVE  state'[book[i].tag] \notin {"ABSENT", "ARMED"}
    <3>1. book[i].tag \in Rules
      BY <2>1, TagTypes DEF IInv
    <3> QED
      BY <1>1, <2>1, <3>1 DEF IInv, OrdersAfterFiring
  <2> QED
    BY <2>1 DEF IInv, OrdersAfterFiring
<1>5. OneOrderPerRule'
  BY DEF IInv, OneOrderPerRule
<1> QED
  BY <1>1, <1>3, <1>4, <1>5 DEF Safe

LEMMA RouteSafe ==
    ASSUME IInv, TypeOK', Routes
    PROVE  Safe'
<1>1. ASSUME NEW r \in Rules, CancelArmedRule(r) PROVE Safe'
  <2>1. state[r] = "ARMED" /\ CasState(r, version[r], "CANCELLED")
    BY <1>1 DEF CancelArmedRule, Cancellable
  <2> QED
    BY <1>1, <2>1, MovedSafe DEF CancelArmedRule, RuleStates
<1>2. ASSUME NEW r \in Rules, NEW v \in Prices, ModifyLeg(r, v) PROVE Safe'
  <2>1. /\ version' = [version EXCEPT ![r] = @ + 1]
        /\ value' = [value EXCEPT ![r] = v]
        /\ state[r] = "ARMED"
        /\ UNCHANGED <<side, state, book, pc, todo, mine, held>>
    BY <1>2 DEF ModifyLeg, Bumped, Modifiable
  <2>2. FreshSnapshots'
    <3> SUFFICES ASSUME NEW t \in Evals, NEW s \in todo[t]
        PROVE  /\ state[s.rule] # "ABSENT"
               /\ s.version <= version'[s.rule]
               /\ s.version = version'[s.rule] =>
                    state[s.rule] = "ARMED" /\ value'[s.rule] = s.value
      BY <2>1 DEF FreshSnapshots
    <3>1. s.rule \in Rules /\ s.version \in Nat /\ version[s.rule] \in Nat
      <4>1. s \in SnapshotRecord
        BY DEF IInv, TypeOK
      <4> QED
        BY <4>1 DEF IInv, TypeOK, SnapshotRecord
    <3>2. /\ state[s.rule] # "ABSENT"
          /\ s.version <= version[s.rule]
          /\ s.version = version[s.rule] =>
               state[s.rule] = "ARMED" /\ value[s.rule] = s.value
      BY DEF IInv, FreshSnapshots
    <3>3. CASE s.rule = r
      <4>1. version'[r] = version[r] + 1
        BY <2>1 DEF IInv, TypeOK
      <4> QED
        BY <3>1, <3>2, <3>3, <4>1
    <3>4. CASE s.rule # r
      BY <2>1, <3>1, <3>2, <3>4 DEF IInv, TypeOK
    <3> QED
      BY <3>3, <3>4
  <2>3. FiringIsExclusive'
    BY <2>1 DEF IInv, TypeOK, HoldsRule, FiringIsExclusive, FiringPcs
  <2>4. NoRulesBeforeLot' /\ FiringApart' /\ OrdersAfterFiring' /\ OneOrderPerRule'
    BY <2>1 DEF IInv, NoRulesBeforeLot, FiringApart, OrdersAfterFiring, OneOrderPerRule
  <2> QED
    BY <2>2, <2>3, <2>4 DEF Safe
<1>3. ASSUME NEW q \in Requests, CancelRequest(q) PROVE Safe'
  <2>1. CASE (\E r \in Rules : CancelPlacedRule(q, r)) \/ CancelFind(q) \/ CancelAborts(q)
    BY <2>1, QuietSteps DEF CancelPlacedRule, CancelFind, CancelAborts, SameTags
  <2>2. CASE CancelAtBroker(q)
    <3>1. SameTags
      <4>1. CASE UNCHANGED book
        BY <4>1 DEF SameTags
      <4>2. CASE \E i \in DOMAIN book : book' = [book EXCEPT ![i].status = "cancelling"]
        BY <4>2, StatusTypes DEF IInv, TypeOK, SameTags
      <4> QED
        BY <2>2, <4>1, <4>2 DEF CancelAtBroker, OrdersOf
    <3> QED
      BY <2>2, <3>1, QuietSteps DEF CancelAtBroker
  <2>3. CASE CancelConfirmed(q)
    <3>1. rrule[q] \in Rules /\ UNCHANGED <<side, book, todo, pc, mine, held>>
      BY <2>3 DEF CancelConfirmed, IInv, HoldsRule
    <3>2. CASE state[rrule[q]] = "PLACED"
      BY <2>3, <3>1, <3>2, MovedSafe DEF CancelConfirmed, RuleStates
    <3>3. CASE state[rrule[q]] # "PLACED"
      BY <2>3, <3>1, <3>3, QuietSteps DEF CancelConfirmed, SameTags
    <3> QED
      BY <3>2, <3>3
  <2> QED
    BY <1>3, <2>1, <2>2, <2>3 DEF CancelRequest
<1>4. CASE ManualExit
  <2>1. /\ UNCHANGED <<side, rules, pc, todo, mine, held>>
        /\ \E sd \in {"BUY", "SELL"}, n \in Int : book' = Append(book, Order(NoRule, sd, n))
    BY <1>4 DEF ManualExit, IInv, TypeOK
  <2>2. PICK o : book' = Append(book, o) /\ o.tag = NoRule
    BY <2>1 DEF Order
  <2>3. /\ DOMAIN book' = DOMAIN book \cup {Len(book) + 1}
        /\ book'[Len(book) + 1].tag = NoRule
        /\ \A i \in DOMAIN book : book'[i] = book[i]
    <3>1. book \in Seq(OrderRecord)
      BY DEF IInv, TypeOK
    <3> QED
      BY <2>2, <3>1
  <2>4. FreshSnapshots' /\ NoRulesBeforeLot' /\ FiringIsExclusive' /\ FiringApart'
    BY <2>1 DEF IInv, FreshSnapshots, NoRulesBeforeLot, FiringIsExclusive, FiringApart
  <2>5. OneOrderPerRule'
    BY <2>3 DEF IInv, OneOrderPerRule
  <2>6. OrdersAfterFiring'
    <3>1. ASSUME NEW t \in Evals, pc[t] \in {"checklot", "lookup", "placing"}
          PROVE  mine[t] # NoRule
      BY <3>1, NullsAssumption DEF IInv, HoldsRule, FiringPcs
    <3> QED
      BY <2>1, <2>3, <3>1 DEF IInv, OrdersAfterFiring
  <2> QED
    BY <2>4, <2>5, <2>6 DEF Safe
<1> QED
  BY <1>1, <1>2, <1>3, <1>4 DEF Routes

\* The rules of a new lot were absent, so nobody has read or fired them.
LEMMA ArmSafe ==
    ASSUME IInv, TypeOK', NEW l \in Lots, NEW sd \in {"BUY", "SELL"}, NEW n, NEW price,
           side[l] = "NONE", ArmLotBracket(l, sd, n, price), SameTags,
           UNCHANGED <<pc, todo, mine, held>>
    PROVE  Safe'
<1>1. \A r \in Rules : r[1] = l => state[r] = "ABSENT"
  BY DEF IInv, NoRulesBeforeLot
<1>2. /\ UNCHANGED version
      /\ \A r \in Rules : state[r] # "ABSENT" => state'[r] = state[r] /\ value'[r] = value[r]
  BY <1>1 DEF ArmLotBracket
<1>3. FreshSnapshots'
  <2>1. FreshSnapshots /\ todo \in [Evals -> SUBSET SnapshotRecord]
    BY DEF IInv, TypeOK
  <2>2. ASSUME NEW t \in Evals, NEW s \in todo[t] PROVE s.rule \in Rules
    BY <2>1, <2>2 DEF SnapshotRecord
  <2> QED
    BY <1>2, <2>1, <2>2 DEF FreshSnapshots
<1>4. NoRulesBeforeLot'
  <2> SUFFICES ASSUME NEW r \in Rules, side'[r[1]] = "NONE" PROVE state'[r] = "ABSENT"
    BY DEF NoRulesBeforeLot
  <2>1. r[1] # l
    BY DEF ArmLotBracket, IInv, TypeOK
  <2>2. side[r[1]] = "NONE" /\ state'[r] = state[r]
    BY <2>1, RulePair DEF ArmLotBracket, IInv, TypeOK
  <2> QED
    BY <2>2 DEF IInv, NoRulesBeforeLot
<1>5. FiringIsExclusive' /\ FiringApart'
  BY <1>2 DEF IInv, HoldsRule, FiringIsExclusive, FiringApart, FiringPcs
<1>6. OrdersAfterFiring'
  <2>1. ASSUME NEW i \in DOMAIN book, book[i].tag # NoRule
        PROVE  state'[book[i].tag] \notin {"ABSENT", "ARMED"}
    <3>1. book[i].tag \in Rules
      BY <2>1, TagTypes DEF IInv
    <3> QED
      BY <1>2, <2>1, <3>1 DEF IInv, OrdersAfterFiring
  <2> QED
    BY <2>1 DEF IInv, OrdersAfterFiring, SameTags
<1>7. OneOrderPerRule'
  BY DEF IInv, OneOrderPerRule, SameTags
<1> QED
  BY <1>3, <1>4, <1>5, <1>6, <1>7 DEF Safe

LEMMA LedgerSafe ==
    ASSUME IInv, TypeOK', (\E l \in Lots : EnterLot(l)) \/ Broker \/ Pushes \/ Restart
    PROVE  Safe'
<1>1. ASSUME NEW l \in Lots, EnterLot(l) PROVE Safe'
  <2>1. PICK sd \in Sides, legs \in SUBSET Roles : \E price \in [legs -> Prices] :
           ArmLotBracket(l, sd, LotQty, price)
    BY <1>1 DEF EnterLot
  <2>2. PICK price \in [legs -> Prices] : ArmLotBracket(l, sd, LotQty, price)
    BY <2>1
  <2>3. side[l] = "NONE" /\ SameTags /\ UNCHANGED <<pc, todo, mine, held>>
    BY <1>1 DEF EnterLot, SameTags
  <2> QED
    BY <2>2, <2>3, SidesAssumption, ArmSafe
<1>2. ASSUME NEW i \in DOMAIN book, OrderFills(i) \/ OrderCancelled(i) \/ OrderRejected(i)
      PROVE  Safe'
  <2>1. SameTags
    BY <1>2, StatusTypes DEF OrderFills, OrderCancelled, OrderRejected, OrderMoves,
       IInv, TypeOK, SameTags
  <2> QED
    BY <1>2, <2>1, QuietSteps DEF OrderFills, OrderCancelled, OrderRejected, OrderMoves
<1>3. ASSUME NEW i \in DOMAIN book, RecordFill(i) PROVE SameTags
  BY <1>3, RecordedTypes DEF RecordFill, IInv, TypeOK, SameTags
<1>4. ASSUME NEW i \in DOMAIN book, FillExit(i) PROVE Safe'
  BY <1>3, <1>4, QuietSteps DEF FillExit, RecordFill
<1>5. ASSUME NEW i \in DOMAIN book, NEW l \in Lots, FillEntry(i, l) PROVE Safe'
  <2>1. PICK price \in [Roles -> Prices] : ArmLotBracket(l, book[i].side, book[i].qty, price)
    BY <1>5 DEF FillEntry
  <2>2. book[i].side \in {"BUY", "SELL"}
    <3>1. book[i] \in OrderRecord
      BY DEF IInv, TypeOK
    <3> QED
      BY <3>1 DEF OrderRecord
  <2>3. side[l] = "NONE" /\ SameTags /\ UNCHANGED <<pc, todo, mine, held>>
    BY <1>3, <1>5 DEF FillEntry, RecordFill
  <2> QED
    BY <2>1, <2>2, <2>3, ArmSafe
<1>6. CASE Restart
  <2>1. /\ UNCHANGED <<side, rules, book>>
        /\ \A t \in Evals : pc'[t] = "idle" /\ todo'[t] = {}
    BY <1>6 DEF Restart
  <2>2. FreshSnapshots' /\ NoRulesBeforeLot' /\ OneOrderPerRule'
    BY <2>1 DEF IInv, FreshSnapshots, NoRulesBeforeLot, OneOrderPerRule
  <2>3. FiringIsExclusive' /\ FiringApart' /\ OrdersAfterFiring'
    BY <2>1 DEF IInv, FiringIsExclusive, FiringApart, OrdersAfterFiring, FiringPcs
  <2> QED
    BY <2>2, <2>3 DEF Safe
<1> QED
  BY <1>1, <1>2, <1>4, <1>5, <1>6 DEF Broker, Pushes

LEMMA NextIInv ==
    ASSUME IInv, [Next]_vars
    PROVE  IInv'
<1>1. TypeOK' /\ HoldsRule'
  BY NextTypes, NextHoldsRule DEF IInv
<1>2. Safe'
  <2>1. CASE UNCHANGED vars
    BY <1>1, <2>1, QuietSteps DEF vars, SameTags
  <2>2. CASE Next
    BY <1>1, <2>2, LoopSafe, ReplySafe, RouteSafe, LedgerSafe DEF Next, Evaluator
  <2> QED
    BY <2>1, <2>2
<1> QED
  BY <1>1, <1>2 DEF IInv, Safe

-----------------------------------------------------------------------------
(* The theorems.                                                           *)

\* The inductive invariant holds in every reachable state.
THEOREM SpecIInv == Spec => []IInv
<1>1. Init => IInv
  BY InitIInv
<1>2. IInv /\ [Next]_vars => IInv'
  BY NextIInv
<1> QED
  BY <1>1, <1>2, PTL DEF Spec

\* Every variable of the ledger, the evaluations and the book keeps its type.
THEOREM SpecTypeOK == Spec => []TypeOK
<1>1. IInv => TypeOK
  BY DEF IInv
<1> QED
  BY <1>1, SpecIInv, PTL

\* However many ticks, cancels, modifications, lost replies and restarts interleave, no
\* rule ever has two orders at the broker: _fire_rule and place_order together are
\* at-most-once.
THEOREM SpecOneOrderPerRule == Spec => []OneOrderPerRule
<1>1. IInv => OneOrderPerRule
  BY DEF IInv
<1> QED
  BY <1>1, SpecIInv, PTL

\* The compare-and-sets out of FIRING never lose: the row _fire_rule won is untouched until
\* it settles it.
THEOREM SpecFiringIsExclusive == Spec => []FiringIsExclusive
<1>1. IInv => FiringIsExclusive
  BY DEF IInv
<1> QED
  BY <1>1, SpecIInv, PTL
=============================================================================
