---------------------- MODULE BracketEngineStepProofs ----------------------
(***************************************************************************)
(* What a step of BracketEngine may do to a rule and to the order book,    *)
(* and the theorems that follow from it: a rule fires on the price the     *)
(* ledger holds, a placed leg leaves no sibling to fire, the engine        *)
(* implements OneShotRules, and a cancelled rule has no order resting at   *)
(* the broker.                                                             *)
(***************************************************************************)
EXTENDS BracketEngineProofs, FiniteSetTheorems

USE DEF lots, rules, evals, reqs

Wins(t, r) == \E s \in todo[t] : WinRule(t, s) /\ s.rule = r

Kept(r) == state'[r] = state[r]

Advances(r) ==
    \/ Kept(r)
    \/ state[r] = "ABSENT" /\ state'[r] = "ARMED" /\ side[r[1]] = "NONE"
    \/ state[r] = "ARMED" /\ state'[r] = "FIRING" /\ \E t \in Evals : Wins(t, r)
    \/ state[r] = "FIRING" /\ state'[r] = "FAILED"
    \/ state[r] = "FIRING" /\ state'[r] = "PLACED" /\ \E t \in Evals : Settle(t) /\ mine[t] = r
    \/ state[r] = "ARMED" /\ state'[r] = "CANCELLED"
    \/ /\ state[r] = "PLACED" /\ state'[r] = "CANCELLED"
       /\ \E q \in Requests : CancelConfirmed(q) /\ rrule[q] = r

\* A compare-and-set moves one rule at most.
LEMMA CasMoves ==
    ASSUME TypeOK, NEW r \in Rules, NEW o \in Rules, NEW expected, NEW new,
           CasState(o, expected, new)
    PROVE  Kept(r) \/ (r = o /\ state'[r] = new)
BY DEF CasState, Kept, TypeOK

\* The life of a rule: what one step may do to it.
LEMMA RuleSteps ==
    ASSUME IInv, [Next]_vars, NEW r \in Rules
    PROVE  Advances(r)
<1> SUFFICES ASSUME ~Kept(r) PROVE Advances(r)
  BY DEF Advances
<1>0. TypeOK /\ HoldsRule
  BY DEF IInv
<1>1. CASE UNCHANGED vars
  BY <1>1 DEF vars, Kept
<1>2. ASSUME NEW l \in Lots, NEW sd, NEW n, NEW price, ArmLotBracket(l, sd, n, price),
             side[l] = "NONE"
      PROVE  Advances(r)
  <2>1. state'[r] = "ARMED" /\ r[1] = l
    BY <1>2 DEF ArmLotBracket, Kept
  <2>2. state[r] = "ABSENT"
    BY <1>2, <2>1 DEF IInv, NoRulesBeforeLot
  <2> QED
    BY <1>2, <2>1, <2>2 DEF Advances
<1>3. ASSUME NEW l \in Lots, EnterLot(l) PROVE Advances(r)
  BY <1>2, <1>3 DEF EnterLot
<1>4. ASSUME NEW t \in Evals, Evaluator(t) PROVE Advances(r)
  <2>1. ~StartCheck(t) /\ ~EndCheck(t) /\ ~BrokerReply(t) /\ ~Resume(t)
    BY DEF StartCheck, EndCheck, BrokerReply, Resume, Kept
  <2>2. ASSUME NEW s \in todo[t], SkipRule(t, s) PROVE FALSE
    BY <2>2 DEF SkipRule, Kept
  <2>3. ASSUME NEW s \in todo[t], WinRule(t, s) PROVE Advances(r)
    <3>1. s \in SnapshotRecord
      BY <1>0 DEF TypeOK
    <3>2. s.rule \in Rules /\ CasState(s.rule, s.version, "FIRING") /\ CasWins(s.rule, s.version)
      BY <2>3, <3>1 DEF WinRule, SnapshotRecord
    <3>3. s.rule = r /\ state'[r] = "FIRING"
      BY <1>0, <3>2, CasMoves
    <3>4. state[r] = "ARMED"
      BY <3>2, <3>3 DEF IInv, FreshSnapshots, CasWins
    <3> QED
      BY <2>3, <3>3, <3>4 DEF Advances, Wins
  <2>4. CASE CheckLot(t)
    <3>1. CasState(mine[t], held[t], "FAILED")
      BY <2>4 DEF CheckLot, Kept
    <3>2. mine[t] \in Rules /\ state[mine[t]] = "FIRING"
      BY <2>4, FiringAlone DEF CheckLot, FiringPcs
    <3> QED
      BY <1>0, <3>1, <3>2, CasMoves DEF Advances
  <2>5. CASE CancelSibling(t)
    <3> DEFINE sib == Sibling(mine[t])
    <3>1. mine[t] \in Rules /\ sib \in Rules
      BY <1>0, <2>5, RulePair DEF CancelSibling, Moves, HoldsRule
    <3>2. state[sib] = "ARMED" /\ CasState(sib, version[sib], "CANCELLED")
      BY <2>5 DEF CancelSibling, OcoApplies, Kept
    <3> HIDE DEF sib
    <3> QED
      BY <1>0, <3>1, <3>2, CasMoves DEF Advances
  <2>6. CASE Settle(t)
    <3>1. CasState(mine[t], held[t], "PLACED")
      BY <2>6 DEF Settle
    <3>2. mine[t] \in Rules /\ state[mine[t]] = "FIRING"
      BY <2>6, FiringAlone DEF Settle, Moves, FiringPcs
    <3> QED
      BY <1>0, <2>6, <3>1, <3>2, CasMoves DEF Advances
  <2>7. CASE MarkFailed(t)
    <3>1. CasState(mine[t], held[t], "FAILED")
      BY <2>7 DEF MarkFailed, AfterFailure
    <3>2. mine[t] \in Rules /\ state[mine[t]] = "FIRING"
      BY <2>7, FiringAlone DEF MarkFailed, Moves, FiringPcs
    <3> QED
      BY <1>0, <3>1, <3>2, CasMoves DEF Advances
  <2> QED
    BY <1>4, <2>1, <2>2, <2>3, <2>4, <2>5, <2>6, <2>7 DEF Evaluator, Loop, Continue
<1>5. CASE Routes
  <2>1. ASSUME NEW o \in Rules, CancelArmedRule(o) PROVE Advances(r)
    <3>1. state[o] = "ARMED" /\ CasState(o, version[o], "CANCELLED")
      BY <2>1 DEF CancelArmedRule, Cancellable
    <3> QED
      BY <1>0, <3>1, CasMoves DEF Advances
  <2>2. ASSUME NEW o \in Rules, NEW v \in Prices, ModifyLeg(o, v) PROVE FALSE
    BY <2>2 DEF ModifyLeg, Kept
  <2>3. ASSUME NEW q \in Requests, CancelRequest(q) PROVE Advances(r)
    <3>1. CancelConfirmed(q)
      BY <2>3 DEF CancelRequest, CancelPlacedRule, CancelFind, CancelAtBroker, CancelAborts, Kept
    <3>2. rrule[q] \in Rules
      BY <1>0, <3>1 DEF CancelConfirmed, HoldsRule
    <3>3. state[rrule[q]] = "PLACED" /\ CasState(rrule[q], version[rrule[q]], "CANCELLED")
      BY <3>1 DEF CancelConfirmed, Kept
    <3> QED
      BY <1>0, <3>1, <3>2, <3>3, CasMoves DEF Advances
  <2>4. CASE ManualExit
    BY <2>4 DEF ManualExit, Kept
  <2> QED
    BY <1>5, <2>1, <2>2, <2>3, <2>4 DEF Routes
<1>6. CASE Broker \/ Restart
  BY <1>6 DEF Broker, OrderFills, OrderCancelled, OrderRejected, OrderMoves, Restart, Kept
<1>7. CASE Pushes
  <2>1. ASSUME NEW i \in DOMAIN book, FillExit(i) PROVE FALSE
    BY <2>1 DEF FillExit, Kept
  <2>2. ASSUME NEW i \in DOMAIN book, NEW l \in Lots, FillEntry(i, l) PROVE Advances(r)
    BY <1>2, <2>2 DEF FillEntry
  <2> QED
    BY <1>7, <2>1, <2>2 DEF Pushes
<1> QED
  BY <1>1, <1>3, <1>4, <1>5, <1>6, <1>7 DEF Next

\* A modification is never overrun: the price a rule fires on meets the bracket price the
\* ledger holds at that moment, because the version in the compare-and-set covers it.
THEOREM SpecFiresOnCurrentPrice == Spec => FiresOnCurrentPrice
<1> DEFINE Won == \A r \in Rules : state[r] = "ARMED" /\ state'[r] = "FIRING"
                     => ConditionMatches(r, value[r], ltp[running])
<1>1. ASSUME IInv, [Next]_vars PROVE Won
  <2> SUFFICES ASSUME NEW r \in Rules, state[r] = "ARMED", state'[r] = "FIRING"
      PROVE  ConditionMatches(r, value[r], ltp[running])
    OBVIOUS
  <2>1. PICK t \in Evals : Wins(t, r)
    BY <1>1, RuleSteps DEF Advances, Kept
  <2>2. PICK s \in todo[t] : WinRule(t, s) /\ s.rule = r
    BY <2>1 DEF Wins
  <2>3. /\ running = t /\ s.version = version[s.rule]
        /\ ConditionMatches(s.rule, s.value, ltp[t])
    BY <2>2 DEF WinRule, NextRule, CasWins
  <2>4. value[s.rule] = s.value
    BY <1>1, <2>3 DEF IInv, FreshSnapshots
  <2> QED
    BY <2>2, <2>3, <2>4
<1>2. IInv /\ [Next]_vars => [Won]_vars
  BY <1>1
<1>3. Spec => [][Won]_vars
  BY <1>2, SpecIInv, PTL DEF Spec
<1> QED
  BY <1>3 DEF FiresOnCurrentPrice

-----------------------------------------------------------------------------
(* What a step may do to an evaluation and to the order book.              *)

Answers(t) == (FindExisting(t) \/ PlaceAccepted(t)) /\ mine'[t] = mine[t]

Stays(t) == pc'[t] = pc[t] /\ mine'[t] = mine[t]

Proceeds(t) ==
    /\ pc'[t] = "accepted" => Stays(t) \/ Answers(t)
    /\ pc[t] = "settled" => Stays(t) \/ CancelSibling(t) \/ restarts' = restarts + 1

LEMMA EvalSteps ==
    ASSUME IInv, [Next]_vars, NEW t \in Evals
    PROVE  Proceeds(t)
<1>0. TypeOK
  BY DEF IInv
<1>1. CASE UNCHANGED <<pc, mine, restarts>>
  BY <1>1 DEF Proceeds, Stays
<1>2. ASSUME NEW u \in Evals, Evaluator(u)
      PROVE  Proceeds(t)
  <2>1. CASE StartCheck(u) \/ EndCheck(u) \/ Resume(u)
    BY <1>0, <2>1 DEF StartCheck, EndCheck, Resume, Moves, TypeOK, Proceeds, Stays
  <2>2. ASSUME NEW s \in todo[u], SkipRule(u, s) PROVE UNCHANGED <<pc, mine, restarts>>
    BY <2>2 DEF SkipRule
  <2>3. ASSUME NEW s \in todo[u], WinRule(u, s)
        PROVE  Proceeds(t)
    BY <1>0, <2>3 DEF WinRule, NextRule, TypeOK, Proceeds, Stays
  <2>4. CASE CheckLot(u)
    BY <1>0, <2>4 DEF CheckLot, Forget, TypeOK, Proceeds, Stays
  <2>5. CASE CancelSibling(u)
    BY <1>0, <2>5 DEF CancelSibling, Forget, Moves, TypeOK, Proceeds, Stays
  <2>6. CASE BrokerReply(u)
    <3>1. UNCHANGED <<mine, restarts>>
      BY <2>6 DEF BrokerReply
    <3>2. CASE FindExisting(u) \/ PlaceAccepted(u)
      BY <1>0, <3>1, <3>2 DEF FindExisting, PlaceAccepted, Moves, TypeOK, Proceeds, Stays, Answers
    <3>3. CASE PlaceLost(u) \/ CallFails(u)
      BY <1>0, <3>1, <3>3 DEF PlaceLost, CallFails, Moves, TypeOK, Proceeds, Stays
    <3> QED
      BY <2>6, <3>2, <3>3 DEF BrokerReply
  <2>7. CASE Settle(u)
    BY <1>0, <2>7 DEF Settle, Moves, TypeOK, Proceeds, Stays
  <2>8. CASE MarkFailed(u)
    BY <1>0, <2>8 DEF MarkFailed, Moves, Forget, TypeOK, Proceeds, Stays
  <2> QED
    BY <1>1, <1>2, <2>1, <2>2, <2>3, <2>4, <2>5, <2>6, <2>7, <2>8
       DEF Evaluator, Loop, Continue
<1>3. CASE Restart
  BY <1>3 DEF Restart, Proceeds
<1>4. CASE UNCHANGED vars \/ (\E l \in Lots : EnterLot(l)) \/ Routes \/ Broker \/ Pushes
  <2>1. UNCHANGED <<pc, mine, restarts>>
    BY <1>4 DEF vars, EnterLot, Routes, CancelArmedRule, ModifyLeg, CancelRequest,
       CancelPlacedRule, CancelFind, CancelAtBroker, CancelConfirmed, CancelAborts, ManualExit,
       Broker, OrderFills, OrderCancelled, OrderRejected, OrderMoves, Pushes, FillExit,
       FillEntry, RecordFill
  <2> QED
    BY <1>1, <2>1
<1> QED
  BY <1>2, <1>3, <1>4 DEF Next

LEMMA CountsRestarts ==
    ASSUME [Next]_vars
    PROVE  restarts' \in {restarts, restarts + 1}
<1>1. ASSUME NEW t \in Evals, Evaluator(t) PROVE UNCHANGED restarts
  BY <1>1 DEF Evaluator, StartCheck, Loop, SkipRule, WinRule, CheckLot, CancelSibling,
     EndCheck, BrokerReply, Continue, Settle, MarkFailed, Resume
<1>2. ASSUME Routes PROVE UNCHANGED restarts
  BY <1>2 DEF Routes, CancelArmedRule, ModifyLeg, CancelRequest, CancelPlacedRule,
     CancelFind, CancelAtBroker, CancelConfirmed, CancelAborts, ManualExit
<1>3. ASSUME UNCHANGED vars \/ (\E l \in Lots : EnterLot(l)) \/ Broker \/ Pushes
      PROVE  UNCHANGED restarts
  BY <1>3 DEF vars, EnterLot, Broker, OrderFills, OrderCancelled, OrderRejected, OrderMoves,
     Pushes, FillExit, FillEntry, RecordFill
<1>4. CASE Restart
  BY <1>4 DEF Restart
<1> QED
  BY <1>1, <1>2, <1>3, <1>4 DEF Next

LEMMA NextOco ==
    ASSUME IInv, OcoAfterPlacement, [Next]_vars
    PROVE  OcoAfterPlacement'
<1> SUFFICES ASSUME restarts' = 0, NEW r \in Rules, state'[r] = "PLACED",
                    \A t \in Evals : ~(pc'[t] = "settled" /\ mine'[t] = r),
                    state'[Sibling(r)] = "ARMED"
    PROVE  FALSE
  BY DEF OcoAfterPlacement
<1>0. TypeOK /\ Sibling(r) \in Rules /\ Sibling(r)[1] = r[1]
  BY RulePair DEF IInv, Sibling
<1>1. state[r] = "PLACED"
  <2>1. ASSUME NEW t \in Evals, Settle(t), mine[t] = r PROVE FALSE
    BY <1>0, <2>1 DEF Settle, Moves, TypeOK
  <2> QED
    BY <2>1, RuleSteps DEF Advances, Kept
<1>2. state[Sibling(r)] = "ARMED"
  <2>1. side[r[1]] # "NONE"
    BY <1>1 DEF IInv, NoRulesBeforeLot
  <2>2. Advances(Sibling(r))
    BY <1>0, RuleSteps
  <2> QED
    BY <1>0, <2>1, <2>2 DEF Advances, Kept
<1>3. CASE \E t \in Evals : pc[t] = "settled" /\ mine[t] = r
  <2>1. PICK t \in Evals : pc[t] = "settled" /\ mine[t] = r
    BY <1>3
  <2>2. restarts' # restarts + 1
    BY <1>0 DEF TypeOK
  <2>3. CancelSibling(t)
    BY <2>1, <2>2, EvalSteps DEF Proceeds, Stays
  <2>4. CasState(Sibling(r), version[Sibling(r)], "CANCELLED")
    BY <1>2, <2>1, <2>3 DEF CancelSibling, OcoApplies
  <2> QED
    BY <1>0, <2>4 DEF CasState, CasWins, TypeOK
<1>4. CASE \A t \in Evals : ~(pc[t] = "settled" /\ mine[t] = r)
  <2>1. restarts = 0
    BY <1>0, CountsRestarts DEF TypeOK
  <2> QED
    BY <1>1, <1>2, <1>4, <2>1 DEF OcoAfterPlacement
<1> QED
  BY <1>3, <1>4

\* Once a leg is PLACED and its evaluation has given the loop back, the other leg cannot be
\* won any more: the two transactions of _fire_rule are atomic but for a crash.
THEOREM SpecOcoAfterPlacement == Spec => []OcoAfterPlacement
<1>1. Init => OcoAfterPlacement
  BY DEF Init, OcoAfterPlacement
<1>2. IInv /\ OcoAfterPlacement /\ [Next]_vars => OcoAfterPlacement'
  BY NextOco
<1> QED
  BY <1>1, <1>2, SpecIInv, PTL DEF Spec

-----------------------------------------------------------------------------
(* What a step may do to the order book.                                   *)

SentBy(t, i) ==
    /\ pc[t] = "placing" /\ book'[i].tag = mine[t]
    /\ UNCHANGED <<state, rpc, rrule>>

Continues ==
    /\ DOMAIN book \subseteq DOMAIN book'
    /\ \A i \in DOMAIN book :
         book'[i].tag = book[i].tag /\ (book'[i].status = "open" => book[i].status = "open")

Grows ==
    /\ Continues
    /\ \A i \in DOMAIN book' \ DOMAIN book :
         book'[i].tag = NoRule \/ \E t \in Evals : SentBy(t, i)

LEMMA AppendGrows ==
    ASSUME TypeOK, NEW o, book' = Append(book, o)
    PROVE  /\ Continues
           /\ DOMAIN book' = DOMAIN book \cup {Len(book) + 1}
           /\ Len(book) + 1 \notin DOMAIN book
           /\ book'[Len(book) + 1] = o
<1>1. book \in Seq(OrderRecord)
  BY DEF TypeOK
<1> QED
  BY <1>1 DEF Continues

LEMMA StatusContinues ==
    ASSUME TypeOK, NEW i \in DOMAIN book,
           NEW st \in {"cancelling", "cancelled", "complete", "rejected"},
           book' = [book EXCEPT ![i].status = st]
    PROVE  Continues /\ DOMAIN book' = DOMAIN book /\ book'[i].status = st
<1>1. book \in Seq(OrderRecord) /\ book[i] \in OrderRecord
  BY DEF TypeOK
<1>2. DOMAIN book' = DOMAIN book /\ \A j \in DOMAIN book : book'[j].tag = book[j].tag
  BY <1>1, StatusTypes
<1>3. [book[i] EXCEPT !.status = st].status = st
  BY <1>1 DEF OrderRecord
<1>4. /\ book'[i].status = st
      /\ \A j \in DOMAIN book : j # i => book'[j].status = book[j].status
  BY <1>1, <1>3
<1> QED
  BY <1>2, <1>4 DEF Continues

LEMMA RecordedContinues ==
    ASSUME TypeOK, NEW i \in DOMAIN book, book' = [book EXCEPT ![i].recorded = TRUE]
    PROVE  Continues /\ DOMAIN book' = DOMAIN book
<1>1. book \in Seq(OrderRecord) /\ book[i] \in OrderRecord
  BY DEF TypeOK
<1>2. DOMAIN book' = DOMAIN book /\ \A j \in DOMAIN book : book'[j].tag = book[j].tag
  BY <1>1, RecordedTypes
<1>3. [book[i] EXCEPT !.recorded = TRUE].status = book[i].status
  BY <1>1 DEF OrderRecord
<1>4. \A j \in DOMAIN book : book'[j].status = book[j].status
  BY <1>1, <1>3
<1> QED
  BY <1>2, <1>4 DEF Continues

LEMMA BookSteps ==
    ASSUME IInv, [Next]_vars
    PROVE  Grows
<1>0. TypeOK
  BY DEF IInv
<1>1. CASE UNCHANGED book
  BY <1>1 DEF Grows, Continues
<1>2. ASSUME NEW t \in Evals, BrokerReply(t) PROVE Grows
  <2>1. CASE PlaceAccepted(t) \/ PlaceLost(t)
    <3>1. book' = Append(book, ExitOrder(t)) /\ pc[t] = "placing"
      BY <2>1 DEF PlaceAccepted, PlaceLost, Moves
    <3>2. ExitOrder(t).tag = mine[t] /\ UNCHANGED <<state, rpc, rrule>>
      BY <1>2 DEF ExitOrder, Order, BrokerReply
    <3>3. SentBy(t, Len(book) + 1)
      BY <1>0, <3>1, <3>2, AppendGrows DEF SentBy
    <3> QED
      BY <1>0, <3>1, <3>3, AppendGrows DEF Grows
  <2>2. CASE FindExisting(t) \/ CallFails(t)
    BY <1>1, <2>2 DEF FindExisting, CallFails
  <2> QED
    BY <1>2, <2>1, <2>2 DEF BrokerReply
<1>3. CASE ManualExit
  <2>1. PICK o : book' = Append(book, o) /\ o.tag = NoRule
    <3>1. \E sd \in {"BUY", "SELL"}, n \in Int : book' = Append(book, Order(NoRule, sd, n))
      BY <1>0, <1>3 DEF ManualExit, TypeOK
    <3> QED
      BY <3>1 DEF Order
  <2> QED
    BY <1>0, <2>1, AppendGrows DEF Grows
<1>4. ASSUME NEW q \in Requests, CancelAtBroker(q) PROVE Grows
  <2>1. CASE \E i \in DOMAIN book : book' = [book EXCEPT ![i].status = "cancelling"]
    BY <1>0, <2>1, StatusContinues DEF Grows
  <2> QED
    BY <1>1, <1>4, <2>1 DEF CancelAtBroker, OrdersOf
<1>5. ASSUME NEW i \in DOMAIN book, OrderFills(i) \/ OrderCancelled(i) \/ OrderRejected(i)
      PROVE  Grows
  BY <1>0, <1>5, StatusContinues DEF OrderFills, OrderCancelled, OrderRejected, OrderMoves, Grows
<1>6. ASSUME NEW i \in DOMAIN book, RecordFill(i) PROVE Grows
  BY <1>0, <1>6, RecordedContinues DEF RecordFill, Grows
<1>7. ASSUME NEW t \in Evals, StartCheck(t) \/ Loop(t) \/ Continue(t) PROVE UNCHANGED book
  BY <1>7 DEF StartCheck, Loop, SkipRule, WinRule, CheckLot, CancelSibling, EndCheck,
     Continue, Settle, MarkFailed, Resume
<1>8. CASE Routes
  <2>1. ASSUME NEW r \in Rules, CancelArmedRule(r) \/ \E v \in Prices : ModifyLeg(r, v)
        PROVE  UNCHANGED book
    BY <2>1 DEF CancelArmedRule, ModifyLeg
  <2>2. ASSUME NEW q \in Requests, CancelRequest(q), ~CancelAtBroker(q) PROVE UNCHANGED book
    BY <2>2 DEF CancelRequest, CancelPlacedRule, CancelFind, CancelConfirmed, CancelAborts
  <2> QED
    BY <1>1, <1>3, <1>4, <1>8, <2>1, <2>2 DEF Routes
<1>9. CASE UNCHANGED vars \/ (\E l \in Lots : EnterLot(l)) \/ Restart
  BY <1>1, <1>9 DEF vars, EnterLot, Restart
<1>10. CASE Broker \/ Pushes
  BY <1>5, <1>6, <1>10 DEF Broker, Pushes, FillExit, FillEntry
<1> QED
  BY <1>1, <1>2, <1>7, <1>8, <1>9, <1>10 DEF Next, Evaluator

-----------------------------------------------------------------------------
(* The refinement.                                                         *)

\* An evaluation that was told its order exists is right.
Answered ==
    \A t \in Evals : pc[t] = "accepted" => \E i \in DOMAIN book : book[i].tag = mine[t]

LEMMA NextAnswered ==
    ASSUME IInv, Answered, [Next]_vars
    PROVE  Answered'
<1> SUFFICES ASSUME NEW t \in Evals, pc'[t] = "accepted"
    PROVE  \E i \in DOMAIN book' : book'[i].tag = mine'[t]
  BY DEF Answered
<1>1. Continues
  BY BookSteps DEF Grows
<1>2. CASE Stays(t)
  BY <1>1, <1>2 DEF Stays, Answered, Continues
<1>3. CASE FindExisting(t) /\ mine'[t] = mine[t]
  BY <1>1, <1>3 DEF FindExisting, Moves, OrdersOf, Continues, IInv, TypeOK
<1>4. CASE PlaceAccepted(t) /\ mine'[t] = mine[t]
  <2>1. book' = Append(book, ExitOrder(t)) /\ ExitOrder(t).tag = mine[t]
    BY <1>4 DEF PlaceAccepted, ExitOrder, Order
  <2> QED
    BY <1>4, <2>1, AppendGrows DEF IInv
<1> QED
  BY <1>2, <1>3, <1>4, EvalSteps DEF Proceeds, Answers

\* A rule has no order, or exactly one.
LEMMA ExitCount ==
    ASSUME TypeOK, OneOrderPerRule, NEW r \in Rules
    PROVE  /\ OrdersOf(r) = {} => Cardinality(OrdersOf(r)) = 0
           /\ OrdersOf(r) # {} => Cardinality(OrdersOf(r)) = 1
<1>1. CASE OrdersOf(r) = {}
  BY <1>1, FS_EmptySet
<1>2. CASE OrdersOf(r) # {}
  <2>1. PICK i \in DOMAIN book : book[i].tag = r
    BY <1>2 DEF OrdersOf
  <2>2. r # NoRule
    BY NullsAssumption
  <2>3. OrdersOf(r) = {i}
    BY <2>1, <2>2 DEF OrdersOf, OneOrderPerRule
  <2> QED
    BY <1>2, <2>3, FS_Singleton
<1> QED
  BY <1>1, <1>2

LEMMA StepImplements ==
    ASSUME IInv, IInv', Answered, [Next]_vars
    PROVE  OneShot!Next
<1> SUFFICES ASSUME NEW r \in Rules
    PROVE  OneShot!Step(r) \/ OneShot!Rest(r)
  BY DEF OneShot!Next
<1>0. TypeOK /\ OneOrderPerRule /\ TypeOK' /\ OneOrderPerRule'
  BY DEF IInv
<1>1. exits[r] = Cardinality(OrdersOf(r)) /\ exits'[r] = Cardinality(OrdersOf(r)')
  BY DEF exits
<1>2. /\ OrdersOf(r) = {} => Cardinality(OrdersOf(r)) = 0
      /\ OrdersOf(r) # {} => Cardinality(OrdersOf(r)) = 1
  BY <1>0, ExitCount
<1>3. /\ OrdersOf(r)' = {} => Cardinality(OrdersOf(r)') = 0
      /\ OrdersOf(r)' # {} => Cardinality(OrdersOf(r)') = 1
  <2>1. CASE OrdersOf(r)' = {}
    BY <2>1, FS_EmptySet
  <2>2. CASE OrdersOf(r)' # {}
    <3>1. PICK i \in DOMAIN book' : book'[i].tag = r
      BY <2>2 DEF OrdersOf
    <3>2. r # NoRule
      BY NullsAssumption
    <3>3. OrdersOf(r)' = {i}
      BY <1>0, <3>1, <3>2 DEF OrdersOf, OneOrderPerRule
    <3> QED
      BY <2>2, <3>3, FS_Singleton
  <2> QED
    BY <2>1, <2>2
<1>4. Grows
  BY BookSteps
<1>5. OrdersOf(r) \subseteq OrdersOf(r)'
  BY <1>4 DEF Grows, Continues, OrdersOf
<1>6. CASE OrdersOf(r)' = OrdersOf(r)
  <2>1. exits'[r] = exits[r]
    BY <1>1, <1>6
  <2>2. ASSUME NEW t \in Evals, Settle(t), mine[t] = r PROVE exits[r] = 1
    <3>1. pc[t] = "accepted"
      BY <2>2 DEF Settle, Moves
    <3>2. OrdersOf(r) # {}
      BY <2>2, <3>1 DEF Answered, OrdersOf
    <3> QED
      BY <1>1, <1>2, <3>2
  <2>3. Advances(r)
    BY RuleSteps
  <2> QED
    BY <2>1, <2>2, <2>3 DEF Advances, Kept, OneShot!Rest, OneShot!Step, OneShot!Arm,
       OneShot!Fire, OneShot!GiveUp, OneShot!Confirm, OneShot!Cancel, OneShot!Moves
<1>7. CASE OrdersOf(r)' # OrdersOf(r)
  <2>1. PICK i \in DOMAIN book' \ DOMAIN book : book'[i].tag = r
    <3>1. PICK i \in OrdersOf(r)' : i \notin OrdersOf(r)
      BY <1>5, <1>7
    <3>2. i \in DOMAIN book' /\ book'[i].tag = r
      BY <3>1 DEF OrdersOf
    <3>3. i \notin DOMAIN book
      BY <1>4, <3>1, <3>2 DEF Grows, Continues, OrdersOf
    <3> QED
      BY <3>2, <3>3
  <2>2. PICK t \in Evals : SentBy(t, i)
    BY <1>4, <2>1, NullsAssumption DEF Grows
  <2>3. pc[t] = "placing" /\ mine[t] = r /\ state' = state
    BY <2>1, <2>2 DEF SentBy
  <2>4. state[r] = "FIRING"
    BY <2>3 DEF IInv, FiringIsExclusive, FiringPcs
  <2>5. OrdersOf(r) = {}
    BY <2>3 DEF IInv, OrdersAfterFiring, OrdersOf
  <2>6. OrdersOf(r)' # {}
    BY <2>1 DEF OrdersOf
  <2> QED
    BY <1>1, <1>2, <1>3, <2>3, <2>4, <2>5, <2>6 DEF OneShot!Step, OneShot!SendExit
<1> QED
  BY <1>6, <1>7

LEMMA InitImplements == Init => OneShot!Init
<1> SUFFICES ASSUME Init PROVE OneShot!Init
  OBVIOUS
<1>1. ASSUME NEW r \in Rules PROVE Cardinality(OrdersOf(r)) = 0
  <2>1. OrdersOf(r) = {}
    BY DEF Init, OrdersOf
  <2> QED
    BY <2>1, FS_EmptySet
<1>2. exits = [r \in Rules |-> 0]
  BY <1>1 DEF exits
<1> QED
  BY <1>2 DEF Init, OneShot!Init

\* The trigger rules, the evaluations and the broker together implement the one-shot rule of
\* OneShotRules, for every number of lots, ticks in flight, requests and restarts.
THEOREM SpecImplementsOneShotRules == Spec => ImplementsOneShotRules
<1>1. Init => Answered
  BY DEF Init, Answered
<1>2. IInv /\ Answered /\ [Next]_vars => Answered'
  BY NextAnswered
<1>3. IInv /\ IInv' /\ Answered /\ [Next]_vars => [OneShot!Next]_<<state, exits>>
  BY StepImplements
<1>4. Spec => OneShot!Init /\ [][OneShot!Next]_<<state, exits>>
  BY <1>1, <1>2, <1>3, SpecIInv, InitImplements, PTL DEF Spec
<1> QED
  BY <1>4 DEF ImplementsOneShotRules, OneShot!Spec

-----------------------------------------------------------------------------
(* The cancel route.                                                       *)

\* A request that got the broker's acceptance: the rule's one order is open no more.
Confirmed ==
    \A q \in Requests :
        rpc[q] = "confirm" =>
            /\ \E i \in DOMAIN book : book[i].tag = rrule[q]
            /\ \A i \in DOMAIN book : book[i].tag = rrule[q] => book[i].status # "open"

LEMMA RequestSteps ==
    ASSUME IInv, [Next]_vars, NEW q \in Requests, rpc'[q] = "confirm"
    PROVE  rrule'[q] = rrule[q] /\ (rpc[q] = "confirm" \/ CancelAtBroker(q))
<1>0. TypeOK
  BY DEF IInv
<1>1. CASE UNCHANGED <<rpc, rrule>>
  BY <1>1
<1>2. ASSUME NEW o \in Requests, CancelRequest(o)
      PROVE  rrule'[q] = rrule[q] /\ (rpc[q] = "confirm" \/ CancelAtBroker(q))
  <2>1. ASSUME NEW r \in Rules, CancelPlacedRule(o, r)
        PROVE  rrule'[q] = rrule[q] /\ rpc[q] = "confirm"
    BY <1>0, <2>1 DEF CancelPlacedRule, TypeOK
  <2>2. CASE CancelFind(o)
    BY <1>0, <2>2 DEF CancelFind, EndRequest, ContinueRequest, TypeOK
  <2>3. CASE CancelAtBroker(o)
    <3>1. EndRequest(o) \/ ContinueRequest(o, "confirm")
      BY <2>3 DEF CancelAtBroker
    <3> QED
      BY <1>0, <2>3, <3>1 DEF EndRequest, ContinueRequest, TypeOK
  <2>4. CASE CancelConfirmed(o)
    BY <1>0, <2>4 DEF CancelConfirmed, EndRequest, TypeOK
  <2>5. CASE CancelAborts(o)
    BY <1>0, <2>5 DEF CancelAborts, EndRequest, TypeOK
  <2> QED
    BY <1>2, <2>1, <2>2, <2>3, <2>4, <2>5 DEF CancelRequest
<1>3. ASSUME NEW t \in Evals, Evaluator(t) PROVE UNCHANGED <<rpc, rrule>>
  BY <1>3 DEF Evaluator, StartCheck, Loop, SkipRule, WinRule, CheckLot, CancelSibling,
     EndCheck, BrokerReply, Continue, Settle, MarkFailed, Resume
<1>4. CASE Routes
  <2>1. ASSUME NEW r \in Rules, CancelArmedRule(r) \/ (\E v \in Prices : ModifyLeg(r, v))
        PROVE  UNCHANGED <<rpc, rrule>>
    BY <2>1 DEF CancelArmedRule, ModifyLeg
  <2>2. CASE ManualExit
    BY <1>1, <2>2 DEF ManualExit
  <2> QED
    BY <1>1, <1>2, <1>4, <2>1, <2>2 DEF Routes
<1>5. CASE Restart
  BY <1>5 DEF Restart
<1>6. CASE UNCHANGED vars \/ (\E l \in Lots : EnterLot(l)) \/ Broker \/ Pushes
  BY <1>1, <1>6 DEF vars, EnterLot, Broker, OrderFills, OrderCancelled, OrderRejected,
     OrderMoves, Pushes, FillExit, FillEntry, RecordFill
<1> QED
  BY <1>1, <1>2, <1>3, <1>4, <1>5, <1>6 DEF Next

LEMMA NextConfirmed ==
    ASSUME IInv, Confirmed, [Next]_vars
    PROVE  Confirmed'
<1> SUFFICES ASSUME NEW q \in Requests, rpc'[q] = "confirm"
    PROVE  /\ \E i \in DOMAIN book' : book'[i].tag = rrule'[q]
           /\ \A i \in DOMAIN book' : book'[i].tag = rrule'[q] => book'[i].status # "open"
  BY DEF Confirmed
<1> DEFINE r == rrule[q]
<1>0. TypeOK /\ OneOrderPerRule
  BY DEF IInv
<1>1. rrule'[q] = r /\ (rpc[q] = "confirm" \/ CancelAtBroker(q))
  BY RequestSteps
<1>2. r \in Rules
  BY <1>1 DEF IInv, HoldsRule, CancelAtBroker
<1>3. Grows
  BY BookSteps
<1>4. CASE rpc[q] = "confirm"
  <2>1. PICK i \in DOMAIN book : book[i].tag = r
    BY <1>4 DEF Confirmed
  <2>2. \A j \in DOMAIN book' \ DOMAIN book : book'[j].tag # r
    <3> SUFFICES ASSUME NEW j \in DOMAIN book' \ DOMAIN book, book'[j].tag = r PROVE FALSE
      OBVIOUS
    <3>1. PICK t \in Evals : SentBy(t, j)
      BY <1>2, <1>3, NullsAssumption DEF Grows
    <3>2. pc[t] = "placing" /\ mine[t] = r
      BY <3>1 DEF SentBy
    <3> HIDE DEF r
    <3> QED
      BY <2>1, <3>2 DEF IInv, OrdersAfterFiring
  <2>3. \A j \in DOMAIN book : book[j].tag = r => book[j].status # "open"
    BY <1>4 DEF Confirmed
  <2> HIDE DEF r
  <2> QED
    BY <1>1, <1>3, <2>1, <2>2, <2>3 DEF Grows, Continues
<1>5. CASE CancelAtBroker(q) /\ rpc[q] # "confirm"
  <2>1. rpc'[q] = "confirm" /\ rpc' # [rpc EXCEPT ![q] = "idle"]
    BY <1>0 DEF TypeOK
  <2>2. PICK i \in DOMAIN book :
          book[i].tag = r /\ book' = [book EXCEPT ![i].status = "cancelling"]
    BY <1>5, <2>1 DEF CancelAtBroker, OrdersOf, EndRequest
  <2>3. /\ DOMAIN book' = DOMAIN book /\ book'[i].status = "cancelling"
        /\ \A j \in DOMAIN book : book'[j].tag = book[j].tag
    BY <1>0, <2>2, StatusContinues DEF Continues
  <2>4. \A j \in DOMAIN book : book[j].tag = r => j = i
    BY <1>0, <1>2, <2>2, NullsAssumption DEF OneOrderPerRule
  <2> HIDE DEF r
  <2> QED
    BY <1>1, <2>2, <2>3, <2>4
<1> QED
  BY <1>1, <1>4, <1>5

LEMMA NextNeverResting ==
    ASSUME IInv, TypeOK', Confirmed, CancelledNeverResting, [Next]_vars
    PROVE  CancelledNeverResting'
<1> SUFFICES ASSUME NEW i \in DOMAIN book', book'[i].tag # NoRule, book'[i].status = "open",
                    state'[book'[i].tag] = "CANCELLED"
    PROVE  FALSE
  BY DEF CancelledNeverResting
<1> DEFINE r == book'[i].tag
<1>1. r \in Rules
  <2>1. book' \in Seq(OrderRecord) /\ book'[i] \in OrderRecord
    BY DEF TypeOK
  <2> QED
    BY <2>1 DEF OrderRecord
<1>2. Grows
  BY BookSteps
<1>3. CASE i \in DOMAIN book
  <2>1. book[i].tag = r /\ book[i].status = "open"
    BY <1>2, <1>3 DEF Grows, Continues
  <2>2. state[r] # "CANCELLED" /\ state[r] # "ARMED"
    BY <1>3, <2>1 DEF CancelledNeverResting, IInv, OrdersAfterFiring
  <2>3. Advances(r)
    BY <1>1, RuleSteps
  <2>4. PICK q \in Requests : CancelConfirmed(q) /\ rrule[q] = r
    BY <2>2, <2>3 DEF Advances, Kept
  <2> HIDE DEF r
  <2> QED
    BY <1>3, <2>1, <2>4 DEF CancelConfirmed, Confirmed
<1>4. CASE i \notin DOMAIN book
  <2>1. PICK t \in Evals : SentBy(t, i)
    BY <1>2, <1>4 DEF Grows
  <2>2. pc[t] = "placing" /\ mine[t] = r /\ state' = state
    BY <2>1 DEF SentBy
  <2>3. state[r] = "FIRING"
    BY <2>2 DEF IInv, FiringIsExclusive, FiringPcs
  <2> QED
    BY <2>2, <2>3
<1> QED
  BY <1>3, <1>4

\* A rule the ledger calls CANCELLED has no order resting at the broker: the routes cancel a
\* PLACED rule only after the broker accepted the cancel of its one order.
THEOREM SpecCancelledNeverResting == Spec => []CancelledNeverResting
<1>1. Init => Confirmed /\ CancelledNeverResting
  BY DEF Init, Confirmed, CancelledNeverResting
<1>2. IInv /\ Confirmed /\ [Next]_vars => Confirmed'
  BY NextConfirmed
<1>3. IInv /\ TypeOK' /\ Confirmed /\ CancelledNeverResting /\ [Next]_vars
        => CancelledNeverResting'
  BY NextNeverResting
<1> QED
  BY <1>1, <1>2, <1>3, SpecIInv, SpecTypeOK, PTL DEF Spec
=============================================================================
