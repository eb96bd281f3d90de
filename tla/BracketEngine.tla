--------------------------- MODULE BracketEngine ---------------------------
(***************************************************************************)
(* The server-side bracket executor: the trigger_rules rows of the ledger, *)
(* the evaluations (one per market tick, and the 5 s fallback loop) that   *)
(* fire them, the idempotent exit placement, the routes that modify and    *)
(* cancel a leg, and the broker behind them.                               *)
(*                                                                         *)
(* asyncio runs one coroutine at a time: `running' is the evaluation that  *)
(* holds the event loop between two awaits.  Every other handler needs the *)
(* loop free; the broker never does.  One action is one SQLite transaction *)
(* of an evaluation, so that a crash can fall between any two of them.     *)
(* All lots are on one instrument: check_now never looks at another.       *)
(***************************************************************************)
EXTENDS Integers, Sequences, FiniteSets

CONSTANTS
    Lots,         \* rows of the lots table that may come to exist
    Sides,        \* transaction types entries are made with
    Evals,        \* evaluations that may be in flight at once
    Requests,     \* cancel requests that may be in flight at once
    Prices,       \* last traded prices and bracket prices
    LotQty,       \* entry quantity of a lot
    MaxModifies,  \* bound on bracket modifications
    MaxManual,    \* bound on exit orders placed outside the evaluator
    MaxRestarts,  \* bound on process restarts
    NoRule,       \* the tag of an order that no rule placed
    NoEval        \* the event loop is free

Roles == {"STOP_LOSS", "TARGET"}
Rules == Lots \X Roles

ASSUME SidesAssumption == Sides \subseteq {"BUY", "SELL"}
ASSUME PricesAssumption == Prices \subseteq Int
ASSUME BoundsAssumption == LotQty \in Nat \ {0} /\ MaxModifies \in Nat
                           /\ MaxManual \in Nat /\ MaxRestarts \in Nat
ASSUME NullsAssumption == NoRule \notin Rules /\ NoEval \notin Evals

VARIABLES
    side,       \* lots.transaction_type, "NONE" while the row does not exist
    remaining,  \* lots.remaining_quantity
    state,      \* trigger_rules.state, "ABSENT" while the row does not exist
    version,    \* trigger_rules.version
    value,      \* trigger_rules.condition_value
    book,       \* the broker's order book
    position,   \* the broker's signed net position
    running,    \* the evaluation that holds the event loop
    pc,         \* where each evaluation is
    ltp,        \* the price it was called with
    todo,       \* the armed rows it read and has not looked at yet
    mine,       \* the rule it is firing
    held,       \* the version its FIRING compare-and-set returned
    ask,        \* the quantity it read from the lot, before the awaits
    rpc,        \* where each cancel request is
    rrule,      \* the rule it cancels
    modifies,   \* bracket modifications so far
    restarts    \* restarts so far

lots  == <<side, remaining>>
rules == <<state, version, value>>
evals == <<running, pc, ltp, todo, mine, held, ask>>
reqs  == <<rpc, rrule>>
vars  == <<lots, rules, book, position, evals, reqs, modifies, restarts>>

-----------------------------------------------------------------------------

Opposite(sd) == IF sd = "BUY" THEN "SELL" ELSE "BUY"

Sibling(r) == <<r[1], IF r[2] = "TARGET" THEN "STOP_LOSS" ELSE "TARGET">>

ConditionOp(r) ==
    IF (side[r[1]] = "BUY") = (r[2] = "TARGET") THEN "ABOVE" ELSE "BELOW"

ConditionMatches(r, v, p) == IF ConditionOp(r) = "ABOVE" THEN p >= v ELSE p <= v

RolePriority(role) == IF role = "STOP_LOSS" THEN 0 ELSE 1

Armed == {r \in Rules : state[r] = "ARMED"}

Snapshot(r) == [rule |-> r, version |-> version[r], value |-> value[r]]

Signed(sd, n) == IF sd = "BUY" THEN n ELSE -n

OrdersOf(r) == {i \in DOMAIN book : book[i].tag = r}

OpenLots == {l \in Lots : side[l] # "NONE" /\ remaining[l] > 0}

Order(r, sd, n) ==
    [tag |-> r, side |-> sd, qty |-> n, status |-> "open", recorded |-> FALSE]

-----------------------------------------------------------------------------
RuleStates == {"ABSENT", "ARMED", "FIRING", "PLACED", "FAILED", "CANCELLED"}

SnapshotRecord == [rule : Rules, version : Nat, value : Int]

OrderRecord ==
    [tag : Rules \cup {NoRule}, side : {"BUY", "SELL"}, qty : Nat,
     status : {"open", "cancelling", "cancelled", "complete", "rejected"},
     recorded : BOOLEAN]

TypeOK ==
    /\ side \in [Lots -> {"NONE", "BUY", "SELL"}]
    /\ remaining \in [Lots -> Nat]
    /\ state \in [Rules -> RuleStates]
    /\ version \in [Rules -> Nat]
    /\ value \in [Rules -> Int]
    /\ book \in Seq(OrderRecord)
    /\ position \in Int
    /\ running \in Evals \cup {NoEval}
    /\ pc \in [Evals -> {"idle", "loop", "checklot", "lookup", "placing", "accepted",
                         "refused", "settled", "notify"}]
    /\ ltp \in [Evals -> Int]
    /\ todo \in [Evals -> SUBSET SnapshotRecord]
    /\ mine \in [Evals -> Rules \cup {NoRule}]
    /\ held \in [Evals -> Nat]
    /\ ask \in [Evals -> Nat]
    /\ rpc \in [Requests -> {"idle", "find", "cancel", "confirm"}]
    /\ rrule \in [Requests -> Rules \cup {NoRule}]
    /\ modifies \in Nat
    /\ restarts \in Nat

Init ==
    /\ side = [l \in Lots |-> "NONE"]
    /\ remaining = [l \in Lots |-> 0]
    /\ state = [r \in Rules |-> "ABSENT"]
    /\ version = [r \in Rules |-> 0]
    /\ value = [r \in Rules |-> 0]
    /\ book = <<>>
    /\ position = 0
    /\ running = NoEval
    /\ pc = [t \in Evals |-> "idle"]
    /\ ltp = [t \in Evals |-> 0]
    /\ todo = [t \in Evals |-> {}]
    /\ mine = [t \in Evals |-> NoRule]
    /\ held = [t \in Evals |-> 0]
    /\ ask = [t \in Evals |-> 0]
    /\ rpc = [q \in Requests |-> "idle"]
    /\ rrule = [q \in Requests |-> NoRule]
    /\ modifies = 0
    /\ restarts = 0

-----------------------------------------------------------------------------
(* The writes of the ledger store.  The definitions named Broken... are    *)
(* plausible bugs in the definition that follows them; the specification   *)
(* does not use them, the runs show that each one breaks a property.       *)

BrokenCasWins(r, expected) == TRUE
CasWins(r, expected) == version[r] = expected

BrokenBumped(r) == version
Bumped(r) == [version EXCEPT ![r] = @ + 1]

\* cas_update_trigger_rule_state: a lost race writes nothing.
CasState(r, expected, new) ==
    /\ state' = IF CasWins(r, expected) THEN [state EXCEPT ![r] = new] ELSE state
    /\ version' = IF CasWins(r, expected) THEN Bumped(r) ELSE version
    /\ UNCHANGED value

BrokenDeplete(n, q) == n - q
Deplete(n, q) == IF n > q THEN n - q ELSE 0

BrokenOcoApplies(r) == state[Sibling(r)] = "PLACED"
OcoApplies(r) == state[Sibling(r)] = "ARMED"

RearmingAfterFailure == "ARMED"
FiringAfterFailure == "FIRING"
AfterFailure == "FAILED"

BrokenModifiable(r) == state[r] # "ABSENT"
Modifiable(r) == state[r] = "ARMED"

BrokenCancellable(r) == state[r] \in {"ARMED", "PLACED"}
Cancellable(r) == state[r] = "ARMED"

-----------------------------------------------------------------------------
(* Entries: the fill handler creates the lot and arms the legs it has a    *)
(* price for, without an await in between.                                 *)

ArmLotBracket(l, sd, n, price) ==
    /\ side' = [side EXCEPT ![l] = sd]
    /\ remaining' = [remaining EXCEPT ![l] = n]
    /\ state' = [r \in Rules |-> IF r[1] = l /\ r[2] \in DOMAIN price
                                 THEN "ARMED" ELSE state[r]]
    /\ value' = [r \in Rules |-> IF r[1] = l /\ r[2] \in DOMAIN price
                                 THEN price[r[2]] ELSE value[r]]
    /\ UNCHANGED version

EnterLot(l) ==
    /\ running = NoEval
    /\ side[l] = "NONE"
    /\ \E sd \in Sides, legs \in SUBSET Roles :
         /\ \E price \in [legs -> Prices] : ArmLotBracket(l, sd, LotQty, price)
         /\ position' = position + Signed(sd, LotQty)
    /\ UNCHANGED <<book, evals, reqs, modifies, restarts>>

-----------------------------------------------------------------------------
(* One evaluation: check_now and _fire_rule.                               *)

StartCheck(t) ==
    /\ running = NoEval
    /\ pc[t] = "idle"
    /\ Armed # {}
    /\ \E p \in Prices : ltp' = [ltp EXCEPT ![t] = p]
    /\ todo' = [todo EXCEPT ![t] = {Snapshot(r) : r \in Armed}]
    /\ pc' = [pc EXCEPT ![t] = "loop"]
    /\ running' = t
    /\ UNCHANGED <<lots, rules, book, position, mine, held, ask, reqs, modifies, restarts>>

NextRule(t, s) ==
    /\ running = t
    /\ pc[t] = "loop"
    /\ s \in todo[t]
    /\ \A o \in todo[t] : RolePriority(s.rule[2]) <= RolePriority(o.rule[2])
    /\ todo' = [todo EXCEPT ![t] = @ \ {s}]

SkipRule(t, s) ==
    /\ NextRule(t, s)
    /\ \/ ~ConditionMatches(s.rule, s.value, ltp[t])
       \/ ~CasWins(s.rule, s.version)
    /\ UNCHANGED <<lots, rules, book, position, running, pc, ltp, mine, held, ask,
                   reqs, modifies, restarts>>

WinRule(t, s) ==
    /\ NextRule(t, s)
    /\ ConditionMatches(s.rule, s.value, ltp[t])
    /\ CasWins(s.rule, s.version)
    /\ CasState(s.rule, s.version, "FIRING")
    /\ mine' = [mine EXCEPT ![t] = s.rule]
    /\ held' = [held EXCEPT ![t] = version[s.rule] + 1]
    /\ pc' = [pc EXCEPT ![t] = "checklot"]
    /\ UNCHANGED <<lots, book, position, running, ltp, ask, reqs, modifies, restarts>>

\* The locals of _fire_rule go out of scope.
Forget(t) ==
    /\ mine' = [mine EXCEPT ![t] = NoRule]
    /\ held' = [held EXCEPT ![t] = 0]
    /\ ask' = [ask EXCEPT ![t] = 0]

CheckLot(t) ==
    /\ running = t
    /\ pc[t] = "checklot"
    /\ IF remaining[mine[t][1]] > 0
       THEN /\ pc' = [pc EXCEPT ![t] = "lookup"]
            /\ running' = NoEval
            /\ ask' = [ask EXCEPT ![t] = remaining[mine[t][1]]]
            /\ UNCHANGED <<rules, mine, held>>
       ELSE /\ CasState(mine[t], held[t], "FAILED")
            /\ pc' = [pc EXCEPT ![t] = "loop"]
            /\ Forget(t)
            /\ UNCHANGED running
    /\ UNCHANGED <<lots, book, position, ltp, todo, reqs, modifies, restarts>>

EndCheck(t) ==
    /\ running = t
    /\ pc[t] = "loop"
    /\ todo[t] = {}
    /\ pc' = [pc EXCEPT ![t] = "idle"]
    /\ ltp' = [ltp EXCEPT ![t] = 0]
    /\ running' = NoEval
    /\ UNCHANGED <<lots, rules, book, position, todo, mine, held, ask, reqs,
                   modifies, restarts>>

-----------------------------------------------------------------------------
(* OrderEngineOrderService.place_order with the rule's id as its key: the  *)
(* order book is awaited, then the placement.  Either reply may be an      *)
(* exception, and a lost reply may follow an order that reached the broker.*)

Moves(t, from, to) == pc[t] = from /\ pc' = [pc EXCEPT ![t] = to]

ExitOrder(t) ==
    Order(mine[t], Opposite(side[mine[t][1]]), ask[t])

FindExisting(t) ==
    /\ Moves(t, "lookup", IF OrdersOf(mine[t]) = {} THEN "placing" ELSE "accepted")
    /\ UNCHANGED book

PlaceAccepted(t) == Moves(t, "placing", "accepted") /\ book' = Append(book, ExitOrder(t))

PlaceLost(t) == Moves(t, "placing", "refused") /\ book' = Append(book, ExitOrder(t))

CallFails(t) ==
    /\ \/ Moves(t, "lookup", "refused")
       \/ Moves(t, "placing", "refused")
    /\ UNCHANGED book

BrokerReply(t) ==
    /\ \/ FindExisting(t)
       \/ PlaceAccepted(t)
       \/ PlaceLost(t)
       \/ CallFails(t)
    /\ UNCHANGED <<lots, rules, position, running, ltp, todo, mine, held, ask, reqs,
                   modifies, restarts>>

Settle(t) ==
    /\ running = NoEval
    /\ Moves(t, "accepted", "settled")
    /\ running' = t
    /\ CasState(mine[t], held[t], "PLACED")
    /\ UNCHANGED <<lots, book, position, ltp, todo, mine, held, ask, reqs, modifies, restarts>>

CancelSibling(t) ==
    /\ running = t
    /\ Moves(t, "settled", "loop")
    /\ LET sib == Sibling(mine[t])
       IN  IF OcoApplies(mine[t]) THEN CasState(sib, version[sib], "CANCELLED")
                                  ELSE UNCHANGED rules
    /\ Forget(t)
    /\ UNCHANGED <<lots, book, position, running, ltp, todo, reqs, modifies, restarts>>

MarkFailed(t) ==
    /\ running = NoEval
    /\ Moves(t, "refused", "notify")
    /\ CasState(mine[t], held[t], AfterFailure)
    /\ Forget(t)
    /\ UNCHANGED <<lots, book, position, running, ltp, todo, reqs, modifies, restarts>>

Resume(t) ==
    /\ running = NoEval
    /\ Moves(t, "notify", "loop")
    /\ running' = t
    /\ UNCHANGED <<lots, rules, book, position, ltp, todo, mine, held, ask, reqs,
                   modifies, restarts>>

-----------------------------------------------------------------------------
(* The routes that modify or cancel a leg.                                 *)

ModifyLeg(r, v) ==
    /\ running = NoEval
    /\ modifies < MaxModifies
    /\ Modifiable(r)
    /\ value' = [value EXCEPT ![r] = v]
    /\ version' = Bumped(r)
    /\ modifies' = modifies + 1
    /\ UNCHANGED <<lots, state, book, position, evals, reqs, restarts>>

CancelArmedRule(r) ==
    /\ running = NoEval
    /\ Cancellable(r)
    /\ CasState(r, version[r], "CANCELLED")
    /\ UNCHANGED <<lots, book, position, evals, reqs, modifies, restarts>>

CancelPlacedRule(q, r) ==
    /\ running = NoEval
    /\ rpc[q] = "idle"
    /\ state[r] = "PLACED"
    /\ rpc' = [rpc EXCEPT ![q] = "find"]
    /\ rrule' = [rrule EXCEPT ![q] = r]
    /\ UNCHANGED <<lots, rules, book, position, evals, modifies, restarts>>

EndRequest(q) ==
    /\ rpc' = [rpc EXCEPT ![q] = "idle"]
    /\ rrule' = [rrule EXCEPT ![q] = NoRule]

ContinueRequest(q, next) == rpc' = [rpc EXCEPT ![q] = next] /\ UNCHANGED rrule

CancelFind(q) ==
    /\ rpc[q] = "find"
    /\ IF OrdersOf(rrule[q]) = {} THEN EndRequest(q) ELSE ContinueRequest(q, "cancel")
    /\ UNCHANGED <<lots, rules, book, position, evals, modifies, restarts>>

\* The broker refuses to cancel an order that is no longer open.
CancelAtBroker(q) ==
    /\ rpc[q] = "cancel"
    /\ \E i \in OrdersOf(rrule[q]) :
         /\ \A j \in OrdersOf(rrule[q]) : i <= j
         /\ IF book[i].status = "open"
            THEN /\ book' = [book EXCEPT ![i].status = "cancelling"]
                 /\ ContinueRequest(q, "confirm")
            ELSE EndRequest(q) /\ UNCHANGED book
    /\ UNCHANGED <<lots, rules, position, evals, modifies, restarts>>

CancelConfirmed(q) ==
    /\ running = NoEval
    /\ rpc[q] = "confirm"
    /\ IF state[rrule[q]] = "PLACED"
       THEN CasState(rrule[q], version[rrule[q]], "CANCELLED")
       ELSE UNCHANGED rules
    /\ EndRequest(q)
    /\ UNCHANGED <<lots, book, position, evals, modifies, restarts>>

CancelAborts(q) ==
    /\ rpc[q] # "idle"
    /\ EndRequest(q)
    /\ UNCHANGED <<lots, rules, book, position, evals, modifies, restarts>>

-----------------------------------------------------------------------------
(* The broker, and exits the evaluator did not place.                      *)

ManualExit ==
    /\ running = NoEval
    /\ position # 0
    /\ Cardinality({i \in DOMAIN book : book[i].tag = NoRule}) < MaxManual
    /\ book' = Append(book, IF position > 0 THEN Order(NoRule, "SELL", position)
                                            ELSE Order(NoRule, "BUY", -position))
    /\ UNCHANGED <<lots, rules, position, evals, reqs, modifies, restarts>>

OrderMoves(i, from, to) ==
    /\ book[i].status \in from
    /\ book' = [book EXCEPT ![i].status = to]
    /\ UNCHANGED <<lots, rules, evals, reqs, modifies, restarts>>

OrderFills(i) ==
    /\ OrderMoves(i, {"open", "cancelling"}, "complete")
    /\ position' = position + Signed(book[i].side, book[i].qty)

OrderCancelled(i) == OrderMoves(i, {"cancelling"}, "cancelled") /\ UNCHANGED position

OrderRejected(i) == OrderMoves(i, {"open"}, "rejected") /\ UNCHANGED position

-----------------------------------------------------------------------------
(* The portfolio push of a completed order, attributed to a lot.           *)

ClosingCandidates(i) == {l \in OpenLots : side[l] # book[i].side}

OwningLot(i) ==
    IF book[i].tag # NoRule /\ state[book[i].tag] = "PLACED"
    THEN {book[i].tag[1]}
    ELSE IF Cardinality(ClosingCandidates(i)) = 1 THEN ClosingCandidates(i) ELSE {}

ExternalEntry(i) ==
    /\ OpenLots = {}
    /\ ~(book[i].tag # NoRule /\ state[book[i].tag] = "PLACED")

RecordFill(i) ==
    /\ running = NoEval
    /\ book[i].status = "complete"
    /\ ~book[i].recorded
    /\ book' = [book EXCEPT ![i].recorded = TRUE]
    /\ UNCHANGED <<position, evals, reqs, modifies, restarts>>

FillExit(i) ==
    /\ RecordFill(i)
    /\ ~ExternalEntry(i)
    /\ remaining' = [l \in Lots |->
         IF l \in OwningLot(i) THEN Deplete(remaining[l], book[i].qty) ELSE remaining[l]]
    /\ UNCHANGED <<side, rules>>

FillEntry(i, l) ==
    /\ RecordFill(i)
    /\ ExternalEntry(i)
    /\ side[l] = "NONE"
    /\ \E price \in [Roles -> Prices] : ArmLotBracket(l, book[i].side, book[i].qty, price)

-----------------------------------------------------------------------------
Restart ==
    /\ restarts < MaxRestarts
    /\ restarts' = restarts + 1
    /\ running' = NoEval
    /\ pc' = [t \in Evals |-> "idle"]
    /\ ltp' = [t \in Evals |-> 0]
    /\ todo' = [t \in Evals |-> {}]
    /\ mine' = [t \in Evals |-> NoRule]
    /\ held' = [t \in Evals |-> 0]
    /\ ask' = [t \in Evals |-> 0]
    /\ rpc' = [q \in Requests |-> "idle"]
    /\ rrule' = [q \in Requests |-> NoRule]
    /\ UNCHANGED <<lots, rules, book, position, modifies>>

Loop(t) ==
    \/ \E s \in todo[t] : SkipRule(t, s) \/ WinRule(t, s)
    \/ CheckLot(t)
    \/ CancelSibling(t)
    \/ EndCheck(t)

Continue(t) == Settle(t) \/ MarkFailed(t) \/ Resume(t)

Evaluator(t) == StartCheck(t) \/ Loop(t) \/ BrokerReply(t) \/ Continue(t)

CancelRequest(q) ==
    \/ \E r \in Rules : CancelPlacedRule(q, r)
    \/ CancelFind(q)
    \/ CancelAtBroker(q)
    \/ CancelConfirmed(q)
    \/ CancelAborts(q)

Routes ==
    \/ \E r \in Rules : CancelArmedRule(r) \/ \E v \in Prices : ModifyLeg(r, v)
    \/ \E q \in Requests : CancelRequest(q)
    \/ ManualExit

Broker ==
    \E i \in DOMAIN book : OrderFills(i) \/ OrderCancelled(i) \/ OrderRejected(i)

Pushes ==
    \E i \in DOMAIN book : FillExit(i) \/ \E l \in Lots : FillEntry(i, l)

Next ==
    \/ \E l \in Lots : EnterLot(l)
    \/ \E t \in Evals : Evaluator(t)
    \/ Routes
    \/ Broker
    \/ Pushes
    \/ Restart

Spec == Init /\ [][Next]_vars

\* Every HTTP call has a timeout, so each awaited reply comes; the ready queue of
\* the event loop is first in, first out, so a coroutine that can resume is not
\* passed over for ever.  Nothing is assumed of ticks, users, fills or restarts.
Fairness ==
    \A t \in Evals : WF_vars(Loop(t)) /\ WF_vars(BrokerReply(t)) /\ SF_vars(Continue(t))

FairSpec == Spec /\ Fairness

-----------------------------------------------------------------------------
(* Properties.                                                             *)

FiringPcs == {"checklot", "lookup", "placing", "accepted", "refused"}

\* Two ticks that race for one rule, a lost reply or a restart never make the engine send
\* the broker two orders for the same rule (the promise of the FIRING compare-and-set).
OneOrderPerRule ==
    \A i, j \in DOMAIN book :
        book[i].tag = book[j].tag /\ book[i].tag # NoRule => i = j

\* Between winning the FIRING compare-and-set and settling, nobody else moves the rule: the
\* row the evaluation holds is still the current one, so the later compare-and-set to PLACED
\* or FAILED cannot lose (the comment in _fire_rule says it "shouldn't happen").
FiringIsExclusive ==
    \A t \in Evals :
        pc[t] \in FiringPcs => state[mine[t]] = "FIRING" /\ version[mine[t]] = held[t]

\* One-cancels-other: once a leg is PLACED and its evaluation has given the loop back, the
\* other leg can no longer be won, as long as no crash fell between the two transactions.
OcoAfterPlacement ==
    restarts = 0 =>
        \A r \in Rules :
            state[r] = "PLACED" /\ (\A t \in Evals : ~(pc[t] = "settled" /\ mine[t] = r))
                => state[Sibling(r)] # "ARMED"

\* A rule the ledger calls CANCELLED has no order still working at the broker without a
\* cancel on its way, whatever the cancel route raced with.
CancelledNeverResting ==
    \A i \in DOMAIN book :
        book[i].tag # NoRule /\ book[i].status = "open" => state[book[i].tag] # "CANCELLED"

\* The price a rule fires on is tested against the bracket price the ledger holds at that
\* moment: a modification that lands while an evaluation is suspended is never overrun by
\* the condition the evaluation read before it.
FiresOnCurrentPrice ==
    [][\A r \in Rules :
         state[r] = "ARMED" /\ state'[r] = "FIRING"
             => ConditionMatches(r, value[r], ltp[running])]_vars

\* The rules of the ledger are one-shot: each armed once, at most one order at the broker,
\* PLACED only with an order there, no way back.
exits == [r \in Rules |-> Cardinality(OrdersOf(r))]

OneShot == INSTANCE OneShotRules WITH phase <- state

ImplementsOneShotRules == OneShot!Spec

\* A rule that fires is settled one way or the other unless the process is restarted: no
\* interleaving with other ticks, cancels and modifications leaves it FIRING.
FiringSettles ==
    \A r \in Rules : state[r] = "FIRING" ~> (state[r] # "FIRING" \/ restarts > 0)
=============================================================================
