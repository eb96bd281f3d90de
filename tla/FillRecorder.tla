---------------------------- MODULE FillRecorder ---------------------------
(***************************************************************************)
(* How a fill reaches the ledger: every portfolio push of an order starts  *)
(* a task that takes the order's lock, fetches the order from the broker,  *)
(* attributes it to a lot, applies a complete one to the lot and writes    *)
(* its order_history row.  Pushes are redelivered and overlap; the row of  *)
(* a placement may come before the fill or after it; a fill that fits      *)
(* several lots is held until a person resolves it; the process may stop   *)
(* between any two transactions.                                           *)
(*                                                                         *)
(* One action is one SQLite transaction or one awaited call.  `running' is *)
(* the task that holds the event loop between two awaits.  All orders are  *)
(* on one instrument: attribution never looks at another.                  *)
(***************************************************************************)
EXTENDS Integers, FiniteSets

CONSTANTS
    Orders,       \* orders that may come to exist at the broker
    Lots,         \* rows of the lots table that may come to exist
    Tasks,        \* pushes being recorded and resolutions, at once
    Kinds,        \* how orders other than bracket exits are placed
    Sides,        \* transaction types of those orders
    Brackets,     \* the legs an entry through the app may ask for
    Quantities,   \* order quantities
    MaxFires,     \* bound on bracket legs that fire
    MaxCancels,   \* bound on cancelled bracket legs
    MaxRetries,   \* bound on placement requests sent again
    MaxRestarts,  \* bound on process restarts
    None          \* SQL NULL, a free event loop, an order no rule placed

Legs == {"TARGET", "STOP_LOSS"}
Rules == Lots \X Legs

ASSUME KindsAssumption == Kinds \subseteq {"ENTRY", "EXIT", "MANUAL", "EXTERNAL"}
ASSUME OrderSidesAssumption == Sides \subseteq {"BUY", "SELL"}
ASSUME BracketsAssumption == Brackets \subseteq SUBSET Legs
ASSUME QuantitiesAssumption == Quantities \subseteq Nat \ {0}
ASSUME CountersAssumption == MaxFires \in Nat /\ MaxCancels \in Nat
                             /\ MaxRetries \in Nat /\ MaxRestarts \in Nat
ASSUME NoneAssumption == None \notin Orders /\ None \notin Lots
                         /\ None \notin Tasks /\ None \notin Rules

VARIABLES
    orders,     \* the broker's order book, and who placed each order
    side,       \* lots.transaction_type, "NONE" while the row does not exist
    remaining,  \* lots.remaining_quantity
    closed,     \* lots.state is CLOSED
    phase,      \* trigger_rules.state
    hist,       \* the order_history row of each order
    pending,    \* pending_ambiguous_fills: the candidate lots of each order
    tasks,      \* the coroutines and their locals
    running,    \* the task that holds the event loop
    fires, cancels, retries, restarts,  \* counters of the bounds
    applied,    \* history: times the fill of an order was applied to a lot
    resets,     \* history: times a placement row overwrote a complete one
    resolved    \* history: the held fill of the order was resolved

lots  == <<side, remaining, closed>>
count == <<fires, cancels, retries, restarts>>
past  == <<applied, resets, resolved>>
vars  == <<orders, lots, phase, hist, pending, tasks, running, count, past>>

-----------------------------------------------------------------------------

NoOrder == [kind |-> "NONE", rule |-> None, key |-> None, legs |-> {},
            side |-> "NONE", qty |-> 0, status |-> "none", replies |-> 0]

NoRow == [status |-> "none", role |-> "NONE", lot |-> None]

Idle == [pc |-> "idle", order |-> None, seen |-> "none",
         role |-> "NONE", lot |-> None, legs |-> {}]

Statuses == {"none", "open", "complete", "rejected"}

OrderRecord ==
    [kind : {"NONE", "ENTRY", "EXIT", "MANUAL", "EXTERNAL", "LEG"},
     rule : Rules \cup {None}, key : Lots \cup {None}, legs : SUBSET Legs,
     side : {"NONE", "BUY", "SELL"}, qty : Nat, status : Statuses, replies : Nat]

RowRecord ==
    [status : Statuses \cup {"submitted"}, role : {"NONE", "ENTRY", "EXIT", "MANUAL"},
     lot : Lots \cup {None}]

TaskRecord ==
    [pc : {"idle", "waiting", "fetching", "answered", "notify", "applied",
           "rsnapshot", "rdelete"},
     order : Orders \cup {None}, seen : Statuses,
     role : {"NONE", "ENTRY", "EXIT", "MANUAL"}, lot : Lots \cup {None},
     legs : SUBSET Legs]

TypeOK ==
    /\ orders \in [Orders -> OrderRecord]
    /\ side \in [Lots -> {"NONE", "BUY", "SELL"}]
    /\ remaining \in [Lots -> Nat]
    /\ closed \in [Lots -> BOOLEAN]
    /\ phase \in [Rules -> {"ABSENT", "ARMED", "FIRING", "PLACED", "FAILED", "CANCELLED"}]
    /\ hist \in [Orders -> RowRecord]
    /\ pending \in [Orders -> SUBSET Lots]
    /\ tasks \in [Tasks -> TaskRecord]
    /\ running \in Tasks \cup {None}
    /\ fires \in Nat /\ cancels \in Nat /\ retries \in Nat /\ restarts \in Nat
    /\ applied \in [Orders -> Nat]
    /\ resets \in [Orders -> Nat]
    /\ resolved \in [Orders -> BOOLEAN]

Init ==
    /\ orders = [o \in Orders |-> NoOrder]
    /\ side = [l \in Lots |-> "NONE"]
    /\ remaining = [l \in Lots |-> 0]
    /\ closed = [l \in Lots |-> FALSE]
    /\ phase = [r \in Rules |-> "ABSENT"]
    /\ hist = [o \in Orders |-> NoRow]
    /\ pending = [o \in Orders |-> {}]
    /\ tasks = [t \in Tasks |-> Idle]
    /\ running = None
    /\ fires = 0 /\ cancels = 0 /\ retries = 0 /\ restarts = 0
    /\ applied = [o \in Orders |-> 0]
    /\ resets = [o \in Orders |-> 0]
    /\ resolved = [o \in Orders |-> FALSE]

-----------------------------------------------------------------------------
(* The definitions named Broken... are plausible bugs in the definition    *)
(* that follows them; the specification does not use them, the runs show   *)
(* that each one breaks a property.                                        *)

\* order_history keeps a value it has when the new one is NULL, but for the status.
BrokenMerge(row, status, role, lot) == [status |-> status, role |-> role, lot |-> lot]
Merge(row, status, role, lot) ==
    [status |-> status,
     role |-> IF role = "NONE" THEN row.role ELSE role,
     lot |-> IF lot = None THEN row.lot ELSE lot]

Upsert(o, status, role, lot) ==
    hist' = [hist EXCEPT ![o] = Merge(@, status, role, lot)]

BrokenDeplete(n, q) == n - q
Deplete(n, q) == IF n > q THEN n - q ELSE 0

LotExists(l) == side[l] # "NONE"

\* A new lot gets the key of its entry order, or an id nobody has used.
FreshLot(l) == ~LotExists(l) /\ \A o \in Orders : orders[o].key # l

OpenLots == {l \in Lots : LotExists(l) /\ ~closed[l]}

BrokenAlreadyApplied(o) == FALSE
AlreadyApplied(o) == hist[o].status = "complete"

-----------------------------------------------------------------------------
(* Orders come to exist: through POST /orders, which answers the client    *)
(* and writes a placement row once the broker has, or outside the server.  *)

Placed(o, order) ==
    /\ orders[o] = NoOrder
    /\ orders' = [orders EXCEPT ![o] = order]
    /\ UNCHANGED <<lots, hist, pending, tasks, running, past>>

Place(o, kind, sd, q) ==
    /\ kind \in {"EXIT", "MANUAL", "EXTERNAL"}
    /\ Placed(o, [NoOrder EXCEPT !.kind = kind, !.side = sd, !.qty = q, !.status = "open",
                                 !.replies = IF kind = "EXTERNAL" THEN 0 ELSE 1])
    /\ UNCHANGED <<phase, count>>

PlaceEntry(o, l, legs, sd, q) ==
    /\ FreshLot(l)
    /\ Placed(o, [NoOrder EXCEPT !.kind = "ENTRY", !.key = l, !.legs = legs, !.side = sd,
                                 !.qty = q, !.status = "open", !.replies = 1])
    /\ UNCHANGED <<phase, count>>

\* A request with a key the broker knows is answered with the order it has.
RetryPlace(o) ==
    /\ orders[o].kind \in {"ENTRY", "EXIT", "MANUAL"}
    /\ retries < MaxRetries
    /\ retries' = retries + 1
    /\ orders' = [orders EXCEPT ![o].replies = @ + 1]
    /\ UNCHANGED <<lots, phase, hist, pending, tasks, running, fires, cancels, restarts, past>>

RecordPlacement(o) ==
    /\ running = None
    /\ orders[o].replies > 0
    /\ orders' = [orders EXCEPT ![o].replies = @ - 1]
    /\ Upsert(o, "submitted", orders[o].kind, None)
    /\ resets' = [resets EXCEPT ![o] = IF hist[o].status = "complete" THEN @ + 1 ELSE @]
    /\ UNCHANGED <<lots, phase, pending, tasks, running, count, applied, resolved>>

LoseReply(o) ==
    /\ orders[o].replies > 0
    /\ orders' = [orders EXCEPT ![o].replies = @ - 1]
    /\ UNCHANGED <<lots, phase, hist, pending, tasks, running, count, past>>

OrderEnds(o, status) ==
    /\ orders[o].status = "open"
    /\ orders' = [orders EXCEPT ![o].status = status]
    /\ UNCHANGED <<lots, phase, hist, pending, tasks, running, count, past>>

-----------------------------------------------------------------------------
(* The bracket engine, as far as the recorder sees it: the steps of        *)
(* OneShotRules on one rule.  BracketEngine has the detail.                *)

PhaseMoves(r, from, to) ==
    /\ running = None
    /\ phase[r] \in from
    /\ phase' = [phase EXCEPT ![r] = to]
    /\ UNCHANGED <<lots, hist, pending, tasks, running, retries, restarts, past>>

ExitsOf(r) == {o \in Orders : orders[o].rule = r}

Fire(r) ==
    /\ fires < MaxFires
    /\ PhaseMoves(r, {"ARMED"}, "FIRING")
    /\ fires' = fires + 1
    /\ UNCHANGED <<orders, cancels>>

SendExit(r, o, q) ==
    /\ phase[r] = "FIRING"
    /\ ExitsOf(r) = {}
    /\ Placed(o, [NoOrder EXCEPT !.kind = "LEG", !.rule = r, !.qty = q, !.status = "open",
                                 !.side = IF side[r[1]] = "BUY" THEN "SELL" ELSE "BUY"])
    /\ UNCHANGED <<phase, count>>

Confirm(r) ==
    /\ ExitsOf(r) # {}
    /\ PhaseMoves(r, {"FIRING"}, "PLACED")
    /\ UNCHANGED <<orders, fires, cancels>>

GiveUp(r) ==
    /\ PhaseMoves(r, {"FIRING"}, "FAILED")
    /\ UNCHANGED <<orders, fires, cancels>>

CancelRule(r) ==
    /\ cancels < MaxCancels
    /\ PhaseMoves(r, {"ARMED", "PLACED"}, "CANCELLED")
    /\ cancels' = cancels + 1
    /\ UNCHANGED <<orders, fires>>

-----------------------------------------------------------------------------
(* Attribution: a PLACED rule whose id the tag is made of; else the role   *)
(* in the order's own row; else, for a complete order, what the open lots  *)
(* of the instrument leave possible.                                       *)

RuleTells(o) == orders[o].rule # None /\ phase[orders[o].rule] = "PLACED"

RowTells(o) == ~RuleTells(o) /\ hist[o].role # "NONE"

Unexplained(o, seen) == ~RuleTells(o) /\ ~RowTells(o) /\ seen = "complete"

Candidates(o) == {l \in OpenLots : side[l] # orders[o].side}

Ambiguous(o, seen) == Unexplained(o, seen) /\ Cardinality(Candidates(o)) > 1

KeptLot(o) == IF hist[o].lot = None THEN orders[o].key ELSE hist[o].lot

\* The lot None with role ENTRY stands for a lot still to be given an id.
Attribution(o, seen) ==
    CASE RuleTells(o) ->
           [role |-> "EXIT", lot |-> orders[o].rule[1], legs |-> {}]
      [] RowTells(o) ->
           [role |-> hist[o].role, legs |-> orders[o].legs,
            lot |-> IF hist[o].role = "ENTRY" THEN KeptLot(o) ELSE None]
      [] Unexplained(o, seen) /\ OpenLots = {} ->
           [role |-> "ENTRY", lot |-> None, legs |-> Legs]
      [] Unexplained(o, seen) /\ Cardinality(Candidates(o)) = 1 ->
           [role |-> "EXIT", lot |-> CHOOSE l \in Candidates(o) : TRUE, legs |-> {}]
      [] OTHER -> [role |-> "NONE", lot |-> None, legs |-> {}]

Due(o, seen) ==
    LET a == Attribution(o, seen)
    IN  /\ seen = "complete"
        /\ a.role = "ENTRY" \/ (a.role = "EXIT" /\ a.lot # None)
        /\ ~AlreadyApplied(o)

-----------------------------------------------------------------------------
(* One push: _record_order_history_from_push.                              *)

Moves(t, from, to) ==
    tasks[t].pc = from /\ tasks' = [tasks EXCEPT ![t].pc = to]

Push(t, o) ==
    /\ orders[o] # NoOrder
    /\ tasks[t].pc = "idle"
    /\ tasks' = [tasks EXCEPT ![t] = [Idle EXCEPT !.pc = "waiting", !.order = o]]
    /\ UNCHANGED <<orders, lots, phase, hist, pending, running, count, past>>

SelfishLocked == {"waiting", "fetching", "answered", "notify", "applied"}
Locked == {"fetching", "answered", "notify", "applied"}

BrokenLockFree(o) == TRUE
LockFree(o) == \A t \in Tasks : tasks[t].order = o => tasks[t].pc \notin Locked

Acquire(t) ==
    /\ running = None
    /\ LockFree(tasks[t].order)
    /\ Moves(t, "waiting", "fetching")
    /\ UNCHANGED <<orders, lots, phase, hist, pending, running, count, past>>

Answer(t) ==
    /\ tasks[t].pc = "fetching"
    /\ tasks' = [tasks EXCEPT ![t].pc = "answered", ![t].seen = orders[tasks[t].order].status]
    /\ UNCHANGED <<orders, lots, phase, hist, pending, running, count, past>>

FetchFails(t) ==
    /\ tasks[t].pc = "fetching"
    /\ tasks' = [tasks EXCEPT ![t] = Idle]
    /\ UNCHANGED <<orders, lots, phase, hist, pending, running, count, past>>

Ready(t) == running = None /\ tasks[t].pc = "answered"

HoldAmbiguous(t) ==
    LET o == tasks[t].order
    IN  /\ Ready(t)
        /\ Ambiguous(o, tasks[t].seen)
        /\ pending' = IF pending[o] = {} THEN [pending EXCEPT ![o] = Candidates(o)] ELSE pending
        /\ Moves(t, "answered", "notify")
        /\ UNCHANGED <<orders, lots, phase, hist, running, count, past>>

\* The fill has reached lot l; the row of the order is still to be written.
Apply(t, l, role, legs) ==
    /\ Ready(t)
    /\ tasks' = [tasks EXCEPT ![t] = [@ EXCEPT !.pc = "applied", !.role = role,
                                              !.lot = l, !.legs = legs]]
    /\ applied' = [applied EXCEPT ![tasks[t].order] = @ + 1]
    /\ running' = t
    /\ UNCHANGED <<orders, phase, hist, pending, count, resets, resolved>>

\* The lot of an entry: one that exists already is built on, never opened again.
BrokenOpens(a, l) == IF a.lot = None THEN FreshLot(l) ELSE l = a.lot
Opens(a, l) == IF a.lot = None THEN FreshLot(l) ELSE l = a.lot /\ ~LotExists(l)

OpenLot(t, l) ==
    LET o == tasks[t].order
        a == Attribution(o, tasks[t].seen)
    IN  /\ Due(o, tasks[t].seen)
        /\ a.role = "ENTRY"
        /\ Opens(a, l)
        /\ Apply(t, l, "ENTRY", a.legs)
        /\ side' = [side EXCEPT ![l] = orders[o].side]
        /\ remaining' = [remaining EXCEPT ![l] = orders[o].qty]
        /\ closed' = [closed EXCEPT ![l] = FALSE]

AddToLot(t, l) ==
    LET o == tasks[t].order
        a == Attribution(o, tasks[t].seen)
    IN  /\ Due(o, tasks[t].seen)
        /\ a.role = "ENTRY"
        /\ l = a.lot
        /\ LotExists(l)
        /\ Apply(t, l, "ENTRY", {})
        /\ remaining' = [remaining EXCEPT ![l] = @ + orders[o].qty]
        /\ UNCHANGED <<side, closed>>

Reduce(l, q) ==
    /\ remaining' = [remaining EXCEPT ![l] = Deplete(@, q)]
    /\ closed' = [closed EXCEPT ![l] = @ \/ Deplete(remaining[l], q) = 0]
    /\ UNCHANGED side

ReduceLot(t, l) ==
    LET o == tasks[t].order
        a == Attribution(o, tasks[t].seen)
    IN  /\ Due(o, tasks[t].seen)
        /\ a.role = "EXIT"
        /\ l = a.lot
        /\ Apply(t, l, "EXIT", {})
        /\ Reduce(l, orders[o].qty)

\* arm_lot_bracket writes the target's rule first.
ArmLeg(t) ==
    LET leg == IF "TARGET" \in tasks[t].legs THEN "TARGET" ELSE "STOP_LOSS"
    IN  /\ running = t
        /\ tasks[t].pc = "applied"
        /\ tasks[t].legs # {}
        /\ phase' = [phase EXCEPT ![<<tasks[t].lot, leg>>] = "ARMED"]
        /\ tasks' = [tasks EXCEPT ![t].legs = @ \ {leg}]
        /\ UNCHANGED <<orders, lots, hist, pending, running, count, past>>

\* record_order_snapshot is the task's last transaction.
Snapshot(t, role, lot) ==
    /\ Upsert(tasks[t].order, tasks[t].seen, role, lot)
    /\ tasks' = [tasks EXCEPT ![t] = Idle]
    /\ running' = None
    /\ UNCHANGED <<orders, lots, phase, pending, count, past>>

\* Every leg of the lot's bracket has its rule.
BrokenArmed(t) == TRUE
Armed(t) == tasks[t].legs = {}

RecordApplied(t) ==
    /\ running = t
    /\ tasks[t].pc = "applied"
    /\ Armed(t)
    /\ Snapshot(t, tasks[t].role, tasks[t].lot)

RecordOnly(t) ==
    LET o == tasks[t].order
        a == Attribution(o, tasks[t].seen)
    IN  /\ Ready(t)
        /\ ~Due(o, tasks[t].seen)
        /\ ~Ambiguous(o, tasks[t].seen)
        /\ Snapshot(t, a.role, IF a.role = "EXIT" THEN a.lot ELSE None)

RecordHeld(t) ==
    /\ running = None
    /\ tasks[t].pc = "notify"
    /\ Snapshot(t, "NONE", None)

-----------------------------------------------------------------------------
(* A person picks the lot of a held fill: one route handler, no await.     *)

Resolve(t, o, l) ==
    /\ running = None
    /\ tasks[t].pc = "idle"
    /\ l \in pending[o]
    /\ Reduce(l, orders[o].qty)
    /\ applied' = [applied EXCEPT ![o] = @ + 1]
    /\ tasks' = [tasks EXCEPT ![t] = [Idle EXCEPT !.pc = "rsnapshot", !.order = o, !.lot = l]]
    /\ running' = t
    /\ UNCHANGED <<orders, phase, hist, pending, count, resets, resolved>>

ResolveSnapshot(t) ==
    /\ running = t
    /\ Moves(t, "rsnapshot", "rdelete")
    /\ Upsert(tasks[t].order, "complete", "EXIT", tasks[t].lot)
    /\ UNCHANGED <<orders, lots, phase, pending, running, count, past>>

ResolveDelete(t) ==
    /\ running = t
    /\ tasks[t].pc = "rdelete"
    /\ pending' = [pending EXCEPT ![tasks[t].order] = {}]
    /\ resolved' = [resolved EXCEPT ![tasks[t].order] = TRUE]
    /\ tasks' = [tasks EXCEPT ![t] = Idle]
    /\ running' = None
    /\ UNCHANGED <<orders, lots, phase, hist, count, applied, resets>>

-----------------------------------------------------------------------------
Restart ==
    /\ restarts < MaxRestarts
    /\ restarts' = restarts + 1
    /\ tasks' = [t \in Tasks |-> Idle]
    /\ running' = None
    /\ orders' = [o \in Orders |-> [orders[o] EXCEPT !.replies = 0]]
    /\ UNCHANGED <<lots, phase, hist, pending, fires, cancels, retries, past>>

Placements ==
    \E o \in Orders :
        \/ \E sd \in Sides, q \in Quantities :
             \/ \E kind \in Kinds : Place(o, kind, sd, q)
             \/ /\ "ENTRY" \in Kinds
                /\ \E l \in Lots, legs \in Brackets : PlaceEntry(o, l, legs, sd, q)
        \/ RetryPlace(o) \/ RecordPlacement(o) \/ LoseReply(o)
        \/ OrderEnds(o, "complete") \/ OrderEnds(o, "rejected")

Engine ==
    \E r \in Rules :
        \/ Fire(r) \/ Confirm(r) \/ GiveUp(r) \/ CancelRule(r)
        \/ \E o \in Orders, q \in Quantities : SendExit(r, o, q)

\* The awaits of a push: its lock, and the broker's answer.
Fetch(t) == Answer(t) \/ FetchFails(t)

\* The task resumes after an await, or goes on.
Continue(t) ==
    \/ HoldAmbiguous(t) \/ RecordOnly(t) \/ RecordHeld(t)
    \/ \E l \in Lots : OpenLot(t, l) \/ AddToLot(t, l) \/ ReduceLot(t, l)

GoOn(t) == ArmLeg(t) \/ RecordApplied(t) \/ ResolveSnapshot(t) \/ ResolveDelete(t)

Next ==
    \/ Placements
    \/ Engine
    \/ \E t \in Tasks :
         \/ \E o \in Orders : Push(t, o) \/ \E l \in Lots : Resolve(t, o, l)
         \/ Acquire(t) \/ Fetch(t) \/ Continue(t) \/ GoOn(t)
    \/ Restart

Spec == Init /\ [][Next]_vars

\* The broker's answer comes or times out, and a task that holds the loop goes on; the
\* lock and the ready queue are first in, first out, so who waits is not passed over
\* for ever.  Nothing is assumed of pushes, placements, people or restarts.
Fairness ==
    \A t \in Tasks : /\ WF_vars(Fetch(t)) /\ WF_vars(GoOn(t))
                     /\ SF_vars(Acquire(t)) /\ SF_vars(Continue(t))

FairSpec == Spec /\ Fairness

-----------------------------------------------------------------------------
(* Properties.                                                             *)

\* A fill is applied to the ledger once, but for a placement row that overwrites a complete
\* one (one more time each) and for a restart (a fill may then be held and attributed, and
\* both be lost to the crash): redelivered and overlapping pushes and resolutions add none.
AppliedBound == \A o \in Orders : applied[o] <= 1 + resets[o] + 2 * restarts

\* The row of a complete order never goes back to an earlier broker status, however the
\* answers of overlapping pushes are delayed; only a placement row overwrites it.
RowsNeverRegress ==
    [][\A o \in Orders :
         hist[o].status = "complete" /\ hist'[o].status # "complete"
             => orders'[o].replies < orders[o].replies]_vars

\* A held fill that has been resolved is never held again (the promise of
\* record_pending_ambiguous_fill), whatever is redelivered or restarted afterwards.
ResolvedStaysResolved == \A o \in Orders : resolved[o] => pending[o] = {}

\* The bracket rules move only as OneShotRules allows: recording fills, even twice or half,
\* never arms a rule that has fired or been cancelled.
exits == [r \in Rules |-> Cardinality(ExitsOf(r))]

OneShot == INSTANCE OneShotRules

RulesAreOneShot == OneShot!Spec

\* Every push is recorded or given up, unless the process restarts: pushes of one order
\* that wait for each other, and resolutions between them, leave none behind.
PushEnds == \A t \in Tasks : tasks[t].pc = "waiting" ~> tasks[t].pc = "idle"

\* A lot is open without a bracket only while the task that opened it is arming it, or
\* when a restart came between the lot's transaction and its rules' (_apply_entry_fill).
UnprotectedOnlyAfterRestart ==
    restarts = 0 => \A l \in OpenLots :
        \/ \E t \in Tasks : tasks[t].pc = "applied" /\ tasks[t].lot = l
        \/ \E leg \in Legs : phase[<<l, leg>>] # "ABSENT"

-----------------------------------------------------------------------------
(* What the repository says and the code does not do: see the findings.    *)

\* A fill that was applied on an earlier delivery is not applied again.
AppliedAtMostOnce == \A o \in Orders : applied[o] <= 1
=============================================================================
