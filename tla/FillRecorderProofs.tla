------------------------- MODULE FillRecorderProofs -------------------------
(***************************************************************************)
(* AppliedBound, RowsNeverRegress, ResolvedStaysResolved, RulesAreOneShot  *)
(* and UnprotectedOnlyAfterRestart for every number of orders, lots,       *)
(* overlapping tasks, retries and restarts.                                *)
(*                                                                         *)
(* AppliedBound is not inductive: that a fill was applied shows only in    *)
(* the row the task writes last, and a held fill is a debt that can still  *)
(* be applied.  Once counts both; Unattributed bounds what was applied and *)
(* left no role behind, which is the debt a new held fill adds to; Rows    *)
(* says that under the lock no answer is older than the row.               *)
(***************************************************************************)
EXTENDS FillRecorder, FiniteSetTheorems, TLAPS

Bit(b) == IF b THEN 1 ELSE 0

At(o, pcs) == \E t \in Tasks : tasks[t].order = o /\ tasks[t].pc \in pcs

ResolvePcs == {"rsnapshot", "rdelete"}
ApplyPcs == {"applied", "rsnapshot"}
SettlePcs == {"notify", "applied", "rsnapshot"}

Held(o) == pending[o] # {} /\ ~At(o, ResolvePcs)

Settled(o) == hist[o].status = "complete" \/ At(o, SettlePcs)

\* Fills applied and fills held, against what accounts for them.
OnceFor(o) == applied[o] + Bit(Held(o)) <= Bit(Settled(o)) + resets[o] + 2 * restarts

UnattributedFor(o) ==
    hist[o].role = "NONE" => applied[o] <= restarts + Bit(At(o, ApplyPcs))

Once == \A o \in Orders : OnceFor(o)

Unattributed == \A o \in Orders : UnattributedFor(o)

OneHolder ==
    \A t, u \in Tasks :
        /\ tasks[t].pc \in Locked
        /\ tasks[u].pc \in Locked
        /\ tasks[t].order = tasks[u].order
        => t = u

TaskOK(t) ==
    LET o == tasks[t].order
    IN  /\ tasks[t].pc \in {"applied", "rsnapshot", "rdelete"} => running = t
        /\ tasks[t].pc # "idle" => o \in Orders
        /\ tasks[t].pc = "applied" => tasks[t].role # "NONE"
        /\ tasks[t].pc \in {"notify", "applied"} => tasks[t].seen = "complete"
        /\ tasks[t].pc = "answered" /\ (hist[o].status = "complete" \/ pending[o] # {})
             => tasks[t].seen = "complete"
        /\ tasks[t].pc \in {"answered", "notify", "applied"} /\ tasks[t].seen = "complete"
             => orders[o].status = "complete"
        /\ tasks[t].pc \in {"rsnapshot", "rdelete"} => pending[o] # {}
        /\ tasks[t].pc = "rdelete" => hist[o].role # "NONE"

RowOK(o) ==
    /\ orders[o].replies > 0 => orders[o].kind \in {"ENTRY", "EXIT", "MANUAL"}
    /\ hist[o].status = "complete" \/ pending[o] # {} => orders[o].status = "complete"
    /\ resolved[o] => hist[o].role # "NONE" /\ pending[o] = {}

Rows == (\A t \in Tasks : TaskOK(t)) /\ (\A o \in Orders : RowOK(o))

IInv == TypeOK /\ OneHolder /\ Rows /\ Once /\ Unattributed

-----------------------------------------------------------------------------
(* Steps that leave rows, held fills and tasks alone: placements, broker,  *)
(* bracket engine.                                                         *)

LEMMA InitIInv == Init => IInv
<1> SUFFICES ASSUME Init PROVE IInv
  OBVIOUS
<1>1. TypeOK
  BY DEF Init, TypeOK, OrderRecord, RowRecord, TaskRecord, NoOrder, NoRow, Idle, Statuses
<1>2. OneHolder
  BY DEF Init, OneHolder, Locked, Idle
<1>3. Rows
  BY DEF Init, Rows, TaskOK, RowOK, NoOrder, NoRow, Idle
<1>4. Once
  BY DEF Init, Once, OnceFor, Held, Settled, At, Bit, NoRow, Idle
<1>5. Unattributed
  BY DEF Init, Unattributed, UnattributedFor, At, Bit, NoRow, Idle
<1> QED
  BY <1>1, <1>2, <1>3, <1>4, <1>5 DEF IInv

\* What such a step must show: types, and that the broker forgets nothing.
LEMMA OutsideStep ==
    ASSUME IInv, TypeOK',
           UNCHANGED <<hist, pending, tasks, running, restarts, past>>,
           \A o \in Orders :
             /\ orders[o].status = "complete" => orders'[o].status = "complete"
             /\ orders'[o].replies > 0 => orders'[o].kind \in {"ENTRY", "EXIT", "MANUAL"}
    PROVE  IInv'
<1>1. OneHolder'
  BY DEF IInv, OneHolder
<1>2. Rows'
  BY DEF IInv, Rows, TaskOK, RowOK, past
<1>3. Once'
  BY DEF IInv, Once, OnceFor, Held, Settled, At, Bit, past
<1>4. Unattributed'
  BY DEF IInv, Unattributed, UnattributedFor, At, Bit, past
<1> QED
  BY <1>1, <1>2, <1>3, <1>4 DEF IInv

LEMMA PlacedStep ==
    ASSUME IInv, NEW o \in Orders, NEW new \in OrderRecord, Placed(o, new),
           UNCHANGED <<phase, count>>,
           new.replies > 0 => new.kind \in {"ENTRY", "EXIT", "MANUAL"}
    PROVE  IInv'
<1>1. \A p \in Orders : p # o => orders'[p] = orders[p]
  BY DEF Placed, IInv, TypeOK
<1>2. orders'[o] = new /\ orders[o].status # "complete"
  BY DEF Placed, IInv, TypeOK, NoOrder
<1>3. \A p \in Orders : /\ orders[p].status = "complete" => orders'[p].status = "complete"
                        /\ orders'[p].replies > 0 => orders'[p].kind \in {"ENTRY", "EXIT", "MANUAL"}
  BY <1>1, <1>2 DEF IInv, Rows, RowOK
<1>4. TypeOK'
  BY DEF Placed, IInv, TypeOK, lots, past, count
<1> QED
  BY <1>3, <1>4, OutsideStep DEF Placed, count

LEMMA PlaceStep ==
    ASSUME IInv, NEW o \in Orders, NEW kind \in Kinds, NEW sd \in Sides, NEW q \in Quantities,
           Place(o, kind, sd, q)
    PROVE  IInv'
<1> DEFINE new == [NoOrder EXCEPT !.kind = kind, !.side = sd, !.qty = q, !.status = "open",
                                  !.replies = IF kind = "EXTERNAL" THEN 0 ELSE 1]
<1>1. new \in OrderRecord
  BY OrderSidesAssumption, QuantitiesAssumption DEF Place, OrderRecord, NoOrder, Statuses
<1>2. new.replies > 0 => new.kind \in {"ENTRY", "EXIT", "MANUAL"}
  BY DEF Place, NoOrder
<1>3. Placed(o, new) /\ UNCHANGED <<phase, count>>
  BY DEF Place
<1> QED
  <2> HIDE DEF new
  <2> QED BY <1>1, <1>2, <1>3, PlacedStep

LEMMA PlaceEntryStep ==
    ASSUME IInv, NEW o \in Orders, NEW l \in Lots, NEW legs \in Brackets, NEW sd \in Sides,
           NEW q \in Quantities, PlaceEntry(o, l, legs, sd, q)
    PROVE  IInv'
<1> DEFINE new == [NoOrder EXCEPT !.kind = "ENTRY", !.key = l, !.legs = legs, !.side = sd,
                                  !.qty = q, !.status = "open", !.replies = 1]
<1>1. new \in OrderRecord
  BY OrderSidesAssumption, QuantitiesAssumption, BracketsAssumption
     DEF OrderRecord, NoOrder, Statuses
<1>2. new.replies > 0 => new.kind \in {"ENTRY", "EXIT", "MANUAL"}
  BY DEF NoOrder
<1>3. Placed(o, new) /\ UNCHANGED <<phase, count>>
  BY DEF PlaceEntry
<1> QED
  <2> HIDE DEF new
  <2> QED BY <1>1, <1>2, <1>3, PlacedStep

LEMMA SendExitStep ==
    ASSUME IInv, NEW r \in Rules, NEW o \in Orders, NEW q \in Quantities, SendExit(r, o, q)
    PROVE  IInv'
<1> DEFINE new == [NoOrder EXCEPT !.kind = "LEG", !.rule = r, !.qty = q, !.status = "open",
                                  !.side = IF side[r[1]] = "BUY" THEN "SELL" ELSE "BUY"]
<1>1. new \in OrderRecord
  BY QuantitiesAssumption DEF OrderRecord, NoOrder, Statuses
<1>2. new.replies > 0 => new.kind \in {"ENTRY", "EXIT", "MANUAL"}
  BY DEF NoOrder
<1>3. Placed(o, new) /\ UNCHANGED <<phase, count>>
  BY DEF SendExit
<1> QED
  <2> HIDE DEF new
  <2> QED BY <1>1, <1>2, <1>3, PlacedStep

\* A change of one order at the broker.
LEMMA OrderUpdateStep ==
    ASSUME IInv, NEW o \in Orders, NEW new \in OrderRecord,
           orders' = [orders EXCEPT ![o] = new], retries' \in Nat,
           orders[o].status = "complete" => new.status = "complete",
           new.replies > 0 => new.kind \in {"ENTRY", "EXIT", "MANUAL"},
           UNCHANGED <<lots, phase, hist, pending, tasks, running, fires, cancels, restarts, past>>
    PROVE  IInv'
<1>1. \A p \in Orders : p # o => orders'[p] = orders[p]
  BY DEF IInv, TypeOK
<1>2. orders'[o] = new
  BY DEF IInv, TypeOK
<1>3. \A p \in Orders : /\ orders[p].status = "complete" => orders'[p].status = "complete"
                        /\ orders'[p].replies > 0 => orders'[p].kind \in {"ENTRY", "EXIT", "MANUAL"}
  BY <1>1, <1>2 DEF IInv, Rows, RowOK
<1>4. TypeOK'
  BY DEF IInv, TypeOK, lots, past
<1> QED
  BY <1>3, <1>4, OutsideStep

LEMMA RetryPlaceStep ==
    ASSUME IInv, NEW o \in Orders, RetryPlace(o)
    PROVE  IInv'
<1> DEFINE new == [orders[o] EXCEPT !.replies = @ + 1]
<1>1. orders[o] \in OrderRecord /\ retries \in Nat
  BY DEF IInv, TypeOK
<1>2. new \in OrderRecord /\ new.status = orders[o].status /\ new.kind = orders[o].kind
  BY <1>1 DEF OrderRecord
<1>3. orders' = [orders EXCEPT ![o] = new] /\ retries' \in Nat
  BY <1>1 DEF RetryPlace
<1>4. UNCHANGED <<lots, phase, hist, pending, tasks, running, fires, cancels, restarts, past>>
  BY DEF RetryPlace
<1>5. orders[o].kind \in {"ENTRY", "EXIT", "MANUAL"}
  BY DEF RetryPlace
<1> QED
  <2> HIDE DEF new
  <2> QED BY <1>2, <1>3, <1>4, <1>5, OrderUpdateStep

LEMMA LoseReplyStep ==
    ASSUME IInv, NEW o \in Orders, LoseReply(o)
    PROVE  IInv'
<1> DEFINE new == [orders[o] EXCEPT !.replies = @ - 1]
<1>1. orders[o] \in OrderRecord /\ retries \in Nat /\ orders[o].replies > 0
  BY DEF IInv, TypeOK, LoseReply
<1>2. new \in OrderRecord /\ new.status = orders[o].status /\ new.kind = orders[o].kind
  BY <1>1 DEF OrderRecord
<1>3. orders' = [orders EXCEPT ![o] = new] /\ retries' \in Nat
  BY <1>1 DEF LoseReply, count
<1>4. UNCHANGED <<lots, phase, hist, pending, tasks, running, fires, cancels, restarts, past>>
  BY DEF LoseReply, count
<1>5. orders[o].kind \in {"ENTRY", "EXIT", "MANUAL"}
  BY <1>1 DEF IInv, Rows, RowOK
<1> QED
  <2> HIDE DEF new
  <2> QED BY <1>2, <1>3, <1>4, <1>5, OrderUpdateStep

LEMMA OrderEndsStep ==
    ASSUME IInv, NEW o \in Orders, NEW status \in {"complete", "rejected"}, OrderEnds(o, status)
    PROVE  IInv'
<1> DEFINE new == [orders[o] EXCEPT !.status = status]
<1>1. orders[o] \in OrderRecord /\ retries \in Nat /\ orders[o].status = "open"
  BY DEF IInv, TypeOK, OrderEnds
<1>2. new \in OrderRecord /\ new.replies = orders[o].replies /\ new.kind = orders[o].kind
  BY <1>1 DEF OrderRecord, Statuses
<1>3. orders' = [orders EXCEPT ![o] = new] /\ retries' \in Nat
  BY <1>1 DEF OrderEnds, count
<1>4. UNCHANGED <<lots, phase, hist, pending, tasks, running, fires, cancels, restarts, past>>
  BY DEF OrderEnds, count
<1>5. orders[o].replies > 0 => orders[o].kind \in {"ENTRY", "EXIT", "MANUAL"}
  BY DEF IInv, Rows, RowOK
<1> QED
  <2> HIDE DEF new
  <2> QED BY <1>1, <1>2, <1>3, <1>4, <1>5, OrderUpdateStep

LEMMA EngineStep ==
    ASSUME IInv, NEW r \in Rules, Fire(r) \/ Confirm(r) \/ GiveUp(r) \/ CancelRule(r)
    PROVE  IInv'
<1>1. UNCHANGED <<orders, lots, hist, pending, tasks, running, retries, restarts, past>>
  BY DEF Fire, Confirm, GiveUp, CancelRule, PhaseMoves
<1>2. phase' \in [Rules -> {"ABSENT", "ARMED", "FIRING", "PLACED", "FAILED", "CANCELLED"}]
  BY DEF Fire, Confirm, GiveUp, CancelRule, PhaseMoves, IInv, TypeOK
<1>3. fires' \in Nat /\ cancels' \in Nat
  BY DEF Fire, Confirm, GiveUp, CancelRule, IInv, TypeOK
<1>4. TypeOK'
  BY <1>1, <1>2, <1>3 DEF IInv, TypeOK, lots, past
<1>5. \A p \in Orders : orders'[p].replies > 0 => orders'[p].kind \in {"ENTRY", "EXIT", "MANUAL"}
  BY <1>1 DEF IInv, Rows, RowOK
<1> QED
  BY <1>1, <1>4, <1>5, OutsideStep

-----------------------------------------------------------------------------
(* Steps of one task.  AtElse is At without that task.                     *)

AtElse(t, o, pcs) == \E u \in Tasks \ {t} : tasks[u].order = o /\ tasks[u].pc \in pcs

LEMMA AtUpdate ==
    ASSUME TypeOK, NEW t \in Tasks, NEW new, tasks' = [tasks EXCEPT ![t] = new],
           NEW o, NEW pcs
    PROVE  /\ At(o, pcs) <=> (tasks[t].order = o /\ tasks[t].pc \in pcs) \/ AtElse(t, o, pcs)
           /\ At(o, pcs)' <=> (new.order = o /\ new.pc \in pcs) \/ AtElse(t, o, pcs)
<1>1. tasks'[t] = new /\ \A u \in Tasks \ {t} : tasks'[u] = tasks[u]
  BY DEF TypeOK
<1> QED
  BY <1>1 DEF At, AtElse

\* A step of a task on one order says nothing new of another order.
LEMMA OtherOrder ==
    ASSUME IInv, NEW t \in Tasks, NEW new, tasks' = [tasks EXCEPT ![t] = new],
           NEW o \in Orders,
           tasks[t].order # o \/ tasks[t].pc = "idle",
           new.order # o \/ new.pc = "idle",
           hist'[o] = hist[o], pending'[o] = pending[o], applied'[o] = applied[o],
           resets'[o] = resets[o], restarts' = restarts
    PROVE  OnceFor(o)' /\ UnattributedFor(o)'
<1>a. ASSUME NEW pcs, "idle" \notin pcs PROVE At(o, pcs)' <=> At(o, pcs)
  <2>1. /\ ~(tasks[t].order = o /\ tasks[t].pc \in pcs)
        /\ ~(new.order = o /\ new.pc \in pcs)
    BY <1>a
  <2>2. TypeOK
    BY DEF IInv
  <2> QED
    BY <2>1, <2>2, AtUpdate
<1>1. /\ At(o, ResolvePcs)' <=> At(o, ResolvePcs)
      /\ At(o, SettlePcs)' <=> At(o, SettlePcs)
      /\ At(o, ApplyPcs)' <=> At(o, ApplyPcs)
  BY <1>a DEF ResolvePcs, ApplyPcs, SettlePcs
<1>2. OnceFor(o) /\ UnattributedFor(o)
  BY DEF IInv, Once, Unattributed
<1>3. OnceFor(o)'
  BY <1>1, <1>2 DEF OnceFor, Held, Settled, Bit
<1>4. UnattributedFor(o)'
  BY <1>1, <1>2 DEF UnattributedFor, Bit
<1> QED
  BY <1>3, <1>4

QuietPcs == {"idle", "waiting", "fetching", "answered"}

\* Nothing but the task changes, and it holds no debt before or after.
LEMMA QuietStep ==
    ASSUME IInv, NEW t \in Tasks, NEW new \in TaskRecord, tasks' = [tasks EXCEPT ![t] = new],
           tasks[t].pc \in QuietPcs, new.pc \in QuietPcs,
           UNCHANGED <<orders, lots, phase, hist, pending, running, count, past>>,
           \A u \in Tasks \ {t} : new.pc \in Locked /\ tasks[u].pc \in Locked
                                    => new.order # tasks[u].order,
           new.pc # "idle" => new.order \in Orders,
           new.pc = "answered" => new.seen = orders[new.order].status
    PROVE  IInv'
<1>1. tasks'[t] = new /\ \A u \in Tasks \ {t} : tasks'[u] = tasks[u]
  BY DEF IInv, TypeOK
<1>2. TypeOK'
  BY DEF IInv, TypeOK, lots, count, past
<1>3. OneHolder'
  BY <1>1 DEF IInv, OneHolder
<1>4. \A u \in Tasks \ {t} : TaskOK(u)'
  BY <1>1 DEF IInv, Rows, TaskOK
<1>5. TaskOK(t)'
  BY <1>1 DEF QuietPcs, IInv, Rows, TaskOK, RowOK
<1>6. \A o \in Orders : RowOK(o)'
  BY DEF IInv, Rows, RowOK, past
<1>7. ASSUME NEW o \in Orders PROVE OnceFor(o)' /\ UnattributedFor(o)'
  <2>1. /\ At(o, ResolvePcs)' <=> At(o, ResolvePcs)
        /\ At(o, SettlePcs)' <=> At(o, SettlePcs)
        /\ At(o, ApplyPcs)' <=> At(o, ApplyPcs)
    BY AtUpdate DEF IInv, QuietPcs, ResolvePcs, ApplyPcs, SettlePcs
  <2>2. OnceFor(o) /\ UnattributedFor(o)
    BY DEF IInv, Once, Unattributed
  <2>3. OnceFor(o)'
    BY <2>1, <2>2 DEF OnceFor, Held, Settled, Bit, past, count
  <2>4. UnattributedFor(o)'
    BY <2>1, <2>2 DEF UnattributedFor, Bit, past, count
  <2> QED
    BY <2>3, <2>4
<1> QED
  BY <1>2, <1>3, <1>4, <1>5, <1>6, <1>7 DEF IInv, Rows, Once, Unattributed

LEMMA PushStep ==
    ASSUME IInv, NEW t \in Tasks, NEW o \in Orders, Push(t, o)
    PROVE  IInv'
<1> DEFINE new == [Idle EXCEPT !.pc = "waiting", !.order = o]
<1>1. new \in TaskRecord /\ new.pc = "waiting" /\ new.order = o
  BY DEF Idle, TaskRecord, Statuses
<1>2. tasks' = [tasks EXCEPT ![t] = new] /\ tasks[t].pc = "idle"
  BY DEF Push
<1>3. UNCHANGED <<orders, lots, phase, hist, pending, running, count, past>>
  BY DEF Push
<1> QED
  <2> HIDE DEF new
  <2> QED BY <1>1, <1>2, <1>3, QuietStep DEF QuietPcs, Locked

LEMMA AcquireStep ==
    ASSUME IInv, NEW t \in Tasks, Acquire(t)
    PROVE  IInv'
<1> DEFINE new == [tasks[t] EXCEPT !.pc = "fetching"]
<1>1. tasks[t] \in TaskRecord /\ tasks[t].pc = "waiting" /\ TaskOK(t)
  BY DEF IInv, TypeOK, Rows, Acquire, Moves
<1>2. new \in TaskRecord /\ new.pc = "fetching" /\ new.order = tasks[t].order
  BY <1>1 DEF TaskRecord
<1>3. tasks' = [tasks EXCEPT ![t] = new]
  BY DEF Acquire, Moves
<1>4. UNCHANGED <<orders, lots, phase, hist, pending, running, count, past>>
  BY DEF Acquire
<1>5. \A u \in Tasks \ {t} : tasks[u].pc \in Locked => new.order # tasks[u].order
  BY <1>2 DEF Acquire, LockFree
<1>6. new.order \in Orders
  BY <1>1, <1>2 DEF TaskOK
<1> QED
  <2> HIDE DEF new
  <2> QED BY <1>1, <1>2, <1>3, <1>4, <1>5, <1>6, QuietStep DEF QuietPcs, Locked

LEMMA AnswerStep ==
    ASSUME IInv, NEW t \in Tasks, Answer(t)
    PROVE  IInv'
<1> DEFINE new == [tasks[t] EXCEPT !.pc = "answered", !.seen = orders[tasks[t].order].status]
<1>1. tasks[t] \in TaskRecord /\ tasks[t].pc = "fetching" /\ tasks[t].order \in Orders
  BY DEF IInv, TypeOK, Rows, TaskOK, Answer
<1>2. orders[tasks[t].order].status \in Statuses
  BY <1>1 DEF IInv, TypeOK, OrderRecord
<1>3. new \in TaskRecord /\ new.pc = "answered" /\ new.order = tasks[t].order
      /\ new.seen = orders[tasks[t].order].status
  BY <1>1, <1>2 DEF TaskRecord
<1>4. tasks' = [tasks EXCEPT ![t] = new]
  BY DEF Answer
<1>5. UNCHANGED <<orders, lots, phase, hist, pending, running, count, past>>
  BY DEF Answer
<1>6. \A u \in Tasks \ {t} : tasks[u].pc \in Locked => new.order # tasks[u].order
  BY <1>1, <1>3 DEF IInv, OneHolder, Locked
<1> QED
  <2> HIDE DEF new
  <2> QED BY <1>1, <1>3, <1>4, <1>5, <1>6, QuietStep DEF QuietPcs

LEMMA FetchFailsStep ==
    ASSUME IInv, NEW t \in Tasks, FetchFails(t)
    PROVE  IInv'
<1>1. Idle \in TaskRecord /\ Idle.pc = "idle"
  BY DEF Idle, TaskRecord, Statuses
<1>2. tasks[t].pc = "fetching" /\ tasks' = [tasks EXCEPT ![t] = Idle]
      /\ UNCHANGED <<orders, lots, phase, hist, pending, running, count, past>>
  BY DEF FetchFails
<1> QED
  BY <1>1, <1>2, QuietStep DEF QuietPcs, Locked

-----------------------------------------------------------------------------
(* Steps that write rows and lots: what is left to show of each.           *)

LEMMA DebtStep ==
    ASSUME IInv, TypeOK', NEW t \in Tasks, NEW x \in Orders, NEW new,
           tasks' = [tasks EXCEPT ![t] = new],
           tasks[t].order = x \/ tasks[t].pc = "idle",
           new.order = x \/ new.pc = "idle",
           new.pc \in Locked => tasks[t].pc \in Locked /\ tasks[t].order = x,
           tasks[t].pc \in Locked \/ pending[x] # {},
           running \in {None, t},
           UNCHANGED <<orders, restarts>>,
           \A o \in Orders \ {x} :
             /\ hist'[o] = hist[o] /\ pending'[o] = pending[o] /\ resolved'[o] = resolved[o]
             /\ applied'[o] = applied[o] /\ resets'[o] = resets[o],
           TaskOK(t)', RowOK(x)', OnceFor(x)', UnattributedFor(x)'
    PROVE  IInv'
<1>1. tasks'[t] = new /\ \A u \in Tasks \ {t} : tasks'[u] = tasks[u]
  BY DEF IInv, TypeOK
<1>2. OneHolder'
  BY <1>1 DEF IInv, OneHolder, Locked
<1>3. ASSUME NEW u \in Tasks \ {t} PROVE TaskOK(u)'
  <2>1. TaskOK(u)
    BY DEF IInv, Rows
  <2>2. tasks[u].pc \notin {"applied", "rsnapshot", "rdelete"}
    BY <2>1, NoneAssumption DEF TaskOK
  <2>3. tasks[u].pc = "answered" /\ tasks[u].order = x /\ pending[x] = {} => FALSE
    BY DEF IInv, OneHolder, Locked
  <2>4. CASE tasks[u].order = x
    <3>1. tasks[u].pc = "answered" => tasks[u].seen = "complete"
      BY <2>1, <2>3, <2>4 DEF TaskOK
    <3> QED
      BY <1>1, <2>1, <2>2, <2>4, <3>1 DEF TaskOK
  <2>5. CASE tasks[u].order # x
    BY <1>1, <2>1, <2>2, <2>5 DEF TaskOK
  <2> QED
    BY <2>4, <2>5
<1>4. \A o \in Orders : RowOK(o)'
  BY DEF IInv, Rows, RowOK
<1>5. ASSUME NEW o \in Orders PROVE OnceFor(o)' /\ UnattributedFor(o)'
  <2>1. CASE o = x
    BY <2>1
  <2>2. CASE o # x
    <3>1. /\ hist'[o] = hist[o] /\ pending'[o] = pending[o] /\ applied'[o] = applied[o]
          /\ resets'[o] = resets[o] /\ restarts' = restarts
          /\ tasks[t].order # o \/ tasks[t].pc = "idle"
          /\ new.order # o \/ new.pc = "idle"
      BY <2>2
    <3> QED
      BY <3>1, OtherOrder
  <2> QED
    BY <2>1, <2>2
<1> QED
  BY <1>2, <1>3, <1>4, <1>5 DEF IInv, Rows, Once, Unattributed

\* Who else is at work on the order of a task that holds the loop or may take it.
LEMMA NobodyElse ==
    ASSUME IInv, NEW t \in Tasks, NEW x, running \in {None, t}
    PROVE  /\ ~AtElse(t, x, ResolvePcs)
           /\ ~AtElse(t, x, ApplyPcs)
           /\ tasks[t].pc \in Locked /\ tasks[t].order = x
                => ~AtElse(t, x, SettlePcs)
<1>1. ASSUME NEW u \in Tasks \ {t} PROVE tasks[u].pc \notin {"applied", "rsnapshot", "rdelete"}
  BY NoneAssumption DEF IInv, Rows, TaskOK
<1>2. ASSUME NEW u \in Tasks \ {t}, tasks[t].pc \in Locked, tasks[u].order = tasks[t].order
      PROVE  tasks[u].pc # "notify"
  BY <1>2 DEF IInv, OneHolder, Locked
<1> QED
  BY <1>1, <1>2 DEF AtElse, ResolvePcs, ApplyPcs, SettlePcs

\* The holder of the lock of x is the only task that matters to x.
LEMMA AtHolder ==
    ASSUME IInv, NEW t \in Tasks, NEW x, NEW new, tasks' = [tasks EXCEPT ![t] = new],
           running \in {None, t}, tasks[t].pc \in Locked, tasks[t].order = x
    PROVE  /\ At(x, ResolvePcs) <=> tasks[t].pc \in ResolvePcs
           /\ At(x, ResolvePcs)'
                <=> new.order = x /\ new.pc \in ResolvePcs
           /\ At(x, ApplyPcs) <=> tasks[t].pc \in ApplyPcs
           /\ At(x, ApplyPcs)'
                <=> new.order = x /\ new.pc \in ApplyPcs
           /\ At(x, SettlePcs)
                <=> tasks[t].pc \in SettlePcs
           /\ At(x, SettlePcs)'
                <=> new.order = x /\ new.pc \in SettlePcs
<1>1. /\ ~AtElse(t, x, ResolvePcs)
      /\ ~AtElse(t, x, ApplyPcs)
      /\ ~AtElse(t, x, SettlePcs)
  BY NobodyElse
<1>2. TypeOK
  BY DEF IInv
<1>3. /\ At(x, ResolvePcs) <=> tasks[t].pc \in ResolvePcs
      /\ At(x, ResolvePcs)'
           <=> new.order = x /\ new.pc \in ResolvePcs
  BY <1>1, <1>2, AtUpdate
<1>4. /\ At(x, ApplyPcs) <=> tasks[t].pc \in ApplyPcs
      /\ At(x, ApplyPcs)'
           <=> new.order = x /\ new.pc \in ApplyPcs
  BY <1>1, <1>2, AtUpdate
<1>5. /\ At(x, SettlePcs) <=> tasks[t].pc \in SettlePcs
      /\ At(x, SettlePcs)'
           <=> new.order = x /\ new.pc \in SettlePcs
  BY <1>1, <1>2, AtUpdate
<1> QED
  BY <1>3, <1>4, <1>5

LEMMA HoldAmbiguousStep ==
    ASSUME IInv, NEW t \in Tasks, HoldAmbiguous(t)
    PROVE  IInv'
<1>0. PICK x \in Orders : x = tasks[t].order
  BY DEF IInv, Rows, TaskOK, HoldAmbiguous, Ready
<1> DEFINE new == [tasks[t] EXCEPT !.pc = "notify"]
<1>1. /\ tasks[t] \in TaskRecord /\ tasks[t].pc = "answered" /\ running = None
      /\ tasks[t].seen = "complete" /\ x \in Orders /\ TaskOK(t) /\ RowOK(x)
      /\ hist[x].role = "NONE" /\ orders[x].status = "complete"
  BY <1>0 DEF IInv, TypeOK, Rows, TaskOK, HoldAmbiguous, Ready, Ambiguous, Unexplained, RowTells
<1>2. /\ new \in TaskRecord /\ new.pc = "notify" /\ new.order = x
      /\ new.seen = "complete"
  BY <1>0, <1>1 DEF TaskRecord
<1>3. tasks' = [tasks EXCEPT ![t] = new] /\ tasks'[t] = new
  BY DEF HoldAmbiguous, Moves, IInv, TypeOK
<1>4. UNCHANGED <<orders, lots, phase, hist, running, count, past>>
  BY DEF HoldAmbiguous
<1>5. pending' \in [Orders -> SUBSET Lots] /\ \A o \in Orders \ {x} : pending'[o] = pending[o]
  BY <1>0, <1>1 DEF HoldAmbiguous, IInv, TypeOK, Candidates, OpenLots
<1> HIDE DEF new
<1>6. TypeOK'
  BY <1>2, <1>3, <1>4, <1>5 DEF IInv, TypeOK, lots, count, past
<1>7. TaskOK(t)'
  BY <1>0, <1>1, <1>2, <1>3, <1>4 DEF TaskOK
<1>8. RowOK(x)'
  BY <1>1, <1>4 DEF RowOK, past
<1>9. /\ ~At(x, ApplyPcs)
      /\ At(x, SettlePcs)'
  <2>1. tasks[t].pc \in Locked /\ tasks[t].order = x /\ running \in {None, t}
    BY <1>0, <1>1 DEF Locked
  <2>2. (At(x, ApplyPcs) <=> tasks[t].pc \in ApplyPcs) /\ (At(x, SettlePcs)' <=> new.pc \in SettlePcs)
    BY <1>2, <1>3, <2>1, AtHolder
  <2> QED
    BY <1>1, <1>2, <2>2 DEF ApplyPcs, SettlePcs
<1>10. applied[x] \in Nat /\ resets[x] \in Nat /\ restarts \in Nat /\ applied[x] <= restarts
  BY <1>1, <1>9 DEF IInv, TypeOK, Unattributed, UnattributedFor, Bit
<1>11. OnceFor(x)'
  BY <1>4, <1>9, <1>10 DEF OnceFor, Settled, Bit, past, count
<1>12. UnattributedFor(x)'
  BY <1>4, <1>10 DEF UnattributedFor, Bit, past, count
<1> QED
  BY <1>0, <1>1, <1>2, <1>3, <1>4, <1>5, <1>6, <1>7, <1>8, <1>11, <1>12, DebtStep
     DEF Locked, past, count

LEMMA ApplyStep ==
    ASSUME IInv, NEW t \in Tasks, NEW l \in Lots, NEW role \in {"ENTRY", "EXIT"},
           NEW legs \in SUBSET Legs, Apply(t, l, role, legs),
           tasks[t].seen = "complete", ~AlreadyApplied(tasks[t].order),
           side' \in [Lots -> {"NONE", "BUY", "SELL"}], remaining' \in [Lots -> Nat],
           closed' \in [Lots -> BOOLEAN]
    PROVE  IInv'
<1>0. PICK x \in Orders : x = tasks[t].order
  BY DEF IInv, Rows, TaskOK, Apply, Ready
<1> DEFINE new == [tasks[t] EXCEPT !.pc = "applied", !.role = role, !.lot = l, !.legs = legs]
<1>1. /\ tasks[t] \in TaskRecord /\ tasks[t].pc = "answered" /\ running = None
      /\ x \in Orders /\ RowOK(x) /\ orders[x].status = "complete"
      /\ hist[x].status # "complete"
  BY <1>0 DEF IInv, TypeOK, Rows, TaskOK, Apply, Ready, AlreadyApplied
<1>2. /\ new \in TaskRecord /\ new.pc = "applied" /\ new.order = x
      /\ new.seen = "complete" /\ new.role # "NONE"
  BY <1>0, <1>1 DEF TaskRecord
<1>3. tasks' = [tasks EXCEPT ![t] = new] /\ tasks'[t] = new /\ running' = t
  BY DEF Apply, IInv, TypeOK
<1>4. UNCHANGED <<orders, phase, hist, pending, count, resets, resolved>>
  BY DEF Apply
<1>5. applied' = [applied EXCEPT ![x] = @ + 1]
  BY <1>0 DEF Apply
<1> HIDE DEF new
<1>6. /\ applied[x] \in Nat /\ resets[x] \in Nat /\ restarts \in Nat
      /\ applied'[x] = applied[x] + 1 /\ applied' \in [Orders -> Nat]
      /\ \A o \in Orders \ {x} : applied'[o] = applied[o]
  BY <1>1, <1>5 DEF IInv, TypeOK
<1>7. TypeOK'
  BY <1>2, <1>3, <1>4, <1>6 DEF IInv, TypeOK, count
<1>8. TaskOK(t)'
  BY <1>0, <1>1, <1>2, <1>3, <1>4 DEF TaskOK
<1>9. RowOK(x)'
  BY <1>1, <1>4 DEF RowOK
<1>10. /\ ~At(x, ApplyPcs) /\ At(x, ApplyPcs)'
       /\ ~At(x, ResolvePcs) /\ ~At(x, ResolvePcs)'
       /\ ~At(x, SettlePcs)
       /\ At(x, SettlePcs)'
  <2>1. tasks[t].pc \in Locked /\ tasks[t].order = x /\ running \in {None, t}
    BY <1>0, <1>1 DEF Locked
  <2>2. /\ At(x, ResolvePcs) <=> tasks[t].pc \in ResolvePcs
        /\ At(x, ResolvePcs)' <=> new.pc \in ResolvePcs
        /\ At(x, ApplyPcs) <=> tasks[t].pc \in ApplyPcs
        /\ At(x, ApplyPcs)' <=> new.pc \in ApplyPcs
        /\ At(x, SettlePcs) <=> tasks[t].pc \in SettlePcs
        /\ At(x, SettlePcs)' <=> new.pc \in SettlePcs
    BY <1>2, <1>3, <2>1, AtHolder
  <2> QED
    BY <1>1, <1>2, <2>2 DEF ResolvePcs, ApplyPcs, SettlePcs
<1>11. OnceFor(x) /\ UnattributedFor(x)
  BY <1>1 DEF IInv, Once, Unattributed
<1>12. OnceFor(x)'
  BY <1>1, <1>4, <1>6, <1>10, <1>11 DEF OnceFor, Held, Settled, Bit, count
<1>13. UnattributedFor(x)'
  BY <1>4, <1>6, <1>10, <1>11 DEF UnattributedFor, Bit, count
<1> QED
  BY <1>0, <1>1, <1>2, <1>3, <1>4, <1>6, <1>7, <1>8, <1>9, <1>12, <1>13, DebtStep
     DEF Locked, count

\* What a due fill is attributed to, and who applies it.
LEMMA AttributionType ==
    ASSUME IInv, NEW o \in Orders, NEW seen
    PROVE  /\ Attribution(o, seen).role \in {"NONE", "ENTRY", "EXIT", "MANUAL"}
           /\ Attribution(o, seen).lot \in Lots \cup {None}
           /\ Attribution(o, seen).legs \in SUBSET Legs
<1>1. orders[o] \in OrderRecord /\ hist[o] \in RowRecord
  BY DEF IInv, TypeOK
<1>2. orders[o].rule # None => orders[o].rule[1] \in Lots
  BY <1>1 DEF OrderRecord, Rules
<1>3. Cardinality(Candidates(o)) = 1 => (CHOOSE l \in Candidates(o) : TRUE) \in Lots
  <2>1. ASSUME Candidates(o) = {} PROVE Cardinality(Candidates(o)) = 0
    BY <2>1, FS_EmptySet
  <2>2. Candidates(o) \subseteq Lots
    BY DEF Candidates, OpenLots
  <2> QED
    BY <2>1, <2>2
<1>4. CASE RuleTells(o)
  <2>1. Attribution(o, seen) = [role |-> "EXIT", lot |-> orders[o].rule[1], legs |-> {}]
    BY <1>4 DEF Attribution, RowTells, Unexplained
  <2> QED
    BY <1>2, <1>4, <2>1 DEF RuleTells
<1>5. CASE RowTells(o)
  <2>1. KeptLot(o) \in Lots \cup {None}
    BY <1>1 DEF KeptLot, OrderRecord, RowRecord
  <2>2. Attribution(o, seen) = [role |-> hist[o].role, legs |-> orders[o].legs,
                                lot |-> IF hist[o].role = "ENTRY" THEN KeptLot(o) ELSE None]
    BY <1>5 DEF Attribution, RowTells, Unexplained
  <2> QED
    BY <1>1, <2>1, <2>2 DEF OrderRecord, RowRecord
<1>6. CASE ~RuleTells(o) /\ ~RowTells(o)
  BY <1>3, <1>6 DEF Attribution
<1> QED
  BY <1>4, <1>5, <1>6

LEMMA FillStep ==
    ASSUME IInv, NEW t \in Tasks, NEW l \in Lots,
           OpenLot(t, l) \/ AddToLot(t, l) \/ ReduceLot(t, l)
    PROVE  IInv'
<1>1. PICK x \in Orders : x = tasks[t].order
  BY DEF IInv, Rows, TaskOK, OpenLot, AddToLot, ReduceLot, Apply, Ready
<1>2. Due(x, tasks[t].seen)
  BY <1>1 DEF OpenLot, AddToLot, ReduceLot
<1>3. tasks[t].seen = "complete" /\ ~AlreadyApplied(tasks[t].order)
  BY <1>1, <1>2 DEF Due
<1>4. orders[x].side \in {"NONE", "BUY", "SELL"} /\ orders[x].qty \in Nat
      /\ remaining[l] \in Nat
  BY DEF IInv, TypeOK, OrderRecord
<1>5. CASE OpenLot(t, l)
  <2>1. /\ side' = [side EXCEPT ![l] = orders[x].side]
        /\ remaining' = [remaining EXCEPT ![l] = orders[x].qty]
        /\ closed' = [closed EXCEPT ![l] = FALSE]
    BY <1>1, <1>5 DEF OpenLot
  <2>2. /\ side' \in [Lots -> {"NONE", "BUY", "SELL"}] /\ remaining' \in [Lots -> Nat]
        /\ closed' \in [Lots -> BOOLEAN]
    BY <1>4, <2>1 DEF IInv, TypeOK
  <2>3. Apply(t, l, "ENTRY", Attribution(x, tasks[t].seen).legs)
    BY <1>1, <1>5 DEF OpenLot
  <2>4. Attribution(x, tasks[t].seen).legs \in SUBSET Legs
    BY AttributionType
  <2> QED
    BY <1>3, <2>2, <2>3, <2>4, ApplyStep
<1>6. CASE AddToLot(t, l)
  <2>1. UNCHANGED <<side, closed>> /\ remaining' = [remaining EXCEPT ![l] = @ + orders[x].qty]
    BY <1>1, <1>6 DEF AddToLot
  <2>2. /\ side' \in [Lots -> {"NONE", "BUY", "SELL"}] /\ remaining' \in [Lots -> Nat]
        /\ closed' \in [Lots -> BOOLEAN]
    BY <1>4, <2>1 DEF IInv, TypeOK
  <2>3. Apply(t, l, "ENTRY", {})
    BY <1>6 DEF AddToLot
  <2> QED
    BY <1>3, <2>2, <2>3, ApplyStep
<1>7. CASE ReduceLot(t, l)
  <2>1. Reduce(l, orders[x].qty)
    BY <1>1, <1>7 DEF ReduceLot
  <2>2. /\ side' \in [Lots -> {"NONE", "BUY", "SELL"}] /\ remaining' \in [Lots -> Nat]
        /\ closed' \in [Lots -> BOOLEAN]
    BY <1>4, <2>1 DEF IInv, TypeOK, Reduce, Deplete
  <2>3. Apply(t, l, "EXIT", {})
    BY <1>7 DEF ReduceLot
  <2> QED
    BY <1>3, <2>2, <2>3, ApplyStep
<1> QED
  BY <1>5, <1>6, <1>7

LEMMA ArmLegStep ==
    ASSUME IInv, NEW t \in Tasks, ArmLeg(t)
    PROVE  IInv'
<1>1. PICK x \in Orders : x = tasks[t].order
  BY DEF IInv, Rows, TaskOK, ArmLeg
<1>2. PICK leg : tasks' = [tasks EXCEPT ![t] = [tasks[t] EXCEPT !.legs = @ \ {leg}]]
  BY DEF ArmLeg
<1> DEFINE new == [tasks[t] EXCEPT !.legs = @ \ {leg}]
<1>3. tasks[t] \in TaskRecord /\ tasks[t].pc = "applied" /\ running = t /\ TaskOK(t) /\ RowOK(x)
  BY DEF IInv, TypeOK, Rows, ArmLeg
<1>4. /\ new \in TaskRecord /\ new.pc = "applied" /\ new.order = x
      /\ new.seen = tasks[t].seen /\ new.role = tasks[t].role
  BY <1>1, <1>3 DEF TaskRecord
<1>5. tasks' = [tasks EXCEPT ![t] = new] /\ tasks'[t] = new
  BY <1>2 DEF IInv, TypeOK
<1>6. UNCHANGED <<orders, lots, hist, pending, running, count, past>>
  BY DEF ArmLeg
<1>7. phase' \in [Rules -> {"ABSENT", "ARMED", "FIRING", "PLACED", "FAILED", "CANCELLED"}]
  BY DEF ArmLeg, IInv, TypeOK
<1> HIDE DEF new
<1>8. TypeOK'
  BY <1>4, <1>5, <1>6, <1>7 DEF IInv, TypeOK, lots, count, past
<1>9. TaskOK(t)'
  BY <1>1, <1>3, <1>4, <1>5, <1>6 DEF TaskOK
<1>10. RowOK(x)'
  BY <1>3, <1>6 DEF RowOK, past
<1>11. /\ At(x, ApplyPcs)' <=> At(x, ApplyPcs)
       /\ At(x, ResolvePcs)' <=> At(x, ResolvePcs)
       /\ At(x, SettlePcs)' <=> At(x, SettlePcs)
  <2>1. tasks[t].pc \in Locked /\ tasks[t].order = x /\ running \in {None, t}
    BY <1>1, <1>3 DEF Locked
  <2>2. /\ At(x, ResolvePcs) <=> tasks[t].pc \in ResolvePcs
        /\ At(x, ResolvePcs)' <=> new.pc \in ResolvePcs
        /\ At(x, ApplyPcs) <=> tasks[t].pc \in ApplyPcs
        /\ At(x, ApplyPcs)' <=> new.pc \in ApplyPcs
        /\ At(x, SettlePcs) <=> tasks[t].pc \in SettlePcs
        /\ At(x, SettlePcs)' <=> new.pc \in SettlePcs
    BY <1>4, <1>5, <2>1, AtHolder
  <2> QED
    BY <1>3, <1>4, <2>2
<1>12. OnceFor(x) /\ UnattributedFor(x)
  BY DEF IInv, Once, Unattributed
<1>13. OnceFor(x)'
  BY <1>6, <1>11, <1>12 DEF OnceFor, Held, Settled, Bit, count, past
<1>14. UnattributedFor(x)'
  BY <1>6, <1>11, <1>12 DEF UnattributedFor, Bit, count, past
<1> QED
  BY <1>1, <1>3, <1>4, <1>5, <1>6, <1>8, <1>9, <1>10, <1>13, <1>14, DebtStep
     DEF Locked, count, past

\* record_order_snapshot, by a task that holds the lock: the row becomes complete if it
\* was, or if the fill was applied or held.
LEMMA SnapshotStep ==
    ASSUME IInv, NEW t \in Tasks, NEW role \in {"NONE", "ENTRY", "EXIT", "MANUAL"},
           NEW lot \in Lots \cup {None}, Snapshot(t, role, lot),
           tasks[t].pc \in {"answered", "notify", "applied"}, running \in {None, t},
           tasks[t].pc = "applied" => role # "NONE"
    PROVE  IInv'
<1>1. PICK x \in Orders : x = tasks[t].order
  BY DEF IInv, Rows, TaskOK
<1>2. /\ tasks[t] \in TaskRecord /\ TaskOK(t) /\ RowOK(x) /\ OnceFor(x) /\ UnattributedFor(x)
      /\ hist[x] \in RowRecord /\ tasks[t].seen \in Statuses
  BY DEF IInv, TypeOK, Rows, Once, Unattributed, TaskRecord
<1>3. Idle \in TaskRecord /\ Idle.pc = "idle"
  BY DEF Idle, TaskRecord, Statuses
<1>4. tasks' = [tasks EXCEPT ![t] = Idle] /\ tasks'[t] = Idle /\ running' = None
      /\ UNCHANGED <<orders, lots, phase, pending, count, past>>
  BY DEF Snapshot, IInv, TypeOK
<1> DEFINE row == Merge(hist[x], tasks[t].seen, role, lot)
<1>5. row \in RowRecord /\ row.status = tasks[t].seen
      /\ (row.role = "NONE" <=> role = "NONE" /\ hist[x].role = "NONE")
  BY <1>2 DEF Merge, RowRecord
<1>6. hist' = [hist EXCEPT ![x] = row]
  BY <1>1 DEF Snapshot, Upsert
<1> HIDE DEF row
<1>7. hist'[x] = row /\ hist' \in [Orders -> RowRecord]
      /\ \A o \in Orders \ {x} : hist'[o] = hist[o]
  BY <1>5, <1>6 DEF IInv, TypeOK
<1>8. TypeOK'
  BY <1>3, <1>4, <1>7 DEF IInv, TypeOK, lots, count, past
<1>9. TaskOK(t)'
  BY <1>3, <1>4 DEF TaskOK
<1>10. RowOK(x)'
  BY <1>1, <1>2, <1>4, <1>5, <1>7 DEF RowOK, TaskOK, past
<1>11. /\ ~At(x, ApplyPcs)' /\ ~At(x, ResolvePcs)'
       /\ ~At(x, SettlePcs)'
       /\ ~At(x, ResolvePcs)
       /\ At(x, ApplyPcs) <=> tasks[t].pc = "applied"
       /\ At(x, SettlePcs) <=> tasks[t].pc \in {"notify", "applied"}
  <2>1. tasks[t].pc \in Locked /\ tasks[t].pc \notin {"rsnapshot", "rdelete"}
    BY DEF Locked
  <2>2. tasks[t].order = x /\ tasks' = [tasks EXCEPT ![t] = Idle]
    BY <1>1, <1>4
  <2> QED
    BY <1>3, <2>1, <2>2, AtHolder DEF ResolvePcs, ApplyPcs, SettlePcs
<1>12. Settled(x) => Settled(x)'
  BY <1>1, <1>2, <1>5, <1>7, <1>11 DEF Settled, TaskOK
<1>13. applied[x] \in Nat /\ resets[x] \in Nat /\ restarts \in Nat
  BY DEF IInv, TypeOK
<1>14. OnceFor(x)'
  BY <1>2, <1>4, <1>11, <1>12, <1>13 DEF OnceFor, Held, Bit, count, past
<1>15. UnattributedFor(x)'
  BY <1>2, <1>4, <1>5, <1>7, <1>11, <1>13 DEF UnattributedFor, Bit, count, past
<1> QED
  BY <1>1, <1>3, <1>4, <1>7, <1>8, <1>9, <1>10, <1>14, <1>15, DebtStep
     DEF Locked, count, past

LEMMA RecordStep ==
    ASSUME IInv, NEW t \in Tasks, RecordApplied(t) \/ RecordOnly(t) \/ RecordHeld(t)
    PROVE  IInv'
<1>1. CASE RecordApplied(t)
  <2>1. tasks[t].role \in {"NONE", "ENTRY", "EXIT", "MANUAL"} /\ tasks[t].lot \in Lots \cup {None}
        /\ tasks[t].pc = "applied" /\ tasks[t].role # "NONE"
    BY <1>1 DEF RecordApplied, IInv, TypeOK, TaskRecord, Rows, TaskOK
  <2>2. Snapshot(t, tasks[t].role, tasks[t].lot) /\ running = t
    BY <1>1 DEF RecordApplied
  <2> QED
    BY <2>1, <2>2, SnapshotStep
<1>2. CASE RecordOnly(t)
  <2>1. PICK x \in Orders : x = tasks[t].order
    BY <1>2 DEF RecordOnly, Ready, IInv, Rows, TaskOK
  <2>2. PICK a : a = Attribution(x, tasks[t].seen)
    OBVIOUS
  <2>3. a.role \in {"NONE", "ENTRY", "EXIT", "MANUAL"} /\ a.lot \in Lots \cup {None}
    BY <2>2, AttributionType
  <2>4. Snapshot(t, a.role, IF a.role = "EXIT" THEN a.lot ELSE None)
        /\ running = None /\ tasks[t].pc = "answered"
    BY <1>2, <2>1, <2>2 DEF RecordOnly, Ready
  <2> QED
    BY <2>3, <2>4, SnapshotStep
<1>3. CASE RecordHeld(t)
  <2>1. Snapshot(t, "NONE", None) /\ running = None /\ tasks[t].pc = "notify"
    BY <1>3 DEF RecordHeld
  <2> QED
    BY <2>1, SnapshotStep
<1> QED
  BY <1>1, <1>2, <1>3

LEMMA ResolveStep ==
    ASSUME IInv, NEW t \in Tasks, NEW x \in Orders, NEW l \in Lots, Resolve(t, x, l)
    PROVE  IInv'
<1> DEFINE new == [Idle EXCEPT !.pc = "rsnapshot", !.order = x, !.lot = l]
<1>1. /\ new \in TaskRecord /\ new.pc = "rsnapshot" /\ new.order = x
  BY DEF Idle, TaskRecord, Statuses
<1>2. /\ tasks' = [tasks EXCEPT ![t] = new] /\ tasks'[t] = new
      /\ tasks[t].pc = "idle" /\ running = None /\ running' = t /\ pending[x] # {}
  BY DEF Resolve, IInv, TypeOK
<1>3. UNCHANGED <<orders, phase, hist, pending, count, resets, resolved>>
  BY DEF Resolve
<1> HIDE DEF new
<1>4. /\ applied[x] \in Nat /\ resets[x] \in Nat /\ restarts \in Nat
      /\ applied'[x] = applied[x] + 1 /\ applied' \in [Orders -> Nat]
      /\ \A o \in Orders \ {x} : applied'[o] = applied[o]
  BY DEF Resolve, IInv, TypeOK
<1>5. /\ remaining' \in [Lots -> Nat] /\ closed' \in [Lots -> BOOLEAN] /\ side' = side
  <2>1. orders[x].qty \in Nat /\ remaining[l] \in Nat
    BY DEF IInv, TypeOK, OrderRecord
  <2> QED
    BY <2>1 DEF Resolve, Reduce, Deplete, IInv, TypeOK
<1>6. TypeOK'
  BY <1>1, <1>2, <1>3, <1>4, <1>5 DEF IInv, TypeOK, count
<1>7. TaskOK(t)'
  BY <1>1, <1>2, <1>3 DEF TaskOK
<1>8. RowOK(x) /\ OnceFor(x) /\ UnattributedFor(x)
  BY DEF IInv, Rows, Once, Unattributed
<1>9. RowOK(x)'
  BY <1>3, <1>8 DEF RowOK
<1>10. /\ ~AtElse(t, x, ResolvePcs) /\ ~AtElse(t, x, ApplyPcs)
  BY <1>2, NobodyElse
<1>11. TypeOK
  BY DEF IInv
<1>12. ~At(x, ResolvePcs) /\ At(x, ResolvePcs)'
  BY <1>1, <1>2, <1>10, <1>11, AtUpdate DEF ResolvePcs, ApplyPcs, SettlePcs
<1>13. ~At(x, ApplyPcs) /\ At(x, ApplyPcs)'
  BY <1>1, <1>2, <1>10, <1>11, AtUpdate DEF ResolvePcs, ApplyPcs, SettlePcs
<1>14. At(x, SettlePcs)'
  BY <1>1, <1>2, <1>11, AtUpdate DEF ResolvePcs, ApplyPcs, SettlePcs
<1>15. OnceFor(x)'
  BY <1>2, <1>3, <1>4, <1>8, <1>12, <1>14 DEF OnceFor, Held, Settled, Bit, count
<1>16. UnattributedFor(x)'
  BY <1>3, <1>4, <1>8, <1>13 DEF UnattributedFor, Bit, count
<1> QED
  BY <1>1, <1>2, <1>3, <1>4, <1>6, <1>7, <1>9, <1>15, <1>16, DebtStep DEF Locked, count

LEMMA ResolveSnapshotStep ==
    ASSUME IInv, NEW t \in Tasks, ResolveSnapshot(t)
    PROVE  IInv'
<1>1. PICK x \in Orders : x = tasks[t].order
  BY DEF IInv, Rows, TaskOK, ResolveSnapshot, Moves
<1> DEFINE new == [tasks[t] EXCEPT !.pc = "rdelete"]
<1>2. /\ tasks[t] \in TaskRecord /\ tasks[t].pc = "rsnapshot" /\ running = t
      /\ TaskOK(t) /\ RowOK(x) /\ OnceFor(x) /\ UnattributedFor(x) /\ hist[x] \in RowRecord
  BY DEF IInv, TypeOK, Rows, Once, Unattributed, ResolveSnapshot, Moves
<1>3. new \in TaskRecord /\ new.pc = "rdelete" /\ new.order = x
  BY <1>1, <1>2 DEF TaskRecord
<1>4. /\ tasks' = [tasks EXCEPT ![t] = new] /\ tasks'[t] = new
      /\ UNCHANGED <<orders, lots, phase, pending, running, count, past>>
  BY DEF ResolveSnapshot, Moves, IInv, TypeOK
<1>5. tasks[t].lot \in Lots \cup {None}
  BY <1>2 DEF TaskRecord
<1> HIDE DEF new
<1>6. PICK row \in RowRecord : /\ row.status = "complete" /\ row.role = "EXIT"
                              /\ hist' = [hist EXCEPT ![x] = row]
  <2> DEFINE r == Merge(hist[x], "complete", "EXIT", tasks[t].lot)
  <2>1. r \in RowRecord /\ r.status = "complete" /\ r.role = "EXIT"
    BY <1>2, <1>5 DEF Merge, RowRecord, Statuses
  <2>2. hist' = [hist EXCEPT ![x] = r]
    BY <1>1 DEF ResolveSnapshot, Upsert
  <2> QED
    BY <2>1, <2>2
<1>7. hist'[x] = row /\ hist' \in [Orders -> RowRecord]
      /\ \A o \in Orders \ {x} : hist'[o] = hist[o]
  BY <1>6 DEF IInv, TypeOK
<1>8. TypeOK'
  BY <1>3, <1>4, <1>7 DEF IInv, TypeOK, lots, count, past
<1>9. pending[x] # {}
  BY <1>1, <1>2 DEF TaskOK
<1>10. TaskOK(t)'
  BY <1>2, <1>3, <1>4, <1>6, <1>7, <1>9 DEF TaskOK
<1>11. RowOK(x)'
  BY <1>2, <1>4, <1>6, <1>7, <1>9 DEF RowOK, past
<1>12. TypeOK
  BY DEF IInv
<1>13. At(x, ResolvePcs)' /\ At(x, ResolvePcs)
  BY <1>1, <1>2, <1>3, <1>4, <1>12, AtUpdate DEF ResolvePcs, ApplyPcs, SettlePcs
<1>14. applied[x] \in Nat /\ resets[x] \in Nat /\ restarts \in Nat
  BY DEF IInv, TypeOK
<1>15. OnceFor(x)'
  BY <1>2, <1>4, <1>6, <1>7, <1>13, <1>14 DEF OnceFor, Held, Settled, Bit, count, past
<1>16. UnattributedFor(x)'
  BY <1>6, <1>7 DEF UnattributedFor
<1> QED
  BY <1>1, <1>2, <1>3, <1>4, <1>7, <1>8, <1>9, <1>10, <1>11, <1>15, <1>16, DebtStep
     DEF Locked, count, past

LEMMA ResolveDeleteStep ==
    ASSUME IInv, NEW t \in Tasks, ResolveDelete(t)
    PROVE  IInv'
<1>1. PICK x \in Orders : x = tasks[t].order
  BY DEF IInv, Rows, TaskOK, ResolveDelete
<1>2. /\ tasks[t].pc = "rdelete" /\ running = t
      /\ TaskOK(t) /\ RowOK(x) /\ OnceFor(x) /\ UnattributedFor(x)
  BY DEF IInv, Rows, Once, Unattributed, ResolveDelete
<1>3. Idle \in TaskRecord /\ Idle.pc = "idle"
  BY DEF Idle, TaskRecord, Statuses
<1>4. /\ tasks' = [tasks EXCEPT ![t] = Idle] /\ tasks'[t] = Idle /\ running' = None
      /\ UNCHANGED <<orders, lots, phase, hist, count, applied, resets>>
  BY DEF ResolveDelete, IInv, TypeOK
<1>5. /\ pending' \in [Orders -> SUBSET Lots] /\ pending'[x] = {}
      /\ resolved' \in [Orders -> BOOLEAN]
      /\ \A o \in Orders \ {x} : pending'[o] = pending[o] /\ resolved'[o] = resolved[o]
  BY <1>1 DEF ResolveDelete, IInv, TypeOK
<1>6. TypeOK'
  BY <1>3, <1>4, <1>5 DEF IInv, TypeOK, lots, count
<1>7. pending[x] # {} /\ hist[x].role # "NONE"
  BY <1>1, <1>2 DEF TaskOK
<1>8. TaskOK(t)'
  BY <1>3, <1>4 DEF TaskOK
<1>9. RowOK(x)'
  BY <1>2, <1>4, <1>5, <1>7 DEF RowOK
<1>10. TypeOK
  BY DEF IInv
<1>11. At(x, SettlePcs)' <=> At(x, SettlePcs)
  <2>1. /\ tasks[t].pc \notin {"notify", "applied", "rsnapshot"}
        /\ Idle.pc \notin {"notify", "applied", "rsnapshot"}
    BY <1>2, <1>3
  <2>2. At(x, SettlePcs) <=> AtElse(t, x, SettlePcs)
    BY <1>4, <1>10, <2>1, AtUpdate DEF ResolvePcs, ApplyPcs, SettlePcs
  <2>3. At(x, SettlePcs)' <=> AtElse(t, x, SettlePcs)
    BY <1>4, <1>10, <2>1, AtUpdate DEF ResolvePcs, ApplyPcs, SettlePcs
  <2> QED
    BY <2>2, <2>3
<1>12. applied[x] \in Nat /\ resets[x] \in Nat /\ restarts \in Nat
  BY DEF IInv, TypeOK
<1>13. OnceFor(x)'
  BY <1>2, <1>4, <1>5, <1>11, <1>12 DEF OnceFor, Held, Settled, Bit, count
<1>14. UnattributedFor(x)'
  BY <1>4, <1>7 DEF UnattributedFor
<1> QED
  BY <1>1, <1>2, <1>3, <1>4, <1>5, <1>6, <1>7, <1>8, <1>9, <1>13, <1>14, DebtStep
     DEF Locked, count
-----------------------------------------------------------------------------
(* The steps that two promises give way to: a late placement row, and a    *)
(* restart.                                                                *)

\* A row that goes back to `submitted' costs a reset; attribution is not forgotten.
LEMMA RecordPlacementStep ==
    ASSUME IInv, NEW x \in Orders, RecordPlacement(x)
    PROVE  IInv'
<1>1. /\ orders[x] \in OrderRecord /\ hist[x] \in RowRecord /\ resets[x] \in Nat
      /\ orders[x].replies > 0 /\ orders[x].kind \in {"ENTRY", "EXIT", "MANUAL"}
      /\ RowOK(x) /\ running = None
  BY DEF IInv, TypeOK, Rows, RowOK, RecordPlacement
<1>2. PICK new \in OrderRecord :
        /\ orders' = [orders EXCEPT ![x] = new]
        /\ new.status = orders[x].status /\ new.kind = orders[x].kind
  <2> DEFINE n == [orders[x] EXCEPT !.replies = @ - 1]
  <2>1. n \in OrderRecord /\ n.status = orders[x].status /\ n.kind = orders[x].kind
    BY <1>1 DEF OrderRecord
  <2>2. orders' = [orders EXCEPT ![x] = n]
    BY DEF RecordPlacement
  <2> QED
    BY <2>1, <2>2
<1>3. PICK row \in RowRecord :
        /\ hist' = [hist EXCEPT ![x] = row]
        /\ row.status = "submitted" /\ row.role # "NONE"
  <2> DEFINE r == Merge(hist[x], "submitted", orders[x].kind, None)
  <2>1. r \in RowRecord /\ r.status = "submitted" /\ r.role # "NONE"
    BY <1>1 DEF Merge, RowRecord
  <2>2. hist' = [hist EXCEPT ![x] = r]
    BY DEF RecordPlacement, Upsert
  <2> QED
    BY <2>1, <2>2
<1>4. /\ orders' \in [Orders -> OrderRecord] /\ orders'[x] = new
      /\ hist' \in [Orders -> RowRecord] /\ hist'[x] = row
      /\ \A o \in Orders \ {x} : orders'[o] = orders[o] /\ hist'[o] = hist[o]
  BY <1>2, <1>3 DEF IInv, TypeOK
<1>5. /\ resets' \in [Orders -> Nat]
      /\ resets'[x] = resets[x] + Bit(hist[x].status = "complete")
      /\ \A o \in Orders \ {x} : resets'[o] = resets[o]
  BY <1>1 DEF RecordPlacement, IInv, TypeOK, Bit
<1>6. UNCHANGED <<lots, phase, pending, tasks, running, count, applied, resolved>>
  BY DEF RecordPlacement
<1>7. TypeOK'
  BY <1>4, <1>5, <1>6 DEF IInv, TypeOK, lots, count
<1>8. OneHolder'
  BY <1>6 DEF IInv, OneHolder
<1>9. ASSUME NEW t \in Tasks PROVE TaskOK(t)'
  <2>1. TaskOK(t)
    BY DEF IInv, Rows
  <2> QED
    BY <1>2, <1>3, <1>4, <1>6, <2>1 DEF TaskOK
<1>10. ASSUME NEW o \in Orders PROVE RowOK(o)'
  <2>1. RowOK(o)
    BY DEF IInv, Rows
  <2> QED
    BY <1>1, <1>2, <1>3, <1>4, <1>6, <2>1 DEF RowOK
<1>11. ASSUME NEW o \in Orders PROVE OnceFor(o)'
  <2>1. /\ OnceFor(o) /\ applied[o] \in Nat /\ resets[o] \in Nat /\ restarts \in Nat
    BY DEF IInv, TypeOK, Once
  <2>2. Bit(Held(o))' = Bit(Held(o))
    BY <1>6 DEF Held, At, Bit
  <2>3. Bit(Settled(o)) + resets[o] <= Bit(Settled(o))' + resets'[o]
    BY <1>4, <1>5, <1>6, <2>1 DEF Settled, At, Bit
  <2>4. /\ Bit(Held(o)) \in {0, 1} /\ Bit(Settled(o)) \in {0, 1} /\ Bit(Settled(o))' \in {0, 1}
        /\ resets'[o] \in Nat /\ applied' = applied /\ restarts' = restarts
    BY <1>5, <1>6 DEF Bit, count
  <2> QED
    BY <2>1, <2>2, <2>3, <2>4 DEF OnceFor
<1>12. ASSUME NEW o \in Orders PROVE UnattributedFor(o)'
  BY <1>3, <1>4, <1>6 DEF IInv, Unattributed, UnattributedFor, At, Bit, count
<1> QED
  BY <1>7, <1>8, <1>9, <1>10, <1>11, <1>12 DEF IInv, Rows, Once, Unattributed

\* A restart loses a debt that was about to be settled, and one that was about to be paid.
LEMMA RestartStep ==
    ASSUME IInv, Restart
    PROVE  IInv'
<1>1. Idle \in TaskRecord /\ Idle.pc = "idle"
  BY DEF Idle, TaskRecord, Statuses
<1>2. /\ restarts \in Nat /\ restarts' = restarts + 1 /\ running' = None
      /\ \A t \in Tasks : tasks'[t] = Idle
      /\ tasks' \in [Tasks -> TaskRecord]
      /\ UNCHANGED <<lots, phase, hist, pending, fires, cancels, retries, past>>
  BY <1>1 DEF Restart, IInv, TypeOK
<1>3. /\ orders' \in [Orders -> OrderRecord]
      /\ \A o \in Orders : /\ orders'[o].replies = 0 /\ orders'[o].status = orders[o].status
  <2>1. ASSUME NEW o \in Orders
        PROVE  /\ orders'[o] \in OrderRecord
               /\ orders'[o].replies = 0 /\ orders'[o].status = orders[o].status
    <3>1. orders'[o] = [orders[o] EXCEPT !.replies = 0] /\ orders[o] \in OrderRecord
      BY DEF Restart, IInv, TypeOK
    <3> QED
      BY <3>1 DEF OrderRecord
  <2>2. orders' = [o \in Orders |-> orders'[o]]
    BY DEF Restart
  <2> QED
    BY <2>1, <2>2
<1>4. TypeOK'
  BY <1>2, <1>3 DEF IInv, TypeOK, lots, past
<1>5. OneHolder'
  BY <1>1, <1>2 DEF OneHolder, Locked
<1>6. \A t \in Tasks : TaskOK(t)'
  BY <1>1, <1>2 DEF TaskOK
<1>7. \A o \in Orders : RowOK(o)'
  BY <1>2, <1>3 DEF IInv, Rows, RowOK, past
<1>8. ASSUME NEW o \in Orders PROVE OnceFor(o)' /\ UnattributedFor(o)'
  <2>1. /\ OnceFor(o) /\ UnattributedFor(o)
        /\ applied[o] \in Nat /\ resets[o] \in Nat
        /\ applied'[o] = applied[o] /\ resets'[o] = resets[o] /\ hist'[o] = hist[o]
    BY <1>2 DEF IInv, TypeOK, Once, Unattributed, past
  <2>2. OnceFor(o)'
    BY <1>2, <2>1 DEF OnceFor, Bit
  <2>3. UnattributedFor(o)'
    BY <1>2, <2>1 DEF UnattributedFor, Bit
  <2> QED
    BY <2>2, <2>3
<1> QED
  BY <1>4, <1>5, <1>6, <1>7, <1>8 DEF IInv, Rows, Once, Unattributed
-----------------------------------------------------------------------------
(* The theorems.                                                           *)

LEMMA PlacementsStep ==
    ASSUME IInv, Placements
    PROVE  IInv'
<1>1. PICK o \in Orders :
        \/ \E sd \in Sides, q \in Quantities :
             \/ \E kind \in Kinds : Place(o, kind, sd, q)
             \/ \E l \in Lots, legs \in Brackets : PlaceEntry(o, l, legs, sd, q)
        \/ RetryPlace(o) \/ RecordPlacement(o) \/ LoseReply(o)
        \/ \E status \in {"complete", "rejected"} : OrderEnds(o, status)
  BY DEF Placements
<1> QED
  BY <1>1, PlaceStep, PlaceEntryStep, RetryPlaceStep, RecordPlacementStep, LoseReplyStep,
     OrderEndsStep

LEMMA TaskStep ==
    ASSUME IInv, NEW t \in Tasks,
           \/ \E o \in Orders : Push(t, o) \/ \E l \in Lots : Resolve(t, o, l)
           \/ Acquire(t) \/ Fetch(t) \/ Continue(t) \/ GoOn(t)
    PROVE  IInv'
<1>1. CASE \E o \in Orders : Push(t, o) \/ \E l \in Lots : Resolve(t, o, l)
  BY <1>1, PushStep, ResolveStep
<1>2. CASE Acquire(t) \/ Fetch(t)
  BY <1>2, AcquireStep, AnswerStep, FetchFailsStep DEF Fetch
<1>3. CASE Continue(t)
  BY <1>3, HoldAmbiguousStep, RecordStep, FillStep DEF Continue
<1>4. CASE GoOn(t)
  BY <1>4, ArmLegStep, RecordStep, ResolveSnapshotStep, ResolveDeleteStep DEF GoOn
<1> QED
  BY <1>1, <1>2, <1>3, <1>4

LEMMA NextIInv == IInv /\ [Next]_vars => IInv'
<1> SUFFICES ASSUME IInv, [Next]_vars PROVE IInv'
  OBVIOUS
<1>1. CASE Placements
  BY <1>1, PlacementsStep
<1>2. CASE Engine
  <2>1. PICK r \in Rules : \/ Fire(r) \/ Confirm(r) \/ GiveUp(r) \/ CancelRule(r)
                          \/ \E o \in Orders, q \in Quantities : SendExit(r, o, q)
    BY <1>2 DEF Engine
  <2> QED
    BY <2>1, EngineStep, SendExitStep
<1>3. CASE \E t \in Tasks :
             \/ \E o \in Orders : Push(t, o) \/ \E l \in Lots : Resolve(t, o, l)
             \/ Acquire(t) \/ Fetch(t) \/ Continue(t) \/ GoOn(t)
  BY <1>3, TaskStep
<1>4. CASE Restart
  BY <1>4, RestartStep
<1>5. CASE UNCHANGED vars
  <2>1. UNCHANGED <<orders, side, remaining, closed, phase, hist, pending, tasks, running, fires,
                    cancels, retries, restarts, applied, resets, resolved>>
    BY <1>5 DEF vars, lots, count, past
  <2>2. TypeOK'
    BY <2>1 DEF IInv, TypeOK
  <2>3. OneHolder' /\ Rows'
    BY <2>1 DEF IInv, OneHolder, Rows, TaskOK, RowOK
  <2>4. Once' /\ Unattributed'
    BY <2>1 DEF IInv, Once, OnceFor, Held, Settled, At, Unattributed, UnattributedFor
  <2> QED
    BY <2>2, <2>3, <2>4 DEF IInv
<1> QED
  BY <1>1, <1>2, <1>3, <1>4, <1>5 DEF Next

\* The inductive invariant holds in every reachable state.
THEOREM Inductive == Spec => []IInv
  BY InitIInv, NextIInv, PTL DEF Spec

\* The ledger, the rows, the held fills and the coroutines only take the values the code
\* gives them; in particular no lot's remaining quantity is ever negative, even when a
\* person resolves a fill against a lot another exit has emptied.
THEOREM TypeCorrect == Spec => []TypeOK
<1>1. IInv => TypeOK
  BY DEF IInv
<1> QED
  BY <1>1, Inductive, PTL

\* However pushes are redelivered and overlap, whatever is resolved, and in whatever order
\* placement rows, restarts and broker answers come, a fill is applied once, plus once for
\* each placement row that overwrote a complete one and at most twice for each restart.
THEOREM AppliesBounded == Spec => []AppliedBound
<1>1. IInv => AppliedBound
  <2> SUFFICES ASSUME IInv, NEW o \in Orders
               PROVE  applied[o] <= 1 + resets[o] + 2 * restarts
    BY DEF AppliedBound
  <2>1. applied[o] \in Nat /\ resets[o] \in Nat /\ restarts \in Nat /\ OnceFor(o)
    BY DEF IInv, TypeOK, Once
  <2>2. Bit(Held(o)) \in {0, 1} /\ Bit(Settled(o)) \in {0, 1}
    BY DEF Bit
  <2> QED
    BY <2>1, <2>2 DEF OnceFor
<1> QED
  BY <1>1, Inductive, PTL

\* A held fill that a person has resolved is never held again: whatever push, restart or
\* placement row comes later, the role the resolution wrote keeps it out of the ambiguous
\* branch.
THEOREM ResolutionsHold == Spec => []ResolvedStaysResolved
<1>1. IInv => ResolvedStaysResolved
  BY DEF IInv, Rows, RowOK, ResolvedStaysResolved
<1> QED
  BY <1>1, Inductive, PTL
\* What RowsNeverRegress says of one order and one step.
Kept(o) ==
    hist[o].status = "complete" /\ hist'[o].status # "complete"
        => orders'[o].replies < orders[o].replies

LEMMA SnapshotKeeps ==
    ASSUME IInv, NEW t \in Tasks, NEW role, NEW lot, Snapshot(t, role, lot),
           tasks[t].pc \in {"answered", "notify", "applied"},
           NEW o \in Orders
    PROVE  Kept(o)
<1>1. PICK x \in Orders : x = tasks[t].order
  BY DEF IInv, Rows, TaskOK
<1>2. hist[x].status = "complete" => tasks[t].seen = "complete"
  BY <1>1 DEF IInv, Rows, TaskOK
<1>3. hist' = [hist EXCEPT ![x] = Merge(hist[x], tasks[t].seen, role, lot)]
  BY <1>1 DEF Snapshot, Upsert
<1>4. /\ o # x => hist'[o] = hist[o]
      /\ hist'[x].status = tasks[t].seen
  BY <1>3 DEF Merge, IInv, TypeOK
<1> QED
  BY <1>2, <1>4 DEF Kept

LEMMA TaskStepKeeps ==
    ASSUME IInv, NEW t \in Tasks, NEW o \in Orders,
           \/ \E p \in Orders : Push(t, p) \/ \E l \in Lots : Resolve(t, p, l)
           \/ Acquire(t) \/ Fetch(t) \/ Continue(t) \/ GoOn(t)
    PROVE  Kept(o)
<1>1. CASE \/ \E p \in Orders : Push(t, p) \/ \E l \in Lots : Resolve(t, p, l)
           \/ Acquire(t) \/ Fetch(t) \/ ArmLeg(t) \/ ResolveDelete(t) \/ HoldAmbiguous(t)
           \/ \E l \in Lots : OpenLot(t, l) \/ AddToLot(t, l) \/ ReduceLot(t, l)
  <2>1. UNCHANGED hist
    BY <1>1 DEF Push, Resolve, Acquire, Fetch, Answer, FetchFails, ArmLeg, ResolveDelete,
                HoldAmbiguous, OpenLot, AddToLot, ReduceLot, Apply
  <2> QED
    BY <2>1 DEF Kept
<1>2. CASE RecordApplied(t) \/ RecordOnly(t) \/ RecordHeld(t)
  <2>1. PICK role, lot : Snapshot(t, role, lot)
    BY <1>2 DEF RecordApplied, RecordOnly, RecordHeld
  <2>2. tasks[t].pc \in {"answered", "notify", "applied"}
    BY <1>2 DEF RecordApplied, RecordOnly, RecordHeld, Ready
  <2> QED
    BY <2>1, <2>2, SnapshotKeeps
<1>3. CASE ResolveSnapshot(t)
  <2>1. PICK x \in Orders : x = tasks[t].order
    BY <1>3 DEF IInv, Rows, TaskOK, ResolveSnapshot, Moves
  <2>2. hist' = [hist EXCEPT ![x] = Merge(hist[x], "complete", "EXIT", tasks[t].lot)]
    BY <1>3, <2>1 DEF ResolveSnapshot, Upsert
  <2>3. (o # x => hist'[o] = hist[o]) /\ hist'[x].status = "complete"
    BY <2>2 DEF Merge, IInv, TypeOK
  <2> QED
    BY <2>3 DEF Kept
<1> QED
  BY <1>1, <1>2, <1>3 DEF Continue, GoOn

LEMMA PlacementsKeep ==
    ASSUME IInv, NEW o \in Orders, Placements
    PROVE  Kept(o)
<1>1. CASE UNCHANGED hist
  BY <1>1 DEF Kept
<1>2. CASE \E x \in Orders : RecordPlacement(x)
  <2>1. PICK x \in Orders : RecordPlacement(x)
    BY <1>2
  <2>2. orders[x].replies > 0 /\ orders[x].replies \in Nat
    BY <2>1 DEF RecordPlacement, IInv, TypeOK, OrderRecord
  <2>3. orders'[x].replies = orders[x].replies - 1
    BY <2>1 DEF RecordPlacement, IInv, TypeOK, OrderRecord
  <2>4. o # x => hist'[o] = hist[o]
    BY <2>1 DEF RecordPlacement, Upsert, IInv, TypeOK
  <2> QED
    BY <2>2, <2>3, <2>4 DEF Kept
<1> QED
  BY <1>1, <1>2 DEF Placements, Place, PlaceEntry, Placed, RetryPlace, LoseReply, OrderEnds

\* The row of a complete order never goes back to an earlier broker status, for any number
\* of overlapping pushes and however late their answers are used: only a placement row,
\* which answers a client, overwrites it.
THEOREM RowsKeepUp == Spec => RowsNeverRegress
<1>1. ASSUME IInv, [Next]_vars
      PROVE  [\A o \in Orders :
                hist[o].status = "complete" /\ hist'[o].status # "complete"
                    => orders'[o].replies < orders[o].replies]_vars
  <2>1. ASSUME Next, NEW o \in Orders PROVE Kept(o)
    <3>1. CASE Placements
      BY <1>1, <3>1, PlacementsKeep
    <3>2. CASE Engine \/ Restart
      <4>1. UNCHANGED hist
        BY <3>2 DEF Engine, Restart, Fire, Confirm, GiveUp, CancelRule, PhaseMoves, SendExit, Placed
      <4> QED
        BY <4>1 DEF Kept
    <3>3. CASE \E t \in Tasks :
                 \/ \E p \in Orders : Push(t, p) \/ \E l \in Lots : Resolve(t, p, l)
                 \/ Acquire(t) \/ Fetch(t) \/ Continue(t) \/ GoOn(t)
      BY <1>1, <3>3, TaskStepKeeps
    <3> QED
      BY <2>1, <3>1, <3>2, <3>3 DEF Next
  <2> QED
    BY <1>1, <2>1 DEF Kept
<1> QED
  BY <1>1, Inductive, PTL DEF Spec, RowsNeverRegress

-----------------------------------------------------------------------------
(* The bracket rules are one-shot, whatever is recorded.                   *)

\* An order that exists has a side.
Sided == \A o \in Orders : orders[o].status # "none" => orders[o].side \in {"BUY", "SELL"}

\* A rule that has not fired has no order, and no rule has two.
OneExit == \A r \in Rules : /\ phase[r] \in {"ABSENT", "ARMED"} => ExitsOf(r) = {}
                            /\ \A o, p \in ExitsOf(r) : o = p

\* Only a lot that exists has rules.
NewLots == \A r \in Rules : phase[r] # "ABSENT" => LotExists(r[1])

\* A task that arms a lot finds the legs it has still to arm untouched.
LegsToArm ==
    \A t \in Tasks :
        (tasks[t].pc = "applied" /\ tasks[t].legs # {}) =>
            /\ tasks[t].lot \in Lots /\ LotExists(tasks[t].lot)
            /\ \A leg \in tasks[t].legs : phase[<<tasks[t].lot, leg>>] = "ABSENT"

RuleInv == Sided /\ OneExit /\ NewLots /\ LegsToArm

\* What a step may do to a rule and to its orders.
RuleMoves(r) ==
    \/ /\ ExitsOf(r)' = ExitsOf(r)
       /\ \/ phase'[r] = phase[r]
          \/ phase[r] = "ABSENT" /\ phase'[r] = "ARMED"
          \/ phase[r] = "ARMED" /\ phase'[r] = "FIRING"
          \/ phase[r] = "FIRING" /\ phase'[r] = "PLACED" /\ ExitsOf(r) # {}
          \/ phase[r] = "FIRING" /\ phase'[r] = "FAILED"
          \/ phase[r] \in {"ARMED", "PLACED"} /\ phase'[r] = "CANCELLED"
    \/ /\ phase[r] = "FIRING" /\ phase'[r] = "FIRING"
       /\ ExitsOf(r) = {} /\ \E o \in Orders : ExitsOf(r)' = {o}

Follows == (\A r \in Rules : RuleMoves(r)) /\ Sided' /\ NewLots' /\ LegsToArm'

LEMMA InitRuleInv == Init => RuleInv
<1> SUFFICES ASSUME Init PROVE RuleInv
  OBVIOUS
<1>1. Sided /\ LegsToArm
  BY DEF Init, Sided, LegsToArm, NoOrder, Idle
<1>2. OneExit /\ NewLots
  BY NoneAssumption DEF Init, OneExit, NewLots, ExitsOf, NoOrder
<1> QED BY <1>1, <1>2 DEF RuleInv

\* Steps that change no rule, no lot's existence, and start no arming.
LEMMA QuietFollows ==
    ASSUME RuleInv, UNCHANGED <<phase, side>>,
           \A o \in Orders : /\ orders'[o].rule = orders[o].rule
                             /\ orders'[o].status # "none" => orders'[o].side \in {"BUY", "SELL"},
           \A t \in Tasks : tasks'[t].pc = "applied" =>
               tasks'[t].legs = {} \/ tasks'[t] = tasks[t]
    PROVE  Follows
<1>1. \A r \in Rules : RuleMoves(r)
  BY DEF RuleMoves, ExitsOf
<1>2. Sided' /\ NewLots'
  BY DEF RuleInv, Sided, NewLots, LotExists
<1>3. LegsToArm'
  <2> SUFFICES ASSUME NEW t \in Tasks, tasks'[t].pc = "applied", tasks'[t].legs # {}
               PROVE  /\ tasks'[t].lot \in Lots /\ side'[tasks'[t].lot] # "NONE"
                      /\ \A leg \in tasks'[t].legs : phase'[<<tasks'[t].lot, leg>>] = "ABSENT"
    BY DEF LegsToArm, LotExists
  <2>1. tasks'[t] = tasks[t]
    OBVIOUS
  <2> QED BY <2>1 DEF RuleInv, LegsToArm, LotExists
<1> QED BY <1>1, <1>2, <1>3 DEF Follows

\* One order of the broker's is changed, not its rule nor its side.
LEMMA UpdateFollows ==
    ASSUME IInv, RuleInv, NEW o \in Orders, NEW new, orders' = [orders EXCEPT ![o] = new],
           new.rule = orders[o].rule, new.side = orders[o].side,
           new.status # "none" => orders[o].status # "none",
           UNCHANGED <<phase, side, tasks>>
    PROVE  Follows
<1>1. orders'[o] = new /\ \A p \in Orders \ {o} : orders'[p] = orders[p]
  BY DEF IInv, TypeOK
<1> QED BY <1>1, QuietFollows DEF RuleInv, Sided

LEMMA PlacedFollows ==
    ASSUME IInv, RuleInv, NEW o \in Orders, NEW new, Placed(o, new), UNCHANGED phase,
           new.rule = None, new.side \in {"BUY", "SELL"}
    PROVE  Follows
<1>1. orders'[o] = new /\ \A p \in Orders \ {o} : orders'[p] = orders[p]
  BY DEF Placed, IInv, TypeOK
<1>2. orders[o].rule = None /\ UNCHANGED <<side, tasks>>
  BY DEF Placed, NoOrder, lots
<1> QED BY <1>1, <1>2, QuietFollows DEF RuleInv, Sided

LEMMA PlacementsFollow ==
    ASSUME IInv, RuleInv, Placements
    PROVE  Follows
<1>1. ASSUME NEW o \in Orders, NEW kind \in Kinds, NEW sd \in Sides, NEW q \in Quantities,
             Place(o, kind, sd, q)
      PROVE  Follows
  <2> DEFINE new == [NoOrder EXCEPT !.kind = kind, !.side = sd, !.qty = q, !.status = "open",
                                    !.replies = IF kind = "EXTERNAL" THEN 0 ELSE 1]
  <2>1. new.rule = None /\ new.side \in {"BUY", "SELL"}
    BY OrderSidesAssumption DEF NoOrder
  <2>2. Placed(o, new) /\ UNCHANGED phase
    BY <1>1 DEF Place
  <2> HIDE DEF new
  <2> QED BY <2>1, <2>2, PlacedFollows
<1>2. ASSUME NEW o \in Orders, NEW l \in Lots, NEW legs \in Brackets, NEW sd \in Sides,
             NEW q \in Quantities, PlaceEntry(o, l, legs, sd, q)
      PROVE  Follows
  <2> DEFINE new == [NoOrder EXCEPT !.kind = "ENTRY", !.key = l, !.legs = legs, !.side = sd,
                                    !.qty = q, !.status = "open", !.replies = 1]
  <2>1. new.rule = None /\ new.side \in {"BUY", "SELL"}
    BY OrderSidesAssumption DEF NoOrder
  <2>2. Placed(o, new) /\ UNCHANGED phase
    BY <1>2 DEF PlaceEntry
  <2> HIDE DEF new
  <2> QED BY <2>1, <2>2, PlacedFollows
<1>3. ASSUME NEW o \in Orders, NEW n, orders' = [orders EXCEPT ![o].replies = n],
             UNCHANGED <<phase, side, tasks>>
      PROVE  Follows
  <2> DEFINE new == [orders[o] EXCEPT !.replies = n]
  <2>1. orders[o] \in OrderRecord
    BY DEF IInv, TypeOK
  <2>2. new.rule = orders[o].rule /\ new.side = orders[o].side /\ new.status = orders[o].status
    BY <2>1 DEF OrderRecord
  <2>3. orders' = [orders EXCEPT ![o] = new]
    BY <1>3
  <2> HIDE DEF new
  <2> QED BY <1>3, <2>2, <2>3, UpdateFollows
<1>4. ASSUME NEW o \in Orders, RetryPlace(o) \/ RecordPlacement(o) \/ LoseReply(o)
      PROVE  Follows
  <2>1. UNCHANGED <<phase, side, tasks>>
    BY <1>4 DEF RetryPlace, RecordPlacement, LoseReply, lots
  <2>2. \E n : orders' = [orders EXCEPT ![o].replies = n]
    BY <1>4 DEF RetryPlace, RecordPlacement, LoseReply
  <2> QED BY <1>3, <2>1, <2>2
<1>5. ASSUME NEW o \in Orders, NEW status, OrderEnds(o, status)
      PROVE  Follows
  <2> DEFINE new == [orders[o] EXCEPT !.status = status]
  <2>1. orders[o] \in OrderRecord
    BY DEF IInv, TypeOK
  <2>2. new.rule = orders[o].rule /\ new.side = orders[o].side
    BY <2>1 DEF OrderRecord
  <2>3. /\ orders' = [orders EXCEPT ![o] = new] /\ orders[o].status = "open"
        /\ UNCHANGED <<phase, side, tasks>>
    BY <1>5 DEF OrderEnds, lots
  <2> HIDE DEF new
  <2> QED BY <2>2, <2>3, UpdateFollows
<1> QED BY <1>1, <1>2, <1>4, <1>5 DEF Placements

LEMMA EngineFollows ==
    ASSUME IInv, RuleInv, Engine
    PROVE  Follows
<1>1. ASSUME NEW r \in Rules, NEW from, NEW to, PhaseMoves(r, from, to), UNCHANGED orders,
             to # "ABSENT", "ABSENT" \notin from, RuleMoves(r)
      PROVE  Follows
  <2>1. /\ phase[r] \in from /\ phase'[r] = to /\ \A s \in Rules \ {r} : phase'[s] = phase[s]
        /\ UNCHANGED <<side, tasks>>
    BY <1>1 DEF PhaseMoves, IInv, TypeOK, lots
  <2>2. \A s \in Rules : RuleMoves(s)
    BY <1>1, <2>1 DEF RuleMoves, ExitsOf
  <2>3. Sided' /\ NewLots'
    BY <1>1, <2>1 DEF RuleInv, Sided, NewLots, LotExists
  <2>4. \A s \in Rules : phase[s] = "ABSENT" => phase'[s] = "ABSENT"
    BY <1>1, <2>1
  <2>5. LegsToArm'
    <3> SUFFICES ASSUME NEW t \in Tasks, tasks[t].pc = "applied", tasks[t].legs # {}
                 PROVE  /\ tasks[t].lot \in Lots /\ side[tasks[t].lot] # "NONE"
                        /\ \A leg \in tasks[t].legs : phase'[<<tasks[t].lot, leg>>] = "ABSENT"
      BY <2>1 DEF LegsToArm, LotExists
    <3>1. tasks[t].legs \subseteq Legs
      BY DEF IInv, TypeOK, TaskRecord
    <3> QED BY <2>4, <3>1 DEF RuleInv, LegsToArm, LotExists, Rules
  <2> QED BY <2>2, <2>3, <2>5 DEF Follows
<1>2. ASSUME NEW r \in Rules, Fire(r) \/ Confirm(r) \/ GiveUp(r) \/ CancelRule(r)
      PROVE  Follows
  <2>1. UNCHANGED orders /\ ExitsOf(r)' = ExitsOf(r)
    BY <1>2 DEF Fire, Confirm, GiveUp, CancelRule, ExitsOf
  <2>2. ASSUME NEW from, NEW to, PhaseMoves(r, from, to)
        PROVE  phase[r] \in from /\ phase'[r] = to
    BY <2>2 DEF PhaseMoves, IInv, TypeOK
  <2>3. CASE Fire(r)
    BY <1>1, <2>1, <2>2, <2>3 DEF Fire, RuleMoves
  <2>4. CASE Confirm(r)
    BY <1>1, <2>1, <2>2, <2>4 DEF Confirm, RuleMoves
  <2>5. CASE GiveUp(r)
    BY <1>1, <2>1, <2>2, <2>5 DEF GiveUp, RuleMoves
  <2>6. CASE CancelRule(r)
    BY <1>1, <2>1, <2>2, <2>6 DEF CancelRule, RuleMoves
  <2> QED BY <1>2, <2>3, <2>4, <2>5, <2>6
<1>3. ASSUME NEW r \in Rules, NEW o \in Orders, NEW q \in Quantities, SendExit(r, o, q)
      PROVE  Follows
  <2> DEFINE new == [NoOrder EXCEPT !.kind = "LEG", !.rule = r, !.qty = q, !.status = "open",
                                    !.side = IF side[r[1]] = "BUY" THEN "SELL" ELSE "BUY"]
  <2>1. /\ phase[r] = "FIRING" /\ ExitsOf(r) = {} /\ orders[o] = NoOrder
        /\ orders' = [orders EXCEPT ![o] = new] /\ UNCHANGED <<phase, side, tasks>>
    BY <1>3 DEF SendExit, Placed, lots
  <2>2. new.rule = r /\ new.side \in {"BUY", "SELL"}
    BY DEF NoOrder
  <2> HIDE DEF new
  <2>3. orders'[o] = new /\ \A p \in Orders \ {o} : orders'[p] = orders[p]
    BY <2>1 DEF IInv, TypeOK
  <2>4. orders[o].rule = None /\ r # None
    BY <2>1, NoneAssumption DEF NoOrder
  <2>5. ExitsOf(r)' = {o}
    BY <2>1, <2>2, <2>3 DEF ExitsOf
  <2>6. \A s \in Rules \ {r} : ExitsOf(s)' = ExitsOf(s)
    BY <2>2, <2>3, <2>4, NoneAssumption DEF ExitsOf
  <2>7. \A s \in Rules : RuleMoves(s)
    BY <2>1, <2>5, <2>6 DEF RuleMoves
  <2>8. Sided' /\ NewLots' /\ LegsToArm'
    BY <2>1, <2>2, <2>3 DEF RuleInv, Sided, NewLots, LegsToArm, LotExists
  <2> QED BY <2>7, <2>8 DEF Follows
<1> QED BY <1>2, <1>3 DEF Engine

\* A task's step that arms nothing: the task ends it elsewhere than in "applied", or with
\* no leg to arm.
LEMMA TaskFollows ==
    ASSUME IInv, RuleInv, NEW t \in Tasks, NEW new, tasks' = [tasks EXCEPT ![t] = new],
           new.pc # "applied" \/ new.legs = {}, UNCHANGED <<orders, phase, side>>
    PROVE  Follows
<1>1. tasks'[t] = new /\ \A u \in Tasks \ {t} : tasks'[u] = tasks[u]
  BY DEF IInv, TypeOK
<1> QED BY <1>1, QuietFollows DEF RuleInv, Sided

LEMMA PlainTaskFollows ==
    ASSUME IInv, RuleInv, NEW t \in Tasks,
           \/ \E o \in Orders : Push(t, o) \/ \E l \in Lots : Resolve(t, o, l)
           \/ Acquire(t) \/ Fetch(t) \/ HoldAmbiguous(t) \/ RecordOnly(t) \/ RecordHeld(t)
           \/ RecordApplied(t) \/ ResolveSnapshot(t) \/ ResolveDelete(t)
    PROVE  Follows
<1>1. UNCHANGED <<orders, phase, side>>
  BY DEF Push, Resolve, Reduce, Acquire, Fetch, Answer, FetchFails, HoldAmbiguous, RecordOnly,
         RecordHeld, RecordApplied, Snapshot, ResolveSnapshot, ResolveDelete, lots
<1>2. Idle.pc = "idle"
  BY DEF Idle
<1>3. tasks[t] \in TaskRecord
  BY DEF IInv, TypeOK
<1>4. ASSUME NEW to, NEW from, Moves(t, from, to), to # "applied" PROVE Follows
  <2> DEFINE new == [tasks[t] EXCEPT !.pc = to]
  <2>1. new.pc = to /\ tasks' = [tasks EXCEPT ![t] = new]
    BY <1>3, <1>4 DEF Moves, TaskRecord
  <2> HIDE DEF new
  <2> QED BY <1>1, <1>4, <2>1, TaskFollows
<1>5. CASE Acquire(t) \/ HoldAmbiguous(t) \/ ResolveSnapshot(t)
  BY <1>4, <1>5 DEF Acquire, HoldAmbiguous, ResolveSnapshot
<1>6. CASE \/ FetchFails(t) \/ RecordOnly(t) \/ RecordHeld(t) \/ RecordApplied(t)
           \/ ResolveDelete(t)
  <2>1. tasks' = [tasks EXCEPT ![t] = Idle]
    BY <1>6 DEF FetchFails, RecordOnly, RecordHeld, RecordApplied, Snapshot, ResolveDelete
  <2> QED BY <1>1, <1>2, <2>1, TaskFollows
<1>7. CASE Answer(t)
  <2> DEFINE new == [tasks[t] EXCEPT !.pc = "answered", !.seen = orders[tasks[t].order].status]
  <2>1. new.pc = "answered" /\ tasks' = [tasks EXCEPT ![t] = new]
    BY <1>3, <1>7 DEF Answer, TaskRecord
  <2> HIDE DEF new
  <2> QED BY <1>1, <2>1, TaskFollows
<1>8. ASSUME NEW o \in Orders, Push(t, o) PROVE Follows
  <2> DEFINE new == [Idle EXCEPT !.pc = "waiting", !.order = o]
  <2>1. new.pc = "waiting" /\ tasks' = [tasks EXCEPT ![t] = new]
    BY <1>8 DEF Push, Idle
  <2> HIDE DEF new
  <2> QED BY <1>1, <2>1, TaskFollows
<1>9. ASSUME NEW o \in Orders, NEW l \in Lots, Resolve(t, o, l) PROVE Follows
  <2> DEFINE new == [Idle EXCEPT !.pc = "rsnapshot", !.order = o, !.lot = l]
  <2>1. new.pc = "rsnapshot" /\ tasks' = [tasks EXCEPT ![t] = new]
    BY <1>9 DEF Resolve, Idle
  <2> HIDE DEF new
  <2> QED BY <1>1, <2>1, TaskFollows
<1> QED BY <1>5, <1>6, <1>7, <1>8, <1>9 DEF Fetch

LEMMA AppliedTask ==
    ASSUME IInv, NEW t \in Tasks, NEW l, NEW role, NEW legs, Apply(t, l, role, legs)
    PROVE  /\ tasks'[t].pc = "applied" /\ tasks'[t].lot = l /\ tasks'[t].legs = legs
           /\ \A u \in Tasks \ {t} : tasks'[u] = tasks[u]
           /\ UNCHANGED <<orders, phase>>
<1> DEFINE new == [tasks[t] EXCEPT !.pc = "applied", !.role = role, !.lot = l, !.legs = legs]
<1>1. tasks' = [tasks EXCEPT ![t] = new] /\ UNCHANGED <<orders, phase>>
  BY DEF Apply
<1>2. tasks \in [Tasks -> TaskRecord]
  BY DEF IInv, TypeOK
<1>3. new.pc = "applied" /\ new.lot = l /\ new.legs = legs
  BY <1>2 DEF TaskRecord
<1> HIDE DEF new
<1> QED BY <1>1, <1>2, <1>3

LEMMA FillFollows ==
    ASSUME IInv, RuleInv, NEW t \in Tasks, NEW l \in Lots,
           OpenLot(t, l) \/ AddToLot(t, l) \/ ReduceLot(t, l)
    PROVE  Follows
<1>1. CASE AddToLot(t, l) \/ ReduceLot(t, l)
  <2>1. PICK role : Apply(t, l, role, {})
    BY <1>1 DEF AddToLot, ReduceLot
  <2>2. UNCHANGED side
    BY <1>1 DEF AddToLot, ReduceLot, Reduce
  <2>3. tasks'[t].legs = {} /\ (\A u \in Tasks \ {t} : tasks'[u] = tasks[u])
        /\ UNCHANGED <<orders, phase>>
    BY <2>1, AppliedTask
  <2> QED BY <2>2, <2>3, QuietFollows DEF RuleInv, Sided
<1>2. CASE OpenLot(t, l)
  <2>1. PICK x \in Orders : x = tasks[t].order
    BY <1>2 DEF IInv, Rows, TaskOK, OpenLot, Apply, Ready
  <2> DEFINE legs == Attribution(x, tasks[t].seen).legs
  <2>2. /\ Apply(t, l, "ENTRY", legs) /\ side' = [side EXCEPT ![l] = orders[x].side]
        /\ Due(x, tasks[t].seen) /\ ~LotExists(l) /\ tasks[t].pc = "answered"
    BY <1>2, <2>1 DEF OpenLot, Opens, FreshLot, Apply, Ready
  <2>3. legs \subseteq Legs
    BY AttributionType
  <2> HIDE DEF legs
  <2>4. /\ tasks'[t].pc = "applied" /\ tasks'[t].lot = l /\ tasks'[t].legs = legs
        /\ \A u \in Tasks \ {t} : tasks'[u] = tasks[u]
        /\ UNCHANGED <<orders, phase>>
    BY <2>2, AppliedTask
  <2>5. orders[x].side \in {"BUY", "SELL"}
    <3>1. tasks[t].seen = "complete"
      BY <2>2 DEF Due
    <3>2. orders[x].status = "complete"
      BY <2>1, <2>2, <3>1 DEF IInv, Rows, TaskOK
    <3> QED BY <3>2 DEF RuleInv, Sided
  <2>6. side'[l] # "NONE" /\ \A k \in Lots \ {l} : side'[k] = side[k]
    BY <2>2, <2>5 DEF IInv, TypeOK
  <2>7. \A r \in Rules : RuleMoves(r)
    BY <2>4 DEF RuleMoves, ExitsOf
  <2>8. Sided'
    BY <2>4 DEF RuleInv, Sided
  <2>9. NewLots'
    <3>1. \A r \in Rules : r[1] \in Lots
      BY DEF Rules
    <3> QED BY <2>4, <2>6, <3>1 DEF RuleInv, NewLots, LotExists
  <2>10. \A leg \in Legs : phase[<<l, leg>>] = "ABSENT"
    BY <2>2 DEF RuleInv, NewLots, Rules
  <2>11. LegsToArm'
    <3> SUFFICES ASSUME NEW u \in Tasks, tasks'[u].pc = "applied", tasks'[u].legs # {}
                 PROVE  /\ tasks'[u].lot \in Lots /\ side'[tasks'[u].lot] # "NONE"
                        /\ \A leg \in tasks'[u].legs : phase[<<tasks'[u].lot, leg>>] = "ABSENT"
      BY <2>4 DEF LegsToArm, LotExists
    <3>1. CASE u = t
      BY <2>3, <2>4, <2>6, <2>10, <3>1
    <3>2. CASE u # t
      BY <2>4, <2>6, <3>2 DEF RuleInv, LegsToArm, LotExists
    <3> QED BY <3>1, <3>2
  <2> QED BY <2>7, <2>8, <2>9, <2>11 DEF Follows
<1> QED BY <1>1, <1>2

\* A leg is armed by the task that opened its lot, and only once.
LEMMA ArmLegFollows ==
    ASSUME IInv, RuleInv, NEW t \in Tasks, ArmLeg(t)
    PROVE  Follows
<1> DEFINE leg == IF "TARGET" \in tasks[t].legs THEN "TARGET" ELSE "STOP_LOSS"
           l == tasks[t].lot
           new == [tasks[t] EXCEPT !.legs = @ \ {leg}]
<1>1. /\ running = t /\ tasks[t].pc = "applied" /\ tasks[t].legs # {}
      /\ phase' = [phase EXCEPT ![<<l, leg>>] = "ARMED"] /\ UNCHANGED <<orders, side>>
      /\ tasks' = [tasks EXCEPT ![t] = new]
  BY DEF ArmLeg, lots
<1>2. tasks \in [Tasks -> TaskRecord] /\ tasks[t].legs \subseteq Legs
  BY DEF IInv, TypeOK, TaskRecord
<1>3. leg \in tasks[t].legs
  BY <1>1, <1>2 DEF Legs
<1>4. /\ l \in Lots /\ LotExists(l) /\ \A k \in tasks[t].legs : phase[<<l, k>>] = "ABSENT"
  BY <1>1 DEF RuleInv, LegsToArm
<1>5. /\ new.pc = "applied" /\ new.lot = l /\ new.legs = tasks[t].legs \ {leg}
  BY <1>1, <1>2 DEF TaskRecord
<1> HIDE DEF leg, l, new
<1>6. /\ <<l, leg>> \in Rules /\ phase[<<l, leg>>] = "ABSENT"
      /\ phase'[<<l, leg>>] = "ARMED"
      /\ \A r \in Rules \ {<<l, leg>>} : phase'[r] = phase[r]
  BY <1>1, <1>2, <1>3, <1>4 DEF Rules, IInv, TypeOK
<1>7. tasks'[t] = new /\ \A u \in Tasks \ {t} : tasks'[u] = tasks[u]
  BY <1>1, <1>2
<1>8. \A r \in Rules : RuleMoves(r)
  BY <1>1, <1>6 DEF RuleMoves, ExitsOf
<1>9. Sided' /\ NewLots'
  <2>1. <<l, leg>>[1] = l
    OBVIOUS
  <2> QED BY <1>1, <1>4, <1>6, <2>1 DEF RuleInv, Sided, NewLots, LotExists
<1>10. LegsToArm'
  <2> SUFFICES ASSUME NEW u \in Tasks, tasks'[u].pc = "applied", tasks'[u].legs # {}
               PROVE  /\ tasks'[u].lot \in Lots /\ side[tasks'[u].lot] # "NONE"
                      /\ \A k \in tasks'[u].legs : phase'[<<tasks'[u].lot, k>>] = "ABSENT"
    BY <1>1 DEF LegsToArm, LotExists
  <2>1. CASE u = t
    <3>1. \A k \in new.legs : k \in Legs /\ phase[<<l, k>>] = "ABSENT" /\ k # leg
      BY <1>2, <1>4, <1>5
    <3>2. \A k \in new.legs : <<l, k>> \in Rules \ {<<l, leg>>}
      BY <1>4, <3>1 DEF Rules
    <3> QED BY <1>4, <1>5, <1>6, <1>7, <2>1, <3>1, <3>2 DEF LotExists
  <2>2. CASE u # t
    <3>1. FALSE
      BY <1>1, <1>7, <2>2, NoneAssumption DEF IInv, Rows, TaskOK
    <3> QED BY <3>1
  <2> QED BY <2>1, <2>2
<1> QED BY <1>8, <1>9, <1>10 DEF Follows

LEMMA NextFollows ==
    ASSUME IInv, RuleInv, [Next]_vars
    PROVE  Follows
<1>1. CASE Placements \/ Engine
  BY <1>1, PlacementsFollow, EngineFollows
<1>2. CASE \E t \in Tasks :
             \/ \E o \in Orders : Push(t, o) \/ \E l \in Lots : Resolve(t, o, l)
             \/ Acquire(t) \/ Fetch(t) \/ Continue(t) \/ GoOn(t)
  BY <1>2, PlainTaskFollows, FillFollows, ArmLegFollows DEF Continue, GoOn
<1>3. CASE Restart
  <2>1. /\ \A t \in Tasks : tasks'[t] = Idle
        /\ \A o \in Orders : orders'[o] = [orders[o] EXCEPT !.replies = 0]
        /\ UNCHANGED <<phase, side>>
    BY <1>3 DEF Restart, lots
  <2>2. \A o \in Orders : orders[o] \in OrderRecord
    BY DEF IInv, TypeOK
  <2>3. \A o \in Orders : /\ orders'[o].rule = orders[o].rule /\ orders'[o].side = orders[o].side
                          /\ orders'[o].status = orders[o].status
    BY <2>1, <2>2 DEF OrderRecord
  <2>4. \A t \in Tasks : tasks'[t].pc # "applied"
    BY <2>1 DEF Idle
  <2> QED BY <2>1, <2>3, <2>4, QuietFollows DEF RuleInv, Sided
<1>4. CASE UNCHANGED vars
  <2>1. UNCHANGED <<orders, phase, side, tasks>>
    BY <1>4 DEF vars, lots
  <2> QED BY <2>1, QuietFollows DEF RuleInv, Sided
<1> QED BY <1>1, <1>2, <1>3, <1>4 DEF Next

LEMMA OneExitFollows ==
    ASSUME RuleInv, Follows
    PROVE  RuleInv'
<1>1. OneExit'
  BY DEF RuleInv, Follows, OneExit, RuleMoves
<1> QED BY <1>1 DEF Follows, RuleInv

\* The inductive invariant of the fill recorder's rules.
THEOREM SpecRuleInv == Spec => []RuleInv
<1>1. IInv /\ RuleInv /\ [Next]_vars => RuleInv'
  BY NextFollows, OneExitFollows
<1> QED BY <1>1, InitRuleInv, Inductive, PTL DEF Spec

LEMMA ExitCount ==
    ASSUME OneExit, NEW r \in Rules
    PROVE  /\ ExitsOf(r) = {} => exits[r] = 0
           /\ ExitsOf(r) # {} => exits[r] = 1
<1>1. exits[r] = Cardinality(ExitsOf(r))
  BY DEF exits
<1>2. ASSUME ExitsOf(r) # {} PROVE Cardinality(ExitsOf(r)) = 1
  <2>1. PICK o \in ExitsOf(r) : TRUE
    BY <1>2
  <2>2. ExitsOf(r) = {o}
    BY <2>1 DEF OneExit
  <2> QED BY <2>2, FS_Singleton
<1> QED BY <1>1, <1>2, FS_EmptySet

\* Recording fills, however often and however late, keeps the rules one-shot: what the bracket
\* engine, the recorder and the broker do together is a behaviour of OneShotRules.
THEOREM SpecRulesAreOneShot == Spec => RulesAreOneShot
<1>1. ASSUME RuleInv, RuleInv', Follows PROVE OneShot!Next
  <2> SUFFICES ASSUME NEW r \in Rules PROVE OneShot!Step(r) \/ OneShot!Rest(r)
    BY DEF OneShot!Next
  <2>1. /\ ExitsOf(r) = {} => exits[r] = 0
        /\ ExitsOf(r) # {} => exits[r] = 1
    BY <1>1, ExitCount DEF RuleInv
  <2>2. exits'[r] = Cardinality(ExitsOf(r)')
    BY DEF exits
  <2>3. ExitsOf(r)' = ExitsOf(r) => exits'[r] = exits[r]
    BY <2>2 DEF exits
  <2>4. ASSUME NEW o \in Orders, ExitsOf(r)' = {o} PROVE exits'[r] = 1
    BY <2>2, <2>4, FS_Singleton
  <2>5. RuleMoves(r)
    BY <1>1 DEF Follows
  <2> QED BY <2>1, <2>3, <2>4, <2>5 DEF RuleMoves, OneShot!Rest, OneShot!Step, OneShot!Arm,
             OneShot!Fire, OneShot!SendExit, OneShot!GiveUp, OneShot!Confirm, OneShot!Cancel,
             OneShot!Moves
<1>2. Init => OneShot!Init
  <2> SUFFICES ASSUME Init PROVE OneShot!Init
    OBVIOUS
  <2>1. \A r \in Rules : Cardinality(ExitsOf(r)) = 0
    <3>1. \A r \in Rules : ExitsOf(r) = {}
      BY NoneAssumption DEF Init, ExitsOf, NoOrder
    <3> QED BY <3>1, FS_EmptySet
  <2>2. exits = [r \in Rules |-> 0]
    BY <2>1 DEF exits
  <2> QED BY <2>2 DEF Init, OneShot!Init
<1>3. IInv /\ RuleInv /\ RuleInv' /\ [Next]_vars => [OneShot!Next]_<<phase, exits>>
  BY <1>1, NextFollows
<1>4. Spec => OneShot!Init /\ [][OneShot!Next]_<<phase, exits>>
  BY <1>2, <1>3, Inductive, SpecRuleInv, PTL DEF Spec
<1> QED BY <1>4 DEF RulesAreOneShot, OneShot!Spec

-----------------------------------------------------------------------------
(* No lot is left without a bracket.                                       *)

\* An entry through the app asks for a leg, and the row of an order that no fill has been
\* applied for says ENTRY only when it was placed as one.
AskedLegs ==
    \A o \in Orders :
        /\ orders[o].kind = "ENTRY" => orders[o].legs # {}
        /\ hist[o].role = "ENTRY" /\ hist[o].status # "complete" => orders[o].kind = "ENTRY"

\* Until the process restarts, a lot is being armed or has a rule.
Protected(l) ==
    \/ \E t \in Tasks : /\ tasks[t].pc = "applied" /\ tasks[t].lot = l
                        /\ tasks[t].legs # {}
    \/ \E leg \in Legs : phase[<<l, leg>>] # "ABSENT"

LotsProtected == restarts = 0 => \A l \in Lots : LotExists(l) => Protected(l)

LEMMA InitProtected == Init => AskedLegs /\ LotsProtected
  BY DEF Init, AskedLegs, LotsProtected, LotExists, NoOrder, NoRow

\* A step may not forget what an order was placed as, nor write an unfounded ENTRY.
LEMMA AskedQuiet ==
    ASSUME AskedLegs,
           \A o \in Orders :
             /\ orders'[o].kind = orders[o].kind /\ orders'[o].legs = orders[o].legs
             /\ hist'[o] = hist[o]
    PROVE  AskedLegs'
  BY DEF AskedLegs

LEMMA AskedPlaced ==
    ASSUME IInv, AskedLegs, NEW o \in Orders, NEW new, Placed(o, new),
           new.kind = "ENTRY" => new.legs # {}
    PROVE  AskedLegs'
<1>1. orders'[o] = new /\ \A p \in Orders \ {o} : orders'[p] = orders[p]
  BY DEF Placed, IInv, TypeOK
<1>2. orders[o].kind # "ENTRY" /\ UNCHANGED hist
  BY DEF Placed, NoOrder
<1> QED BY <1>1, <1>2 DEF AskedLegs

LEMMA AskedRow ==
    ASSUME IInv, AskedLegs, UNCHANGED orders, NEW x \in Orders, NEW status, NEW role, NEW lot,
           Upsert(x, status, role, lot),
           \/ status = "complete" \/ role \in {"EXIT", "MANUAL"} \/ orders[x].kind = "ENTRY"
           \/ role = "NONE" /\ hist[x].status # "complete"
    PROVE  AskedLegs'
<1> DEFINE row == Merge(hist[x], status, role, lot)
<1>1. hist'[x] = row /\ \A p \in Orders \ {x} : hist'[p] = hist[p]
  BY DEF Upsert, IInv, TypeOK
<1>2. row.status = status /\ row.role = IF role = "NONE" THEN hist[x].role ELSE role
  BY DEF Merge
<1> HIDE DEF row
<1>3. row.role = "ENTRY" /\ row.status # "complete" => orders[x].kind = "ENTRY"
  BY <1>2 DEF AskedLegs
<1> QED BY <1>1, <1>3 DEF AskedLegs

LEMMA AskedPlacements ==
    ASSUME IInv, AskedLegs, Placements, {} \notin Brackets
    PROVE  AskedLegs'
<1>1. ASSUME NEW o \in Orders, NEW kind \in Kinds, NEW sd \in Sides, NEW q \in Quantities,
             Place(o, kind, sd, q)
      PROVE  AskedLegs'
  <2> DEFINE new == [NoOrder EXCEPT !.kind = kind, !.side = sd, !.qty = q, !.status = "open",
                                    !.replies = IF kind = "EXTERNAL" THEN 0 ELSE 1]
  <2>1. new.kind = kind /\ kind # "ENTRY" /\ Placed(o, new)
    BY <1>1 DEF NoOrder, Place
  <2> HIDE DEF new
  <2> QED BY <2>1, AskedPlaced
<1>2. ASSUME NEW o \in Orders, NEW l \in Lots, NEW legs \in Brackets, NEW sd \in Sides,
             NEW q \in Quantities, PlaceEntry(o, l, legs, sd, q)
      PROVE  AskedLegs'
  <2> DEFINE new == [NoOrder EXCEPT !.kind = "ENTRY", !.key = l, !.legs = legs, !.side = sd,
                                    !.qty = q, !.status = "open", !.replies = 1]
  <2>1. new.legs = legs /\ Placed(o, new)
    BY <1>2 DEF NoOrder, PlaceEntry
  <2> HIDE DEF new
  <2> QED BY <2>1, AskedPlaced
<1>3. ASSUME NEW x \in Orders, NEW n, orders' = [orders EXCEPT ![x].replies = n]
      PROVE  \A o \in Orders : orders'[o].kind = orders[o].kind /\ orders'[o].legs = orders[o].legs
  <2>1. orders \in [Orders -> OrderRecord]
    BY DEF IInv, TypeOK
  <2> QED BY <1>3, <2>1 DEF OrderRecord
<1>4. ASSUME NEW x \in Orders, RetryPlace(x) \/ LoseReply(x) PROVE AskedLegs'
  <2>1. UNCHANGED hist /\ \E n : orders' = [orders EXCEPT ![x].replies = n]
    BY <1>4 DEF RetryPlace, LoseReply
  <2> QED BY <1>3, <2>1, AskedQuiet
<1>5. ASSUME NEW x \in Orders, RecordPlacement(x) PROVE AskedLegs'
  <2>1. /\ \E n : orders' = [orders EXCEPT ![x].replies = n]
        /\ hist' = [hist EXCEPT ![x] = Merge(hist[x], "submitted", orders[x].kind, None)]
        /\ orders[x].replies > 0
    BY <1>5 DEF RecordPlacement, Upsert
  <2>2. \A o \in Orders : orders'[o].kind = orders[o].kind /\ orders'[o].legs = orders[o].legs
    BY <1>3, <2>1
  <2>3. orders[x].kind \in {"ENTRY", "EXIT", "MANUAL"}
    BY <2>1 DEF IInv, Rows, RowOK
  <2>4. hist'[x].role = orders[x].kind /\ \A o \in Orders \ {x} : hist'[o] = hist[o]
    BY <2>1, <2>3 DEF IInv, TypeOK, Merge
  <2> QED BY <2>2, <2>4 DEF AskedLegs
<1>6. ASSUME NEW x \in Orders, NEW status, OrderEnds(x, status) PROVE AskedLegs'
  <2>1. orders \in [Orders -> OrderRecord] /\ UNCHANGED hist
        /\ orders' = [orders EXCEPT ![x].status = status]
    BY <1>6 DEF IInv, TypeOK, OrderEnds
  <2>2. \A o \in Orders : orders'[o].kind = orders[o].kind /\ orders'[o].legs = orders[o].legs
    BY <2>1 DEF OrderRecord
  <2> QED BY <2>1, <2>2, AskedQuiet
<1> QED BY <1>1, <1>2, <1>4, <1>5, <1>6 DEF Placements

LEMMA AskedRecord ==
    ASSUME IInv, AskedLegs, NEW t \in Tasks,
           RecordOnly(t) \/ RecordHeld(t) \/ RecordApplied(t)
    PROVE  AskedLegs'
<1>1. PICK x \in Orders : x = tasks[t].order
  BY DEF IInv, Rows, TaskOK, RecordOnly, RecordHeld, RecordApplied, Ready
<1>2. TaskOK(t)
  BY DEF IInv, Rows
<1>3. CASE RecordHeld(t) \/ RecordApplied(t)
  <2>1. UNCHANGED orders /\ \E role, lot : Upsert(x, tasks[t].seen, role, lot)
    BY <1>1, <1>3 DEF RecordHeld, RecordApplied, Snapshot
  <2>2. tasks[t].seen = "complete"
    BY <1>2, <1>3 DEF TaskOK, RecordHeld, RecordApplied
  <2> QED BY <2>1, <2>2, AskedRow
<1>4. CASE RecordOnly(t)
  <2> DEFINE role == Attribution(x, tasks[t].seen).role
  <2>1. UNCHANGED orders /\ \E lot : Upsert(x, tasks[t].seen, role, lot)
    BY <1>1, <1>4 DEF RecordOnly, Snapshot
  <2>2. hist[x].status = "complete" => tasks[t].seen = "complete"
    BY <1>1, <1>2, <1>4 DEF TaskOK, RecordOnly, Ready
  <2>3. role \in {"NONE", "ENTRY", "EXIT", "MANUAL"}
    BY AttributionType
  <2>4. ASSUME role = "ENTRY", tasks[t].seen # "complete" PROVE orders[x].kind = "ENTRY"
    <3>1. RowTells(x) /\ hist[x].role = "ENTRY"
      BY <2>4 DEF Attribution, Unexplained, RowTells
    <3> QED BY <2>2, <2>4, <3>1 DEF AskedLegs
  <2> HIDE DEF role
  <2> QED BY <2>1, <2>2, <2>3, <2>4, AskedRow
<1> QED BY <1>3, <1>4

LEMMA NextAsked ==
    ASSUME IInv, AskedLegs, [Next]_vars, {} \notin Brackets
    PROVE  AskedLegs'
<1>1. CASE Placements
  BY <1>1, AskedPlacements
<1>2. CASE Engine
  <2>1. ASSUME NEW r \in Rules, Fire(r) \/ Confirm(r) \/ GiveUp(r) \/ CancelRule(r)
        PROVE  AskedLegs'
    <3>1. UNCHANGED <<orders, hist>>
      BY <2>1 DEF Fire, Confirm, GiveUp, CancelRule, PhaseMoves
    <3> QED BY <3>1, AskedQuiet
  <2>2. ASSUME NEW r \in Rules, NEW o \in Orders, NEW q \in Quantities, SendExit(r, o, q)
        PROVE  AskedLegs'
    <3> DEFINE new == [NoOrder EXCEPT !.kind = "LEG", !.rule = r, !.qty = q, !.status = "open",
                                      !.side = IF side[r[1]] = "BUY" THEN "SELL" ELSE "BUY"]
    <3>1. new.kind = "LEG" /\ Placed(o, new)
      BY <2>2 DEF SendExit, NoOrder
    <3> HIDE DEF new
    <3> QED BY <3>1, AskedPlaced
  <2> QED BY <1>2, <2>1, <2>2 DEF Engine
<1>3. ASSUME NEW t \in Tasks,
             \/ \E o \in Orders : Push(t, o) \/ \E l \in Lots : Resolve(t, o, l)
             \/ Acquire(t) \/ Fetch(t) \/ Continue(t) \/ GoOn(t)
      PROVE  AskedLegs'
  <2>1. CASE RecordOnly(t) \/ RecordHeld(t) \/ RecordApplied(t)
    BY <2>1, AskedRecord
  <2>2. CASE ResolveSnapshot(t)
    <3>1. PICK x \in Orders : x = tasks[t].order
      BY <2>2 DEF IInv, Rows, TaskOK, ResolveSnapshot, Moves
    <3>2. UNCHANGED orders /\ Upsert(x, "complete", "EXIT", tasks[t].lot)
      BY <2>2, <3>1 DEF ResolveSnapshot
    <3> QED BY <3>2, AskedRow
  <2>3. CASE \/ \E o \in Orders : Push(t, o) \/ \E l \in Lots : Resolve(t, o, l)
             \/ Acquire(t) \/ Fetch(t) \/ HoldAmbiguous(t) \/ ArmLeg(t) \/ ResolveDelete(t)
             \/ \E l \in Lots : OpenLot(t, l) \/ AddToLot(t, l) \/ ReduceLot(t, l)
    <3>1. UNCHANGED <<orders, hist>>
      BY <2>3 DEF Push, Resolve, Acquire, Fetch, Answer, FetchFails, HoldAmbiguous, ArmLeg,
                  ResolveDelete, OpenLot, AddToLot, ReduceLot, Apply
    <3> QED BY <3>1, AskedQuiet
  <2> QED BY <1>3, <2>1, <2>2, <2>3 DEF Continue, GoOn
<1>4. CASE Restart
  <2>1. orders \in [Orders -> OrderRecord] /\ UNCHANGED hist
        /\ \A o \in Orders : orders'[o] = [orders[o] EXCEPT !.replies = 0]
    BY <1>4 DEF IInv, TypeOK, Restart
  <2>2. \A o \in Orders : orders'[o].kind = orders[o].kind /\ orders'[o].legs = orders[o].legs
    BY <2>1 DEF OrderRecord
  <2> QED BY <2>1, <2>2, AskedQuiet
<1>5. CASE UNCHANGED vars
  BY <1>5, AskedQuiet DEF vars
<1> QED BY <1>1, <1>2, <1>3, <1>4, <1>5 DEF Next

\* A step that opens no lot and drops no leg that is still to arm.
LEMMA ProtectedQuiet ==
    ASSUME LotsProtected, Follows, UNCHANGED <<side, restarts>>,
           \A t \in Tasks : (tasks[t].pc = "applied" /\ tasks[t].legs # {}) => tasks'[t] = tasks[t]
    PROVE  LotsProtected'
<1> SUFFICES ASSUME restarts = 0, NEW l \in Lots, LotExists(l) PROVE Protected(l)'
  BY DEF LotsProtected, LotExists
<1>1. Protected(l)
  BY DEF LotsProtected
<1>2. \A leg \in Legs : phase[<<l, leg>>] # "ABSENT" => phase'[<<l, leg>>] # "ABSENT"
  BY DEF Follows, RuleMoves, Rules
<1> QED BY <1>1, <1>2 DEF Protected

LEMMA EntryLegs ==
    ASSUME IInv, AskedLegs, NEW x \in Orders, NEW seen, Due(x, seen),
           Attribution(x, seen).role = "ENTRY"
    PROVE  Attribution(x, seen).legs # {}
<1>1. hist[x].status # "complete"
  BY DEF Due, AlreadyApplied
<1>2. CASE RowTells(x)
  <2>1. /\ Attribution(x, seen).role = hist[x].role
        /\ Attribution(x, seen).legs = orders[x].legs
    BY <1>2 DEF Attribution, RowTells, Unexplained
  <2> QED BY <1>1, <2>1 DEF AskedLegs
<1>3. CASE ~RowTells(x)
  <2>1. ASSUME RuleTells(x) PROVE FALSE
    <3>1. Attribution(x, seen) = [role |-> "EXIT", lot |-> orders[x].rule[1], legs |-> {}]
      BY <2>1 DEF Attribution, RowTells, Unexplained
    <3> QED BY <3>1
  <2>2. Attribution(x, seen).legs = Legs
    BY <1>3, <2>1 DEF Attribution
  <2> QED BY <2>2 DEF Legs
<1> QED BY <1>2, <1>3

LEMMA NextProtected ==
    ASSUME IInv, RuleInv, AskedLegs, LotsProtected, [Next]_vars
    PROVE  LotsProtected'
<1>1. Follows
  BY NextFollows
<1>2. CASE Placements
  <2>1. UNCHANGED <<side, restarts, tasks>>
    BY <1>2 DEF Placements, Place, PlaceEntry, Placed, RetryPlace, RecordPlacement, LoseReply,
                OrderEnds, lots, count
  <2> QED BY <1>1, <2>1, ProtectedQuiet
<1>3. CASE Engine
  <2>1. UNCHANGED <<side, restarts, tasks>>
    BY <1>3 DEF Engine, Fire, Confirm, GiveUp, CancelRule, PhaseMoves, SendExit, Placed, lots,
                count
  <2> QED BY <1>1, <2>1, ProtectedQuiet
<1>4. ASSUME NEW t \in Tasks, NEW new, tasks' = [tasks EXCEPT ![t] = new],
             tasks[t].pc # "applied" \/ tasks[t].legs = {}, UNCHANGED <<side, restarts>>
      PROVE  LotsProtected'
  <2>1. \A u \in Tasks \ {t} : tasks'[u] = tasks[u]
    BY <1>4 DEF IInv, TypeOK
  <2> QED BY <1>1, <1>4, <2>1, ProtectedQuiet
<1>5. ASSUME NEW t \in Tasks,
             \/ \E o \in Orders : Push(t, o) \/ \E l \in Lots : Resolve(t, o, l)
             \/ Acquire(t) \/ Fetch(t) \/ HoldAmbiguous(t) \/ RecordOnly(t) \/ RecordHeld(t)
             \/ RecordApplied(t) \/ ResolveSnapshot(t) \/ ResolveDelete(t)
             \/ \E l \in Lots : AddToLot(t, l) \/ ReduceLot(t, l)
      PROVE  LotsProtected'
  <2>1. UNCHANGED <<side, restarts>>
    BY <1>5 DEF Push, Resolve, Reduce, Acquire, Fetch, Answer, FetchFails, HoldAmbiguous,
                RecordOnly, RecordHeld, RecordApplied, Snapshot, ResolveSnapshot, ResolveDelete,
                AddToLot, ReduceLot, Apply, lots, count
  <2>2. tasks[t].pc # "applied" \/ tasks[t].legs = {}
    BY <1>5 DEF Push, Resolve, Acquire, Fetch, Answer, FetchFails, HoldAmbiguous, Moves,
                RecordOnly, RecordHeld, RecordApplied, Armed, ResolveSnapshot, ResolveDelete,
                AddToLot, ReduceLot, Apply, Ready
  <2>3. \E new : tasks' = [tasks EXCEPT ![t] = new]
    BY <1>5 DEF Push, Resolve, Acquire, Fetch, Answer, FetchFails, HoldAmbiguous, Moves,
                RecordOnly, RecordHeld, RecordApplied, Snapshot, ResolveSnapshot, ResolveDelete,
                AddToLot, ReduceLot, Apply
  <2> QED BY <1>4, <2>1, <2>2, <2>3
<1>6. ASSUME NEW t \in Tasks, NEW l \in Lots, OpenLot(t, l) PROVE LotsProtected'
  <2>1. PICK x \in Orders : x = tasks[t].order
    BY <1>6 DEF IInv, Rows, TaskOK, OpenLot, Apply, Ready
  <2> DEFINE legs == Attribution(x, tasks[t].seen).legs
  <2>2. /\ Apply(t, l, "ENTRY", legs) /\ side' = [side EXCEPT ![l] = orders[x].side]
        /\ Due(x, tasks[t].seen) /\ Attribution(x, tasks[t].seen).role = "ENTRY"
        /\ tasks[t].pc = "answered" /\ UNCHANGED <<phase, restarts>>
    BY <1>6, <2>1 DEF OpenLot, Apply, Ready, count
  <2>3. legs # {}
    BY <2>2, EntryLegs
  <2> HIDE DEF legs
  <2>4. /\ tasks'[t].pc = "applied" /\ tasks'[t].lot = l /\ tasks'[t].legs = legs
        /\ \A u \in Tasks \ {t} : tasks'[u] = tasks[u]
    BY <2>2, AppliedTask
  <2>5. Protected(l)'
    BY <2>3, <2>4 DEF Protected
  <2>6. \A k \in Lots \ {l} : side'[k] = side[k]
    BY <2>2 DEF IInv, TypeOK
  <2>7. ASSUME NEW k \in Lots \ {l}, restarts = 0, LotExists(k) PROVE Protected(k)'
    <3>1. Protected(k)
      BY <2>7 DEF LotsProtected
    <3> QED BY <2>2, <2>4, <3>1 DEF Protected
  <2> QED BY <2>2, <2>5, <2>6, <2>7 DEF LotsProtected, LotExists
<1>7. ASSUME NEW t \in Tasks, ArmLeg(t) PROVE LotsProtected'
  <2> DEFINE leg == IF "TARGET" \in tasks[t].legs THEN "TARGET" ELSE "STOP_LOSS"
             l == tasks[t].lot
  <2>1. /\ tasks[t].pc = "applied" /\ tasks[t].legs # {}
        /\ phase' = [phase EXCEPT ![<<l, leg>>] = "ARMED"]
        /\ UNCHANGED <<side, restarts>>
        /\ \E new : tasks' = [tasks EXCEPT ![t] = new]
    BY <1>7 DEF ArmLeg, lots, count
  <2>2. \A u \in Tasks \ {t} : tasks'[u] = tasks[u]
    BY <2>1 DEF IInv, TypeOK
  <2>3. leg \in Legs /\ l \in Lots
    BY <2>1 DEF RuleInv, LegsToArm, Legs
  <2>4. phase'[<<l, leg>>] = "ARMED"
    BY <2>1, <2>3 DEF IInv, TypeOK, Rules
  <2> HIDE DEF leg
  <2>5. \A k \in Lots, m \in Legs : phase[<<k, m>>] # "ABSENT" => phase'[<<k, m>>] # "ABSENT"
    BY <1>1 DEF Follows, RuleMoves, Rules
  <2> SUFFICES ASSUME restarts = 0, NEW k \in Lots, LotExists(k) PROVE Protected(k)'
    BY <2>1 DEF LotsProtected, LotExists
  <2>6. Protected(k)
    BY DEF LotsProtected
  <2>7. CASE k = l
    BY <2>3, <2>4, <2>7 DEF Protected
  <2>8. CASE k # l
    BY <2>2, <2>5, <2>6, <2>8 DEF Protected
  <2> QED BY <2>7, <2>8
<1>8. CASE Restart
  BY <1>8 DEF Restart, IInv, TypeOK, LotsProtected
<1>9. CASE UNCHANGED vars
  <2>1. UNCHANGED <<side, restarts, tasks>>
    BY <1>9 DEF vars, lots, count
  <2> QED BY <1>1, <2>1, ProtectedQuiet
<1> QED BY <1>2, <1>3, <1>5, <1>6, <1>7, <1>8, <1>9 DEF Next, Continue, GoOn

\* If every entry through the app asks for a leg, no lot is open without a bracket but while
\* its task arms it or after a restart came in between, however pushes are redelivered and
\* overlap and whatever rows a fill finds (_apply_entry_fill).
THEOREM SpecUnprotectedOnlyAfterRestart ==
    ASSUME {} \notin Brackets
    PROVE  Spec => []UnprotectedOnlyAfterRestart
<1>1. Init => AskedLegs /\ LotsProtected
  BY InitProtected
<1>2. IInv /\ RuleInv /\ AskedLegs /\ LotsProtected /\ [Next]_vars
      => AskedLegs' /\ LotsProtected'
  BY NextAsked, NextProtected
<1>3. LotsProtected => UnprotectedOnlyAfterRestart
  BY DEF LotsProtected, Protected, UnprotectedOnlyAfterRestart, OpenLots
<1> QED BY <1>1, <1>2, <1>3, Inductive, SpecRuleInv, PTL DEF Spec

=============================================================================
