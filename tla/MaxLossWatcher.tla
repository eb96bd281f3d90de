-------------------------- MODULE MaxLossWatcher ---------------------------
(***************************************************************************)
(* The server-side stop on the day's loss.  A check, started by a tick or  *)
(* by the fallback loop, reads the epoch, values the lots (with an awaited *)
(* quote for each lot no tick has priced), ratchets the peak, and on a     *)
(* breach takes the exit-all lock, judges again, exits every open lot and  *)
(* arms a fresh epoch.  The phone arms and disarms the epoch meanwhile,    *)
(* bracket legs fire, orders fill, pushes reach the ledger late.           *)
(*                                                                         *)
(* One action is what runs between two awaits.  A lot has an instrument of *)
(* its own, so a position is the position of one lot.                      *)
(***************************************************************************)
EXTENDS Integers, Sequences

CONSTANTS
    LotSeq,       \* the lots, in the order of created_at
    SideOf,       \* transaction_type of each lot
    LotQty,       \* the quantity each lot was entered with
    Entry,        \* the price each lot was entered at
    Bracketed,    \* the lots that have a bracket; the leg of another never fires
    Prices,       \* prices of ticks and quotes
    FillPrices,   \* prices of fills
    Checks,       \* evaluations of check_now that may overlap
    Arms,         \* epochs the phone may arm: opening balance, peak, X and mode
    MaxArms,      \* bound on epochs armed by the phone
    MaxRearms,    \* bound on epochs armed by the watcher
    MaxTicks,     \* bound on ticks
    MaxTurns,     \* bound on closings of the market and losses of the token
    MaxManual,    \* bound on exits placed in the broker's own app
    MaxFailures,  \* bound on awaited calls that raise and on process restarts
    None          \* no epoch, no price, a free lock

Lots == {LotSeq[i] : i \in DOMAIN LotSeq}
Makers == {"WATCHER", "LEG", "MANUAL"}
Modes == {"ABSOLUTE", "PERCENTAGE"}

ASSUME LotsAssumption == LotSeq \in Seq(Lots)
ASSUME SidesAssumption == SideOf \in [Lots -> {"BUY", "SELL"}]
ASSUME LotQtyAssumption == LotQty \in Nat \ {0}
ASSUME PricesAssumption == Entry \in Int /\ Prices \cup FillPrices \subseteq Int /\ None \notin Int
ASSUME ArmsAssumption == Arms \subseteq [opening : Int, peak : Int, x : Nat \ {0}, mode : Modes]
ASSUME FreeLockAssumption == None \notin Checks

VARIABLES
    epoch,      \* the max_loss_epochs row
    remaining,  \* lots.remaining_quantity; 0 is a CLOSED lot
    realized,   \* lots.realized_pnl
    leg,        \* state of the lot's bracket leg
    mark,       \* OrderEngineLotTracker._last_ltp
    position,   \* the broker's signed net quantity
    working,    \* quantity of the exits resting at the broker, by who placed them
    pushes,     \* fills the ledger has not applied yet
    open,       \* is_market_open
    token,      \* a loadable access token is stored
    legCall,    \* the place_order call of each lot's leg, and the quantity it carries
    task,       \* the evaluations and their locals
    lock,       \* holder of the exit-all lock
    bound,      \* counters of the bounds
    calm,       \* history: nothing touched the lot since the check looked at it
    basis       \* history: P&L when the watcher armed this epoch

ledger == <<epoch, remaining, realized, leg>>
account == <<position, working, pushes>>
env    == <<mark, open, token, legCall>>
checks == <<task, lock>>
past   == <<calm, basis>>
vars   == <<ledger, account, env, checks, bound, past>>

Sign(l) == IF SideOf[l] = "SELL" THEN -1 ELSE 1
Larger(a, b) == IF a > b THEN a ELSE b
Smaller(a, b) == IF a < b THEN a ELSE b

\* rows are the lots a loop of the check has still to come to, with the quantity
\* read of each; lot and qty are those it is at.
NoLots == [l \in Lots |-> 0]
Idle == [pc |-> "idle", epoch |-> None, token |-> FALSE, equity |-> 0,
         rows |-> NoLots, lot |-> None, qty |-> 0]
NoLegCall == [at |-> "none", qty |-> 0]

\* Where a check holds the lock.
Locked == {"locked", "requote", "positions", "placing", "placed", "notify"}

EpochRow == [opening : Int, peak : Int, x : Nat \ {0}, mode : Modes, born : Nat]

TypeOK ==
    /\ epoch \in EpochRow \cup {None}
    /\ remaining \in [Lots -> Nat] /\ realized \in [Lots -> Int]
    /\ leg \in [Lots -> {"ARMED", "FIRING", "PLACED", "FAILED"}]
    /\ mark \in [Lots -> Prices \cup {None}]
    /\ position \in [Lots -> Int] /\ working \in [Lots -> [Makers -> Nat]]
    /\ pushes \in Seq([lot : Lots, qty : Nat, price : FillPrices])
    /\ open \in BOOLEAN /\ token \in BOOLEAN
    /\ legCall \in [Lots -> [at : {"none", "sending", "arrived"}, qty : Nat]]
    /\ task \in [Checks -> [pc : {"idle", "quote", "lock"} \cup Locked,
                            epoch : EpochRow \cup {None}, token : BOOLEAN,
                            equity : Int, rows : [Lots -> Nat],
                            lot : Lots \cup {None}, qty : Nat]]
    /\ lock \in Checks \cup {None}
    /\ bound \in [{"arm", "rearm", "tick", "turn", "manual", "fail"} -> Nat]
    /\ calm \in [Checks -> BOOLEAN] /\ basis \in Int \cup {None}

Init ==
    /\ epoch = None
    /\ remaining = [l \in Lots |-> LotQty] /\ realized = [l \in Lots |-> 0]
    /\ leg = [l \in Lots |-> "ARMED"]
    /\ mark = [l \in Lots |-> None]
    /\ position = [l \in Lots |-> Sign(l) * LotQty]
    /\ working = [l \in Lots |-> [m \in Makers |-> 0]]
    /\ pushes = <<>>
    /\ open = TRUE /\ token = TRUE /\ legCall = [l \in Lots |-> NoLegCall]
    /\ task = [c \in Checks |-> Idle] /\ lock = None
    /\ bound = [b \in {"arm", "rearm", "tick", "turn", "manual", "fail"} |-> 0]
    /\ calm = [c \in Checks |-> FALSE] /\ basis = None

Counted(b, limit) == bound[b] < limit /\ bound' = [bound EXCEPT ![b] = @ + 1]

-----------------------------------------------------------------------------
(* Valuation.                                                              *)

LivePnl(l, qty, price) == (price - Entry) * qty * Sign(l)

TickedPnl(l) == IF mark[l] = None THEN 0 ELSE LivePnl(l, remaining[l], mark[l])

\* What the lots come to, one after the other.
SumOver(f) ==
    LET upTo[n \in 0..Len(LotSeq)] == IF n = 0 THEN 0 ELSE upTo[n - 1] + f[LotSeq[n]]
    IN upTo[Len(LotSeq)]

RealizedPnl == SumOver(realized)
TotalLivePnl == SumOver([l \in Lots |-> TickedPnl(l)])
Pnl == RealizedPnl + TotalLivePnl

IsOpen(l) == remaining[l] > 0
HasTicked(l) == mark[l] # None
RowsOf(lots) == [l \in Lots |-> IF l \in lots THEN remaining[l] ELSE 0]
OpenRows == RowsOf({l \in Lots : IsOpen(l)})
UntickedRows == RowsOf({l \in Lots : ~HasTicked(l)})

\* What a loop has still to come to, in the order of created_at.
Left(rows) == {l \in Lots : rows[l] > 0}
Before(k, l) == \E i, j \in DOMAIN LotSeq : i < j /\ LotSeq[i] = k /\ LotSeq[j] = l
First(lots) == CHOOSE l \in lots : \A k \in lots \ {l} : Before(l, k)

\* 100 * (reference - threshold), so that a percentage stays an integer.
Floor100(e, reference) ==
    IF e.mode = "PERCENTAGE" THEN (100 - e.x) * reference ELSE 100 * (reference - e.x)

IsBreached(equity, e) ==
    100 * equity <= Floor100(e, IF equity > e.opening THEN e.peak ELSE e.opening)

-----------------------------------------------------------------------------
(* A check.  Each operator below is a stretch of check_now that runs       *)
(* without an await; it states the next value of the check, of the lock    *)
(* and of what it writes.                                                  *)

Set(c, t) == task' = [task EXCEPT ![c] = t]

\* `async with' frees the lock however the block is left.
BrokenReleased(c) == lock
Released(c) == IF lock = c THEN None ELSE lock

Stop(c) == /\ Set(c, Idle)
           /\ lock' = Released(c)
           /\ UNCHANGED <<epoch, bound, calm, basis>>

BrokenRatchet(equity, e) == equity
Ratchet(equity, e) == Larger(equity, e.peak)

\* The equity is known: ratchet the peak, go for the lock on a breach.
Judge(c, t, equity) ==
    LET e == [t.epoch EXCEPT !.peak = Ratchet(equity, t.epoch)]
    IN /\ epoch' = IF e.peak # t.epoch.peak THEN e ELSE epoch
       /\ Set(c, IF IsBreached(equity, e) /\ t.token
                 THEN [t EXCEPT !.pc = "lock", !.rows = NoLots] ELSE Idle)
       /\ UNCHANGED <<lock, bound, calm, basis>>

BrokenInFlight(l) == leg[l] = "PLACED"
InFlight(l) == leg[l] \in {"FIRING", "PLACED"}

\* The reply of the leg's order was lost: its rule is FAILED, its order rests.
LostLeg(l) == leg[l] = "FAILED" /\ working[l].LEG > 0

\* The lots still to exit that have no exit of their own in flight.
Due(rows) == {l \in Left(rows) : ~InFlight(l)}

FreshEpoch(t) == [t.epoch EXCEPT !.opening = t.equity, !.peak = t.equity,
                                 !.born = bound.arm + bound.rearm + 1]

\* On to the next lot to exit, or to a fresh epoch when there is none.
Flatten(c, t, rows) ==
    LET l == First(Due(rows))
    IN IF Due(rows) # {}
       THEN /\ Set(c, [t EXCEPT !.pc = "positions", !.lot = l, !.qty = rows[l],
                                !.rows = [k \in Lots |-> IF Before(l, k) THEN rows[k] ELSE 0]])
            /\ calm' = [calm EXCEPT ![c] = /\ \A m \in {"WATCHER", "MANUAL"} : working[l][m] = 0
                                          /\ ~LostLeg(l)]
            /\ UNCHANGED <<epoch, lock, bound, basis>>
       ELSE /\ Set(c, [t EXCEPT !.pc = "notify", !.rows = NoLots, !.lot = None, !.qty = 0])
            /\ epoch' = FreshEpoch(t)
            /\ bound' = [bound EXCEPT !.rearm = @ + 1]
            /\ basis' = t.equity - t.epoch.opening
            /\ UNCHANGED <<lock, calm>>

\* Judged again under the lock.
Rejudge(c, t, equity) ==
    IF IsBreached(equity, t.epoch)
    THEN Flatten(c, [t EXCEPT !.equity = equity], OpenRows)
    ELSE Stop(c)

\* What a value computed before the lock, or under it, is for.
Verdict(c, t, pc, equity) ==
    IF pc = "quote" THEN Judge(c, t, equity) ELSE Rejudge(c, t, equity)

\* The synchronous start of _current_equity, and what follows if no lot needs a quote.
Value(c, t, pc) ==
    LET rows == IF t.token THEN UntickedRows ELSE NoLots
        equity == t.epoch.opening + Pnl
    IN IF Left(rows) = {}
       THEN Verdict(c, t, pc, equity)
       ELSE /\ Set(c, [t EXCEPT !.pc = pc, !.rows = rows, !.equity = equity])
            /\ UNCHANGED <<epoch, lock, bound, calm, basis>>

\* MaxRearms also ends the checks: the watcher arms an epoch it breaches at once.
BeginCheck(c) ==
    /\ task[c].pc = "idle" /\ open /\ epoch # None /\ bound.rearm < MaxRearms
    /\ Value(c, [Idle EXCEPT !.epoch = epoch, !.token = token], "quote")
    /\ UNCHANGED <<remaining, realized, leg, account, env>>

\* A quote is priced from the book or from a cache a few seconds old; None is
\* a quote without a book on the needed side.
Worth(l, qty) == {0} \cup {LivePnl(l, qty, p) : p \in Prices}

QuoteReply(c) ==
    /\ task[c].pc \in {"quote", "requote"}
    /\ LET l == First(Left(task[c].rows)) IN
       \E worth \in Worth(l, task[c].rows[l]) :
         LET t == [task[c] EXCEPT !.rows[l] = 0]
             equity == t.equity + worth
         IN IF Left(t.rows) # {}
            THEN /\ Set(c, [t EXCEPT !.equity = equity])
                 /\ UNCHANGED <<epoch, lock, bound, calm, basis>>
            ELSE Verdict(c, t, t.pc, equity)
    /\ UNCHANGED <<remaining, realized, leg, account, env>>

LockIsFree == lock = None

AcquireLock(c) ==
    /\ task[c].pc = "lock" /\ LockIsFree
    /\ lock' = c
    /\ task' = [task EXCEPT ![c].pc = "locked"]
    /\ UNCHANGED <<ledger, account, env, bound, past>>

\* Another check may have flattened, or the phone disarmed, while this one waited.
Reconsider(c) ==
    /\ task[c].pc = "locked"
    /\ IF epoch = None THEN Stop(c)
       ELSE Value(c, [task[c] EXCEPT !.epoch = epoch], "requote")
    /\ UNCHANGED <<remaining, realized, leg, account, env>>

\* BUY closes by selling what is held long, SELL by covering what is short.
Closeable(l) == Larger(Sign(l) * position[l], 0)

ExitQty(l, qty) == Smaller(qty, Closeable(l))

PositionsReply(c) ==
    /\ task[c].pc = "positions"
    /\ LET t == task[c]
           qty == ExitQty(t.lot, t.qty)
       IN IF qty <= 0 THEN Flatten(c, t, t.rows)
          ELSE /\ Set(c, [t EXCEPT !.pc = "placing", !.qty = qty])
               /\ UNCHANGED <<epoch, lock, bound, calm, basis>>
    /\ UNCHANGED <<remaining, realized, leg, account, env>>

\* An order of another maker for lot l: no check has the latest word on it.
Disturb(l) ==
    calm' = [c \in Checks |->
               calm[c] /\ ~(task[c].pc \in {"positions", "placing"} /\ task[c].lot = l)]

Rest(l, maker, qty) == working' = [working EXCEPT ![l][maker] = @ + qty]

\* The order has a tag of its own, so place_order finds no earlier one.
PlaceReaches(c) ==
    /\ task[c].pc = "placing"
    /\ Rest(task[c].lot, "WATCHER", task[c].qty)
    /\ task' = [task EXCEPT ![c].pc = "placed"]
    /\ UNCHANGED <<ledger, position, pushes, env, lock, bound, past>>

\* The reply, or its loss: either way the next lot is looked at.
PlaceReturns(c) ==
    /\ task[c].pc = "placed"
    /\ Flatten(c, task[c], task[c].rows)
    /\ UNCHANGED <<remaining, realized, leg, account, env>>

\* The order never reached the broker, which does not stop the flatten.
PlaceRefused(c) ==
    /\ task[c].pc = "placing"
    /\ Flatten(c, task[c], task[c].rows)
    /\ UNCHANGED <<remaining, realized, leg, account, env>>

\* A quote or the positions raise: the exception leaves check_now, the lock is freed.
CallRaises(c) ==
    /\ task[c].pc \in {"quote", "requote", "positions"}
    /\ Counted("fail", MaxFailures)
    /\ Set(c, Idle)
    /\ lock' = Released(c)
    /\ UNCHANGED <<ledger, account, env, past>>

\* The notification is stored and the lock released.
Notified(c) ==
    /\ task[c].pc = "notify"
    /\ Stop(c)
    /\ UNCHANGED <<remaining, realized, leg, account, env>>

-----------------------------------------------------------------------------
(* The phone, the lots' own legs, the broker, the pushes, the clock.       *)

Arm(a) ==
    /\ Counted("arm", MaxArms)
    /\ epoch' = [opening |-> a.opening, peak |-> a.peak, x |-> a.x, mode |-> a.mode,
                 born |-> bound.arm + bound.rearm + 1]
    /\ basis' = None
    /\ UNCHANGED <<remaining, realized, leg, account, env, checks, calm>>

Disarm ==
    /\ epoch # None
    /\ epoch' = None /\ basis' = None
    /\ UNCHANGED <<remaining, realized, leg, account, env, checks, bound, calm>>

\* The compare-and-set to FIRING and the start of _fire_rule, up to place_order.
LegFires(l) ==
    /\ l \in Bracketed /\ leg[l] = "ARMED"
    /\ open /\ token /\ HasTicked(l)
    /\ \/ /\ IsOpen(l)
          /\ leg' = [leg EXCEPT ![l] = "FIRING"]
          /\ legCall' = [legCall EXCEPT ![l] = [at |-> "sending", qty |-> remaining[l]]]
       \/ ~IsOpen(l) /\ leg' = [leg EXCEPT ![l] = "FAILED"] /\ UNCHANGED legCall
    /\ Disturb(l)
    /\ UNCHANGED <<epoch, remaining, realized, account, mark, open, token, checks, bound, basis>>

LegReaches(l) ==
    /\ legCall[l].at = "sending"
    /\ Rest(l, "LEG", legCall[l].qty)
    /\ legCall' = [legCall EXCEPT ![l].at = "arrived"]
    /\ UNCHANGED <<ledger, position, pushes, mark, open, token, checks, bound, past>>

\* place_order returns, or it raises: the order never arrived, or the reply was lost.
LegReturns(l) ==
    /\ \/ legCall[l].at = "arrived" /\ leg' = [leg EXCEPT ![l] = "PLACED"]
       \/ legCall[l].at \in {"sending", "arrived"} /\ leg' = [leg EXCEPT ![l] = "FAILED"]
    /\ legCall' = [legCall EXCEPT ![l] = NoLegCall]
    /\ UNCHANGED <<epoch, remaining, realized, account, mark, open, token, checks, bound, past>>

ManualExit(l) ==
    /\ Closeable(l) > 0 /\ Counted("manual", MaxManual)
    /\ Rest(l, "MANUAL", Closeable(l))
    /\ Disturb(l)
    /\ UNCHANGED <<ledger, position, pushes, env, checks, basis>>

Fill(l, maker, price) ==
    /\ working[l][maker] > 0
    /\ position' = [position EXCEPT ![l] = @ - Sign(l) * working[l][maker]]
    /\ pushes' = Append(pushes, [lot |-> l, qty |-> working[l][maker], price |-> price])
    /\ working' = [working EXCEPT ![l][maker] = 0]
    /\ Disturb(l)
    /\ UNCHANGED <<ledger, env, checks, bound, basis>>

BrokenApplied(fill) == fill.qty
Applied(fill) == Smaller(fill.qty, remaining[fill.lot])

\* A push of a fill is recorded, in any order.
Push(i) ==
    /\ i \in DOMAIN pushes
    /\ LET l == pushes[i].lot
           qty == Applied(pushes[i])
       IN /\ remaining' = [remaining EXCEPT ![l] = @ - qty]
          /\ realized' = [realized EXCEPT ![l] = @ + LivePnl(l, qty, pushes[i].price)]
    /\ pushes' = SubSeq(pushes, 1, i - 1) \o SubSeq(pushes, i + 1, Len(pushes))
    /\ UNCHANGED <<epoch, leg, position, working, env, checks, bound, past>>

Tick(l, price) ==
    /\ mark[l] # price /\ Counted("tick", MaxTicks)
    /\ mark' = [mark EXCEPT ![l] = price]
    /\ UNCHANGED <<ledger, account, open, token, legCall, checks, past>>

\* The market opens or closes, the user logs in or the token expires.
Turn == /\ Counted("turn", MaxTurns)
        /\ \/ open' = ~open /\ UNCHANGED token
           \/ token' = ~token /\ UNCHANGED open
        /\ UNCHANGED <<ledger, account, mark, legCall, checks, past>>

Restart ==
    /\ Counted("fail", MaxFailures)
    /\ mark' = [l \in Lots |-> None] /\ legCall' = [l \in Lots |-> NoLegCall]
    /\ task' = [c \in Checks |-> Idle] /\ lock' = None
    /\ calm' = [c \in Checks |-> FALSE]
    /\ UNCHANGED <<ledger, account, open, token, basis>>

\* What an await returns to.
Resumes(c) ==
    \/ QuoteReply(c) \/ AcquireLock(c) \/ Reconsider(c) \/ PositionsReply(c)
    \/ PlaceReaches(c) \/ PlaceReturns(c) \/ PlaceRefused(c) \/ Notified(c)

CheckMoves(c) == BeginCheck(c) \/ Resumes(c)

Next ==
    \/ \E c \in Checks : CheckMoves(c) \/ CallRaises(c)
    \/ \E a \in Arms : Arm(a)
    \/ Disarm
    \/ \E l \in Lots : LegFires(l) \/ LegReaches(l) \/ LegReturns(l) \/ ManualExit(l)
    \/ \E l \in Lots, m \in Makers, p \in FillPrices : Fill(l, m, p)
    \/ \E i \in 1..Len(pushes) : Push(i)
    \/ \E l \in Lots, p \in Prices : Tick(l, p)
    \/ Turn \/ Restart

Spec == Init /\ [][Next]_vars

\* Awaited calls answer, and the fallback loop starts a check again and again
\* (not every check: those that ticks start need not come again).
Fairness == /\ WF_vars(\E c \in Checks : BeginCheck(c))
            /\ \A c \in Checks : WF_vars(Resumes(c))
FairSpec == Spec /\ Fairness

-----------------------------------------------------------------------------
(* Properties.                                                             *)

Outstanding(l) == working[l].WATCHER + working[l].LEG + working[l].MANUAL

\* An exit the watcher sends never takes a position past flat, whatever the
\* ledger believes, as long as the watcher found no exit of its own or of the
\* user resting, nor one of a leg whose reply was lost (its rule is FAILED, so
\* _lot_has_exit_in_flight does not count it), and no order of another touched
\* the lot since it looked (flatten_open_lots).
WatcherExitsWithinPosition ==
    [][\A c \in Checks :
          (task[c].pc = "placing" /\ task'[c].pc = "placed" /\ calm[c])
          => Outstanding(task[c].lot)' <= Closeable(task[c].lot)]_vars

\* The watcher only ever raises the peak of the epoch that is there, or arms a
\* fresh one: a peak falls, or an epoch disarmed or replaced comes back, only
\* when a check that suspended on a quote writes back what it had read before
\* (the ratchet in check_now).
EpochGoesBackOnlyAfterAQuote ==
    [][(epoch' # epoch /\ epoch' # None /\ bound'.arm = bound.arm)
       => \/ epoch # None /\ epoch'.born = epoch.born /\ epoch'.peak > epoch.peak
          \/ bound'.rearm > bound.rearm
          \/ \E c \in Checks : task[c].pc = "quote" /\ task'[c] # task[c]]_vars

\* A position priced by ticks that stays in breach is flattened and the epoch
\* armed afresh: the loop retries whatever made the last check give up.
Enforced == /\ open /\ token /\ epoch # None
            /\ \A l \in Lots : IsOpen(l) => HasTicked(l)
            /\ IsBreached(epoch.opening + Pnl, epoch)
LastingBreachIsAnswered ==
    \A n \in 0..MaxRearms - 1 :
        (Enforced /\ bound.rearm = n) ~> (~Enforced \/ bound.rearm > n)

\* After a square-off "a fresh epoch has been auto-armed at the post-flatten
\* equity": the next one needs a further loss (check_now).
SquareOffNeedsAFurtherLoss ==
    [][\A c \in Checks :
          (/\ task[c].pc \notin {"positions", "placing", "placed", "notify"}
           /\ task'[c].pc \in {"positions", "notify"}
           /\ basis # None /\ task[c].pc = "locked")
          => Pnl < basis]_vars

=============================================================================
