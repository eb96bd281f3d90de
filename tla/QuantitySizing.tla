--------------------------- MODULE QuantitySizing --------------------------
(***************************************************************************)
(* The starting quantity of the phone's trading panel: whole lots, sized   *)
(* by capital, by risk at a stop distance, by ATR, by implied volatility   *)
(* or by half Kelly, never more than the allotted capital affords beyond   *)
(* one lot.  Amounts are integers; what the code keeps as a fraction is    *)
(* carried as a numerator over 100 or over the product named beside it.    *)
(***************************************************************************)
EXTENDS Integers

CONSTANTS
    Requests,   \* the inputs of default_quantity
    NoValue     \* None: an input that is not there, a size that cannot be told

SizingModes == {"FIXED", "CAPITAL_BASED", "RISK_BASED", "ATR_BASED", "IV_BASED", "KELLY"}
Amounts == Nat
Known(S) == S \cup {NoValue}

Request ==
    [held : Int, mode : SizingModes, capital : Known(Amounts), percent : Nat, reserve : Amounts,
     price : Known(Amounts), lot : Int, lots : Int, risk : Int, flat : BOOLEAN, stop : Int,
     atr : Known(Amounts), delta : Known(Int), iv : Known(Amounts), multiplier : Nat,
     trades : Nat, wins : Known(Int), won : Known(Nat), lost : Known(Int)]

ASSUME NoValueAssumption == NoValue \notin Int
ASSUME RequestsAssumption == Requests \subseteq Request

VARIABLE sized   \* the request last answered, and the quantity

AtLeast(n, floor) == IF n < floor THEN floor ELSE n
AtMost(n, cap) == IF n > cap THEN cap ELSE n

\* The capital set aside for a trade, times 100.
Allotted(r) == AtLeast(r.capital * r.percent - 100 * r.reserve, 0)

SafeLot(r) == AtLeast(r.lot, 1)

\* compute_max_affordable_quantity in lots; NoValue without price or capital.
AffordableLots(r) ==
    IF r.price = NoValue \/ r.price = 0 \/ r.capital = NoValue THEN NoValue
    ELSE Allotted(r) \div (100 * r.price * SafeLot(r))

Capped(lots, affordable) ==
    IF affordable = NoValue THEN lots ELSE AtMost(lots, affordable)

\* _size_by_per_lot_risk: the lots whose loss at the stop stays in the budget,
\* one at least, capped by what is affordable, one at least.  The budget and
\* the distance per unit are over the same denominator.
BrokenSizeByRisk(r, budget, distance) ==
    AtLeast(Capped(AtLeast(budget \div distance, 1), AffordableLots(r)), 1) * SafeLot(r)
SizeByRisk(r, budget, distance) ==
    LET lots == IF budget > 0 THEN budget \div (distance * SafeLot(r)) ELSE 0
    IN AtLeast(Capped(AtLeast(lots, 1), AffordableLots(r)), 1) * SafeLot(r)

\* The distance to the stop per unit, times 100.
RiskDistance(r) == IF r.flat THEN 100 * r.stop ELSE r.price * r.stop
AtrDistance(r) == r.atr * (IF r.delta < 0 THEN -r.delta ELSE r.delta) * r.multiplier
\* The day's move is price * iv% over the square root of 365, here 19.
IvDistance(r) == (r.price * r.iv * r.multiplier) \div 19

Priced(r) == r.price # NoValue /\ r.price > 0

\* The fallback of every mode whose inputs are not there.
OneLot(r) == SafeLot(r)

SizeByStop(r, budget) ==
    IF Priced(r) /\ RiskDistance(r) > 0 THEN SizeByRisk(r, budget, RiskDistance(r)) ELSE OneLot(r)

CapitalBased(r) ==
    LET lots == AffordableLots(r)
    IN IF lots = NoValue \/ lots = 0 THEN OneLot(r) ELSE lots * SafeLot(r)

AtrBased(r) ==
    IF /\ Priced(r) /\ r.atr # NoValue /\ r.delta # NoValue
       /\ AtrDistance(r) > 0
    THEN SizeByRisk(r, 100 * r.risk, AtrDistance(r)) ELSE OneLot(r)

IvBased(r) ==
    IF Priced(r) /\ r.iv # NoValue /\ IvDistance(r) > 0
    THEN SizeByRisk(r, 100 * r.risk, IvDistance(r)) ELSE OneLot(r)

\* Half of W - (1 - W) * loss / win, between 0 and 25, in percent of the capital.
KellyPercent(r) ==
    LET w == AtMost(AtLeast(r.wins, 0), 100)
        loss == IF r.lost < 0 THEN -r.lost ELSE r.lost
        half == (w * r.won - (100 - w) * loss) \div (2 * r.won)
    IN AtMost(AtLeast(half, 0), 25)

\* The win/loss ratio is a divisor: without an average win the code raises.
KellyRaises(r) ==
    /\ r.trades > 0 /\ r.capital # NoValue /\ r.capital > 0
    /\ r.lost # NoValue /\ r.lost # 0 /\ r.wins # NoValue
    /\ r.won \in {NoValue, 0}

KellyBased(r) ==
    IF \/ r.trades = 0 \/ r.capital = NoValue \/ r.capital = 0
       \/ r.lost = NoValue \/ r.lost = 0 \/ r.wins = NoValue
    THEN OneLot(r)
    ELSE IF KellyRaises(r) THEN NoValue
    ELSE SizeByStop(r, KellyPercent(r) * r.capital)

DefaultQuantity(r) ==
    IF r.held > 0 THEN r.held
    ELSE CASE r.mode = "CAPITAL_BASED" -> CapitalBased(r)
           [] r.mode = "RISK_BASED" -> SizeByStop(r, 100 * r.risk)
           [] r.mode = "ATR_BASED" -> AtrBased(r)
           [] r.mode = "IV_BASED" -> IvBased(r)
           [] r.mode = "KELLY" -> KellyBased(r)
           [] OTHER -> AtLeast(r.lots, 1) * SafeLot(r)

NothingSized == [of |-> NoValue, quantity |-> NoValue]

SizingInit == sized = NothingSized

Ask(r) == sized' = [of |-> r, quantity |-> DefaultQuantity(r)]

\* A call keeps nothing, so a behaviour is one call.
SizingNext == sized = NothingSized /\ \E r \in Requests : Ask(r)

SizingSpec == SizingInit /\ [][SizingNext]_sized

-----------------------------------------------------------------------------
(* Properties of the quantity last given, when the call did not raise.     *)

Answered == sized # NothingSized /\ sized.quantity # NoValue

\* An open position is offered back as it is, so that the opposite order
\* flattens it; anything else is one or more whole lots (default_quantity).
WholeLots ==
    Answered => LET r == sized.of q == sized.quantity IN
        IF r.held > 0 THEN q = r.held ELSE q >= SafeLot(r) /\ q % SafeLot(r) = 0

\* "A risk budget alone doesn't guarantee the capital": beyond one lot the
\* sized modes never cost more than the allotted capital.
WithinCapital ==
    Answered => LET r == sized.of q == sized.quantity IN
        (/\ r.mode # "FIXED" /\ r.held <= 0 /\ q > SafeLot(r)
         /\ r.price # NoValue /\ r.capital # NoValue)
        => 100 * r.price * q <= r.capital * r.percent - 100 * r.reserve

\* Beyond one lot, the loss at the stop stays within the risk of the trade.
WithinRisk ==
    Answered => LET r == sized.of q == sized.quantity IN
        (r.held <= 0 /\ q > SafeLot(r))
        => /\ r.mode = "RISK_BASED" => RiskDistance(r) * q <= 100 * r.risk
           /\ r.mode = "ATR_BASED" => AtrDistance(r) * q <= 100 * r.risk
           /\ r.mode = "IV_BASED" => IvDistance(r) * q <= 100 * r.risk
           /\ r.mode = "KELLY" => RiskDistance(r) * q <= 25 * r.capital

\* Whatever the mode and whichever inputs are missing, zero or negative, the
\* quantity is tradable and keeps to the capital and to the risk (the three above).
QuantityKeepsItsLimits == WholeLots /\ WithinCapital /\ WithinRisk
=============================================================================
