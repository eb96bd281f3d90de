------------------------------ MODULE OrderFlow ----------------------------
(***************************************************************************)
(* Order flow of one instrument from the top of its book: the rolling      *)
(* order-flow imbalance, the spread's trend, and two heuristics that count *)
(* over many ticks, for hidden orders (a displayed quantity that drains    *)
(* and refills at one price) and for absorption (sustained flow that does  *)
(* not move the price).  Sizes of windows are CONSTANTS; fractions are     *)
(* over 100.                                                               *)
(***************************************************************************)
EXTENDS Integers, Sequences

CONSTANTS
    Books,         \* tops of book a tick may carry
    OfiWindow,     \* ticks in the rolling sum
    SpreadWindow,  \* spreads kept for the trend
    MinSamples,    \* spreads before there is a trend
    Refills,       \* refills that make an iceberg
    Threshold,     \* pressure that counts for absorption
    Sustained,     \* ticks of it that make an absorption
    MaxBooks,      \* bound on ticks
    NoBook         \* no tick yet, no anchor

Sides == {"bid", "ask"}
Book == [bid : Nat, bidQty : Nat, ask : Nat, askQty : Nat]

ASSUME BooksAssumption == Books \subseteq Book /\ NoBook \notin Book /\ NoBook \notin Nat
ASSUME WindowsAssumption == /\ OfiWindow \in Nat \ {0} /\ SpreadWindow \in Nat \ {0}
                            /\ MinSamples \in Nat \ {0} /\ Refills \in Nat \ {0}
                            /\ Threshold \in Nat \ {0} /\ Sustained \in Nat \ {0}
                            /\ MaxBooks \in Nat

VARIABLES
    top,        \* the previous top of book
    ofi,        \* contributions in the window
    spreads,    \* the last spreads
    imbalance,  \* smoothed depth imbalance, in thousandths
    iceberg,    \* a tracker per side
    absorption, \* bullish on the bid, bearish on the ask
    seen        \* history: every book, oldest first

flowVars == <<top, ofi, spreads, imbalance, iceberg, absorption, seen>>

FlowTypeOK ==
    /\ top \in Book \cup {NoBook}
    /\ ofi \in Seq(Int) /\ Len(ofi) <= OfiWindow
    /\ spreads \in Seq(Int) /\ Len(spreads) <= SpreadWindow
    /\ imbalance \in -1000..1000
    /\ iceberg \in [Sides -> [anchor : Nat \cup {NoBook}, peak : Nat,
                              awaiting : BOOLEAN, refills : Nat]]
    /\ absorption \in [Sides -> [anchor : Nat \cup {NoBook}, ticks : Nat]]
    /\ seen \in Seq(Book)

FlowInit ==
    /\ top = NoBook /\ ofi = <<>> /\ spreads = <<>> /\ imbalance = 0
    /\ iceberg = [s \in Sides |-> [anchor |-> NoBook, peak |-> 0,
                                   awaiting |-> FALSE, refills |-> 0]]
    /\ absorption = [s \in Sides |-> [anchor |-> NoBook, ticks |-> 0]]
    /\ seen = <<>>

Price(b, s) == IF s = "bid" THEN b.bid ELSE b.ask
Quantity(b, s) == IF s = "bid" THEN b.bidQty ELSE b.askQty
Total(s) ==
    LET upTo[n \in 0..Len(s)] == IF n = 0 THEN 0 ELSE upTo[n - 1] + s[n]
    IN upTo[Len(s)]

\* A window keeps its last entries.
Slide(s, x, size) ==
    LET longer == Append(s, x)
    IN IF Len(longer) > size THEN Tail(longer) ELSE longer

\* _compute_ofi_contribution.
BidContribution(was, now) ==
    CASE now.bid > was.bid -> now.bidQty
      [] now.bid = was.bid -> now.bidQty - was.bidQty
      [] OTHER -> -was.bidQty

AskContribution(was, now) ==
    CASE now.ask > was.ask -> -was.askQty
      [] now.ask = was.ask -> now.askQty - was.askQty
      [] OTHER -> was.askQty

Contribution(was, now) ==
    IF was = NoBook THEN 0 ELSE BidContribution(was, now) - AskContribution(was, now)

RawImbalance(b) ==
    IF b.bidQty + b.askQty = 0 THEN 0
    ELSE (1000 * (b.bidQty - b.askQty)) \div (b.bidQty + b.askQty)

\* _IcebergSideTracker.on_update: drained to 60% of the peak, refilled to 85%.
BrokenIcebergUpdate(t, price, qty) ==
    IF ~t.awaiting
    THEN [anchor |-> price, peak |-> IF qty > t.peak THEN qty ELSE t.peak,
          awaiting |-> 100 * qty <= 60 * t.peak, refills |-> t.refills]
    ELSE IF 100 * qty >= 85 * t.peak
    THEN [t EXCEPT !.refills = @ + 1, !.awaiting = FALSE] ELSE t
IcebergUpdate(t, price, qty) ==
    IF price # t.anchor
    THEN [anchor |-> price, peak |-> qty, awaiting |-> FALSE, refills |-> 0]
    ELSE IF ~t.awaiting
    THEN IF 100 * qty <= 60 * t.peak THEN [t EXCEPT !.awaiting = TRUE]
         ELSE [t EXCEPT !.peak = IF qty > @ THEN qty ELSE @]
    ELSE IF 100 * qty >= 85 * t.peak
    THEN [t EXCEPT !.refills = @ + 1, !.awaiting = FALSE] ELSE t

IcebergSuspected(s) == iceberg[s].refills >= Refills

\* Selling pressure should push the bid down, buying pressure the ask up.
Favour(s) == IF s = "bid" THEN -1 ELSE 1

\* _AbsorptionTracker.on_update.
AbsorptionUpdate(t, s, flow, price) ==
    IF flow * Favour(s) < Threshold THEN [anchor |-> NoBook, ticks |-> 0]
    ELSE [anchor |-> price,
          ticks |-> IF t.anchor = NoBook THEN 1
                    ELSE IF (price - t.anchor) * Favour(s) > 0 THEN 0
                    ELSE t.ticks + 1]

AbsorptionSuspected(s) == absorption[s].ticks >= Sustained

\* on_tick with a book; a tick without depth changes nothing.
BookTick(b) ==
    /\ Len(seen) < MaxBooks
    /\ ofi' = Slide(ofi, Contribution(top, b), OfiWindow)
    /\ top' = b
    /\ spreads' = Slide(spreads, b.ask - b.bid, SpreadWindow)
    /\ imbalance' = (3 * RawImbalance(b) + 7 * imbalance) \div 10
    /\ iceberg' = [s \in Sides |-> IcebergUpdate(iceberg[s], Price(b, s), Quantity(b, s))]
    /\ absorption' = [s \in Sides |->
                        AbsorptionUpdate(absorption[s], s, Total(ofi'), Price(b, s))]
    /\ seen' = Append(seen, b)

\* _spread_trend: the newest third of the spreads against the oldest, 10% apart.
Trend(s) ==
    LET third == IF Len(s) \div 3 < 1 THEN 1 ELSE Len(s) \div 3
        oldest == Total(SubSeq(s, 1, third))
        newest == Total(SubSeq(s, Len(s) - third + 1, Len(s)))
    IN IF Len(s) < MinSamples \/ oldest <= 0 THEN "STABLE"
       ELSE IF 10 * (newest - oldest) > oldest THEN "WIDENING"
       ELSE IF 10 * (newest - oldest) < -oldest THEN "NARROWING" ELSE "STABLE"

FlowNext == \E b \in Books : BookTick(b)

FlowSpec == FlowInit /\ [][FlowNext]_flowVars

-----------------------------------------------------------------------------
(* Properties.                                                             *)

Latest(n) == SubSeq(seen, Len(seen) - n + 1, Len(seen))

\* While neither price moves, the rolling imbalance is what the two displayed
\* quantities gained over the window: contributions neither drift nor leak.
OfiTelescopes ==
    LET n == Len(ofi) books == Latest(n + 1)
    IN (/\ Len(seen) > n
        /\ \A i \in 1..n : books[i].bid = books[i+1].bid /\ books[i].ask = books[i+1].ask)
       => Total(ofi) = (books[n+1].bidQty - books[1].bidQty)
                       - (books[n+1].askQty - books[1].askQty)

\* An iceberg is suspected only when the price stood for a drain and a refill
\* per refill counted (_IcebergSideTracker).
IcebergNeedsItsRefills ==
    \A s \in Sides : IcebergSuspected(s) =>
        LET n == 2 * Refills + 1
        IN Len(seen) >= n /\ \A i, j \in 1..n : Price(Latest(n)[i], s) = Price(Latest(n)[j], s)

\* The book is never said to absorb buying and selling at once.
OneAbsorptionAtMost == ~(AbsorptionSuspected("bid") /\ AbsorptionSuspected("ask"))

\* A spread that only grew is never said to narrow, one that only shrank never
\* to widen (_spread_trend compares thirds, which overlap in a short history).
TrendFollowsTheSpread ==
    LET n == Len(spreads) IN
    /\ (\A i \in 1..n - 1 : spreads[i] <= spreads[i+1]) => Trend(spreads) # "NARROWING"
    /\ (\A i \in 1..n - 1 : spreads[i] >= spreads[i+1]) => Trend(spreads) # "WIDENING"

\* Every signal follows from the books seen, however windows slide and counters
\* are reset (the four above).
SignalsFollowTheBooks ==
    OfiTelescopes /\ IcebergNeedsItsRefills /\ OneAbsorptionAtMost /\ TrendFollowsTheSpread
=============================================================================
