------------------------------ MODULE MCServices ------------------------------
(* The services around the order engine, each on a small instance of its   *)
(* own.  They share no state: a behaviour is one of one of them.           *)
EXTENDS StreamSessions, LiveCandle, OrderFlow, QuantitySizing,
        Journal, DailyLogin, AccountEstimate, Notifications, Snapshots, TLC
CONSTANTS
    Services,                      \* those a run checks
    link1, link2, view,            \* WebSockets and what they subscribe to
    buy, sell1, sell2,             \* the day's fills
    one, other                     \* two alike: requests that correct the ledger, workers
VARIABLE active

-----------------------------------------------------------------------------
(* Instances. *)

OneView == {{view}}

\* The exchange's own candles of two of the minutes.
Flat(ts, low, high) == [ts |-> ts, open |-> high, high |-> high, low |-> low, close |-> low]
SomeOwnCandles == {Flat(2, 2, 2), Flat(5, 1, 2)}

SomeBooks ==
    {[bid |-> 10, bidQty |-> q, ask |-> 10 + s, askQty |-> p] :
        q \in {2, 10}, p \in {2, 10}, s \in {1, 2}}
    \cup {[bid |-> 11, bidQty |-> 10, ask |-> 12, askQty |-> 10]}

\* Every mode with its inputs missing, at zero, at and beyond the limits.
Usual == [held |-> 0, mode |-> "FIXED", capital |-> 1000, percent |-> 80, reserve |-> 10,
          price |-> 10, lot |-> 3, lots |-> 0, risk |-> 50, flat |-> TRUE, stop |-> 4, atr |-> 5,
          delta |-> -40, iv |-> 30, multiplier |-> 2, trades |-> 3, wins |-> 60, won |-> 90,
          lost |-> -50]
SomeRequests ==
    {[Usual EXCEPT !.mode = m, !.held = h, !.lots = l] :
        m \in SizingModes, h \in {-3, 0, 5}, l \in {0, 2}}
    \cup {[Usual EXCEPT !.mode = m, !.capital = c, !.price = p, !.lot = l, !.reserve = v,
                        !.risk = k] :
        m \in SizingModes \ {"FIXED"}, c \in {NoValue, 0, 90, 5000}, p \in {NoValue, 0, 7},
        l \in {0, 1, 3}, v \in {0, 30}, k \in {-5, 10, 200}}
    \cup {[Usual EXCEPT !.mode = "RISK_BASED", !.flat = f, !.stop = s, !.risk = k] :
        f \in BOOLEAN, s \in {-2, 0, 3, 11}, k \in {0, 30, 100}}
    \cup {[Usual EXCEPT !.mode = m, !.atr = a, !.delta = d, !.iv = i] :
        m \in {"ATR_BASED", "IV_BASED"}, a \in {NoValue, 0, 3}, d \in {NoValue, -50, 0, 80},
        i \in {NoValue, 0, 40}}
    \cup {[Usual EXCEPT !.mode = "KELLY", !.trades = t, !.wins = w, !.won = g, !.lost = b,
                        !.flat = f] :
        t \in {0, 3}, w \in {NoValue, -5, 40, 120}, g \in {0, 30, 200},
        b \in {NoValue, 0, -20, 100}, f \in BOOLEAN}

OneBuyTwoSales == <<buy, sell1, sell2>>
UnitFills == [f \in {buy, sell1, sell2} |-> IF f = buy THEN 1 ELSE -1]
LikeTheFirst == [m \in Entries |-> {buy, sell1}]
LikeTheSecond == [m \in Entries |-> {buy, sell2}]

OffOrCritical == [p \in {"off", "critical"} |-> IF p = "off" THEN {} ELSE {"critical"}]

-----------------------------------------------------------------------------
estimateAndLog == <<estimateVars, notificationVars>>
marketVars == <<streamVars, candleVars, flowVars, sized>>
recordVars == <<journalVars, loginVars, estimateAndLog, snapshotVars>>

ServicesInit ==
    /\ active \in Services
    /\ StreamInit /\ CandleInit /\ FlowInit /\ SizingInit
    /\ JournalInit /\ LoginInit /\ EstimateInit /\ NotificationInit /\ SnapshotInit
    /\ active # "login" => hours = "day"
    /\ active # "notification" => device.preference = "off"

MarketNext ==
    /\ UNCHANGED recordVars
    /\ \/ active = "stream" /\ StreamNext /\ UNCHANGED <<candleVars, flowVars, sized>>
       \/ active = "candle" /\ CandleNext /\ UNCHANGED <<streamVars, flowVars, sized>>
       \/ active = "flow" /\ FlowNext /\ UNCHANGED <<streamVars, candleVars, sized>>
       \/ active = "sizing" /\ SizingNext /\ UNCHANGED <<streamVars, candleVars, flowVars>>

RecordsNext ==
    /\ UNCHANGED marketVars
    /\ \/ active = "journal" /\ JournalNext
          /\ UNCHANGED <<loginVars, estimateAndLog, snapshotVars>>
       \/ active = "login" /\ LoginNext
          /\ UNCHANGED <<journalVars, estimateAndLog, snapshotVars>>
       \/ active = "estimate" /\ EstimateNext
          /\ UNCHANGED <<journalVars, loginVars, notificationVars, snapshotVars>>
       \/ active = "notification" /\ NotificationNext
          /\ UNCHANGED <<journalVars, loginVars, estimateVars, snapshotVars>>
       \/ \E h \in Histories : active = h /\ HistoryNext(h)
          /\ UNCHANGED <<journalVars, loginVars, estimateAndLog>>

ServicesNext == UNCHANGED active /\ (MarketNext \/ RecordsNext)
ServicesSpec == ServicesInit /\ [][ServicesNext]_<<active, marketVars, recordVars>>

\* Bound: of the pass and the corrections two meet at a time, or a pass meets a note
\* or a manual entry in its thread.
JournalMeetings ==
    LET atWork == {r \in Rebuilders : work[r].step # "idle"} IN
    \/ request.op = "none" /\ Cardinality(atWork) <= 2
    \/ atWork \subseteq {"pass"}

Alike == Permutations({one, other})

\* The types of them all (each module's own invariant).
ServicesTypeOK ==
    /\ StreamTypeOK /\ CandleTypeOK /\ FlowTypeOK /\ JournalTypeOK /\ LoginTypeOK
    /\ EstimateTypeOK /\ SnapshotTypeOK /\ NotificationTypeOK
=============================================================================
