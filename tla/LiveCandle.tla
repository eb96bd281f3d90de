----------------------------- MODULE LiveCandle ----------------------------
(***************************************************************************)
(* One-minute candles built from feed ticks.  A tick of a traded           *)
(* instrument has a price and the time of its trade, and may carry the     *)
(* exchange's own candle, which lags; a tick of an index has only that     *)
(* candle.  The candle of the minute that ended is handed to a thread that *)
(* writes it to the cache, and chart requests write what the REST API      *)
(* returned when they were sent.  Time is counted in ticks of Minute.      *)
(***************************************************************************)
EXTENDS Integers, FiniteSets

CONSTANTS
    Traded,         \* instruments whose ticks carry trades
    Indices,        \* instruments whose ticks carry only the exchange's candle
    Minute,         \* time units per minute
    TradeTimes,     \* times of trades
    TradePrices,    \* prices of trades
    OwnCandles,     \* candles the exchange may attach
    MaxFeedTicks,   \* bound on ticks
    MaxCharts,      \* bound on chart requests
    NoCandle        \* None

Instruments == Traded \cup Indices
Bucket(t) == t - (t % Minute)

CandleRecord == [ts : Nat, open : Nat, high : Nat, low : Nat, close : Nat]

\* An instrument's feed carries trades or it does not.
ASSUME InstrumentsAssumption == Traded \cap Indices = {}
ASSUME MinuteAssumption == Minute \in Nat \ {0} /\ MaxFeedTicks \in Nat /\ MaxCharts \in Nat
ASSUME TradesAssumption == TradeTimes \subseteq Nat \ {0} /\ TradePrices \subseteq Nat \ {0}
ASSUME OwnCandlesAssumption ==
    /\ NoCandle \notin CandleRecord
    /\ OwnCandles \subseteq
         {c \in CandleRecord : c.low <= c.open /\ c.open <= c.high
                               /\ c.low <= c.close /\ c.close <= c.high}

VARIABLES
    current,   \* LiveCandleBuilder._current
    saving,    \* completed candles on their way to a thread
    cache,     \* candle_cache rows of the one-minute series, by instrument and time
    charts,    \* rows the REST API returned to requests that have not saved them yet
    feedTicks, \* counters of the bounds
    asked,
    tradedAt,    \* history: prices traded in each minute
    orderly    \* history: the times of an instrument never went back

candleVars == <<current, saving, cache, charts, feedTicks, asked, tradedAt, orderly>>

BiggerOf(a, b) == IF a < b THEN b ELSE a
LesserOf(a, b) == IF a < b THEN a ELSE b
Minutes == {Bucket(t) : t \in TradeTimes} \cup {c.ts : c \in OwnCandles}

CandleTypeOK ==
    /\ current \in [Instruments -> CandleRecord \cup {NoCandle}]
    /\ saving \subseteq Instruments \X CandleRecord
    /\ cache \in [Instruments -> [Minutes -> CandleRecord \cup {NoCandle}]]
    /\ charts \subseteq Traded \X CandleRecord
    /\ feedTicks \in 0..MaxFeedTicks /\ asked \in 0..MaxCharts
    /\ tradedAt \in [Traded -> [Minutes -> SUBSET TradePrices]]
    /\ orderly \in [Instruments -> BOOLEAN]

CandleInit ==
    /\ current = [k \in Instruments |-> NoCandle]
    /\ saving = {}
    /\ cache = [k \in Instruments |-> [m \in Minutes |-> NoCandle]]
    /\ charts = {}
    /\ feedTicks = 0 /\ asked = 0
    /\ tradedAt = [k \in Traded |-> [m \in Minutes |-> {}]]
    /\ orderly = [k \in Instruments |-> TRUE]

-----------------------------------------------------------------------------
\* merge_live_one_minute_candle for a tick with a price and a trade time: the
\* exchange's candle counts only if it is of the same minute.
Supplied(own, bucket) ==
    IF own = NoCandle \/ Bucket(own.ts) # bucket THEN NoCandle ELSE own

BrokenExtend(base, price) == [base EXCEPT !.close = price]
Extend(base, price) ==
    [base EXCEPT !.high = BiggerOf(@, price), !.low = LesserOf(@, price), !.close = price]

Merge(previous, price, time, own) ==
    LET bucket == Bucket(time)
        supplied == Supplied(own, bucket)
    IN IF previous # NoCandle /\ previous.ts = bucket
       THEN LET base == IF supplied = NoCandle THEN previous
                        ELSE [previous EXCEPT !.high = BiggerOf(@, supplied.high),
                                              !.low = LesserOf(@, supplied.low)]
            IN Extend(base, price)
       ELSE IF supplied # NoCandle
       THEN Extend([supplied EXCEPT !.ts = bucket], price)
       ELSE [ts |-> bucket, open |-> price, high |-> price, low |-> price, close |-> price]

BrokenCompletes(previous, updated) == previous # NoCandle
Completes(previous, updated) == previous # NoCandle /\ previous.ts # updated.ts

\* handle_tick, and the save of the completed candle it starts.
Handle(k, updated) ==
    /\ feedTicks < MaxFeedTicks /\ feedTicks' = feedTicks + 1
    /\ saving' = IF Completes(current[k], updated) THEN saving \cup {<<k, current[k]>>}
                 ELSE saving
    /\ orderly' = [orderly EXCEPT ![k] =
                     @ /\ (current[k] = NoCandle \/ current[k].ts <= updated.ts)]
    /\ current' = [current EXCEPT ![k] = updated]
    /\ UNCHANGED <<cache, charts, asked>>

TradeTick(k, price, time, own) ==
    /\ Handle(k, Merge(current[k], price, time, own))
    /\ tradedAt' = [tradedAt EXCEPT ![k][Bucket(time)] = @ \cup {price}]

\* Without a price or a trade time the exchange's candle stands as it is.
IndexTick(k, own) ==
    /\ Handle(k, own)
    /\ UNCHANGED tradedAt

\* One thread per completed candle, in no order.
SaveCompleted(k, row) ==
    /\ <<k, row>> \in saving
    /\ cache' = [cache EXCEPT ![k][row.ts] = row]
    /\ saving' = saving \ {<<k, row>>}
    /\ UNCHANGED <<current, charts, feedTicks, asked, tradedAt, orderly>>

\* The REST API answers a chart request with what has been traded so far.
RestCandle(k, m) ==
    LET prices == tradedAt[k][m]
        high == CHOOSE p \in prices : \A q \in prices : q <= p
        low  == CHOOSE p \in prices : \A q \in prices : p <= q
    IN [ts |-> m, open |-> low, high |-> high, low |-> low, close |-> high]

ChartReply(k, m) ==
    /\ asked < MaxCharts /\ asked' = asked + 1
    /\ tradedAt[k][m] # {}
    /\ charts' = charts \cup {<<k, RestCandle(k, m)>>}
    /\ UNCHANGED <<current, saving, cache, feedTicks, tradedAt, orderly>>

ChartSaves(k, row) ==
    /\ <<k, row>> \in charts
    /\ cache' = [cache EXCEPT ![k][row.ts] = row]
    /\ charts' = charts \ {<<k, row>>}
    /\ UNCHANGED <<current, saving, feedTicks, asked, tradedAt, orderly>>

CandleNext ==
    \/ \E k \in Traded, p \in TradePrices, t \in TradeTimes, own \in OwnCandles \cup {NoCandle} :
          TradeTick(k, p, t, own)
    \/ \E k \in Indices, own \in OwnCandles : IndexTick(k, own)
    \/ \E s \in saving : SaveCompleted(s[1], s[2])
    \/ \E k \in Traded, m \in Minutes : ChartReply(k, m)
    \/ \E s \in charts : ChartSaves(s[1], s[2])

CandleSpec == CandleInit /\ [][CandleNext]_candleVars

-----------------------------------------------------------------------------
(* Properties.                                                             *)

Covers(row, k) == \A p \in tradedAt[k][row.ts] : row.low <= p /\ p <= row.high

\* Every price of a minute lies within the candle of that minute that is being
\* built or saved, as long as the trades of the instrument came in order
\* (merge_live_one_minute_candle takes the lagging candle of the exchange as a base).
CandleCoversItsMinute ==
    \A k \in Traded : orderly[k] =>
        /\ current[k] # NoCandle => Covers(current[k], k)
        /\ \A s \in saving : s[1] = k => Covers(s[2], k)

\* Open and close lie between low and high in every candle, late trades or not.
CandlesAreSane ==
    \A k \in Instruments :
        \A row \in ({current[k]} \cup {s[2] : s \in {t \in saving : t[1] = k}}) \ {NoCandle} :
            row.low <= row.open /\ row.open <= row.high
            /\ row.low <= row.close /\ row.close <= row.high

\* The minute being built is never among those saved: a bar is written when it
\* is over, once, as long as the trades came in order (handle_tick).
SavedMinutesAreOver ==
    \A k \in Instruments : orderly[k] =>
        \A s \in saving : s[1] = k => s[2].ts < current[k].ts

\* A bar, being built or saved, says what was traded in its minute (the three above).
BarsAreTrue == CandleCoversItsMinute /\ CandlesAreSane /\ SavedMinutesAreOver

\* A row of the cache that has all the trades of its minute is replaced by one
\* that leaves some out only by a chart request, which saves what the API had
\* returned when it was asked (candle_service.py, _persist_completed_candle).
OnlyChartsCutMinutes ==
    [][\A k \in Traded, m \in Minutes :
          (/\ orderly[k] /\ cache[k][m] # NoCandle /\ Covers(cache[k][m], k)
           /\ cache'[k][m] # cache[k][m] /\ ~Covers(cache'[k][m], k))
          => charts' # charts]_candleVars
=============================================================================
