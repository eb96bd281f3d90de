--------------------------- MODULE ServiceProofs ---------------------------
(***************************************************************************)
(* Proofs about the services around the order engine: the live candles     *)
(* (LiveCandle.tla), the quantity of an order (QuantitySizing.tla), the    *)
(* order-flow signals (OrderFlow.tla), the journal (Journal.tla), and all  *)
(* of the services side by side (MCServices.tla).                          *)
(***************************************************************************)
EXTENDS MCServices, StreamSessionsProofs, RecordProofs, SequenceTheorems

-----------------------------------------------------------------------------
(* The live candles.  While the trades of an instrument come in order, the *)
(* minute being built is the last one anything was traded in: what is      *)
(* saved is over, and the first trade of a minute finds none before it.    *)

\* Open and close between low and high.
Sane(row) == /\ row.low <= row.open /\ row.open <= row.high
             /\ row.low <= row.close /\ row.close <= row.high

\* Nothing is on its way to the cache before there is a candle.
SavedHaveASuccessor == \A s \in saving : current[s[1]] # NoCandle

\* Nothing was traded after the minute being built.
LatestMinute ==
    \A k \in Traded, m \in Minutes :
        orderly[k] /\ tradedAt[k][m] # {} => current[k] # NoCandle /\ m <= current[k].ts

\* The prices of a minute have a lowest and a highest.
PricesHaveBounds ==
    \A k \in Traded, m \in Minutes : tradedAt[k][m] # {} =>
        /\ \E p \in tradedAt[k][m] : \A q \in tradedAt[k][m] : q <= p
        /\ \E p \in tradedAt[k][m] : \A q \in tradedAt[k][m] : p <= q

\* A traded instrument's candles start with a minute.
CandlesAreOfMinutes ==
    \A k \in Traded :
        /\ current[k] # NoCandle => current[k].ts \in Minutes
        /\ \A s \in saving : s[1] = k => s[2].ts \in Minutes

CandleInv ==
    /\ CandleTypeOK /\ BarsAreTrue
    /\ SavedHaveASuccessor /\ LatestMinute /\ PricesHaveBounds /\ CandlesAreOfMinutes

\* A minute starts no later than the times in it.
LEMMA BucketType ==
    ASSUME NEW t \in Nat
    PROVE  Bucket(t) \in Nat /\ Bucket(t) <= t
<1>1. t % Minute \in 0..(Minute - 1)
  BY MinuteAssumption
<1>4. t = Minute * (t \div Minute) + (t % Minute)
  BY MinuteAssumption
<1>2. t \div Minute \in Nat
  BY MinuteAssumption
<1>3. Minute * (t \div Minute) \in Nat
  BY <1>2, MinuteAssumption
<1> QED BY <1>1, <1>3, <1>4, MinuteAssumption DEF Bucket

\* What the exchange attaches is a candle.
LEMMA OwnCandlesAreSane ==
    ASSUME NEW own \in OwnCandles
    PROVE  own \in CandleRecord /\ Sane(own) /\ own # NoCandle
BY OwnCandlesAssumption DEF Sane

\* The row spans the prices.
Spans(row, prices) == \A p \in prices : row.low <= p /\ p <= row.high

\* A price drawn into a candle is within it, and so is all that was before.
LEMMA ExtendFacts ==
    ASSUME NEW base \in CandleRecord, NEW price \in Nat, Sane(base)
    PROVE  /\ Extend(base, price) \in CandleRecord /\ Sane(Extend(base, price))
           /\ Extend(base, price).ts = base.ts
           /\ Extend(base, price).low <= price /\ price <= Extend(base, price).high
           /\ Extend(base, price).low <= base.low /\ base.high <= Extend(base, price).high
<1> DEFINE lo == LesserOf(base.low, price)
           hi == BiggerOf(base.high, price)
<1>1. /\ base.ts \in Nat /\ base.open \in Nat /\ base.high \in Nat /\ base.low \in Nat
      /\ base.close \in Nat
  BY DEF CandleRecord
<1>2. Extend(base, price) = [base EXCEPT !.high = hi, !.low = lo, !.close = price]
  BY DEF Extend
<1>3. /\ lo \in Nat /\ hi \in Nat /\ lo <= price /\ lo <= base.low
      /\ price <= hi /\ base.high <= hi
  BY <1>1 DEF LesserOf, BiggerOf
<1>4. /\ base.low <= base.open /\ base.open <= base.high
  BY DEF Sane
<1> HIDE DEF lo, hi
<1>5. /\ Extend(base, price) \in CandleRecord
      /\ Extend(base, price).ts = base.ts /\ Extend(base, price).open = base.open
      /\ Extend(base, price).high = hi /\ Extend(base, price).low = lo
      /\ Extend(base, price).close = price
  BY <1>2, <1>3 DEF CandleRecord
<1> QED BY <1>1, <1>3, <1>4, <1>5 DEF Sane

\* The candle a tick makes of the one before: of the tick's minute, around its
\* price, and around what the minute had.
LEMMA MergeFacts ==
    ASSUME NEW previous \in CandleRecord \cup {NoCandle}, previous # NoCandle => Sane(previous),
           NEW price \in Nat, NEW time \in Nat,
           NEW own \in OwnCandles \cup {NoCandle}
    PROVE  LET merged == Merge(previous, price, time, own) IN
           /\ merged \in CandleRecord /\ Sane(merged) /\ merged.ts = Bucket(time)
           /\ merged.low <= price /\ price <= merged.high
           /\ previous # NoCandle /\ previous.ts = Bucket(time)
                => merged.low <= previous.low /\ previous.high <= merged.high
<1> DEFINE supplied == Supplied(own, Bucket(time))
<1>1. supplied = NoCandle \/ (supplied \in CandleRecord /\ Sane(supplied))
  BY OwnCandlesAreSane DEF Supplied
<1>2. Bucket(time) \in Nat
  BY BucketType
<1>3. CASE previous # NoCandle /\ previous.ts = Bucket(time)
  <2> DEFINE base == IF supplied = NoCandle THEN previous
                     ELSE [previous EXCEPT !.high = BiggerOf(@, supplied.high),
                                           !.low = LesserOf(@, supplied.low)]
  <2>1. Merge(previous, price, time, own) = Extend(base, price)
    BY <1>3 DEF Merge
  <2>2. previous \in CandleRecord /\ Sane(previous)
    BY <1>3
  <2>3. /\ base \in CandleRecord /\ Sane(base) /\ base.ts = previous.ts
        /\ base.low <= previous.low /\ previous.high <= base.high
    <3>1. CASE supplied = NoCandle
      BY <2>2, <3>1 DEF CandleRecord
    <3>2. CASE supplied # NoCandle
      <4> DEFINE lo == LesserOf(previous.low, supplied.low)
                 hi == BiggerOf(previous.high, supplied.high)
      <4>1. base = [previous EXCEPT !.high = hi, !.low = lo]
        BY <3>2
      <4>2. /\ previous.low \in Nat /\ previous.high \in Nat
            /\ supplied.low \in Nat /\ supplied.high \in Nat
        BY <1>1, <2>2, <3>2 DEF CandleRecord
      <4>3. lo \in Nat /\ hi \in Nat /\ lo <= previous.low /\ previous.high <= hi
        BY <4>2 DEF LesserOf, BiggerOf
      <4> HIDE DEF lo, hi, base, supplied
      <4>4. base \in CandleRecord /\ base.ts = previous.ts /\ base.high = hi /\ base.low = lo
            /\ base.open = previous.open /\ base.close = previous.close
        BY <2>2, <4>1, <4>3 DEF CandleRecord
      <4> QED BY <2>2, <4>2, <4>3, <4>4 DEF CandleRecord, Sane
    <3> QED BY <3>1, <3>2
  <2> HIDE DEF base, supplied
  <2>4. /\ Extend(base, price) \in CandleRecord /\ Sane(Extend(base, price))
        /\ Extend(base, price).ts = base.ts
        /\ Extend(base, price).low <= price /\ price <= Extend(base, price).high
        /\ Extend(base, price).low <= base.low /\ base.high <= Extend(base, price).high
    BY <2>3, ExtendFacts
  <2> QED BY <1>3, <2>1, <2>2, <2>3, <2>4 DEF CandleRecord
<1>4. CASE ~(previous # NoCandle /\ previous.ts = Bucket(time)) /\ supplied # NoCandle
  <2> DEFINE base == [supplied EXCEPT !.ts = Bucket(time)]
  <2>1. Merge(previous, price, time, own) = Extend(base, price)
    BY <1>4 DEF Merge
  <2>2. base \in CandleRecord /\ Sane(base) /\ base.ts = Bucket(time)
    BY <1>1, <1>2, <1>4 DEF CandleRecord, Sane
  <2> HIDE DEF base, supplied
  <2> QED BY <1>4, <2>1, <2>2, ExtendFacts
<1>5. CASE ~(previous # NoCandle /\ previous.ts = Bucket(time)) /\ supplied = NoCandle
  <2>1. Merge(previous, price, time, own)
          = [ts |-> Bucket(time), open |-> price, high |-> price, low |-> price, close |-> price]
    BY <1>5 DEF Merge
  <2> QED BY <1>2, <1>5, <2>1 DEF CandleRecord, Sane
<1> QED BY <1>3, <1>4, <1>5

\* What is saved are candles of instruments.
LEMMA SavedAreCandles ==
    ASSUME NEW S \in SUBSET (Instruments \X CandleRecord), NEW s \in S
    PROVE  s = <<s[1], s[2]>> /\ s[1] \in Instruments /\ s[2] \in CandleRecord
OBVIOUS

\* Whatever the candle a tick makes is, it is sane, and what it completes is over.
LEMMA HandleKeeps ==
    ASSUME CandleTypeOK, CandlesAreSane, SavedMinutesAreOver, SavedHaveASuccessor,
           NEW k \in Instruments, NEW updated \in CandleRecord, Sane(updated),
           Handle(k, updated)
    PROVE  /\ current' \in [Instruments -> CandleRecord \cup {NoCandle}]
           /\ saving' \subseteq Instruments \X CandleRecord
           /\ orderly' \in [Instruments -> BOOLEAN]
           /\ feedTicks' \in 0..MaxFeedTicks
           /\ CandlesAreSane' /\ SavedMinutesAreOver' /\ SavedHaveASuccessor'
<1> USE OwnCandlesAssumption
<1>1. /\ current \in [Instruments -> CandleRecord \cup {NoCandle}]
      /\ saving \in SUBSET (Instruments \X CandleRecord)
      /\ orderly \in [Instruments -> BOOLEAN]
      /\ feedTicks \in 0..MaxFeedTicks
  BY DEF CandleTypeOK
<1>2. /\ current' = [current EXCEPT ![k] = updated]
      /\ orderly' = [orderly EXCEPT ![k] =
                       @ /\ (current[k] = NoCandle \/ current[k].ts <= updated.ts)]
      /\ \/ saving' = saving
         \/ saving' = saving \cup {<<k, current[k]>>}
            /\ current[k] # NoCandle /\ current[k].ts # updated.ts
      /\ feedTicks < MaxFeedTicks /\ feedTicks' = feedTicks + 1
  BY DEF Handle, Completes
<1>3. updated # NoCandle /\ updated.ts \in Nat
  BY DEF CandleRecord
<1>4. /\ current' \in [Instruments -> CandleRecord \cup {NoCandle}]
      /\ current'[k] = updated /\ \A i \in Instruments \ {k} : current'[i] = current[i]
  BY <1>1, <1>2
<1>5. /\ orderly' \in [Instruments -> BOOLEAN]
      /\ orderly'[k] => orderly[k] /\ (current[k] = NoCandle \/ current[k].ts <= updated.ts)
      /\ \A i \in Instruments \ {k} : orderly'[i] = orderly[i]
  BY <1>1, <1>2
<1>6. saving' \in SUBSET (Instruments \X CandleRecord)
  <2>1. k \in Instruments /\ current[k] \in CandleRecord \cup {NoCandle}
    BY <1>1
  <2> QED BY <1>1, <1>2, <2>1
<1>7. \A s \in saving' : s \in saving
         \/ (s[1] = k /\ s[2] = current[k] /\ current[k] # NoCandle /\ current[k].ts # updated.ts)
  BY <1>2
<1>8. feedTicks' \in 0..MaxFeedTicks
  BY <1>1, <1>2, MinuteAssumption
<1>9. CandlesAreSane'
  <2> SUFFICES ASSUME NEW i \in Instruments,
                      NEW row \in ({current'[i]} \cup {s[2] : s \in {t \in saving' : t[1] = i}})
                                    \ {NoCandle}
               PROVE  Sane(row)
    BY DEF CandlesAreSane, Sane
  <2>1. \A j \in Instruments : \A c \in ({current[j]} \cup {s[2] : s \in {t \in saving : t[1] = j}})
                                          \ {NoCandle} : Sane(c)
    BY DEF CandlesAreSane, Sane
  <2>2. CASE row = current'[i]
    BY <1>4, <2>1, <2>2
  <2>3. CASE row # current'[i]
    <3>1. PICK s \in saving' : s[1] = i /\ row = s[2]
      BY <2>3
    <3>2. s \in saving \/ s[2] = current[k]
      BY <1>7, <3>1
    <3> QED BY <2>1, <3>1, <3>2
  <2> QED BY <2>2, <2>3
<1>10. SavedHaveASuccessor'
  <2> SUFFICES ASSUME NEW s \in saving' PROVE current'[s[1]] # NoCandle
    BY DEF SavedHaveASuccessor
  <2>1. s[1] \in Instruments
    BY <1>6, SavedAreCandles
  <2>2. CASE s[1] = k
    BY <1>3, <1>4, <2>2
  <2>3. CASE s[1] # k
    BY <1>4, <1>7, <2>1, <2>3 DEF SavedHaveASuccessor
  <2> QED BY <2>2, <2>3
<1>11. SavedMinutesAreOver'
  <2> SUFFICES ASSUME NEW i \in Instruments, orderly'[i], NEW s \in saving', s[1] = i
               PROVE  s[2].ts < current'[i].ts
    BY DEF SavedMinutesAreOver
  <2>1. CASE i # k
    BY <1>4, <1>5, <1>7, <2>1 DEF SavedMinutesAreOver
  <2>2. CASE i = k /\ s \in saving
    <3>1. /\ s[2].ts < current[k].ts /\ current[k] # NoCandle
          /\ s[2] \in CandleRecord
      BY <1>1, <1>5, <2>2, SavedAreCandles DEF SavedMinutesAreOver, SavedHaveASuccessor
    <3>2. current[k] \in CandleRecord /\ current[k].ts <= updated.ts
      BY <1>1, <1>5, <2>2, <3>1
    <3>3. s[2].ts \in Nat /\ current[k].ts \in Nat
      BY <3>1, <3>2 DEF CandleRecord
    <3> QED BY <1>3, <1>4, <2>2, <3>1, <3>2, <3>3
  <2>3. CASE i = k /\ s \notin saving
    <3>1. s[2] = current[k] /\ current[k] \in CandleRecord /\ current[k].ts # updated.ts
          /\ current[k] # NoCandle
      BY <1>1, <1>7, <2>3
    <3>2. current[k].ts \in Nat /\ current[k].ts <= updated.ts
      BY <1>5, <2>3, <3>1 DEF CandleRecord
    <3> QED BY <1>3, <1>4, <2>3, <3>1, <3>2
  <2> QED BY <2>1, <2>2, <2>3
<1> QED BY <1>4, <1>5, <1>6, <1>8, <1>9, <1>10, <1>11

LEMMA CandleInvInit == CandleInit => CandleInv
<1> USE OwnCandlesAssumption
<1> SUFFICES ASSUME CandleInit PROVE CandleInv
  OBVIOUS
<1>1. CandleTypeOK
  BY MinuteAssumption DEF CandleInit, CandleTypeOK
<1>2. BarsAreTrue
  BY DEF CandleInit, BarsAreTrue, CandleCoversItsMinute, CandlesAreSane, SavedMinutesAreOver,
         Instruments
<1>3. SavedHaveASuccessor /\ LatestMinute /\ PricesHaveBounds
  BY DEF CandleInit, SavedHaveASuccessor, LatestMinute, PricesHaveBounds
<1>4. CandlesAreOfMinutes
  BY DEF CandleInit, CandlesAreOfMinutes, Instruments
<1> QED BY <1>1, <1>2, <1>3, <1>4 DEF CandleInv

\* Times of trades are numbers, and so are the minutes they fall in.
LEMMA MinutesAreNumbers ==
    /\ Minutes \subseteq Nat
    /\ \A t \in TradeTimes : t \in Nat /\ Bucket(t) \in Minutes
BY TradesAssumption, BucketType, OwnCandlesAreSane DEF Minutes, CandleRecord

\* What was traded after a tick of a trade.
LEMMA TradedAfter ==
    ASSUME CandleTypeOK, NEW k \in Traded, NEW price \in TradePrices, NEW b \in Minutes,
           tradedAt' = [tradedAt EXCEPT ![k][b] = @ \cup {price}]
    PROVE  /\ tradedAt' \in [Traded -> [Minutes -> SUBSET TradePrices]]
           /\ tradedAt'[k][b] = tradedAt[k][b] \cup {price}
           /\ \A i \in Traded, m \in Minutes :
                 i # k \/ m # b => tradedAt'[i][m] = tradedAt[i][m]
<1>1. tradedAt \in [Traded -> [Minutes -> SUBSET TradePrices]]
  BY DEF CandleTypeOK
<1>2. tradedAt[k] \in [Minutes -> SUBSET TradePrices]
  BY <1>1
<1>3. [tradedAt[k] EXCEPT ![b] = @ \cup {price}] \in [Minutes -> SUBSET TradePrices]
  BY <1>2
<1>4. tradedAt' = [tradedAt EXCEPT ![k] = [tradedAt[k] EXCEPT ![b] = @ \cup {price}]]
  OBVIOUS
<1>5. tradedAt'[k] = [tradedAt[k] EXCEPT ![b] = @ \cup {price}]
  BY <1>1, <1>4
<1> QED BY <1>1, <1>2, <1>3, <1>4, <1>5

\* A tick of a trade: in order, it is in the minute being built, whose candle it is
\* drawn into, or in one nothing was traded in.
LEMMA TradeTickKeeps ==
    ASSUME CandleInv, NEW k \in Traded, NEW price \in TradePrices, NEW time \in TradeTimes,
           NEW own \in OwnCandles \cup {NoCandle}, TradeTick(k, price, time, own)
    PROVE  CandleInv'
<1> USE OwnCandlesAssumption
<1> DEFINE merged == Merge(current[k], price, time, own)
           b == Bucket(time)
<1>1. CandleTypeOK /\ CandleCoversItsMinute /\ CandlesAreSane /\ SavedMinutesAreOver
      /\ SavedHaveASuccessor /\ LatestMinute /\ PricesHaveBounds /\ CandlesAreOfMinutes
  BY DEF CandleInv, BarsAreTrue
<1>2. /\ current \in [Instruments -> CandleRecord \cup {NoCandle}]
      /\ saving \in SUBSET (Instruments \X CandleRecord)
      /\ orderly \in [Instruments -> BOOLEAN]
      /\ tradedAt \in [Traded -> [Minutes -> SUBSET TradePrices]]
  BY <1>1 DEF CandleTypeOK
<1>3. /\ k \in Instruments /\ price \in Nat /\ time \in Nat /\ b \in Minutes /\ b \in Nat
  BY TradesAssumption, MinutesAreNumbers, BucketType DEF Instruments
<1>4. current[k] \in CandleRecord \cup {NoCandle} /\ (current[k] # NoCandle => Sane(current[k]))
  BY <1>1, <1>2, <1>3 DEF CandlesAreSane, Sane
<1>5. /\ merged \in CandleRecord /\ Sane(merged) /\ merged.ts = b
      /\ merged.low <= price /\ price <= merged.high
      /\ current[k] # NoCandle /\ current[k].ts = b
           => merged.low <= current[k].low /\ current[k].high <= merged.high
  BY <1>3, <1>4, MergeFacts
<1>6. Handle(k, merged) /\ tradedAt' = [tradedAt EXCEPT ![k][b] = @ \cup {price}]
  BY DEF TradeTick
<1>7. /\ current' = [current EXCEPT ![k] = merged]
      /\ orderly' = [orderly EXCEPT ![k] =
                       @ /\ (current[k] = NoCandle \/ current[k].ts <= merged.ts)]
      /\ \/ saving' = saving
         \/ saving' = saving \cup {<<k, current[k]>>}
            /\ current[k] # NoCandle /\ current[k].ts # merged.ts
      /\ UNCHANGED <<cache, charts, asked>>
  BY <1>6 DEF Handle, Completes
<1> HIDE DEF merged, b
<1>8. /\ current' \in [Instruments -> CandleRecord \cup {NoCandle}]
      /\ saving' \subseteq Instruments \X CandleRecord
      /\ orderly' \in [Instruments -> BOOLEAN]
      /\ feedTicks' \in 0..MaxFeedTicks
      /\ CandlesAreSane' /\ SavedMinutesAreOver' /\ SavedHaveASuccessor'
  BY <1>1, <1>3, <1>5, <1>6, HandleKeeps
<1>9. /\ tradedAt' \in [Traded -> [Minutes -> SUBSET TradePrices]]
      /\ tradedAt'[k][b] = tradedAt[k][b] \cup {price}
      /\ \A i \in Traded, m \in Minutes : i # k \/ m # b => tradedAt'[i][m] = tradedAt[i][m]
  BY <1>1, <1>3, <1>6, TradedAfter
<1>16. current'[k] = merged /\ \A i \in Instruments \ {k} : current'[i] = current[i]
  BY <1>2, <1>3, <1>7
<1>17. /\ orderly'[k] => orderly[k] /\ (current[k] = NoCandle \/ current[k].ts <= b)
       /\ \A i \in Instruments \ {k} : orderly'[i] = orderly[i]
  BY <1>2, <1>3, <1>5, <1>7
<1>18. \A s \in saving' : s \in saving
         \/ (s[1] = k /\ s[2] = current[k] /\ current[k] # NoCandle /\ current[k].ts # b)
  <2>1. CASE saving' = saving
    BY <2>1
  <2>2. CASE saving' # saving
    BY <1>5, <1>7, <2>2
  <2> QED BY <2>1, <2>2
<1>10. /\ current'[k] = merged /\ \A i \in Instruments \ {k} : current'[i] = current[i]
       /\ orderly'[k] => orderly[k] /\ (current[k] = NoCandle \/ current[k].ts <= b)
       /\ \A i \in Instruments \ {k} : orderly'[i] = orderly[i]
       /\ \A s \in saving' : s \in saving
            \/ (s[1] = k /\ s[2] = current[k] /\ current[k] # NoCandle /\ current[k].ts # b)
  BY <1>16, <1>17, <1>18
<1>11. CandleTypeOK'
  BY <1>1, <1>7, <1>8, <1>9 DEF CandleTypeOK
<1>12. CandlesAreOfMinutes'
  <2> SUFFICES ASSUME NEW i \in Traded
               PROVE  /\ current'[i] # NoCandle => current'[i].ts \in Minutes
                      /\ \A s \in saving' : s[1] = i => s[2].ts \in Minutes
    BY DEF CandlesAreOfMinutes
  <2>1. i \in Instruments
    BY DEF Instruments
  <2>2. CASE i # k
    BY <1>1, <1>10, <2>1, <2>2 DEF CandlesAreOfMinutes
  <2>3. CASE i = k
    BY <1>1, <1>3, <1>5, <1>10, <2>1, <2>3 DEF CandlesAreOfMinutes
  <2> QED BY <2>2, <2>3
<1>13. LatestMinute'
  <2> SUFFICES ASSUME NEW i \in Traded, NEW m \in Minutes, orderly'[i], tradedAt'[i][m] # {}
               PROVE  current'[i] # NoCandle /\ m <= current'[i].ts
    BY DEF LatestMinute
  <2>1. i \in Instruments /\ m \in Nat
    BY MinutesAreNumbers DEF Instruments
  <2>2. CASE i # k
    BY <1>1, <1>9, <1>10, <2>1, <2>2 DEF LatestMinute
  <2>3. CASE i = k /\ m = b
    BY <1>3, <1>5, <1>10, <2>3
  <2>4. CASE i = k /\ m # b
    <3>1. current[k] # NoCandle /\ m <= current[k].ts /\ current[k].ts <= b
      BY <1>1, <1>9, <1>10, <2>4 DEF LatestMinute
    <3>2. current[k].ts \in Nat
      BY <1>4, <3>1 DEF CandleRecord
    <3> QED BY <1>3, <1>5, <1>10, <2>1, <2>4, <3>1, <3>2
  <2> QED BY <2>2, <2>3, <2>4
<1>14. PricesHaveBounds'
  <2> SUFFICES ASSUME NEW i \in Traded, NEW m \in Minutes, tradedAt'[i][m] # {}
               PROVE  /\ \E p \in tradedAt'[i][m] : \A q \in tradedAt'[i][m] : q <= p
                      /\ \E p \in tradedAt'[i][m] : \A q \in tradedAt'[i][m] : p <= q
    BY DEF PricesHaveBounds
  <2>1. CASE i # k \/ m # b
    BY <1>1, <1>9, <2>1 DEF PricesHaveBounds
  <2>2. CASE i = k /\ m = b
    <3>1. tradedAt[k][b] \in SUBSET Nat
      BY <1>2, <1>3, TradesAssumption
    <3>2. CASE tradedAt[k][b] = {}
      BY <1>3, <1>9, <2>2, <3>2
    <3>3. CASE tradedAt[k][b] # {}
      <4>1. PICK hi \in tradedAt[k][b] : \A q \in tradedAt[k][b] : q <= hi
        BY <1>1, <1>3, <3>3 DEF PricesHaveBounds
      <4>2. PICK lo \in tradedAt[k][b] : \A q \in tradedAt[k][b] : lo <= q
        BY <1>1, <1>3, <3>3 DEF PricesHaveBounds
      <4>3. \E p \in tradedAt'[k][b] : \A q \in tradedAt'[k][b] : q <= p
        <5>1. CASE price <= hi
          BY <1>9, <4>1, <5>1
        <5>2. CASE ~(price <= hi)
          <6>1. \A q \in tradedAt[k][b] : q <= price
            BY <1>3, <3>1, <4>1, <5>2
          <6> QED BY <1>3, <1>9, <6>1
        <5> QED BY <5>1, <5>2
      <4>4. \E p \in tradedAt'[k][b] : \A q \in tradedAt'[k][b] : p <= q
        <5>1. CASE lo <= price
          BY <1>9, <4>2, <5>1
        <5>2. CASE ~(lo <= price)
          <6>1. \A q \in tradedAt[k][b] : price <= q
            BY <1>3, <3>1, <4>2, <5>2
          <6> QED BY <1>3, <1>9, <6>1
        <5> QED BY <5>1, <5>2
      <4> QED BY <2>2, <4>3, <4>4
    <3> QED BY <3>2, <3>3
  <2> QED BY <2>1, <2>2
<1>15. CandleCoversItsMinute'
  <2> SUFFICES ASSUME NEW i \in Traded, orderly'[i]
               PROVE  /\ current'[i] # NoCandle => Spans(current'[i], tradedAt'[i][current'[i].ts])
                      /\ \A s \in saving' : s[1] = i => Spans(s[2], tradedAt'[i][s[2].ts])
    BY DEF CandleCoversItsMinute, Covers, Spans
  <2>1. i \in Instruments
    BY DEF Instruments
  <2>2. CASE i # k
    <3>1. orderly[i] /\ current'[i] = current[i] /\ \A s \in saving' : s[1] = i => s \in saving
      BY <1>10, <2>1, <2>2
    <3>2. \A m \in Minutes : tradedAt'[i][m] = tradedAt[i][m]
      BY <1>9, <2>2
    <3> QED BY <1>1, <3>1, <3>2 DEF CandleCoversItsMinute, CandlesAreOfMinutes, Covers, Spans
  <2>3. CASE i = k
    <3>1. orderly[k] /\ (current[k] = NoCandle \/ current[k].ts <= b)
      BY <1>10, <2>3
    <3>2. Spans(current'[k], tradedAt'[k][current'[k].ts])
      <4> SUFFICES ASSUME NEW p \in tradedAt'[k][b] PROVE merged.low <= p /\ p <= merged.high
        BY <1>5, <1>10 DEF Spans
      <4>1. CASE p = price
        BY <1>5, <4>1
      <4>2. CASE p \in tradedAt[k][b]
        <5>1. current[k] # NoCandle /\ b <= current[k].ts
          BY <1>1, <1>3, <3>1, <4>2 DEF LatestMinute
        <5>2. current[k] \in CandleRecord
          BY <1>4, <5>1
        <5>3. current[k].ts = b
          BY <1>3, <3>1, <5>1, <5>2 DEF CandleRecord
        <5>4. current[k].low <= p /\ p <= current[k].high
          BY <1>1, <3>1, <4>2, <5>1, <5>3 DEF CandleCoversItsMinute, Covers
        <5>5. merged.low <= current[k].low /\ current[k].high <= merged.high
          BY <1>5, <5>1, <5>3
        <5>6. /\ merged.low \in Nat /\ merged.high \in Nat
              /\ current[k].low \in Nat /\ current[k].high \in Nat /\ p \in Nat
          BY <1>2, <1>3, <1>5, <4>2, <5>2, TradesAssumption DEF CandleRecord
        <5> QED BY <5>4, <5>5, <5>6
      <4> QED BY <1>9, <4>1, <4>2
    <3>3. ASSUME NEW s \in saving', s[1] = k PROVE Spans(s[2], tradedAt'[k][s[2].ts])
      <4>1. Covers(s[2], k) /\ s[2].ts \in Minutes /\ s[2].ts # b
        <5>1. CASE s \in saving
          <6>1. /\ s[2].ts < current[k].ts /\ current[k] # NoCandle
                /\ s[2] \in CandleRecord
            BY <1>1, <1>2, <1>3, <3>1, <3>3, <5>1, SavedAreCandles
               DEF SavedMinutesAreOver, SavedHaveASuccessor
          <6>2. current[k] \in CandleRecord /\ current[k].ts <= b
            BY <1>4, <3>1, <6>1
          <6>3. s[2].ts \in Nat /\ current[k].ts \in Nat
            BY <6>1, <6>2 DEF CandleRecord
          <6>4. s[2].ts # b
            BY <1>3, <6>1, <6>2, <6>3
          <6> QED BY <1>1, <3>1, <3>3, <5>1, <6>4 DEF CandleCoversItsMinute, CandlesAreOfMinutes
        <5>2. CASE s \notin saving
          BY <1>1, <1>10, <3>1, <5>2 DEF CandleCoversItsMinute, CandlesAreOfMinutes
        <5> QED BY <5>1, <5>2
      <4> QED BY <1>9, <4>1 DEF Covers, Spans
    <3> QED BY <2>3, <3>2, <3>3
  <2> QED BY <2>2, <2>3
<1> QED BY <1>8, <1>11, <1>12, <1>13, <1>14, <1>15 DEF CandleInv, BarsAreTrue

\* An index has no trades: its candle stands as the exchange sends it.
LEMMA IndexTickKeeps ==
    ASSUME CandleInv, NEW k \in Indices, NEW own \in OwnCandles, IndexTick(k, own)
    PROVE  CandleInv'
<1> USE OwnCandlesAssumption
<1>1. CandleTypeOK /\ CandleCoversItsMinute /\ CandlesAreSane /\ SavedMinutesAreOver
      /\ SavedHaveASuccessor /\ LatestMinute /\ PricesHaveBounds /\ CandlesAreOfMinutes
  BY DEF CandleInv, BarsAreTrue
<1>2. /\ current \in [Instruments -> CandleRecord \cup {NoCandle}]
      /\ saving \in SUBSET (Instruments \X CandleRecord)
      /\ orderly \in [Instruments -> BOOLEAN]
  BY <1>1 DEF CandleTypeOK
<1>3. k \in Instruments /\ own \in CandleRecord /\ Sane(own) /\ \A i \in Traded : i # k
  BY OwnCandlesAreSane, InstrumentsAssumption DEF Instruments
<1>4. Handle(k, own) /\ UNCHANGED <<cache, charts, asked, tradedAt>>
  BY DEF IndexTick, Handle
<1>5. /\ current' \in [Instruments -> CandleRecord \cup {NoCandle}]
      /\ saving' \subseteq Instruments \X CandleRecord
      /\ orderly' \in [Instruments -> BOOLEAN]
      /\ feedTicks' \in 0..MaxFeedTicks
      /\ CandlesAreSane' /\ SavedMinutesAreOver' /\ SavedHaveASuccessor'
  BY <1>1, <1>3, <1>4, HandleKeeps
<1>6. \A i \in Traded : current'[i] = current[i] /\ orderly'[i] = orderly[i]
  BY <1>2, <1>3, <1>4 DEF Handle, Instruments
<1>7. \A i \in Traded, s \in saving' : s[1] = i => s \in saving
  BY <1>3, <1>4 DEF Handle
<1>8. CandleTypeOK'
  BY <1>1, <1>4, <1>5 DEF CandleTypeOK
<1>9. CandleCoversItsMinute'
  BY <1>1, <1>4, <1>6, <1>7 DEF CandleCoversItsMinute, Covers
<1>10. LatestMinute'
  BY <1>1, <1>4, <1>6 DEF LatestMinute
<1>11. PricesHaveBounds' /\ CandlesAreOfMinutes'
  BY <1>1, <1>4, <1>6, <1>7 DEF PricesHaveBounds, CandlesAreOfMinutes
<1> QED BY <1>5, <1>8, <1>9, <1>10, <1>11 DEF CandleInv, BarsAreTrue

\* A row written to the cache keeps its type, whatever its minute.
LEMMA CacheKeepsItsType ==
    ASSUME CandleTypeOK, NEW k \in Instruments, NEW row \in CandleRecord,
           cache' = [cache EXCEPT ![k][row.ts] = row]
    PROVE  cache' \in [Instruments -> [Minutes -> CandleRecord \cup {NoCandle}]]
<1>1. cache \in [Instruments -> [Minutes -> CandleRecord \cup {NoCandle}]]
  BY DEF CandleTypeOK
<1>2. [cache[k] EXCEPT ![row.ts] = row] \in [Minutes -> CandleRecord \cup {NoCandle}]
  BY <1>1
<1>3. cache' = [cache EXCEPT ![k] = [cache[k] EXCEPT ![row.ts] = row]]
  OBVIOUS
<1> QED BY <1>1, <1>2, <1>3

\* What the REST API returns is a candle of the minute asked for.
LEMMA RestCandleType ==
    ASSUME CandleTypeOK, PricesHaveBounds, NEW k \in Traded, NEW m \in Minutes,
           tradedAt[k][m] # {}
    PROVE  RestCandle(k, m) \in CandleRecord
<1> DEFINE prices == tradedAt[k][m]
           high == CHOOSE p \in prices : \A q \in prices : q <= p
           low  == CHOOSE p \in prices : \A q \in prices : p <= q
<1>1. prices \in SUBSET Nat
  <2>1. tradedAt[k][m] \in SUBSET TradePrices
    BY DEF CandleTypeOK
  <2> QED BY <2>1, TradesAssumption
<1>2. /\ \E p \in prices : \A q \in prices : q <= p
      /\ \E p \in prices : \A q \in prices : p <= q
  BY DEF PricesHaveBounds
<1>3. high \in prices /\ low \in prices
  BY <1>2
<1>4. RestCandle(k, m) = [ts |-> m, open |-> low, high |-> high, low |-> low, close |-> high]
  BY DEF RestCandle
<1> HIDE DEF high, low, prices
<1> QED BY <1>1, <1>3, <1>4, MinutesAreNumbers DEF CandleRecord

\* What neither ticks nor trades change: saves and chart requests.
LEMMA WritesKeep ==
    ASSUME CandleInv, saving' \subseteq saving, UNCHANGED <<current, orderly, tradedAt>>,
           CandleTypeOK'
    PROVE  CandleInv'
<1>1. CandleTypeOK /\ CandleCoversItsMinute /\ CandlesAreSane /\ SavedMinutesAreOver
      /\ SavedHaveASuccessor /\ LatestMinute /\ PricesHaveBounds /\ CandlesAreOfMinutes
  BY DEF CandleInv, BarsAreTrue
<1>2. CandleCoversItsMinute'
  BY <1>1 DEF CandleCoversItsMinute, Covers
<1>3. CandlesAreSane'
  BY <1>1 DEF CandlesAreSane
<1>4. SavedMinutesAreOver' /\ SavedHaveASuccessor'
  BY <1>1 DEF SavedMinutesAreOver, SavedHaveASuccessor
<1>5. LatestMinute' /\ PricesHaveBounds' /\ CandlesAreOfMinutes'
  BY <1>1 DEF LatestMinute, PricesHaveBounds, CandlesAreOfMinutes
<1> QED BY <1>2, <1>3, <1>4, <1>5 DEF CandleInv, BarsAreTrue

LEMMA CandleInvStep ==
    ASSUME CandleInv, [CandleNext]_candleVars
    PROVE  CandleInv'
<1>1. ASSUME NEW k \in Traded, NEW p \in TradePrices, NEW t \in TradeTimes,
             NEW own \in OwnCandles \cup {NoCandle}, TradeTick(k, p, t, own)
      PROVE  CandleInv'
  BY <1>1, TradeTickKeeps
<1>2. ASSUME NEW k \in Indices, NEW own \in OwnCandles, IndexTick(k, own)
      PROVE  CandleInv'
  BY <1>2, IndexTickKeeps
<1>3. ASSUME NEW s \in saving, SaveCompleted(s[1], s[2]) PROVE CandleInv'
  <2>1. CandleTypeOK
    BY DEF CandleInv
  <2>2. s[1] \in Instruments /\ s[2] \in CandleRecord
    BY <2>1 DEF CandleTypeOK
  <2>3. cache' \in [Instruments -> [Minutes -> CandleRecord \cup {NoCandle}]]
    BY <1>3, <2>1, <2>2, CacheKeepsItsType DEF SaveCompleted
  <2>4. /\ saving' \subseteq saving
        /\ UNCHANGED <<current, charts, feedTicks, asked, tradedAt, orderly>>
    BY <1>3 DEF SaveCompleted
  <2>5. CandleTypeOK'
    BY <2>1, <2>3, <2>4 DEF CandleTypeOK
  <2> QED BY <2>4, <2>5, WritesKeep
<1>4. ASSUME NEW k \in Traded, NEW m \in Minutes, ChartReply(k, m) PROVE CandleInv'
  <2>1. CandleTypeOK /\ PricesHaveBounds
    BY DEF CandleInv
  <2>2. <<k, RestCandle(k, m)>> \in Traded \X CandleRecord
    BY <1>4, <2>1, RestCandleType DEF ChartReply
  <2>3. /\ charts' = charts \cup {<<k, RestCandle(k, m)>>}
        /\ asked' = asked + 1 /\ asked < MaxCharts
        /\ UNCHANGED <<current, saving, cache, feedTicks, tradedAt, orderly>>
    BY <1>4 DEF ChartReply
  <2>4. CandleTypeOK'
    BY <2>1, <2>2, <2>3, MinuteAssumption DEF CandleTypeOK
  <2> QED BY <2>3, <2>4, WritesKeep
<1>5. ASSUME NEW s \in charts, ChartSaves(s[1], s[2]) PROVE CandleInv'
  <2>1. CandleTypeOK
    BY DEF CandleInv
  <2>2. s[1] \in Instruments /\ s[2] \in CandleRecord
    BY <2>1 DEF CandleTypeOK, Instruments
  <2>3. cache' \in [Instruments -> [Minutes -> CandleRecord \cup {NoCandle}]]
    BY <1>5, <2>1, <2>2, CacheKeepsItsType DEF ChartSaves
  <2>4. /\ charts' \subseteq charts
        /\ UNCHANGED <<current, saving, feedTicks, asked, tradedAt, orderly>>
    BY <1>5 DEF ChartSaves
  <2>5. CandleTypeOK'
    BY <2>1, <2>3, <2>4 DEF CandleTypeOK
  <2> QED BY <2>4, <2>5, WritesKeep
<1>6. CASE UNCHANGED candleVars
  <2>1. CandleTypeOK'
    BY <1>6 DEF CandleInv, CandleTypeOK, candleVars
  <2> QED BY <1>6, <2>1, WritesKeep DEF candleVars
<1> QED BY <1>1, <1>2, <1>3, <1>4, <1>5, <1>6 DEF CandleNext

\* The inductive invariant of the live candles.
THEOREM SpecCandleInv == CandleSpec => []CandleInv
BY CandleInvInit, CandleInvStep, PTL DEF CandleSpec

\* Every bar being built or saved says what was traded in its minute, as long as
\* the trades came in order (handle_tick, merge_live_one_minute_candle).
THEOREM SpecBarsAreTrue == CandleSpec => []BarsAreTrue
<1>1. CandleInv => BarsAreTrue
  BY DEF CandleInv
<1> QED BY <1>1, SpecCandleInv, PTL

\* The type invariant of the live candles (handle_tick and its writes).
THEOREM CandleTypeCorrect == CandleSpec => []CandleTypeOK
<1>1. CandleInv => CandleTypeOK
  BY DEF CandleInv
<1> QED BY <1>1, SpecCandleInv, PTL

\* Only a chart request's save takes trades off a cached minute.
LEMMA OnlyChartsCut ==
    ASSUME CandleInv, [CandleNext]_candleVars, NEW k \in Traded, NEW m \in Minutes,
           orderly[k], Covers(cache[k][m], k), cache'[k][m] # cache[k][m],
           ~Covers(cache'[k][m], k)
    PROVE  charts' # charts
<1>1. cache' # cache
  OBVIOUS
<1>2. CASE \E s \in saving : SaveCompleted(s[1], s[2])
  <2>1. PICK s \in saving : SaveCompleted(s[1], s[2])
    BY <1>2
  <2>2. /\ cache \in [Instruments -> [Minutes -> CandleRecord \cup {NoCandle}]]
        /\ saving \in SUBSET (Instruments \X CandleRecord)
        /\ k \in Instruments
    BY DEF CandleInv, CandleTypeOK, Instruments
  <2>3. cache' = [cache EXCEPT ![s[1]] = [cache[s[1]] EXCEPT ![s[2].ts] = s[2]]]
    BY <2>1 DEF SaveCompleted
  <2>4. s[1] \in Instruments
    BY <2>2, SavedAreCandles
  <2>5. s[1] = k /\ s[2].ts = m /\ cache'[k][m] = s[2]
    BY <2>2, <2>3, <2>4
  <2>6. Covers(s[2], k)
    BY <2>5 DEF CandleInv, BarsAreTrue, CandleCoversItsMinute
  <2> QED BY <2>5, <2>6
<1>3. CASE \E s \in charts : ChartSaves(s[1], s[2])
  BY <1>3 DEF ChartSaves
<1>4. CASE UNCHANGED cache
  BY <1>1, <1>4
<1> QED BY <1>2, <1>3, <1>4 DEF CandleNext, TradeTick, IndexTick, Handle, ChartReply, candleVars

\* A completed minute's row never loses trades to another completed minute's save
\* (_persist_completed_candle): what cuts it is a chart request.
THEOREM SpecOnlyChartsCut == CandleSpec => OnlyChartsCutMinutes
<1>1. CandleInv /\ [CandleNext]_candleVars
        => [\A k \in Traded, m \in Minutes :
              (/\ orderly[k] /\ cache[k][m] # NoCandle /\ Covers(cache[k][m], k)
               /\ cache'[k][m] # cache[k][m] /\ ~Covers(cache'[k][m], k))
              => charts' # charts]_candleVars
  BY OnlyChartsCut
<1> QED BY <1>1, SpecCandleInv, PTL DEF CandleSpec, OnlyChartsCutMinutes

-----------------------------------------------------------------------------
(* The starting quantity.  Every mode that sizes by a limit takes as many  *)
(* lots as a quotient of the limit, so the product is within it; what is   *)
(* left to show is that the fallbacks give a single lot.                   *)

LEMMA QuotientIsWithin ==
    ASSUME NEW a \in Int, NEW d \in Nat \ {0}
    PROVE  a \div d \in Int /\ d * (a \div d) <= a /\ (a \in Nat => a \div d \in Nat)
<1>1. a % d \in 0..(d - 1)
  OBVIOUS
<1>2. a = d * (a \div d) + (a % d)
  OBVIOUS
<1>3. a \div d \in Int /\ d * (a \div d) \in Int
  OBVIOUS
<1>4. a \in Nat => a \div d \in Nat
  OBVIOUS
<1>5. a % d \in Nat
  BY <1>1
<1> QED BY <1>2, <1>3, <1>4, <1>5

LEMMA MultiplesLeaveNothing ==
    ASSUME NEW n \in Nat, NEW lot \in Nat \ {0}
    PROVE  (n * lot) % lot = 0
OBVIOUS

LEMMA ProductsGrow ==
    ASSUME NEW a \in Int, NEW b \in Int, a <= b, NEW c \in Nat
    PROVE  c * a \in Int /\ c * b \in Int /\ c * a <= c * b
OBVIOUS

LEMMA ProductsArePositive ==
    ASSUME NEW a \in Nat \ {0}, NEW b \in Nat \ {0}
    PROVE  a * b \in Nat \ {0}
OBVIOUS

LEMMA LotsAreSafe ==
    ASSUME NEW r \in Request
    PROVE  SafeLot(r) \in Nat \ {0}
BY DEF Request, SafeLot, AtLeast

\* The lots the allotted capital affords.
LEMMA AffordableFacts ==
    ASSUME NEW r \in Request, AffordableLots(r) # NoValue
    PROVE  /\ AffordableLots(r) \in Nat
           /\ r.price \in Nat \ {0} /\ r.capital \in Nat
           /\ (100 * r.price * SafeLot(r)) * AffordableLots(r) <= Allotted(r)
<1>1. r.price \in Nat \ {0} /\ r.capital \in Nat /\ r.percent \in Nat /\ r.reserve \in Nat
  BY DEF Request, Known, Amounts, AffordableLots
<1>2. SafeLot(r) \in Nat \ {0}
  BY LotsAreSafe
<1>3. Allotted(r) \in Nat
  BY <1>1 DEF Allotted, AtLeast
<1>4. 100 * r.price \in Nat \ {0}
  BY <1>1
<1>5. 100 * r.price * SafeLot(r) \in Nat \ {0}
  BY <1>2, <1>4, ProductsArePositive
<1>6. AffordableLots(r) = Allotted(r) \div (100 * r.price * SafeLot(r))
  BY DEF AffordableLots
<1> QED BY <1>1, <1>3, <1>5, <1>6, QuotientIsWithin

\* n lots beyond the first that are affordable cost no more than the allotted capital.
LEMMA AffordableLotsFit ==
    ASSUME NEW r \in Request, AffordableLots(r) # NoValue,
           NEW n \in Nat, n > 1, n <= AffordableLots(r)
    PROVE  100 * r.price * (n * SafeLot(r)) <= r.capital * r.percent - 100 * r.reserve
<1> DEFINE cost == 100 * r.price * SafeLot(r)
<1>1. /\ AffordableLots(r) \in Nat /\ r.price \in Nat \ {0} /\ r.capital \in Nat
      /\ cost * AffordableLots(r) <= Allotted(r)
  BY AffordableFacts
<1>2. SafeLot(r) \in Nat \ {0} /\ r.percent \in Nat /\ r.reserve \in Nat
  BY LotsAreSafe DEF Request, Amounts
<1>3. 100 * r.price \in Nat \ {0}
  BY <1>1
<1>4. cost \in Nat \ {0}
  BY <1>2, <1>3, ProductsArePositive
<1>5. cost * n \in Int /\ cost * n <= cost * AffordableLots(r)
  BY <1>1, <1>4, ProductsGrow
<1>6. cost * n \in Nat \ {0}
  BY <1>4, ProductsArePositive
<1>7. 100 * r.price * (n * SafeLot(r)) = cost * n
  BY <1>2, <1>3
<1>8. r.capital * r.percent \in Nat /\ 100 * r.reserve \in Nat
  BY <1>1, <1>2
<1>9. Allotted(r) \in Nat
      /\ (Allotted(r) # 0 => Allotted(r) = r.capital * r.percent - 100 * r.reserve)
  BY <1>8 DEF Allotted, AtLeast
<1>10. cost * AffordableLots(r) \in Int
  BY <1>1, <1>4
<1> HIDE DEF cost
<1> QED BY <1>1, <1>5, <1>6, <1>7, <1>8, <1>9, <1>10

\* Lots sized by a risk budget: one, or as many as both the budget and the capital allow.
LEMMA SizeByRiskFacts ==
    ASSUME NEW r \in Request, NEW budget \in Int, NEW distance \in Nat \ {0}
    PROVE  \E n \in Nat \ {0} :
             /\ SizeByRisk(r, budget, distance) = n * SafeLot(r)
             /\ n > 1 =>
                  /\ distance * (n * SafeLot(r)) <= budget
                  /\ AffordableLots(r) # NoValue => n <= AffordableLots(r)
<1> DEFINE lot == SafeLot(r)
           lots == IF budget > 0 THEN budget \div (distance * lot) ELSE 0
           n == AtLeast(Capped(AtLeast(lots, 1), AffordableLots(r)), 1)
<1>1. lot \in Nat \ {0}
  BY LotsAreSafe
<1>2. distance * lot \in Nat \ {0}
  BY <1>1, ProductsArePositive
<1>3. lots \in Nat /\ (lots # 0 => (distance * lot) * lots <= budget)
  BY <1>2, QuotientIsWithin
<1>4. AffordableLots(r) # NoValue => AffordableLots(r) \in Nat
  BY AffordableFacts
<1>5. SizeByRisk(r, budget, distance) = n * lot
  BY DEF SizeByRisk
<1> HIDE DEF lots, lot
<1>6. /\ n \in Nat \ {0}
      /\ n > 1 => n <= lots /\ (AffordableLots(r) # NoValue => n <= AffordableLots(r))
  BY <1>3, <1>4 DEF AtLeast, AtMost, Capped
<1> HIDE DEF n
<1>7. ASSUME n > 1 PROVE distance * (n * lot) <= budget
  <2>1. lots # 0 /\ n <= lots
    BY <1>3, <1>6, <1>7
  <2>2. (distance * lot) * n <= (distance * lot) * lots
    BY <1>2, <1>3, <1>6, <2>1, ProductsGrow
  <2>3. distance * (n * lot) = (distance * lot) * n
    BY <1>1, <1>6
  <2>4. /\ (distance * lot) * n \in Int /\ (distance * lot) * lots \in Int
    BY <1>2, <1>3, <1>6
  <2> QED BY <1>3, <2>1, <2>2, <2>3, <2>4
<1> QED BY <1>5, <1>6, <1>7 DEF lot

\* The distances the modes size by.
LEMMA DistanceTypes ==
    ASSUME NEW r \in Request
    PROVE  /\ Priced(r) => RiskDistance(r) \in Int
           /\ r.atr # NoValue /\ r.delta # NoValue => AtrDistance(r) \in Int
           /\ Priced(r) /\ r.iv # NoValue => IvDistance(r) \in Int
<1>1. /\ r.stop \in Int /\ r.flat \in BOOLEAN /\ r.multiplier \in Nat
      /\ r.price # NoValue => r.price \in Nat
      /\ r.atr # NoValue => r.atr \in Nat
      /\ r.delta # NoValue => r.delta \in Int
      /\ r.iv # NoValue => r.iv \in Nat
  BY DEF Request, Known, Amounts
<1>2. Priced(r) => RiskDistance(r) \in Int
  BY <1>1 DEF Priced, RiskDistance
<1>3. ASSUME r.atr # NoValue, r.delta # NoValue PROVE AtrDistance(r) \in Int
  <2>1. (IF r.delta < 0 THEN -r.delta ELSE r.delta) \in Int
    BY <1>1, <1>3
  <2> QED BY <1>1, <1>3, <2>1 DEF AtrDistance
<1>4. ASSUME Priced(r), r.iv # NoValue PROVE IvDistance(r) \in Int
  <2>1. r.price * r.iv * r.multiplier \in Int
    BY <1>1, <1>4 DEF Priced
  <2> QED BY <2>1, QuotientIsWithin DEF IvDistance
<1> QED BY <1>2, <1>3, <1>4

\* The fraction Kelly stakes is a quarter of the capital at most.
LEMMA KellyFacts ==
    ASSUME NEW r \in Request, r.wins # NoValue, r.lost # NoValue, r.won \notin {NoValue, 0},
           r.capital # NoValue
    PROVE  /\ KellyPercent(r) * r.capital \in Int
           /\ KellyPercent(r) * r.capital <= 25 * r.capital
<1> DEFINE w == AtMost(AtLeast(r.wins, 0), 100)
           loss == IF r.lost < 0 THEN -r.lost ELSE r.lost
           half == (w * r.won - (100 - w) * loss) \div (2 * r.won)
<1>1. /\ r.wins \in Int /\ r.lost \in Int /\ r.won \in Nat \ {0} /\ r.capital \in Nat
  BY DEF Request, Known, Amounts
<1>2. w \in Int /\ loss \in Int
  BY <1>1 DEF AtLeast, AtMost
<1> HIDE DEF w, loss
<1>3. w * r.won - (100 - w) * loss \in Int /\ 2 * r.won \in Nat \ {0}
  BY <1>1, <1>2
<1>4. half \in Int
  BY <1>3, QuotientIsWithin
<1>5. KellyPercent(r) = AtMost(AtLeast(half, 0), 25)
  BY DEF KellyPercent, w, loss
<1> HIDE DEF half
<1>6. KellyPercent(r) \in Nat /\ KellyPercent(r) <= 25
  BY <1>4, <1>5 DEF AtLeast, AtMost
<1>7. r.capital * KellyPercent(r) <= r.capital * 25
  BY <1>1, <1>6, ProductsGrow
<1> QED BY <1>1, <1>6, <1>7

\* Sized by a stop, a single lot or as many as the budget and the capital allow.
LEMMA SizeByStopFacts ==
    ASSUME NEW r \in Request, NEW budget \in Int
    PROVE  \E n \in Nat \ {0} :
             /\ SizeByStop(r, budget) = n * SafeLot(r)
             /\ n > 1 =>
                  /\ RiskDistance(r) * (n * SafeLot(r)) <= budget
                  /\ AffordableLots(r) # NoValue => n <= AffordableLots(r)
<1>1. SafeLot(r) \in Nat \ {0}
  BY LotsAreSafe
<1>2. CASE Priced(r) /\ RiskDistance(r) > 0
  <2>1. RiskDistance(r) \in Nat \ {0}
    BY <1>2, DistanceTypes
  <2> QED BY <1>2, <2>1, SizeByRiskFacts DEF SizeByStop
<1>3. CASE ~(Priced(r) /\ RiskDistance(r) > 0)
  <2>1. SizeByStop(r, budget) = 1 * SafeLot(r)
    BY <1>1, <1>3 DEF SizeByStop, OneLot
  <2> QED BY <2>1
<1> QED BY <1>2, <1>3

\* The risk a mode sizes by, when more than one lot is taken.
RiskIsKept(r, q) ==
    /\ r.mode = "RISK_BASED" => RiskDistance(r) * q <= 100 * r.risk
    /\ r.mode = "ATR_BASED" => AtrDistance(r) * q <= 100 * r.risk
    /\ r.mode = "IV_BASED" => IvDistance(r) * q <= 100 * r.risk
    /\ r.mode = "KELLY" => RiskDistance(r) * q <= 25 * r.capital

\* Without a position, every mode gives whole lots, and beyond one keeps its limits.
LEMMA ModesKeepTheirLimits ==
    ASSUME NEW r \in Request, r.held <= 0, DefaultQuantity(r) # NoValue
    PROVE  \E n \in Nat \ {0} :
             /\ DefaultQuantity(r) = n * SafeLot(r)
             /\ n > 1 =>
                  /\ RiskIsKept(r, n * SafeLot(r))
                  /\ r.mode # "FIXED" /\ AffordableLots(r) # NoValue => n <= AffordableLots(r)
<1>1. /\ SafeLot(r) \in Nat \ {0} /\ 100 * r.risk \in Int /\ r.mode \in SizingModes
      /\ r.lots \in Int /\ r.held \in Int
  BY LotsAreSafe DEF Request
<1>2. CASE r.mode = "CAPITAL_BASED"
  <2>1. DefaultQuantity(r) = CapitalBased(r)
    BY <1>1, <1>2 DEF DefaultQuantity
  <2>2. CASE AffordableLots(r) = NoValue \/ AffordableLots(r) = 0
    <3>1. DefaultQuantity(r) = 1 * SafeLot(r)
      BY <1>1, <2>1, <2>2 DEF CapitalBased, OneLot
    <3> QED BY <3>1
  <2>3. CASE ~(AffordableLots(r) = NoValue \/ AffordableLots(r) = 0)
    <3>1. AffordableLots(r) \in Nat \ {0}
      BY <2>3, AffordableFacts
    <3>2. DefaultQuantity(r) = AffordableLots(r) * SafeLot(r)
      BY <2>1, <2>3 DEF CapitalBased
    <3> QED BY <1>2, <3>1, <3>2 DEF RiskIsKept
  <2> QED BY <2>2, <2>3
<1>3. CASE r.mode = "RISK_BASED"
  <2>1. DefaultQuantity(r) = SizeByStop(r, 100 * r.risk)
    BY <1>1, <1>3 DEF DefaultQuantity
  <2> QED BY <1>1, <1>3, <2>1, SizeByStopFacts DEF RiskIsKept
<1>4. CASE r.mode = "ATR_BASED"
  <2>1. DefaultQuantity(r) = AtrBased(r)
    BY <1>1, <1>4 DEF DefaultQuantity
  <2>2. CASE Priced(r) /\ r.atr # NoValue /\ r.delta # NoValue /\ AtrDistance(r) > 0
    <3>1. AtrDistance(r) \in Nat \ {0}
      BY <2>2, DistanceTypes
    <3>2. DefaultQuantity(r) = SizeByRisk(r, 100 * r.risk, AtrDistance(r))
      BY <2>1, <2>2 DEF AtrBased
    <3> QED BY <1>1, <1>4, <3>1, <3>2, SizeByRiskFacts DEF RiskIsKept
  <2>3. CASE ~(Priced(r) /\ r.atr # NoValue /\ r.delta # NoValue /\ AtrDistance(r) > 0)
    <3>1. DefaultQuantity(r) = 1 * SafeLot(r)
      BY <1>1, <2>1, <2>3 DEF AtrBased, OneLot
    <3> QED BY <3>1
  <2> QED BY <2>2, <2>3
<1>5. CASE r.mode = "IV_BASED"
  <2>1. DefaultQuantity(r) = IvBased(r)
    BY <1>1, <1>5 DEF DefaultQuantity
  <2>2. CASE Priced(r) /\ r.iv # NoValue /\ IvDistance(r) > 0
    <3>1. IvDistance(r) \in Nat \ {0}
      BY <2>2, DistanceTypes
    <3>2. DefaultQuantity(r) = SizeByRisk(r, 100 * r.risk, IvDistance(r))
      BY <2>1, <2>2 DEF IvBased
    <3> QED BY <1>1, <1>5, <3>1, <3>2, SizeByRiskFacts DEF RiskIsKept
  <2>3. CASE ~(Priced(r) /\ r.iv # NoValue /\ IvDistance(r) > 0)
    <3>1. DefaultQuantity(r) = 1 * SafeLot(r)
      BY <1>1, <2>1, <2>3 DEF IvBased, OneLot
    <3> QED BY <3>1
  <2> QED BY <2>2, <2>3
<1>6. CASE r.mode = "KELLY"
  <2>1. DefaultQuantity(r) = KellyBased(r)
    BY <1>1, <1>6 DEF DefaultQuantity
  <2> DEFINE missing == \/ r.trades = 0 \/ r.capital = NoValue \/ r.capital = 0
                        \/ r.lost = NoValue \/ r.lost = 0 \/ r.wins = NoValue
             budget == KellyPercent(r) * r.capital
  <2>2. CASE missing
    <3>1. DefaultQuantity(r) = 1 * SafeLot(r)
      BY <1>1, <2>1, <2>2 DEF KellyBased, OneLot
    <3> QED BY <3>1
  <2>3. CASE ~missing
    <3>1. ~KellyRaises(r) /\ DefaultQuantity(r) = SizeByStop(r, budget)
      BY <2>1, <2>3 DEF KellyBased
    <3>2. /\ r.capital \in Nat \ {0} /\ r.trades \in Nat \ {0}
          /\ r.lost # NoValue /\ r.wins # NoValue
      BY <2>3 DEF Request, Known, Amounts
    <3>3. r.won \notin {NoValue, 0}
      BY <2>3, <3>1, <3>2, NoValueAssumption DEF KellyRaises
    <3>4. r.capital # NoValue
      BY <2>3
    <3>5. budget \in Int /\ budget <= 25 * r.capital
      BY <3>2, <3>3, <3>4, KellyFacts
    <3> HIDE DEF budget
    <3>6. PICK n \in Nat \ {0} :
             /\ SizeByStop(r, budget) = n * SafeLot(r)
             /\ n > 1 =>
                  /\ RiskDistance(r) * (n * SafeLot(r)) <= budget
                  /\ AffordableLots(r) # NoValue => n <= AffordableLots(r)
      BY <3>5, SizeByStopFacts
    <3>7. ASSUME n > 1 PROVE RiskDistance(r) * (n * SafeLot(r)) <= 25 * r.capital
      <4>1. CASE Priced(r)
        <5>1. RiskDistance(r) \in Int
          BY <4>1, DistanceTypes
        <5>2. RiskDistance(r) * (n * SafeLot(r)) \in Int
          BY <1>1, <5>1
        <5> QED BY <3>2, <3>5, <3>6, <3>7, <5>2
      <4>2. CASE ~Priced(r)
        <5>1. n * SafeLot(r) = SafeLot(r)
          BY <3>6, <4>2 DEF SizeByStop, OneLot
        <5> QED BY <1>1, <3>7, <5>1
      <4> QED BY <4>1, <4>2
    <3> QED BY <1>6, <3>1, <3>6, <3>7 DEF RiskIsKept
  <2> QED BY <2>2, <2>3
<1>7. CASE r.mode = "FIXED"
  <2>1. DefaultQuantity(r) = AtLeast(r.lots, 1) * SafeLot(r)
    BY <1>1, <1>7 DEF DefaultQuantity
  <2>2. AtLeast(r.lots, 1) \in Nat \ {0}
    BY <1>1 DEF AtLeast
  <2> QED BY <1>7, <2>1, <2>2 DEF RiskIsKept
<1> QED BY <1>1, <1>2, <1>3, <1>4, <1>5, <1>6, <1>7 DEF SizingModes

\* What is sized is the answer to a request.
SizedInv ==
    sized = NothingSized
        \/ \E r \in Requests : sized = [of |-> r, quantity |-> DefaultQuantity(r)]

\* The answer to any request keeps to the capital and to the risk.
LEMMA AnswersKeepTheirLimits ==
    ASSUME SizedInv
    PROVE  QuantityKeepsItsLimits
<1> SUFFICES ASSUME Answered PROVE QuantityKeepsItsLimits
  BY DEF QuantityKeepsItsLimits, WholeLots, WithinCapital, WithinRisk
<1>1. PICK r \in Requests : sized = [of |-> r, quantity |-> DefaultQuantity(r)]
  BY DEF Answered, SizedInv
<1> DEFINE q == DefaultQuantity(r)
           lot == SafeLot(r)
<1>2. r \in Request /\ sized.of = r /\ sized.quantity = q /\ q # NoValue
  BY <1>1, RequestsAssumption DEF Answered
<1>3. lot \in Nat \ {0} /\ r.held \in Int
  BY <1>2, LotsAreSafe DEF Request
<1>4. CASE r.held > 0
  <2>1. q = r.held /\ ~(r.held <= 0)
    BY <1>3, <1>4 DEF DefaultQuantity
  <2> QED BY <1>2, <1>4, <2>1
          DEF QuantityKeepsItsLimits, WholeLots, WithinCapital, WithinRisk
<1>5. CASE ~(r.held > 0)
  <2>1. r.held <= 0
    BY <1>3, <1>5
  <2>2. PICK n \in Nat \ {0} :
             /\ q = n * lot
             /\ n > 1 =>
                  /\ RiskIsKept(r, n * lot)
                  /\ r.mode # "FIXED" /\ AffordableLots(r) # NoValue => n <= AffordableLots(r)
    BY <1>2, <2>1, ModesKeepTheirLimits
  <2> HIDE DEF q, lot
  <2>3. q % lot = 0 /\ q >= lot /\ (q > lot => n > 1)
    BY <1>3, <2>2, MultiplesLeaveNothing
  <2>4. WholeLots
    BY <1>2, <1>5, <2>3 DEF WholeLots, lot
  <2>5. WithinRisk
    BY <1>2, <2>2, <2>3 DEF WithinRisk, RiskIsKept, lot
  <2>6. ASSUME r.mode # "FIXED", n > 1, r.price # NoValue, r.capital # NoValue
        PROVE  100 * r.price * q <= r.capital * r.percent - 100 * r.reserve
    <3>1. CASE AffordableLots(r) # NoValue
      BY <1>2, <2>2, <2>6, <3>1, AffordableLotsFit DEF lot
    <3>2. CASE AffordableLots(r) = NoValue
      <4>1. r.price = 0
        <5>1. r.price \in Nat /\ r.capital \in Nat /\ r.percent \in Nat /\ r.reserve \in Nat
          BY <1>2, <2>6 DEF Request, Known, Amounts
        <5>2. Allotted(r) \in Nat
          BY <5>1 DEF Allotted, AtLeast
        <5>3. SUFFICES ASSUME r.price # 0 PROVE AffordableLots(r) # NoValue
          BY <3>2
        <5>4. 100 * r.price \in Nat \ {0}
          BY <5>1, <5>3
        <5>5. 100 * r.price * SafeLot(r) \in Nat \ {0}
          BY <1>3, <5>4, ProductsArePositive DEF lot
        <5>6. Allotted(r) \div (100 * r.price * SafeLot(r)) \in Int
          BY <5>2, <5>5, QuotientIsWithin
        <5> QED BY <2>6, <5>3, <5>6, NoValueAssumption DEF AffordableLots
      <4>2. ~Priced(r)
        BY <4>1 DEF Priced
      <4>3. q = lot \/ q = NoValue
        BY <1>2, <1>5, <2>6, <3>2, <4>2
           DEF DefaultQuantity, CapitalBased, SizeByStop, AtrBased, IvBased, KellyBased, OneLot,
               Request, SizingModes, lot, q
      <4> QED BY <1>2, <1>3, <2>2, <2>6, <4>3
    <3> QED BY <3>1, <3>2
  <2>7. WithinCapital
    BY <1>2, <2>3, <2>6 DEF WithinCapital, lot
  <2> QED BY <2>4, <2>5, <2>7 DEF QuantityKeepsItsLimits
<1> QED BY <1>4, <1>5

\* Whatever the mode and whichever inputs are missing, zero or negative, the quantity
\* is tradable and keeps to the capital and to the risk (default_quantity).
THEOREM SpecQuantityKeepsItsLimits == SizingSpec => []QuantityKeepsItsLimits
<1>1. SizingInit => SizedInv
  BY DEF SizingInit, SizedInv
<1>2. SizedInv /\ [SizingNext]_sized => SizedInv'
  BY DEF SizedInv, SizingNext, Ask
<1> QED BY <1>1, <1>2, AnswersKeepTheirLimits, PTL DEF SizingSpec

-----------------------------------------------------------------------------
(* The order flow.  The window of contributions is the end of the books    *)
(* seen; a tracker's counters tell for how long its price has stood; a     *)
(* tracker counts absorption only while the pressure is on its side.       *)

\* The book before the j-th.
BookBefore(j) == IF j = 1 THEN NoBook ELSE seen[j - 1]

\* The last of the books.
TopIsTheLast == top = IF seen = <<>> THEN NoBook ELSE seen[Len(seen)]

\* Each contribution in the window is that of one of the last books.
WindowIsTheEnd ==
    /\ Len(ofi) <= Len(seen)
    /\ \A i \in 1..Len(ofi) :
          ofi[i] = Contribution(BookBefore(Len(seen) - Len(ofi) + i),
                                seen[Len(seen) - Len(ofi) + i])

\* The books a side's tracker has been counting over.
BooksCounted(t) == 2 * t.refills + (IF t.awaiting THEN 2 ELSE 1)

\* The price stood at the anchor in as many books as the tracker counted over.
PriceStood ==
    \A s \in Sides : LET n == BooksCounted(iceberg[s]) IN
        IF seen = <<>> THEN iceberg[s].refills = 0 /\ iceberg[s].anchor = NoBook
        ELSE /\ n <= Len(seen)
             /\ \A j \in (Len(seen) - n + 1)..Len(seen) : Price(seen[j], s) = iceberg[s].anchor

\* Absorption is counted under pressure of that side.
PressureIsOn ==
    \A s \in Sides : absorption[s].ticks > 0 => Total(ofi) * Favour(s) >= Threshold

FlowInv == FlowTypeOK /\ TopIsTheLast /\ WindowIsTheEnd /\ PriceStood /\ PressureIsOn

\* The function runs through the partial sums of the sequence, up to the m-th.
SumsUpTo(u, s, m) ==
    /\ u \in [0..m -> Int] /\ u[0] = 0
    /\ \A n \in 1..m : u[n] = u[n - 1] + s[n]

LEMMA SumsExist ==
    ASSUME NEW s \in Seq(Int)
    PROVE  \E u : SumsUpTo(u, s, Len(s))
<1> SUFFICES ASSUME \A u : ~SumsUpTo(u, s, Len(s)) PROVE FALSE
  OBVIOUS
<1> DEFINE T == {m \in 0..Len(s) : \A u : ~SumsUpTo(u, s, m)}
<1>1. PICK m \in T : \A y \in T : m <= y
  <2>1. T \in SUBSET Nat /\ T # {}
    OBVIOUS
  <2> HIDE DEF T
  <2> QED BY <2>1, LeastOfNaturals
<1>2. m \in 0..Len(s) /\ \A u : ~SumsUpTo(u, s, m)
  OBVIOUS
<1>3. m # 0
  <2>1. SumsUpTo([n \in 0..0 |-> 0], s, 0)
    BY DEF SumsUpTo
  <2> QED BY <1>2, <2>1
<1>4. m - 1 \in 0..Len(s) /\ m - 1 \notin T
  BY <1>1, <1>2, <1>3
<1>5. PICK u : SumsUpTo(u, s, m - 1)
  BY <1>4
<1> HIDE DEF T
<1> DEFINE next == [n \in 0..m |-> IF n = m THEN u[m - 1] + s[m] ELSE u[n]]
<1>6. u[m - 1] \in Int /\ s[m] \in Int
  BY <1>2, <1>3, <1>5 DEF SumsUpTo
<1>7. next \in [0..m -> Int]
  BY <1>2, <1>3, <1>5, <1>6 DEF SumsUpTo
<1>8. next[0] = 0 /\ \A n \in 1..m : next[n] = next[n - 1] + s[n]
  BY <1>2, <1>3, <1>5, <1>6 DEF SumsUpTo
<1> HIDE DEF next
<1>9. SumsUpTo(next, s, m)
  BY <1>7, <1>8 DEF SumsUpTo
<1> QED BY <1>2, <1>9

\* The total is the last partial sum.
LEMMA TotalFacts ==
    ASSUME NEW s \in Seq(Int)
    PROVE  \E u : SumsUpTo(u, s, Len(s)) /\ Total(s) = u[Len(s)]
<1> DEFINE N == Len(s)
           upTo == CHOOSE f : f = [n \in 0..N |-> IF n = 0 THEN 0 ELSE f[n - 1] + s[n]]
<1>1. N \in Nat
  OBVIOUS
<1>2. PICK u : SumsUpTo(u, s, N)
  BY SumsExist
<1>3. u = [n \in 0..N |-> IF n = 0 THEN 0 ELSE u[n - 1] + s[n]]
  BY <1>1, <1>2 DEF SumsUpTo
<1>4. upTo = [n \in 0..N |-> IF n = 0 THEN 0 ELSE upTo[n - 1] + s[n]]
  BY <1>3
<1>5. Total(s) = upTo[N]
  BY DEF Total
<1> HIDE DEF upTo
<1> DEFINE T == {n \in 0..N : upTo[n] # u[n]}
<1>6. ASSUME T # {} PROVE FALSE
  <2>1. PICK n \in T : \A y \in T : n <= y
    <3>1. T \in SUBSET Nat
      BY <1>1
    <3> HIDE DEF T
    <3> QED BY <1>6, <3>1, LeastOfNaturals
  <2>2. n \in 0..N /\ upTo[n] # u[n]
    OBVIOUS
  <2>3. upTo[n] = IF n = 0 THEN 0 ELSE upTo[n - 1] + s[n]
    BY <1>4, <2>2
  <2>4. u[n] = IF n = 0 THEN 0 ELSE u[n - 1] + s[n]
    BY <1>3, <2>2
  <2>5. n # 0 /\ n - 1 \in 0..N /\ n - 1 \notin T
    BY <1>1, <2>1, <2>2, <2>3, <2>4
  <2> QED BY <2>2, <2>3, <2>4, <2>5
<1>7. upTo[N] = u[N]
  BY <1>1, <1>6
<1> QED BY <1>2, <1>5, <1>7

LEMMA TotalType ==
    ASSUME NEW s \in Seq(Int)
    PROVE  Total(s) \in Int
<1>1. PICK u : SumsUpTo(u, s, Len(s)) /\ Total(s) = u[Len(s)]
  BY TotalFacts
<1> QED BY <1>1 DEF SumsUpTo

\* Of two sequences of one length, the one that is smaller at every place has the
\* smaller total.
LEMMA TotalsCompare ==
    ASSUME NEW s \in Seq(Int), NEW t \in Seq(Int), Len(s) = Len(t),
           \A i \in 1..Len(s) : s[i] <= t[i]
    PROVE  Total(s) <= Total(t)
<1> DEFINE N == Len(s)
<1>1. PICK u : SumsUpTo(u, s, N) /\ Total(s) = u[N]
  BY TotalFacts
<1>2. PICK v : SumsUpTo(v, t, N) /\ Total(t) = v[N]
  BY TotalFacts
<1> DEFINE T == {n \in 0..N : ~(u[n] <= v[n])}
<1>3. ASSUME T # {} PROVE FALSE
  <2>1. PICK n \in T : \A y \in T : n <= y
    <3>1. T \in SUBSET Nat
      OBVIOUS
    <3> HIDE DEF T
    <3> QED BY <1>3, <3>1, LeastOfNaturals
  <2>2. n \in 0..N /\ ~(u[n] <= v[n])
    OBVIOUS
  <2>3. n # 0
    BY <1>1, <1>2, <2>2 DEF SumsUpTo
  <2>4. n \in 1..N /\ n - 1 \in 0..N /\ u[n - 1] <= v[n - 1]
    BY <2>1, <2>2, <2>3
  <2>5. /\ u[n] = u[n - 1] + s[n] /\ v[n] = v[n - 1] + t[n]
        /\ u[n - 1] \in Int /\ v[n - 1] \in Int
    BY <1>1, <1>2, <2>4 DEF SumsUpTo
  <2>6. s[n] \in Int /\ t[n] \in Int /\ s[n] <= t[n]
    BY <2>4
  <2> QED BY <2>2, <2>4, <2>5, <2>6
<1>4. u[N] <= v[N]
  BY <1>3
<1> QED BY <1>1, <1>2, <1>4

\* What the entries gained one by one, the total gained.
LEMMA TotalTelescopes ==
    ASSUME NEW s \in Seq(Int), NEW v \in [0..Len(s) -> Int],
           \A i \in 1..Len(s) : s[i] = v[i] - v[i - 1]
    PROVE  Total(s) = v[Len(s)] - v[0]
<1> DEFINE N == Len(s)
<1>1. PICK u : SumsUpTo(u, s, N) /\ Total(s) = u[N]
  BY TotalFacts
<1> DEFINE T == {n \in 0..N : u[n] # v[n] - v[0]}
<1>2. ASSUME T # {} PROVE FALSE
  <2>1. PICK n \in T : \A y \in T : n <= y
    <3>1. T \in SUBSET Nat
      OBVIOUS
    <3> HIDE DEF T
    <3> QED BY <1>2, <3>1, LeastOfNaturals
  <2>2. n \in 0..N /\ u[n] # v[n] - v[0] /\ v[n] \in Int /\ v[0] \in Int
    OBVIOUS
  <2>3. n # 0
    BY <1>1, <2>2 DEF SumsUpTo
  <2>4. n \in 1..N /\ n - 1 \in 0..N /\ n - 1 \notin T /\ v[n - 1] \in Int
    <3>1. n \in 1..N /\ n - 1 \in 0..N
      BY <2>2, <2>3
    <3>2. v[n - 1] \in Int
      BY <3>1
    <3> HIDE DEF T
    <3> QED BY <2>1, <3>1, <3>2
  <2>6. u[n - 1] = v[n - 1] - v[0]
    BY <2>4
  <2>5. u[n] = u[n - 1] + s[n] /\ s[n] = v[n] - v[n - 1]
    BY <1>1, <2>4 DEF SumsUpTo
  <2> QED BY <2>2, <2>4, <2>5, <2>6
<1>3. u[N] = v[N] - v[0]
  BY <1>2
<1> QED BY <1>1, <1>3

\* Along a sequence whose neighbours do not fall, nothing falls.
LEMMA StepsAddUp ==
    ASSUME NEW s \in Seq(Int), \A i \in 1..(Len(s) - 1) : s[i] <= s[i + 1],
           NEW i \in 1..Len(s), NEW j \in i..Len(s)
    PROVE  s[i] <= s[j]
<1> DEFINE T == {n \in i..Len(s) : ~(s[i] <= s[n])}
<1>1. ASSUME T # {} PROVE FALSE
  <2>1. PICK n \in T : \A y \in T : n <= y
    <3>1. T \in SUBSET Nat
      OBVIOUS
    <3> HIDE DEF T
    <3> QED BY <1>1, <3>1, LeastOfNaturals
  <2>2. n \in i..Len(s) /\ ~(s[i] <= s[n]) /\ s[n] \in Int /\ s[i] \in Int
    OBVIOUS
  <2>3. n # i
    BY <2>2
  <2>4. n - 1 \in i..Len(s) /\ s[i] <= s[n - 1] /\ s[n - 1] \in Int
    BY <2>1, <2>2, <2>3
  <2>5. s[n - 1] <= s[(n - 1) + 1]
    BY <2>2, <2>3, <2>4
  <2> QED BY <2>2, <2>4, <2>5
<1> QED BY <1>1

\* A window's last entry is the new one, and those before it are the end of the old.
IsSlid(slid, s, x, size) ==
    /\ slid \in Seq(Int) /\ Len(slid) <= size
    /\ Len(slid) \in {Len(s), Len(s) + 1} /\ Len(slid) \in Nat \ {0}
    /\ slid[Len(slid)] = x
    /\ \A i \in 1..(Len(slid) - 1) : slid[i] = s[Len(s) + 1 - Len(slid) + i]

LEMMA SlideFacts ==
    ASSUME NEW s \in Seq(Int), NEW x \in Int, NEW size \in Nat \ {0}, Len(s) <= size
    PROVE  IsSlid(Slide(s, x, size), s, x, size)
<1> DEFINE longer == Append(s, x)
<1>1. /\ longer \in Seq(Int) /\ Len(longer) = Len(s) + 1 /\ longer[Len(s) + 1] = x
      /\ \A i \in 1..Len(s) : longer[i] = s[i]
      /\ longer # <<>>
  OBVIOUS
<1> HIDE DEF longer
<1>2. CASE Len(longer) > size
  <2> DEFINE tail == Tail(longer)
  <2>1. Slide(s, x, size) = tail
    BY <1>2 DEF Slide, longer
  <2>2. /\ tail \in Seq(Int) /\ Len(tail) = Len(longer) - 1
        /\ \A i \in 1..Len(tail) : tail[i] = longer[i + 1]
    BY <1>1, HeadTailProperties
  <2> HIDE DEF tail
  <2>3. Len(s) = size /\ Len(tail) = size
    BY <1>1, <1>2, <2>2
  <2>4. tail[Len(tail)] = x
    BY <1>1, <2>2, <2>3
  <2>5. ASSUME NEW i \in 1..(Len(tail) - 1) PROVE tail[i] = s[Len(s) + 1 - Len(tail) + i]
    <3>1. tail[i] = s[i + 1]
      BY <1>1, <2>2, <2>3
    <3>2. Len(s) + 1 - Len(tail) + i = i + 1
      BY <2>3
    <3> QED BY <3>1, <3>2
  <2>6. Len(tail) \in {Len(s), Len(s) + 1} /\ Len(tail) \in Nat \ {0} /\ Len(tail) <= size
    BY <2>3
  <2>7. IsSlid(tail, s, x, size)
    BY <2>2, <2>4, <2>5, <2>6 DEF IsSlid
  <2> QED BY <2>1, <2>7
<1>3. CASE ~(Len(longer) > size)
  <2>1. Slide(s, x, size) = longer
    BY <1>3 DEF Slide, longer
  <2>2. Len(longer) \in {Len(s), Len(s) + 1} /\ Len(longer) \in Nat \ {0} /\ Len(longer) <= size
    BY <1>1, <1>3
  <2>3. ASSUME NEW i \in 1..(Len(longer) - 1)
        PROVE  longer[i] = s[Len(s) + 1 - Len(longer) + i]
    <3>1. Len(s) + 1 - Len(longer) + i = i /\ i \in 1..Len(s)
      BY <1>1
    <3> QED BY <1>1, <3>1
  <2>4. IsSlid(longer, s, x, size)
    BY <1>1, <2>2, <2>3 DEF IsSlid
  <2> QED BY <2>1, <2>4
<1> QED BY <1>2, <1>3

LEMMA FlowInvInit == FlowInit => FlowInv
<1> USE WindowsAssumption, BooksAssumption
<1> SUFFICES ASSUME FlowInit PROVE FlowInv
  OBVIOUS
<1>1. FlowTypeOK
  BY DEF FlowInit, FlowTypeOK
<1>2. TopIsTheLast /\ WindowIsTheEnd
  BY DEF FlowInit, TopIsTheLast, WindowIsTheEnd
<1>3. PriceStood /\ PressureIsOn
  BY DEF FlowInit, PriceStood, PressureIsOn
<1> QED BY <1>1, <1>2, <1>3 DEF FlowInv

LEMMA ContributionType ==
    ASSUME NEW was \in Book \cup {NoBook}, NEW newer \in Book
    PROVE  Contribution(was, newer) \in Int
<1>1. /\ newer.bid \in Nat /\ newer.ask \in Nat /\ newer.bidQty \in Nat /\ newer.askQty \in Nat
  BY DEF Book
<1>2. CASE was = NoBook
  BY <1>2 DEF Contribution
<1>3. CASE was # NoBook
  <2>1. /\ was.bid \in Nat /\ was.ask \in Nat /\ was.bidQty \in Nat /\ was.askQty \in Nat
    BY <1>3 DEF Book
  <2>2. BidContribution(was, newer) \in Int
    BY <1>1, <2>1 DEF BidContribution
  <2>3. AskContribution(was, newer) \in Int
    BY <1>1, <2>1 DEF AskContribution
  <2> QED BY <1>3, <2>2, <2>3 DEF Contribution
<1> QED BY <1>2, <1>3

LEMMA DivisionFacts ==
    ASSUME NEW n \in Int, NEW d \in Nat \ {0}
    PROVE  n \div d \in Int /\ n % d \in 0..(d - 1) /\ n = d * (n \div d) + (n % d)
<1>1. n \div d \in Int
  OBVIOUS
<1>2. n % d \in 0..(d - 1)
  OBVIOUS
<1>3. n = d * (n \div d) + (n % d)
  OBVIOUS
<1> QED BY <1>1, <1>2, <1>3

\* The imbalance is a thousand times a fraction between -1 and 1.
LEMMA RawImbalanceType ==
    ASSUME NEW b \in Book
    PROVE  RawImbalance(b) \in -1000..1000
<1> DEFINE all == b.bidQty + b.askQty
           gap == b.bidQty - b.askQty
           many == 1000 * gap
           q == many \div all
           rest == many % all
<1>1. /\ b.bidQty \in Nat /\ b.askQty \in Nat
  BY DEF Book
<1>2. CASE all = 0
  BY <1>2 DEF RawImbalance
<1>3. CASE all # 0
  <2>1. all \in Nat \ {0} /\ gap \in Int /\ -all <= gap /\ gap <= all
    BY <1>1, <1>3
  <2>2. RawImbalance(b) = q
    BY <1>3 DEF RawImbalance
  <2> HIDE DEF all, gap
  <2>3. many \in Int /\ many = 1000 * gap
    BY <2>1
  <2> HIDE DEF many
  <2>4. q \in Int /\ rest \in 0..(all - 1) /\ many = all * q + rest
    <3>1. all \in Nat \ {0} /\ many \in Int
      BY <2>1, <2>3
    <3>2. /\ many \div all \in Int /\ many % all \in 0..(all - 1)
          /\ many = all * (many \div all) + (many % all)
      BY <3>1, DivisionFacts
    <3> QED BY <3>2
  <2> HIDE DEF rest, q
  <2>5. rest \in Nat /\ rest < all /\ q \in Int /\ 1000 * gap = all * q + rest
    BY <2>1, <2>3, <2>4
  <2>6. q <= 1000
    <3> SUFFICES ASSUME q >= 1001 PROVE FALSE
      BY <2>5
    <3>1. all * 1001 <= all * q /\ all * q \in Int
      BY <2>1, <2>5, ProductsGrow
    <3> QED BY <2>1, <2>5, <3>1
  <2>7. q >= -1000
    <3> SUFFICES ASSUME q <= -1001 PROVE FALSE
      BY <2>5
    <3>1. all * q <= all * (-1001) /\ all * q \in Int
      BY <2>1, <2>5, ProductsGrow
    <3> QED BY <2>1, <2>5, <3>1
  <2> QED BY <2>2, <2>5, <2>6, <2>7
<1> QED BY <1>2, <1>3

\* A tracker counts over one more book when the price stands, from one when it moves.
Tracker == [anchor : Nat \cup {NoBook}, peak : Nat, awaiting : BOOLEAN, refills : Nat]

CountsOn(new, t, price) ==
    /\ new \in Tracker /\ new.anchor = price
    /\ price # t.anchor => BooksCounted(new) = 1
    /\ price = t.anchor => BooksCounted(new) <= BooksCounted(t) + 1

LEMMA IcebergUpdateFacts ==
    ASSUME NEW t \in Tracker, NEW price \in Nat, NEW qty \in Nat
    PROVE  CountsOn(IcebergUpdate(t, price, qty), t, price)
<1> DEFINE new == IcebergUpdate(t, price, qty)
<1> SUFFICES CountsOn(new, t, price)
  OBVIOUS
<1>1. t.peak \in Nat /\ t.awaiting \in BOOLEAN /\ t.refills \in Nat
  BY DEF Tracker
<1>2. CASE price # t.anchor
  <2>1. new = [anchor |-> price, peak |-> qty, awaiting |-> FALSE, refills |-> 0]
    BY <1>2 DEF IcebergUpdate
  <2> HIDE DEF new
  <2> QED BY <1>2, <2>1 DEF BooksCounted, CountsOn, Tracker
<1>3. CASE price = t.anchor /\ ~t.awaiting /\ 100 * qty <= 60 * t.peak
  <2>1. new = [t EXCEPT !.awaiting = TRUE]
    BY <1>3 DEF IcebergUpdate
  <2> HIDE DEF new
  <2>2. new \in Tracker /\ new.anchor = t.anchor /\ new.awaiting = TRUE /\ new.refills = t.refills
    BY <2>1 DEF Tracker
  <2> QED BY <1>1, <1>3, <2>2 DEF BooksCounted, CountsOn, Tracker
<1>4. CASE price = t.anchor /\ ~t.awaiting /\ ~(100 * qty <= 60 * t.peak)
  <2>1. new = [t EXCEPT !.peak = IF qty > t.peak THEN qty ELSE t.peak]
    BY <1>4 DEF IcebergUpdate
  <2> HIDE DEF new
  <2>2. /\ new \in Tracker /\ new.anchor = t.anchor /\ new.awaiting = t.awaiting
        /\ new.refills = t.refills
    BY <1>1, <2>1 DEF Tracker
  <2> QED BY <1>1, <1>4, <2>2 DEF BooksCounted, CountsOn, Tracker
<1>5. CASE price = t.anchor /\ t.awaiting /\ 100 * qty >= 85 * t.peak
  <2>1. new = [t EXCEPT !.refills = t.refills + 1, !.awaiting = FALSE]
    BY <1>5 DEF IcebergUpdate
  <2> HIDE DEF new
  <2> DEFINE more == t.refills + 1
  <2>3. more \in Nat /\ new = [t EXCEPT !.refills = more, !.awaiting = FALSE]
    BY <1>1, <2>1
  <2> HIDE DEF more
  <2>2. new \in Tracker /\ new.anchor = t.anchor /\ new.awaiting = FALSE /\ new.refills = more
    BY <2>3 DEF Tracker
  <2> QED BY <1>1, <1>5, <2>2 DEF more, BooksCounted, CountsOn, Tracker
<1>6. CASE price = t.anchor /\ t.awaiting /\ ~(100 * qty >= 85 * t.peak)
  <2>1. new = t
    BY <1>6 DEF IcebergUpdate
  <2> HIDE DEF new
  <2> QED BY <1>1, <1>6, <2>1 DEF BooksCounted, CountsOn, Tracker
<1> QED BY <1>1, <1>2, <1>3, <1>4, <1>5, <1>6

LEMMA AbsorptionUpdateFacts ==
    ASSUME NEW t \in [anchor : Nat \cup {NoBook}, ticks : Nat], NEW s \in Sides,
           NEW flow \in Int, NEW price \in Nat
    PROVE  LET new == AbsorptionUpdate(t, s, flow, price) IN
           /\ new \in [anchor : Nat \cup {NoBook}, ticks : Nat]
           /\ new.ticks > 0 => flow * Favour(s) >= Threshold
<1>1. Favour(s) \in Int /\ Threshold \in Int
  BY WindowsAssumption DEF Favour
<1>2. flow * Favour(s) \in Int
  BY <1>1 DEF Favour, Sides
<1>3. CASE flow * Favour(s) < Threshold
  BY <1>3 DEF AbsorptionUpdate
<1>4. CASE ~(flow * Favour(s) < Threshold)
  BY <1>1, <1>2, <1>4 DEF AbsorptionUpdate
<1> QED BY <1>3, <1>4

LEMMA FlowInvStep ==
    ASSUME FlowInv, [FlowNext]_flowVars
    PROVE  FlowInv'
<1> USE BooksAssumption, WindowsAssumption
<1>1. CASE UNCHANGED flowVars
  BY <1>1 DEF flowVars, FlowInv, FlowTypeOK, TopIsTheLast, WindowIsTheEnd, BookBefore, PriceStood,
              PressureIsOn
<1>2. ASSUME NEW b \in Books, BookTick(b) PROVE FlowInv'
  <2>1. /\ b \in Book /\ b.bid \in Nat /\ b.ask \in Nat /\ b.bidQty \in Nat /\ b.askQty \in Nat
    BY DEF Book
  <2>2. /\ top \in Book \cup {NoBook}
        /\ ofi \in Seq(Int) /\ Len(ofi) <= OfiWindow
        /\ spreads \in Seq(Int) /\ Len(spreads) <= SpreadWindow
        /\ imbalance \in -1000..1000
        /\ iceberg \in [Sides -> Tracker]
        /\ absorption \in [Sides -> [anchor : Nat \cup {NoBook}, ticks : Nat]]
        /\ seen \in Seq(Book)
    BY DEF FlowInv, FlowTypeOK, Tracker
  <2>3. IsSlid(ofi', ofi, Contribution(top, b), OfiWindow)
    <3>1. Contribution(top, b) \in Int
      BY <2>1, <2>2, ContributionType
    <3> QED BY <1>2, <2>2, <3>1, SlideFacts DEF BookTick
  <2>4. IsSlid(spreads', spreads, b.ask - b.bid, SpreadWindow)
    <3>1. b.ask - b.bid \in Int
      BY <2>1
    <3> QED BY <1>2, <2>2, <3>1, SlideFacts DEF BookTick
  <2>5. ofi' \in Seq(Int) /\ Len(ofi') <= OfiWindow /\ Len(ofi') \in Nat \ {0}
    BY <2>3 DEF IsSlid
  <2>6. spreads' \in Seq(Int) /\ Len(spreads') <= SpreadWindow
    BY <2>4 DEF IsSlid
  <2>7. /\ seen' = Append(seen, b) /\ seen' \in Seq(Book) /\ Len(seen') = Len(seen) + 1
        /\ seen'[Len(seen')] = b /\ seen' # <<>> /\ Len(seen) \in Nat
        /\ \A j \in 1..Len(seen) : seen'[j] = seen[j]
    <3>1. seen' = Append(seen, b) /\ Len(seen) \in Nat
      BY <1>2, <2>2 DEF BookTick
    <3>2. /\ seen' \in Seq(Book) /\ Len(seen') = Len(seen) + 1
          /\ seen'[Len(seen) + 1] = b
          /\ \A j \in 1..Len(seen) : seen'[j] = seen[j]
      BY <2>1, <2>2, <3>1
    <3> QED BY <3>1, <3>2
  <2>8. imbalance' \in -1000..1000
    <3> DEFINE raw == RawImbalance(b)
               sum == 3 * raw + 7 * imbalance
    <3>1. raw \in -1000..1000
      BY <2>1, RawImbalanceType
    <3> HIDE DEF raw
    <3>2. sum \in Int /\ -10000 <= sum /\ sum <= 10000
      BY <2>2, <3>1
    <3>3. imbalance' = sum \div 10
      BY <1>2 DEF BookTick, raw
    <3> HIDE DEF sum
    <3> QED BY <3>2, <3>3
  <2>9. \A s \in Sides : /\ Price(b, s) \in Nat /\ Quantity(b, s) \in Nat
                         /\ CountsOn(iceberg'[s], iceberg[s], Price(b, s))
    <3> SUFFICES ASSUME NEW s \in Sides
                 PROVE  /\ Price(b, s) \in Nat /\ Quantity(b, s) \in Nat
                        /\ CountsOn(iceberg'[s], iceberg[s], Price(b, s))
      OBVIOUS
    <3>1. Price(b, s) \in Nat /\ Quantity(b, s) \in Nat
      BY <2>1 DEF Price, Quantity
    <3>2. iceberg'[s] = IcebergUpdate(iceberg[s], Price(b, s), Quantity(b, s))
      BY <1>2 DEF BookTick
    <3>3. iceberg[s] \in Tracker
      BY <2>2
    <3> QED BY <3>1, <3>2, <3>3, IcebergUpdateFacts
  <2>10. iceberg' \in [Sides -> Tracker]
    <3>1. \A s \in Sides : iceberg'[s] \in Tracker
      BY <2>9 DEF CountsOn
    <3>2. iceberg' = [s \in Sides |-> IcebergUpdate(iceberg[s], Price(b, s), Quantity(b, s))]
      BY <1>2 DEF BookTick
    <3> QED BY <3>1, <3>2
  <2>11. \A s \in Sides : /\ absorption'[s] \in [anchor : Nat \cup {NoBook}, ticks : Nat]
                          /\ absorption'[s].ticks > 0 => Total(ofi') * Favour(s) >= Threshold
    <3> SUFFICES ASSUME NEW s \in Sides
                 PROVE  /\ absorption'[s] \in [anchor : Nat \cup {NoBook}, ticks : Nat]
                        /\ absorption'[s].ticks > 0 => Total(ofi') * Favour(s) >= Threshold
      OBVIOUS
    <3> DEFINE flow == Total(ofi')
    <3>1. flow \in Int
      BY <2>5, TotalType
    <3>2. absorption'[s] = AbsorptionUpdate(absorption[s], s, flow, Price(b, s))
      BY <1>2 DEF BookTick
    <3>3. absorption[s] \in [anchor : Nat \cup {NoBook}, ticks : Nat] /\ Price(b, s) \in Nat
      BY <2>2, <2>9
    <3> HIDE DEF flow
    <3>4. /\ absorption'[s] \in [anchor : Nat \cup {NoBook}, ticks : Nat]
          /\ absorption'[s].ticks > 0 => flow * Favour(s) >= Threshold
      BY <3>1, <3>2, <3>3, AbsorptionUpdateFacts
    <3> QED BY <3>4 DEF flow
  <2>12. absorption' \in [Sides -> [anchor : Nat \cup {NoBook}, ticks : Nat]]
    <3>1. absorption' = [s \in Sides |->
                           AbsorptionUpdate(absorption[s], s, Total(ofi'), Price(b, s))]
      BY <1>2 DEF BookTick
    <3> QED BY <2>11, <3>1
  <2>13. FlowTypeOK'
    <3>1. top' \in Book
      BY <1>2, <2>1 DEF BookTick
    <3> QED BY <2>5, <2>6, <2>7, <2>8, <2>10, <2>12, <3>1 DEF FlowTypeOK, Tracker
  <2>14. TopIsTheLast'
    BY <1>2, <2>7 DEF TopIsTheLast, BookTick
  <2>15. WindowIsTheEnd'
    <3> DEFINE n == Len(ofi)
               k == Len(ofi')
               m == Len(seen)
    <3>1. /\ n \in Nat /\ k \in Nat \ {0} /\ k \in {n, n + 1} /\ n <= m /\ m \in Nat
          /\ Len(seen') = m + 1 /\ k <= m + 1
      BY <2>2, <2>3, <2>7 DEF IsSlid, FlowInv, WindowIsTheEnd
    <3> SUFFICES ASSUME NEW i \in 1..k
                 PROVE  ofi'[i] = Contribution(IF m + 1 - k + i = 1 THEN NoBook
                                               ELSE seen'[m + 1 - k + i - 1],
                                               seen'[m + 1 - k + i])
      BY <3>1 DEF WindowIsTheEnd, BookBefore
    <3>2. CASE i = k
      <4>1. m + 1 - k + i = m + 1
        BY <3>1, <3>2
      <4>2. ofi'[i] = Contribution(top, b) /\ seen'[m + 1] = b
        BY <2>3, <2>7, <3>2 DEF IsSlid
      <4>3. top = IF m + 1 = 1 THEN NoBook ELSE seen'[m]
        <5>1. CASE seen = <<>>
          BY <2>2, <5>1 DEF FlowInv, TopIsTheLast
        <5>2. CASE seen # <<>>
          <6>1. m # 0 /\ m \in 1..Len(seen)
            BY <2>2, <5>2
          <6>2. top = seen[m]
            BY <5>2 DEF FlowInv, TopIsTheLast
          <6> QED BY <2>7, <3>1, <6>1, <6>2
        <5> QED BY <5>1, <5>2
      <4>4. m + 1 - k + i - 1 = m
        BY <3>1, <3>2
      <4> DEFINE j == m + 1 - k + i
                 h == m + 1 - k + i - 1
      <4>5. j = m + 1 /\ h = m
        BY <4>1, <4>4
      <4> HIDE DEF j, h
      <4>6. (IF j = 1 THEN NoBook ELSE seen'[h]) = top /\ seen'[j] = b
        BY <4>2, <4>3, <4>5
      <4>7. ofi'[i] = Contribution(IF j = 1 THEN NoBook ELSE seen'[h], seen'[j])
        BY <4>2, <4>6
      <4> QED BY <4>7 DEF j, h
    <3>3. CASE i # k
      <4> DEFINE j == m + 1 - k + i
                 h == n + 1 - k + i
      <4>1. /\ i \in 1..(k - 1) /\ h \in 1..n /\ m - n + h = j /\ j \in 1..m
            /\ j # 1 => j - 1 \in 1..m
        BY <3>1, <3>3
      <4>2. ofi'[i] = ofi[h]
        BY <2>3, <4>1 DEF IsSlid
      <4>3. ofi[h] = Contribution(BookBefore(m - n + h), seen[m - n + h])
        BY <4>1 DEF FlowInv, WindowIsTheEnd
      <4>4. seen'[j] = seen[j] /\ (j # 1 => seen'[j - 1] = seen[j - 1])
        BY <2>7, <4>1
      <4>5. BookBefore(j) = IF j = 1 THEN NoBook ELSE seen'[j - 1]
        BY <4>4 DEF BookBefore
      <4>6. ofi'[i] = Contribution(BookBefore(j), seen[j])
        BY <4>1, <4>2, <4>3
      <4> HIDE DEF j
      <4>7. ofi'[i] = Contribution(IF j = 1 THEN NoBook ELSE seen'[j - 1], seen'[j])
        BY <4>4, <4>5, <4>6
      <4> QED BY <4>7 DEF j
    <3> QED BY <3>2, <3>3
  <2>16. PriceStood'
    <3> SUFFICES ASSUME NEW s \in Sides
                 PROVE  /\ BooksCounted(iceberg'[s]) <= Len(seen')
                        /\ \A j \in (Len(seen') - BooksCounted(iceberg'[s]) + 1)..Len(seen') :
                              Price(seen'[j], s) = iceberg'[s].anchor
      BY <2>7 DEF PriceStood, BooksCounted
    <3> DEFINE was == BooksCounted(iceberg[s])
               newer == BooksCounted(iceberg'[s])
               price == Price(b, s)
    <3>1. was \in Nat \ {0} /\ newer \in Nat \ {0}
      <4>1. \A t \in Tracker : BooksCounted(t) \in Nat \ {0}
        BY DEF Tracker, BooksCounted
      <4> QED BY <2>2, <2>10, <4>1
    <3>2. /\ iceberg'[s].anchor = price
          /\ price # iceberg[s].anchor => newer = 1
          /\ price = iceberg[s].anchor => newer <= was + 1
          /\ price \in Nat
      BY <2>9 DEF CountsOn
    <3>3. Price(seen'[Len(seen')], s) = price
      BY <2>7
    <3> HIDE DEF was, newer, price
    <3>4. CASE newer = 1
      <4>1. newer <= Len(seen')
        BY <2>7, <3>4
      <4>2. \A j \in (Len(seen') - newer + 1)..Len(seen') : j = Len(seen')
        BY <2>7, <3>4
      <4> QED BY <3>2, <3>3, <4>1, <4>2 DEF newer
    <3>5. CASE newer # 1
      <4>1. price = iceberg[s].anchor /\ newer <= was + 1
        BY <3>2, <3>5
      <4>2. seen # <<>>
        BY <3>2, <4>1 DEF FlowInv, PriceStood
      <4>3. /\ was <= Len(seen)
            /\ \A j \in (Len(seen) - was + 1)..Len(seen) : Price(seen[j], s) = price
        BY <4>1, <4>2 DEF FlowInv, PriceStood, was
      <4>4. newer <= Len(seen')
        BY <2>7, <3>1, <4>1, <4>3
      <4>5. ASSUME NEW j \in (Len(seen') - newer + 1)..Len(seen')
            PROVE  Price(seen'[j], s) = price
        <5>1. CASE j = Len(seen')
          BY <3>3, <5>1
        <5>2. CASE j # Len(seen')
          <6>2. Len(seen) \in Nat /\ Len(seen') = Len(seen) + 1 /\ was <= Len(seen)
            BY <2>7, <4>3
          <6>3. j \in Int /\ j >= Len(seen) + 2 - newer /\ j <= Len(seen)
            BY <3>1, <5>2, <6>2
          <6>1. j \in (Len(seen) - was + 1)..Len(seen) /\ j \in 1..Len(seen)
            BY <3>1, <4>1, <6>2, <6>3
          <6> QED BY <2>7, <4>3, <6>1
        <5> QED BY <5>1, <5>2
      <4> QED BY <3>2, <4>4, <4>5 DEF newer
    <3> QED BY <3>4, <3>5
  <2>17. PressureIsOn'
    BY <2>11 DEF PressureIsOn, Favour
  <2> QED BY <2>13, <2>14, <2>15, <2>16, <2>17 DEF FlowInv
<1> QED BY <1>1, <1>2 DEF FlowNext

\* The inductive invariant of the order-flow analyser.
THEOREM SpecFlowInv == FlowSpec => []FlowInv
BY FlowInvInit, FlowInvStep, PTL DEF FlowSpec

\* The last books are the end of those seen.
LEMMA LatestFacts ==
    ASSUME seen \in Seq(Book), NEW n \in Nat, n <= Len(seen)
    PROVE  \A i \in 1..n : Latest(n)[i] = seen[Len(seen) - n + i] /\ Latest(n)[i] \in Book
<1> DEFINE m == Len(seen) - n + 1
<1>1. m \in Int /\ Len(seen) \in Nat /\ \A i \in m..Len(seen) : seen[i] \in Book
  OBVIOUS
<1>2. \A i \in 1..(Len(seen) - m + 1) : SubSeq(seen, m, Len(seen))[i] = seen[m + i - 1]
  BY <1>1, SubSeqProperties
<1> SUFFICES ASSUME NEW i \in 1..n
             PROVE  Latest(n)[i] = seen[Len(seen) - n + i] /\ Latest(n)[i] \in Book
  OBVIOUS
<1>3. i \in 1..(Len(seen) - m + 1) /\ m + i - 1 = Len(seen) - n + i /\ m + i - 1 \in m..Len(seen)
  BY <1>1
<1>4. Latest(n) = SubSeq(seen, m, Len(seen))
  BY DEF Latest
<1> HIDE DEF m
<1> QED BY <1>1, <1>2, <1>3, <1>4

\* Suspecting an iceberg takes two books per refill, and the one it was first seen in.
LEMMA IcebergsAreSeen ==
    ASSUME FlowInv
    PROVE  IcebergNeedsItsRefills
<1> SUFFICES ASSUME NEW s \in Sides, IcebergSuspected(s)
             PROVE  LET n == 2 * Refills + 1 IN
                    Len(seen) >= n
                    /\ \A i, j \in 1..n : Price(Latest(n)[i], s) = Price(Latest(n)[j], s)
  BY DEF IcebergNeedsItsRefills
<1> DEFINE n == 2 * Refills + 1
           counted == BooksCounted(iceberg[s])
<1>1. iceberg[s] \in Tracker /\ seen \in Seq(Book)
  BY DEF FlowInv, FlowTypeOK, Tracker
<1>2. iceberg[s].refills >= Refills /\ iceberg[s].refills \in Nat /\ Refills \in Nat \ {0}
  BY <1>1, WindowsAssumption DEF IcebergSuspected, Tracker
<1>3. counted \in Nat /\ n \in Nat /\ n <= counted
  BY <1>2 DEF BooksCounted
<1>4. seen # <<>>
  BY <1>2 DEF FlowInv, PriceStood
<1>5. /\ counted <= Len(seen)
      /\ \A j \in (Len(seen) - counted + 1)..Len(seen) : Price(seen[j], s) = iceberg[s].anchor
  BY <1>4 DEF FlowInv, PriceStood
<1> HIDE DEF counted, n
<1>6. n <= Len(seen)
  BY <1>1, <1>3, <1>5
<1>7. ASSUME NEW i \in 1..n PROVE Price(Latest(n)[i], s) = iceberg[s].anchor
  <2>1. Latest(n)[i] = seen[Len(seen) - n + i]
    BY <1>1, <1>3, <1>6, LatestFacts
  <2>2. Len(seen) - n + i \in (Len(seen) - counted + 1)..Len(seen)
    BY <1>1, <1>3
  <2> QED BY <1>5, <2>1, <2>2
<1> QED BY <1>1, <1>3, <1>6, <1>7 DEF n

LEMMA PressureHasOneSide ==
    ASSUME FlowInv
    PROVE  OneAbsorptionAtMost
<1>1. ofi \in Seq(Int) /\ absorption \in [Sides -> [anchor : Nat \cup {NoBook}, ticks : Nat]]
  BY DEF FlowInv, FlowTypeOK
<1>2. Total(ofi) \in Int /\ Threshold \in Nat \ {0} /\ Sustained \in Nat \ {0}
  BY <1>1, TotalType, WindowsAssumption
<1>3. AbsorptionSuspected("bid") => Total(ofi) * (-1) >= Threshold
  BY <1>1, <1>2 DEF AbsorptionSuspected, FlowInv, PressureIsOn, Favour, Sides
<1>4. AbsorptionSuspected("ask") => Total(ofi) * 1 >= Threshold
  BY <1>1, <1>2 DEF AbsorptionSuspected, FlowInv, PressureIsOn, Favour, Sides
<1> QED BY <1>2, <1>3, <1>4 DEF OneAbsorptionAtMost

\* While the prices stand, each contribution is what the quantities gained.
LEMMA ContributionsTelescope ==
    ASSUME FlowInv
    PROVE  OfiTelescopes
<1> DEFINE n == Len(ofi)
           books == Latest(n + 1)
<1> SUFFICES ASSUME Len(seen) > n,
                    \A i \in 1..n : books[i].bid = books[i+1].bid /\ books[i].ask = books[i+1].ask
             PROVE  Total(ofi) = (books[n+1].bidQty - books[1].bidQty)
                                 - (books[n+1].askQty - books[1].askQty)
  BY DEF OfiTelescopes
<1>1. /\ ofi \in Seq(Int) /\ seen \in Seq(Book) /\ n \in Nat /\ Len(seen) \in Nat
      /\ n + 1 \in Nat /\ n + 1 <= Len(seen)
  BY DEF FlowInv, FlowTypeOK
<1>2. \A i \in 1..(n + 1) : books[i] = seen[Len(seen) - (n + 1) + i] /\ books[i] \in Book
  BY <1>1, LatestFacts
<1> HIDE DEF books
<1> DEFINE v == [i \in 0..n |-> books[i + 1].bidQty - books[i + 1].askQty]
<1>3. v \in [0..n -> Int]
  <2> SUFFICES ASSUME NEW i \in 0..n PROVE books[i + 1].bidQty - books[i + 1].askQty \in Int
    OBVIOUS
  <2>1. books[i + 1] \in Book
    BY <1>1, <1>2
  <2> QED BY <2>1 DEF Book
<1>4. ASSUME NEW i \in 1..n PROVE ofi[i] = v[i] - v[i - 1]
  <2> DEFINE was == books[i]
             newer == books[i + 1]
             j == Len(seen) - n + i
  <2>1. /\ i \in 1..(n + 1) /\ i + 1 \in 1..(n + 1) /\ j # 1
        /\ Len(seen) - (n + 1) + i = j - 1 /\ Len(seen) - (n + 1) + (i + 1) = j
    BY <1>1
  <2>2. was = seen[j - 1] /\ newer = seen[j] /\ was \in Book /\ newer \in Book
    BY <1>2, <2>1
  <2>3. ofi[i] = Contribution(BookBefore(j), seen[j])
    BY DEF FlowInv, WindowIsTheEnd
  <2>4. ofi[i] = Contribution(was, newer)
    BY <2>1, <2>2, <2>3 DEF BookBefore
  <2>5. was.bid = newer.bid /\ was.ask = newer.ask
    OBVIOUS
  <2>6. /\ was.bid \in Nat /\ was.ask \in Nat /\ was.bidQty \in Nat /\ was.askQty \in Nat
        /\ newer.bidQty \in Nat /\ newer.askQty \in Nat /\ was # NoBook
    BY <2>2, BooksAssumption DEF Book
  <2>7. v[i] = newer.bidQty - newer.askQty
    OBVIOUS
  <2>8. v[i - 1] = was.bidQty - was.askQty
    <3>1. i - 1 \in 0..n /\ (i - 1) + 1 = i
      OBVIOUS
    <3> QED BY <3>1
  <2> HIDE DEF was, newer, v
  <2>9. BidContribution(was, newer) = newer.bidQty - was.bidQty
    BY <2>5, <2>6 DEF BidContribution
  <2>10. AskContribution(was, newer) = newer.askQty - was.askQty
    BY <2>5, <2>6 DEF AskContribution
  <2> QED BY <2>4, <2>6, <2>7, <2>8, <2>9, <2>10 DEF Contribution
<1> HIDE DEF v
<1>5. Total(ofi) = v[n] - v[0]
  BY <1>1, <1>3, <1>4, TotalTelescopes
<1>6. /\ v[n] = books[n + 1].bidQty - books[n + 1].askQty
      /\ v[0] = books[1].bidQty - books[1].askQty
  BY <1>1 DEF v
<1>7. /\ books[n + 1].bidQty \in Nat /\ books[n + 1].askQty \in Nat
      /\ books[1].bidQty \in Nat /\ books[1].askQty \in Nat
  <2>1. books[n + 1] \in Book /\ books[1] \in Book
    BY <1>1, <1>2
  <2> QED BY <2>1 DEF Book
<1> QED BY <1>5, <1>6, <1>7

\* The thirds the trend compares, and how they stand in a history that never fell.
Third(s) == IF Len(s) \div 3 < 1 THEN 1 ELSE Len(s) \div 3
Oldest(s) == Total(SubSeq(s, 1, Third(s)))
Newest(s) == Total(SubSeq(s, Len(s) - Third(s) + 1, Len(s)))

\* A part of a sequence of integers.
LEMMA PartFacts ==
    ASSUME NEW s, NEW m \in Int, NEW n \in Int, m <= n, \A i \in m..n : s[i] \in Int
    PROVE  /\ SubSeq(s, m, n) \in Seq(Int) /\ Len(SubSeq(s, m, n)) = n - m + 1
           /\ \A i \in 1..(n - m + 1) : SubSeq(s, m, n)[i] = s[m + i - 1]
  BY SubSeqProperties

LEMMA ThirdsAreShares ==
    ASSUME NEW s \in Seq(Int), Len(s) > 0
    PROVE  LET third == Third(s)
               old == SubSeq(s, 1, third)
               new == SubSeq(s, Len(s) - third + 1, Len(s))
           IN /\ third \in 1..Len(s)
              /\ old \in Seq(Int) /\ new \in Seq(Int) /\ Len(old) = third /\ Len(new) = third
              /\ \A i \in 1..third : old[i] = s[i] /\ new[i] = s[Len(s) - third + i]
              /\ Oldest(s) \in Int /\ Newest(s) \in Int
<1> DEFINE third == Third(s)
           old == SubSeq(s, 1, third)
           from == Len(s) - third + 1
           new == SubSeq(s, from, Len(s))
<1>1. third \in 1..Len(s)
  BY DEF Third
<1> HIDE DEF third
<1>2. /\ from \in Int /\ Len(s) \in Nat /\ third \in Nat /\ 1 <= third /\ from <= Len(s)
      /\ \A i \in from..Len(s) : s[i] \in Int
      /\ \A i \in 1..third : s[i] \in Int
  BY <1>1
<1>3. /\ old \in Seq(Int) /\ Len(old) = third - 1 + 1
      /\ \A i \in 1..(third - 1 + 1) : old[i] = s[1 + i - 1]
  <2>1. 1 \in Int /\ third \in Int /\ 1 <= third /\ \A i \in 1..third : s[i] \in Int
    BY <1>2
  <2> QED BY <2>1, PartFacts
<1>4. /\ new \in Seq(Int) /\ Len(new) = Len(s) - from + 1
      /\ \A i \in 1..(Len(s) - from + 1) : new[i] = s[from + i - 1]
  <2> HIDE DEF from
  <2>1. from \in Int /\ Len(s) \in Int /\ from <= Len(s) /\ \A i \in from..Len(s) : s[i] \in Int
    BY <1>2
  <2> QED BY <2>1, PartFacts
<1> HIDE DEF old, new
<1>5. Len(old) = third /\ Len(new) = third
  BY <1>2, <1>3, <1>4
<1>6. ASSUME NEW i \in 1..third PROVE old[i] = s[i] /\ new[i] = s[Len(s) - third + i]
  <2>1. 1 + i - 1 = i /\ from + i - 1 = Len(s) - third + i
    BY <1>2
  <2> QED BY <1>2, <1>3, <1>4, <2>1
<1>7. Total(old) \in Int /\ Total(new) \in Int
  BY <1>3, <1>4, TotalType
<1> QED BY <1>1, <1>3, <1>4, <1>5, <1>6, <1>7 DEF old, new, third, Oldest, Newest

LEMMA GrowingThirds ==
    ASSUME NEW s \in Seq(Int), Len(s) > 0, \A i \in 1..(Len(s) - 1) : s[i] <= s[i + 1]
    PROVE  Oldest(s) <= Newest(s)
<1> DEFINE third == Third(s)
           old == SubSeq(s, 1, third)
           new == SubSeq(s, Len(s) - third + 1, Len(s))
<1>1. /\ third \in 1..Len(s)
      /\ old \in Seq(Int) /\ new \in Seq(Int) /\ Len(old) = third /\ Len(new) = third
      /\ \A i \in 1..third : old[i] = s[i] /\ new[i] = s[Len(s) - third + i]
  BY ThirdsAreShares
<1> HIDE DEF third, old, new
<1>2. ASSUME NEW i \in 1..Len(old) PROVE old[i] <= new[i]
  <2>1. i \in 1..Len(s) /\ Len(s) - third + i \in i..Len(s)
    BY <1>1
  <2>2. s[i] <= s[Len(s) - third + i]
    BY <2>1, StepsAddUp
  <2> QED BY <1>1, <2>2
<1>3. Total(old) <= Total(new)
  BY <1>1, <1>2, TotalsCompare
<1> QED BY <1>3 DEF old, new, third, Oldest, Newest

LEMMA ShrinkingThirds ==
    ASSUME NEW s \in Seq(Int), Len(s) > 0, \A i \in 1..(Len(s) - 1) : s[i] >= s[i + 1]
    PROVE  Newest(s) <= Oldest(s)
<1> DEFINE third == Third(s)
           old == SubSeq(s, 1, third)
           new == SubSeq(s, Len(s) - third + 1, Len(s))
           less == [i \in 1..Len(s) |-> -s[i]]
<1>1. /\ third \in 1..Len(s)
      /\ old \in Seq(Int) /\ new \in Seq(Int) /\ Len(old) = third /\ Len(new) = third
      /\ \A i \in 1..third : old[i] = s[i] /\ new[i] = s[Len(s) - third + i]
  BY ThirdsAreShares
<1>2. less \in Seq(Int) /\ Len(less) = Len(s) /\ \A i \in 1..Len(s) : less[i] = -s[i]
  OBVIOUS
<1> HIDE DEF third, old, new, less
<1>3. \A i \in 1..(Len(less) - 1) : less[i] <= less[i + 1]
  BY <1>2
<1>4. ASSUME NEW i \in 1..Len(new) PROVE new[i] <= old[i]
  <2>1. i \in 1..Len(s) /\ Len(s) - third + i \in i..Len(s) /\ Len(s) - third + i \in 1..Len(s)
    BY <1>1
  <2>2. less[i] <= less[Len(s) - third + i]
    BY <1>2, <1>3, <2>1, StepsAddUp
  <2> DEFINE lag == Len(s) - third + i
  <2>3. less[i] = -s[i] /\ less[lag] = -s[lag] /\ s[i] \in Int /\ s[lag] \in Int
    BY <1>2, <2>1
  <2>4. new[i] = s[lag] /\ old[i] = s[i]
    BY <1>1
  <2> HIDE DEF lag
  <2>5. less[i] <= less[lag]
    BY <2>2 DEF lag
  <2> QED BY <2>3, <2>4, <2>5
<1>5. Total(new) <= Total(old)
  BY <1>1, <1>4, TotalsCompare
<1> QED BY <1>5 DEF old, new, third, Oldest, Newest

LEMMA TrendsFollow ==
    ASSUME FlowInv
    PROVE  TrendFollowsTheSpread
<1> DEFINE n == Len(spreads)
<1>1. spreads \in Seq(Int) /\ MinSamples \in Nat \ {0}
  BY WindowsAssumption DEF FlowInv, FlowTypeOK
<1>2. Trend(spreads) =
        IF Len(spreads) < MinSamples \/ Oldest(spreads) <= 0 THEN "STABLE"
        ELSE IF 10 * (Newest(spreads) - Oldest(spreads)) > Oldest(spreads) THEN "WIDENING"
        ELSE IF 10 * (Newest(spreads) - Oldest(spreads)) < -Oldest(spreads) THEN "NARROWING"
        ELSE "STABLE"
  BY DEF Trend, Oldest, Newest, Third
<1>3. CASE Len(spreads) < MinSamples \/ Oldest(spreads) <= 0
  <2>1. Trend(spreads) = "STABLE"
    BY <1>2, <1>3
  <2> QED BY <2>1 DEF TrendFollowsTheSpread
<1>4. CASE ~(Len(spreads) < MinSamples \/ Oldest(spreads) <= 0)
  <2>1. Len(spreads) > 0
    BY <1>1, <1>4
  <2>2. Oldest(spreads) \in Int /\ Newest(spreads) \in Int /\ Oldest(spreads) > 0
    BY <1>1, <1>4, <2>1, ThirdsAreShares
  <2>3. ASSUME \A i \in 1..(n - 1) : spreads[i] <= spreads[i + 1]
        PROVE  Trend(spreads) # "NARROWING"
    <3>1. Oldest(spreads) <= Newest(spreads)
      BY <1>1, <2>1, <2>3, GrowingThirds
    <3> QED BY <1>2, <1>4, <2>2, <3>1
  <2>4. ASSUME \A i \in 1..(n - 1) : spreads[i] >= spreads[i + 1]
        PROVE  Trend(spreads) # "WIDENING"
    <3>1. Newest(spreads) <= Oldest(spreads)
      BY <1>1, <2>1, <2>4, ShrinkingThirds
    <3> QED BY <1>2, <1>4, <2>2, <3>1
  <2> QED BY <2>3, <2>4 DEF TrendFollowsTheSpread
<1> QED BY <1>3, <1>4

\* Every signal follows from the books seen, however the windows slide and the
\* counters are reset (on_tick).
THEOREM SpecSignalsFollowTheBooks == FlowSpec => []SignalsFollowTheBooks
<1>1. FlowInv => SignalsFollowTheBooks
  BY IcebergsAreSeen, PressureHasOneSide, ContributionsTelescope, TrendsFollow
     DEF SignalsFollowTheBooks
<1> QED BY <1>1, SpecFlowInv, PTL

\* The type invariant of the order-flow analyser: its windows keep their sizes (on_tick).
THEOREM FlowTypeCorrect == FlowSpec => []FlowTypeOK
<1>1. FlowInv => FlowTypeOK
  BY DEF FlowInv
<1> QED BY <1>1, SpecFlowInv, PTL

-----------------------------------------------------------------------------
(* The journal.  A row's id tells which round trip it is, so a row that is *)
(* overwritten stays that trade; what a pass knew of a charge is no lower  *)
(* than what is on file.  Unless another rebuild overtook it, the trades a *)
(* rebuild has read are those it writes over.                              *)

SeenRow == [id : Ids, like : SUBSET Fills, automatic : BOOLEAN, annotated : BOOLEAN]
Worker == [step : {"idle", "listing", "walking", "marking", "reading", "looking", "writing"},
           todo : SUBSET Fills, known : Ledger, fills : Ledger, seen : SUBSET SeenRow]

\* What the proofs use of the types.
JournalShapes ==
    /\ managed \subseteq Fills /\ deployed \in BOOLEAN /\ rejected \in BOOLEAN
    /\ overlapped \in BOOLEAN
    /\ ledger \in Ledger /\ trades \subseteq TradeRow
    /\ corrected \in {0, 1} /\ (corrected = 1 => Calls # {})
    /\ work \in [Rebuilders -> Worker]
    /\ request \in [op : {"none", "note", "enter"}, id : Ids]
    /\ request.op = "enter" => request.id \in Entries

\* A manual entry keeps the round trip it resembles, any other row has its own as its id.
NamedByTrip(row) == row.like = IF row.id \in Entries THEN Resembles[row.id] ELSE row.id

\* No two rows have one id, nor will a pending entry's.
TradesAreNamed ==
    /\ \A t \in trades : NamedByTrip(t)
    /\ \A t, u \in trades : t.id = u.id => t = u
    /\ request.op = "enter" => \A t \in trades : t.id # request.id

SeenAreNamed(sightings) ==
    /\ \A u \in sightings : NamedByTrip(u)
    /\ \A u, v \in sightings : u.id = v.id => u = v

SeenRowsAreNamed == \A r \in Rebuilders : SeenAreNamed(work[r].seen)

NotesHaveTrades == notes \subseteq {t.id : t \in trades}

\* Of the fills still to be walked, the pass knew the charge, or a higher one.
ChargesWereKnown ==
    work["pass"].step = "walking" =>
        /\ work["pass"].todo # {}
        /\ \A f \in work["pass"].todo : ledger[f] # NoCharge =>
             work["pass"].known[f] # NoCharge /\ ledger[f] <= work["pass"].known[f]

\* A pass that met nothing is alone, and rebuilds from the ledger as it is.
PassReadTheLedger ==
    ~overlapped =>
        /\ Rebuilding("pass") =>
             \A q \in Calls : ~Rebuilding(q) /\ work[q].step # "marking"
        /\ work["pass"].step \in {"looking", "writing"} => work["pass"].fills = ledger

JournalInv == /\ JournalShapes /\ TradesAreNamed /\ SeenRowsAreNamed /\ NotesHaveTrades
              /\ ChargesWereKnown /\ PassReadTheLedger

\* The matcher after the first n fills: what is open and what was closed are of those
\* fills, and no fill is in two of them.
Matched(m, first) ==
    /\ m \in [exposure : Int, run : SUBSET first, trips : SUBSET ((SUBSET first) \ {{}}),
              over : BOOLEAN]
    /\ \A c \in m.trips : c \cap m.run = {}
    /\ \A c, d \in m.trips : c # d => c \cap d = {}

\* The recorded ones of the first n fills.
FirstOf(taken, n) == {Executed[i] : i \in 1..n} \cap taken

LEMMA MatchFillFacts ==
    ASSUME NEW first, NEW m, Matched(m, first), NEW f \in Fills, f \notin first
    PROVE  Matched(MatchFill(m, f), first \cup {f})
<1> DEFINE exposure == m.exposure + Signed[f]
<1>1. m \in [exposure : Int, run : SUBSET first, trips : SUBSET ((SUBSET first) \ {{}}),
             over : BOOLEAN]
  BY DEF Matched
<1>2. Signed[f] \in Int
  BY JournalAssumption
<1>3. exposure \in Int
  BY <1>1, <1>2
<1>4. \A c \in m.trips : c \cap m.run = {} /\ f \notin c
  BY <1>1 DEF Matched
<1>5. \A c, d \in m.trips : c # d => c \cap d = {}
  BY DEF Matched
<1>6. m = [exposure |-> m.exposure, run |-> m.run, trips |-> m.trips, over |-> m.over]
  BY <1>1
<1> DEFINE over == [m EXCEPT !.over = TRUE]
           flat == [m EXCEPT !.exposure = 0, !.run = {}, !.trips = m.trips \cup {m.run \cup {f}}]
           wider == [m EXCEPT !.exposure = exposure, !.run = m.run \cup {f}]
<1>7. MatchFill(m, f) \in {over, flat, wider}
  BY DEF MatchFill
<1>8. Matched(over, first \cup {f})
  BY <1>1, <1>4, <1>5 DEF Matched
<1>9. Matched(flat, first \cup {f})
  <2> HIDE DEF flat
  <2> DEFINE new == m.run \cup {f}
  <2>1. new \in (SUBSET (first \cup {f})) \ {{}}
    BY <1>1
  <2>2. \A c \in m.trips : c \cap new = {}
    BY <1>4
  <2> HIDE DEF new
  <2> DEFINE closed == m.trips \cup {new}
  <2>3. closed \subseteq (SUBSET (first \cup {f})) \ {{}}
    BY <1>1, <2>1
  <2>4. \A c, d \in closed : c # d => c \cap d = {}
    BY <1>5, <2>2
  <2> HIDE DEF closed
  <2>5. flat = [m EXCEPT !.exposure = 0, !.run = {}, !.trips = closed]
    BY DEF flat, closed, new
  <2>6. flat = [exposure |-> 0, run |-> {}, trips |-> closed, over |-> m.over]
    <3> DEFINE a == m.exposure
               b == m.run
               c == m.trips
               d == m.over
    <3>1. m = [exposure |-> a, run |-> b, trips |-> c, over |-> d]
      BY <1>6
    <3> HIDE DEF a, b, c, d
    <3>2. flat = [exposure |-> 0, run |-> {}, trips |-> closed, over |-> d]
      BY <2>5, <3>1
    <3> QED BY <3>2 DEF d
  <2>7. flat \in [exposure : Int, run : SUBSET (first \cup {f}),
                  trips : SUBSET ((SUBSET (first \cup {f})) \ {{}}), over : BOOLEAN]
    BY <1>1, <2>3, <2>6
  <2> QED BY <2>4, <2>6, <2>7 DEF Matched
<1>10. Matched(wider, first \cup {f})
  <2>1. wider.run = m.run \cup {f} /\ wider.trips = m.trips
    BY <1>1
  <2>2. wider \in [exposure : Int, run : SUBSET (first \cup {f}),
                  trips : SUBSET ((SUBSET (first \cup {f})) \ {{}}), over : BOOLEAN]
    BY <1>1, <1>3
  <2> HIDE DEF wider
  <2> QED BY <1>4, <1>5, <2>1, <2>2 DEF Matched
<1> QED BY <1>7, <1>8, <1>9, <1>10

\* The function runs through what was matched, up to the n-th fill.
MatchesUpTo(u, taken, n) ==
    /\ DOMAIN u = 0..n /\ u = [i \in 0..n |-> u[i]]
    /\ u[0] = NothingMatched
    /\ \A i \in 1..n : u[i] = IF Executed[i] \in taken THEN MatchFill(u[i - 1], Executed[i])
                              ELSE u[i - 1]

LEMMA MatchesExist ==
    ASSUME NEW taken
    PROVE  \E u : MatchesUpTo(u, taken, Len(Executed))
<1> SUFFICES ASSUME \A u : ~MatchesUpTo(u, taken, Len(Executed)) PROVE FALSE
  OBVIOUS
<1>0. Len(Executed) \in Nat
  BY JournalAssumption
<1> DEFINE T == {n \in 0..Len(Executed) : \A u : ~MatchesUpTo(u, taken, n)}
<1>1. PICK n \in T : \A y \in T : n <= y
  <2>1. T \in SUBSET Nat /\ T # {}
    BY <1>0
  <2> HIDE DEF T
  <2> QED BY <2>1, LeastOfNaturals
<1>2. n \in 0..Len(Executed) /\ \A u : ~MatchesUpTo(u, taken, n)
  OBVIOUS
<1>3. n # 0
  <2>1. MatchesUpTo([i \in 0..0 |-> NothingMatched], taken, 0)
    BY DEF MatchesUpTo
  <2> QED BY <1>2, <2>1
<1>4. n - 1 \in 0..Len(Executed) /\ n - 1 \notin T
  BY <1>0, <1>1, <1>2, <1>3
<1>5. PICK u : MatchesUpTo(u, taken, n - 1)
  BY <1>4
<1> HIDE DEF T
<1> DEFINE last == IF Executed[n] \in taken THEN MatchFill(u[n - 1], Executed[n])
                   ELSE u[n - 1]
<1> HIDE DEF last
<1> DEFINE next == [i \in 0..n |-> IF i = n THEN last ELSE u[i]]
<1>6. DOMAIN next = 0..n /\ next = [i \in 0..n |-> next[i]]
  OBVIOUS
<1>7. next[0] = NothingMatched
  BY <1>0, <1>2, <1>3, <1>5 DEF MatchesUpTo
<1>8. \A i \in 1..n : next[i] = IF Executed[i] \in taken
                                THEN MatchFill(next[i - 1], Executed[i]) ELSE next[i - 1]
  <2> TAKE i \in 1..n
  <2>1. CASE i = n
    BY <1>0, <1>2, <1>3, <2>1 DEF last
  <2>2. CASE i # n
    <3>1. i \in 1..(n - 1) /\ i \in 0..n /\ i - 1 \in 0..n /\ i - 1 # n
      BY <1>0, <1>2, <2>2
    <3>2. next[i] = u[i] /\ next[i - 1] = u[i - 1]
      BY <2>2, <3>1
    <3> QED BY <1>5, <3>1, <3>2 DEF MatchesUpTo
  <2> QED BY <2>1, <2>2
<1> HIDE DEF next
<1>9. MatchesUpTo(next, taken, n)
  BY <1>6, <1>7, <1>8 DEF MatchesUpTo
<1> QED BY <1>2, <1>9

\* Round trips are of the recorded fills, and no two share one.
LEMMA RoundTripsFacts ==
    ASSUME NEW taken
    PROVE  /\ RoundTrips(taken) \subseteq (SUBSET (Fills \cap taken)) \ {{}}
           /\ \A c, d \in RoundTrips(taken) : c # d => c \cap d = {}
<1> DEFINE N == Len(Executed)
           upTo == CHOOSE g : g = [n \in 0..N |->
                      IF n = 0 THEN NothingMatched
                      ELSE IF Executed[n] \in taken THEN MatchFill(g[n - 1], Executed[n])
                      ELSE g[n - 1]]
<1>0. N \in Nat
  BY JournalAssumption
<1>1. PICK u : MatchesUpTo(u, taken, N)
  BY MatchesExist
<1>2. u = [n \in 0..N |->
             IF n = 0 THEN NothingMatched
             ELSE IF Executed[n] \in taken THEN MatchFill(u[n - 1], Executed[n])
             ELSE u[n - 1]]
  BY <1>0, <1>1 DEF MatchesUpTo
<1>3. upTo = [n \in 0..N |->
                IF n = 0 THEN NothingMatched
                ELSE IF Executed[n] \in taken THEN MatchFill(upTo[n - 1], Executed[n])
                ELSE upTo[n - 1]]
  BY <1>2
<1>4. RoundTrips(taken) = upTo[N].trips
  BY DEF RoundTrips
<1> HIDE DEF upTo
<1> DEFINE T == {n \in 0..N : ~Matched(upTo[n], FirstOf(taken, n))}
<1>5. ASSUME T # {} PROVE FALSE
  <2>1. PICK n \in T : \A y \in T : n <= y
    <3>1. T \in SUBSET Nat
      BY <1>0
    <3> HIDE DEF T
    <3> QED BY <1>5, <3>1, LeastOfNaturals
  <2>2. n \in 0..N /\ ~Matched(upTo[n], FirstOf(taken, n))
    OBVIOUS
  <2>3. CASE n = 0
    <3>1. upTo[0] = NothingMatched
      BY <1>0, <1>3
    <3>2. Matched(NothingMatched, FirstOf(taken, 0))
      BY DEF Matched, NothingMatched
    <3> QED BY <2>2, <2>3, <3>1, <3>2
  <2>4. CASE n # 0
    <3>1. n - 1 \in 0..N /\ n - 1 \notin T /\ n \in 1..N
      BY <1>0, <2>1, <2>2, <2>4
    <3>2. Matched(upTo[n - 1], FirstOf(taken, n - 1))
      BY <3>1
    <3> HIDE DEF T
    <3>3. Executed[n] \in Fills /\ \A i \in 1..(n - 1) : Executed[i] # Executed[n]
      BY <1>0, <3>1, JournalAssumption DEF Fills
    <3>4. 1..n = (1..(n - 1)) \cup {n}
      BY <3>1
    <3>5. upTo[n] = IF Executed[n] \in taken THEN MatchFill(upTo[n - 1], Executed[n])
                    ELSE upTo[n - 1]
      BY <1>3, <2>2, <2>4
    <3>6. CASE Executed[n] \in taken
      <4>1. FirstOf(taken, n) = FirstOf(taken, n - 1) \cup {Executed[n]}
        BY <3>4, <3>6 DEF FirstOf
      <4>2. Executed[n] \notin FirstOf(taken, n - 1)
        BY <3>3 DEF FirstOf
      <4> QED BY <2>2, <3>2, <3>3, <3>5, <3>6, <4>1, <4>2, MatchFillFacts
    <3>7. CASE Executed[n] \notin taken
      <4>1. FirstOf(taken, n) = FirstOf(taken, n - 1)
        BY <3>4, <3>7 DEF FirstOf
      <4> QED BY <2>2, <3>2, <3>5, <3>7, <4>1
    <3> QED BY <3>6, <3>7
  <2> QED BY <2>3, <2>4
<1>6. Matched(upTo[N], FirstOf(taken, N))
  BY <1>0, <1>5
<1>7. FirstOf(taken, N) \subseteq Fills \cap taken
  BY JournalAssumption DEF FirstOf, Fills
<1>8. upTo[N].trips \subseteq (SUBSET FirstOf(taken, N)) \ {{}}
  BY <1>6 DEF Matched
<1>9. \A c, d \in upTo[N].trips : c # d => c \cap d = {}
  BY <1>6 DEF Matched
<1> QED BY <1>4, <1>7, <1>8, <1>9

\* A trade's charges are a number.
LEMMA ChargesType ==
    ASSUME NEW book \in Ledger, NEW trip, trip \subseteq Recorded(book)
    PROVE  ChargesOf(book, trip) \in Nat
<1> DEFINE N == Len(Executed)
           charges == [n \in 1..N |-> IF Executed[n] \in trip THEN book[Executed[n]] ELSE 0]
           upTo == CHOOSE g : g = [n \in 0..N |->
                      IF n = 0 THEN 0
                      ELSE g[n - 1] + (IF Executed[n] \in trip THEN book[Executed[n]] ELSE 0)]
<1>0. N \in Nat
  BY JournalAssumption
<1>1. \A n \in 1..N : charges[n] \in Nat
  BY JournalAssumption DEF Ledger, Recorded, Overstated
<1>2. charges \in Seq(Int) /\ Len(charges) = N
  <2> HIDE DEF charges
  <2>1. charges = [n \in 1..N |-> charges[n]]
    BY DEF charges
  <2> QED BY <1>0, <1>1, <2>1
<1>3. PICK u : SumsUpTo(u, charges, N)
  <2> HIDE DEF charges, upTo
  <2> QED BY <1>2, SumsExist
<1>4. u = [n \in 0..N |->
             IF n = 0 THEN 0
             ELSE u[n - 1] + (IF Executed[n] \in trip THEN book[Executed[n]] ELSE 0)]
  BY <1>0, <1>3 DEF SumsUpTo
<1>5. upTo = [n \in 0..N |->
                IF n = 0 THEN 0
                ELSE upTo[n - 1] + (IF Executed[n] \in trip THEN book[Executed[n]] ELSE 0)]
  BY <1>4
<1>6. ChargesOf(book, trip) = upTo[N]
  BY DEF ChargesOf
<1> HIDE DEF upTo
<1> DEFINE T == {n \in 0..N : upTo[n] \notin Nat}
<1>7. ASSUME T # {} PROVE FALSE
  <2>1. PICK n \in T : \A y \in T : n <= y
    <3>1. T \in SUBSET Nat
      BY <1>0
    <3> HIDE DEF T
    <3> QED BY <1>7, <3>1, LeastOfNaturals
  <2>2. n \in 0..N /\ upTo[n] \notin Nat
    OBVIOUS
  <2>3. upTo[n] = IF n = 0 THEN 0 ELSE upTo[n - 1] + charges[n]
    BY <1>5, <2>2
  <2>4. n # 0 /\ n - 1 \in 0..N /\ n - 1 \notin T
    BY <1>0, <2>1, <2>2, <2>3
  <2>5. charges[n] \in Nat
    BY <1>0, <1>1, <2>2, <2>4
  <2> QED BY <2>2, <2>3, <2>4, <2>5
<1> QED BY <1>0, <1>6, <1>7

\* The next fill to walk is one of those to walk.
LEMMA NextFillIsToWalk ==
    ASSUME NEW todo \in SUBSET Fills, todo # {}
    PROVE  NextFill(todo) \in todo
<1> DEFINE places == {i \in 1..Len(Executed) : Executed[i] \in todo}
<1>1. DOMAIN Executed = 1..Len(Executed) /\ Len(Executed) \in Nat
  BY JournalAssumption
<1>2. places \in SUBSET Nat /\ places # {}
  BY <1>1 DEF Fills
<1>3. PICK i \in places : \A j \in places : i <= j
  <2> HIDE DEF places
  <2> QED BY <1>2, LeastOfNaturals
<1>4. i \in DOMAIN Executed /\ Executed[i] \in todo
      /\ \A j \in 1..(i - 1) : Executed[j] \notin todo
  BY <1>1, <1>3
<1> QED BY <1>4 DEF NextFill

LEMMA JournalInvInit == JournalInit => JournalInv
<1> SUFFICES ASSUME JournalInit PROVE JournalInv
  OBVIOUS
<1>1. Unread \in Ledger
  BY DEF Unread, Ledger
<1>2. Idle \in Worker /\ Idle.seen = {} /\ Idle.step = "idle"
  BY <1>1 DEF Idle, Worker
<1>3. "pass" \in Rebuilders
  BY DEF Rebuilders
<1>4. work \in [Rebuilders -> Worker] /\ \A r \in Rebuilders : work[r] = Idle
  BY <1>2 DEF JournalInit
<1>5. NoRequest \in [op : {"none", "note", "enter"}, id : Ids] /\ NoRequest.op = "none"
  BY DEF NoRequest, Ids
<1>6. JournalShapes
  <2>1. /\ managed \subseteq Fills /\ trades \subseteq TradeRow /\ ledger \in Ledger
        /\ corrected \in {0, 1} /\ ~(corrected = 1)
    BY <1>1 DEF JournalInit
  <2>2. deployed \in BOOLEAN /\ rejected \in BOOLEAN /\ overlapped \in BOOLEAN
    BY DEF JournalInit
  <2>3. request \in [op : {"none", "note", "enter"}, id : Ids] /\ ~(request.op = "enter")
    BY <1>5 DEF JournalInit
  <2> QED BY <1>4, <2>1, <2>2, <2>3 DEF JournalShapes
<1>7. TradesAreNamed /\ NotesHaveTrades
  BY <1>5 DEF JournalInit, TradesAreNamed, NotesHaveTrades
<1>8. SeenRowsAreNamed
  BY <1>2, <1>4 DEF SeenRowsAreNamed, SeenAreNamed
<1>9. ChargesWereKnown /\ PassReadTheLedger
  BY <1>2, <1>3, <1>4 DEF ChargesWereKnown, PassReadTheLedger, Rebuilding
<1> QED BY <1>6, <1>7, <1>8, <1>9 DEF JournalInv

\* What a rebuilder's move leaves of the invariant.
LEMMA WorkMoves ==
    ASSUME JournalInv, NEW r \in Rebuilders, NEW new \in Worker, SeenAreNamed(new.seen),
           work' = [work EXCEPT ![r] = new]
    PROVE  /\ work' \in [Rebuilders -> Worker] /\ SeenRowsAreNamed'
           /\ work'[r] = new /\ \A q \in Rebuilders : q # r => work'[q] = work[q]
<1>1. work \in [Rebuilders -> Worker]
  BY DEF JournalInv, JournalShapes
<1>2. /\ work' \in [Rebuilders -> Worker]
      /\ work'[r] = new /\ \A q \in Rebuilders : q # r => work'[q] = work[q]
  BY <1>1
<1>3. ASSUME NEW q \in Rebuilders PROVE SeenAreNamed(work'[q].seen)
  <2>1. SeenAreNamed(work[q].seen)
    BY DEF JournalInv, SeenRowsAreNamed
  <2> QED BY <1>2, <2>1
<1> QED BY <1>2, <1>3 DEF SeenRowsAreNamed, SeenAreNamed, NamedByTrip

\* A pass with no meeting recorded had none before, and is alone.
LEMMA OverlapFacts ==
    ASSUME NoteOverlap, ~overlapped', Rebuilding("pass")'
    PROVE  ~overlapped /\ \A q \in Calls : ~Rebuilding(q)' /\ work'[q].step # "marking"
<1>1. "pass" \in Rebuilders /\ \A q \in Calls : q \in Rebuilders \ {"pass"}
  BY JournalAssumption DEF Rebuilders
<1>2. ~(overlapped \/ \E q \in Rebuilders \ {"pass"} : Rebuilding(q)' \/ work'[q].step = "marking")
  BY <1>1 DEF NoteOverlap
<1> QED BY <1>1, <1>2

\* The last part of the invariant, when the pass kept what it read and the ledger stood.
LEMMA PassStillReadTheLedger ==
    ASSUME JournalInv, NoteOverlap,
           work'["pass"].step \in {"looking", "writing"} =>
             \/ work'["pass"].fills = ledger'
             \/ /\ Rebuilding("pass") /\ work["pass"].step # "reading"
                /\ work'["pass"].fills = work["pass"].fills
                /\ ledger' = ledger \/ \E c \in Calls : work[c].step = "marking"
    PROVE  PassReadTheLedger'
<1> SUFFICES ASSUME ~overlapped'
             PROVE  /\ Rebuilding("pass")' =>
                         \A q \in Calls : ~Rebuilding(q)' /\ work'[q].step # "marking"
                    /\ work'["pass"].step \in {"looking", "writing"} =>
                         work'["pass"].fills = ledger'
  BY DEF PassReadTheLedger
<1>1. Rebuilding("pass")' =>
        ~overlapped /\ \A q \in Calls : ~Rebuilding(q)' /\ work'[q].step # "marking"
  BY OverlapFacts
<1>2. ASSUME work'["pass"].step \in {"looking", "writing"}
      PROVE  work'["pass"].fills = ledger'
  <2>1. ~overlapped
    BY <1>1, <1>2 DEF Rebuilding
  <2>2. /\ Rebuilding("pass") => \A q \in Calls : work[q].step # "marking"
        /\ work["pass"].step \in {"looking", "writing"} => work["pass"].fills = ledger
    BY <2>1 DEF JournalInv, PassReadTheLedger
  <2>3. CASE work'["pass"].fills = ledger'
    BY <2>3
  <2>4. CASE /\ Rebuilding("pass") /\ work["pass"].step # "reading"
             /\ work'["pass"].fills = work["pass"].fills
             /\ ledger' = ledger \/ \E c \in Calls : work[c].step = "marking"
    BY <2>2, <2>4 DEF Rebuilding
  <2> QED BY <1>2, <2>3, <2>4
<1> QED BY <1>1, <1>2

LEMMA OverlapType == ASSUME NoteOverlap PROVE overlapped' \in BOOLEAN
BY DEF NoteOverlap

\* The parts about the trades, when no action touches them.
LEMMA TradesStay ==
    ASSUME JournalInv, UNCHANGED <<trades, notes, request>>
    PROVE  TradesAreNamed' /\ NotesHaveTrades'
BY DEF JournalInv, TradesAreNamed, NamedByTrip, NotesHaveTrades

LEMMA ReadingKeeps ==
    ASSUME JournalInv, NoteOverlap, NEW r \in Rebuilders, ReadFills(r) \/ LookAtTrades(r)
    PROVE  JournalInv'
<1>0. /\ work \in [Rebuilders -> Worker] /\ "pass" \in Rebuilders
      /\ work[r].step \in {"reading", "looking"}
  BY DEF JournalInv, JournalShapes, Rebuilders, ReadFills, LookAtTrades
<1>1. UNCHANGED <<managed, deployed, ledger, trades, notes, corrected, request, rejected>>
  BY DEF ReadFills, LookAtTrades
<1>2. TradesAreNamed' /\ NotesHaveTrades'
  BY <1>1, TradesStay
<1> DEFINE sightings == {[id |-> t.id, like |-> t.like, automatic |-> t.automatic,
                     annotated |-> t.id \in notes] : t \in trades}
<1>3. sightings \subseteq SeenRow /\ SeenAreNamed(sightings)
  <2>1. \A t \in trades : t \in TradeRow /\ NamedByTrip(t)
    BY DEF JournalInv, JournalShapes, TradesAreNamed
  <2>2. \A t, u \in trades : t.id = u.id => t = u
    BY DEF JournalInv, TradesAreNamed
  <2>3. sightings \subseteq SeenRow
    <3> SUFFICES ASSUME NEW t \in trades
                 PROVE  [id |-> t.id, like |-> t.like, automatic |-> t.automatic,
                         annotated |-> t.id \in notes] \in SeenRow
      OBVIOUS
    <3> DEFINE annotated == t.id \in notes
    <3>1. annotated \in BOOLEAN
      OBVIOUS
    <3>2. t.id \in Ids /\ t.like \in SUBSET Fills /\ t.automatic \in BOOLEAN
      BY <2>1 DEF TradeRow
    <3> HIDE DEF annotated
    <3>3. [id |-> t.id, like |-> t.like, automatic |-> t.automatic, annotated |-> annotated]
          \in SeenRow
      BY <3>1, <3>2 DEF SeenRow
    <3> QED BY <3>3 DEF annotated
  <2>4. \A u \in sightings : NamedByTrip(u)
    BY <2>1 DEF NamedByTrip
  <2>5. \A u, v \in sightings : u.id = v.id => u = v
    BY <2>2
  <2> QED BY <2>3, <2>4, <2>5 DEF SeenAreNamed
<1> HIDE DEF sightings
<1>4. PICK new \in Worker : /\ work' = [work EXCEPT ![r] = new] /\ SeenAreNamed(new.seen)
                            /\ new.step \in {"looking", "writing"}
                            /\ \/ new.fills = ledger
                               \/ work[r].step = "looking" /\ new.fills = work[r].fills
  <2>1. CASE ReadFills(r)
    <3> DEFINE new == [work[r] EXCEPT !.step = "looking", !.fills = ledger]
    <3>1. work' = [work EXCEPT ![r] = new]
      BY <1>0, <2>1 DEF ReadFills
    <3>2. ledger \in Ledger /\ work[r] \in Worker /\ SeenAreNamed(work[r].seen)
      BY <1>0 DEF JournalInv, JournalShapes, SeenRowsAreNamed
    <3>3. new \in Worker /\ new.seen = work[r].seen /\ new.step = "looking" /\ new.fills = ledger
      BY <3>2 DEF Worker
    <3> HIDE DEF new
    <3> QED BY <3>1, <3>2, <3>3
  <2>2. CASE LookAtTrades(r)
    <3> DEFINE new == [work[r] EXCEPT !.step = "writing", !.seen = sightings]
    <3>1. work' = [work EXCEPT ![r] = new]
      BY <1>0, <2>2 DEF LookAtTrades, sightings
    <3>2. work[r] \in Worker /\ work[r].step = "looking"
      BY <1>0, <2>2 DEF LookAtTrades
    <3>3. /\ new \in Worker /\ new.seen = sightings /\ new.step = "writing"
          /\ new.fills = work[r].fills
      BY <1>3, <3>2 DEF Worker
    <3> HIDE DEF new
    <3> QED BY <1>3, <3>1, <3>2, <3>3
  <2> QED BY <2>1, <2>2
<1>5. /\ work' \in [Rebuilders -> Worker] /\ SeenRowsAreNamed'
      /\ work'[r] = new /\ \A q \in Rebuilders : q # r => work'[q] = work[q]
  BY <1>4, WorkMoves
<1>6. ChargesWereKnown'
  <2>1. CASE r = "pass"
    BY <1>4, <1>5, <2>1 DEF ChargesWereKnown
  <2>2. CASE r # "pass"
    BY <1>0, <1>1, <1>5, <2>2 DEF JournalInv, ChargesWereKnown
  <2> QED BY <2>1, <2>2
<1>7. PassReadTheLedger'
  <2>1. CASE r = "pass"
    BY <1>1, <1>4, <1>5, <2>1, PassStillReadTheLedger DEF Rebuilding
  <2>2. CASE r # "pass"
    <3>1. work'["pass"] = work["pass"]
      BY <1>0, <1>5, <2>2
    <3> QED BY <1>1, <3>1, PassStillReadTheLedger DEF Rebuilding
  <2> QED BY <2>1, <2>2
<1>8. JournalShapes'
  BY <1>1, <1>5, OverlapType DEF JournalInv, JournalShapes
<1> QED BY <1>2, <1>5, <1>6, <1>7, <1>8 DEF JournalInv

\* A trade that is kept is the trade that was, perhaps under review.
LEMMA KeptFacts ==
    ASSUME JournalInv, NEW w
    PROVE  /\ Kept(w) \subseteq TradeRow
           /\ \A k \in Kept(w) : \E t \in trades :
                /\ t.id \notin Dropped(w)
                /\ k.id = t.id /\ k.like = t.like /\ k.automatic = t.automatic
                /\ k.charges = t.charges /\ k.review = (t.review \/ t.id \in Reviewed(w))
           /\ \A t \in trades : t.id \notin Dropped(w) =>
                \E k \in Kept(w) : k.id = t.id /\ k.like = t.like /\ k.automatic = t.automatic
           /\ \A k, l \in Kept(w) : k.id = l.id => k = l
<1> DEFINE keptRow(t) == [t EXCEPT !.review = t.review \/ t.id \in Reviewed(w)]
<1>1. Kept(w) = {keptRow(t) : t \in {u \in trades : u.id \notin Dropped(w)}}
  BY DEF Kept
<1>2. ASSUME NEW t \in trades
      PROVE  /\ keptRow(t) \in TradeRow
             /\ keptRow(t).id = t.id /\ keptRow(t).like = t.like /\ keptRow(t).automatic = t.automatic
             /\ keptRow(t).charges = t.charges
             /\ keptRow(t).review = (t.review \/ t.id \in Reviewed(w))
  <2>1. t \in TradeRow
    BY DEF JournalInv, JournalShapes
  <2> DEFINE review == t.review \/ t.id \in Reviewed(w)
  <2>2. review \in BOOLEAN
    OBVIOUS
  <2> HIDE DEF review
  <2>3. keptRow(t) = [t EXCEPT !.review = review]
    BY DEF review
  <2> HIDE DEF keptRow
  <2>4. /\ keptRow(t) \in TradeRow
        /\ keptRow(t).id = t.id /\ keptRow(t).like = t.like /\ keptRow(t).automatic = t.automatic
        /\ keptRow(t).charges = t.charges /\ keptRow(t).review = review
    BY <2>1, <2>2, <2>3 DEF TradeRow
  <2> QED BY <2>4 DEF review
<1>3. \A t, u \in trades : t.id = u.id => t = u
  BY DEF JournalInv, TradesAreNamed
<1> HIDE DEF keptRow
<1>4. \A k \in Kept(w) : \E t \in trades : k = keptRow(t) /\ t.id \notin Dropped(w)
  BY <1>1
<1>5. Kept(w) \subseteq TradeRow
  BY <1>2, <1>4
<1>6. \A k \in Kept(w) : \E t \in trades :
         /\ t.id \notin Dropped(w)
         /\ k.id = t.id /\ k.like = t.like /\ k.automatic = t.automatic
         /\ k.charges = t.charges /\ k.review = (t.review \/ t.id \in Reviewed(w))
  BY <1>2, <1>4
<1>7. \A t \in trades : t.id \notin Dropped(w) =>
         \E k \in Kept(w) : k.id = t.id /\ k.like = t.like /\ k.automatic = t.automatic
  <2> SUFFICES ASSUME NEW t \in trades, t.id \notin Dropped(w)
               PROVE  \E k \in Kept(w) : k.id = t.id /\ k.like = t.like
                                         /\ k.automatic = t.automatic
    OBVIOUS
  <2>1. keptRow(t) \in Kept(w)
    BY <1>1
  <2> QED BY <1>2, <2>1
<1>8. \A k, l \in Kept(w) : k.id = l.id => k = l
  BY <1>2, <1>3, <1>4
<1> QED BY <1>5, <1>6, <1>7, <1>8

\* A round trip that is written is one of the recorded fills, and so is its row.
LEMMA WrittenFacts ==
    ASSUME JournalInv, NEW r \in Rebuilders, NEW c \in Written(work[r])
    PROVE  /\ c \in RoundTrips(Recorded(work[r].fills)) /\ c \cap Protected(work[r]) = {}
           /\ c \in SUBSET Fills /\ c # {}
           /\ WrittenRow(work[r], c) \in TradeRow
           /\ WrittenRow(work[r], c).id = RowId(work[r], c)
           /\ WrittenRow(work[r], c).like = c /\ WrittenRow(work[r], c).automatic = TRUE
           /\ WrittenRow(work[r], c).charges = ChargesOf(work[r].fills, c)
           /\ NamedByTrip(WrittenRow(work[r], c))
           /\ RowId(work[r], c) \notin Entries => RowId(work[r], c) = c
<1> DEFINE w == work[r]
<1>1. w \in Worker /\ SeenAreNamed(w.seen)
  BY DEF JournalInv, JournalShapes, SeenRowsAreNamed
<1>2. w.fills \in Ledger /\ w.seen \subseteq SeenRow
  BY <1>1 DEF Worker
<1>3. c \in RoundTrips(Recorded(w.fills)) /\ c \cap Protected(w) = {}
  BY DEF Written
<1> HIDE DEF w
<1>4. c \subseteq Recorded(w.fills) /\ c \in SUBSET Fills /\ c # {}
  BY <1>3, RoundTripsFacts
<1>5. ChargesOf(w.fills, c) \in Nat
  BY <1>2, <1>4, ChargesType
<1>6. /\ RowId(w, c) \in Ids
      /\ c = IF RowId(w, c) \in Entries THEN Resembles[RowId(w, c)] ELSE RowId(w, c)
  <2>1. CASE ManualMatches(w, c) = {}
    <3>1. RowId(w, c) = c /\ c \notin Entries
      BY <1>4, <2>1, JournalAssumption DEF RowId
    <3> QED BY <1>4, <3>1 DEF Ids
  <2>2. CASE ManualMatches(w, c) # {}
    <3> DEFINE u == CHOOSE t \in ManualMatches(w, c) : TRUE
    <3>1. u \in ManualMatches(w, c)
      BY <2>2
    <3>2. RowId(w, c) = u.id
      BY <2>2 DEF RowId
    <3> HIDE DEF u
    <3>3. u \in w.seen /\ u.like = c
      BY <3>1 DEF ManualMatches
    <3> QED BY <1>1, <1>2, <3>2, <3>3 DEF SeenAreNamed, NamedByTrip, SeenRow
  <2> QED BY <2>1, <2>2
<1>7. /\ WrittenRow(w, c) \in TradeRow
      /\ WrittenRow(w, c).id = RowId(w, c) /\ WrittenRow(w, c).like = c
      /\ WrittenRow(w, c).automatic = TRUE
      /\ WrittenRow(w, c).charges = ChargesOf(w.fills, c)
  <2> DEFINE review == \E t \in Kept(w) : t.id = RowId(w, c) /\ t.review
  <2>1. review \in BOOLEAN
    OBVIOUS
  <2> HIDE DEF review
  <2>2. WrittenRow(w, c) = [id |-> RowId(w, c), like |-> c, automatic |-> TRUE,
                           review |-> review, charges |-> ChargesOf(w.fills, c)]
    BY DEF WrittenRow, review
  <2> QED BY <1>4, <1>5, <1>6, <2>1, <2>2 DEF TradeRow
<1>8. NamedByTrip(WrittenRow(w, c))
  BY <1>6, <1>7 DEF NamedByTrip
<1>9. RowId(w, c) \notin Entries => RowId(w, c) = c
  BY <1>6
<1> QED BY <1>3, <1>4, <1>7, <1>8, <1>9 DEF w

\* A rebuild that is not rolled back leaves one row of each id, and every trade that
\* has a note.
LEMMA RebuiltFacts ==
    ASSUME JournalInv, NEW r \in Rebuilders, KeysHold(work[r])
    PROVE  /\ Rebuilt(work[r]) \subseteq TradeRow
           /\ \A t \in Rebuilt(work[r]) : NamedByTrip(t)
           /\ \A t, u \in Rebuilt(work[r]) : t.id = u.id => t = u
           /\ request.op = "enter" => \A t \in Rebuilt(work[r]) : t.id # request.id
           /\ \A t \in trades : t.id \in notes =>
                \E u \in Rebuilt(work[r]) : u.id = t.id /\ u.like = t.like
<1> DEFINE w == work[r]
<1>1. \A t \in trades : NamedByTrip(t)
  BY DEF JournalInv, TradesAreNamed
<1>2. \A c \in Written(w) :
        /\ WrittenRow(w, c) \in TradeRow /\ NamedByTrip(WrittenRow(w, c))
        /\ WrittenRow(w, c).id = RowId(w, c) /\ WrittenRow(w, c).like = c
  BY WrittenFacts
<1>3. Kept(w) \subseteq TradeRow /\ \A k, l \in Kept(w) : k.id = l.id => k = l
  BY KeptFacts
<1>4. \A k \in Kept(w) : NamedByTrip(k) /\ \E t \in trades : t.id = k.id
  <2> TAKE k \in Kept(w)
  <2>1. PICK t \in trades : k.id = t.id /\ k.like = t.like
    BY KeptFacts
  <2> QED BY <1>1, <2>1 DEF NamedByTrip
<1>5. KeysHold(w)
  OBVIOUS
<1> HIDE DEF w
<1>6. Rebuilt(w) = {t \in Kept(w) : \A c \in Written(w) : t.id # RowId(w, c)}
                     \cup {WrittenRow(w, c) : c \in Written(w)}
  BY DEF Rebuilt
<1>7. Rebuilt(w) \subseteq TradeRow /\ \A t \in Rebuilt(w) : NamedByTrip(t)
  BY <1>2, <1>3, <1>4, <1>6
<1>8. ASSUME NEW t \in Rebuilt(w), NEW u \in Rebuilt(w), t.id = u.id PROVE t = u
  <2>1. CASE t \in Kept(w) /\ u \in Kept(w)
    BY <1>3, <1>8, <2>1
  <2>2. CASE \E c, d \in Written(w) : t = WrittenRow(w, c) /\ u = WrittenRow(w, d)
    <3>1. PICK c \in Written(w), d \in Written(w) : t = WrittenRow(w, c) /\ u = WrittenRow(w, d)
      BY <2>2
    <3>2. c = d
      BY <1>2, <1>8, <3>1 DEF NamedByTrip
    <3> QED BY <3>1, <3>2
  <2>3. CASE \E c \in Written(w) : \/ t = WrittenRow(w, c) /\ \A d \in Written(w) : u.id # RowId(w, d)
                                   \/ u = WrittenRow(w, c) /\ \A d \in Written(w) : t.id # RowId(w, d)
    BY <1>2, <1>8, <2>3
  <2> QED BY <1>6, <2>1, <2>2, <2>3
<1>9. ASSUME request.op = "enter", NEW t \in Rebuilt(w) PROVE t.id # request.id
  <2>1. \A k \in Kept(w) : k.id # request.id
    BY <1>4, <1>9 DEF JournalInv, TradesAreNamed
  <2>2. ASSUME NEW c \in Written(w), t = WrittenRow(w, c) PROVE t.id # request.id
    <3>1. RowId(w, c) \in Entries => \E k \in Kept(w) : k.id = RowId(w, c)
      BY <1>5 DEF KeysHold
    <3>2. request.id \in Entries
      BY <1>9 DEF JournalInv, JournalShapes
    <3> QED BY <1>2, <2>1, <2>2, <3>1, <3>2
  <2> QED BY <1>6, <2>1, <2>2
<1>10. ASSUME NEW t \in trades, t.id \in notes
       PROVE  \E u \in Rebuilt(w) : u.id = t.id /\ u.like = t.like
  <2>1. t.id \notin Dropped(w)
    BY <1>5, <1>10 DEF KeysHold
  <2>2. PICK k \in Kept(w) : k.id = t.id /\ k.like = t.like
    BY <2>1, KeptFacts
  <2>3. CASE \A c \in Written(w) : k.id # RowId(w, c)
    BY <1>6, <2>2, <2>3
  <2>4. CASE \E c \in Written(w) : k.id = RowId(w, c)
    <3>1. PICK c \in Written(w) : k.id = RowId(w, c)
      BY <2>4
    <3>2. WrittenRow(w, c) \in Rebuilt(w) /\ WrittenRow(w, c).id = t.id
      BY <1>2, <1>6, <2>2, <3>1
    <3>3. WrittenRow(w, c).like = t.like
      BY <1>1, <1>2, <3>2 DEF NamedByTrip
    <3> QED BY <3>2, <3>3
  <2> QED BY <2>3, <2>4
<1> QED BY <1>7, <1>8, <1>9, <1>10 DEF w

LEMMA WritingKeeps ==
    ASSUME JournalInv, NoteOverlap, NEW r \in Rebuilders, WriteTrades(r)
    PROVE  JournalInv'
<1>0. /\ "pass" \in Rebuilders /\ Idle \in Worker /\ Idle.seen = {} /\ Idle.step = "idle"
  <2>1. Unread \in Ledger
    BY DEF Unread, Ledger
  <2> QED BY <2>1 DEF Rebuilders, Idle, Worker
<1>1. UNCHANGED <<managed, deployed, ledger, notes, corrected, request>>
  BY DEF WriteTrades
<1>2. work' = [work EXCEPT ![r] = Idle] /\ SeenAreNamed(Idle.seen)
  BY <1>0 DEF WriteTrades, SeenAreNamed
<1>3. /\ work' \in [Rebuilders -> Worker] /\ SeenRowsAreNamed'
      /\ work'[r] = Idle /\ \A q \in Rebuilders : q # r => work'[q] = work[q]
  BY <1>0, <1>2, WorkMoves
<1>4. /\ trades' \subseteq TradeRow
      /\ \A t \in trades' : NamedByTrip(t)
      /\ \A t, u \in trades' : t.id = u.id => t = u
      /\ request.op = "enter" => \A t \in trades' : t.id # request.id
      /\ \A t \in trades : t.id \in notes => \E u \in trades' : u.id = t.id
  <2>1. CASE KeysHold(work[r])
    <3>1. trades' = Rebuilt(work[r])
      BY <2>1 DEF WriteTrades
    <3> QED BY <2>1, <3>1, RebuiltFacts
  <2>2. CASE ~KeysHold(work[r])
    <3>1. trades' = trades
      BY <2>2 DEF WriteTrades
    <3> QED BY <3>1 DEF JournalInv, JournalShapes, TradesAreNamed
  <2> QED BY <2>1, <2>2
<1>5. TradesAreNamed'
  BY <1>1, <1>4 DEF TradesAreNamed, NamedByTrip
<1>6. NotesHaveTrades'
  BY <1>1, <1>4 DEF JournalInv, NotesHaveTrades
<1>7. ChargesWereKnown'
  BY <1>0, <1>1, <1>3 DEF JournalInv, ChargesWereKnown
<1>8. PassReadTheLedger'
  <2>1. CASE r = "pass"
    BY <1>0, <1>3, <2>1, PassStillReadTheLedger
  <2>2. CASE r # "pass"
    <3>1. work'["pass"] = work["pass"]
      BY <1>0, <1>3, <2>2
    <3> QED BY <1>1, <3>1, PassStillReadTheLedger DEF Rebuilding
  <2> QED BY <2>1, <2>2
<1>9. rejected' \in BOOLEAN
  BY DEF WriteTrades, JournalInv, JournalShapes
<1>10. JournalShapes'
  BY <1>1, <1>3, <1>4, <1>9, OverlapType DEF JournalInv, JournalShapes
<1> QED BY <1>3, <1>5, <1>6, <1>7, <1>8, <1>10 DEF JournalInv

LEMMA IdleWorker ==
    /\ Unread \in Ledger /\ Idle \in Worker /\ Idle.seen = {} /\ Idle.step = "idle"
    /\ SeenAreNamed({}) /\ "pass" \in Rebuilders
<1>1. Unread \in Ledger
  BY DEF Unread, Ledger
<1> QED BY <1>1 DEF Idle, Worker, SeenAreNamed, Rebuilders

LEMMA PassKeeps ==
    ASSUME JournalInv, NoteOverlap, StartPass \/ \E ok \in BOOLEAN : ListReply(ok)
    PROVE  JournalInv'
<1>1. UNCHANGED <<managed, deployed, ledger, trades, notes, corrected, request, rejected>>
  BY DEF StartPass, ListReply
<1>2. /\ work["pass"] \in Worker /\ SeenAreNamed(work["pass"].seen) /\ ledger \in Ledger
      /\ work \in [Rebuilders -> Worker]
  BY IdleWorker DEF JournalInv, JournalShapes, SeenRowsAreNamed
<1>3. PICK new \in Worker : /\ work' = [work EXCEPT !["pass"] = new] /\ SeenAreNamed(new.seen)
                            /\ new.step \in {"idle", "listing", "walking"}
                            /\ new.step = "walking" => new.todo = Fills /\ new.known = ledger
  <2>1. CASE StartPass
    <3> DEFINE new == [work["pass"] EXCEPT !.step = "listing"]
    <3>1. work' = [work EXCEPT !["pass"] = new]
      BY <1>2, <2>1, IdleWorker DEF StartPass
    <3>2. new \in Worker /\ new.seen = work["pass"].seen /\ new.step = "listing"
      BY <1>2 DEF Worker
    <3> HIDE DEF new
    <3> QED BY <1>2, <3>1, <3>2
  <2>2. CASE ListReply(TRUE)
    <3> DEFINE new == [work["pass"] EXCEPT !.step = "walking", !.todo = Fills, !.known = ledger]
    <3>1. work' = [work EXCEPT !["pass"] = new]
      BY <1>2, <2>2, IdleWorker DEF ListReply
    <3>2. /\ new \in Worker /\ new.seen = work["pass"].seen /\ new.step = "walking"
          /\ new.todo = Fills /\ new.known = ledger
      BY <1>2 DEF Worker
    <3> HIDE DEF new
    <3> QED BY <1>2, <3>1, <3>2
  <2>3. CASE ListReply(FALSE)
    <3>1. work' = [work EXCEPT !["pass"] = Idle]
      BY <1>2, <2>3, IdleWorker DEF ListReply
    <3> QED BY <3>1, IdleWorker
  <2> QED BY <2>1, <2>2, <2>3
<1>4. /\ work' \in [Rebuilders -> Worker] /\ SeenRowsAreNamed'
      /\ work'["pass"] = new
  BY <1>3, IdleWorker, WorkMoves
<1>5. TradesAreNamed' /\ NotesHaveTrades'
  BY <1>1, TradesStay
<1>6. ChargesWereKnown'
  <2>1. Fills # {}
    BY JournalAssumption DEF Fills
  <2>2. \A f \in Fills : ledger[f] # NoCharge => ledger[f] \in Int
    BY <1>2 DEF Ledger
  <2> QED BY <1>1, <1>3, <1>4, <2>1, <2>2 DEF ChargesWereKnown
<1>7. PassReadTheLedger'
  BY <1>3, <1>4, PassStillReadTheLedger
<1>8. JournalShapes'
  BY <1>1, <1>4, OverlapType DEF JournalInv, JournalShapes
<1> QED BY <1>4, <1>5, <1>6, <1>7, <1>8 DEF JournalInv

\* What is stored is a charge, and none where one was known is lost.
LEMMA StoredFacts ==
    ASSUME JournalInv, work["pass"].step = "walking", NEW f \in work["pass"].todo,
           NEW ok \in BOOLEAN
    PROVE  /\ f \in Fills /\ StoredCharge(f, ok) \in 0..Overstated
           /\ ledger[f] \in 1..Overstated => StoredCharge(f, ok) # 0
<1>1. f \in Fills /\ work["pass"].known \in Ledger
  BY IdleWorker DEF JournalInv, JournalShapes, Worker
<1>2. work["pass"].known[f] \in 0..Overstated \cup {NoCharge}
  BY <1>1 DEF Ledger
<1>3. ledger[f] # NoCharge =>
         work["pass"].known[f] # NoCharge /\ ledger[f] <= work["pass"].known[f]
  BY DEF JournalInv, ChargesWereKnown
<1>4. NoCharge \notin Nat
  BY JournalAssumption
<1>5. StoredCharge(f, ok) \in 0..Overstated
  BY <1>2 DEF StoredCharge, Accurate, Overstated
<1>6. ledger[f] \in 1..Overstated => StoredCharge(f, ok) # 0
  BY <1>2, <1>3, <1>4 DEF StoredCharge, Accurate, Overstated
<1> QED BY <1>1, <1>5, <1>6

LEMMA WalkingKeeps ==
    ASSUME JournalInv, NoteOverlap, NEW ok \in BOOLEAN, WalkFill(ok)
    PROVE  /\ JournalInv'
           /\ \A f \in Fills : ~(ledger[f] \in 1..Overstated /\ ledger'[f] = 0)
<1> DEFINE f == NextFill(work["pass"].todo)
           rest == work["pass"].todo \ {f}
<1>1. UNCHANGED <<managed, deployed, trades, notes, corrected, request, rejected>>
  BY DEF WalkFill
<1>2. /\ work["pass"] \in Worker /\ SeenAreNamed(work["pass"].seen) /\ ledger \in Ledger
      /\ work \in [Rebuilders -> Worker] /\ work["pass"].step = "walking"
  BY IdleWorker DEF JournalInv, JournalShapes, SeenRowsAreNamed, WalkFill
<1>3. work["pass"].todo \in SUBSET Fills /\ work["pass"].todo # {}
  BY <1>2 DEF Worker, JournalInv, ChargesWereKnown
<1>4. f \in work["pass"].todo
  BY <1>3, NextFillIsToWalk
<1>5. /\ ledger' = IF f \in managed THEN [ledger EXCEPT ![f] = StoredCharge(f, ok)] ELSE ledger
      /\ work' = [work EXCEPT !["pass"] = IF rest = {} THEN [Idle EXCEPT !.step = "reading"]
                                          ELSE [work["pass"] EXCEPT !.todo = rest]]
  BY <1>2, IdleWorker DEF WalkFill
<1> HIDE DEF f
<1>6. /\ f \in Fills /\ StoredCharge(f, ok) \in 0..Overstated
      /\ ledger[f] \in 1..Overstated => StoredCharge(f, ok) # 0
  BY <1>2, <1>4, StoredFacts
<1>7. ledger' \in Ledger /\ \A g \in Fills : g # f => ledger'[g] = ledger[g]
  BY <1>2, <1>5, <1>6 DEF Ledger
<1>8. ASSUME NEW g \in Fills, ledger[g] \in 1..Overstated PROVE ledger'[g] # 0
  <2>1. CASE g = f /\ f \in managed
    <3>1. ledger'[g] = StoredCharge(f, ok)
      BY <1>2, <1>5, <1>6, <2>1 DEF Ledger
    <3> QED BY <1>6, <1>8, <2>1, <3>1
  <2>2. CASE ledger'[g] = ledger[g]
    BY <1>8, <2>2 DEF Overstated
  <2> QED BY <1>5, <1>7, <2>1, <2>2
<1>9. PICK new \in Worker :
        /\ work' = [work EXCEPT !["pass"] = new] /\ SeenAreNamed(new.seen)
        /\ \/ new.step = "reading"
           \/ /\ new.step = "walking" /\ new.todo = rest /\ rest # {}
              /\ new.known = work["pass"].known
  <2>1. CASE rest = {}
    <3> DEFINE new == [Idle EXCEPT !.step = "reading"]
    <3>1. work' = [work EXCEPT !["pass"] = new]
      BY <1>5, <2>1
    <3>2. new \in Worker /\ new.seen = {} /\ new.step = "reading"
      BY IdleWorker DEF Worker
    <3> HIDE DEF new
    <3> QED BY <3>1, <3>2, IdleWorker
  <2>2. CASE rest # {}
    <3> DEFINE new == [work["pass"] EXCEPT !.todo = rest]
    <3>1. work' = [work EXCEPT !["pass"] = new]
      BY <1>5, <2>2
    <3>2. rest \in SUBSET Fills
      BY <1>3
    <3> HIDE DEF rest
    <3>3. /\ new \in Worker /\ new.seen = work["pass"].seen /\ new.step = "walking"
          /\ new.todo = rest /\ new.known = work["pass"].known
      BY <1>2, <3>2 DEF Worker
    <3> HIDE DEF new
    <3> QED BY <1>2, <2>2, <3>1, <3>3
  <2> QED BY <2>1, <2>2
<1>10. /\ work' \in [Rebuilders -> Worker] /\ SeenRowsAreNamed'
       /\ work'["pass"] = new
  BY <1>9, IdleWorker, WorkMoves
<1>11. TradesAreNamed' /\ NotesHaveTrades'
  BY <1>1, TradesStay
<1>12. ChargesWereKnown'
  <2> SUFFICES ASSUME new.step = "walking"
               PROVE  /\ new.todo # {}
                      /\ \A g \in new.todo : ledger'[g] # NoCharge =>
                           new.known[g] # NoCharge /\ ledger'[g] <= new.known[g]
    BY <1>10 DEF ChargesWereKnown
  <2>1. new.todo = rest /\ rest # {} /\ new.known = work["pass"].known
    BY <1>9
  <2>2. \A g \in rest : g \in work["pass"].todo /\ ledger'[g] = ledger[g]
    BY <1>3, <1>7
  <2> QED BY <1>2, <2>1, <2>2 DEF JournalInv, ChargesWereKnown
<1>13. PassReadTheLedger'
  BY <1>9, <1>10, PassStillReadTheLedger
<1>14. JournalShapes'
  BY <1>1, <1>7, <1>10, OverlapType DEF JournalInv, JournalShapes
<1> QED BY <1>8, <1>10, <1>11, <1>12, <1>13, <1>14 DEF JournalInv

LEMMA CheckingKeeps ==
    ASSUME JournalInv, NoteOverlap, NEW c \in Calls, CheckCorrection(c)
    PROVE  JournalInv'
<1>1. UNCHANGED <<managed, deployed, ledger, trades, notes, corrected, request, rejected>>
  BY DEF CheckCorrection
<1>2. c \in Rebuilders /\ c # "pass"
  BY JournalAssumption DEF Rebuilders
<1>3. work[c] \in Worker /\ SeenAreNamed(work[c].seen) /\ work \in [Rebuilders -> Worker]
  BY <1>2 DEF JournalInv, JournalShapes, SeenRowsAreNamed
<1> DEFINE new == [work[c] EXCEPT !.step = "marking"]
<1>4. work' = [work EXCEPT ![c] = new]
  BY <1>2, <1>3 DEF CheckCorrection
<1>5. new \in Worker /\ new.seen = work[c].seen
  BY <1>3 DEF Worker
<1> HIDE DEF new
<1>6. /\ work' \in [Rebuilders -> Worker] /\ SeenRowsAreNamed'
      /\ \A q \in Rebuilders : q # c => work'[q] = work[q]
  BY <1>2, <1>3, <1>4, <1>5, WorkMoves
<1>7. work'["pass"] = work["pass"]
  BY <1>2, <1>6, IdleWorker
<1>8. TradesAreNamed' /\ NotesHaveTrades'
  BY <1>1, TradesStay
<1>9. ChargesWereKnown'
  BY <1>1, <1>7 DEF JournalInv, ChargesWereKnown
<1>10. PassReadTheLedger'
  BY <1>1, <1>7, PassStillReadTheLedger DEF Rebuilding
<1>11. JournalShapes'
  BY <1>1, <1>6, OverlapType DEF JournalInv, JournalShapes
<1> QED BY <1>6, <1>8, <1>9, <1>10, <1>11 DEF JournalInv

LEMMA CorrectionFacts ==
    ASSUME JournalInv
    PROVE  /\ CorrectedLedger \in Ledger
           /\ \A f \in Fills : /\ CorrectedLedger[f] # NoCharge => ledger[f] # NoCharge
                               /\ CorrectedLedger[f] # NoCharge => CorrectedLedger[f] <= ledger[f]
<1>1. \A f \in Fills : ledger[f] \in 0..Overstated \cup {NoCharge}
  BY DEF JournalInv, JournalShapes, Ledger
<1>2. NoCharge \notin Nat
  BY JournalAssumption
<1>3. \A f \in Fills : CorrectedLedger[f] \in 0..Overstated \cup {NoCharge}
  BY <1>1 DEF CorrectedLedger, Correctable, Correction, Overstated
<1>4. CorrectedLedger \in Ledger
  BY <1>3 DEF CorrectedLedger, Ledger
<1>5. \A f \in Fills : /\ CorrectedLedger[f] # NoCharge => ledger[f] # NoCharge
                       /\ CorrectedLedger[f] # NoCharge => CorrectedLedger[f] <= ledger[f]
  BY <1>1, <1>2 DEF CorrectedLedger, Correctable, Correction, Overstated
<1> QED BY <1>4, <1>5

LEMMA CorrectingKeeps ==
    ASSUME JournalInv, NoteOverlap, NEW c \in Calls, CommitCorrection(c)
    PROVE  JournalInv'
<1>1. UNCHANGED <<managed, deployed, trades, notes, request, rejected>>
  BY DEF CommitCorrection
<1>2. c \in Rebuilders /\ c # "pass"
  BY JournalAssumption DEF Rebuilders
<1>3. /\ work[c] \in Worker /\ SeenAreNamed(work[c].seen) /\ work \in [Rebuilders -> Worker]
      /\ work[c].step = "marking" /\ ledger \in Ledger /\ corrected \in {0, 1}
  BY <1>2 DEF JournalInv, JournalShapes, SeenRowsAreNamed, CommitCorrection
<1>4. /\ ledger' \in {ledger, CorrectedLedger} /\ corrected' \in {0, 1}
      /\ corrected' = 1 => Calls # {}
  BY <1>3 DEF CommitCorrection, FlagIsFree
<1>5. PICK new \in Worker : work' = [work EXCEPT ![c] = new] /\ SeenAreNamed(new.seen)
  <2> DEFINE step == IF Recorded(ledger) = {} THEN "idle" ELSE "reading"
             new == [work[c] EXCEPT !.step = step]
  <2>1. CASE FlagIsFree
    <3>1. work' = [work EXCEPT ![c] = new]
      BY <1>2, <1>3, <2>1 DEF CommitCorrection
    <3>2. step \in {"idle", "reading"}
      OBVIOUS
    <3> HIDE DEF step
    <3>3. new \in Worker /\ new.seen = work[c].seen
      BY <1>3, <3>2 DEF Worker
    <3> HIDE DEF new
    <3> QED BY <1>3, <3>1, <3>3
  <2>2. CASE ~FlagIsFree
    BY <2>2, IdleWorker DEF CommitCorrection
  <2> QED BY <2>1, <2>2
<1>6. /\ work' \in [Rebuilders -> Worker] /\ SeenRowsAreNamed'
      /\ \A q \in Rebuilders : q # c => work'[q] = work[q]
  BY <1>2, <1>5, WorkMoves
<1>7. work'["pass"] = work["pass"] /\ work["pass"] \in Worker
  BY <1>2, <1>3, <1>6, IdleWorker
<1>8. TradesAreNamed' /\ NotesHaveTrades'
  BY <1>1, TradesStay
<1>9. ChargesWereKnown'
  <2> SUFFICES ASSUME work["pass"].step = "walking", NEW f \in work["pass"].todo,
                      ledger'[f] # NoCharge
               PROVE  work["pass"].known[f] # NoCharge /\ ledger'[f] <= work["pass"].known[f]
    BY <1>7 DEF JournalInv, ChargesWereKnown
  <2>1. f \in Fills /\ work["pass"].known \in Ledger
    BY <1>7 DEF Worker
  <2>2. ledger'[f] # NoCharge => ledger[f] # NoCharge /\ ledger'[f] <= ledger[f]
    <3>1. ledger[f] # NoCharge => ledger[f] \in Int
      BY <1>3, <2>1 DEF Ledger
    <3> QED BY <1>4, <2>1, <3>1, CorrectionFacts
  <2>3. ledger[f] # NoCharge =>
          work["pass"].known[f] # NoCharge /\ ledger[f] <= work["pass"].known[f]
    BY DEF JournalInv, ChargesWereKnown
  <2>4. /\ ledger[f] # NoCharge => ledger[f] \in Int
        /\ ledger'[f] # NoCharge => ledger'[f] \in Int
        /\ work["pass"].known[f] # NoCharge => work["pass"].known[f] \in Int
    BY <1>3, <1>4, <2>1, CorrectionFacts DEF Ledger
  <2> QED BY <2>2, <2>3, <2>4
<1>10. PassReadTheLedger'
  BY <1>3, <1>7, PassStillReadTheLedger DEF Rebuilding
<1>11. JournalShapes'
  BY <1>1, <1>4, <1>6, OverlapType, CorrectionFacts DEF JournalInv, JournalShapes
<1> QED BY <1>6, <1>8, <1>9, <1>10, <1>11 DEF JournalInv

LEMMA WorkStays ==
    ASSUME JournalInv, UNCHANGED work
    PROVE  SeenRowsAreNamed' /\ work' \in [Rebuilders -> Worker]
BY DEF JournalInv, JournalShapes, SeenRowsAreNamed, SeenAreNamed, NamedByTrip

LEMMA RoutesKeep ==
    ASSUME JournalInv, NoteOverlap,
           (\E t \in trades : AskNote(t)) \/ SaveNote \/ (\E m \in Entries : AskEntry(m)) \/ SaveEntry
    PROVE  JournalInv'
<1>1. UNCHANGED <<managed, deployed, ledger, corrected, work, rejected>>
  BY DEF AskNote, SaveNote, AskEntry, SaveEntry
<1>2. SeenRowsAreNamed' /\ work' \in [Rebuilders -> Worker]
  BY <1>1, WorkStays
<1>3. ChargesWereKnown' /\ PassReadTheLedger'
  <2>1. ChargesWereKnown'
    BY <1>1 DEF JournalInv, ChargesWereKnown
  <2>2. PassReadTheLedger'
    BY <1>1, PassStillReadTheLedger DEF Rebuilding
  <2> QED BY <2>1, <2>2
<1>4. /\ trades \subseteq TradeRow /\ \A t \in trades : NamedByTrip(t)
      /\ \A t, u \in trades : t.id = u.id => t = u
      /\ request.op = "enter" => request.id \in Entries /\ \A t \in trades : t.id # request.id
      /\ notes \subseteq {t.id : t \in trades}
  BY DEF JournalInv, JournalShapes, TradesAreNamed, NotesHaveTrades
<1>5. NoRequest \in [op : {"none", "note", "enter"}, id : Ids] /\ NoRequest.op = "none"
  BY DEF NoRequest, Ids
<1>6. /\ request' \in [op : {"none", "note", "enter"}, id : Ids]
      /\ request'.op = "enter" => request'.id \in Entries
      /\ trades' \subseteq TradeRow
      /\ TradesAreNamed' /\ NotesHaveTrades'
  <2>1. ASSUME NEW t \in trades, AskNote(t) PROVE <1>6!1 /\ <1>6!2 /\ <1>6!3 /\ <1>6!4
    <3>1. /\ request' = [op |-> "note", id |-> t.id] /\ t.id \in Ids
          /\ UNCHANGED <<trades, notes>>
      BY <1>4, <2>1 DEF AskNote, TradeRow
    <3>2. request' \in [op : {"none", "note", "enter"}, id : Ids] /\ request'.op = "note"
      BY <3>1
    <3> QED BY <1>4, <3>1, <3>2 DEF TradesAreNamed, NamedByTrip, NotesHaveTrades
  <2>2. CASE SaveNote
    <3>1. /\ request' = NoRequest /\ UNCHANGED trades
          /\ notes' \subseteq notes \cup {t.id : t \in trades}
      BY <2>2 DEF SaveNote
    <3> QED BY <1>4, <1>5, <3>1 DEF TradesAreNamed, NamedByTrip, NotesHaveTrades
  <2>3. ASSUME NEW m \in Entries, AskEntry(m) PROVE <1>6!1 /\ <1>6!2 /\ <1>6!3 /\ <1>6!4
    <3>1. /\ request' = [op |-> "enter", id |-> m] /\ m \in Ids
          /\ UNCHANGED <<trades, notes>> /\ \A t \in trades : t.id # m
      BY <2>3 DEF AskEntry, Ids
    <3>2. request' \in [op : {"none", "note", "enter"}, id : Ids] /\ request'.id = m
      BY <3>1
    <3> QED BY <1>4, <3>1, <3>2 DEF TradesAreNamed, NamedByTrip, NotesHaveTrades
  <2>4. CASE SaveEntry
    <3> DEFINE row == [id |-> request.id, like |-> Resembles[request.id],
                       automatic |-> FALSE, review |-> FALSE, charges |-> 0]
    <3>1. /\ request' = NoRequest /\ UNCHANGED notes /\ request.op = "enter"
          /\ trades' = trades \cup {row}
      BY <2>4 DEF SaveEntry
    <3>2. request.id \in Entries /\ Resembles[request.id] \in SUBSET Fills
      BY <1>4, <3>1, JournalAssumption
    <3>3. row \in TradeRow
      BY <3>2 DEF TradeRow, Ids
    <3>4. NamedByTrip(row) /\ row.id = request.id
      BY <3>2 DEF NamedByTrip
    <3> HIDE DEF row
    <3>5. \A t \in trades' : NamedByTrip(t)
      BY <1>4, <3>1, <3>4
    <3>6. \A t, u \in trades' : t.id = u.id => t = u
      BY <1>4, <3>1, <3>4
    <3>7. TradesAreNamed'
      BY <1>5, <3>1, <3>5, <3>6 DEF TradesAreNamed, NamedByTrip
    <3>8. NotesHaveTrades'
      BY <1>4, <3>1 DEF NotesHaveTrades
    <3> QED BY <1>4, <1>5, <3>1, <3>3, <3>7, <3>8
  <2> QED BY <2>1, <2>2, <2>3, <2>4
<1>7. JournalShapes'
  BY <1>1, <1>2, <1>6, OverlapType DEF JournalInv, JournalShapes
<1> QED BY <1>2, <1>3, <1>6, <1>7 DEF JournalInv

LEMMA ResettingKeeps ==
    ASSUME JournalInv, NoteOverlap, ResetAll
    PROVE  JournalInv'
<1>1. /\ UNCHANGED <<managed, deployed, corrected, work, request, rejected>>
      /\ ledger' = Unread /\ trades' = {} /\ notes' = {}
      /\ work["pass"].step \in {"idle", "listing", "walking"}
  BY DEF ResetAll
<1>2. SeenRowsAreNamed' /\ work' \in [Rebuilders -> Worker]
  BY <1>1, WorkStays
<1>3. TradesAreNamed' /\ NotesHaveTrades'
  BY <1>1 DEF TradesAreNamed, NotesHaveTrades
<1>4. ChargesWereKnown'
  <2>1. work["pass"] \in Worker
    BY IdleWorker DEF JournalInv, JournalShapes
  <2>2. \A f \in work["pass"].todo : ledger'[f] = NoCharge
    BY <1>1, <2>1 DEF Worker, Unread
  <2> QED BY <1>1, <2>2 DEF JournalInv, ChargesWereKnown
<1>5. PassReadTheLedger'
  BY <1>1, PassStillReadTheLedger
<1>6. JournalShapes'
  BY <1>1, <1>2, OverlapType, IdleWorker DEF JournalInv, JournalShapes
<1> QED BY <1>2, <1>3, <1>4, <1>5, <1>6 DEF JournalInv

LEMMA ManagingKeeps ==
    ASSUME JournalInv, NoteOverlap, NEW f \in Fills, Manage(f)
    PROVE  JournalInv'
<1>1. /\ UNCHANGED <<deployed, ledger, trades, notes, corrected, work, request, rejected>>
      /\ managed' \subseteq Fills
  BY DEF Manage, JournalInv, JournalShapes
<1>2. SeenRowsAreNamed' /\ work' \in [Rebuilders -> Worker]
  BY <1>1, WorkStays
<1>3. TradesAreNamed' /\ NotesHaveTrades'
  BY <1>1, TradesStay
<1>4. ChargesWereKnown'
  BY <1>1 DEF JournalInv, ChargesWereKnown
<1>5. PassReadTheLedger'
  BY <1>1, PassStillReadTheLedger DEF Rebuilding
<1>6. JournalShapes'
  BY <1>1, <1>2, OverlapType DEF JournalInv, JournalShapes
<1> QED BY <1>2, <1>3, <1>4, <1>5, <1>6 DEF JournalInv

LEMMA RestartingKeeps ==
    ASSUME JournalInv, NoteOverlap, RestartJournal
    PROVE  JournalInv'
<1>1. /\ UNCHANGED <<managed, ledger, trades, notes, corrected>>
      /\ deployed' \in BOOLEAN /\ rejected' \in BOOLEAN /\ request' = NoRequest
      /\ work' = [r \in Rebuilders |-> Idle]
  BY DEF RestartJournal, JournalInv, JournalShapes
<1>2. /\ work' \in [Rebuilders -> Worker]
      /\ \A r \in Rebuilders : work'[r].seen = {} /\ work'[r].step = "idle"
  BY <1>1, IdleWorker
<1>3. SeenRowsAreNamed'
  BY <1>2 DEF SeenRowsAreNamed, SeenAreNamed
<1>4. NoRequest \in [op : {"none", "note", "enter"}, id : Ids] /\ NoRequest.op = "none"
  BY DEF NoRequest, Ids
<1>5. TradesAreNamed' /\ NotesHaveTrades'
  BY <1>1, <1>4 DEF JournalInv, TradesAreNamed, NamedByTrip, NotesHaveTrades
<1>6. ChargesWereKnown' /\ PassReadTheLedger'
  <2>1. work'["pass"].step = "idle"
    BY <1>2, IdleWorker
  <2>2. ChargesWereKnown'
    BY <2>1 DEF ChargesWereKnown
  <2>3. PassReadTheLedger'
    BY <2>1, PassStillReadTheLedger
  <2> QED BY <2>2, <2>3
<1>7. JournalShapes'
  BY <1>1, <1>2, <1>4, OverlapType DEF JournalInv, JournalShapes
<1> QED BY <1>3, <1>5, <1>6, <1>7 DEF JournalInv

LEMMA JournalInvStep == JournalInv /\ [JournalNext]_journalVars => JournalInv'
<1> SUFFICES ASSUME JournalInv, [JournalNext]_journalVars PROVE JournalInv'
  OBVIOUS
<1>1. CASE UNCHANGED journalVars
  <2>1. UNCHANGED <<managed, deployed, ledger, trades, notes, corrected, work, request,
                    rejected, overlapped>>
    BY <1>1 DEF journalVars
  <2>2. SeenRowsAreNamed' /\ work' \in [Rebuilders -> Worker]
    BY <2>1, WorkStays
  <2>3. TradesAreNamed' /\ NotesHaveTrades'
    BY <2>1, TradesStay
  <2>4. ChargesWereKnown'
    BY <2>1 DEF JournalInv, ChargesWereKnown
  <2>5. PassReadTheLedger'
    BY <2>1 DEF JournalInv, PassReadTheLedger, Rebuilding
  <2>6. JournalShapes'
    BY <2>1 DEF JournalInv, JournalShapes
  <2> QED BY <2>2, <2>3, <2>4, <2>5, <2>6 DEF JournalInv
<1>2. CASE JournalNext
  <2>1. NoteOverlap
    BY <1>2 DEF JournalNext
  <2>2. ASSUME NEW r \in Rebuilders, ReadFills(r) \/ LookAtTrades(r) \/ WriteTrades(r)
        PROVE  JournalInv'
    BY <2>1, <2>2, ReadingKeeps, WritingKeeps
  <2>3. ASSUME NEW ok \in BOOLEAN, ListReply(ok) \/ WalkFill(ok) PROVE JournalInv'
    BY <2>1, <2>3, PassKeeps, WalkingKeeps
  <2>4. ASSUME NEW c \in Calls, CheckCorrection(c) \/ CommitCorrection(c) PROVE JournalInv'
    BY <2>1, <2>4, CheckingKeeps, CorrectingKeeps
  <2> QED BY <1>2, <2>1, <2>2, <2>3, <2>4, PassKeeps, RoutesKeep, ResettingKeeps, ManagingKeeps,
             RestartingKeeps DEF JournalNext, JournalStep
<1> QED BY <1>1, <1>2

\* The inductive invariant of the journal.
THEOREM SpecJournalInv == JournalSpec => []JournalInv
BY JournalInvInit, JournalInvStep, PTL DEF JournalSpec

\* The blind correction is applied once, whatever the calls and restarts.
THEOREM SpecCorrectedAtMostOnce == JournalSpec => []CorrectedAtMostOnce
<1>1. JournalInv => CorrectedAtMostOnce
  BY DEF JournalInv, JournalShapes, CorrectedAtMostOnce
<1> QED BY <1>1, SpecJournalInv, PTL

\* Only a reset takes a trade from under its note, and only a correction leaves nothing
\* of a charge.
LEMMA StepsKeepWhatIsOnFile ==
    ASSUME JournalInv, JournalNext
    PROVE  /\ trades' = {} \/ \A t \in trades : t.id \in notes =>
                t.id \in notes' /\ \E u \in trades' : u.id = t.id /\ u.like = t.like
           /\ \A f \in Fills : ledger[f] \in 1..Overstated /\ ledger'[f] = 0 =>
                \E c \in Calls : work[c].step = "marking"
<1>1. JournalStep /\ NoteOverlap
  BY DEF JournalNext
<1>2. trades' = {} \/ \A t \in trades : t.id \in notes =>
         t.id \in notes' /\ \E u \in trades' : u.id = t.id /\ u.like = t.like
  <2>1. CASE UNCHANGED <<trades, notes>>
    BY <2>1
  <2>2. ASSUME NEW r \in Rebuilders, WriteTrades(r) PROVE <1>2
    <3>1. notes' = notes /\ trades' = IF KeysHold(work[r]) THEN Rebuilt(work[r]) ELSE trades
      BY <2>2 DEF WriteTrades
    <3> QED BY <3>1, RebuiltFacts
  <2>3. CASE SaveNote
    BY <2>3 DEF SaveNote
  <2>4. CASE SaveEntry
    BY <2>4 DEF SaveEntry
  <2>5. CASE ResetAll
    BY <2>5 DEF ResetAll
  <2> QED BY <1>1, <2>1, <2>2, <2>3, <2>4, <2>5
          DEF JournalStep, ReadFills, LookAtTrades, StartPass, ListReply, WalkFill,
              CheckCorrection, CommitCorrection, AskNote, AskEntry, Manage, RestartJournal
<1>3. ASSUME NEW f \in Fills, ledger[f] \in 1..Overstated, ledger'[f] = 0
      PROVE  \E c \in Calls : work[c].step = "marking"
  <2>1. ASSUME ledger' = ledger PROVE FALSE
    BY <1>3, <2>1 DEF Overstated
  <2>2. ASSUME NEW ok \in BOOLEAN, WalkFill(ok) PROVE FALSE
    BY <1>1, <1>3, <2>2, WalkingKeeps
  <2>3. ASSUME ResetAll PROVE FALSE
    BY <1>3, <2>3, JournalAssumption DEF ResetAll, Unread
  <2>4. ASSUME NEW c \in Calls, CommitCorrection(c) PROVE work[c].step = "marking"
    BY <2>4 DEF CommitCorrection
  <2> QED BY <1>1, <2>1, <2>2, <2>3, <2>4
          DEF JournalStep, ReadFills, LookAtTrades, WriteTrades, StartPass, ListReply,
              CheckCorrection, AskNote, SaveNote, AskEntry, SaveEntry, Manage, RestartJournal
<1> QED BY <1>2, <1>3

\* What is on file survives a pass: neither a note nor the trade under it goes without
\* a reset, and no failed lookup zeroes a charge.
THEOREM SpecOnFileStays == JournalSpec => OnFileStays
<1>1. ASSUME JournalInv, [JournalNext]_journalVars
      PROVE  [/\ trades' = {} \/ \A t \in trades : t.id \in notes =>
                  t.id \in notes' /\ \E u \in trades' : u.id = t.id /\ u.like = t.like
              /\ \A f \in Fills : ledger[f] \in 1..Overstated /\ ledger'[f] = 0 =>
                  \E c \in Calls : work[c].step = "marking"]_journalVars
  BY <1>1, StepsKeepWhatIsOnFile
<1> QED BY <1>1, SpecJournalInv, PTL DEF JournalSpec, OnFileStays

\* What a rebuild has read of a trade still holds of it.
Shows(u, t) == u.id = t.id /\ u.like = t.like /\ u.automatic = t.automatic

TradesWereSeen ==
    /\ \A r \in Rebuilders \ outrun : work[r].step = "writing" =>
          \A t \in trades : t.automatic => \E u \in work[r].seen : Shows(u, t)
    /\ work["pass"].step = "writing" /\ "pass" \notin outrun =>
          \A u \in work["pass"].seen : \E t \in trades : Shows(u, t)

\* A rebuild is overtaken between its look and its write, a pass by one it has met.
OutrunWhileWriting ==
    /\ outrun \subseteq Rebuilders /\ \A r \in outrun : work[r].step = "writing"
    /\ "pass" \in outrun => overlapped

\* What the rebuilds have seen, and what follows for the trades.
ViewsInv ==
    tangled \in BOOLEAN /\ OutrunWhileWriting /\ TradesWereSeen /\ NoFillCountsTwice

LEMMA ViewsInvInit == JournalInit => ViewsInv
<1> SUFFICES ASSUME JournalInit PROVE ViewsInv
  OBVIOUS
<1>1. /\ trades = {} /\ \A r \in Rebuilders : work[r].step = "idle"
      /\ outrun = {} /\ tangled = FALSE
  BY IdleWorker DEF JournalInit
<1> QED BY <1>1, IdleWorker DEF ViewsInv, OutrunWhileWriting, NoFillCountsTwice, TradesWereSeen

\* A trade that was read and is stale was dropped or is under review.
LEMMA StaleFacts ==
    ASSUME NEW w, NEW s \in w.seen, s.automatic, s.id \notin Dropped(w)
    PROVE  s.like \in RoundTrips(Recorded(w.fills)) \/ s.id \in Reviewed(w)
BY DEF StaleTrades, Dropped, Reviewed

\* What a rebuild keeps of the trades and does not write over is under review, or it
\* is one of the round trips, blocked by one under review; none of it shares a fill
\* with one that is written.
LEMMA KeptIsApart ==
    ASSUME JournalInv, ViewsInv, NEW r \in Rebuilders \ outrun, work[r].step = "writing",
           KeysHold(work[r]),
           NEW k \in Kept(work[r]), k.automatic,
           \A c \in Written(work[r]) : k.id # RowId(work[r], c)
    PROVE  /\ k.like \in RoundTrips(Recorded(work[r].fills)) \/ k.review
           /\ \A c \in Written(work[r]) : k.like \cap c = {}
           /\ Reviewed(work[r]) # {}
<1> DEFINE w == work[r]
<1>1. PICK t \in trades : /\ t.id \notin Dropped(w) /\ k.id = t.id /\ k.like = t.like
                          /\ k.automatic = t.automatic
                          /\ k.review = (t.review \/ t.id \in Reviewed(w))
  BY KeptFacts
<1>2. PICK s \in w.seen : Shows(s, t)
  BY <1>1 DEF ViewsInv, TradesWereSeen
<1>3. \A c \in Written(w) : /\ c \in RoundTrips(Recorded(w.fills))
                            /\ c \cap Protected(w) = {}
  BY WrittenFacts
<1>4. KeysHold(w) /\ k \in Kept(w) /\ \A c \in Written(w) : k.id # RowId(w, c)
  OBVIOUS
<1> HIDE DEF w
<1>5. k.like \in RoundTrips(Recorded(w.fills)) \/ t.id \in Reviewed(w)
  BY <1>1, <1>2, StaleFacts DEF Shows
<1>6. ASSUME NEW c \in Written(w) PROVE k.like \cap c = {}
  <2>1. CASE t.id \in Reviewed(w)
    <3>1. t.like \subseteq Protected(w)
      BY <2>1 DEF Protected
    <3> QED BY <1>1, <1>3, <3>1
  <2>2. CASE k.like \in RoundTrips(Recorded(w.fills))
    <3>1. k.like # c
      BY <1>1, <1>4 DEF KeysHold
    <3> QED BY <1>3, <2>2, <3>1, RoundTripsFacts
  <2> QED BY <1>5, <2>1, <2>2
<1>7. ASSUME Reviewed(w) = {} PROVE FALSE
  <2>1. k.like \in RoundTrips(Recorded(w.fills)) /\ Protected(w) = {}
    BY <1>5, <1>7 DEF Protected
  <2>2. k.like \in Written(w)
    BY <2>1 DEF Written
  <2> QED BY <1>4, <2>2 DEF KeysHold
<1> QED BY <1>1, <1>5, <1>6, <1>7 DEF w

\* What a rebuild that nothing overtook leaves is apart, if it was before or nothing
\* is under review.
LEMMA WrittenTradesAreApart ==
    ASSUME JournalInv, ViewsInv, NEW r \in Rebuilders \ outrun, work[r].step = "writing",
           KeysHold(work[r]), trades' = Rebuilt(work[r]),
           ~tangled \/ Reviewed(work[r]) = {}
    PROVE  \A t, u \in trades' : t.automatic /\ u.automatic /\ t # u => t.like \cap u.like = {}
<1> DEFINE w == work[r]
<1>1. \A c \in Written(w) : /\ c \in RoundTrips(Recorded(w.fills))
                            /\ WrittenRow(w, c).like = c
  BY WrittenFacts
<1>2. \A k \in Kept(w) : k.automatic /\ (\A c \in Written(w) : k.id # RowId(w, c)) =>
         \A c \in Written(w) : k.like \cap c = {}
  BY KeptIsApart
<1>3. trades' = {t \in Kept(w) : \A c \in Written(w) : t.id # RowId(w, c)}
                  \cup {WrittenRow(w, c) : c \in Written(w)}
  BY DEF Rebuilt
<1>4. ASSUME NEW k \in Kept(w), NEW l \in Kept(w), k.automatic, l.automatic, k # l,
             \A c \in Written(w) : k.id # RowId(w, c)
      PROVE  k.like \cap l.like = {}
  <2>0. ~tangled
    BY <1>4, KeptIsApart
  <2>1. PICK t \in trades : k.id = t.id /\ k.like = t.like /\ k.automatic = t.automatic
    BY KeptFacts
  <2>2. PICK u \in trades : l.id = u.id /\ l.like = u.like /\ l.automatic = u.automatic
    BY KeptFacts
  <2>3. t # u
    <3>1. k.id # l.id
      BY <1>4, KeptFacts
    <3> QED BY <2>1, <2>2, <3>1
  <2> QED BY <1>4, <2>0, <2>1, <2>2, <2>3 DEF ViewsInv, NoFillCountsTwice
<1> HIDE DEF w
<1>5. ASSUME NEW t \in trades', NEW u \in trades', t.automatic, u.automatic, t # u
      PROVE  t.like \cap u.like = {}
  <2>1. CASE /\ t \in Kept(w) /\ u \in Kept(w)
             /\ \A d \in Written(w) : t.id # RowId(w, d)
    BY <1>4, <1>5, <2>1
  <2>2. ASSUME NEW c \in Written(w), NEW d \in Written(w),
               t = WrittenRow(w, c), u = WrittenRow(w, d)
        PROVE  t.like \cap u.like = {}
    <3>1. c # d
      BY <1>5, <2>2
    <3> QED BY <1>1, <2>2, <3>1, RoundTripsFacts
  <2>3. ASSUME NEW c \in Written(w), t = WrittenRow(w, c), u \in Kept(w),
               \A d \in Written(w) : u.id # RowId(w, d)
        PROVE  t.like \cap u.like = {}
    BY <1>1, <1>2, <1>5, <2>3
  <2>4. ASSUME NEW c \in Written(w), u = WrittenRow(w, c), t \in Kept(w),
               \A d \in Written(w) : t.id # RowId(w, d)
        PROVE  t.like \cap u.like = {}
    BY <1>1, <1>2, <1>5, <2>4
  <2> QED BY <1>3, <2>1, <2>2, <2>3, <2>4
<1> QED BY <1>5

\* A meeting is remembered until the pass has written.
LEMMA OverlapLasts ==
    ASSUME NoteOverlap, overlapped, Rebuilding("pass")'
    PROVE  overlapped'
<1>1. "pass" \in Rebuilders
  BY IdleWorker
<1> QED BY <1>1 DEF NoteOverlap

\* Where no action but a write changes the automatic trades, and none but a look or a
\* write moves a rebuild there.
LEMMA ViewsStay ==
    ASSUME ViewsInv, NoteOverlap,
           \A r \in Rebuilders : \/ work'[r] = work[r]
                                 \/ work[r].step # "writing" /\ work'[r].step # "writing",
           {t \in trades' : t.automatic} \subseteq trades,
           trades \subseteq trades' \/ work'["pass"].step # "writing",
           outrun' = outrun, tangled' = tangled \/ (tangled' = FALSE /\ trades' = {})
    PROVE  ViewsInv'
<1>1. NoFillCountsTwice' /\ tangled' \in BOOLEAN
  BY DEF ViewsInv, NoFillCountsTwice
<1>2. \A r \in Rebuilders \ outrun' : work'[r].step = "writing" =>
         \A t \in trades' : t.automatic => \E u \in work'[r].seen : Shows(u, t)
  BY DEF ViewsInv, TradesWereSeen
<1>3. work'["pass"].step = "writing" /\ "pass" \notin outrun' =>
         \A u \in work'["pass"].seen : \E t \in trades' : Shows(u, t)
  BY IdleWorker DEF ViewsInv, TradesWereSeen
<1>4. OutrunWhileWriting'
  <2>1. \A r \in outrun' : work'[r].step = "writing"
    BY DEF ViewsInv, OutrunWhileWriting
  <2>2. "pass" \in outrun' => overlapped'
    BY <2>1, OverlapLasts DEF ViewsInv, OutrunWhileWriting, Rebuilding
  <2> QED BY <2>1, <2>2 DEF ViewsInv, OutrunWhileWriting
<1> QED BY <1>1, <1>2, <1>3, <1>4 DEF ViewsInv, TradesWereSeen, Shows

LEMMA LookingKeepsViews ==
    ASSUME JournalInv, ViewsInv, NoteOverlap, NEW r \in Rebuilders, LookAtTrades(r)
    PROVE  ViewsInv'
<1> DEFINE sightings == {[id |-> t.id, like |-> t.like, automatic |-> t.automatic,
                     annotated |-> t.id \in notes] : t \in trades}
<1>1. /\ work \in [Rebuilders -> Worker] /\ trades' = trades /\ work[r].step = "looking"
      /\ outrun' = outrun /\ tangled' = tangled
  BY DEF JournalInv, JournalShapes, LookAtTrades
<1>2. \A t \in trades : \E u \in sightings : Shows(u, t)
  <2> TAKE t \in trades
  <2> WITNESS [id |-> t.id, like |-> t.like, automatic |-> t.automatic,
               annotated |-> t.id \in notes] \in sightings
  <2> QED BY DEF Shows
<1>3. \A u \in sightings : \E t \in trades : Shows(u, t)
  BY DEF Shows
<1>4. work' = [work EXCEPT ![r] = [work[r] EXCEPT !.step = "writing", !.seen = sightings]]
  BY <1>1 DEF LookAtTrades
<1> HIDE DEF sightings
<1>5. /\ work'[r].seen = sightings /\ work'[r].step = "writing"
      /\ \A q \in Rebuilders : q # r => work'[q] = work[q]
  BY <1>1, <1>4 DEF Worker
<1>6. NoFillCountsTwice' /\ tangled' \in BOOLEAN
  BY <1>1 DEF ViewsInv, NoFillCountsTwice
<1>7. \A q \in Rebuilders \ outrun' : work'[q].step = "writing" =>
         \A t \in trades' : t.automatic => \E u \in work'[q].seen : Shows(u, t)
  BY <1>1, <1>2, <1>5 DEF ViewsInv, TradesWereSeen
<1>8. work'["pass"].step = "writing" /\ "pass" \notin outrun' =>
         \A u \in work'["pass"].seen : \E t \in trades' : Shows(u, t)
  BY <1>1, <1>3, <1>5, IdleWorker DEF ViewsInv, TradesWereSeen
<1>9. OutrunWhileWriting'
  <2>1. \A q \in outrun' : work'[q].step = "writing"
    BY <1>1, <1>5 DEF ViewsInv, OutrunWhileWriting
  <2>2. "pass" \in outrun' => overlapped'
    BY <1>1, <2>1, OverlapLasts DEF ViewsInv, OutrunWhileWriting, Rebuilding
  <2> QED BY <1>1, <2>1, <2>2 DEF ViewsInv, OutrunWhileWriting
<1> QED BY <1>6, <1>7, <1>8, <1>9 DEF ViewsInv, TradesWereSeen, Shows

\* A commit overtakes the rebuilds that have looked; what it leaves is apart, unless it
\* was overtaken itself, or was tangled before and had to leave a trade under review.
LEMMA WritingKeepsViews ==
    ASSUME JournalInv, ViewsInv, NoteOverlap, NEW r \in Rebuilders, WriteTrades(r)
    PROVE  ViewsInv'
<1>1. /\ work[r].step = "writing" /\ work' = [work EXCEPT ![r] = Idle]
      /\ work \in [Rebuilders -> Worker]
      /\ IF KeysHold(work[r]) THEN trades' = Rebuilt(work[r]) /\ NoteCommit(r)
         ELSE outrun' = outrun \ {r} /\ UNCHANGED <<trades, tangled>>
  BY DEF WriteTrades, JournalInv, JournalShapes
<1>2. work'[r].step = "idle" /\ \A q \in Rebuilders : q # r => work'[q] = work[q]
  BY <1>1, IdleWorker
<1>3. outrun \subseteq Rebuilders /\ \A q \in outrun : work[q].step = "writing"
  BY DEF ViewsInv, OutrunWhileWriting
<1>4. CASE KeysHold(work[r])
  <2>1. /\ outrun' = {q \in Rebuilders : work[q].step = "writing"} \ {r}
        /\ tangled' = (r \in outrun \/ (tangled /\ Reviewed(work[r]) # {}))
        /\ trades' = Rebuilt(work[r])
    BY <1>1, <1>3, <1>4 DEF NoteCommit
  <2>2. TradesWereSeen'
    <3>1. \A q \in Rebuilders : work'[q].step = "writing" => q \in outrun'
      BY <1>2, <2>1
    <3> QED BY <3>1, IdleWorker DEF TradesWereSeen
  <2>3. OutrunWhileWriting'
    <3>1. outrun' \subseteq Rebuilders /\ \A q \in outrun' : work'[q].step = "writing"
      BY <1>2, <2>1
    <3>2. ASSUME "pass" \in outrun' PROVE overlapped'
      <4>1. r \in Calls /\ Rebuilding(r) /\ Rebuilding("pass") /\ Rebuilding("pass")'
        BY <1>1, <2>1, <3>1, <3>2 DEF Rebuilders, Rebuilding
      <4>2. overlapped
        BY <4>1 DEF JournalInv, PassReadTheLedger
      <4> QED BY <4>1, <4>2, OverlapLasts
    <3> QED BY <3>1, <3>2 DEF OutrunWhileWriting
  <2>4. NoFillCountsTwice'
    <3>1. ASSUME ~tangled'
          PROVE  \A t, u \in trades' : t.automatic /\ u.automatic /\ t # u => t.like \cap u.like = {}
      <4>1. r \notin outrun /\ (~tangled \/ Reviewed(work[r]) = {})
        BY <2>1, <3>1
      <4> QED BY <1>1, <1>4, <2>1, <4>1, WrittenTradesAreApart
    <3> QED BY <3>1 DEF NoFillCountsTwice
  <2>5. tangled' \in BOOLEAN
    BY <2>1
  <2> QED BY <2>2, <2>3, <2>4, <2>5 DEF ViewsInv
<1>5. CASE ~KeysHold(work[r])
  <2>1. outrun' = outrun \ {r} /\ trades' = trades /\ tangled' = tangled
    BY <1>1, <1>5
  <2>2. TradesWereSeen'
    <3>1. \A q \in Rebuilders \ outrun' : work'[q].step = "writing" =>
            \A t \in trades' : t.automatic => \E u \in work'[q].seen : Shows(u, t)
      BY <1>2, <2>1 DEF ViewsInv, TradesWereSeen
    <3>2. work'["pass"].step = "writing" /\ "pass" \notin outrun' =>
            \A u \in work'["pass"].seen : \E t \in trades' : Shows(u, t)
      BY <1>2, <2>1, IdleWorker DEF ViewsInv, TradesWereSeen
    <3> QED BY <3>1, <3>2 DEF TradesWereSeen, Shows
  <2>3. OutrunWhileWriting'
    <3>1. outrun' \subseteq Rebuilders /\ \A q \in outrun' : work'[q].step = "writing"
      BY <1>2, <1>3, <2>1
    <3>2. "pass" \in outrun' => overlapped'
      BY <2>1, <3>1, OverlapLasts DEF ViewsInv, OutrunWhileWriting, Rebuilding
    <3> QED BY <3>1, <3>2 DEF OutrunWhileWriting
  <2>4. NoFillCountsTwice' /\ tangled' \in BOOLEAN
    BY <2>1 DEF ViewsInv, NoFillCountsTwice
  <2> QED BY <2>2, <2>3, <2>4 DEF ViewsInv
<1> QED BY <1>4, <1>5

LEMMA ViewsInvStep ==
    JournalInv /\ ViewsInv /\ [JournalNext]_journalVars => ViewsInv'
<1> SUFFICES ASSUME JournalInv, ViewsInv, [JournalNext]_journalVars
             PROVE  ViewsInv'
  OBVIOUS
<1>1. work \in [Rebuilders -> Worker] /\ \A c \in Calls : c \in Rebuilders
  BY DEF JournalInv, JournalShapes, Rebuilders
<1>2. CASE UNCHANGED journalVars
  BY <1>2 DEF journalVars, ViewsInv, OutrunWhileWriting, TradesWereSeen, NoFillCountsTwice, Shows
<1>3. ASSUME NoteOverlap, UNCHANGED <<outrun, tangled, trades>>,
             NEW r \in Rebuilders, work[r].step # "writing",
             NEW new, new.step # "writing", work' = [work EXCEPT ![r] = new]
      PROVE  ViewsInv'
  <2>1. \A q \in Rebuilders : \/ work'[q] = work[q]
                              \/ work[q].step # "writing" /\ work'[q].step # "writing"
    BY <1>1, <1>3
  <2> QED BY <1>3, <2>1, ViewsStay
<1>4. ASSUME NoteOverlap, NEW r \in Rebuilders, ReadFills(r) PROVE ViewsInv'
  <2> DEFINE new == [work[r] EXCEPT !.step = "looking", !.fills = ledger]
  <2>1. /\ work' = [work EXCEPT ![r] = new] /\ work[r].step = "reading"
        /\ UNCHANGED <<outrun, tangled, trades>>
    BY <1>1, <1>4 DEF ReadFills
  <2>2. new.step # "writing"
    BY <1>1 DEF Worker
  <2> HIDE DEF new
  <2> QED BY <1>3, <1>4, <2>1, <2>2
<1>5. ASSUME NoteOverlap, StartPass PROVE ViewsInv'
  <2> DEFINE new == [work["pass"] EXCEPT !.step = "listing"]
  <2>1. /\ work' = [work EXCEPT !["pass"] = new] /\ work["pass"].step = "idle"
        /\ UNCHANGED <<outrun, tangled, trades>>
    BY <1>1, <1>5, IdleWorker DEF StartPass
  <2>2. new.step # "writing"
    BY <1>1, IdleWorker DEF Worker
  <2> HIDE DEF new
  <2> QED BY <1>3, <1>5, <2>1, <2>2, IdleWorker
<1>6. ASSUME NoteOverlap, NEW ok \in BOOLEAN, ListReply(ok) PROVE ViewsInv'
  <2> DEFINE new == IF ok THEN [work["pass"] EXCEPT !.step = "walking", !.todo = Fills, !.known = ledger]
                    ELSE Idle
  <2>1. /\ work' = [work EXCEPT !["pass"] = new] /\ work["pass"].step = "listing"
        /\ UNCHANGED <<outrun, tangled, trades>>
    BY <1>1, <1>6, IdleWorker DEF ListReply
  <2>2. new.step # "writing"
    BY <1>1, IdleWorker DEF Worker
  <2> HIDE DEF new
  <2> QED BY <1>3, <1>6, <2>1, <2>2, IdleWorker
<1>7. ASSUME NoteOverlap, NEW ok \in BOOLEAN, WalkFill(ok) PROVE ViewsInv'
  <2> DEFINE rest == work["pass"].todo \ {NextFill(work["pass"].todo)}
             new == IF rest = {} THEN [Idle EXCEPT !.step = "reading"]
                    ELSE [work["pass"] EXCEPT !.todo = rest]
  <2>1. /\ work' = [work EXCEPT !["pass"] = new] /\ work["pass"].step = "walking"
        /\ UNCHANGED <<outrun, tangled, trades>>
    BY <1>1, <1>7, IdleWorker DEF WalkFill
  <2> HIDE DEF rest
  <2>2. new.step # "writing"
    BY <1>1, <2>1, IdleWorker DEF Worker
  <2> HIDE DEF new
  <2> QED BY <1>3, <1>7, <2>1, <2>2, IdleWorker
<1>8. ASSUME NoteOverlap, NEW c \in Calls, CheckCorrection(c) \/ CommitCorrection(c)
      PROVE  ViewsInv'
  <2>1. PICK new : work' = [work EXCEPT ![c] = new] /\ new.step # "writing"
    <3>1. CASE CheckCorrection(c)
      <4> DEFINE new == [work[c] EXCEPT !.step = "marking"]
      <4>1. work' = [work EXCEPT ![c] = new]
        BY <1>1, <3>1 DEF CheckCorrection
      <4>2. new.step # "writing"
        BY <1>1 DEF Worker
      <4> QED BY <4>1, <4>2
    <3>2. CASE CommitCorrection(c) /\ FlagIsFree
      <4> DEFINE step == IF Recorded(ledger) = {} THEN "idle" ELSE "reading"
                 new == [work[c] EXCEPT !.step = step]
      <4>1. work' = [work EXCEPT ![c] = new]
        BY <1>1, <3>2 DEF CommitCorrection
      <4>2. step # "writing"
        OBVIOUS
      <4> HIDE DEF step
      <4>3. new.step # "writing"
        BY <1>1, <4>2 DEF Worker
      <4> QED BY <4>1, <4>3
    <3>3. CASE CommitCorrection(c) /\ ~FlagIsFree
      BY <3>3, IdleWorker DEF CommitCorrection
    <3> QED BY <1>8, <3>1, <3>2, <3>3
  <2>2. UNCHANGED <<outrun, tangled, trades>> /\ work[c].step # "writing"
    BY <1>8 DEF CheckCorrection, CommitCorrection
  <2> QED BY <1>1, <1>3, <1>8, <2>1, <2>2
<1>9. ASSUME NoteOverlap, UNCHANGED <<outrun, tangled, trades, work>> PROVE ViewsInv'
  BY <1>9, ViewsStay
<1>10. ASSUME NoteOverlap, SaveEntry PROVE ViewsInv'
  <2>1. /\ UNCHANGED <<outrun, tangled, work>> /\ trades \subseteq trades'
        /\ {t \in trades' : t.automatic} \subseteq trades
    BY <1>10 DEF SaveEntry
  <2> QED BY <1>10, <2>1, ViewsStay
<1>11. ASSUME NoteOverlap, ResetAll PROVE ViewsInv'
  <2>1. /\ UNCHANGED <<outrun, work>> /\ trades' = {} /\ tangled' = FALSE
        /\ work["pass"].step # "writing"
    BY <1>11 DEF ResetAll
  <2> QED BY <1>11, <2>1, ViewsStay
<1>12. ASSUME RestartJournal PROVE ViewsInv'
  <2>1. /\ \A q \in Rebuilders : work'[q].step # "writing"
        /\ trades' = trades /\ tangled' = tangled /\ outrun' = {}
    BY <1>12, IdleWorker DEF RestartJournal
  <2> QED BY <2>1, IdleWorker
          DEF ViewsInv, OutrunWhileWriting, TradesWereSeen, NoFillCountsTwice
<1>13. CASE JournalNext
  <2>1. NoteOverlap /\ JournalStep
    BY <1>13 DEF JournalNext
  <2>2. (\E t \in trades : AskNote(t)) \/ SaveNote \/ (\E m \in Entries : AskEntry(m))
          \/ (\E f \in Fills : Manage(f)) => UNCHANGED <<outrun, tangled, trades, work>>
    BY DEF AskNote, SaveNote, AskEntry, Manage
  <2> QED BY <1>4, <1>5, <1>6, <1>7, <1>8, <1>9, <1>10, <1>11, <1>12, <2>1, <2>2,
             LookingKeepsViews, WritingKeepsViews DEF JournalStep
<1> QED BY <1>2, <1>13

LEMMA SpecViewsInv == JournalSpec => []ViewsInv
BY ViewsInvInit, ViewsInvStep, SpecJournalInv, PTL DEF JournalSpec

\* The journal's type invariant: what is read and pending has its shape, and no note is
\* without its trade.
THEOREM JournalTypeCorrect == JournalSpec => []JournalTypeOK
<1>1. JournalInv /\ ViewsInv => JournalTypeOK
  <2> SUFFICES ASSUME JournalInv, ViewsInv PROVE JournalTypeOK
    OBVIOUS
  <2>1. JournalShapes /\ NotesHaveTrades
    BY DEF JournalInv
  <2>2. corrected \in 0..Cardinality(Calls)
    <3>1. IsFiniteSet(Calls) /\ Cardinality(Calls) \in Nat
      BY JournalAssumption, FS_CardinalityType
    <3>2. corrected = 1 => Cardinality(Calls) # 0
      BY <2>1, <3>1, FS_EmptySet DEF JournalShapes
    <3>3. corrected \in {0, 1}
      BY <2>1 DEF JournalShapes
    <3> QED BY <3>1, <3>2, <3>3
  <2>3. \A r \in Rebuilders :
          /\ work[r].step \in {"idle", "listing", "walking", "marking", "reading", "looking",
                               "writing"}
          /\ work[r].todo \subseteq Fills /\ work[r].known \in Ledger /\ work[r].fills \in Ledger
    BY <2>1 DEF JournalShapes, Worker
  <2>4. request.op \in {"none", "note", "enter"}
    BY <2>1 DEF JournalShapes
  <2>5. outrun \subseteq Rebuilders /\ tangled \in BOOLEAN
    BY DEF ViewsInv, OutrunWhileWriting
  <2> QED BY <2>1, <2>2, <2>3, <2>4, <2>5 DEF JournalTypeOK, JournalShapes, NotesHaveTrades
<1> QED BY <1>1, SpecJournalInv, SpecViewsInv, PTL

\* No execution counts towards two trades, but after a rebuild that another one overtook
\* and until the next has cleared it up, and the correction is applied once, whatever
\* fills, notes, entries and corrections come meanwhile.
THEOREM SpecNothingCountsTwice == JournalSpec => []NothingCountsTwice
<1>1. ViewsInv /\ CorrectedAtMostOnce => NothingCountsTwice
  BY DEF ViewsInv, NothingCountsTwice
<1> QED BY <1>1, SpecViewsInv, SpecCorrectedAtMostOnce, PTL

\* A stale trade with a note is kept under review, as it is.
LEMMA ReviewedFacts ==
    ASSUME JournalInv, ViewsInv, work["pass"].step = "writing", "pass" \notin outrun,
           NEW u \in trades, u.id \in Reviewed(work["pass"])
    PROVE  /\ u.automatic /\ u.id \notin Dropped(work["pass"])
           /\ u.like \notin RoundTrips(Recorded(work["pass"].fills))
<1> DEFINE w == work["pass"]
<1>1. PICK s \in w.seen : /\ s.automatic /\ s.annotated /\ s.id = u.id
                          /\ s.like \notin RoundTrips(Recorded(w.fills))
  BY DEF Reviewed, StaleTrades
<1>2. PICK t \in trades : Shows(s, t)
  BY <1>1 DEF ViewsInv, TradesWereSeen
<1>3. t = u
  BY <1>1, <1>2 DEF JournalInv, TradesAreNamed, Shows
<1>4. SeenAreNamed(w.seen)
  BY IdleWorker DEF JournalInv, SeenRowsAreNamed
<1> HIDE DEF w
<1>5. u.id \notin Dropped(w)
  BY <1>1, <1>4 DEF Dropped, StaleTrades, SeenAreNamed
<1> QED BY <1>1, <1>2, <1>3, <1>5 DEF Shows, w

LEMMA PassMatches ==
    ASSUME JournalInv, ViewsInv, WriteTrades("pass"), ~overlapped, ~tangled',
           KeysHold(work["pass"])
    PROVE  /\ \A t \in trades' : t.automatic /\ ~t.review =>
                /\ t.like \in RoundTrips(Recorded(ledger))
                /\ t.charges = ChargesOf(ledger, t.like)
           /\ \A c \in RoundTrips(Recorded(ledger)) :
                \E t \in trades' : t.automatic /\ t.like \cap c # {}
<1> DEFINE w == work["pass"]
           trips == RoundTrips(Recorded(ledger))
<1>1. /\ w.step = "writing" /\ w.fills = ledger
      /\ "pass" \in Rebuilders \ outrun /\ (~tangled \/ Reviewed(w) = {})
  BY IdleWorker DEF WriteTrades, NoteCommit, JournalInv, PassReadTheLedger, ViewsInv,
     OutrunWhileWriting
<1>2. trades' = {t \in Kept(w) : \A c \in Written(w) : t.id # RowId(w, c)}
                  \cup {WrittenRow(w, c) : c \in Written(w)}
  BY DEF WriteTrades, Rebuilt
<1>3. \A c \in Written(w) :
        /\ c \in trips /\ c \cap Protected(w) = {} /\ c # {}
        /\ WrittenRow(w, c).like = c /\ WrittenRow(w, c).automatic = TRUE
        /\ WrittenRow(w, c).id = RowId(w, c) /\ NamedByTrip(WrittenRow(w, c))
        /\ WrittenRow(w, c).charges = ChargesOf(ledger, c)
  <2> TAKE c \in Written(w)
  <2>1. "pass" \in Rebuilders /\ c \in Written(work["pass"]) /\ Recorded(w.fills) = Recorded(ledger)
    BY <1>1, IdleWorker
  <2>2. /\ c \in RoundTrips(Recorded(w.fills)) /\ c \cap Protected(w) = {} /\ c # {}
        /\ WrittenRow(w, c).like = c /\ WrittenRow(w, c).automatic = TRUE
        /\ WrittenRow(w, c).id = RowId(w, c) /\ NamedByTrip(WrittenRow(w, c))
        /\ WrittenRow(w, c).charges = ChargesOf(w.fills, c)
    BY <2>1, WrittenFacts
  <2> HIDE DEF w
  <2> QED BY <1>1, <2>1, <2>2
<1>4. \A c \in trips : c \in Written(w) \/ \E u \in trades :
        u.id \in Reviewed(w) /\ u.like \cap c # {}
  BY <1>1 DEF Written, Protected
<1>5. \A u \in trades : u.id \in Reviewed(w) =>
        u.automatic /\ u.id \notin Dropped(w) /\ u.like \notin trips
  BY <1>1, ReviewedFacts
<1>6. \A k \in Kept(w) : k.automatic /\ (\A c \in Written(w) : k.id # RowId(w, c)) =>
        k.like \in trips \/ k.review
  BY <1>1, IdleWorker, KeptIsApart
<1>7. /\ KeysHold(w)
      /\ Reviewed(w) # {} => \A t, u \in trades :
            t.automatic /\ u.automatic /\ t # u => t.like \cap u.like = {}
  BY <1>1 DEF ViewsInv, NoFillCountsTwice
<1>8. \A t \in trades : NamedByTrip(t)
  BY DEF JournalInv, TradesAreNamed
<1> HIDE DEF w, trips
<1>9. ASSUME NEW k \in Kept(w), \A c \in Written(w) : k.id # RowId(w, c),
             k.automatic, ~k.review
      PROVE  FALSE
  <2>1. k.like \in trips
    BY <1>6, <1>9
  <2>2. PICK t \in trades : k.id = t.id /\ k.like = t.like /\ k.automatic = t.automatic
    BY KeptFacts
  <2>3. CASE k.like \in Written(w)
    BY <1>7, <1>9, <2>3 DEF KeysHold
  <2>4. CASE \E u \in trades : u.id \in Reviewed(w) /\ u.like \cap k.like # {}
    BY <1>5, <1>7, <1>9, <2>1, <2>2, <2>4
  <2> QED BY <1>4, <2>1, <2>3, <2>4
<1>10. ASSUME NEW t \in trades', t.automatic, ~t.review
       PROVE  t.like \in trips /\ t.charges = ChargesOf(ledger, t.like)
  BY <1>2, <1>3, <1>9, <1>10
<1>11. ASSUME NEW c \in trips PROVE \E t \in trades' : t.automatic /\ t.like \cap c # {}
  <2>1. CASE c \in Written(w)
    BY <1>2, <1>3, <2>1
  <2>2. ASSUME NEW u \in trades, u.id \in Reviewed(w), u.like \cap c # {}
        PROVE  \E t \in trades' : t.automatic /\ t.like \cap c # {}
    <3>1. PICK k \in Kept(w) : k.id = u.id /\ k.like = u.like /\ k.automatic = u.automatic
      BY <1>5, <2>2, KeptFacts
    <3>2. ASSUME NEW d \in Written(w), k.id = RowId(w, d) PROVE FALSE
      <4>1. d = u.like
        <5> DEFINE row == WrittenRow(w, d)
        <5>1. NamedByTrip(row) /\ row.id = u.id /\ row.like = d
          BY <1>3, <3>1, <3>2
        <5> HIDE DEF row
        <5> QED BY <1>8, <5>1 DEF NamedByTrip
      <4>2. u.like \subseteq Protected(w)
        BY <2>2 DEF Protected
      <4> QED BY <1>3, <4>1, <4>2
    <3> QED BY <1>2, <1>5, <2>2, <3>1, <3>2
  <2> QED BY <1>4, <2>1, <2>2
<1> QED BY <1>10, <1>11 DEF trips

\* A pass that met no correction, and has no tangle left to clear up, leaves the closed
\* trades as the round trips of the ledger, with their charges, and a round trip without
\* a trade only where one under review holds a fill of it.
THEOREM SpecPassMatchesLedger == JournalSpec => PassMatchesLedger
<1>1. ASSUME JournalInv, ViewsInv, [JournalNext]_journalVars
      PROVE  [LET trips == RoundTrips(Recorded(ledger)) IN
              WriteTrades("pass") /\ ~overlapped /\ ~tangled' /\ KeysHold(work["pass"]) =>
               /\ \A t \in trades' : t.automatic /\ ~t.review =>
                   t.like \in trips /\ t.charges = ChargesOf(ledger, t.like)
               /\ \A c \in trips : \E t \in trades' : t.automatic /\ t.like \cap c # {}]_journalVars
  BY <1>1, PassMatches
<1> QED BY <1>1, SpecJournalInv, SpecViewsInv, PTL DEF JournalSpec, PassMatchesLedger

-----------------------------------------------------------------------------
(* All of them.  The services share no state, so a behaviour of them all   *)
(* is one of each, and what was proved of each holds there too.            *)

LEMMA ServicesStart ==
    ServicesInit =>
        /\ StreamInit /\ CandleInit /\ FlowInit /\ SizingInit /\ JournalInit /\ LoginInit
        /\ EstimateInit /\ NotificationInit /\ SnapshotInit
BY DEF ServicesInit

\* A step of them all is one of one of them, and the others stand still.
LEMMA ServicesStepApart ==
    [ServicesNext]_<<active, marketVars, recordVars>> =>
        /\ [StreamNext]_streamVars /\ [CandleNext]_candleVars /\ [FlowNext]_flowVars
        /\ [SizingNext]_sized /\ [JournalNext]_journalVars /\ [LoginNext]_loginVars
        /\ [EstimateNext]_estimateVars /\ [NotificationNext]_notificationVars
        /\ [SnapshotNext]_snapshotVars
<1> SUFFICES ASSUME [ServicesNext]_<<active, marketVars, recordVars>>
             PROVE  /\ [StreamNext]_streamVars /\ [CandleNext]_candleVars /\ [FlowNext]_flowVars
                    /\ [SizingNext]_sized /\ [JournalNext]_journalVars /\ [LoginNext]_loginVars
                    /\ [EstimateNext]_estimateVars /\ [NotificationNext]_notificationVars
                    /\ [SnapshotNext]_snapshotVars
  OBVIOUS
<1> DEFINE market == UNCHANGED <<streamVars, candleVars, flowVars, sized>>
           records == UNCHANGED <<journalVars, loginVars, estimateVars, notificationVars,
                                  snapshotVars>>
<1>1. CASE UNCHANGED <<active, marketVars, recordVars>>
  BY <1>1 DEF marketVars, recordVars, estimateAndLog
<1>2. CASE MarketNext
  <2>1. records
    BY <1>2 DEF MarketNext, recordVars, estimateAndLog
  <2>2. \/ StreamNext /\ UNCHANGED <<candleVars, flowVars, sized>>
        \/ CandleNext /\ UNCHANGED <<streamVars, flowVars, sized>>
        \/ FlowNext /\ UNCHANGED <<streamVars, candleVars, sized>>
        \/ SizingNext /\ UNCHANGED <<streamVars, candleVars, flowVars>>
    BY <1>2 DEF MarketNext
  <2> QED BY <2>1, <2>2
<1>3. CASE RecordsNext
  <2>1. market
    BY <1>3 DEF RecordsNext, marketVars
  <2>2. \/ JournalNext /\ UNCHANGED <<loginVars, estimateVars, notificationVars, snapshotVars>>
        \/ LoginNext /\ UNCHANGED <<journalVars, estimateVars, notificationVars, snapshotVars>>
        \/ EstimateNext /\ UNCHANGED <<journalVars, loginVars, notificationVars, snapshotVars>>
        \/ NotificationNext /\ UNCHANGED <<journalVars, loginVars, estimateVars, snapshotVars>>
        \/ SnapshotNext /\ UNCHANGED <<journalVars, loginVars, estimateVars, notificationVars>>
    BY <1>3 DEF RecordsNext, estimateAndLog, SnapshotNext
  <2> QED BY <2>1, <2>2
<1> QED BY <1>1, <1>2, <1>3 DEF ServicesNext

\* A behaviour of the services side by side is a behaviour of each.
THEOREM ServicesRunApart ==
    ServicesSpec => /\ StreamSpec /\ CandleSpec /\ FlowSpec /\ SizingSpec /\ JournalSpec
                    /\ LoginSpec /\ EstimateSpec /\ NotificationSpec /\ SnapshotSpec
BY ServicesStart, ServicesStepApart, PTL
   DEF ServicesSpec, StreamSpec, CandleSpec, FlowSpec, SizingSpec, JournalSpec, LoginSpec,
       EstimateSpec, NotificationSpec, SnapshotSpec

LEMMA RecordTypes ==
    /\ SnapshotInv => SnapshotTypeOK
    /\ LogInv => NotificationTypeOK
<1>1. SnapshotInv => SnapshotTypeOK
  <2> SUFFICES ASSUME SnapshotShapes PROVE SnapshotTypeOK
    BY DEF SnapshotInv
  <2>1. \A w \in Workers, h \in Histories :
          tick[w][h].step \in {"idle", "look", "fetch", "save"} /\ cleanedFor[w][h] \in Int
    BY DEF SnapshotShapes, Tick
  <2> QED BY <2>1 DEF SnapshotShapes, SnapshotTypeOK
<1>2. LogInv => NotificationTypeOK
  <2> SUFFICES ASSUME LogInv PROVE NotificationTypeOK
    OBVIOUS
  <2>1. LogShapes /\ IdsAreUnique /\ Count \in 0..MaxRecorded
    BY DEF LogInv, LogShapes
  <2>2. 1..Count \subseteq Serials
    BY <2>1, NotificationAssumption DEF Serials
  <2>3. DOMAIN recorded \in {1..k : k \in 0..MaxRecorded}
    BY <2>1 DEF LogShapes
  <2> HIDE DEF Count
  <2>4. rows \subseteq Row /\ listed \subseteq [id : Nat \ {0}, serial : Serials]
    BY <2>1, <2>2 DEF LogShapes, Row
  <2>5. \A d \in delivering : d.step \in {"dispatching", "pushing"} /\ d.serial \in Serials
    BY <2>1, <2>2 DEF LogShapes
  <2> QED BY <2>1, <2>3, <2>4, <2>5 DEF LogShapes, IdsAreUnique, NotificationTypeOK
<1> QED BY <1>1, <1>2

LEMMA SpecLogInv == NotificationSpec => []LogInv
BY NotificationInitInv, NotificationNextInv, PTL DEF NotificationSpec

\* The types of all the services, in any behaviour of them.
THEOREM SpecServicesTypeOK == ServicesSpec => []ServicesTypeOK
<1>1. /\ StreamTypeOK /\ CandleTypeOK /\ FlowTypeOK /\ JournalTypeOK /\ LoginTypeOK
      /\ EstimateTypeOK /\ SnapshotTypeOK /\ NotificationTypeOK
      => ServicesTypeOK
  BY DEF ServicesTypeOK
<1> QED BY <1>1, ServicesRunApart, StreamTypeCorrect, CandleTypeCorrect, FlowTypeCorrect,
           JournalTypeCorrect, LoginTypeCorrect, EstimateTypeCorrect, SpecSnapshotInv,
           SpecLogInv, RecordTypes, PTL
=============================================================================
