-------------------------- MODULE RecordProofs --------------------------
(***************************************************************************)
(* What the server's records can be relied on for, proved for any number   *)
(* of days, fetches, attempts, workers and notifications: the overnight    *)
(* estimate of the account (AccountEstimate), the file of login attempts   *)
(* (DailyLogin), the two histories (Snapshots), the notification log       *)
(* (Notifications).  The four share no state.                              *)
(***************************************************************************)
EXTENDS AccountEstimate, DailyLogin, Snapshots, Notifications,
        FiniteSetTheorems, WellFoundedInduction, TLAPS

-----------------------------------------------------------------------------
(***************************************************************************)
(* The overnight estimate: it is the broker's figure, captured once an     *)
(* evening.                                                                *)
(***************************************************************************)

Sources == {"broker", "estimate", "zeros"}
Stored == [from : Sources, of : Dates, charges : Dates, captured : Dates]
Entry == [figure : Figure, at : Hours]
AskedFor == [step : {"idle", "funds", "positions"}, funds : Funds \cup {NoFigure},
             on : 0..Nights, at : Hours]

\* What the proofs use of the types.
EstimateShapes ==
    /\ date \in Dates /\ hour \in Hours
    /\ stored \in Stored \cup {NoFigure}
    /\ cached \in [Callers -> Entry \cup {NoFigure}]
    /\ asking \in [Callers -> AskedFor]
    /\ shown \in Figure \cup {NoFigure} /\ crossed \subseteq Dates
    /\ captures \in [Dates -> Nat]
    /\ complaints \in [Dates -> Nat]
    /\ complained \in 0..Nights

\* A request in its last step has the reply of its first.
Replied == \A c \in Callers : asking[c].step = "positions" => asking[c].funds \in Funds

Busy == asking["task"].step # "idle"

\* The task asks late on a day and hears of it that day, or in the maintenance
\* window that follows, when the funds endpoint gives nothing.
TaskAsksLate ==
    Busy => /\ asking["task"].at = "late" /\ asking["task"].on \in Dates
            /\ \/ hour = "late" /\ asking["task"].on = date
               \/ hour = "maintenance" /\ asking["task"].on = date - 1

\* What the funds endpoint told the task is of the day the task asked, and after
\* midnight the task is known to have crossed it with the funds in hand.
TaskHeardTheBroker ==
    Busy /\ asking["task"].step = "positions" =>
        /\ asking["task"].funds.from \in {"broker", "zeros"}
        /\ asking["task"].funds.from = "broker" =>
              /\ asking["task"].funds.of = asking["task"].on
              /\ hour = "maintenance" => asking["task"].on \in crossed

\* The task's own cache entry is never an estimate, and it is today's when late.
TaskEntryIsFresh ==
    cached["task"] # NoFigure =>
        /\ cached["task"].figure.from \in {"broker", "zeros"}
        /\ hour = "late" => /\ cached["task"].at = "late"
                            /\ cached["task"].figure.from = "broker"
                                  => /\ cached["task"].figure.of = date
                                     /\ cached["task"].figure.charges = date
        /\ hour = "session" => cached["task"].at = "maintenance"

\* A day with a capture is not after the stored one, which is not after today;
\* while the task asks, the stored one is older than what it asks for.
CapturesAreStored ==
    /\ \A d \in Dates : captures[d] > 0 => stored # NoFigure /\ d <= stored.captured
    /\ stored # NoFigure => stored.captured <= date
    /\ Busy /\ stored # NoFigure => stored.captured < asking["task"].on

\* The day of the last complaint is remembered until a restart forgets both.
ComplaintsAreRemembered ==
    /\ complained <= date
    /\ \A d \in Dates : complaints[d] <= 1 /\ (complaints[d] = 1 => d <= complained)

EstimateInv ==
    /\ EstimateShapes /\ Replied /\ TaskAsksLate /\ TaskHeardTheBroker /\ TaskEntryIsFresh
    /\ CapturesAreStored /\ ComplaintsAreRemembered
    /\ EstimateIsTheBrokers /\ OneCapturePerDay

-----------------------------------------------------------------------------
LEMMA EstimateInitInv == EstimateInit => EstimateInv
<1> SUFFICES ASSUME EstimateInit PROVE EstimateInv OBVIOUS
<1>1. 1 \in Dates /\ Nights \in Nat
  BY EstimateAssumption DEF Dates
<1>2. NotAsking \in AskedFor
  BY <1>1 DEF NotAsking, AskedFor, Hours
<1>3. EstimateShapes
  BY <1>1, <1>2 DEF EstimateInit, EstimateShapes, Hours
<1>4. ~Busy /\ Replied
  BY DEF EstimateInit, Busy, Replied, NotAsking, Callers
<1> QED
  BY <1>1, <1>3, <1>4 DEF EstimateInit, EstimateInv, TaskAsksLate, TaskHeardTheBroker,
     TaskEntryIsFresh, CapturesAreStored, ComplaintsAreRemembered, EstimateIsTheBrokers,
     OneCapturePerDay, Callers, Dates

\* What the task stores under a day it has not captured yet, if it is the
\* broker's figure of that day, keeps the stored estimate sound.
LEMMA TaskUse ==
    ASSUME EstimateInv, NEW figure \in Figure, NEW on \in Dates,
           Use("task", figure, on), on <= date,
           figure.from \in {"broker", "zeros"}, figure.from = "broker" => figure.of = on,
           figure.from = "broker" =>
               figure.charges = on \/ (on \in crossed /\ figure.charges = on + 1),
           stored # NoFigure => stored.captured < on,
           date' = date, crossed' = crossed, ~Busy'
    PROVE  /\ stored' \in Stored \cup {NoFigure} /\ captures' \in [Dates -> Nat]
           /\ shown' = shown
           /\ CapturesAreStored' /\ EstimateIsTheBrokers' /\ OneCapturePerDay'
<1> USE DEF EstimateInv
<1>1. CASE figure.from = "zeros"
  <2>1. UNCHANGED <<stored, captures, shown>>
    BY <1>1 DEF Use
  <2> QED
    BY <2>1 DEF EstimateShapes, CapturesAreStored, EstimateIsTheBrokers, OneCapturePerDay
<1>2. CASE figure.from = "broker"
  <2> DEFINE row == [from |-> figure.from, of |-> figure.of, charges |-> figure.charges,
                     captured |-> on]
  <2>1. /\ stored' = row /\ captures' = [captures EXCEPT ![on] = @ + 1] /\ shown' = shown
    BY <1>2 DEF Use
  <2>2. /\ row \in Stored /\ row.from = "broker" /\ row.of = on /\ row.captured = on
        /\ row.charges = on \/ (on \in crossed /\ row.charges = on + 1)
    BY <1>2 DEF Figure, Stored, Sources
  <2>3. row # NoFigure
    BY <2>2, NoFigureAssumption DEF Stored, Sources, Dates
  <2> HIDE DEF row
  <2>4. captures[on] = 0
    BY DEF CapturesAreStored, EstimateShapes, Stored, Dates
  <2>5. /\ captures' \in [Dates -> Nat] /\ captures'[on] = 1
        /\ \A d \in Dates : d # on => captures'[d] = captures[d]
    BY <2>1, <2>4 DEF EstimateShapes
  <2>6. OneCapturePerDay' /\ EstimateIsTheBrokers'
    BY <2>1, <2>2, <2>3, <2>5 DEF OneCapturePerDay, EstimateIsTheBrokers
  <2>7. CapturesAreStored'
    <3>1. \A d \in Dates : captures'[d] > 0 => d <= on
      BY <2>5 DEF CapturesAreStored, EstimateShapes, Stored, Dates
    <3> QED BY <2>1, <2>2, <2>3, <3>1 DEF CapturesAreStored
  <2> QED BY <2>1, <2>2, <2>5, <2>6, <2>7
<1> QED BY <1>1, <1>2

-----------------------------------------------------------------------------
(* One lemma per action.                                                   *)

LEMMA AskSummaryInv ==
    ASSUME EstimateInv, NEW c \in Callers, AskSummary(c)
    PROVE  EstimateInv'
<1> USE DEF EstimateInv
<1>1. /\ UNCHANGED <<date, hour, cached, crossed, complaints, complained>>
      /\ asking[c].step = "idle"
      /\ Due(c)
  BY DEF AskSummary
<1>2. date \in Dates /\ date \in Nat
  BY DEF EstimateShapes, Dates
<1>3. CASE cached[c] # NoFigure
  <2>1. Use(c, cached[c].figure, date) /\ asking' = asking
    BY <1>3 DEF AskSummary, CacheKey
  <2>2. cached[c] \in Entry /\ cached[c].figure \in Figure
    BY <1>3 DEF EstimateShapes, Entry
  <2>3. CASE c = "app"
    <3>1. shown' \in Figure /\ stored' = stored /\ captures' = captures
      BY <2>1, <2>2, <2>3 DEF Use
    <3> QED
      BY <1>1, <2>1, <3>1 DEF EstimateShapes, Replied, Busy, TaskAsksLate, TaskHeardTheBroker,
         TaskEntryIsFresh, CapturesAreStored, ComplaintsAreRemembered, EstimateIsTheBrokers,
         OneCapturePerDay
  <2>4. CASE c = "task"
    <3>1. hour = "late" /\ (stored # NoFigure => stored.captured < date)
      BY <1>1, <1>2, <2>4 DEF Due, Captured, CapturesAreStored, EstimateShapes, Stored, Dates
    <3>2. ~Busy /\ ~Busy'
      BY <1>1, <2>1, <2>4 DEF Busy
    <3>3. /\ cached[c].figure.from \in {"broker", "zeros"}
          /\ cached[c].figure.from = "broker" =>
                cached[c].figure.of = date /\ cached[c].figure.charges = date
      BY <1>3, <2>4, <3>1 DEF TaskEntryIsFresh
    <3>4. /\ stored' \in Stored \cup {NoFigure} /\ captures' \in [Dates -> Nat]
          /\ shown' = shown
          /\ CapturesAreStored' /\ EstimateIsTheBrokers' /\ OneCapturePerDay'
      BY <1>1, <1>2, <2>1, <2>2, <2>4, <3>1, <3>2, <3>3, TaskUse
    <3> QED
      BY <1>1, <2>1, <3>2, <3>4 DEF EstimateShapes, Replied, TaskAsksLate, TaskHeardTheBroker,
         TaskEntryIsFresh, ComplaintsAreRemembered
  <2> QED BY <2>3, <2>4 DEF Callers
<1>4. CASE cached[c] = NoFigure
  <2> DEFINE request == [step |-> "funds", funds |-> NoFigure, on |-> date, at |-> hour]
  <2>1. asking' = [asking EXCEPT ![c] = request] /\ UNCHANGED <<stored, shown, captures>>
    BY <1>4 DEF AskSummary, CacheKey
  <2>2. /\ request \in AskedFor /\ request.step = "funds" /\ request.on = date
        /\ request.at = hour
    BY <1>2 DEF AskedFor, EstimateShapes, Dates
  <2> HIDE DEF request
  <2>3. /\ asking' \in [Callers -> AskedFor] /\ asking'[c] = request
        /\ \A d \in Callers : d # c => asking'[d] = asking[d]
    BY <2>1, <2>2 DEF EstimateShapes
  <2>4. EstimateShapes' /\ Replied'
    BY <1>1, <2>1, <2>2, <2>3 DEF EstimateShapes, Replied
  <2>5. TaskAsksLate' /\ TaskHeardTheBroker' /\ CapturesAreStored'
    <3>1. CASE c = "task"
      <4>1. hour = "late" /\ (stored # NoFigure => stored.captured < date)
        BY <1>1, <1>2, <3>1 DEF Due, Captured, CapturesAreStored, EstimateShapes, Stored, Dates
      <4> QED
        BY <1>1, <1>2, <2>1, <2>2, <2>3, <3>1, <4>1 DEF TaskAsksLate, TaskHeardTheBroker,
           CapturesAreStored, Busy
    <3>2. CASE c # "task"
      <4>1. asking'["task"] = asking["task"]
        BY <2>3, <3>2 DEF Callers
      <4> QED
        BY <1>1, <2>1, <4>1 DEF TaskAsksLate, TaskHeardTheBroker, CapturesAreStored, Busy
    <3> QED BY <3>1, <3>2
  <2> QED
    BY <1>1, <2>1, <2>4, <2>5 DEF TaskEntryIsFresh, ComplaintsAreRemembered,
       EstimateIsTheBrokers, OneCapturePerDay
<1> QED BY <1>3, <1>4

LEMMA FundsReplyInv ==
    ASSUME EstimateInv, NEW c \in Callers, NEW ok \in BOOLEAN, FundsReply(c, ok)
    PROVE  EstimateInv'
<1> USE DEF EstimateInv
<1> DEFINE funds == IF ok THEN [from |-> "broker", of |-> date] ELSE [from |-> "zeros", of |-> date]
           request == [asking[c] EXCEPT !.step = "positions", !.funds = funds]
<1>1. /\ asking' = [asking EXCEPT ![c] = request] /\ asking[c].step = "funds"
      /\ UNCHANGED <<date, hour, stored, cached, shown, crossed, captures, complaints, complained>>
  BY DEF FundsReply
<1>2. /\ funds \in Funds /\ funds.from \in {"broker", "zeros"} /\ funds.of = date
      /\ funds.from = "broker" => hour # "maintenance"
  BY DEF FundsReply, Funds, EstimateShapes
<1> HIDE DEF funds
<1>3. asking[c] \in AskedFor
  BY DEF EstimateShapes
<1>4. /\ request \in AskedFor /\ request.step = "positions" /\ request.funds = funds
      /\ request.on = asking[c].on /\ request.at = asking[c].at
  BY <1>2, <1>3 DEF AskedFor
<1> HIDE DEF request
<1>5. /\ asking' \in [Callers -> AskedFor] /\ asking'[c] = request
      /\ \A d \in Callers : d # c => asking'[d] = asking[d]
  BY <1>1, <1>4 DEF EstimateShapes
<1>6. EstimateShapes' /\ Replied'
  BY <1>1, <1>2, <1>4, <1>5 DEF EstimateShapes, Replied
<1>7. TaskAsksLate' /\ TaskHeardTheBroker' /\ CapturesAreStored'
  <2>1. CASE c = "task"
    <3>1. Busy /\ Busy'
      BY <1>1, <1>4, <1>5, <2>1 DEF Busy
    <3> QED
      BY <1>1, <1>2, <1>4, <1>5, <2>1, <3>1 DEF TaskAsksLate, TaskHeardTheBroker,
         CapturesAreStored
  <2>2. CASE c # "task"
    <3>1. asking'["task"] = asking["task"]
      BY <1>5, <2>2 DEF Callers
    <3> QED
      BY <1>1, <3>1 DEF TaskAsksLate, TaskHeardTheBroker, CapturesAreStored, Busy
  <2> QED BY <2>1, <2>2
<1> QED
  BY <1>1, <1>6, <1>7 DEF TaskEntryIsFresh, ComplaintsAreRemembered, EstimateIsTheBrokers,
     OneCapturePerDay

LEMMA PositionsReplyInv ==
    ASSUME EstimateInv, NEW c \in Callers, PositionsReply(c)
    PROVE  EstimateInv'
<1> USE DEF EstimateInv
<1> DEFINE figure == StandIn(c, asking[c].funds)
           entry == [figure |-> figure, at |-> hour]
<1>1. /\ asking[c].step = "positions"
      /\ cached' = [cached EXCEPT ![c] = entry]
      /\ Use(c, figure, asking[c].on)
      /\ asking' = [asking EXCEPT ![c] = NotAsking]
      /\ UNCHANGED <<date, hour, crossed, complaints, complained>>
  BY DEF PositionsReply, CacheKey
<1>2. figure \in Figure
  <2>1. [from |-> asking[c].funds.from, of |-> asking[c].funds.of, charges |-> date] \in Figure
    BY <1>1 DEF Replied, Funds, Figure, EstimateShapes
  <2>2. stored # NoFigure =>
          [from |-> "estimate", of |-> stored.of, charges |-> stored.charges] \in Figure
    BY DEF EstimateShapes, Stored, Figure
  <2> QED BY <2>1, <2>2 DEF StandIn
<1>3. c = "task" => /\ figure.from = asking["task"].funds.from
                    /\ figure.of = asking["task"].funds.of /\ figure.charges = date
  BY DEF StandIn
<1> HIDE DEF figure
<1>4. entry \in Entry /\ entry.figure = figure /\ entry.at = hour
  BY <1>2 DEF Entry, EstimateShapes
<1> HIDE DEF entry
<1>5. /\ cached' \in [Callers -> Entry \cup {NoFigure}] /\ cached'[c] = entry
      /\ \A d \in Callers : d # c => cached'[d] = cached[d]
  BY <1>1, <1>4 DEF EstimateShapes
<1>6. NotAsking \in AskedFor /\ NotAsking.step = "idle"
  BY EstimateAssumption DEF NotAsking, AskedFor, Hours
<1>7. /\ asking' \in [Callers -> AskedFor] /\ asking'[c] = NotAsking
      /\ \A d \in Callers : d # c => asking'[d] = asking[d]
  BY <1>1, <1>6 DEF EstimateShapes
<1>8. Replied'
  BY <1>6, <1>7 DEF Replied
<1>9. CASE c = "app"
  <2>1. shown' \in Figure /\ stored' = stored /\ captures' = captures
    BY <1>1, <1>2, <1>9 DEF Use
  <2>2. asking'["task"] = asking["task"] /\ cached'["task"] = cached["task"]
    BY <1>5, <1>7, <1>9 DEF Callers
  <2>3. EstimateShapes'
    BY <1>1, <1>5, <1>7, <2>1 DEF EstimateShapes
  <2> QED
    BY <1>1, <1>8, <2>1, <2>2, <2>3 DEF Busy, TaskAsksLate, TaskHeardTheBroker, TaskEntryIsFresh,
       CapturesAreStored, ComplaintsAreRemembered, EstimateIsTheBrokers, OneCapturePerDay
<1>10. CASE c = "task"
  <2>1. Busy /\ ~Busy'
    BY <1>1, <1>6, <1>7, <1>10 DEF Busy
  <2>2. /\ asking[c].on \in Dates /\ asking[c].on <= date
        /\ \/ hour = "late" /\ asking[c].on = date
           \/ hour = "maintenance" /\ date = asking[c].on + 1
    BY <1>10, <2>1 DEF TaskAsksLate, EstimateShapes, Dates
  <2>3. /\ figure.from \in {"broker", "zeros"}
        /\ figure.from = "broker" =>
              /\ figure.of = asking[c].on
              /\ \/ figure.charges = asking[c].on
                 \/ asking[c].on \in crossed /\ figure.charges = asking[c].on + 1
    BY <1>1, <1>3, <1>10, <2>1, <2>2 DEF TaskHeardTheBroker
  <2>4. stored # NoFigure => stored.captured < asking[c].on
    BY <1>10, <2>1 DEF CapturesAreStored
  <2>5. /\ stored' \in Stored \cup {NoFigure} /\ captures' \in [Dates -> Nat]
        /\ shown' = shown
        /\ CapturesAreStored' /\ EstimateIsTheBrokers' /\ OneCapturePerDay'
    <3>1. Use("task", figure, asking[c].on) /\ date' = date /\ crossed' = crossed
      BY <1>1, <1>10
    <3> QED BY <1>2, <2>1, <2>2, <2>3, <2>4, <3>1, TaskUse
  <2>6. EstimateShapes'
    BY <1>1, <1>5, <1>7, <2>5 DEF EstimateShapes
  <2>7. TaskEntryIsFresh'
    BY <1>1, <1>3, <1>4, <1>5, <1>10, <2>2, <2>3 DEF TaskEntryIsFresh
  <2> QED
    BY <1>1, <1>8, <2>1, <2>5, <2>6, <2>7 DEF TaskAsksLate, TaskHeardTheBroker,
       ComplaintsAreRemembered
<1> QED BY <1>9, <1>10 DEF Callers

LEMMA PositionsFailInv ==
    ASSUME EstimateInv, NEW c \in Callers, PositionsFail(c)
    PROVE  EstimateInv'
<1> USE DEF EstimateInv
<1>1. /\ asking' = [asking EXCEPT ![c] = NotAsking]
      /\ UNCHANGED <<date, hour, stored, cached, shown, crossed, captures>>
  BY DEF PositionsFail
<1>2. NotAsking \in AskedFor /\ NotAsking.step = "idle"
  BY EstimateAssumption DEF NotAsking, AskedFor, Hours
<1>3. /\ asking' \in [Callers -> AskedFor] /\ asking'[c] = NotAsking
      /\ \A d \in Callers : d # c => asking'[d] = asking[d]
  BY <1>1, <1>2 DEF EstimateShapes
<1>4. asking'["task"] = asking["task"] \/ ~Busy'
  BY <1>2, <1>3 DEF Busy, Callers
<1>5. /\ complained' \in 0..Nights /\ complaints' \in [Dates -> Nat]
      /\ ComplaintsAreRemembered'
  <2>1. CASE c = "task" /\ TellsFailure
    <3>1. complained' = date /\ complaints' = [complaints EXCEPT ![date] = @ + 1]
      BY <2>1 DEF PositionsFail
    <3>2. date \in Dates /\ date \in Nat /\ date \in 0..Nights /\ Nights \in Nat
      BY EstimateAssumption DEF EstimateShapes, Dates
    <3>3. complaints[date] = 0
      BY <2>1, <3>2 DEF TellsFailure, ComplaintsAreRemembered, EstimateShapes, Dates
    <3>4. /\ complaints' \in [Dates -> Nat] /\ complaints'[date] = 1
          /\ \A d \in Dates : d # date => complaints'[d] = complaints[d]
      BY <3>1, <3>2, <3>3 DEF EstimateShapes
    <3>5. \A d \in Dates : complaints'[d] <= 1 /\ (complaints'[d] = 1 => d <= date)
      BY <3>2, <3>4 DEF ComplaintsAreRemembered, EstimateShapes, Dates
    <3> QED BY <1>1, <3>1, <3>2, <3>4, <3>5 DEF ComplaintsAreRemembered
  <2>2. CASE ~(c = "task" /\ TellsFailure)
    <3>1. UNCHANGED <<complained, complaints>>
      BY <2>2 DEF PositionsFail
    <3> QED BY <1>1, <3>1 DEF EstimateShapes, ComplaintsAreRemembered
  <2> QED BY <2>1, <2>2
<1>6. EstimateShapes' /\ Replied'
  BY <1>1, <1>2, <1>3, <1>5 DEF EstimateShapes, Replied
<1> QED
  BY <1>1, <1>4, <1>5, <1>6 DEF Busy, TaskAsksLate, TaskHeardTheBroker, TaskEntryIsFresh,
     CapturesAreStored, EstimateIsTheBrokers, OneCapturePerDay

LEMMA ExpireInv ==
    ASSUME EstimateInv, NEW c \in Callers, Expire(c)
    PROVE  EstimateInv'
<1> USE DEF EstimateInv
<1>1. /\ cached' = [cached EXCEPT ![c] = NoFigure]
      /\ UNCHANGED <<date, hour, stored, asking, shown, crossed, captures, complaints, complained>>
  BY DEF Expire
<1>2. /\ cached' \in [Callers -> Entry \cup {NoFigure}]
      /\ cached'["task"] \in {NoFigure, cached["task"]}
  BY <1>1 DEF EstimateShapes, Callers
<1> QED
  BY <1>1, <1>2 DEF EstimateShapes, Replied, Busy, TaskAsksLate, TaskHeardTheBroker, TaskEntryIsFresh,
     CapturesAreStored, ComplaintsAreRemembered, EstimateIsTheBrokers, OneCapturePerDay

\* A request under way sees one change of the hour, so the task's is late or in
\* the window that follows; an entry of its cache does not outlive that window.
LEMMA HourPassesInv ==
    ASSUME EstimateInv, HourPasses
    PROVE  EstimateInv'
<1> USE DEF EstimateInv
<1>1. /\ \A c \in Callers : asking[c].step # "idle" => asking[c].at = hour
      /\ UNCHANGED <<stored, asking, shown, captures, complaints, complained>>
  BY DEF HourPasses
<1>2. /\ cached' \in [Callers -> Entry \cup {NoFigure}]
      /\ cached'["task"] # NoFigure => cached'["task"] = cached["task"]
                                       /\ cached["task"].at = hour
  BY DEF HourPasses, EstimateShapes, Callers
<1>3. \/ hour = "maintenance" /\ hour' = "session" /\ date' = date
      \/ hour = "session" /\ hour' = "late" /\ date' = date
      \/ hour = "late" /\ hour' = "maintenance" /\ date' = date + 1
  BY DEF HourPasses
<1>4. date' \in Dates /\ hour' \in Hours /\ date <= date'
  BY EstimateAssumption DEF HourPasses, EstimateShapes, Dates, Hours
<1>5. /\ \A d \in crossed : d \in crossed'
      /\ date' # date /\ HasFunds => date \in crossed'
  BY DEF HourPasses
<1>6. EstimateShapes' /\ Replied'
  <2>1. crossed' \subseteq Dates
    BY DEF HourPasses, EstimateShapes
  <2>2. stored' \in Stored \cup {NoFigure} /\ asking' \in [Callers -> AskedFor]
    BY <1>1 DEF EstimateShapes
  <2>3. /\ shown' \in Figure \cup {NoFigure} /\ captures' \in [Dates -> Nat]
        /\ complaints' \in [Dates -> Nat] /\ complained' \in 0..Nights
    BY <1>1 DEF EstimateShapes
  <2>4. Replied'
    BY <1>1 DEF Replied
  <2> QED BY <1>2, <1>4, <2>1, <2>2, <2>3, <2>4 DEF EstimateShapes
<1>7. Busy => hour = "late"
  BY <1>1 DEF Busy, Callers, TaskAsksLate
<1>8. TaskAsksLate' /\ TaskHeardTheBroker'
  <2>1. date \in Nat
    BY DEF EstimateShapes, Dates
  <2>2. Busy => date' = date + 1 /\ asking["task"].on = date
    BY <1>3, <1>7, <2>1 DEF TaskAsksLate
  <2>3. Busy /\ HasFunds => asking["task"].on \in crossed'
    BY <1>5, <2>1, <2>2
  <2> QED BY <1>1, <1>3, <1>7, <2>1, <2>2, <2>3 DEF Busy, HasFunds, TaskAsksLate,
     TaskHeardTheBroker
<1>9. TaskEntryIsFresh'
  BY <1>2, <1>3 DEF TaskEntryIsFresh
<1>10. CapturesAreStored' /\ ComplaintsAreRemembered'
  BY <1>1, <1>4 DEF CapturesAreStored, ComplaintsAreRemembered, Busy, EstimateShapes, Stored, Dates
<1>11. EstimateIsTheBrokers' /\ OneCapturePerDay'
  <2>1. stored' = stored /\ captures' = captures
    BY <1>1
  <2> QED BY <1>5, <2>1 DEF EstimateIsTheBrokers, OneCapturePerDay
<1> QED
  BY <1>6, <1>8, <1>9, <1>10, <1>11

LEMMA RestartTaskInv ==
    ASSUME EstimateInv, RestartTask
    PROVE  EstimateInv'
<1> USE DEF EstimateInv
<1>1. /\ asking' = [c \in Callers |-> NotAsking] /\ cached' = [c \in Callers |-> NoFigure]
      /\ complained' = 0 /\ complaints' = [d \in Dates |-> 0]
      /\ UNCHANGED <<date, hour, stored, shown, crossed, captures>>
  BY DEF RestartTask
<1>2. NotAsking \in AskedFor /\ NotAsking.step = "idle"
  BY EstimateAssumption DEF NotAsking, AskedFor, Hours
<1>3. EstimateShapes' /\ Replied' /\ ~Busy'
  BY <1>1, <1>2, EstimateAssumption DEF EstimateShapes, Replied, Busy, Callers
<1>4. TaskEntryIsFresh' /\ ComplaintsAreRemembered'
  BY <1>1 DEF TaskEntryIsFresh, ComplaintsAreRemembered, Callers, EstimateShapes, Dates
<1> QED
  BY <1>1, <1>3, <1>4 DEF TaskAsksLate, TaskHeardTheBroker, CapturesAreStored,
     EstimateIsTheBrokers, OneCapturePerDay

-----------------------------------------------------------------------------
\* The invariant holds whatever the app asks for and whatever fails, through any
\* number of nights and restarts.
THEOREM SpecEstimateInv == EstimateSpec => []EstimateInv
<1>1. EstimateInit => EstimateInv
  BY EstimateInitInv
<1>2. EstimateInv /\ [EstimateNext]_estimateVars => EstimateInv'
  <2> SUFFICES ASSUME EstimateInv, [EstimateNext]_estimateVars PROVE EstimateInv'
    OBVIOUS
  <2>1. CASE UNCHANGED estimateVars
    BY <2>1 DEF estimateVars, EstimateInv, EstimateShapes, Replied, Busy, TaskAsksLate,
       TaskHeardTheBroker, TaskEntryIsFresh, CapturesAreStored, ComplaintsAreRemembered,
       EstimateIsTheBrokers, OneCapturePerDay
  <2>2. CASE EstimateNext
    BY <2>2, AskSummaryInv, FundsReplyInv, PositionsReplyInv, PositionsFailInv, ExpireInv,
       HourPassesInv, RestartTaskInv DEF EstimateNext
  <2> QED BY <2>1, <2>2
<1> QED BY <1>1, <1>2, PTL DEF EstimateSpec

\* The stored estimate is the broker's figure of its evening, never an estimate
\* read back through the summary's cache, and there is one an evening; its charges
\* are of another day only when midnight passed between the two replies.
THEOREM SpecEstimateIsSound == EstimateSpec => []EstimateIsSound
<1>1. EstimateInv => EstimateIsSound
  BY DEF EstimateInv, EstimateIsSound
<1> QED BY <1>1, SpecEstimateInv, PTL

\* Type correctness; a failing capture is reported at most once a day.
THEOREM EstimateTypeCorrect == EstimateSpec => []EstimateTypeOK
<1>1. EstimateInv => EstimateTypeOK
  BY DEF EstimateInv, EstimateShapes, ComplaintsAreRemembered, EstimateTypeOK, Stored, Entry, AskedFor,
     Sources
<1> QED BY <1>1, SpecEstimateInv, PTL

-----------------------------------------------------------------------------
(***************************************************************************)
(* The attempt file, the token and the watchdog.                           *)
(***************************************************************************)

Attempt == [stage : LoginStages, today : 0..Days, before : 0..(MaxAttempts - 1)]
Record == [day : 0..Days, count : 0..MaxAttempts, ok : BOOLEAN]

\* What the proofs use of the types.
LoginShapes ==
    /\ day \in 1..Days /\ hours \in {"night", "expired", "day"}
    /\ token \in Usable \cup {"none", "torn"}
    /\ minted \in 0..Days /\ minted <= day
    /\ attempt \in Attempt
    /\ state \in Record /\ state.day <= day
    /\ rejections \in [1..Days -> Nat] /\ uncounted \in [1..Days -> Nat]
    /\ kept \in BOOLEAN /\ watched \in {"unknown", "yes", "no"}
    /\ losses \in Nat /\ alerts \in Nat

Trying == attempt.stage # "idle"

\* The login under way knows what the file says, for only it writes the file.
AttemptKnowsFile ==
    Trying => /\ attempt.today \in 1..day /\ state.day <= attempt.today
              /\ attempt.before = IF state.day = attempt.today THEN state.count ELSE 0

\* A rejection of the day that the scheduler is about to count.
ToCount(d) == IF attempt.stage = "refused" /\ attempt.today = d THEN 1 ELSE 0

\* Until a later day's attempt replaces it the file counts the day's rejections,
\* but for those that were never saved and the one still to be saved.
FileCountsRejections ==
    \A d \in 1..Days :
        /\ rejections[d] <= MaxAttempts + uncounted[d]
        /\ d > state.day => rejections[d] <= uncounted[d] + ToCount(d)
        /\ d = state.day => rejections[d] <= state.count + uncounted[d] + ToCount(d)

\* A token is stored before the success is recorded.
TokenBeforeRecord == attempt.stage = "record" => minted >= attempt.today

\* With a token file since midnight there is one still, and the scheduler has
\* not begun a login today before the morning.
MorningLogin ==
    kept => /\ HasToken
            /\ Trying /\ attempt.today = day => hours = "day"
            /\ attempt.stage = "record" /\ attempt.today = day => token # "stale"
            /\ SucceededToday => hours = "day" /\ token # "stale"

\* A loss the watchdog is about to report is one it has not reported.
LossToReport == IsLost(watched) => alerts < losses

LoginInv ==
    /\ LoginShapes /\ AttemptKnowsFile /\ FileCountsRejections /\ SuccessHasItsToken
    /\ TokenBeforeRecord /\ MorningLogin /\ AlertsMatchLosses /\ LossToReport

-----------------------------------------------------------------------------
LEMMA Bounds == Days \in Nat \ {0} /\ MaxAttempts \in Nat \ {0} /\ NotTrying \in Attempt
  BY LoginAssumption DEF NotTrying, Attempt, LoginStages

\* The request after a login's request is another one, or the token's storing.
LEMMA AfterRequestStage ==
    ASSUME NEW i \in DOMAIN LoginRequests
    PROVE  /\ AfterRequest(i) \in LoginStages /\ AfterRequest(i) \notin {"idle", "refused", "record"}
           /\ LoginRequests[i] \notin {"idle", "refused"}
<1>1. /\ Len(LoginRequests) = 6 /\ DOMAIN LoginRequests = 1..6
      /\ LoginRequests[1] = "dialog" /\ LoginRequests[2] = "otp" /\ LoginRequests[3] = "totp"
      /\ LoginRequests[4] = "pin" /\ LoginRequests[5] = "authorize" /\ LoginRequests[6] = "exchange"
  BY DEF LoginRequests
<1>2. i \in 1..6
  BY <1>1
<1>3. AfterRequest(i) = IF i < 6 THEN LoginRequests[i + 1] ELSE "store"
  BY <1>1 DEF AfterRequest
<1>4. CASE i < 6
  <2>1. i + 1 \in DOMAIN LoginRequests /\ i + 1 \in 2..6
    BY <1>1, <1>2, <1>4
  <2> QED BY <1>1, <1>2, <1>3, <1>4, <2>1 DEF LoginStages
<1>5. CASE i = 6
  BY <1>1, <1>3, <1>5 DEF LoginStages
<1> QED BY <1>2, <1>4, <1>5

LEMMA LoginInitInv == LoginInit => LoginInv
<1> SUFFICES ASSUME LoginInit PROVE LoginInv OBVIOUS
<1>0. state \in Record /\ state.day = 0 /\ kept \in BOOLEAN /\ attempt \in Attempt
  <2>1. NoAttempts \in Record /\ NoAttempts.day = 0
    BY Bounds DEF NoAttempts, Record
  <2> QED BY <2>1, Bounds DEF LoginInit
<1>1. LoginShapes
  BY <1>0, Bounds DEF LoginInit, LoginShapes, Usable
<1>2. ~Trying
  BY DEF LoginInit, Trying, NotTrying
<1> QED
  BY <1>1, <1>2, Bounds DEF LoginInit, LoginInv, Trying, AttemptKnowsFile, FileCountsRejections,
     NoAttempts, ToCount, SuccessHasItsToken, TokenBeforeRecord, MorningLogin, AlertsMatchLosses,
     LossToReport, IsLost

\* What a rejection and a success write.
LEMMA CountedRecord ==
    ASSUME LoginInv, Trying
    PROVE  /\ Counted(attempt) \in Record
           /\ Counted(attempt).day = attempt.today /\ Counted(attempt).ok = FALSE
           /\ Counted(attempt).count = attempt.before + 1
           /\ attempt.today \in 1..Days /\ attempt.before \in 0..(MaxAttempts - 1)
           /\ attempt.today <= day /\ state.day <= attempt.today /\ state.day \in Nat
           /\ rejections[attempt.today]
                <= attempt.before + uncounted[attempt.today] + ToCount(attempt.today)
<1>1. attempt.today \in 0..Days /\ attempt.before \in 0..(MaxAttempts - 1)
  BY DEF LoginInv, LoginShapes, Attempt
<1>2. attempt.before + 1 \in 0..MaxAttempts
  BY <1>1, Bounds
<1>3. /\ attempt.today \in 1..Days /\ state.day <= attempt.today /\ state.day \in Nat
      /\ attempt.before = IF state.day = attempt.today THEN state.count ELSE 0
      /\ attempt.today <= day
  BY <1>1 DEF LoginInv, LoginShapes, AttemptKnowsFile, Record
<1>4. rejections[attempt.today]
        <= attempt.before + uncounted[attempt.today] + ToCount(attempt.today)
  <2>1. /\ rejections[attempt.today] \in Nat /\ uncounted[attempt.today] \in Nat
        /\ ToCount(attempt.today) \in Nat
    BY <1>3 DEF LoginInv, LoginShapes, ToCount
  <2> QED BY <1>3, <2>1 DEF LoginInv, FileCountsRejections
<1> QED BY <1>1, <1>2, <1>3, <1>4 DEF Counted, Record

\* Forgetting a rejection, or the login that was not refused, keeps the count.
LEMMA EndsCounted ==
    ASSUME LoginInv, AttemptEnds, UNCHANGED <<state, rejections>>
    PROVE  /\ FileCountsRejections' /\ uncounted' \in [1..Days -> Nat]
           /\ ~Trying' /\ attempt' \in Attempt /\ attempt'.stage = "idle"
<1>1. ~Trying' /\ attempt' \in Attempt /\ attempt'.stage = "idle"
  BY Bounds DEF AttemptEnds, Trying, NotTrying
<1>2. \A d : ToCount(d)' = 0
  BY <1>1 DEF ToCount
<1>3. /\ uncounted \in [1..Days -> Nat] /\ rejections \in [1..Days -> Nat]
      /\ state.day \in Nat /\ state.count \in Nat
  BY Bounds DEF LoginInv, LoginShapes, Record
<1>4. CASE attempt.stage = "refused"
  <2>1. attempt.today \in 1..Days
    BY <1>4, CountedRecord DEF Trying
  <2>2. uncounted' = [uncounted EXCEPT ![attempt.today] = uncounted[attempt.today] + 1]
    BY <1>4 DEF AttemptEnds
  <2>3. uncounted' \in [1..Days -> Nat] /\ \A d \in 1..Days : uncounted'[d] = uncounted[d] + ToCount(d)
    BY <1>3, <1>4, <2>1, <2>2 DEF ToCount
  <2>4. ASSUME NEW d \in 1..Days
        PROVE  /\ rejections[d] <= MaxAttempts + uncounted'[d]
               /\ d > state.day => rejections[d] <= uncounted'[d]
               /\ d = state.day => rejections[d] <= state.count + uncounted'[d]
    <3>1. /\ rejections[d] \in Nat /\ uncounted[d] \in Nat /\ ToCount(d) \in Nat
          /\ uncounted'[d] = uncounted[d] + ToCount(d)
      BY <1>3, <2>3 DEF ToCount
    <3>2. /\ rejections[d] <= MaxAttempts + uncounted[d]
          /\ d > state.day => rejections[d] <= uncounted[d] + ToCount(d)
          /\ d = state.day => rejections[d] <= state.count + uncounted[d] + ToCount(d)
      BY DEF LoginInv, FileCountsRejections
    <3> QED BY <1>3, <3>1, <3>2, Bounds
  <2>5. FileCountsRejections'
    <3> SUFFICES ASSUME NEW d \in 1..Days
                 PROVE  /\ rejections[d] <= MaxAttempts + uncounted'[d]
                        /\ d > state.day => rejections[d] <= uncounted'[d] + 0
                        /\ d = state.day => rejections[d] <= state.count + uncounted'[d] + 0
      BY <1>2 DEF FileCountsRejections
    <3>1. uncounted'[d] \in Nat
      BY <2>3
    <3> QED BY <1>3, <2>4, <3>1
  <2> QED BY <1>1, <2>3, <2>5
<1>5. CASE attempt.stage # "refused"
  <2>1. uncounted' = uncounted /\ \A d : ToCount(d) = 0
    BY <1>5 DEF AttemptEnds, ToCount
  <2> QED BY <1>1, <1>2, <1>3, <2>1 DEF LoginInv, FileCountsRejections
<1> QED BY <1>4, <1>5

\* A step that leaves the refused attempt and the histories alone.
LEMMA CountsKept ==
    ASSUME LoginInv, UNCHANGED <<state, rejections, uncounted>>,
           attempt' = attempt \/ (attempt.stage # "refused" /\ attempt'.stage # "refused")
    PROVE  FileCountsRejections'
<1>1. \A d : ToCount(d)' = ToCount(d)
  BY DEF ToCount
<1> QED BY <1>1 DEF LoginInv, FileCountsRejections

-----------------------------------------------------------------------------
(* One lemma per action.                                                   *)

LEMMA StartLoginInv == ASSUME LoginInv, StartLogin PROVE LoginInv'
<1> USE DEF LoginInv
<1> DEFINE next == [stage |-> "dialog", today |-> day, before |-> AttemptsToday]
<1>1. /\ attempt' = next
      /\ UNCHANGED <<day, hours, token, minted, state, rejections, uncounted, kept, watched, losses, alerts>>
      /\ AttemptsToday < MaxAttempts /\ (hours = "day" \/ ~HasToken)
  BY DEF StartLogin, ShouldAttempt
<1>2. AttemptsToday \in 0..(MaxAttempts - 1)
  BY <1>1, Bounds DEF AttemptsToday, LoginShapes, Record
<1>3. "dialog" \in LoginStages
  <2>1. 1 \in DOMAIN LoginRequests /\ LoginRequests[1] = "dialog"
    BY DEF LoginRequests
  <2> QED BY <2>1 DEF LoginStages
<1>4. /\ next \in Attempt /\ next.stage = "dialog" /\ next.today = day
      /\ next.before = IF state.day = day THEN state.count ELSE 0
  BY <1>2, <1>3 DEF Attempt, LoginShapes, AttemptsToday
<1> HIDE DEF next
<1>5. LoginShapes' /\ AttemptKnowsFile'
  BY <1>1, <1>4 DEF LoginShapes, AttemptKnowsFile, Trying
<1>6. MorningLogin'
  BY <1>1, <1>4 DEF MorningLogin, HasToken, SucceededToday
<1>7. FileCountsRejections'
  <2>1. attempt.stage # "refused"
    BY DEF StartLogin
  <2> QED BY <1>1, <1>4, <2>1, CountsKept
<1> QED
  BY <1>1, <1>4, <1>5, <1>6, <1>7 DEF SuccessHasItsToken, TokenBeforeRecord,
     AlertsMatchLosses, LossToReport, IsLost

LEMMA LoginReplyInv == ASSUME LoginInv, LoginReply PROVE LoginInv'
<1> USE DEF LoginInv
<1>1. PICK i \in DOMAIN LoginRequests :
        /\ attempt.stage = LoginRequests[i]
        /\ attempt' = [attempt EXCEPT !.stage = AfterRequest(i)]
        /\ UNCHANGED <<day, hours, token, minted, state, rejections, uncounted, kept, watched, losses, alerts>>
  BY DEF LoginReply
<1>2. /\ AfterRequest(i) \in LoginStages /\ AfterRequest(i) \notin {"idle", "refused", "record"}
      /\ Trying
  BY <1>1, AfterRequestStage DEF Trying
<1>3. /\ attempt' \in Attempt /\ attempt'.stage = AfterRequest(i)
      /\ attempt'.today = attempt.today /\ attempt'.before = attempt.before
  BY <1>1, <1>2 DEF LoginShapes, Attempt
<1>4. FileCountsRejections'
  BY <1>1, <1>2, <1>3, AfterRequestStage, CountsKept
<1> QED
  BY <1>1, <1>2, <1>3, <1>4 DEF LoginShapes, Trying, AttemptKnowsFile, SuccessHasItsToken,
     TokenBeforeRecord, MorningLogin, HasToken, SucceededToday,
     AlertsMatchLosses, LossToReport, IsLost

\* One rejection more, which the scheduler still has to count.
LEMMA LoginRejectedInv == ASSUME LoginInv, LoginRejected PROVE LoginInv'
<1> USE DEF LoginInv
<1>1. /\ attempt' = [attempt EXCEPT !.stage = "refused"]
      /\ rejections' = [rejections EXCEPT ![attempt.today] = @ + 1]
      /\ UNCHANGED <<day, hours, token, minted, state, uncounted, kept, watched, losses, alerts>>
  BY DEF LoginRejected
<1>2. Trying /\ attempt.stage # "refused"
  BY DEF LoginRejected, Rejectable, Trying
<1>3. /\ attempt.today \in 1..Days /\ attempt.before \in 0..(MaxAttempts - 1)
      /\ state.day <= attempt.today /\ state.day \in Nat
      /\ rejections[attempt.today] <= attempt.before + uncounted[attempt.today]
  <2>1. ToCount(attempt.today) = 0 /\ attempt.today \in 1..Days
    BY <1>2, CountedRecord DEF ToCount
  <2>2. attempt.before \in 0..(MaxAttempts - 1) /\ uncounted[attempt.today] \in Nat
    BY <1>2, <2>1, CountedRecord DEF LoginShapes
  <2>3. attempt.before + uncounted[attempt.today] + 0 = attempt.before + uncounted[attempt.today]
    BY <2>2, Bounds
  <2> QED BY <1>2, <2>1, <2>3, CountedRecord
<1>4. /\ rejections' \in [1..Days -> Nat]
      /\ rejections'[attempt.today] = rejections[attempt.today] + 1
      /\ \A d \in 1..Days : d # attempt.today => rejections'[d] = rejections[d]
  BY <1>1, <1>3 DEF LoginShapes
<1>5. "refused" \in LoginStages
  BY DEF LoginStages
<1>6. /\ attempt' \in Attempt /\ attempt'.stage = "refused"
      /\ attempt'.today = attempt.today /\ attempt'.before = attempt.before
  BY <1>1, <1>5 DEF LoginShapes, Attempt
<1>7. FileCountsRejections'
  <2> SUFFICES ASSUME NEW d \in 1..Days
               PROVE  /\ rejections'[d] <= MaxAttempts + uncounted[d]
                      /\ d > state.day => rejections'[d] <= uncounted[d] + ToCount(d)'
                      /\ d = state.day => rejections'[d] <= state.count + uncounted[d] + ToCount(d)'
    BY <1>1 DEF FileCountsRejections
  <2>1. rejections[d] \in Nat /\ uncounted[d] \in Nat /\ state.count \in Nat
    BY Bounds DEF LoginShapes, Record
  <2>2. CASE d = attempt.today
    <3>1. ToCount(d)' = 1 /\ ToCount(d) = 0
      BY <1>2, <1>6, <2>2 DEF ToCount
    <3>2. rejections[d] <= attempt.before + uncounted[d] /\ rejections'[d] = rejections[d] + 1
      BY <1>3, <1>4, <2>2
    <3>3. rejections'[d] <= MaxAttempts + uncounted[d]
      BY <1>3, <2>1, <3>2, Bounds
    <3> QED BY <2>1, <3>1, <3>2, <3>3 DEF FileCountsRejections
  <2>3. CASE d # attempt.today
    <3>1. ToCount(d)' = ToCount(d)
      BY <1>2, <1>6, <2>3 DEF ToCount
    <3> QED BY <1>4, <2>3, <3>1 DEF FileCountsRejections
  <2> QED BY <2>2, <2>3
<1>8. LoginShapes' /\ AttemptKnowsFile'
  BY <1>1, <1>2, <1>4, <1>6 DEF LoginShapes, AttemptKnowsFile, Trying
<1>9. MorningLogin'
  BY <1>1, <1>2, <1>6 DEF MorningLogin, HasToken, SucceededToday, Trying
<1> QED
  BY <1>1, <1>6, <1>7, <1>8, <1>9 DEF SuccessHasItsToken, TokenBeforeRecord, AlertsMatchLosses,
     LossToReport, IsLost

LEMMA CountRejectionInv == ASSUME LoginInv, CountRejection PROVE LoginInv'
<1> USE DEF LoginInv
<1>1. /\ attempt.stage = "refused" /\ state' = Counted(attempt) /\ attempt' = NotTrying
      /\ UNCHANGED <<day, hours, token, minted, rejections, uncounted, kept, watched, losses,
                     alerts>>
  BY DEF CountRejection
<1>2. Trying /\ ToCount(attempt.today) = 1
  BY <1>1 DEF Trying, ToCount
<1>3. /\ state' \in Record /\ state'.day = attempt.today /\ state'.ok = FALSE
      /\ state'.count = attempt.before + 1
      /\ attempt.today \in 1..Days /\ attempt.before \in 0..(MaxAttempts - 1)
      /\ attempt.today <= day /\ state.day <= attempt.today /\ state.day \in Nat
      /\ rejections[attempt.today]
           <= attempt.before + uncounted[attempt.today] + ToCount(attempt.today)
  BY <1>1, <1>2, CountedRecord
<1>4. attempt' \in Attempt /\ attempt'.stage = "idle"
  BY <1>1, Bounds DEF NotTrying
<1>5. FileCountsRejections'
  <2> SUFFICES ASSUME NEW d \in 1..Days
               PROVE  /\ rejections[d] <= MaxAttempts + uncounted[d]
                      /\ d > attempt.today => rejections[d] <= uncounted[d] + 0
                      /\ d = attempt.today => rejections[d] <= attempt.before + 1 + uncounted[d] + 0
    BY <1>1, <1>3, <1>4 DEF FileCountsRejections, ToCount
  <2>1. rejections[d] \in Nat /\ uncounted[d] \in Nat
    BY DEF LoginShapes
  <2>2. d # attempt.today => ToCount(d) = 0
    BY DEF ToCount
  <2> QED BY <1>2, <1>3, <2>1, <2>2 DEF FileCountsRejections
<1>6. LoginShapes'
  BY <1>1, <1>3, <1>4 DEF LoginShapes
<1>7. MorningLogin'
  BY <1>1, <1>3, <1>4 DEF MorningLogin, HasToken, SucceededToday, Trying
<1> QED
  BY <1>1, <1>3, <1>4, <1>5, <1>6, <1>7 DEF Trying, AttemptKnowsFile, SuccessHasItsToken,
     TokenBeforeRecord, AlertsMatchLosses, LossToReport, IsLost

LEMMA LoginBreaksInv == ASSUME LoginInv, LoginBreaks PROVE LoginInv'
<1>1. AttemptEnds /\ UNCHANGED <<day, hours, token, minted, state, rejections, kept, watched,
                                 losses, alerts>>
  BY DEF LoginBreaks
<1>2. /\ FileCountsRejections' /\ uncounted' \in [1..Days -> Nat]
      /\ ~Trying' /\ attempt' \in Attempt /\ attempt'.stage = "idle"
  BY <1>1, EndsCounted
<1> QED
  BY <1>1, <1>2 DEF LoginInv, LoginShapes, Trying, AttemptKnowsFile, SuccessHasItsToken,
     TokenBeforeRecord, MorningLogin, HasToken, SucceededToday, AlertsMatchLosses, LossToReport,
     IsLost

LEMMA StoreTokenInv == ASSUME LoginInv, StoreToken PROVE LoginInv'
<1> USE DEF LoginInv
<1>1. /\ attempt.stage = "store" /\ token' = "fresh" /\ minted' = day
      /\ attempt' = [attempt EXCEPT !.stage = "record"]
      /\ UNCHANGED <<day, hours, state, rejections, uncounted, kept, watched, losses, alerts>>
  BY DEF StoreToken
<1>2. "record" \in LoginStages
  BY DEF LoginStages
<1>3. /\ attempt' \in Attempt /\ attempt'.stage = "record"
      /\ attempt'.today = attempt.today /\ attempt'.before = attempt.before /\ Trying
  BY <1>1, <1>2 DEF LoginShapes, Attempt, Trying
<1>4. LoginShapes' /\ AttemptKnowsFile'
  BY <1>1, <1>3 DEF LoginShapes, AttemptKnowsFile, Usable, Trying
<1>5. TokenBeforeRecord' /\ SuccessHasItsToken'
  BY <1>1, <1>3 DEF TokenBeforeRecord, SuccessHasItsToken, AttemptKnowsFile, LoginShapes, Record
<1>6. MorningLogin'
  BY <1>1, <1>3 DEF MorningLogin, HasToken, SucceededToday, Trying
<1>7. FileCountsRejections'
  BY <1>1, <1>3, CountsKept
<1> QED
  BY <1>1, <1>4, <1>5, <1>6, <1>7 DEF AlertsMatchLosses, LossToReport, IsLost,
     Usable

LEMMA RecordSuccessInv == ASSUME LoginInv, RecordSuccess PROVE LoginInv'
<1> USE DEF LoginInv
<1>1. /\ attempt.stage = "record" /\ state' = [Counted(attempt) EXCEPT !.ok = TRUE]
      /\ attempt' = NotTrying /\ Trying
      /\ UNCHANGED <<day, hours, token, minted, rejections, uncounted, kept, watched, losses, alerts>>
  BY DEF RecordSuccess, Trying
<1>2. /\ state' \in Record /\ state'.day = attempt.today /\ state'.ok = TRUE
      /\ state'.count = attempt.before + 1
  BY <1>1, CountedRecord DEF Record
<1>3. /\ attempt.today \in 1..Days /\ attempt.before \in 0..(MaxAttempts - 1)
      /\ attempt.today <= day /\ state.day <= attempt.today /\ state.day \in Nat
      /\ rejections[attempt.today]
           <= attempt.before + uncounted[attempt.today] + ToCount(attempt.today)
      /\ \A d : ToCount(d) = 0
  BY <1>1, CountedRecord DEF ToCount
<1>4. attempt' \in Attempt /\ attempt'.stage = "idle"
  BY <1>1, Bounds DEF NotTrying
<1>5. LoginShapes'
  BY <1>1, <1>2, <1>3, <1>4 DEF LoginShapes
<1>6. FileCountsRejections'
  <2> SUFFICES ASSUME NEW d \in 1..Days
               PROVE  /\ rejections[d] <= MaxAttempts + uncounted[d]
                      /\ d > attempt.today => rejections[d] <= uncounted[d] + 0
                      /\ d = attempt.today => rejections[d] <= attempt.before + 1 + uncounted[d] + 0
    BY <1>1, <1>2, <1>4 DEF FileCountsRejections, ToCount
  <2>1. rejections[d] \in Nat /\ uncounted[d] \in Nat
    BY DEF LoginShapes
  <2> QED BY <1>3, <2>1 DEF FileCountsRejections
<1>7. SuccessHasItsToken'
  BY <1>1, <1>2 DEF SuccessHasItsToken, TokenBeforeRecord
<1>8. MorningLogin'
  BY <1>1, <1>2, <1>4 DEF MorningLogin, HasToken, SucceededToday, Trying
<1> QED
  BY <1>1, <1>4, <1>5, <1>6, <1>7, <1>8 DEF Trying, AttemptKnowsFile, TokenBeforeRecord,
     AlertsMatchLosses, LossToReport, IsLost

LEMMA ManualLoginInv == ASSUME LoginInv, ManualLogin PROVE LoginInv'
<1> USE DEF LoginInv
<1>1. /\ token' = "fresh" /\ minted' = day
      /\ UNCHANGED <<day, hours, attempt, state, rejections, uncounted, kept, watched, losses, alerts>>
  BY DEF ManualLogin
<1>2. LoginShapes'
  BY <1>1 DEF LoginShapes, Usable
<1>3. SuccessHasItsToken' /\ TokenBeforeRecord'
  BY <1>1 DEF SuccessHasItsToken, TokenBeforeRecord, LoginShapes, Record, AttemptKnowsFile, Trying
<1>4. MorningLogin'
  BY <1>1 DEF MorningLogin, HasToken, SucceededToday, Trying
<1> QED
  BY <1>1, <1>2, <1>3, <1>4 DEF AttemptKnowsFile, Trying, FileCountsRejections, ToCount,
     AlertsMatchLosses, LossToReport, IsLost, Usable

LEMMA LogoutInv == ASSUME LoginInv, Logout PROVE LoginInv'
<1> USE DEF LoginInv
<1>1. /\ token \in Usable /\ token' = "none" /\ kept' = FALSE /\ losses' = losses + 1
      /\ UNCHANGED <<day, hours, minted, attempt, state, rejections, uncounted, watched, alerts>>
  BY DEF Logout
<1>2. LoginShapes'
  <2>1. kept' \in BOOLEAN
    BY <1>1
  <2> QED BY <1>1, <2>1 DEF LoginShapes
<1>3. AlertsMatchLosses' /\ LossToReport'
  BY <1>1 DEF AlertsMatchLosses, LossToReport, LoginShapes
<1> QED
  BY <1>1, <1>2, <1>3 DEF AttemptKnowsFile, Trying, FileCountsRejections, ToCount, SuccessHasItsToken,
     TokenBeforeRecord, MorningLogin

\* Midnight makes yesterday's success and login somebody else's.
LEMMA ClockInv == ASSUME LoginInv, Clock PROVE LoginInv'
<1> USE DEF LoginInv
<1>1. UNCHANGED <<minted, attempt, state, rejections, uncounted, watched, losses, alerts>>
  BY DEF Clock
<1>2. /\ day \in Nat /\ state.day \in Nat /\ state.day <= day
      /\ Trying => attempt.today \in 1..day
  BY DEF LoginShapes, Record, AttemptKnowsFile
<1>3. /\ day' \in 1..Days /\ day <= day' /\ hours' \in {"night", "expired", "day"}
      /\ token' \in Usable \cup {"none", "torn"} /\ kept' \in BOOLEAN
      /\ token' \in Usable <=> token \in Usable
      /\ \/ hours = "day" /\ day' = day + 1 /\ token' = token /\ kept' = HasToken
         \/ hours # "day" /\ day' = day /\ kept' = kept /\ (HasToken => HasToken')
  <2>1. kept \in BOOLEAN /\ HasToken \in BOOLEAN
    BY DEF LoginShapes, HasToken
  <2>2. \/ /\ hours = "night" /\ hours' = "expired" /\ day' = day /\ kept' = kept
           /\ token' = IF token = "fresh" THEN "stale" ELSE token
        \/ hours = "expired" /\ hours' = "day" /\ day' = day /\ token' = token /\ kept' = kept
        \/ /\ hours = "day" /\ day < Days /\ hours' = "night" /\ day' = day + 1
           /\ kept' = HasToken /\ token' = token
    BY DEF Clock, TimePasses
  <2>3. kept' \in BOOLEAN
    BY <2>1, <2>2, Zenon
  <2>4. /\ token' \in {token, "stale"} /\ (token' # token => token = "fresh")
        /\ hours' \in {"night", "expired", "day"}
        /\ day' = day \/ (day < Days /\ day' = day + 1)
    BY <2>2
  <2>5. /\ day' \in 1..Days /\ day <= day'
        /\ token' \in Usable \cup {"none", "torn"} /\ (token' \in Usable <=> token \in Usable)
        /\ token # "none" => token' # "none"
    BY <2>4, Bounds DEF LoginShapes, Usable
  <2>6. HasToken => HasToken'
    BY <2>5 DEF HasToken
  <2>7. \/ hours = "day" /\ day' = day + 1 /\ token' = token /\ kept' = HasToken
        \/ hours # "day" /\ day' = day /\ kept' = kept /\ (HasToken => HasToken')
    BY <2>2, <2>6, Zenon
  <2> QED BY <2>3, <2>4, <2>5, <2>7, Zenon
<1>4. LoginShapes'
  BY <1>1, <1>2, <1>3 DEF LoginShapes
<1>5. AttemptKnowsFile'
  BY <1>1, <1>2, <1>3 DEF AttemptKnowsFile, Trying
<1>6. MorningLogin'
  <2>1. CASE hours = "day"
    <3>1. day' = day + 1 /\ kept' = HasToken /\ HasToken' = HasToken
      BY <1>3, <2>1 DEF HasToken
    <3>2. ~SucceededToday' /\ (Trying' => attempt'.today # day')
      BY <1>1, <1>2, <3>1 DEF SucceededToday, Trying
    <3> QED BY <1>1, <3>1, <3>2 DEF MorningLogin, Trying
  <2>2. CASE hours # "day"
    <3>1. day' = day /\ kept' = kept /\ (HasToken => HasToken')
      BY <1>3, <2>2
    <3>2. kept => ~(Trying /\ attempt.today = day) /\ ~SucceededToday
      BY <2>2 DEF MorningLogin
    <3>3. attempt.stage = "record" => Trying
      BY DEF Trying
    <3> QED BY <1>1, <3>1, <3>2, <3>3 DEF MorningLogin, Trying, SucceededToday
  <2> QED BY <2>1, <2>2
<1> QED
  BY <1>1, <1>3, <1>4, <1>5, <1>6 DEF FileCountsRejections, ToCount, SuccessHasItsToken, TokenBeforeRecord,
     AlertsMatchLosses, LossToReport, IsLost

LEMMA RestartLoginInv == ASSUME LoginInv, RestartLogin PROVE LoginInv'
<1> USE DEF LoginInv
<1>1. /\ AttemptEnds /\ watched' = "unknown"
      /\ UNCHANGED <<day, hours, minted, state, rejections, kept, alerts>>
      /\ \/ UNCHANGED <<token, losses>>
         \/ token \in Usable /\ token' = "torn" /\ losses' = losses + 1
  BY DEF RestartLogin
<1>2. /\ FileCountsRejections' /\ uncounted' \in [1..Days -> Nat]
      /\ attempt' \in Attempt /\ attempt'.stage = "idle"
  BY <1>1, EndsCounted
<1>3. LoginShapes'
  BY <1>1, <1>2 DEF LoginShapes
<1>4. MorningLogin'
  BY <1>1, <1>2 DEF MorningLogin, HasToken, SucceededToday, Trying
<1>5. AlertsMatchLosses' /\ LossToReport'
  BY <1>1 DEF AlertsMatchLosses, LossToReport, IsLost, LoginShapes
<1> QED
  BY <1>1, <1>2, <1>3, <1>4, <1>5 DEF AttemptKnowsFile, Trying, SuccessHasItsToken, TokenBeforeRecord

LEMMA WatchInv == ASSUME LoginInv, Watch PROVE LoginInv'
<1> USE DEF LoginInv
<1>1. /\ watched' = IF token \in Usable THEN "yes" ELSE "no"
      /\ alerts' = IF IsLost(watched) THEN alerts + 1 ELSE alerts
      /\ UNCHANGED <<day, hours, token, minted, attempt, state, rejections, uncounted, kept, losses>>
  BY DEF Watch
<1>2. LoginShapes'
  BY <1>1 DEF LoginShapes
<1>3. AlertsMatchLosses' /\ LossToReport'
  BY <1>1 DEF AlertsMatchLosses, LossToReport, IsLost, LoginShapes
<1> QED
  BY <1>1, <1>2, <1>3 DEF AttemptKnowsFile, Trying, FileCountsRejections, ToCount, SuccessHasItsToken,
     TokenBeforeRecord, MorningLogin, HasToken, SucceededToday

-----------------------------------------------------------------------------
\* The invariant holds however logins, people, the clock and restarts interleave.
THEOREM SpecLoginInv == LoginSpec => []LoginInv
<1>1. LoginInit => LoginInv
  BY LoginInitInv
<1>2. LoginInv /\ [LoginNext]_loginVars => LoginInv'
  <2> SUFFICES ASSUME LoginInv, [LoginNext]_loginVars PROVE LoginInv'
    OBVIOUS
  <2>1. CASE UNCHANGED loginVars
    BY <2>1 DEF loginVars, LoginInv, LoginShapes, Trying, AttemptKnowsFile, FileCountsRejections,
       ToCount, SuccessHasItsToken, TokenBeforeRecord, MorningLogin, HasToken, SucceededToday,
       AlertsMatchLosses, LossToReport, IsLost
  <2>2. CASE LoginNext
    BY <2>2, StartLoginInv, LoginReplyInv, LoginRejectedInv, CountRejectionInv,
       LoginBreaksInv, StoreTokenInv, RecordSuccessInv, ManualLoginInv, LogoutInv, ClockInv, RestartLoginInv, WatchInv
       DEF LoginNext
  <2> QED BY <2>1, <2>2
<1> QED BY <1>1, <1>2, PTL DEF LoginSpec

\* Upstox rejects no more than a day's attempts and one for each rejection that was
\* never saved, over any number of restarts; a recorded success has its token,
\* the morning's token is not the expired one, and a loss is reported once.
THEOREM SpecLoginRecordsAreTrue == LoginSpec => []LoginRecordsAreTrue
<1>1. LoginInv => LoginRecordsAreTrue
  BY DEF LoginInv, LoginRecordsAreTrue, FileCountsRejections, RejectionsAreCapped, MorningLogin,
     MorningTokenIsNew
<1> QED BY <1>1, SpecLoginInv, PTL

\* Type correctness; the attempts of a day stay below the cap.
THEOREM LoginTypeCorrect == LoginSpec => []LoginTypeOK
<1>1. LoginInv => LoginTypeOK
  BY DEF LoginInv, LoginShapes, LoginTypeOK, Attempt, Record
<1> QED BY <1>1, SpecLoginInv, PTL

-----------------------------------------------------------------------------
(***************************************************************************)
(* The two histories.                                                      *)
(***************************************************************************)

Tick == [step : {"idle", "look", "fetch", "save"}, slot : Slots, expiry : Nat,
         fetch : 0..MaxFetches]

\* What the proofs use of the types.
SnapshotShapes ==
    /\ now \in Slots /\ night \in BOOLEAN
    /\ table \in [Histories -> SUBSET Snapshot]
    /\ strikes \subseteq Snapshot
    /\ tick \in [Workers -> [Histories -> Tick]]
    /\ cleanedFor \in [Workers -> [Histories -> Int]]
    /\ fetches \in 0..MaxFetches

\* What a tick carries once it has it; its expiry has not passed, for a tick does
\* not outlast the night.
TicksAreOfToday ==
    \A w \in Workers, h \in Histories :
        /\ tick[w][h].step \in {"fetch", "save"} =>
              tick[w][h].expiry \in Expiries /\ tick[w][h].expiry >= Today
        /\ tick[w][h].step = "save" => tick[w][h].fetch \in 1..MaxFetches
        /\ night => tick[w][h].step = "idle"

\* Nobody has cleaned up for a day to come.
NoneCleanedAhead == \A w \in Workers : cleanedFor[w]["oi"] <= Today

\* The night is between the last slot of a day and the first of the next.
NightIsBetween == night => DayOf(now + 1) = DayOf(now) + 1

\* A comparison under way has pinned the strikes of its two snapshots.
PinnedWhatItFound ==
    compare # Nothing => StrikesOf(compare.from) = {compare.from}
                         /\ StrikesOf(compare.to) = {compare.to}

SnapshotInv ==
    /\ SnapshotShapes /\ TicksAreOfToday /\ NoneCleanedAhead /\ NightIsBetween /\ PinnedWhatItFound
    /\ OneFetchPerSlot /\ ComparedWhatItFound /\ ExpiredAreGone

-----------------------------------------------------------------------------
\* From one slot to the next the day stays or is the next one.
LEMMA DayGrows ==
    ASSUME NEW n \in Nat
    PROVE  /\ DayOf(n) \in Nat
           /\ DayOf(n + 1) \in {DayOf(n), DayOf(n) + 1}
<1>1. SlotsOfDay \in Nat /\ SlotsOfDay > 0
  BY SnapshotAssumption
<1>2. /\ n \div SlotsOfDay \in Nat
      /\ (n + 1) \div SlotsOfDay \in {n \div SlotsOfDay, (n \div SlotsOfDay) + 1}
  BY <1>1
<1> QED BY <1>2 DEF DayOf

LEMMA TodayIsNat == ASSUME SnapshotShapes PROVE Today \in Nat
<1>1. now \in Nat
  BY SnapshotAssumption DEF SnapshotShapes, Slots
<1> QED BY <1>1, DayGrows DEF Today

LEMMA NoTickShape == NoTick \in Tick /\ NoTick.step = "idle"
  BY SnapshotAssumption DEF NoTick, Tick, Slots

\* One worker's tick of one history moves.
LEMMA StepShape ==
    ASSUME SnapshotShapes, NEW w \in Workers, NEW h \in Histories, NEW t \in Tick, Step(w, h, t)
    PROVE  /\ tick' \in [Workers -> [Histories -> Tick]] /\ tick'[w][h] = t
           /\ \A v \in Workers, g \in Histories :
                 v # w \/ g # h => tick'[v][g] = tick[v][g]
<1>1. tick \in [Workers -> [Histories -> Tick]] /\ tick' = [tick EXCEPT ![w][h] = t]
  BY DEF Step, SnapshotShapes
<1> QED BY <1>1

\* A key names one snapshot, and the strikes are those of the snapshots.
LEMMA StrikesOfOne ==
    ASSUME OneFetchPerSlot, NEW r \in table["oi"]
    PROVE  {s \in strikes : s.expiry = r.expiry /\ s.slot = r.slot} = {r}
  BY DEF OneFetchPerSlot, Histories

LEMMA SnapshotInitInv == SnapshotInit => SnapshotInv
<1> SUFFICES ASSUME SnapshotInit PROVE SnapshotInv OBVIOUS
<1>1. SnapshotShapes
  <2>1. tick \in [Workers -> [Histories -> Tick]]
    BY NoTickShape DEF SnapshotInit
  <2>2. now \in Slots /\ fetches \in 0..MaxFetches
    BY SnapshotAssumption DEF SnapshotInit, Slots
  <2>3. night \in BOOLEAN
    BY DEF SnapshotInit
  <2>4. cleanedFor \in [Workers -> [Histories -> Int]]
    BY DEF SnapshotInit
  <2>5. table \in [Histories -> SUBSET Snapshot] /\ strikes \subseteq Snapshot
    BY DEF SnapshotInit
  <2> QED BY <2>1, <2>2, <2>3, <2>4, <2>5 DEF SnapshotShapes
<1>2. Today \in Nat
  BY <1>1, TodayIsNat
<1>3. \A w \in Workers, h \in Histories : tick[w][h].step = "idle"
  BY NoTickShape DEF SnapshotInit
<1>4. TicksAreOfToday
  BY <1>3 DEF TicksAreOfToday
<1>5. NoneCleanedAhead /\ ExpiredAreGone /\ OneFetchPerSlot
  BY <1>2 DEF SnapshotInit, NoneCleanedAhead, ExpiredAreGone, OneFetchPerSlot, Histories
<1>6. NightIsBetween /\ PinnedWhatItFound /\ ComparedWhatItFound
  BY DEF SnapshotInit, NightIsBetween, PinnedWhatItFound, ComparedWhatItFound
<1> QED BY <1>1, <1>4, <1>5, <1>6 DEF SnapshotInv

\* What the steps that only move a tick leave alone.
LEMMA OnlyTickMoves ==
    ASSUME SnapshotInv, UNCHANGED <<now, night, table, strikes, cleanedFor, compare, compared>>,
           SnapshotShapes', TicksAreOfToday'
    PROVE  SnapshotInv'
<1>1. Today' = Today
  BY DEF Today
<1> QED
  BY <1>1 DEF SnapshotInv, NoneCleanedAhead, NightIsBetween, PinnedWhatItFound, StrikesOf, Pinned,
     OneFetchPerSlot, ComparedWhatItFound, ExpiredAreGone

-----------------------------------------------------------------------------
(* One lemma per action.                                                   *)

LEMMA CleanTableInv ==
    ASSUME SnapshotInv, NEW w \in Workers, NEW h \in Histories, CleanTable(w, h)
    PROVE  SnapshotInv'
<1> USE DEF SnapshotInv
<1> DEFINE gone == {r \in table[h] : TooOld(h, r)}
<1>1. /\ cleanedFor' = [cleanedFor EXCEPT ![w][h] = Today]
      /\ table' = [table EXCEPT ![h] = @ \ gone]
      /\ strikes' = IF h = "oi" THEN strikes \ {s \in strikes :
                        \E r \in gone : r.expiry = s.expiry /\ r.slot = s.slot} ELSE strikes
      /\ UNCHANGED <<now, night, tick, fetches, compare, compared>>
  BY DEF CleanTable
<1>2. Today' = Today /\ Today \in Int
  BY <1>1, TodayIsNat DEF Today
<1>3. /\ table' \in [Histories -> SUBSET Snapshot] /\ table'[h] = table[h] \ gone
      /\ \A g \in Histories : g # h => table'[g] = table[g]
  BY <1>1 DEF SnapshotShapes
<1>4. /\ cleanedFor' \in [Workers -> [Histories -> Int]]
      /\ \A v \in Workers, g \in Histories :
            cleanedFor'[v][g] = IF v = w /\ g = h THEN Today ELSE cleanedFor[v][g]
  BY <1>1, <1>2 DEF SnapshotShapes
<1>5. SnapshotShapes' /\ TicksAreOfToday'
  BY <1>1, <1>2, <1>3, <1>4 DEF SnapshotShapes, TicksAreOfToday
<1>6. NoneCleanedAhead'
  BY <1>2, <1>4 DEF NoneCleanedAhead, Histories
<1>7. OneFetchPerSlot'
  <2>1. \A g \in Histories : table'[g] \subseteq table[g]
    BY <1>3
  <2>2. strikes' = table'["oi"]
    <3>1. CASE h = "oi"
      <4>1. \A s \in strikes : (\E r \in gone : r.expiry = s.expiry /\ r.slot = s.slot) <=> s \in gone
        BY <3>1 DEF OneFetchPerSlot, Histories
      <4> HIDE DEF gone
      <4> QED BY <1>1, <1>3, <3>1, <4>1 DEF OneFetchPerSlot
    <3>2. CASE h # "oi"
      BY <1>1, <1>3, <3>2 DEF OneFetchPerSlot, Histories
    <3> QED BY <3>1, <3>2
  <2> QED BY <2>1, <2>2 DEF OneFetchPerSlot
<1>8. ExpiredAreGone'
  <2>1. CASE h = "oi"
    <3>1. \A r \in table'["oi"] : r \in Snapshot /\ ~(r.expiry < Today)
      BY <1>3, <2>1 DEF TooOld, SnapshotShapes
    <3>2. \A r \in Snapshot : r.expiry \in Nat
      BY SnapshotAssumption DEF Snapshot
    <3>3. \A r \in table'["oi"] : r.expiry >= Today
      BY <1>2, <3>1, <3>2
    <3> QED BY <1>2, <3>3 DEF ExpiredAreGone
  <2>2. CASE h # "oi"
    <3>1. /\ table'["oi"] = table["oi"]
          /\ \A v \in Workers : cleanedFor'[v]["oi"] = cleanedFor[v]["oi"]
      BY <1>3, <1>4, <2>2 DEF Histories
    <3> QED BY <1>2, <3>1 DEF ExpiredAreGone
  <2> QED BY <2>1, <2>2
<1> QED
  BY <1>1, <1>5, <1>6, <1>7, <1>8 DEF NightIsBetween, PinnedWhatItFound, StrikesOf, Pinned,
     ComparedWhatItFound

LEMMA BeginTickInv ==
    ASSUME SnapshotInv, NEW w \in Workers, NEW h \in Histories, BeginTick(w, h)
    PROVE  SnapshotInv'
<1> DEFINE t == [NoTick EXCEPT !.step = "look", !.slot = now]
<1>1. /\ Step(w, h, t) /\ ~night /\ SnapshotShapes /\ TicksAreOfToday
      /\ UNCHANGED <<now, night, table, strikes, cleanedFor, fetches, compare, compared>>
  BY DEF BeginTick, SnapshotInv
<1>2. t \in Tick /\ t.step = "look"
  BY <1>1, NoTickShape DEF Tick, SnapshotShapes
<1> HIDE DEF t
<1>3. /\ tick' \in [Workers -> [Histories -> Tick]] /\ tick'[w][h] = t
      /\ \A v \in Workers, g \in Histories : v # w \/ g # h => tick'[v][g] = tick[v][g]
  BY <1>1, <1>2, StepShape
<1>4. Today' = Today
  BY <1>1 DEF Today
<1>5. SnapshotShapes' /\ TicksAreOfToday'
  BY <1>1, <1>2, <1>3, <1>4 DEF SnapshotShapes, TicksAreOfToday
<1> QED BY <1>1, <1>5, OnlyTickMoves

LEMMA LookForSlotInv ==
    ASSUME SnapshotInv, NEW w \in Workers, NEW h \in Histories, LookForSlot(w, h)
    PROVE  SnapshotInv'
<1>1. /\ tick[w][h].step = "look" /\ SnapshotShapes /\ TicksAreOfToday
      /\ UNCHANGED <<now, night, table, strikes, cleanedFor, fetches, compare, compared>>
  BY DEF LookForSlot, SnapshotInv
<1>2. PICK e \in Expiries :
         /\ Nearest(e)
         /\ Step(w, h, IF Unique(h, e, tick[w][h].slot) THEN NoTick
                       ELSE [tick[w][h] EXCEPT !.step = "fetch", !.expiry = e])
  BY DEF LookForSlot
<1>3. PICK t \in Tick :
         /\ Step(w, h, t) /\ t.step \in {"idle", "fetch"}
         /\ t.step = "fetch" => t.expiry \in Expiries /\ t.expiry >= Today
  <2> DEFINE wanted == [tick[w][h] EXCEPT !.step = "fetch", !.expiry = e]
  <2>1. tick[w][h] \in Tick /\ e \in Nat /\ e >= Today
    BY <1>1, <1>2, SnapshotAssumption DEF SnapshotShapes, Nearest
  <2>2. wanted \in Tick /\ wanted.step = "fetch" /\ wanted.expiry = e
    BY <2>1 DEF Tick
  <2> HIDE DEF wanted
  <2>3. CASE Unique(h, e, tick[w][h].slot)
    BY <1>2, <2>3, NoTickShape DEF wanted
  <2>4. CASE ~Unique(h, e, tick[w][h].slot)
    <3>1. Step(w, h, wanted)
      BY <1>2, <2>4 DEF wanted
    <3> QED BY <2>1, <2>2, <3>1
  <2> QED BY <2>3, <2>4
<1>4. /\ tick' \in [Workers -> [Histories -> Tick]] /\ tick'[w][h] = t
      /\ \A v \in Workers, g \in Histories : v # w \/ g # h => tick'[v][g] = tick[v][g]
  BY <1>1, <1>3, StepShape
<1>5. Today' = Today
  BY <1>1 DEF Today
<1>6. ~night
  BY <1>1 DEF TicksAreOfToday
<1>7. SnapshotShapes' /\ TicksAreOfToday'
  BY <1>1, <1>3, <1>4, <1>5, <1>6 DEF SnapshotShapes, TicksAreOfToday
<1> QED BY <1>1, <1>7, OnlyTickMoves

LEMMA FetchReplyInv ==
    ASSUME SnapshotInv, NEW w \in Workers, NEW h \in Histories, FetchReply(w, h)
    PROVE  SnapshotInv'
<1>0. PICK e \in Resolved(h, tick[w][h].expiry) :
        Step(w, h, [tick[w][h] EXCEPT !.step = "save", !.expiry = e, !.fetch = fetches + 1])
  BY DEF FetchReply
<1> DEFINE u == tick[w][h]
           t == [u EXCEPT !.step = "save", !.expiry = e, !.fetch = fetches + 1]
<1>1. /\ tick[w][h].step = "fetch" /\ fetches < MaxFetches /\ Step(w, h, t)
      /\ fetches' = fetches + 1 /\ SnapshotShapes /\ TicksAreOfToday
      /\ UNCHANGED <<now, night, table, strikes, cleanedFor, compare, compared>>
  BY <1>0 DEF FetchReply, SnapshotInv
<1>e. e \in Expiries /\ e >= Today /\ e \in Nat
  BY <1>1, SnapshotAssumption DEF Resolved, TicksAreOfToday
<1>2. fetches' \in 1..MaxFetches /\ tick[w][h] \in Tick
  BY <1>1, SnapshotAssumption DEF SnapshotShapes
<1>3. /\ t \in Tick /\ t.step = "save" /\ t.fetch \in 1..MaxFetches
      /\ t.expiry = e
  <2>1. u \in Tick /\ fetches + 1 \in 1..MaxFetches
    BY <1>1, <1>2
  <2> HIDE DEF u
  <2>2. fetches + 1 \in 0..MaxFetches
    BY <2>1, SnapshotAssumption
  <2> QED BY <1>e, <2>1, <2>2 DEF Tick
<1> HIDE DEF t, u
<1>4. /\ tick' \in [Workers -> [Histories -> Tick]] /\ tick'[w][h] = t
      /\ \A v \in Workers, g \in Histories : v # w \/ g # h => tick'[v][g] = tick[v][g]
  BY <1>1, <1>3, StepShape
<1>5. Today' = Today /\ ~night
  BY <1>1 DEF Today, TicksAreOfToday
<1>6. SnapshotShapes'
  BY <1>1, <1>2, <1>4 DEF SnapshotShapes
<1>7. TicksAreOfToday'
  BY <1>1, <1>3, <1>4, <1>5, <1>e DEF TicksAreOfToday
<1> QED BY <1>1, <1>6, <1>7, OnlyTickMoves

LEMMA FetchFailsInv ==
    ASSUME SnapshotInv, NEW w \in Workers, NEW h \in Histories, FetchFails(w, h)
    PROVE  SnapshotInv'
<1>1. /\ Step(w, h, NoTick) /\ SnapshotShapes /\ TicksAreOfToday
      /\ UNCHANGED <<now, night, table, strikes, cleanedFor, fetches, compare, compared>>
  BY DEF FetchFails, AfterFailure, SnapshotInv
<1>2. /\ tick' \in [Workers -> [Histories -> Tick]] /\ tick'[w][h] = NoTick
      /\ \A v \in Workers, g \in Histories : v # w \/ g # h => tick'[v][g] = tick[v][g]
  BY <1>1, NoTickShape, StepShape
<1>3. Today' = Today
  BY <1>1 DEF Today
<1>4. SnapshotShapes' /\ TicksAreOfToday'
  BY <1>1, <1>2, <1>3, NoTickShape DEF SnapshotShapes, TicksAreOfToday
<1> QED BY <1>1, <1>4, OnlyTickMoves

\* The insert that finds its key free; the other one only ends the tick.
LEMMA SaveSnapshotInv ==
    ASSUME SnapshotInv, NEW w \in Workers, NEW h \in Histories, SaveSnapshot(w, h)
    PROVE  SnapshotInv'
<1> DEFINE t == tick[w][h]
           row == [expiry |-> t.expiry, slot |-> t.slot, fetch |-> t.fetch]
<1>1. /\ t.step = "save" /\ Step(w, h, NoTick) /\ SnapshotShapes /\ TicksAreOfToday
      /\ UNCHANGED <<now, night, cleanedFor, fetches, compare, compared>>
  BY DEF SaveSnapshot, SnapshotInv
<1>2. /\ tick' \in [Workers -> [Histories -> Tick]] /\ tick'[w][h] = NoTick
      /\ \A v \in Workers, g \in Histories : v # w \/ g # h => tick'[v][g] = tick[v][g]
  BY <1>1, NoTickShape, StepShape
<1>3. Today' = Today /\ Today \in Nat
  BY <1>1, TodayIsNat DEF Today
<1>4. TicksAreOfToday'
  BY <1>1, <1>2, <1>3, NoTickShape DEF TicksAreOfToday
<1>5. CASE ~GoesIn(h, t)
  <2>1. UNCHANGED <<table, strikes>>
    BY <1>5 DEF SaveSnapshot
  <2>2. SnapshotShapes'
    BY <1>1, <1>2, <2>1 DEF SnapshotShapes
  <2> QED BY <1>1, <1>4, <2>1, <2>2, OnlyTickMoves
<1>6. CASE GoesIn(h, t)
  <2>1. /\ table' = [table EXCEPT ![h] = @ \cup {row}]
        /\ strikes' = IF h = "oi" THEN strikes \cup {row} ELSE strikes
    BY <1>6 DEF SaveSnapshot
  <2>2. t \in Tick /\ t.expiry \in Expiries /\ t.expiry >= Today /\ t.fetch \in 1..MaxFetches
    BY <1>1 DEF SnapshotShapes, TicksAreOfToday
  <2>3. row \in Snapshot /\ row.expiry = t.expiry /\ row.slot = t.slot
    BY <2>2 DEF Snapshot, Tick
  <2>4. \A r \in table[h] : ~(r.slot = row.slot /\ (h = "oi" => r.expiry = row.expiry))
    BY <1>6, <2>3 DEF GoesIn, Unique
  <2> HIDE DEF row, t
  <2>5. /\ table' \in [Histories -> SUBSET Snapshot] /\ table'[h] = table[h] \cup {row}
        /\ \A g \in Histories : g # h => table'[g] = table[g]
    BY <1>1, <2>1, <2>3 DEF SnapshotShapes
  <2>6. SnapshotShapes'
    BY <1>1, <1>2, <2>1, <2>3, <2>5 DEF SnapshotShapes
  <2>7. OneFetchPerSlot'
    <3>1. \A g \in Histories : \A r, s \in table'[g] :
             r.slot = s.slot /\ (g = "oi" => r.expiry = s.expiry) => r = s
      BY <2>4, <2>5 DEF SnapshotInv, OneFetchPerSlot
    <3>2. strikes' = table'["oi"]
      BY <2>1, <2>5 DEF SnapshotInv, OneFetchPerSlot, Histories
    <3> QED BY <3>1, <3>2 DEF OneFetchPerSlot
  <2>8. ExpiredAreGone'
    <3>1. table'["oi"] \subseteq table["oi"] \cup {row}
      BY <2>5 DEF Histories
    <3> QED BY <1>1, <1>3, <2>2, <2>3, <3>1 DEF SnapshotInv, ExpiredAreGone
  <2> QED
    BY <1>1, <1>3, <1>4, <2>6, <2>7, <2>8 DEF SnapshotInv, NoneCleanedAhead, NightIsBetween,
       PinnedWhatItFound, StrikesOf, Pinned, ComparedWhatItFound
<1> QED BY <1>5, <1>6

LEMMA BeginCompareInv ==
    ASSUME SnapshotInv, NEW from \in table["oi"], NEW to \in table["oi"], BeginCompare(from, to)
    PROVE  SnapshotInv'
<1> DEFINE begun == [from |-> from, to |-> to, strikes |-> strikes]
<1>1. /\ compare' = begun
      /\ UNCHANGED <<now, night, table, strikes, tick, cleanedFor, fetches, compared>>
  BY DEF BeginCompare
<1>2. begun.from = from /\ begun.to = to /\ begun.strikes = strikes
  OBVIOUS
<1> HIDE DEF begun
<1>3. StrikesOf(from)' = {from} /\ StrikesOf(to)' = {to}
  <2>1. OneFetchPerSlot
    BY DEF SnapshotInv
  <2> QED BY <1>1, <1>2, <2>1, StrikesOfOne DEF StrikesOf, Pinned
<1>4. PinnedWhatItFound'
  BY <1>1, <1>2, <1>3 DEF PinnedWhatItFound, StrikesOf, Pinned
<1>5. Today' = Today
  BY <1>1 DEF Today
<1> QED
  BY <1>1, <1>4, <1>5 DEF SnapshotInv, SnapshotShapes, TicksAreOfToday, NoneCleanedAhead, NightIsBetween,
     OneFetchPerSlot, ComparedWhatItFound, ExpiredAreGone

LEMMA EndCompareInv == ASSUME SnapshotInv, EndCompare PROVE SnapshotInv'
<1> DEFINE result == [from |-> compare.from, to |-> compare.to,
                      before |-> StrikesOf(compare.from), after |-> StrikesOf(compare.to)]
<1>1. /\ compare # Nothing /\ compared' = result /\ compare' = Nothing
      /\ UNCHANGED <<now, night, table, strikes, tick, cleanedFor, fetches>>
  BY DEF EndCompare
<1>2. /\ result.from = compare.from /\ result.before = StrikesOf(compare.from)
      /\ result.to = compare.to /\ result.after = StrikesOf(compare.to)
  OBVIOUS
<1> HIDE DEF result
<1>3. ComparedWhatItFound' /\ PinnedWhatItFound'
  BY <1>1, <1>2 DEF SnapshotInv, ComparedWhatItFound, PinnedWhatItFound
<1>4. Today' = Today
  BY <1>1 DEF Today
<1> QED
  BY <1>1, <1>3, <1>4 DEF SnapshotInv, SnapshotShapes, TicksAreOfToday, NoneCleanedAhead, NightIsBetween,
     OneFetchPerSlot, ExpiredAreGone

\* With the night a day ends: nothing is under way, and nobody has cleaned up.
LEMMA NextSlotInv == ASSUME SnapshotInv, NextSlot PROVE SnapshotInv'
<1> USE DEF SnapshotInv
<1>1. /\ now < LastSlot
      /\ UNCHANGED <<table, strikes, tick, cleanedFor, fetches, compare, compared>>
  BY DEF NextSlot
<1>2. /\ now \in Nat /\ now + 1 \in Slots /\ DayOf(now) \in Nat
      /\ DayOf(now + 1) \in {DayOf(now), DayOf(now) + 1} /\ Today \in Nat
  BY <1>1, SnapshotAssumption, DayGrows, TodayIsNat DEF SnapshotShapes, Slots
<1>3. OneFetchPerSlot' /\ ComparedWhatItFound' /\ PinnedWhatItFound'
  BY <1>1 DEF OneFetchPerSlot, ComparedWhatItFound, PinnedWhatItFound, StrikesOf, Pinned
<1>4. CASE night \/ DayOf(now + 1) = DayOf(now)
  <2>1. now' = now + 1 /\ night' = FALSE
    BY <1>4 DEF NextSlot
  <2>2. Today' = Today
    <3>1. Today' = DayOf(now + 1)
      BY <2>1 DEF Today, DayOf
    <3>2. CASE night
      BY <3>1, <3>2 DEF Today, NightIsBetween
    <3>3. CASE ~night
      BY <1>4, <3>1, <3>3 DEF Today
    <3> QED BY <3>2, <3>3
  <2>3. SnapshotShapes' /\ ~night'
    <3>1. night' \in BOOLEAN /\ ~night'
      BY <2>1
    <3> QED BY <1>1, <1>2, <2>1, <3>1 DEF SnapshotShapes
  <2> QED
    BY <1>1, <1>3, <2>2, <2>3 DEF TicksAreOfToday, NoneCleanedAhead, NightIsBetween,
       ExpiredAreGone
<1>5. CASE ~(night \/ DayOf(now + 1) = DayOf(now))
  <2>1. /\ now' = now /\ night' = TRUE
        /\ \A w \in Workers, h \in Histories : tick[w][h].step = "idle"
    BY <1>5 DEF NextSlot
  <2>2. Today' = Today + 1
    <3>1. Today = DayOf(now)
      BY <1>5 DEF Today
    <3>2. Today' = DayOf(now) + 1
      BY <2>1 DEF Today, DayOf
    <3> QED BY <3>1, <3>2
  <2>3. SnapshotShapes'
    <3>1. night' \in BOOLEAN
      BY <2>1
    <3> QED BY <1>1, <2>1, <3>1 DEF SnapshotShapes
  <2>4. TicksAreOfToday'
    BY <1>1, <2>1 DEF TicksAreOfToday
  <2>5. NoneCleanedAhead' /\ ExpiredAreGone'
    <3>1. \A w \in Workers : cleanedFor'[w]["oi"] \in Int
      BY <1>1 DEF SnapshotShapes, Histories
    <3>2. Today' \in Nat /\ \A w \in Workers : cleanedFor'[w]["oi"] < Today'
      BY <1>1, <1>2, <2>2, <3>1 DEF NoneCleanedAhead
    <3>3. \A w \in Workers : cleanedFor'[w]["oi"] <= Today' /\ cleanedFor'[w]["oi"] # Today'
      BY <3>1, <3>2
    <3> QED BY <3>3 DEF NoneCleanedAhead, ExpiredAreGone
  <2>6. NightIsBetween'
    BY <1>2, <1>5, <2>1 DEF NightIsBetween, DayOf
  <2> QED BY <1>3, <2>3, <2>4, <2>5, <2>6
<1> QED BY <1>4, <1>5

LEMMA RestartWorkerInv ==
    ASSUME SnapshotInv, NEW w \in Workers, RestartWorker(w)
    PROVE  SnapshotInv'
<1> USE DEF SnapshotInv
<1>1. /\ tick' = [tick EXCEPT ![w] = [h \in Histories |-> NoTick]]
      /\ cleanedFor' = [cleanedFor EXCEPT ![w] = [h \in Histories |-> -1]]
      /\ UNCHANGED <<now, night, table, strikes, fetches, compare, compared>>
  BY DEF RestartWorker
<1>2. Today' = Today /\ Today \in Nat
  BY <1>1, TodayIsNat DEF Today
<1>3. /\ tick' \in [Workers -> [Histories -> Tick]]
      /\ \A v \in Workers, g \in Histories :
            tick'[v][g] = IF v = w THEN NoTick ELSE tick[v][g]
  BY <1>1, NoTickShape DEF SnapshotShapes
<1>4. /\ cleanedFor' \in [Workers -> [Histories -> Int]]
      /\ \A v \in Workers : cleanedFor'[v]["oi"] = IF v = w THEN -1 ELSE cleanedFor[v]["oi"]
  BY <1>1 DEF SnapshotShapes, Histories
<1>5. SnapshotShapes' /\ TicksAreOfToday'
  BY <1>1, <1>2, <1>3, <1>4, NoTickShape DEF SnapshotShapes, TicksAreOfToday
<1>6. NoneCleanedAhead' /\ ExpiredAreGone'
  BY <1>1, <1>2, <1>4 DEF NoneCleanedAhead, ExpiredAreGone
<1> QED
  BY <1>1, <1>5, <1>6 DEF NightIsBetween, PinnedWhatItFound, StrikesOf, Pinned, OneFetchPerSlot,
     ComparedWhatItFound

-----------------------------------------------------------------------------
\* The invariant holds however many workers run both collectors and restart.
THEOREM SpecSnapshotInv == SnapshotSpec => []SnapshotInv
<1>1. SnapshotInit => SnapshotInv
  BY SnapshotInitInv
<1>2. SnapshotInv /\ [SnapshotNext]_snapshotVars => SnapshotInv'
  <2> SUFFICES ASSUME SnapshotInv, [SnapshotNext]_snapshotVars PROVE SnapshotInv'
    OBVIOUS
  <2>1. CASE UNCHANGED snapshotVars
    BY <2>1 DEF snapshotVars, SnapshotInv, SnapshotShapes, TicksAreOfToday, NoneCleanedAhead, Today,
       NightIsBetween, PinnedWhatItFound, StrikesOf, Pinned, OneFetchPerSlot,
       ComparedWhatItFound, ExpiredAreGone
  <2>2. CASE SnapshotNext
    BY <2>2, CleanTableInv, BeginTickInv, LookForSlotInv, FetchReplyInv, FetchFailsInv,
       SaveSnapshotInv, BeginCompareInv, EndCompareInv, NextSlotInv, RestartWorkerInv
       DEF SnapshotNext, HistoryNext
  <2> QED BY <2>1, <2>2
<1> QED BY <1>1, <1>2, PTL DEF SnapshotSpec

\* A slot is stored once with the strikes of its own fetch, a comparison has the
\* strikes of both its snapshots, and expired contracts are gone after a clean-up.
THEOREM SpecSnapshotsAreWhole == SnapshotSpec => []SnapshotsAreWhole
<1>1. SnapshotInv => SnapshotsAreWhole
  BY DEF SnapshotInv, SnapshotsAreWhole
<1> QED BY <1>1, SpecSnapshotInv, PTL

-----------------------------------------------------------------------------
(***************************************************************************)
(* The notification log.                                                   *)
(***************************************************************************)
\* How many notifications there are; each has the next serial number.
Count == Cardinality(DOMAIN recorded)

\* What the proofs use of the types.
LogShapes ==
    /\ today \in 0..LastDay /\ cleaned \in -1..LastDay
    /\ Count \in 0..MaxRecorded /\ DOMAIN recorded = 1..Count
    /\ rows \subseteq [id : Nat \ {0}, serial : 1..Count, read : BOOLEAN]
    /\ listed \subseteq [id : Nat \ {0}, serial : 1..Count]
    /\ delivering \subseteq [serial : 1..Count, step : {"dispatching", "pushing"}]
    /\ pushed \subseteq [serial : 1..Count, under : DOMAIN Wants]
    /\ device.preference \in DOMAIN Wants

\* Days never go back, neither on the calendar nor in the log.
DaysGrow ==
    /\ \A n \in 1..Count : recorded[n].day \in 0..today
    /\ \A n, m \in 1..Count : n <= m => recorded[n].day <= recorded[m].day

\* An id is one row's, and no id runs ahead of the serial numbers.
IdsAreUnique == \A r, s \in rows : r.id = s.id => r = s
IdsLagBehind == \A r \in rows : r.id <= r.serial

\* Until the log is emptied its ids are the serial numbers, and the newest
\* notification is in it.
IdsAreSerials ==
    ~emptied => /\ \A r \in rows : r.id = r.serial
                /\ \A l \in listed : l.id = l.serial
                /\ Count > 0 => \E r \in rows : r.serial = Count

\* Nothing of the retention window is ever deleted; a cleaned log has nothing else.
WindowIsKept ==
    /\ \A n \in 1..Count : recorded[n].day >= today - Retention => \E r \in rows : r.serial = n
    /\ cleaned = today => \A r \in rows : recorded[r.serial].day >= today - Retention

\* One delivery at most of each notification, and nothing pushed before it.
DeliveriesAreSingle ==
    /\ \A d, e \in delivering : d.serial = e.serial => d = e
    /\ \A d \in delivering, p \in pushed : d.step = "dispatching" => d.serial # p.serial

LogInv == /\ LogShapes /\ DaysGrow /\ IdsAreUnique /\ IdsLagBehind /\ IdsAreSerials
          /\ WindowIsKept /\ DeliveriesAreSingle /\ PushesAreWanted

-----------------------------------------------------------------------------
\* A nonempty set of naturals has a least element.
LEMMA LeastOfNaturals ==
    ASSUME NEW T \in SUBSET Nat, T # {}
    PROVE  \E x \in T : \A y \in T : x <= y
<1>1. IsWellFoundedOn(OpToRel(<, Nat), Nat)
  BY NatLessThanWellFounded
<1>2. PICK x \in T : \A y \in T : ~(<<y, x>> \in OpToRel(<, Nat))
  BY <1>1, WFMin
<1>3. \A y \in T : ~(y < x)
  BY <1>2 DEF OpToRel
<1> QED BY <1>3

\* A nonempty set of naturals that do not exceed a bound has a greatest one.
LEMMA MaxOfNaturals ==
    ASSUME NEW S \in SUBSET Nat, S # {}, NEW bound \in Nat, \A x \in S : x <= bound
    PROVE  Max(S) \in S /\ \A y \in S : Max(S) >= y
<1> DEFINE T == {bound - x : x \in S}
<1>1. T # {}
  OBVIOUS
<1>2. ASSUME NEW t \in T PROVE t \in Nat
  <2>1. PICK x \in S : t = bound - x
    OBVIOUS
  <2>2. x \in Nat /\ x <= bound
    OBVIOUS
  <2> QED BY <2>1, <2>2
<1>3. T \in SUBSET Nat
  BY <1>2
<1>4. \A y \in S : bound - y \in T
  OBVIOUS
<1>5. \A t \in T : \E x \in S : t = bound - x
  OBVIOUS
<1> HIDE DEF T
<1>6. PICK t \in T : \A y \in T : t <= y
  BY <1>1, <1>3, LeastOfNaturals
<1>7. PICK x \in S : t = bound - x
  BY <1>5
<1>8. \A y \in S : bound - x <= bound - y
  BY <1>4, <1>6, <1>7
<1>9. \A y \in S : x >= y
  BY <1>8
<1> QED BY <1>9 DEF Max

\* The id of a new row is nobody's and no higher than its serial number, which
\* it is until the log is emptied.
LEMMA NextIdFacts ==
    ASSUME LogInv
    PROVE  /\ NextId(rows) \in Nat \ {0}
           /\ NextId(rows) <= Count + 1
           /\ \A r \in rows : r.id < NextId(rows)
           /\ ~emptied => NextId(rows) = Count + 1
<1> USE DEF LogInv, LogShapes
<1>1. /\ Count \in Nat
      /\ \A r \in rows : r.id \in Nat \ {0} /\ r.serial \in 1..Count /\ r.id <= Count
  BY NotificationAssumption DEF IdsLagBehind
<1>2. CASE rows = {}
  BY <1>1, <1>2 DEF NextId, IdsAreSerials
<1>3. CASE rows # {}
  <2> DEFINE S == {r.id : r \in rows}
  <2>1. /\ S \in SUBSET Nat /\ S # {} /\ \A x \in S : x <= Count
        /\ \A x \in S : x # 0
        /\ \A r \in rows : r.id \in S
        /\ \A x \in S : \E r \in rows : x = r.id
    BY <1>1, <1>3
  <2>2. NextId(rows) = Max(S) + 1
    BY <1>3 DEF NextId
  <2> HIDE DEF S
  <2>3. Max(S) \in S /\ \A y \in S : Max(S) >= y
    BY <1>1, <2>1, MaxOfNaturals
  <2>4. ~emptied => Max(S) = Count
    <3> SUFFICES ASSUME ~emptied PROVE Max(S) = Count
      OBVIOUS
    <3>1. PICK q \in rows : TRUE
      BY <1>3
    <3>2. Count > 0
      BY <1>1, <3>1
    <3>3. PICK r \in rows : r.serial = Count /\ r.id = Count
      BY <3>2 DEF IdsAreSerials
    <3>4. Max(S) >= Count /\ Max(S) <= Count /\ Max(S) \in Nat
      BY <2>1, <2>3, <3>3
    <3> QED BY <1>1, <3>4
  <2>5. Max(S) \in Nat /\ Max(S) <= Count
    BY <2>1, <2>3
  <2>6. \A r \in rows : r.id <= Max(S)
    BY <2>1, <2>3
  <2> HIDE DEF Count
  <2> QED BY <1>1, <2>2, <2>4, <2>5, <2>6
<1> QED BY <1>2, <1>3

-----------------------------------------------------------------------------
LEMMA NotificationInitInv == NotificationInit => LogInv
<1> SUFFICES ASSUME NotificationInit PROVE LogInv OBVIOUS
<1>1. DOMAIN recorded = {} /\ 1..0 = {}
  BY DEF NotificationInit
<1>2. Count = 0
  BY <1>1, FS_EmptySet DEF Count
<1>3. LogShapes
  BY <1>1, <1>2, NotificationAssumption DEF NotificationInit, LogShapes
<1>4. DaysGrow /\ IdsAreUnique /\ IdsLagBehind /\ IdsAreSerials
  BY <1>2 DEF NotificationInit, DaysGrow, IdsAreUnique, IdsLagBehind, IdsAreSerials
<1>5. WindowIsKept /\ DeliveriesAreSingle /\ PushesAreWanted
  BY <1>2 DEF NotificationInit, WindowIsKept, DeliveriesAreSingle, PushesAreWanted
<1> QED BY <1>3, <1>4, <1>5 DEF LogInv

\* A notification is recorded under the next serial number.
LEMMA RecordNotificationInv ==
    ASSUME LogInv, NEW severity \in Severities, RecordNotification(severity)
    PROVE  LogInv'
<1> DEFINE serial == Count + 1
           row == [id |-> NextId(rows), serial |-> serial, read |-> FALSE]
           delivery == [serial |-> serial, step |-> "dispatching"]
<1>1. /\ serial <= MaxRecorded
      /\ recorded' = [n \in 1..serial |-> IF n = serial THEN [severity |-> severity, day |-> today]
                                          ELSE recorded[n]]
      /\ rows' = rows \cup {row}
      /\ delivering' = delivering \cup {delivery}
      /\ UNCHANGED <<today, device, pushed, cleaned, listed, emptied>>
  BY DEF RecordNotification, Count
<1>2. Count \in Nat /\ MaxRecorded \in Nat /\ today \in Nat /\ Retention \in Nat
  BY NotificationAssumption DEF LogInv, LogShapes
<1>3. serial \in Nat /\ serial \in 1..serial /\ serial > Count /\ \A n \in 1..Count : n \in 1..serial /\ n # serial
  BY <1>2
<1>4. DOMAIN recorded' = 1..serial /\ Count' = serial
  <2>1. DOMAIN recorded' = 1..serial
    BY <1>1
  <2>2. Cardinality(1..serial) = serial
    <3>1. Cardinality(1..serial) = IF 1 > serial THEN 0 ELSE serial - 1 + 1
      BY <1>3, FS_Interval
    <3> HIDE DEF serial
    <3> QED BY <1>2, <1>3, <3>1 DEF serial
  <2> QED BY <2>1, <2>2 DEF Count
<1>5. /\ \A n \in 1..Count : recorded'[n] = recorded[n]
      /\ recorded'[serial].day = today /\ recorded'[serial].severity = severity
  <2>1. serial \in 1..serial
    BY <1>2, <1>3
  <2> HIDE DEF serial, row, delivery
  <2>2. \A n \in 1..serial : recorded'[n] = IF n = serial
                                            THEN [severity |-> severity, day |-> today]
                                            ELSE recorded[n]
    BY <1>1
  <2> QED BY <1>3, <2>1, <2>2
<1>6. \A n \in 1..serial : n \in 1..Count \/ n = serial
  BY <1>2
<1>7. /\ NextId(rows) \in Nat \ {0} /\ NextId(rows) <= serial
      /\ \A r \in rows : r.id < NextId(rows)
      /\ ~emptied => NextId(rows) = serial
  BY NextIdFacts
<1>8. /\ rows \subseteq [id : Nat \ {0}, serial : 1..Count, read : BOOLEAN]
      /\ listed \subseteq [id : Nat \ {0}, serial : 1..Count]
      /\ delivering \subseteq [serial : 1..Count, step : {"dispatching", "pushing"}]
      /\ pushed \subseteq [serial : 1..Count, under : DOMAIN Wants]
  BY DEF LogInv, LogShapes
<1> HIDE DEF serial
<1>9. row.id = NextId(rows) /\ row.serial = serial
      /\ row \in [id : Nat \ {0}, serial : 1..serial, read : BOOLEAN]
  <2>1. serial \in 1..serial
    BY <1>2, <1>3
  <2> QED BY <1>7, <2>1
<1>10. delivery.serial = serial /\ delivery \in [serial : 1..serial, step : {"dispatching", "pushing"}]
  BY <1>3
<1> HIDE DEF row, delivery
<1>11. LogShapes'
  <2>1. serial \in 0..MaxRecorded
    BY <1>1, <1>2, <1>3
  <2>2. rows' \subseteq [id : Nat \ {0}, serial : 1..serial, read : BOOLEAN]
    BY <1>1, <1>3, <1>8, <1>9
  <2>3. delivering' \subseteq [serial : 1..serial, step : {"dispatching", "pushing"}]
    BY <1>1, <1>3, <1>8, <1>10
  <2>4. /\ listed \subseteq [id : Nat \ {0}, serial : 1..serial]
        /\ pushed \subseteq [serial : 1..serial, under : DOMAIN Wants]
    BY <1>3, <1>8
  <2> QED BY <1>1, <1>4, <2>1, <2>2, <2>3, <2>4 DEF LogInv, LogShapes
<1>12. DaysGrow'
  <2>1. \A n \in 1..serial : recorded'[n].day \in 0..today
    BY <1>2, <1>5, <1>6 DEF LogInv, DaysGrow
  <2>2. ASSUME NEW n \in 1..serial, NEW m \in 1..serial, n <= m
        PROVE  recorded'[n].day <= recorded'[m].day
    <3>1. CASE m = serial
      BY <1>2, <1>5, <2>1, <3>1
    <3>2. CASE m # serial
      <4>1. m \in 1..Count /\ n \in 1..Count
        BY <1>2, <1>3, <1>6, <2>2, <3>2 DEF serial
      <4> QED BY <1>5, <2>2, <4>1 DEF LogInv, DaysGrow
    <3> QED BY <3>1, <3>2
  <2> QED BY <1>1, <1>4, <2>1, <2>2 DEF DaysGrow
<1>13. IdsAreUnique' /\ IdsLagBehind'
  <2>1. \A r \in rows : r.id \in Nat /\ r.id # row.id
    BY <1>7, <1>8, <1>9
  <2> QED BY <1>1, <1>7, <1>9, <2>1 DEF LogInv, IdsAreUnique, IdsLagBehind
<1>14. IdsAreSerials'
  BY <1>1, <1>4, <1>7, <1>9 DEF LogInv, IdsAreSerials
<1>15. WindowIsKept'
  <2>1. today >= today - Retention
    BY <1>2
  <2>2. \A r \in rows : recorded'[r.serial] = recorded[r.serial]
    BY <1>5, <1>8
  <2> QED BY <1>1, <1>4, <1>5, <1>6, <1>9, <2>1, <2>2 DEF LogInv, WindowIsKept
<1>16. DeliveriesAreSingle'
  <2>1. /\ \A d \in delivering : d.serial # serial
        /\ \A p \in pushed : p.serial # serial
    BY <1>3, <1>8
  <2> QED BY <1>1, <1>10, <2>1 DEF LogInv, DeliveriesAreSingle
<1>17. PushesAreWanted'
  <2>1. \A p \in pushed : recorded'[p.serial] = recorded[p.serial]
    BY <1>5, <1>8
  <2> QED BY <1>1, <2>1 DEF LogInv, PushesAreWanted
<1> QED BY <1>11, <1>12, <1>13, <1>14, <1>15, <1>16, <1>17 DEF LogInv

\* A delivery goes on, and the push is the preference's of that moment.
LEMMA DeliveryInv ==
    ASSUME LogInv, NEW d \in delivering, Dispatched(d) \/ Pushed(d)
    PROVE  LogInv'
<1>0. /\ delivering \subseteq [serial : 1..Count, step : {"dispatching", "pushing"}]
      /\ pushed \subseteq [serial : 1..Count, under : DOMAIN Wants]
      /\ d.serial \in 1..Count /\ device.preference \in DOMAIN Wants
  BY DEF LogInv, LogShapes
<1>1. UNCHANGED <<today, recorded, rows, device, cleaned, listed, emptied>>
  BY DEF Dispatched, Pushed
<1>2. \/ delivering' = delivering \ {d} /\ pushed' = pushed
      \/ /\ d.step = "dispatching" /\ Wanted(recorded[d.serial].severity)
         /\ delivering' = (delivering \ {d}) \cup {[serial |-> d.serial, step |-> "pushing"]}
         /\ pushed' = pushed \cup {[serial |-> d.serial, under |-> device.preference]}
  <2>1. CASE Pushed(d)
    BY <2>1 DEF Pushed
  <2>2. CASE Dispatched(d) /\ Wanted(recorded[d.serial].severity)
    BY <2>2 DEF Dispatched
  <2>3. CASE Dispatched(d) /\ ~Wanted(recorded[d.serial].severity)
    BY <2>3 DEF Dispatched
  <2> QED BY <2>1, <2>2, <2>3
<1>3. Count' = Count
  BY <1>1 DEF Count
<1>4. DaysGrow' /\ IdsAreUnique' /\ IdsLagBehind' /\ IdsAreSerials' /\ WindowIsKept'
  BY <1>1, <1>3 DEF LogInv, DaysGrow, IdsAreUnique, IdsLagBehind, IdsAreSerials, WindowIsKept
<1>5. CASE delivering' = delivering \ {d} /\ pushed' = pushed
  <2>1. LogShapes'
    BY <1>1, <1>3, <1>5 DEF LogInv, LogShapes
  <2>2. DeliveriesAreSingle' /\ PushesAreWanted'
    BY <1>1, <1>5 DEF LogInv, DeliveriesAreSingle, PushesAreWanted
  <2> QED BY <1>4, <2>1, <2>2 DEF LogInv
<1>6. CASE /\ d.step = "dispatching" /\ Wanted(recorded[d.serial].severity)
           /\ delivering' = (delivering \ {d}) \cup {[serial |-> d.serial, step |-> "pushing"]}
           /\ pushed' = pushed \cup {[serial |-> d.serial, under |-> device.preference]}
  <2> DEFINE e == [serial |-> d.serial, step |-> "pushing"]
             p == [serial |-> d.serial, under |-> device.preference]
  <2>1. /\ e \in [serial : 1..Count, step : {"dispatching", "pushing"}]
        /\ p \in [serial : 1..Count, under : DOMAIN Wants]
        /\ e.serial = d.serial /\ e.step = "pushing" /\ p.serial = d.serial
        /\ p.under = device.preference
    BY <1>0
  <2>2. delivering' = (delivering \ {d}) \cup {e} /\ pushed' = pushed \cup {p}
    BY <1>6
  <2> HIDE DEF e, p
  <2>3. LogShapes'
    BY <1>0, <1>1, <1>3, <2>1, <2>2 DEF LogInv, LogShapes
  <2>4. DeliveriesAreSingle'
    BY <2>1, <2>2 DEF LogInv, DeliveriesAreSingle
  <2>5. PushesAreWanted'
    BY <1>1, <1>6, <2>1, <2>2 DEF LogInv, DeliveriesAreSingle, PushesAreWanted, Wanted
  <2> QED BY <1>4, <2>3, <2>4, <2>5 DEF LogInv
<1> QED BY <1>2, <1>5, <1>6

\* What leaves the rows, the log and the deliveries alone.
LEMMA PhoneInv ==
    ASSUME LogInv, ListRows \/ \E p \in DOMAIN Wants : RegisterDevice(p)
    PROVE  LogInv'
<1>1. UNCHANGED <<today, recorded, rows, delivering, pushed, cleaned, emptied>>
  BY DEF ListRows, RegisterDevice
<1>2. Count' = Count
  BY <1>1 DEF Count
<1>3. /\ \A l \in listed' : l \in listed \/ \E r \in rows : l.id = r.id /\ l.serial = r.serial
      /\ listed' \subseteq [id : Nat \ {0}, serial : 1..Count]
      /\ device'.preference \in DOMAIN Wants
  <2>1. CASE ListRows
    BY <2>1 DEF ListRows, LogInv, LogShapes
  <2>2. CASE \E p \in DOMAIN Wants : RegisterDevice(p)
    BY <2>2 DEF RegisterDevice, LogInv, LogShapes
  <2> QED BY <2>1, <2>2
<1>4. LogShapes'
  BY <1>1, <1>2, <1>3 DEF LogInv, LogShapes
<1>5. DaysGrow' /\ IdsAreUnique' /\ IdsLagBehind' /\ WindowIsKept'
  BY <1>1, <1>2 DEF LogInv, DaysGrow, IdsAreUnique, IdsLagBehind, WindowIsKept
<1>6. IdsAreSerials'
  BY <1>1, <1>2, <1>3 DEF LogInv, IdsAreSerials
<1>7. DeliveriesAreSingle' /\ PushesAreWanted'
  BY <1>1 DEF LogInv, DeliveriesAreSingle, PushesAreWanted
<1> QED BY <1>4, <1>5, <1>6, <1>7 DEF LogInv

\* A row that is read is the same row.
LEMMA MarkReadInv ==
    ASSUME LogInv, NEW ids, MarkRead(ids)
    PROVE  LogInv'
<1>1. /\ rows' = {[r EXCEPT !.read = @ \/ r.id \in ids] : r \in rows}
      /\ UNCHANGED <<today, recorded, delivering, device, pushed, cleaned, listed, emptied>>
  BY DEF MarkRead
<1>2. Count' = Count
  BY <1>1 DEF Count
<1>3. rows \subseteq [id : Nat \ {0}, serial : 1..Count, read : BOOLEAN]
  BY DEF LogInv, LogShapes
<1>4. ASSUME NEW r \in rows
      PROVE  LET s == [r EXCEPT !.read = @ \/ r.id \in ids]
             IN  /\ s.id = r.id /\ s.serial = r.serial /\ s \in rows'
                 /\ s \in [id : Nat \ {0}, serial : 1..Count, read : BOOLEAN]
  BY <1>1, <1>3
<1>5. \A s \in rows' : \E r \in rows :
         /\ s = [r EXCEPT !.read = @ \/ r.id \in ids]
         /\ s.id = r.id /\ s.serial = r.serial
         /\ s \in [id : Nat \ {0}, serial : 1..Count, read : BOOLEAN]
  BY <1>1, <1>4
<1>6. \A r \in rows : \E s \in rows' : s.id = r.id /\ s.serial = r.serial
  BY <1>4
<1>7. LogShapes'
  BY <1>1, <1>2, <1>5 DEF LogInv, LogShapes
<1>8. DaysGrow' /\ DeliveriesAreSingle' /\ PushesAreWanted'
  BY <1>1, <1>2 DEF LogInv, DaysGrow, DeliveriesAreSingle, PushesAreWanted
<1>9. IdsAreUnique'
  <2> SUFFICES ASSUME NEW s \in rows', NEW t \in rows', s.id = t.id PROVE s = t
    BY DEF IdsAreUnique
  <2>1. PICK q \in rows : s = [q EXCEPT !.read = @ \/ q.id \in ids] /\ s.id = q.id
    BY <1>5
  <2>2. PICK r \in rows : t = [r EXCEPT !.read = @ \/ r.id \in ids] /\ t.id = r.id
    BY <1>5
  <2>3. q = r
    BY <2>1, <2>2 DEF LogInv, IdsAreUnique
  <2> QED BY <2>1, <2>2, <2>3
<1>10. IdsLagBehind' /\ IdsAreSerials' /\ WindowIsKept'
  <2>1. \A s \in rows' : \E r \in rows : s.id = r.id /\ s.serial = r.serial
    BY <1>5
  <2>2. UNCHANGED <<today, recorded, cleaned, listed, emptied>>
    BY <1>1
  <2>3. IdsLagBehind'
    BY <2>1 DEF LogInv, IdsLagBehind
  <2>4. IdsAreSerials'
    BY <1>2, <1>6, <2>1, <2>2 DEF LogInv, IdsAreSerials
  <2>5. WindowIsKept'
    BY <1>2, <1>6, <2>1, <2>2 DEF LogInv, WindowIsKept
  <2> QED BY <2>3, <2>4, <2>5
<1> QED BY <1>7, <1>8, <1>9, <1>10 DEF LogInv

\* The retention task deletes what is older than the window; the newest goes
\* only with all the others.
LEMMA CleanUpInv == ASSUME LogInv, CleanUp PROVE LogInv'
<1>1. /\ rows' = {r \in rows : ~Expired(r)} /\ cleaned' = today
      /\ emptied' = (emptied \/ (rows # {} /\ rows' = {}))
      /\ UNCHANGED <<today, recorded, delivering, device, pushed, listed>>
  BY DEF CleanUp
<1>2. Count' = Count
  BY <1>1 DEF Count
<1>3. /\ today \in 0..LastDay /\ Retention \in Nat /\ Count \in Nat
      /\ \A r \in rows : r.serial \in 1..Count
      /\ \A n \in 1..Count : recorded[n].day \in 0..today
  BY NotificationAssumption DEF LogInv, LogShapes, DaysGrow
<1>4. \A r \in rows : r \in rows' <=> recorded[r.serial].day >= today - Retention
  BY <1>1, <1>3 DEF Expired
<1>5. rows' \subseteq rows
  BY <1>1
<1>6. LogShapes'
  BY <1>1, <1>2, <1>3, <1>5 DEF LogInv, LogShapes
<1>7. DaysGrow' /\ IdsAreUnique' /\ IdsLagBehind' /\ DeliveriesAreSingle' /\ PushesAreWanted'
  BY <1>1, <1>2, <1>5 DEF LogInv, DaysGrow, IdsAreUnique, IdsLagBehind, DeliveriesAreSingle,
     PushesAreWanted
<1>8. IdsAreSerials'
  <2> SUFFICES ASSUME ~emptied'
               PROVE  /\ \A r \in rows' : r.id = r.serial
                      /\ \A l \in listed : l.id = l.serial
                      /\ Count > 0 => \E r \in rows' : r.serial = Count
    BY <1>1, <1>2 DEF IdsAreSerials
  <2>1. ~emptied /\ (rows = {} \/ rows' # {})
    BY <1>1
  <2>2. ASSUME Count > 0 PROVE \E r \in rows' : r.serial = Count
    <3>1. PICK newest \in rows : newest.serial = Count
      BY <2>1, <2>2 DEF LogInv, IdsAreSerials
    <3>2. PICK r \in rows' : TRUE
      BY <2>1, <3>1
    <3>3. r \in rows /\ recorded[r.serial].day >= today - Retention
      BY <1>4, <1>5, <3>2
    <3>4. recorded[r.serial].day <= recorded[newest.serial].day
      <4>1. r.serial <= Count /\ r.serial \in 1..Count /\ Count \in 1..Count
        BY <1>3, <2>2, <3>3
      <4> QED BY <3>1, <4>1 DEF LogInv, DaysGrow
    <3>5. recorded[newest.serial].day >= today - Retention
      <4>1. recorded[r.serial].day \in Nat /\ recorded[newest.serial].day \in Nat
        BY <1>3, <3>1, <3>3
      <4> QED BY <1>3, <3>3, <3>4, <4>1
    <3> QED BY <1>4, <3>1, <3>5
  <2> QED BY <1>5, <2>1, <2>2 DEF LogInv, IdsAreSerials
<1>9. WindowIsKept'
  BY <1>1, <1>2, <1>3, <1>4, <1>5 DEF LogInv, WindowIsKept
<1> QED BY <1>6, <1>7, <1>8, <1>9 DEF LogInv

LEMMA NotificationDayInv ==
    ASSUME LogInv, NextDay \/ RestartNotifications
    PROVE  LogInv'
<1>1. /\ UNCHANGED <<recorded, rows, device, pushed, listed, emptied>>
      /\ delivering' \subseteq delivering
  BY DEF NextDay, RestartNotifications
<1>2. Count' = Count
  BY <1>1 DEF Count
<1>3. /\ today \in 0..LastDay /\ Retention \in Nat /\ LastDay \in Nat /\ Count \in Nat
      /\ cleaned \in -1..LastDay
  BY NotificationAssumption DEF LogInv, LogShapes
<1>4. /\ today' \in 0..LastDay /\ cleaned' \in -1..LastDay /\ today' >= today
      /\ cleaned' # today'
  BY <1>3 DEF NextDay, RestartNotifications
<1>5. LogShapes'
  BY <1>1, <1>2, <1>4 DEF LogInv, LogShapes
<1>6. DaysGrow'
  BY <1>1, <1>2, <1>3, <1>4 DEF LogInv, DaysGrow
<1>7. IdsAreUnique' /\ IdsLagBehind' /\ IdsAreSerials'
  BY <1>1, <1>2 DEF LogInv, IdsAreUnique, IdsLagBehind, IdsAreSerials
<1>8. WindowIsKept'
  <2>1. ASSUME NEW n \in 1..Count, recorded[n].day >= today' - Retention
        PROVE  \E r \in rows : r.serial = n
    <3>1. recorded[n].day \in Int
      BY <1>3 DEF LogInv, DaysGrow
    <3>2. recorded[n].day >= today - Retention
      BY <1>3, <1>4, <2>1, <3>1
    <3> QED BY <3>2 DEF LogInv, WindowIsKept
  <2> QED BY <1>1, <1>2, <1>4, <2>1 DEF WindowIsKept
<1>9. DeliveriesAreSingle' /\ PushesAreWanted'
  BY <1>1 DEF LogInv, DeliveriesAreSingle, PushesAreWanted
<1> QED BY <1>5, <1>6, <1>7, <1>8, <1>9 DEF LogInv

LEMMA NotificationNextInv == LogInv /\ [NotificationNext]_notificationVars => LogInv'
<1> SUFFICES ASSUME LogInv, [NotificationNext]_notificationVars PROVE LogInv' OBVIOUS
<1>1. CASE UNCHANGED notificationVars
  BY <1>1 DEF notificationVars, LogInv, LogShapes, Count, DaysGrow, IdsAreUnique, IdsLagBehind,
     IdsAreSerials, WindowIsKept, DeliveriesAreSingle, PushesAreWanted
<1>2. CASE NotificationNext
  BY <1>2, RecordNotificationInv, DeliveryInv, PhoneInv, MarkReadInv, CleanUpInv,
     NotificationDayInv DEF NotificationNext
<1> QED BY <1>1, <1>2

\* The invariant says what the property does.
LEMMA LogInvIsTrue == LogInv => LogStaysTrue
<1> SUFFICES ASSUME LogInv PROVE LogStaysTrue OBVIOUS
<1>1. ShownIdsStayTrue
  BY DEF LogInv, IdsAreSerials, ShownIdsStayTrue
<1>2. LogIsTheWindow
  <2>1. /\ DOMAIN recorded = 1..Count
        /\ \A r \in rows : r.serial \in 1..Count
    BY DEF LogInv, LogShapes
  <2> QED BY <2>1 DEF LogInv, WindowIsKept, LogIsTheWindow
<1>3. PushesAreWanted
  BY DEF LogInv
<1> QED BY <1>1, <1>2, <1>3 DEF LogStaysTrue

\* However recordings, dispatches, pushes, clean-ups, days and restarts follow
\* one another: the id the phone shows is the row it marks read until the log is
\* emptied, the log is the retention window, and each push was wanted when it
\* went out and went out once (notification_store.py, notification_service.py).
THEOREM SpecLogStaysTrue == NotificationSpec => []LogStaysTrue
<1>1. NotificationInit => LogInv
  BY NotificationInitInv
<1>2. LogInv /\ [NotificationNext]_notificationVars => LogInv'
  BY NotificationNextInv
<1>3. LogInv => LogStaysTrue
  BY LogInvIsTrue
<1> QED BY <1>1, <1>2, <1>3, PTL DEF NotificationSpec
=============================================================================
