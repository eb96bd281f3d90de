---------------------------- MODULE AccountEstimate ----------------------------
(***************************************************************************)
(* The account's worth overnight (account_snapshot_scheduler.py,           *)
(* account_snapshot_store.py, MainScreenService.summary and its cache).    *)
(*                                                                         *)
(* A task stores one estimate of the day's closing balance after 23:00.    *)
(* The app's summary shows the stored estimate while the broker's funds    *)
(* endpoint is down (every night until 5:30, and whenever it fails) and    *)
(* after the capture.  The task and the app compute the same summary, with *)
(* a cache entry each, so that an estimate never becomes the source of the *)
(* next one.  A figure is represented by where it comes from, the day it   *)
(* is of, and the day whose charges are taken off it, which is looked up   *)
(* last.                                                                   *)
(***************************************************************************)
EXTENDS Integers

CONSTANTS
    Nights,     \* bound on the days that pass
    Freshness,  \* days after which an estimate is not shown any more
    NoFigure    \* nothing stored, cached or fetched

ASSUME EstimateAssumption == Nights \in Nat \ {0} /\ Freshness \in Nat
ASSUME NoFigureAssumption ==
    NoFigure \notin [from : {"broker", "estimate", "zeros"}, of : 1..Nights, charges : 1..Nights,
                     captured : 1..Nights]

VARIABLES
    date, hour,   \* the day and the part of it
    stored,       \* AccountSnapshotStore's file
    cached,       \* _CACHE's summary entries, by key
    asking,       \* per caller of summary: where it is and what the funds reply was
    shown,        \* what the app's last summary showed
    crossed,      \* history: days whose capture had the funds before midnight, and no more
    captures,     \* history: snapshots stored per day
    complaints,   \* history: failure notifications per day, of this run of the process
    complained    \* last_failure_notified_date

estimateVars == <<date, hour, stored, cached, asking, shown, crossed, captures, complaints,
                  complained>>

Callers == {"task", "app"}
Hours == {"maintenance", "session", "late"}
Dates == 1..Nights

\* A summary's figure: the broker's, a stored estimate, or nothing but zeros.
Funds == [from : {"broker", "estimate", "zeros"}, of : Dates]
Figure == [from : {"broker", "estimate", "zeros"}, of : Dates, charges : Dates]

\* A failing capture is retried every 30 seconds and reported once.
EstimateTypeOK ==
    /\ date \in Dates /\ hour \in Hours
    /\ stored \in [from : {"broker", "estimate", "zeros"}, of : Dates, charges : Dates,
                   captured : Dates] \cup {NoFigure}
    /\ \A c \in Callers : cached[c] \in [figure : Figure, at : Hours] \cup {NoFigure}
    /\ \A c \in Callers : asking[c].step \in {"idle", "funds", "positions"}
    /\ shown \in Figure \cup {NoFigure} /\ crossed \subseteq Dates
    /\ \A d \in Dates : captures[d] \in Nat /\ complaints[d] \in 0..1
    /\ complained \in 0..Nights

NotAsking == [step |-> "idle", funds |-> NoFigure, on |-> 0, at |-> "session"]

EstimateInit ==
    /\ date = 1 /\ hour = "session"
    /\ stored = NoFigure /\ cached = [c \in Callers |-> NoFigure]
    /\ asking = [c \in Callers |-> NotAsking]
    /\ shown = NoFigure /\ crossed = {}
    /\ captures = [d \in Dates |-> 0] /\ complaints = [d \in Dates |-> 0]
    /\ complained = 0

\* The cache entry a caller uses: whether it was built with a snapshot store.
BrokenCacheKey(c) == "app"
CacheKey(c) == c

Captured == stored # NoFigure /\ stored.captured = date

\* The app asks for its summary; the task does after 23:00 when it has none today.
Due(c) == c = "task" => hour = "late" /\ ~Captured

\* What becomes of a figure: the app shows it; the task stores it when it is the
\* broker's, under the date its tick began.
Use(c, figure, on) ==
    IF c = "app"
    THEN shown' = figure /\ UNCHANGED <<stored, captures>>
    ELSE /\ IF figure.from = "zeros" THEN UNCHANGED <<stored, captures>>
            ELSE /\ stored' = [from |-> figure.from, of |-> figure.of, charges |-> figure.charges,
                             captured |-> on]
                 /\ captures' = [captures EXCEPT ![on] = @ + 1]
         /\ UNCHANGED shown

AskSummary(c) ==
    /\ asking[c].step = "idle" /\ Due(c)
    /\ IF cached[CacheKey(c)] # NoFigure
       THEN Use(c, cached[CacheKey(c)].figure, date) /\ UNCHANGED asking
       ELSE /\ asking' = [asking EXCEPT ![c] = [step |-> "funds", funds |-> NoFigure,
                                                       on |-> date, at |-> hour]]
            /\ UNCHANGED <<stored, shown, captures>>
    /\ UNCHANGED <<date, hour, cached, crossed, complaints, complained>>

\* get_funds_and_margin answers, except in its maintenance window, or fails.
FundsReply(c, ok) ==
    /\ asking[c].step = "funds"
    /\ ok => hour # "maintenance"
    /\ asking' = [asking EXCEPT ![c].step = "positions",
                                ![c].funds = IF ok THEN [from |-> "broker", of |-> date]
                                             ELSE [from |-> "zeros", of |-> date]]
    /\ UNCHANGED <<date, hour, stored, cached, shown, crossed, captures, complaints, complained>>

\* The stored estimate stands in when the funds failed, or today after the capture.
StandIn(c, funds) ==
    IF /\ c = "app" /\ stored # NoFigure
       /\ date - stored.captured <= Freshness
       /\ funds.from = "zeros" \/ (stored.captured = date /\ hour = "late")
    THEN [from |-> "estimate", of |-> stored.of, charges |-> stored.charges]
    ELSE [from |-> funds.from, of |-> funds.of, charges |-> date]

\* get_positions answers: the profit of the day it answers and the charges of the
\* clock go into the figure, which is cached and used.
PositionsReply(c) ==
    /\ asking[c].step = "positions"
    /\ LET figure == StandIn(c, asking[c].funds) IN
       /\ cached' = [cached EXCEPT ![CacheKey(c)] = [figure |-> figure, at |-> hour]]
       /\ Use(c, figure, asking[c].on)
    /\ asking' = [asking EXCEPT ![c] = NotAsking]
    /\ UNCHANGED <<date, hour, crossed, complaints, complained>>

\* get_positions fails, or the token is unusable: the task says so once a day.
TellsFailure == complained # date

PositionsFail(c) ==
    /\ asking[c].step = "positions"
    /\ asking' = [asking EXCEPT ![c] = NotAsking]
    /\ IF c = "task" /\ TellsFailure
       THEN /\ complained' = date
            /\ complaints' = [complaints EXCEPT ![date] = @ + 1]
       ELSE UNCHANGED <<complained, complaints>>
    /\ UNCHANGED <<date, hour, stored, cached, shown, crossed, captures>>

\* An entry lives a minute at most and a request is timed out, so that neither
\* sees more than one change of the hour.
Expire(key) ==
    /\ cached[key] # NoFigure
    /\ cached' = [cached EXCEPT ![key] = NoFigure]
    /\ UNCHANGED <<date, hour, stored, asking, shown, crossed, captures, complaints, complained>>

\* The task waits for the positions with the broker's funds in hand.
HasFunds == asking["task"].step = "positions" /\ asking["task"].funds.from = "broker"

HourPasses ==
    /\ \A c \in Callers : asking[c].step # "idle" => asking[c].at = hour
    /\ \/ hour = "maintenance" /\ hour' = "session" /\ UNCHANGED date
       \/ hour = "session" /\ hour' = "late" /\ UNCHANGED date
       \/ hour = "late" /\ date < Nights /\ hour' = "maintenance" /\ date' = date + 1
    /\ cached' = [c \in Callers |-> IF cached[c] # NoFigure /\ cached[c].at = hour
                                    THEN cached[c] ELSE NoFigure]
    /\ crossed' = IF date' # date /\ HasFunds THEN crossed \cup {date} ELSE crossed
    /\ UNCHANGED <<stored, asking, shown, captures, complaints, complained>>

\* A restart loses the cache and the task's memory, not the stored estimate.
RestartTask ==
    /\ asking' = [c \in Callers |-> NotAsking]
    /\ cached' = [c \in Callers |-> NoFigure]
    /\ complained' = 0 /\ complaints' = [d \in Dates |-> 0]
    /\ UNCHANGED <<date, hour, stored, shown, crossed, captures>>

EstimateNext ==
    \/ \E c \in Callers :
        \/ AskSummary(c)
        \/ \E ok \in BOOLEAN : FundsReply(c, ok)
        \/ PositionsReply(c)
        \/ PositionsFail(c)
        \/ Expire(c)
    \/ HourPasses
    \/ RestartTask

EstimateSpec == EstimateInit /\ [][EstimateNext]_estimateVars

-----------------------------------------------------------------------------
\* A stored estimate is the broker's figure of the evening it is dated: never an
\* older estimate shown in its place, never zeros, whatever the app asked for
\* just before (account_snapshot_scheduler.py:33-55, main_screen_service.py:326).
\* The charges taken off it are of that evening too, unless midnight passed
\* between the replies of the funds and of the positions: then they are the next
\* day's (main_screen_service.py:335-356).
EstimateIsTheBrokers ==
    stored # NoFigure =>
        /\ stored.from = "broker" /\ stored.of = stored.captured
        /\ \/ stored.charges = stored.captured
           \/ stored.captured \in crossed /\ stored.charges = stored.captured + 1

\* One estimate a day (account_snapshot_scheduler.py:34-36).
OneCapturePerDay == \A d \in Dates : captures[d] <= 1

\* The estimate the app falls back on is a broker's figure, captured once for its
\* evening, whatever requests, failures and restarts came before (the two above).
EstimateIsSound == EstimateIsTheBrokers /\ OneCapturePerDay
=============================================================================
