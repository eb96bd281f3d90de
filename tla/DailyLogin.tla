------------------------------ MODULE DailyLogin ------------------------------
(***************************************************************************)
(* How the backend keeps an Upstox access token (auto_login_scheduler.py,  *)
(* auto_login_state_store.py, upstox_totp_login.py, token_store.py,        *)
(* auth_watchdog.py, the /auth routes of routes.py).                       *)
(*                                                                         *)
(* The broker ends every token at about 3:30 in the night.  A background   *)
(* task logs in from 5:35, or at once when there is no token file, at most *)
(* MaxAttempts times a day, and keeps the day's attempts in a file so that *)
(* a restart does not start over.  The login runs in a thread: the file is *)
(* written after it has ended, and a stop in between loses the count.  A   *)
(* person may log in or out at any time.  The watchdog looks at the token  *)
(* file and reports when it is lost.                                       *)
(***************************************************************************)
EXTENDS Integers, Sequences

CONSTANTS
    Days,         \* bound on the days that pass
    MaxAttempts,  \* _MAX_ATTEMPTS_PER_DAY
    MaxLosses,    \* bound on the times the token is lost: a logout or a torn file
    MaxUncounted  \* bound on the rejections of a day whose count is never saved

ASSUME LoginAssumption ==
    /\ Days \in Nat \ {0} /\ MaxAttempts \in Nat \ {0} /\ MaxLosses \in Nat
    /\ MaxUncounted \in Nat

VARIABLES
    day, hours,   \* the calendar day and the part of it
    token,        \* the encrypted token file, and whether the broker still takes it
    minted,       \* history: the day the last token was saved
    attempt,      \* the scheduler's login under way
    state,        \* the attempt-state file
    rejections,   \* history: logins whose rejection arrived, per day they were begun
    uncounted,    \* history: of these, the ones the file was never told of
    kept,         \* history: there has been a token file since midnight
    watched,      \* what the watchdog saw last
    losses,       \* history: times the token file became unusable
    alerts        \* history: the watchdog's notifications

loginVars == <<day, hours, token, minted, attempt, state, rejections, uncounted, kept,
               watched, losses, alerts>>

\* The login's requests, then the two files it writes.
LoginRequests == <<"dialog", "otp", "totp", "pin", "authorize", "exchange">>
Rejectable == {"dialog", "otp", "totp", "pin", "authorize"}
LoginStages ==
    {LoginRequests[i] : i \in DOMAIN LoginRequests} \cup {"idle", "refused", "store", "record"}

Usable == {"fresh", "stale"}
NoAttempts == [day |-> 0, count |-> 0, ok |-> FALSE]

LoginTypeOK ==
    /\ day \in 1..Days /\ hours \in {"night", "expired", "day"}
    /\ token \in Usable \cup {"none", "torn"}
    /\ minted \in 0..Days
    /\ attempt.stage \in LoginStages /\ attempt.today \in 0..Days
    /\ attempt.before \in 0..(MaxAttempts - 1)
    /\ state.day \in 0..Days /\ state.count \in 0..MaxAttempts /\ state.ok \in BOOLEAN
    /\ watched \in {"unknown", "yes", "no"}

NotTrying == [stage |-> "idle", today |-> 0, before |-> 0]

LoginInit ==
    /\ day = 1 /\ hours \in {"night", "expired", "day"}
    /\ token = "none" /\ minted = 0
    /\ attempt = NotTrying /\ state = NoAttempts
    /\ rejections = [d \in 1..Days |-> 0] /\ uncounted = rejections
    /\ kept = FALSE /\ watched = "unknown" /\ losses = 0 /\ alerts = 0

-----------------------------------------------------------------------------
(* The scheduler's tick, every 30 seconds. *)

AttemptsToday == IF state.day = day THEN state.count ELSE 0
SucceededToday == state.day = day /\ state.ok
HasToken == token # "none"

BrokenShouldAttempt == ~SucceededToday /\ AttemptsToday < MaxAttempts
ShouldAttempt ==
    /\ ~SucceededToday /\ AttemptsToday < MaxAttempts
    /\ hours = "day" \/ ~HasToken

StartLogin ==
    /\ attempt.stage = "idle" /\ ShouldAttempt
    /\ attempt' = [stage |-> "dialog", today |-> day, before |-> AttemptsToday]
    /\ UNCHANGED <<day, hours, token, minted, state, rejections, uncounted, kept, watched,
                   losses, alerts>>

\* After the last request the token is stored, then the success is recorded.
AfterRequest(i) == IF i < Len(LoginRequests) THEN LoginRequests[i + 1] ELSE "store"

LoginReply ==
    \E i \in DOMAIN LoginRequests :
        /\ attempt.stage = LoginRequests[i]
        /\ attempt' = [attempt EXCEPT !.stage = AfterRequest(i)]
        /\ UNCHANGED <<day, hours, token, minted, state, rejections, uncounted, kept,
                       watched, losses, alerts>>

\* UpstoxAutoLoginError: an attempt of the day it was begun.
Counted(a) == [day |-> a.today, count |-> a.before + 1, ok |-> FALSE]

LoginRejected ==
    /\ attempt.stage \in Rejectable
    /\ rejections' = [rejections EXCEPT ![attempt.today] = @ + 1]
    /\ attempt' = [attempt EXCEPT !.stage = "refused"]
    /\ UNCHANGED <<day, hours, token, minted, state, uncounted, kept, watched, losses,
                   alerts>>

\* The exception has left the thread: the scheduler saves the count.
CountRejection ==
    /\ attempt.stage = "refused"
    /\ state' = Counted(attempt)
    /\ attempt' = NotTrying
    /\ UNCHANGED <<day, hours, token, minted, rejections, uncounted, kept, watched,
                   losses, alerts>>

\* An attempt that ends without the file: a rejection not saved yet is forgotten.
AttemptEnds ==
    /\ attempt' = NotTrying
    /\ IF attempt.stage = "refused"
       THEN /\ uncounted[attempt.today] < MaxUncounted   \* bound
            /\ uncounted' = [uncounted EXCEPT ![attempt.today] = @ + 1]
       ELSE UNCHANGED uncounted

\* Any other exception (the network, the token exchange, the disk) is logged
\* and not counted: also where the answer of Upstox is lost or the count not saved.
LoginBreaks ==
    /\ attempt.stage # "idle" /\ AttemptEnds
    /\ UNCHANGED <<day, hours, token, minted, state, rejections, kept, watched, losses,
                   alerts>>

StoreToken ==
    /\ attempt.stage = "store"
    /\ token' = "fresh" /\ minted' = day
    /\ attempt' = [attempt EXCEPT !.stage = "record"]
    /\ UNCHANGED <<day, hours, state, rejections, uncounted, kept, watched, losses, alerts>>

RecordSuccess ==
    /\ attempt.stage = "record"
    /\ state' = [Counted(attempt) EXCEPT !.ok = TRUE]
    /\ attempt' = NotTrying
    /\ UNCHANGED <<day, hours, token, minted, rejections, uncounted, kept, watched,
                   losses, alerts>>

-----------------------------------------------------------------------------
(* People, the clock and the process. *)

\* POST /auth/auto-login and the browser's callback; neither counts as an attempt.
ManualLogin ==
    /\ token' = "fresh" /\ minted' = day
    /\ UNCHANGED <<day, hours, attempt, state, rejections, uncounted, kept, watched,
                   losses, alerts>>

Logout ==
    /\ token \in Usable /\ losses < MaxLosses
    /\ token' = "none" /\ kept' = FALSE /\ losses' = losses + 1
    /\ UNCHANGED <<day, hours, minted, attempt, state, rejections, uncounted, watched,
                   alerts>>

TimePasses ==
    \/ /\ hours = "night" /\ hours' = "expired"
       /\ token' = IF token = "fresh" THEN "stale" ELSE token
       /\ UNCHANGED <<day, kept>>
    \/ /\ hours = "expired" /\ hours' = "day"
       /\ UNCHANGED <<day, token, kept>>
    \/ /\ hours = "day" /\ day < Days
       /\ hours' = "night" /\ day' = day + 1
       /\ kept' = HasToken
       /\ UNCHANGED token

Clock ==
    /\ TimePasses
    /\ UNCHANGED <<minted, attempt, state, rejections, uncounted, watched, losses, alerts>>

\* A crash while the token file is written leaves it torn.
RestartLogin ==
    /\ \/ UNCHANGED <<token, losses>>
       \/ /\ attempt.stage = "store" /\ token \in Usable /\ losses < MaxLosses
          /\ token' = "torn" /\ losses' = losses + 1
    /\ AttemptEnds /\ watched' = "unknown"
    /\ UNCHANGED <<day, hours, minted, state, rejections, kept, alerts>>

\* The watchdog's tick: it reports the step from usable to unusable only.
IsLost(seen) == seen = "yes" /\ token \notin Usable

Watch ==
    /\ watched' = IF token \in Usable THEN "yes" ELSE "no"
    /\ alerts' = IF IsLost(watched) THEN alerts + 1 ELSE alerts
    /\ alerts' <= MaxLosses + 1   \* bound
    /\ UNCHANGED <<day, hours, token, minted, attempt, state, rejections, uncounted, kept,
                   losses>>

LoginNext ==
    \/ StartLogin \/ LoginReply \/ LoginRejected \/ CountRejection \/ LoginBreaks
    \/ StoreToken \/ RecordSuccess \/ ManualLogin \/ Logout \/ Clock \/ RestartLogin \/ Watch

LoginSpec == LoginInit /\ [][LoginNext]_loginVars

-----------------------------------------------------------------------------
\* At most MaxAttempts of the scheduler's logins begun on one day end with
\* Upstox's rejection, over any number of restarts, and one more for each
\* rejection whose count was never saved: the process stopped, or the save
\* failed, between Upstox's answer and the file (auto_login_scheduler.py:26-31,
\* 65-80).
RejectionsAreCapped == \A d \in 1..Days : rejections[d] <= MaxAttempts + uncounted[d]

\* A day recorded as succeeded has a token saved that day or later: a crash
\* between the two files repeats the login and never skips it
\* (auto_login_scheduler.py:67-69).
SuccessHasItsToken == state.ok => minted >= state.day

\* A token file that was there all night is renewed after it expired, not
\* before: once the day counts as succeeded its token is not the expired one
\* (auto_login_scheduler.py:51-63).
MorningTokenIsNew ==
    kept /\ hours = "day" /\ SucceededToday => token # "stale"

\* The watchdog reports a loss once, not on every tick (auth_watchdog.py:25-37).
AlertsMatchLosses == alerts <= losses

\* What the files say of the day holds through restarts and the nightly expiry:
\* the cap, the success, the token behind it and the alerts (the four above).
LoginRecordsAreTrue ==
    RejectionsAreCapped /\ SuccessHasItsToken /\ MorningTokenIsNew /\ AlertsMatchLosses
=============================================================================
