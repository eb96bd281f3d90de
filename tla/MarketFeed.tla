----------------------------- MODULE MarketFeed ----------------------------
(***************************************************************************)
(* The one connection to the broker's market feed.                         *)
(*                                                                         *)
(* feed_subscription_manager.py unites what the app sessions, the tracked  *)
(* instruments, the open positions and the open lots want, under a lock;   *)
(* upstox_market_feed_client.py turns a change of the union into           *)
(* unsubscribe and subscribe messages and heals subscriptions that went    *)
(* silent; upstox_ws_client.py reconnects and replays the whole set.  The  *)
(* three send over one socket from three tasks, and every send is an await *)
(* at which the others run.  The broker acknowledges nothing.              *)
(*                                                                         *)
(* Time is counted in passes of the staleness check (10 s).                *)
(***************************************************************************)
EXTENDS Integers, Sequences, FiniteSets

CONSTANTS
    Keys, Sessions,
    Wishes,         \* what a session may subscribe to
    Holdings,       \* the sets of keys that positions or lots may hold
    Trackings,      \* the sets of keys Settings may track
    Quick,          \* external: keys that, served, tick between any two passes
    D30Cap,         \* _FULL_D30_APPLICATION_CAP
    StaleAfter,     \* passes without a tick before a key is nudged (45 s)
    D30StaleAfter,  \* passes without a tick before D30 is (20 s)
    Cooldown,       \* passes between two forced reconnects (60 s)
    EscalateAfter,  \* nudges in a row before unsubscribing first
    AlertAfter,     \* nudges, or failed connections, in a row to be reported
    MaxChanges,     \* bound on changes of what is wanted
    MaxFaults,      \* bound on what the broker or the network does wrong
    NoMode          \* no mode, no clock

FeedModes == {"full_d30", "full", "ltpc"}
Holders == {"positions", "lots"}
Wish == [d30 : SUBSET Keys, full : SUBSET Keys, ltpc : SUBSET Keys]
NoWish == [d30 |-> {}, full |-> {}, ltpc |-> {}]
Message == [do : {"sub", "unsub"}, mode : FeedModes, keys : SUBSET Keys]

ASSUME WishesAssumption == /\ Wishes \subseteq Wish /\ Holdings \subseteq SUBSET Keys
                           /\ Trackings \subseteq SUBSET Keys /\ Quick \subseteq Keys
                           /\ IsFiniteSet(Keys)
ASSUME FeedNumbersAssumption ==
    /\ {D30Cap, StaleAfter, D30StaleAfter, EscalateAfter, AlertAfter} \subseteq Nat \ {0}
    /\ {Cooldown, MaxChanges, MaxFaults} \subseteq Nat
ASSUME NoModeAssumption == NoMode \notin FeedModes \cup Nat \cup {"lost"}

VARIABLES
    want,      \* per session: its wish
    held,      \* positions and open lots: the keys each needs
    tracked,   \* tracked_store.load()
    desired,   \* the client's _desired lists: a mode per key
    applying,  \* messages replace_subscriptions has yet to send; the lock is held
    replaying, \* messages of the reconnect's replay yet to send
    checking,  \* the staleness check: its messages, and what follows them
    conn,      \* "up", "closing" (force_reconnect), "down"
    broker,    \* external: per key the mode it serves, and whether it ticks
    age,       \* passes since the last tick; NoMode when last_seen has no entry
    nudges,    \* _consecutive_nudge_count
    stage,     \* _d30_recovery_stage
    cooling,   \* passes before the next forced reconnect
    failures,  \* _FeedStateNotifier._consecutive_failures, capped
    streak,    \* _MarketFeedStalenessNotifier._consecutive_nudges, capped
    changes, faults

feedVars == <<want, held, tracked, desired, applying, replaying, checking, conn, broker,
              age, nudges, stage, cooling, failures, streak, changes, faults>>
wishVars == <<want, held, tracked>>
clockVars == <<age, nudges, stage, cooling, streak>>

NotChecking == [pc |-> "idle", msgs |-> <<>>, keys |-> {}]

FeedTypeOK ==
    /\ want \in [Sessions -> Wish] /\ held \in [Holders -> SUBSET Keys]
    /\ tracked \in SUBSET Keys
    /\ desired \in [Keys -> FeedModes \cup {NoMode}]
    /\ applying \in Seq(Message) /\ replaying \in Seq(Message)
    /\ checking \in [pc : {"idle", "resetting", "nudging"}, msgs : Seq(Message), keys : SUBSET Keys]
    /\ (checking.pc = "idle") = (checking.msgs = <<>>)
    /\ conn \in {"up", "closing", "down"}
    /\ broker \in [Keys -> [mode : FeedModes \cup {NoMode, "lost"}, ticks : BOOLEAN]]
    /\ age \in [Keys -> 0..StaleAfter \cup {NoMode}]
    /\ nudges \in [Keys -> 0..EscalateAfter] /\ streak \in [Keys -> 0..AlertAfter]
    /\ stage \in 0..2 /\ cooling \in 0..Cooldown /\ failures \in 0..AlertAfter
    /\ changes \in 0..MaxChanges /\ faults \in 0..MaxFaults

Unserved == [k \in Keys |-> [mode |-> NoMode, ticks |-> FALSE]]
Nothing == [k \in Keys |-> NoMode]

FeedInit ==
    /\ want = [s \in Sessions |-> NoWish] /\ held = [h \in Holders |-> {}] /\ tracked = {}
    /\ desired = Nothing
    /\ applying = <<>> /\ replaying = <<>> /\ checking = NotChecking
    /\ conn = "down" /\ broker = Unserved
    /\ age = Nothing /\ nudges = [k \in Keys |-> 0] /\ streak = [k \in Keys |-> 0]
    /\ stage = 0 /\ cooling = 0 /\ failures = 0 /\ changes = 0 /\ faults = 0

UpTo(n, cap) == IF n > cap THEN cap ELSE n

-----------------------------------------------------------------------------
(* FeedSubscriptionManager.                                                *)

Union(field, w) == UNION {w[s][field] : s \in Sessions}

\* set_client_subscription: the D30 union this wish would lead to.
WithinCap(s, wish) == Cardinality(Union("d30", [want EXCEPT ![s] = wish])) <= D30Cap

\* _apply: D30 wins over full, full over LTPC.
Target(w, t, h) ==
    [k \in Keys |->
        IF k \in Union("d30", w) THEN "full_d30"
        ELSE IF k \in t \cup Union("full", w) THEN "full"
        ELSE IF k \in h["positions"] \cup h["lots"] \cup Union("ltpc", w) THEN "ltpc"
        ELSE NoMode]

InMode(f, m) == {k \in Keys : f[k] = m}
Say(do, mode, keys) == [do |-> do, mode |-> mode, keys |-> keys]
\* No message without keys is sent.
SayIfAny(do, mode, keys) == IF keys = {} THEN <<>> ELSE <<Say(do, mode, keys)>>

\* replace_subscriptions: what changed mode or went is unsubscribed, then each
\* mode subscribes what is new in it.
Departed(old, new) == {k \in Keys : old[k] # NoMode /\ new[k] # old[k]}
Arrived(old, new, m) == {k \in InMode(new, m) : old[k] # m}
BrokenChange(old, new) ==
    SayIfAny("sub", "full_d30", Arrived(old, new, "full_d30"))
        \o SayIfAny("sub", "full", Arrived(old, new, "full"))
        \o SayIfAny("sub", "ltpc", Arrived(old, new, "ltpc"))
        \o SayIfAny("unsub", "ltpc", Departed(old, new))
Change(old, new) ==
    SayIfAny("unsub", "ltpc", Departed(old, new))
        \o SayIfAny("sub", "full_d30", Arrived(old, new, "full_d30"))
        \o SayIfAny("sub", "full", Arrived(old, new, "full"))
        \o SayIfAny("sub", "ltpc", Arrived(old, new, "ltpc"))

\* _apply under the lock; the same modes as before send nothing.
Apply(w, t, h) ==
    LET new == Target(w, t, h)
    IN /\ desired' = new
       /\ applying' = IF new = desired THEN <<>> ELSE Change(desired, new)

UnionIsFree == applying = <<>>

Changing ==
    /\ UnionIsFree /\ changes < MaxChanges
    /\ changes' = changes + 1
    /\ UNCHANGED <<replaying, checking, conn, broker, clockVars, failures, faults>>

\* Over the cap the call raises and nothing changes.
SetClientSubscription(s, wish) ==
    /\ Changing
    /\ WithinCap(s, wish)
    /\ want' = [want EXCEPT ![s] = [wish EXCEPT !.full = @ \ wish.d30]]
    /\ UNCHANGED <<held, tracked>>
    /\ Apply(want', tracked, held)

RemoveClient(s) ==
    /\ Changing
    /\ want[s] # NoWish
    /\ want' = [want EXCEPT ![s] = NoWish]
    /\ UNCHANGED <<held, tracked>>
    /\ Apply(want', tracked, held)

\* set_open_position_instruments, set_order_engine_instruments, from the
\* refresh loops and from a portfolio push.
SetHeld(h, keys) ==
    /\ Changing
    /\ keys # held[h]
    /\ held' = [held EXCEPT ![h] = keys]
    /\ UNCHANGED <<want, tracked>>
    /\ Apply(want, tracked, held')

\* refresh_tracked_instruments after the stored list changed.
RefreshTracked(keys) ==
    /\ Changing
    /\ keys # tracked
    /\ tracked' = keys
    /\ UNCHANGED <<want, held>>
    /\ Apply(want, tracked', held)

-----------------------------------------------------------------------------
(* The wire.                                                               *)

\* External: how the broker may take a message.  A subscription it believes it
\* serves already is left as it is; asked for another mode, it may keep either.
Served(b, k, msg) ==
    IF k \notin msg.keys THEN {b[k]}
    ELSE IF msg.do = "unsub" THEN {[mode |-> NoMode, ticks |-> FALSE]}
    ELSE IF b[k].mode \in {NoMode, "lost"} THEN {[mode |-> msg.mode, ticks |-> TRUE]}
    ELSE {b[k], [b[k] EXCEPT !.mode = msg.mode]}

\* send_json: dropped when there is no connection.
Send(msg) ==
    IF conn = "up"
    THEN \E choice \in [Keys -> {"old", "new"}] :
            broker' = [k \in Keys |->
                LET outcomes == Served(broker, k, msg)
                IN CHOOSE o \in outcomes :
                    \/ Cardinality(outcomes) = 1
                    \/ (o = broker[k]) = (choice[k] = "old")]
    ELSE UNCHANGED broker

\* After the last message the clocks of keys no longer desired are dropped and
\* a key desired for the first time gets one.
Seeded ==
    [k \in Keys |-> IF desired[k] = NoMode THEN NoMode ELSE IF age[k] = NoMode THEN 0 ELSE age[k]]

SendApply ==
    /\ applying # <<>>
    /\ Send(Head(applying))
    /\ applying' = Tail(applying)
    /\ IF Len(applying) = 1
       THEN /\ age' = Seeded
            /\ nudges' = [k \in Keys |-> IF desired[k] = NoMode THEN 0 ELSE nudges[k]]
       ELSE UNCHANGED <<age, nudges>>
    /\ UNCHANGED <<wishVars, desired, replaying, checking, conn, stage, cooling, failures,
                   streak, changes, faults>>

SendReplay ==
    /\ replaying # <<>>
    /\ Send(Head(replaying))
    /\ replaying' = Tail(replaying)
    /\ UNCHANGED <<wishVars, desired, applying, checking, conn, clockVars, failures,
                   changes, faults>>

-----------------------------------------------------------------------------
(* The connection loop.                                                    *)

Failed == UpTo(failures + 1, AlertAfter)

\* _connect_once succeeds: the replay is what is desired now.
Replay == Change(Nothing, desired)
Connect ==
    /\ conn = "down" /\ replaying = <<>>
    /\ conn' = "up"
    /\ broker' = Unserved
    /\ replaying' = Replay
    /\ failures' = 0
    /\ UNCHANGED <<wishVars, desired, applying, checking, clockVars, changes, faults>>

\* No token yet, or the authorisation or the handshake failed.
ConnectFails ==
    /\ conn = "down" /\ replaying = <<>>
    /\ failures < AlertAfter
    /\ failures' = Failed
    /\ UNCHANGED <<wishVars, desired, applying, replaying, checking, conn, broker, clockVars,
                   changes, faults>>

Lost ==
    /\ conn' = "down" /\ broker' = Unserved
    /\ failures' = Failed
    /\ UNCHANGED <<wishVars, desired, applying, replaying, checking, clockVars, changes>>

\* The socket closed.
Drop == conn = "up" /\ faults < MaxFaults /\ faults' = faults + 1 /\ Lost

\* No frame at all for _STALE_AFTER_SECONDS.
Watchdog ==
    /\ conn = "up" /\ replaying = <<>>
    /\ \A k \in Keys : ~broker[k].ticks
    /\ UNCHANGED faults /\ Lost

\* After force_reconnect the loop comes back to its top.
Reenter == conn = "closing" /\ UNCHANGED faults /\ Lost

-----------------------------------------------------------------------------
(* Ticks and silences.                                                     *)

\* _on_message.
TickArrives(k) ==
    /\ conn = "up" /\ broker[k].ticks
    /\ age' = [age EXCEPT ![k] = 0]
    /\ stage' = IF desired[k] = "full_d30" THEN 0 ELSE stage
    /\ UNCHANGED <<wishVars, desired, applying, replaying, checking, conn, broker, nudges,
                   cooling, failures, streak, changes, faults>>

Silence(b) ==
    /\ conn = "up" /\ faults < MaxFaults
    /\ faults' = faults + 1
    /\ broker' = b
    /\ UNCHANGED <<wishVars, desired, applying, replaying, checking, conn, clockVars,
                   failures, changes>>

\* The broker forgets a subscription, or rejected it.
Forget(k) ==
    broker[k].mode \in FeedModes /\ Silence([broker EXCEPT ![k] = [mode |-> "lost", ticks |-> FALSE]])

\* It believes it serves a key, and does not.
Stick(k) ==
    broker[k].ticks /\ Silence([broker EXCEPT ![k].ticks = FALSE])

\* The whole D30 mode goes silent.
StallD30 ==
    /\ \E k \in Keys : broker[k].mode = "full_d30" /\ broker[k].ticks
    /\ Silence([k \in Keys |-> IF broker[k].mode = "full_d30"
                               THEN [broker[k] EXCEPT !.ticks = FALSE] ELSE broker[k]])

-----------------------------------------------------------------------------
(* The staleness check: recover_stale_d30_cohort, then                     *)
(* resend_stale_subscriptions, then the notifier.                          *)

Older == [k \in Keys |-> IF age[k] = NoMode THEN NoMode ELSE UpTo(age[k] + 1, StaleAfter)]

D30Wanted == InMode(desired, "full_d30")
\* A key without a clock counts as neither stale nor fresh.
BrokenCohortIsSilent(a) ==
    \A k \in Keys : desired[k] # NoMode => a[k] # NoMode /\ a[k] >= D30StaleAfter
CohortIsSilent(a) ==
    /\ \A k \in D30Wanted : a[k] # NoMode /\ a[k] >= D30StaleAfter
    /\ \E k \in InMode(desired, "full") \cup InMode(desired, "ltpc") :
            a[k] # NoMode /\ a[k] < D30StaleAfter

Stale(a, withD30) ==
    {k \in Keys : /\ desired[k] # NoMode /\ a[k] # NoMode /\ a[k] >= StaleAfter
                  /\ desired[k] = "full_d30" => withD30}

\* A plain subscribe first; after enough nudges in a row an unsubscribe before it.
Resubscribe(m, keys) == SayIfAny("sub", m, {k \in keys : desired[k] = m})
Nudge(stale, counts) ==
    LET hard == {k \in stale : counts[k] >= EscalateAfter}
        soft == stale \ hard
    IN SayIfAny("unsub", "ltpc", hard)
        \o Resubscribe("full_d30", hard) \o Resubscribe("full", hard) \o Resubscribe("ltpc", hard)
        \o Resubscribe("full", soft) \o Resubscribe("full_d30", soft) \o Resubscribe("ltpc", soft)

\* The notifier counts passes in a row that nudged a key.
Reported(nudged) ==
    [k \in Keys |-> IF k \in nudged THEN UpTo(streak[k] + 1, AlertAfter) ELSE 0]

\* resend_stale_subscriptions up to its first send; a key not stale in this
\* pass loses its count.
BeginNudging(a, withD30) ==
    LET stale == IF conn = "up" THEN Stale(a, withD30) ELSE {}
        counts == IF conn = "up"
                  THEN [k \in Keys |-> IF k \in stale THEN nudges[k] ELSE 0] ELSE nudges
    IN /\ nudges' = counts
       /\ IF stale = {}
          THEN checking' = NotChecking /\ streak' = Reported({})
          ELSE /\ checking' = [pc |-> "nudging", msgs |-> Nudge(stale, counts), keys |-> stale]
               /\ UNCHANGED streak

\* Every pass ages the clocks first: nothing else measures time.
CheckCommon ==
    /\ checking.pc = "idle"
    /\ \A k \in Quick : broker[k].ticks => age[k] = 0
    /\ age' = Older
    /\ UNCHANGED <<wishVars, desired, applying, replaying, failures, changes, faults>>

CoolerBy1 == cooling' = IF cooling = 0 THEN 0 ELSE cooling - 1

CheckNudges ==
    /\ CheckCommon
    /\ \/ (conn # "up" \/ D30Wanted = {}) /\ stage' = 0
       \/ conn = "up" /\ D30Wanted # {} /\ ~CohortIsSilent(Older) /\ UNCHANGED stage
    /\ CoolerBy1
    /\ BeginNudging(Older, TRUE)
    /\ UNCHANGED <<conn, broker>>

Silent == conn = "up" /\ D30Wanted # {} /\ CohortIsSilent(Older)

CheckResets ==
    /\ CheckCommon
    /\ Silent /\ stage = 0
    /\ checking' = [pc |-> "resetting", keys |-> D30Wanted,
                    msgs |-> <<Say("unsub", "ltpc", D30Wanted), Say("sub", "full_d30", D30Wanted)>>]
    /\ CoolerBy1
    /\ UNCHANGED <<stage, nudges, streak, conn, broker>>

CheckReconnects ==
    /\ CheckCommon
    /\ Silent /\ stage = 1 /\ cooling <= 1
    /\ stage' = 2
    /\ cooling' = Cooldown
    /\ conn' = "closing" /\ broker' = Unserved
    /\ checking' = NotChecking /\ streak' = Reported({})
    /\ UNCHANGED nudges

CheckAwaits ==
    /\ CheckCommon
    /\ Silent /\ (stage = 2 \/ (stage = 1 /\ cooling > 1))
    /\ CoolerBy1
    /\ BeginNudging(Older, FALSE)
    /\ UNCHANGED <<stage, conn, broker>>

CheckFrame == UNCHANGED <<wishVars, desired, applying, replaying, conn, cooling, failures,
                          changes, faults>>

\* The reset's last message moves the stage on, and the nudges follow.
SendReset ==
    /\ checking.pc = "resetting"
    /\ Send(Head(checking.msgs))
    /\ IF Len(checking.msgs) > 1
       THEN checking' = [checking EXCEPT !.msgs = Tail(@)] /\ UNCHANGED <<stage, nudges, streak>>
       ELSE stage' = 1 /\ BeginNudging(age, FALSE)
    /\ UNCHANGED age
    /\ CheckFrame

\* The last nudge restarts the clock of every key nudged.
SendNudge ==
    /\ checking.pc = "nudging"
    /\ Send(Head(checking.msgs))
    /\ IF Len(checking.msgs) > 1
       THEN checking' = [checking EXCEPT !.msgs = Tail(@)] /\ UNCHANGED <<age, nudges, streak>>
       ELSE /\ checking' = NotChecking
            /\ age' = [k \in Keys |-> IF k \in checking.keys THEN 0 ELSE age[k]]
            /\ nudges' = [k \in Keys |-> IF k \in checking.keys
                                         THEN UpTo(nudges[k] + 1, EscalateAfter) ELSE nudges[k]]
            /\ streak' = Reported(checking.keys)
    /\ UNCHANGED stage
    /\ CheckFrame

Check == CheckNudges \/ CheckResets \/ CheckReconnects \/ CheckAwaits

FeedNext ==
    \/ \E s \in Sessions : RemoveClient(s) \/ \E w \in Wishes : SetClientSubscription(s, w)
    \/ \E h \in Holders, keys \in Holdings : SetHeld(h, keys)
    \/ \E keys \in Trackings : RefreshTracked(keys)
    \/ SendApply \/ SendReplay
    \/ Connect \/ ConnectFails \/ Drop \/ Watchdog \/ Reenter
    \/ \E k \in Keys : TickArrives(k) \/ Forget(k) \/ Stick(k)
    \/ StallD30
    \/ Check \/ SendReset \/ SendNudge

FeedSpec == FeedInit /\ [][FeedNext]_feedVars

(* The tasks run; a connection is made in the end; a key served ticks.     *)
FeedFairness ==
    /\ WF_feedVars(SendApply) /\ WF_feedVars(SendReplay)
    /\ WF_feedVars(SendReset) /\ WF_feedVars(SendNudge)
    /\ WF_feedVars(Check) /\ WF_feedVars(Connect) /\ WF_feedVars(Reenter)
    /\ \A k \in Keys : WF_feedVars(TickArrives(k))

FeedFairSpec == FeedSpec /\ FeedFairness

-----------------------------------------------------------------------------
(* Properties.                                                             *)

WantedBy(k) ==
    \/ k \in tracked \cup held["positions"] \cup held["lots"]
    \/ \E s \in Sessions : k \in want[s].d30 \cup want[s].full \cup want[s].ltpc

\* Whenever the connection is up and no task has a message left to send, every
\* key anyone wants is subscribed, or was until the broker lost it: changes,
\* replays and nudges that interleave never leave a wanted key unsubscribed.
WantedIsSubscribed ==
    (conn = "up" /\ applying = <<>> /\ replaying = <<>> /\ checking.pc = "idle")
    => \A k \in Keys : WantedBy(k) => broker[k].mode # NoMode

\* The sessions together never hold more than the cap in D30.
D30StaysWithinCap == Cardinality(D30Wanted) <= D30Cap

\* Every key desired has a clock when the lock is free: without one it is never
\* stale and never healed.
EveryDesiredKeyHasAClock ==
    applying = <<>> => \A k \in Keys : desired[k] # NoMode => age[k] # NoMode

\* Demand is served when the sends are over: subscribed, under a clock that notices
\* silence, within the allowance (the three above).
DemandIsServed == WantedIsSubscribed /\ D30StaysWithinCap /\ EveryDesiredKeyHasAClock

\* A subscription outside D30 that the broker lost is renewed, unless it is not
\* wanted in that mode any more (resend_stale_subscriptions).
LostIsRenewed ==
    \A k \in Keys :
        (broker[k].mode = "lost" /\ desired[k] \in {"full", "ltpc"}) ~>
        (broker[k].mode \in FeedModes \/ desired[k] \notin {"full", "ltpc"})

\* When all of D30 is silent while a key wanted in another mode ticks, it ticks
\* again or the upstream socket has been replaced (recover_stale_d30_cohort);
\* what is still silent after that is tried no further until a D30 tick.
SilentD30IsReset ==
    (D30Wanted # {} /\ \A k \in D30Wanted : ~broker[k].ticks) ~>
    \/ D30Wanted = {} \/ stage = 2 \/ \E k \in D30Wanted : broker[k].ticks
    \/ \A k \in InMode(desired, "full") \cup InMode(desired, "ltpc") : ~broker[k].ticks

\* Silence is answered, one key's or all of D30's (the two above).
SilenceIsAnswered == LostIsRenewed /\ SilentD30IsReset
=============================================================================
