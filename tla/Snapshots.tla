------------------------------- MODULE Snapshots -------------------------------
(***************************************************************************)
(* The five-minute history of a tracked underlying: open interest per      *)
(* strike (oi_snapshot_collector.py, oi_snapshot_store.py) and at-the-     *)
(* money volatility (atm_iv_snapshot_collector.py,                         *)
(* atm_iv_snapshot_store.py).                                              *)
(*                                                                         *)
(* Every API worker runs both collectors on the same two databases; a tick *)
(* looks whether its slot is there, fetches, and inserts unless another    *)
(* worker has.  The first tick of a day deletes what is too old.  The app  *)
(* compares two slots of open interest while that goes on.  A fetch is     *)
(* represented by its number, and stands for the strikes it brought.       *)
(***************************************************************************)
EXTENDS Integers, FiniteSets

CONSTANTS
    Workers,      \* processes that run the collectors
    SlotsOfDay,   \* market slots of a day
    LastSlot,     \* bound on the slots that pass
    Expiries,     \* expiry days of the underlying
    RollingDays,  \* _RETENTION_WINDOW
    MaxFetches,   \* bound on replies
    Nothing       \* no row, no comparison

ASSUME SnapshotAssumption ==
    /\ SlotsOfDay \in Nat \ {0} /\ LastSlot \in Nat /\ RollingDays \in Nat
    /\ MaxFetches \in Nat /\ Expiries \subseteq Nat

VARIABLES
    now,          \* the current market slot
    night,        \* the market is closed after the last slot of a day
    table,        \* per history: its rows
    strikes,      \* oi_strikes: snapshot id and the fetch that brought them
    tick,         \* per worker and history: the tick under way
    cleanedFor,   \* per worker and history: the day it last cleaned up for
    fetches,      \* replies so far
    compare,      \* diff_strikes under way
    compared      \* its last result: for each side the row and the strikes read

snapshotVars == <<now, night, table, strikes, tick, cleanedFor, fetches, compare, compared>>

Histories == {"oi", "iv"}
Slots == 0..LastSlot
DayOf(slot) == slot \div SlotsOfDay
Today == IF night THEN DayOf(now) + 1 ELSE DayOf(now)

Snapshot == [expiry : Expiries, slot : Slots, fetch : 1..MaxFetches]

SnapshotTypeOK ==
    /\ now \in Slots /\ night \in BOOLEAN
    /\ \A h \in Histories : table[h] \subseteq Snapshot
    /\ strikes \subseteq Snapshot
    /\ \A w \in Workers, h \in Histories :
        tick[w][h].step \in {"idle", "look", "fetch", "save"} /\ cleanedFor[w][h] \in Int
    /\ fetches \in 0..MaxFetches

NoTick == [step |-> "idle", slot |-> 0, expiry |-> 0, fetch |-> 0]

SnapshotInit ==
    /\ now = 0 /\ night = FALSE
    /\ table = [h \in Histories |-> {}] /\ strikes = {}
    /\ tick = [w \in Workers |-> [h \in Histories |-> NoTick]]
    /\ cleanedFor = [w \in Workers |-> [h \in Histories |-> -1]]
    /\ fetches = 0 /\ compare = Nothing /\ compared = Nothing

-----------------------------------------------------------------------------
\* UNIQUE (underlying, expiry, slot), for volatility UNIQUE (underlying, slot).
Unique(h, expiry, slot) ==
    \E r \in table[h] : r.slot = slot /\ (h = "oi" => r.expiry = expiry)

\* delete_expired_before: expiry days gone by; delete_older_than: a rolling window.
TooOld(h, r) ==
    IF h = "oi" THEN r.expiry < Today
    ELSE r.slot < now - RollingDays * SlotsOfDay

Step(w, h, t) == tick' = [tick EXCEPT ![w][h] = t]

\* The first tick of the day cleans up, market or not, token or not.
CleanTable(w, h) ==
    /\ tick[w][h].step = "idle" /\ cleanedFor[w][h] # Today
    /\ cleanedFor' = [cleanedFor EXCEPT ![w][h] = Today]
    /\ LET gone == {r \in table[h] : TooOld(h, r)} IN
       /\ table' = [table EXCEPT ![h] = @ \ gone]
       /\ strikes' = IF h = "oi" THEN strikes \ {s \in strikes :
                        \E r \in gone : r.expiry = s.expiry /\ r.slot = s.slot} ELSE strikes
    /\ UNCHANGED <<now, night, tick, fetches, compare, compared>>

\* The market slot is that of the tick's beginning, for every underlying it walks.
BeginTick(w, h) ==
    /\ tick[w][h].step = "idle" /\ cleanedFor[w][h] = Today /\ ~night
    /\ Step(w, h, [NoTick EXCEPT !.step = "look", !.slot = now])
    /\ UNCHANGED <<now, night, table, strikes, cleanedFor, fetches, compare, compared>>

\* The nearest expiry, and has_snapshot.
Nearest(e) == e >= Today /\ \A f \in Expiries : f >= Today => e <= f

LookForSlot(w, h) ==
    LET t == tick[w][h] IN
    /\ t.step = "look"
    /\ \E e \in {x \in Expiries : Nearest(x)} :
        Step(w, h, IF Unique(h, e, t.slot) THEN NoTick
                   ELSE [t EXCEPT !.step = "fetch", !.expiry = e])
    /\ UNCHANGED <<now, night, table, strikes, cleanedFor, fetches, compare, compared>>

\* The analysis names the expiry it is of, one still listed and not always the one
\* asked for; the chain is saved under the one asked for.
Resolved(h, asked) == IF h = "oi" THEN {e \in Expiries : e >= Today} ELSE {asked}

\* The analysis or the chain arrives; its number stands for what it says.
FetchReply(w, h) ==
    /\ tick[w][h].step = "fetch" /\ fetches < MaxFetches
    /\ fetches' = fetches + 1
    /\ \E e \in Resolved(h, tick[w][h].expiry) :
        Step(w, h, [tick[w][h] EXCEPT !.step = "save", !.expiry = e, !.fetch = fetches + 1])
    /\ UNCHANGED <<now, night, table, strikes, cleanedFor, compare, compared>>

\* A failure, no expiry or an unusable payload skips the underlying until the next tick.
AfterFailure(t) == NoTick

FetchFails(w, h) ==
    /\ tick[w][h].step # "idle"
    /\ Step(w, h, AfterFailure(tick[w][h]))
    /\ UNCHANGED <<now, night, table, strikes, cleanedFor, fetches, compare, compared>>

\* save_snapshot: INSERT OR IGNORE; only the row that went in gets its strikes.
GoesIn(h, t) == ~Unique(h, t.expiry, t.slot)

SaveSnapshot(w, h) ==
    LET t == tick[w][h]
        row == [expiry |-> t.expiry, slot |-> t.slot, fetch |-> t.fetch] IN
    /\ t.step = "save"
    /\ IF GoesIn(h, t)
       THEN /\ table' = [table EXCEPT ![h] = @ \cup {row}]
            /\ strikes' = IF h = "oi" THEN strikes \cup {row} ELSE strikes
       ELSE UNCHANGED <<table, strikes>>
    /\ Step(w, h, NoTick)
    /\ UNCHANGED <<now, night, cleanedFor, fetches, compare, compared>>

-----------------------------------------------------------------------------
(* diff_strikes: two reads in one read transaction. *)

\* The rows of the two slots; a missing one is an error to the caller.
BeginCompare(from, to) ==
    /\ compare = Nothing
    /\ compare' = [from |-> from, to |-> to, strikes |-> strikes]
    /\ UNCHANGED <<now, night, table, strikes, tick, cleanedFor, fetches, compared>>

\* The strikes of both, as they were when the transaction began.
BrokenPinned == strikes
Pinned == compare.strikes

StrikesOf(r) == {s \in Pinned : s.expiry = r.expiry /\ s.slot = r.slot}

EndCompare ==
    /\ compare # Nothing
    /\ compared' = [from |-> compare.from, to |-> compare.to,
                    before |-> StrikesOf(compare.from), after |-> StrikesOf(compare.to)]
    /\ compare' = Nothing
    /\ UNCHANGED <<now, night, table, strikes, tick, cleanedFor, fetches>>

-----------------------------------------------------------------------------
\* A tick may outlast its slot, not the night.
NextSlot ==
    /\ now < LastSlot
    /\ IF night \/ DayOf(now + 1) = DayOf(now)
       THEN now' = now + 1 /\ night' = FALSE
       ELSE /\ \A w \in Workers, h \in Histories : tick[w][h].step = "idle"
            /\ night' = TRUE /\ UNCHANGED now
    /\ UNCHANGED <<table, strikes, tick, cleanedFor, fetches, compare, compared>>

RestartWorker(w) ==
    /\ tick' = [tick EXCEPT ![w] = [h \in Histories |-> NoTick]]
    /\ cleanedFor' = [cleanedFor EXCEPT ![w] = [h \in Histories |-> -1]]
    /\ UNCHANGED <<now, night, table, strikes, fetches, compare, compared>>

\* The two histories share nothing but the clock.
HistoryNext(h) ==
    \/ \E w \in Workers :
        CleanTable(w, h) \/ BeginTick(w, h) \/ LookForSlot(w, h) \/ FetchReply(w, h)
        \/ FetchFails(w, h) \/ SaveSnapshot(w, h) \/ RestartWorker(w)
    \/ \E from, to \in table["oi"] : from.slot < to.slot /\ from.expiry = to.expiry
                                     /\ BeginCompare(from, to)
    \/ EndCompare \/ NextSlot

SnapshotNext == \E h \in Histories : HistoryNext(h)

SnapshotSpec == SnapshotInit /\ [][SnapshotNext]_snapshotVars

-----------------------------------------------------------------------------
\* "Restarts and multiple API workers are harmless": a slot is stored once, with
\* the strikes of the fetch that stored it (oi_snapshot_collector.py:28-34).
OneFetchPerSlot ==
    /\ \A h \in Histories : \A r, s \in table[h] :
        r.slot = s.slot /\ (h = "oi" => r.expiry = s.expiry) => r = s
    /\ strikes = table["oi"]

\* A comparison never takes the strikes of a snapshot deleted meanwhile for
\* zeros (oi_snapshot_store.py:243-246).
ComparedWhatItFound ==
    compared # Nothing =>
        compared.before = {compared.from} /\ compared.after = {compared.to}

\* Expired contracts are gone once a worker has cleaned up today
\* (oi_snapshot_collector.py:32-33).
ExpiredAreGone ==
    (\E w \in Workers : cleanedFor[w]["oi"] = Today) =>
        \A r \in table["oi"] : r.expiry >= Today

\* A snapshot is whole, alone in its slot and compared as it was found, whatever
\* workers store and delete meanwhile (the three above).
SnapshotsAreWhole == OneFetchPerSlot /\ ComparedWhatItFound /\ ExpiredAreGone
=============================================================================
