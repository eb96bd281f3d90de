------------------------------- MODULE Journal -------------------------------
(***************************************************************************)
(* The trade journal of one day and one contract (journal_store.py,        *)
(* journal_reconciler.py, the /journal routes of routes.py).               *)
(*                                                                         *)
(* A reconciliation pass copies the broker's fills into the ledger with    *)
(* the charges it looks up one by one, then rebuilds the day's trades:     *)
(* flat-to-flat round trips of the fills.  Passes take turns at one lock.  *)
(* The journal routes are plain functions, which FastAPI runs in threads:  *)
(* a note, a manual entry and the one-off brokerage correction interleave  *)
(* with a rebuild between its reads and its transaction, and only the      *)
(* database's keys hold them apart.                                        *)
(*                                                                         *)
(* A round trip's fingerprint is a hash of its fills: here, the set of     *)
(* them.  A manual entry is the round trip it resembles (_same_trade).     *)
(* Charges are in units of the correction.                                 *)
(***************************************************************************)
EXTENDS Integers, Sequences, FiniteSets

CONSTANTS
    Executed,     \* the day's fills, in the order they were executed
    Signed,       \* per fill: its quantity, negative for a sale
    Entries,      \* ids of manual entries
    Resembles,    \* per manual entry: the round trip it resembles
    Late,         \* fills that are listed, or get their role, only later
    Flaky,        \* fills whose charge lookup may fail
    Calls,        \* POST /journal/maintenance/correct-flat-brokerage
    NoCharge      \* the fill is not in the ledger

Fills == {Executed[n] : n \in DOMAIN Executed}
Accurate == 2       \* what get_brokerage returns since its flat-brokerage fix
Overstated == 3     \* what it returned before
Correction == 1     \* _FLAT_BROKERAGE_CORRECTION
Correctable == 1    \* _MIN_CORRECTABLE_CHARGE
ASSUME JournalAssumption ==
    /\ Executed \in Seq(Fills) /\ Executed # <<>>
    /\ \A n, m \in DOMAIN Executed : Executed[n] = Executed[m] => n = m
    /\ Signed \in [Fills -> Int \ {0}]
    /\ Resembles \in [Entries -> SUBSET Fills]
    /\ Late \subseteq Fills /\ Flaky \subseteq Fills
    /\ \A m \in Entries, trip \in SUBSET Fills : m # trip
    /\ IsFiniteSet(Calls) /\ "pass" \notin Calls
    /\ NoCharge \notin Nat

VARIABLES
    managed,      \* fills the broker lists, of orders whose order_history row has a role
    deployed,     \* the flat-brokerage fix is in the running build
    ledger,       \* trade_fills: the computed charges of each recorded fill
    trades,       \* journal_trades with their fill links
    notes,        \* journal_notes: the ids of annotated trades
    corrected,    \* journal_metadata: times the correction was committed
    work,         \* per rebuilder: where it is and what it has read
    request,      \* a note or a manual entry between its check and its insert
    rejected,     \* history: the last pass's rebuild was rolled back, though it met no other
    overlapped,   \* history: a rebuild under way met another one, or a correction
    outrun,       \* history: rebuilds that another one's commit overtook after they looked
    tangled       \* history: one of those committed, and no rebuild has cleared it up since

journalVars == <<managed, deployed, ledger, trades, notes, corrected,
                 work, request, rejected, overlapped, outrun, tangled>>

Rebuilders == {"pass"} \cup Calls
Ids == Entries \cup SUBSET Fills
TradeRow == [id : Ids, like : SUBSET Fills, automatic : BOOLEAN, review : BOOLEAN,
             charges : Nat]
Ledger == [Fills -> 0..Overstated \cup {NoCharge}]

JournalTypeOK ==
    /\ managed \subseteq Fills /\ deployed \in BOOLEAN
    /\ ledger \in Ledger
    /\ trades \subseteq TradeRow
    /\ notes \subseteq {t.id : t \in trades}
    /\ corrected \in 0..Cardinality(Calls)
    /\ \A r \in Rebuilders :
        /\ work[r].step \in {"idle", "listing", "walking", "marking", "reading", "looking",
                             "writing"}
        /\ work[r].todo \subseteq Fills /\ work[r].known \in Ledger /\ work[r].fills \in Ledger
    /\ request.op \in {"none", "note", "enter"}
    /\ rejected \in BOOLEAN /\ overlapped \in BOOLEAN
    /\ outrun \subseteq Rebuilders /\ tangled \in BOOLEAN

Unread == [f \in Fills |-> NoCharge]
Idle == [step |-> "idle", todo |-> {}, known |-> Unread, fills |-> Unread, seen |-> {}]
NoRequest == [op |-> "none", id |-> {}]

JournalInit ==
    /\ managed = Fills \ Late /\ deployed = FALSE
    /\ ledger = Unread
    /\ trades = {} /\ notes = {} /\ corrected = 0
    /\ work = [r \in Rebuilders |-> Idle]
    /\ request = NoRequest
    /\ rejected = FALSE /\ overlapped = FALSE /\ outrun = {} /\ tangled = FALSE

-----------------------------------------------------------------------------
\* _match_round_trips: the fills since the position was last flat, until it is
\* flat again.  A fill that would carry it through zero ends the matching.
MatchFill(m, f) ==
    LET exposure == m.exposure + Signed[f] IN
    IF m.over \/ m.exposure * exposure < 0 THEN [m EXCEPT !.over = TRUE]
    ELSE IF exposure = 0
         THEN [m EXCEPT !.exposure = 0, !.run = {}, !.trips = @ \cup {m.run \cup {f}}]
         ELSE [m EXCEPT !.exposure = exposure, !.run = @ \cup {f}]

NothingMatched == [exposure |-> 0, run |-> {}, trips |-> {}, over |-> FALSE]

RoundTrips(recorded) ==
    LET upTo[n \in 0..Len(Executed)] ==
          IF n = 0 THEN NothingMatched
          ELSE IF Executed[n] \in recorded THEN MatchFill(upTo[n - 1], Executed[n])
          ELSE upTo[n - 1]
    IN upTo[Len(Executed)].trips

Recorded(book) == {f \in Fills : book[f] # NoCharge}
ChargesOf(book, trip) ==
    LET upTo[n \in 0..Len(Executed)] ==
          IF n = 0 THEN 0
          ELSE upTo[n - 1] + (IF Executed[n] \in trip THEN book[Executed[n]] ELSE 0)
    IN upTo[Len(Executed)]

-----------------------------------------------------------------------------
(* rebuild_session's transaction, from what the rebuilder w has read. *)

StaleTrades(w) == {t \in w.seen : t.automatic /\ t.like \notin RoundTrips(Recorded(w.fills))}
Reviewed(w) == {t.id : t \in {u \in StaleTrades(w) : u.annotated}}
Dropped(w) == {t.id : t \in {u \in StaleTrades(w) : ~u.annotated}}

\* A candidate that shares a fill with an annotated trade it would change is blocked.
BrokenProtected(w) == {}
Protected(w) == UNION {t.like : t \in {u \in trades : u.id \in Reviewed(w)}}
Written(w) == {c \in RoundTrips(Recorded(w.fills)) : c \cap Protected(w) = {}}

Kept(w) == {[t EXCEPT !.review = @ \/ t.id \in Reviewed(w)] :
                t \in {u \in trades : u.id \notin Dropped(w)}}

\* The row a candidate is written to: the manual entry it resembles, or its own.
ManualMatches(w, c) == {t \in w.seen : ~t.automatic /\ t.like = c}
RowId(w, c) == IF ManualMatches(w, c) = {} THEN c
               ELSE (CHOOSE t \in ManualMatches(w, c) : TRUE).id

\* Without foreign keys, a note saved meanwhile stops nothing.
BrokenKeysHold(w) ==
    \A c \in Written(w), t \in Kept(w) : t.automatic /\ t.like = c => t.id = RowId(w, c)

\* No note, fingerprint or fill link may be left without its row.
KeysHold(w) ==
    /\ Dropped(w) \cap notes = {}
    /\ \A c \in Written(w) :
        /\ c \subseteq Recorded(ledger)
        /\ \A t \in Kept(w) : t.automatic /\ t.like = c => t.id = RowId(w, c)
        /\ RowId(w, c) \in Entries => \E t \in Kept(w) : t.id = RowId(w, c)

\* Without the conflict clause's update.
BrokenWrittenRow(w, c) ==
    [id |-> RowId(w, c), like |-> c, automatic |-> TRUE,
     review |-> \E t \in Kept(w) : t.id = RowId(w, c) /\ t.review,
     charges |-> IF \E t \in Kept(w) : t.id = c THEN (CHOOSE t \in Kept(w) : t.id = c).charges
                 ELSE ChargesOf(w.fills, c)]

WrittenRow(w, c) ==
    [id |-> RowId(w, c), like |-> c, automatic |-> TRUE,
     review |-> \E t \in Kept(w) : t.id = RowId(w, c) /\ t.review,
     charges |-> ChargesOf(w.fills, c)]

Rebuilt(w) ==
    {t \in Kept(w) : \A c \in Written(w) : t.id # RowId(w, c)}
        \cup {WrittenRow(w, c) : c \in Written(w)}

Rebuilding(r) == work[r].step \in {"reading", "looking", "writing"}

\* History: while a rebuild is under way, whether another, or a correction, was beside it.
NoteOverlap ==
    overlapped' = \E r \in Rebuilders :
        /\ Rebuilding(r)'
        /\ overlapped \/ \E q \in Rebuilders \ {r} :
                            Rebuilding(q)' \/ work'[q].step = "marking"

\* History: r commits.  What others looked at is no longer so; if that happened to r,
\* two trades may share a fill, until a rebuild that nothing overtook finds no note on
\* what it has to delete.
NoteCommit(r) ==
    /\ outrun' = (outrun \cup {q \in Rebuilders : work[q].step = "writing"}) \ {r}
    /\ tangled' = (r \in outrun \/ (tangled /\ Reviewed(work[r]) # {}))

\* fills_for_session, on a connection of its own.
ReadFills(r) ==
    /\ work[r].step = "reading"
    /\ work' = [work EXCEPT ![r].step = "looking", ![r].fills = ledger]
    /\ UNCHANGED <<managed, deployed, ledger, trades, notes, corrected, request,
                   rejected, outrun, tangled>>

\* The reads that precede the first write, outside any transaction.
LookAtTrades(r) ==
    /\ work[r].step = "looking"
    /\ work' = [work EXCEPT ![r].step = "writing",
                            ![r].seen = {[id |-> t.id, like |-> t.like, automatic |-> t.automatic,
                                          annotated |-> t.id \in notes] : t \in trades}]
    /\ UNCHANGED <<managed, deployed, ledger, trades, notes, corrected, request,
                   rejected, outrun, tangled>>

\* The transaction: all of it, or none when a key would break.
WriteTrades(r) ==
    /\ work[r].step = "writing"
    /\ IF KeysHold(work[r]) THEN trades' = Rebuilt(work[r]) /\ NoteCommit(r)
       ELSE outrun' = outrun \ {r} /\ UNCHANGED <<trades, tangled>>
    /\ rejected' = IF r = "pass" THEN ~KeysHold(work[r]) /\ ~overlapped ELSE rejected
    /\ work' = [work EXCEPT ![r] = Idle]
    /\ UNCHANGED <<managed, deployed, ledger, notes, corrected, request>>

-----------------------------------------------------------------------------
(* A reconciliation pass. *)

\* reconcile, once the lock is its own; the broker's list is awaited.
StartPass ==
    /\ work["pass"].step = "idle"
    /\ work' = [work EXCEPT !["pass"].step = "listing"]
    /\ UNCHANGED <<managed, deployed, ledger, trades, notes, corrected, request,
                   rejected, outrun, tangled>>

\* The list arrives, or the request fails and so does the pass.
ListReply(ok) ==
    /\ work["pass"].step = "listing"
    /\ work' = [work EXCEPT !["pass"] =
                  IF ok THEN [@ EXCEPT !.step = "walking", !.todo = Fills, !.known = ledger]
                        ELSE Idle]
    /\ UNCHANGED <<managed, deployed, ledger, trades, notes, corrected, request,
                   rejected, outrun, tangled>>

\* The first fill that is still to be walked.
NextFill(todo) == Executed[CHOOSE i \in DOMAIN Executed :
                     Executed[i] \in todo /\ \A j \in 1..(i - 1) : Executed[j] \notin todo]


\* What is stored for a fill: the charge looked up, or the one known before.
StoredCharge(f, ok) ==
    IF ok THEN IF deployed THEN Accurate ELSE Overstated
    ELSE IF work["pass"].known[f] = NoCharge THEN 0 ELSE work["pass"].known[f]

\* One fill: skipped while its order has no role, else upserted after the lookup.
WalkFill(ok) ==
    /\ work["pass"].step = "walking"
    /\ LET f == NextFill(work["pass"].todo)
           rest == work["pass"].todo \ {f}
       IN /\ ok \/ f \in Flaky
          /\ ledger' = IF f \in managed
                       THEN [ledger EXCEPT ![f] = StoredCharge(f, ok)] ELSE ledger
          /\ work' = [work EXCEPT !["pass"] = IF rest = {} THEN [Idle EXCEPT !.step = "reading"]
                                              ELSE [@ EXCEPT !.todo = rest]]
    /\ UNCHANGED <<managed, deployed, trades, notes, corrected, request, rejected,
                   outrun, tangled>>

-----------------------------------------------------------------------------
(* The routes. *)

\* backfill_flat_brokerage_correction: the flag is looked up first ...
CheckCorrection(c) ==
    /\ deployed /\ work[c].step = "idle" /\ corrected = 0
    /\ work' = [work EXCEPT ![c].step = "marking"]
    /\ UNCHANGED <<managed, deployed, ledger, trades, notes, corrected, request,
                   rejected, outrun, tangled>>

\* ... and its key lets one call through: the other's subtraction is rolled back.
FlagIsFree == corrected = 0

CorrectedLedger ==
    [f \in Fills |-> IF ledger[f] # NoCharge /\ ledger[f] >= Correctable
                     THEN ledger[f] - Correction ELSE ledger[f]]

CommitCorrection(c) ==
    /\ work[c].step = "marking"
    /\ IF FlagIsFree
       THEN /\ ledger' = CorrectedLedger
            /\ corrected' = corrected + 1
            /\ work' = [work EXCEPT ![c].step = IF Recorded(ledger) = {} THEN "idle" ELSE "reading"]
       ELSE /\ work' = [work EXCEPT ![c] = Idle]
            /\ UNCHANGED <<ledger, corrected>>
    /\ UNCHANGED <<managed, deployed, trades, notes, request, rejected, outrun, tangled>>

\* save_notes: the trade is looked up, then the note is inserted if its row is there.
AskNote(t) ==
    /\ request.op = "none" /\ t \in trades /\ t.id \notin notes
    /\ request' = [op |-> "note", id |-> t.id]
    /\ UNCHANGED <<managed, deployed, ledger, trades, notes, corrected, work, rejected,
                   outrun, tangled>>

SaveNote ==
    /\ request.op = "note"
    /\ notes' = notes \cup ({request.id} \cap {t.id : t \in trades})
    /\ request' = NoRequest
    /\ UNCHANGED <<managed, deployed, ledger, trades, corrected, work, rejected, outrun,
                   tangled>>

\* create_manual_trade: refused when an equivalent trade is there.
AskEntry(m) ==
    /\ request.op = "none" /\ \A t \in trades : t.id # m /\ t.like # Resembles[m]
    /\ request' = [op |-> "enter", id |-> m]
    /\ UNCHANGED <<managed, deployed, ledger, trades, notes, corrected, work, rejected,
                   outrun, tangled>>

SaveEntry ==
    /\ request.op = "enter"
    /\ trades' = trades \cup {[id |-> request.id, like |-> Resembles[request.id],
                               automatic |-> FALSE, review |-> FALSE, charges |-> 0]}
    /\ request' = NoRequest
    /\ UNCHANGED <<managed, deployed, ledger, notes, corrected, work, rejected, outrun,
                   tangled>>

\* POST /ledger/admin/reset runs on the event loop, so not during a pass's rebuild.
ResetAll ==
    /\ work["pass"].step \in {"idle", "listing", "walking"}
    /\ trades # {}
    /\ ledger' = Unread /\ trades' = {} /\ notes' = {} /\ tangled' = FALSE
    /\ UNCHANGED <<managed, deployed, corrected, work, request, rejected, outrun>>

-----------------------------------------------------------------------------
\* The broker lists a fill and its order's row has its role, in either order: until
\* both, a pass skips it.
Manage(f) ==
    /\ f \notin managed
    /\ managed' = managed \cup {f}
    /\ UNCHANGED <<deployed, ledger, trades, notes, corrected, work, request, rejected,
                   outrun, tangled>>

\* A restart, with the same build or the one that has the fix.
RestartJournal ==
    /\ deployed' \in {deployed, TRUE}
    /\ work' = [r \in Rebuilders |-> Idle]
    /\ request' = NoRequest
    /\ rejected' = FALSE /\ outrun' = {}
    /\ UNCHANGED <<managed, ledger, trades, notes, corrected, tangled>>

JournalStep ==
    \/ \E r \in Rebuilders : ReadFills(r) \/ LookAtTrades(r) \/ WriteTrades(r)
    \/ StartPass
    \/ \E ok \in BOOLEAN : ListReply(ok) \/ WalkFill(ok)
    \/ \E c \in Calls : CheckCorrection(c) \/ CommitCorrection(c)
    \/ \E t \in trades : AskNote(t)
    \/ SaveNote
    \/ \E m \in Entries : AskEntry(m)
    \/ SaveEntry
    \/ ResetAll
    \/ \E f \in Fills : Manage(f)
    \/ RestartJournal

JournalNext == JournalStep /\ NoteOverlap
JournalSpec == JournalInit /\ [][JournalNext]_journalVars

-----------------------------------------------------------------------------
\* Late fills, notes and manual entries never make one execution count towards two
\* trades (journal_store.py:415-552).  Only a rebuild that another one overtook, the
\* correction's and a pass's, can do that, and the next rebuild undoes it, unless it
\* may not delete an annotated trade (journal_store.py:378-386, 430-474).
NoFillCountsTwice ==
    ~tangled => \A t, u \in trades :
                    t.automatic /\ u.automatic /\ t # u => t.like \cap u.like = {}

\* What is on file survives a pass.  A note, and the trade it is about, go only with
\* a reset: a rebuild that would delete the trade under a note saved meanwhile is
\* rolled back (journal_store.py:445-518, 613-640).  A charge is never zeroed because
\* a later lookup failed (journal_reconciler.py:60-90).
OnFileStays ==
    [][/\ trades' = {} \/ \A t \in trades : t.id \in notes =>
            t.id \in notes' /\ \E u \in trades' : u.id = t.id /\ u.like = t.like
       /\ \A f \in Fills : ledger[f] \in 1..Overstated /\ ledger'[f] = 0 =>
            \E c \in Calls : work[c].step = "marking"]_journalVars

\* After a pass, the closed trades are the round trips of the ledger with their
\* charges, and a round trip without a trade shares fills with one under review
\* (journal_store.py:415-552), unless a correction or another rebuild overlapped, or
\* two had before and it is still to be cleared up.
PassMatchesLedger ==
    [][LET trips == RoundTrips(Recorded(ledger)) IN
       WriteTrades("pass") /\ ~overlapped /\ ~tangled' /\ KeysHold(work["pass"]) =>
        /\ \A t \in trades' : t.automatic /\ ~t.review =>
            t.like \in trips /\ t.charges = ChargesOf(ledger, t.like)
        /\ \A c \in trips : \E t \in trades' : t.automatic /\ t.like \cap c # {}]_journalVars

\* The blind correction is applied once, whatever the calls and restarts
\* (journal_store.py:337-386).
CorrectedAtMostOnce == corrected <= 1

\* No execution and no correction takes effect twice (the two above).
NothingCountsTwice == NoFillCountsTwice /\ CorrectedAtMostOnce

\* journal_reconciler.py:21 calls a pass an "idempotent current-day fill
\* reconciliation": repeating it is never rolled back.
PassIsIdempotent == ~rejected
=============================================================================
