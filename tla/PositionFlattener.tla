------------------------- MODULE PositionFlattener -------------------------
(***************************************************************************)
(* The "exit all" of the phone: flatten_positions reads the broker's       *)
(* positions, sends an opposite market order for each, sliced by freeze    *)
(* quantity, and tries the instruments that failed again on refreshed      *)
(* positions.  Nothing keeps two calls apart, an order may fill long after *)
(* its reply or lose its reply, and one instrument may have a position per *)
(* product while the results are kept per instrument.                      *)
(***************************************************************************)
EXTENDS Integers

CONSTANTS
    Rows,        \* positions, one per instrument and product
    KeyOf,       \* instrument of each position
    Held,        \* their signed quantities when the first call comes
    FlatCalls,   \* calls of flatten_positions that may overlap
    Freeze,      \* freeze quantity of the instruments the master has
    Listed,      \* instruments the master has
    MaxCalls     \* bound on calls

MaxPasses == 3
Instruments == {KeyOf[r] : r \in Rows}

ASSUME RowsAssumption == Held \in [Rows -> Int]
ASSUME FreezeAssumption == Freeze \in Nat
ASSUME CallsAssumption == MaxCalls \in Nat

VARIABLES
    net,       \* the broker's signed net quantity of each position
    resting,   \* signed quantity of the exits sent and not filled
    call,      \* the calls and their locals
    calls,     \* counter of the bound
    unsettled  \* history: a call used a quantity that orders were about to change

flatVars == <<net, resting, call, calls, unsettled>>

Abs(n) == IF n < 0 THEN -n ELSE n

\* A call knows the quantity it has read of each position it is still to exit,
\* and what it has still to send of the one it is at.
NoRows == [r \in Rows |-> 0]
NoCall == [pc |-> "idle", attempt |-> 0, todo |-> NoRows, left |-> NoRows,
           failed |-> {}, result |-> [k \in Instruments |-> "none"], keys |-> {}]

FlatTypeOK ==
    /\ net \in [Rows -> Int] /\ resting \in [Rows -> Int]
    /\ call \in [FlatCalls ->
                   [pc : {"idle", "positions", "rules", "chunk", "refresh", "done"},
                    attempt : 0..MaxPasses, todo : [Rows -> Int], left : [Rows -> Nat],
                    failed : SUBSET Instruments, result : [Instruments -> {"none", "success", "error"}],
                    keys : SUBSET Instruments]]
    /\ calls \in 0..MaxCalls
    /\ unsettled \in [Rows -> BOOLEAN]

FlatInit ==
    /\ net = Held
    /\ resting = [r \in Rows |-> 0]
    /\ call = [c \in FlatCalls |-> NoCall]
    /\ calls = 0
    /\ unsettled = [r \in Rows |-> FALSE]

-----------------------------------------------------------------------------
BrokenStillToSend(left, slice) == IF left < 2 * slice THEN 0 ELSE left - slice
\* _split_quantity: as many full slices as fit, then the remainder.
NextChunk(left, slice) == IF slice < left THEN slice ELSE left
StillToSend(left, slice) == left - NextChunk(left, slice)

\* The exchange's freeze quantity, at least 1, or the whole when the master
\* does not have the instrument.
SliceOf(key, qty) ==
    LET freeze == IF Freeze < 1 THEN 1 ELSE Freeze
    IN IF key \in Listed /\ freeze < qty THEN freeze ELSE qty

\* The open positions of these instruments; the broker lists them in any order.
OpenIn(keys) == {r \in Rows : net[r] # 0 /\ KeyOf[r] \in keys}

\* The quantities just read are stale where an order is about to change them.
Unsettle(todo) ==
    unsettled' = [r \in Rows |-> unsettled[r] \/ (todo[r] # 0 /\ resting[r] # 0)]

\* A position some call has read and is still to exit.
InHand(c, r) == call[c].todo[r] # 0

Step(c, rec) == call' = [call EXCEPT ![c] = rec]

Exit(c, keys) ==
    /\ call[c].pc = "idle" /\ calls < MaxCalls
    /\ calls' = calls + 1
    /\ Step(c, [NoCall EXCEPT !.pc = "positions", !.keys = keys])
    /\ UNCHANGED <<net, resting, unsettled>>

\* One failing position does not stop the others; the next one, or the end of the pass.
NextRow(rec, r) ==
    LET rest == [rec.todo EXCEPT ![r] = 0]
    IN [rec EXCEPT !.todo = rest, !.left = NoRows,
                   !.pc = IF rest # NoRows THEN "rules"
                          ELSE IF rec.failed = {} \/ rec.attempt = MaxPasses THEN "done"
                          ELSE "refresh"]

Attempt(rec, todo) ==
    IF todo = NoRows THEN [rec EXCEPT !.pc = "done"]
    ELSE [rec EXCEPT !.pc = "rules", !.attempt = @ + 1, !.todo = todo, !.failed = {}]

PositionsArrive(c) ==
    /\ call[c].pc = "positions"
    /\ LET todo == [r \in Rows |-> IF r \in OpenIn(call[c].keys) THEN net[r] ELSE 0]
       IN Step(c, Attempt(call[c], todo)) /\ Unsettle(todo)
    /\ UNCHANGED <<net, resting, calls>>

RulesArrive(c, r) ==
    /\ call[c].pc = "rules" /\ InHand(c, r)
    /\ Step(c, [call[c] EXCEPT !.pc = "chunk", !.left = [NoRows EXCEPT ![r] = Abs(call[c].todo[r])]])
    /\ UNCHANGED <<net, resting, calls, unsettled>>

Slice(c, r) == SliceOf(KeyOf[r], Abs(call[c].todo[r]))
Direction(qty) == IF qty > 0 THEN -1 ELSE 1

Sent(c, r) ==
    /\ resting' = [resting EXCEPT ![r] = @ + Direction(call[c].todo[r])
                                              * NextChunk(call[c].left[r], Slice(c, r))]
    /\ unsettled' = [unsettled EXCEPT ![r] = @ \/ \E d \in FlatCalls \ {c} : InHand(d, r)]

Record(c, r, outcome) ==
    [call[c] EXCEPT !.result[KeyOf[r]] = outcome,
                    !.failed = IF outcome = "error" THEN @ \cup {KeyOf[r]} ELSE @]

ChunkAccepted(c, r) ==
    /\ call[c].pc = "chunk" /\ call[c].left[r] > 0
    /\ Sent(c, r)
    /\ LET left == StillToSend(call[c].left[r], Slice(c, r))
       IN Step(c, IF left > 0 THEN [call[c] EXCEPT !.left[r] = left]
                  ELSE NextRow(Record(c, r, "success"), r))
    /\ UNCHANGED <<net, calls>>

\* An error reply; the order may have reached the broker all the same.
ChunkFails(c, r) ==
    /\ call[c].pc = "chunk" /\ call[c].left[r] > 0
    /\ \/ Sent(c, r)
       \/ UNCHANGED <<resting, unsettled>>
    /\ Step(c, NextRow(Record(c, r, "error"), r))
    /\ UNCHANGED <<net, calls>>

\* What is not an UpstoxApiError, a time-out for one, leaves flatten_positions.
Raises(c) ==
    /\ call[c].pc \in {"positions", "rules", "chunk", "refresh"}
    /\ Step(c, NoCall)
    /\ UNCHANGED <<net, resting, calls, unsettled>>

\* A failed instrument the broker now reports flat has been exited after all.
Succeeded(rec) == [rec EXCEPT !.result =
    [k \in Instruments |-> IF k \in rec.failed /\ OpenIn({k}) = {} THEN "success" ELSE @[k]]]

\* Refreshed positions are kept by instrument: the row listed last replaces the others.
OnePerKey(rows, kept) ==
    /\ kept \subseteq rows
    /\ \A r \in rows : \E q \in kept : KeyOf[q] = KeyOf[r]
    /\ \A q, r \in kept : KeyOf[q] = KeyOf[r] => q = r

\* The failed instruments that are still open, with what is open of them now.
BrokenRetried(kept) == [r \in Rows |-> IF r \in kept THEN Held[r] ELSE 0]
Retried(kept) == [r \in Rows |-> IF r \in kept THEN net[r] ELSE 0]

Refresh(c) ==
    /\ call[c].pc = "refresh"
    /\ \E kept \in SUBSET OpenIn(call[c].failed) :
        /\ OnePerKey(OpenIn(call[c].failed), kept)
        /\ Step(c, Attempt(Succeeded(call[c]), Retried(kept)))
        /\ Unsettle(Retried(kept))
    /\ UNCHANGED <<net, resting, calls>>

RefreshFails(c) ==
    /\ call[c].pc = "refresh"
    /\ Step(c, [call[c] EXCEPT !.pc = "done"])
    /\ UNCHANGED <<net, resting, calls, unsettled>>

Respond(c) ==
    /\ call[c].pc = "done"
    /\ Step(c, NoCall)
    /\ UNCHANGED <<net, resting, calls, unsettled>>

\* The broker fills what rests for a position, in one go.
ExitFills(r) ==
    /\ resting[r] # 0
    /\ net' = [net EXCEPT ![r] = @ + resting[r]]
    /\ resting' = [resting EXCEPT ![r] = 0]
    /\ UNCHANGED <<call, calls, unsettled>>

FlatNext ==
    \/ \E c \in FlatCalls, keys \in (SUBSET Instruments) \ {{}} : Exit(c, keys)
    \/ \E c \in FlatCalls : \/ PositionsArrive(c) \/ Raises(c) \/ Refresh(c)
                            \/ RefreshFails(c) \/ Respond(c)
    \/ \E c \in FlatCalls, r \in Rows : RulesArrive(c, r) \/ ChunkAccepted(c, r) \/ ChunkFails(c, r)
    \/ \E r \in Rows : ExitFills(r)

FlatSpec == FlatInit /\ [][FlatNext]_flatVars

-----------------------------------------------------------------------------
(* Properties.                                                             *)

OnlyRowOfKey(r) == \A q \in Rows \ {r} : KeyOf[q] # KeyOf[r]

\* "Resubmitting the original quantity could reverse the position instead of
\* flattening it": a position changes sign only if a quantity was read while
\* an exit of it still rested, or two calls were at it (flatten_positions).
ReversedOnlyWhenUnsettled ==
    \A r \in Rows : (Held[r] * (net[r] + resting[r]) < 0) => unsettled[r]

\* When a call ends, an instrument it reports as a success has nothing left
\* that no exit covers, if the instrument has one position and every
\* quantity the calls went by was settled.
SuccessLeavesNothingOpen ==
    \A c \in FlatCalls, r \in Rows :
        (/\ call[c].pc = "done" /\ call[c].result[KeyOf[r]] = "success"
         /\ OnlyRowOfKey(r) /\ ~unsettled[r])
        => Held[r] * (net[r] + resting[r]) <= 0
=============================================================================
