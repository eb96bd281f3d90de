------------------------------ MODULE GuardProofs ------------------------------
(* What guards the open positions, proved for every value of the           *)
(* constants: the exit-all of PositionFlattener (any positions,            *)
(* instruments, overlapping calls and freeze quantities), the max-loss     *)
(* watcher (any lots, prices, overlapping checks and bounds), and the      *)
(* three guards side by side, with the feed of MarketFeedProofs.           *)
EXTENDS MCGuards, MarketFeedProofs, SequenceTheorems

-----------------------------------------------------------------------------
(* One call's locals.                                                      *)

CallRecord ==
    [pc : {"idle", "positions", "rules", "chunk", "refresh", "done"},
     attempt : 0..MaxPasses, todo : [Rows -> Int], left : [Rows -> Nat],
     failed : SUBSET Instruments, result : [Instruments -> {"none", "success", "error"}],
     keys : SUBSET Instruments]

\* Between passes a call has nothing to do, it sends one position's exits at a
\* time, and a refresh always leaves it a pass.
CallOK(rec) ==
    /\ rec \in CallRecord
    /\ rec.pc \in {"positions", "refresh"} => rec.attempt < MaxPasses
    /\ rec.pc \notin {"rules", "chunk"} => rec.todo = NoRows
    /\ rec.pc # "chunk" => rec.left = NoRows
    /\ \A q, r \in Rows : rec.left[q] > 0 /\ rec.left[r] > 0 => q = r
    /\ \A r \in Rows : rec.left[r] > 0 => rec.todo[r] # 0

LEMMA NoCallOK == CallOK(NoCall)
  BY DEF CallOK, CallRecord, NoCall, NoRows, MaxPasses

LEMMA AttemptOK ==
    ASSUME NEW rec, CallOK(rec), rec.pc \in {"positions", "refresh"}, NEW todo \in [Rows -> Int]
    PROVE  /\ CallOK(Attempt(rec, todo))
           /\ Attempt(rec, todo).todo = todo /\ Attempt(rec, todo).left = NoRows
           /\ Attempt(rec, todo).result = rec.result
<1>1. /\ rec \in CallRecord /\ rec.todo = NoRows /\ rec.left = NoRows
      /\ rec.attempt + 1 \in 0..MaxPasses
  BY DEF CallOK, CallRecord, MaxPasses
<1>2. \A r \in Rows : NoRows[r] = 0
  BY DEF NoRows
<1>3. CASE todo = NoRows
  <2> DEFINE next == [rec EXCEPT !.pc = "done"]
  <2>1. /\ next \in CallRecord /\ next.pc = "done" /\ next.todo = NoRows /\ next.left = NoRows
        /\ next.result = rec.result
    BY <1>1 DEF CallRecord
  <2>2. Attempt(rec, todo) = next
    BY <1>3 DEF Attempt
  <2> HIDE DEF next
  <2> QED BY <1>2, <1>3, <2>1, <2>2 DEF CallOK
<1>4. CASE todo # NoRows
  <2> DEFINE next == [rec EXCEPT !.pc = "rules", !.attempt = @ + 1, !.todo = todo, !.failed = {}]
  <2>1. /\ next \in CallRecord /\ next.pc = "rules" /\ next.todo = todo /\ next.left = NoRows
        /\ next.result = rec.result
    BY <1>1 DEF CallRecord
  <2>2. Attempt(rec, todo) = next
    BY <1>4 DEF Attempt
  <2> HIDE DEF next
  <2> QED BY <1>2, <2>1, <2>2 DEF CallOK
<1> QED BY <1>3, <1>4

LEMMA NextRowOK ==
    ASSUME NEW rec \in CallRecord, NEW r \in Rows
    PROVE  /\ CallOK(NextRow(rec, r))
           /\ NextRow(rec, r).todo = [rec.todo EXCEPT ![r] = 0]
           /\ NextRow(rec, r).left = NoRows
           /\ NextRow(rec, r).result = rec.result
<1> DEFINE rest == [rec.todo EXCEPT ![r] = 0]
           pc == IF rest # NoRows THEN "rules"
                 ELSE IF rec.failed = {} \/ rec.attempt = MaxPasses THEN "done" ELSE "refresh"
           next == [rec EXCEPT !.todo = rest, !.left = NoRows, !.pc = pc]
<1>1. NextRow(rec, r) = next
  BY DEF NextRow
<1>2. rest \in [Rows -> Int] /\ NoRows \in [Rows -> Nat]
  BY DEF CallRecord, NoRows
<1>3. /\ pc \in {"rules", "done", "refresh"}
      /\ pc # "rules" => rest = NoRows
      /\ pc = "refresh" => rec.attempt < MaxPasses
  BY DEF CallRecord, MaxPasses
<1>4. \A q \in Rows : NoRows[q] = 0
  BY DEF NoRows
<1> HIDE DEF rest, pc
<1>5. /\ next \in CallRecord /\ next.pc = pc /\ next.todo = rest /\ next.left = NoRows
      /\ next.result = rec.result /\ next.attempt = rec.attempt
  BY <1>2, <1>3 DEF CallRecord
<1> HIDE DEF next
<1> QED BY <1>1, <1>3, <1>4, <1>5 DEF CallOK, rest

LEMMA RecordOK ==
    ASSUME NEW c \in FlatCalls, call[c] \in CallRecord, NEW r \in Rows,
           NEW outcome \in {"success", "error"}
    PROVE  /\ Record(c, r, outcome) \in CallRecord
           /\ Record(c, r, outcome).todo = call[c].todo
           /\ \A k \in Instruments : Record(c, r, outcome).result[k] =
                 IF k = KeyOf[r] THEN outcome ELSE call[c].result[k]
<1> DEFINE key == KeyOf[r]
           result == [call[c].result EXCEPT ![key] = outcome]
           failed == IF outcome = "error" THEN call[c].failed \cup {key} ELSE call[c].failed
           next == [call[c] EXCEPT !.result = result, !.failed = failed]
<1>1. key \in Instruments
  BY DEF Instruments
<1>2. /\ result \in [Instruments -> {"none", "success", "error"}]
      /\ failed \in SUBSET Instruments
      /\ \A k \in Instruments : result[k] = IF k = key THEN outcome ELSE call[c].result[k]
  BY <1>1 DEF CallRecord
<1>3. Record(c, r, outcome) = next
  BY DEF Record
<1> HIDE DEF result, failed, key
<1>4. next \in CallRecord /\ next.todo = call[c].todo /\ next.result = result
  BY <1>2 DEF CallRecord
<1> QED BY <1>2, <1>3, <1>4 DEF key

LEMMA SucceededOK ==
    ASSUME NEW rec, CallOK(rec)
    PROVE  /\ CallOK(Succeeded(rec)) /\ Succeeded(rec).pc = rec.pc
           /\ \A k \in Instruments : Succeeded(rec).result[k] =
                 IF k \in rec.failed /\ OpenIn({k}) = {} THEN "success" ELSE rec.result[k]
<1> DEFINE result == [k \in Instruments |->
                        IF k \in rec.failed /\ OpenIn({k}) = {} THEN "success" ELSE rec.result[k]]
           next == [rec EXCEPT !.result = result]
<1>1. Succeeded(rec) = next
  BY DEF Succeeded
<1>2. /\ result \in [Instruments -> {"none", "success", "error"}]
      /\ \A k \in Instruments : result[k] =
            IF k \in rec.failed /\ OpenIn({k}) = {} THEN "success" ELSE rec.result[k]
  BY DEF CallOK, CallRecord
<1> HIDE DEF result
<1>3. /\ next \in CallRecord /\ next.pc = rec.pc /\ next.todo = rec.todo /\ next.left = rec.left
      /\ next.attempt = rec.attempt /\ next.result = result
  BY <1>2 DEF CallOK, CallRecord
<1> HIDE DEF next
<1>4. CallOK(next)
  BY <1>3 DEF CallOK
<1> QED BY <1>1, <1>2, <1>3, <1>4

-----------------------------------------------------------------------------
(* The invariant of the exits.                                             *)

FlatShapes ==
    /\ net \in [Rows -> Int] /\ resting \in [Rows -> Int]
    /\ unsettled \in [Rows -> BOOLEAN]
    /\ calls \in 0..MaxCalls
    /\ call \in [FlatCalls -> CallRecord]
    /\ \A c \in FlatCalls : CallOK(call[c])

\* What the position comes to when the exits sent have filled.
Exposure(r) == net[r] + resting[r]

\* What a call has in mind to exit of a position, signed.
StillOpen(rec, r) ==
    IF rec.left[r] = 0 THEN rec.todo[r]
    ELSE IF rec.todo[r] > 0 THEN rec.left[r] ELSE -rec.left[r]

\* A call that is going to exit a position knows what is open of it.
ReadIsOpen ==
    \A r \in Rows : ~unsettled[r] =>
        \A c \in FlatCalls : InHand(c, r) => Exposure(r) = StillOpen(call[c], r)

\* Exits only make a position smaller, and none takes it past zero.
SignKept ==
    \A r \in Rows : ~unsettled[r] =>
        /\ Held[r] > 0 => Exposure(r) >= 0 /\ resting[r] <= 0
        /\ Held[r] < 0 => Exposure(r) <= 0 /\ resting[r] >= 0
        /\ Held[r] = 0 => Exposure(r) = 0 /\ resting[r] = 0

SuccessIsFlat ==
    \A r \in Rows : (~unsettled[r] /\ OnlyRowOfKey(r)) =>
        \A c \in FlatCalls : call[c].result[KeyOf[r]] = "success" => Exposure(r) = 0

FlatInv == FlatShapes /\ ReadIsOpen /\ SignKept /\ SuccessIsFlat

LEMMA FlatInitInv == FlatInit => FlatInv
<1> SUFFICES ASSUME FlatInit PROVE FlatInv OBVIOUS
<1>1. FlatShapes
  BY NoCallOK, RowsAssumption, CallsAssumption DEF FlatInit, FlatShapes, CallOK
<1>2. \A c \in FlatCalls, r \in Rows :
         call[c].todo[r] = 0 /\ call[c].result[KeyOf[r]] = "none"
  BY DEF FlatInit, NoCall, NoRows, Instruments
<1>3. ReadIsOpen /\ SuccessIsFlat
  BY <1>2 DEF ReadIsOpen, InHand, SuccessIsFlat
<1>4. SignKept
  BY RowsAssumption DEF FlatInit, SignKept, Exposure
<1> QED BY <1>1, <1>3, <1>4 DEF FlatInv

\* A step that sends nothing: fills leave the exposure, and what a call comes
\* to have in hand, or reports, is what it knew or what is open.
KnowsOrReads(c, r) ==
    /\ call'[c].todo[r] # 0 =>
          \/ Exposure(r) = StillOpen(call'[c], r)
          \/ call[c].todo[r] # 0 /\ StillOpen(call'[c], r) = StillOpen(call[c], r)
    /\ OnlyRowOfKey(r) /\ call'[c].result[KeyOf[r]] = "success" =>
          call[c].result[KeyOf[r]] = "success" \/ Exposure(r) = 0

LEMMA NothingSent ==
    ASSUME FlatInv, FlatShapes',
           \A r \in Rows : ~unsettled'[r] =>
               /\ ~unsettled[r]
               /\ net'[r] + resting'[r] = Exposure(r)
               /\ resting'[r] \in {resting[r], 0}
               /\ \A c \in FlatCalls : KnowsOrReads(c, r)
    PROVE  FlatInv'
<1>1. ReadIsOpen'
  <2> SUFFICES ASSUME NEW r \in Rows, ~unsettled'[r], NEW c \in FlatCalls, call'[c].todo[r] # 0
               PROVE  net'[r] + resting'[r] = StillOpen(call'[c], r)
    BY DEF ReadIsOpen, InHand, Exposure, StillOpen
  <2>1. KnowsOrReads(c, r) /\ net'[r] + resting'[r] = Exposure(r) /\ ~unsettled[r]
    OBVIOUS
  <2> QED BY <2>1 DEF KnowsOrReads, FlatInv, ReadIsOpen, InHand
<1>2. SignKept'
  <2> SUFFICES ASSUME NEW r \in Rows, ~unsettled'[r]
               PROVE  /\ Held[r] > 0 => Exposure(r)' >= 0 /\ resting'[r] <= 0
                      /\ Held[r] < 0 => Exposure(r)' <= 0 /\ resting'[r] >= 0
                      /\ Held[r] = 0 => Exposure(r)' = 0 /\ resting'[r] = 0
    BY DEF SignKept
  <2>1. /\ ~unsettled[r] /\ Exposure(r)' = Exposure(r) /\ resting'[r] \in {resting[r], 0}
    BY DEF Exposure
  <2> QED BY <2>1, RowsAssumption DEF FlatInv, SignKept
<1>3. SuccessIsFlat'
  <2> SUFFICES ASSUME NEW r \in Rows, ~unsettled'[r], OnlyRowOfKey(r), NEW c \in FlatCalls,
                      call'[c].result[KeyOf[r]] = "success"
               PROVE  Exposure(r)' = 0
    BY DEF SuccessIsFlat, OnlyRowOfKey
  <2>1. KnowsOrReads(c, r) /\ Exposure(r)' = Exposure(r) /\ ~unsettled[r]
    BY DEF Exposure
  <2> QED BY <2>1 DEF KnowsOrReads, FlatInv, SuccessIsFlat
<1> QED BY <1>1, <1>2, <1>3 DEF FlatInv

\* The next order of a position is at least 1 and at most what is left of it.
LEMMA ChunkOfLeft ==
    ASSUME FlatShapes, NEW c \in FlatCalls, NEW r \in Rows, call[c].left[r] > 0
    PROVE  /\ NextChunk(call[c].left[r], Slice(c, r)) \in 1..call[c].left[r]
           /\ StillToSend(call[c].left[r], Slice(c, r)) =
                 call[c].left[r] - NextChunk(call[c].left[r], Slice(c, r))
<1>1. /\ call[c].left[r] \in Nat /\ call[c].todo[r] \in Int /\ call[c].todo[r] # 0
  BY DEF FlatShapes, CallRecord, CallOK
<1>2. Slice(c, r) \in Nat \ {0}
  BY <1>1, FreezeAssumption DEF Slice, SliceOf, Abs
<1> QED BY <1>1, <1>2 DEF NextChunk, StillToSend

\* A chunk reaches the broker: the call has the rest of the position in hand,
\* or has gone to the next one and reports a success only when nothing is left.
Continues(c, r, rest) ==
    \/ /\ rest > 0
       /\ call'[c].todo = call[c].todo
       /\ call'[c].left = [call[c].left EXCEPT ![r] = rest]
       /\ call'[c].result = call[c].result
    \/ /\ call'[c].todo = [call[c].todo EXCEPT ![r] = 0]
       /\ call'[c].left = NoRows
       /\ call'[c].result[KeyOf[r]] = "success" => rest = 0
       /\ \A k \in Instruments \ {KeyOf[r]} : call'[c].result[k] = call[c].result[k]

LEMMA ChunkSent ==
    ASSUME FlatInv, FlatShapes', NEW c \in FlatCalls, NEW r \in Rows, call[c].left[r] > 0,
           net' = net, Sent(c, r), \A d \in FlatCalls \ {c} : call'[d] = call[d],
           Continues(c, r, StillToSend(call[c].left[r], Slice(c, r)))
    PROVE  FlatInv'
<1> DEFINE left == call[c].left[r]
           chunk == NextChunk(left, Slice(c, r))
           rest == StillToSend(left, Slice(c, r))
           qty == call[c].todo[r]
<1>1. left \in Nat /\ left > 0 /\ chunk \in 1..left /\ rest = left - chunk
  BY ChunkOfLeft DEF FlatInv, FlatShapes, CallRecord
<1>2. /\ qty \in Int /\ qty # 0
      /\ \A q \in Rows : q # r => call[c].left[q] = 0
      /\ call[c].left \in [Rows -> Nat] /\ call[c].todo \in [Rows -> Int]
  BY DEF FlatInv, FlatShapes, CallRecord, CallOK
<1>3. /\ resting \in [Rows -> Int] /\ net \in [Rows -> Int] /\ unsettled \in [Rows -> BOOLEAN]
  BY DEF FlatInv, FlatShapes
<1>4. /\ resting' = [resting EXCEPT ![r] = @ + Direction(qty) * chunk]
      /\ unsettled' = [unsettled EXCEPT ![r] = @ \/ \E d \in FlatCalls \ {c} : InHand(d, r)]
  BY DEF Sent
<1>5. Continues(c, r, rest)
  OBVIOUS
<1> HIDE DEF chunk, rest
<1>6. resting'[r] = IF qty > 0 THEN resting[r] - chunk ELSE resting[r] + chunk
  BY <1>1, <1>2, <1>3, <1>4 DEF Direction
<1>7. \A q \in Rows : q # r => resting'[q] = resting[q] /\ unsettled'[q] = unsettled[q]
  BY <1>3, <1>4
<1>8. ~unsettled'[r] => ~unsettled[r] /\ \A d \in FlatCalls \ {c} : call[d].todo[r] = 0
  BY <1>3, <1>4 DEF InHand
<1>9. ~unsettled'[r] => net[r] + resting[r] = IF qty > 0 THEN left ELSE -left
  BY <1>1, <1>2, <1>8 DEF FlatInv, ReadIsOpen, InHand, Exposure, StillOpen
<1>10. ~unsettled'[r] => net[r] + resting'[r] = IF qty > 0 THEN rest ELSE -rest
  BY <1>1, <1>2, <1>3, <1>6, <1>9
<1>11. \A q \in Rows : NoRows[q] = 0
  BY DEF NoRows
<1>12. ReadIsOpen'
  <2> SUFFICES ASSUME NEW q \in Rows, ~unsettled'[q], NEW d \in FlatCalls, call'[d].todo[q] # 0
               PROVE  net[q] + resting'[q] = StillOpen(call'[d], q)
    BY DEF ReadIsOpen, InHand, Exposure, StillOpen
  <2>1. CASE q = r
    <3>1. d = c
      BY <1>8, <2>1
    <3>2. rest > 0 /\ call'[c].todo[r] = qty /\ call'[c].left[r] = rest
      BY <1>2, <1>5, <2>1, <3>1 DEF Continues
    <3>3. StillOpen(call'[c], r) = IF qty > 0 THEN rest ELSE -rest
      BY <1>1, <3>2 DEF StillOpen
    <3> QED BY <1>10, <2>1, <3>1, <3>3
  <2>2. CASE q # r
    <3>1. call[d].todo[q] # 0 /\ StillOpen(call'[d], q) = StillOpen(call[d], q)
      <4>1. CASE d = c
        BY <1>2, <1>5, <1>11, <2>2, <4>1 DEF Continues, StillOpen
      <4>2. CASE d # c
        BY <4>2
      <4> QED BY <4>1, <4>2
    <3>2. ~unsettled[q] /\ resting'[q] = resting[q]
      BY <1>7, <2>2
    <3> QED BY <3>1, <3>2 DEF FlatInv, ReadIsOpen, InHand, Exposure
  <2> QED BY <2>1, <2>2
<1>13. SignKept'
  <2> SUFFICES ASSUME NEW q \in Rows, ~unsettled'[q]
               PROVE  /\ Held[q] > 0 => net[q] + resting'[q] >= 0 /\ resting'[q] <= 0
                      /\ Held[q] < 0 => net[q] + resting'[q] <= 0 /\ resting'[q] >= 0
                      /\ Held[q] = 0 => net[q] + resting'[q] = 0 /\ resting'[q] = 0
    BY DEF SignKept, Exposure
  <2>1. ~unsettled[q]
    BY <1>7, <1>8
  <2>2. /\ Held[q] > 0 => net[q] + resting[q] >= 0 /\ resting[q] <= 0
        /\ Held[q] < 0 => net[q] + resting[q] <= 0 /\ resting[q] >= 0
        /\ Held[q] = 0 => net[q] + resting[q] = 0 /\ resting[q] = 0
    BY <2>1 DEF FlatInv, SignKept, Exposure
  <2>3. CASE q = r
    <3>1. /\ qty \in Int /\ qty # 0 /\ left \in Nat /\ left > 0 /\ chunk \in 1..left
          /\ rest = left - chunk /\ rest \in Nat
      BY <1>1, <1>2
    <3>2. net[r] \in Int /\ resting[r] \in Int /\ Held[r] \in Int
      BY <1>3, RowsAssumption
    <3>3. /\ net[r] + resting[r] = IF qty > 0 THEN left ELSE -left
          /\ net[r] + resting'[r] = IF qty > 0 THEN rest ELSE -rest
          /\ resting'[r] = IF qty > 0 THEN resting[r] - chunk ELSE resting[r] + chunk
      BY <1>6, <1>9, <1>10, <2>3
    <3> HIDE DEF qty, left
    <3>4. CASE qty > 0
      <4>1. Held[r] > 0
        BY <2>2, <2>3, <3>1, <3>2, <3>3, <3>4
      <4> QED BY <2>2, <2>3, <3>1, <3>2, <3>3, <3>4, <4>1
    <3>5. CASE ~(qty > 0)
      <4>1. Held[r] < 0
        BY <2>2, <2>3, <3>1, <3>2, <3>3, <3>5
      <4> QED BY <2>2, <2>3, <3>1, <3>2, <3>3, <3>5, <4>1
    <3> QED BY <3>4, <3>5
  <2>4. CASE q # r
    BY <1>7, <2>2, <2>4
  <2> QED BY <2>3, <2>4
<1>14. SuccessIsFlat'
  <2> SUFFICES ASSUME NEW q \in Rows, ~unsettled'[q], OnlyRowOfKey(q), NEW d \in FlatCalls,
                      call'[d].result[KeyOf[q]] = "success"
               PROVE  net[q] + resting'[q] = 0
    BY DEF SuccessIsFlat, OnlyRowOfKey, Exposure
  <2>1. KeyOf[q] \in Instruments /\ ~unsettled[q]
    BY <1>7, <1>8 DEF Instruments
  <2>2. call[d].result[KeyOf[q]] = "success" => net[q] + resting[q] = 0
    BY <2>1 DEF FlatInv, SuccessIsFlat, Exposure
  <2>3. CASE q = r
    <3>1. call[d].result[KeyOf[q]] # "success"
      BY <1>1, <1>9, <2>2, <2>3
    <3>2. d = c
      BY <3>1
    <3>3. rest = 0
      BY <1>5, <2>3, <3>1, <3>2 DEF Continues
    <3> QED BY <1>10, <2>3, <3>3
  <2>4. CASE q # r
    <3>1. KeyOf[q] # KeyOf[r]
      BY <2>4 DEF OnlyRowOfKey
    <3>2. call[d].result[KeyOf[q]] = "success"
      BY <1>5, <2>1, <3>1 DEF Continues
    <3> QED BY <1>7, <2>2, <2>4, <3>2
  <2> QED BY <2>3, <2>4
<1> QED BY <1>12, <1>13, <1>14 DEF FlatInv

-----------------------------------------------------------------------------
(* Each step keeps the invariant.                                          *)

\* A call goes on to a sound record; the others stay.
LEMMA StepShapes ==
    ASSUME FlatShapes, NEW c \in FlatCalls, NEW rec, CallOK(rec), Step(c, rec),
           net' \in [Rows -> Int], resting' \in [Rows -> Int],
           unsettled' \in [Rows -> BOOLEAN], calls' \in 0..MaxCalls
    PROVE  FlatShapes' /\ call'[c] = rec /\ \A d \in FlatCalls \ {c} : call'[d] = call[d]
<1>1. call' = [call EXCEPT ![c] = rec] /\ rec \in CallRecord
  BY DEF Step, CallOK
<1>2. /\ call' \in [FlatCalls -> CallRecord]
      /\ call'[c] = rec /\ \A d \in FlatCalls \ {c} : call'[d] = call[d]
  BY <1>1 DEF FlatShapes
<1>3. \A d \in FlatCalls : CallOK(call'[d])
  BY <1>2 DEF FlatShapes
<1> QED BY <1>2, <1>3 DEF FlatShapes

\* A call starts, ends, or gives up.
LEMMA CallMoves ==
    ASSUME FlatInv, NEW c \in FlatCalls, NEW rec, CallOK(rec), Step(c, rec),
           rec.todo = NoRows,
           \A k \in Instruments : rec.result[k] = "success" => call[c].result[k] = "success",
           UNCHANGED <<net, resting, unsettled>>, calls' \in 0..MaxCalls
    PROVE  FlatInv'
<1>1. FlatShapes' /\ call'[c] = rec /\ \A d \in FlatCalls \ {c} : call'[d] = call[d]
  BY StepShapes DEF FlatInv, FlatShapes
<1>2. \A d \in FlatCalls, r \in Rows : KnowsOrReads(d, r)
  BY <1>1 DEF KnowsOrReads, NoRows, Instruments, StillOpen
<1>3. \A r \in Rows : net'[r] + resting'[r] = Exposure(r) /\ resting'[r] \in {resting[r], 0}
  BY DEF Exposure
<1> QED BY <1>1, <1>2, <1>3, NothingSent

LEMMA ExitInv ==
    ASSUME FlatInv, NEW c \in FlatCalls, NEW keys \in SUBSET Instruments, Exit(c, keys)
    PROVE  FlatInv'
<1> DEFINE rec == [NoCall EXCEPT !.pc = "positions", !.keys = keys]
<1>1. /\ rec \in CallRecord /\ rec.attempt = 0 /\ rec.todo = NoRows /\ rec.left = NoRows
      /\ \A k \in Instruments : rec.result[k] = "none"
  <2>1. /\ NoCall \in CallRecord /\ NoCall.attempt = 0 /\ NoCall.todo = NoRows
        /\ NoCall.left = NoRows /\ \A k \in Instruments : NoCall.result[k] = "none"
    BY NoCallOK DEF CallOK, NoCall
  <2> HIDE DEF NoCall
  <2> QED BY <2>1 DEF CallRecord
<1>2. Step(c, rec) /\ calls' \in 0..MaxCalls /\ UNCHANGED <<net, resting, unsettled>>
  BY CallsAssumption DEF Exit, FlatInv, FlatShapes
<1> HIDE DEF rec
<1>3. CallOK(rec)
  BY <1>1 DEF CallOK, NoRows, MaxPasses
<1> QED BY <1>1, <1>2, <1>3, CallMoves

LEMMA ReturnsInv ==
    ASSUME FlatInv, NEW c \in FlatCalls, Raises(c) \/ Respond(c)
    PROVE  FlatInv'
<1>1. Step(c, NoCall) /\ UNCHANGED <<net, resting, calls, unsettled>>
  BY DEF Raises, Respond
<1>2. NoCall.todo = NoRows /\ \A k \in Instruments : NoCall.result[k] = "none"
  BY DEF NoCall
<1>3. calls' \in 0..MaxCalls
  BY <1>1 DEF FlatInv, FlatShapes
<1> QED BY <1>1, <1>2, <1>3, NoCallOK, CallMoves

LEMMA RefreshFailsInv ==
    ASSUME FlatInv, NEW c \in FlatCalls, RefreshFails(c)
    PROVE  FlatInv'
<1> DEFINE rec == [call[c] EXCEPT !.pc = "done"]
<1>1. CallOK(call[c]) /\ call[c].pc = "refresh" /\ calls \in 0..MaxCalls
  BY DEF FlatInv, FlatShapes, RefreshFails
<1>2. /\ rec \in CallRecord /\ rec.pc = "done" /\ rec.todo = NoRows /\ rec.left = NoRows
      /\ rec.result = call[c].result
  BY <1>1 DEF CallOK, CallRecord
<1>3. Step(c, rec) /\ UNCHANGED <<net, resting, calls, unsettled>>
  BY DEF RefreshFails
<1> HIDE DEF rec
<1>4. CallOK(rec)
  BY <1>2 DEF CallOK, NoRows
<1> QED BY <1>1, <1>2, <1>3, <1>4, CallMoves

\* A call takes in what it read: a quantity is what is open where no exit
\* rests, and the others count as unsettled.
LEMMA ReadsInv ==
    ASSUME FlatInv, NEW c \in FlatCalls, NEW rec, CallOK(rec), Step(c, rec), rec.left = NoRows,
           NEW todo \in [Rows -> Int], rec.todo = todo, Unsettle(todo),
           \A r \in Rows : todo[r] # 0 => todo[r] = net[r],
           \A r \in Rows : rec.result[KeyOf[r]] = "success" /\ OnlyRowOfKey(r) =>
              call[c].result[KeyOf[r]] = "success" \/ net[r] = 0,
           UNCHANGED <<net, resting, calls>>
    PROVE  FlatInv'
<1>1. /\ unsettled' \in [Rows -> BOOLEAN]
      /\ \A r \in Rows : ~unsettled'[r] => ~unsettled[r] /\ (todo[r] = 0 \/ resting[r] = 0)
  BY DEF Unsettle, FlatInv, FlatShapes
<1>2. FlatShapes' /\ call'[c] = rec /\ \A d \in FlatCalls \ {c} : call'[d] = call[d]
  BY <1>1, StepShapes DEF FlatInv, FlatShapes
<1>3. ASSUME NEW r \in Rows, ~unsettled'[r] PROVE KnowsOrReads(c, r)
  <2>1. net[r] \in Int /\ resting[r] \in Int /\ ~unsettled[r]
    BY <1>1, <1>3 DEF FlatInv, FlatShapes
  <2>2. todo[r] # 0 => Exposure(r) = StillOpen(rec, r)
    BY <1>1, <1>3, <2>1 DEF Exposure, StillOpen, NoRows
  <2>3. net[r] = 0 => Exposure(r) = 0
    BY <2>1, RowsAssumption DEF FlatInv, SignKept, Exposure
  <2> QED BY <1>2, <2>2, <2>3 DEF KnowsOrReads
<1>4. \A d \in FlatCalls \ {c}, r \in Rows : KnowsOrReads(d, r)
  BY <1>2 DEF KnowsOrReads
<1>5. \A r \in Rows : net'[r] + resting'[r] = Exposure(r) /\ resting'[r] \in {resting[r], 0}
  BY DEF Exposure
<1> QED BY <1>1, <1>2, <1>3, <1>4, <1>5, NothingSent

LEMMA PositionsArriveInv ==
    ASSUME FlatInv, NEW c \in FlatCalls, PositionsArrive(c)
    PROVE  FlatInv'
<1> DEFINE todo == [r \in Rows |-> IF r \in OpenIn(call[c].keys) THEN net[r] ELSE 0]
           rec == Attempt(call[c], todo)
<1>1. CallOK(call[c]) /\ call[c].pc = "positions"
  BY DEF PositionsArrive, FlatInv, FlatShapes
<1>2. todo \in [Rows -> Int] /\ \A r \in Rows : todo[r] # 0 => todo[r] = net[r]
  BY DEF FlatInv, FlatShapes
<1>3. Step(c, rec) /\ Unsettle(todo) /\ UNCHANGED <<net, resting, calls>>
  BY DEF PositionsArrive
<1> HIDE DEF todo
<1>4. CallOK(rec) /\ rec.todo = todo /\ rec.left = NoRows /\ rec.result = call[c].result
  BY <1>1, <1>2, AttemptOK
<1> HIDE DEF rec
<1> QED BY <1>2, <1>3, <1>4, ReadsInv

LEMMA RefreshInv ==
    ASSUME FlatInv, NEW c \in FlatCalls, Refresh(c)
    PROVE  FlatInv'
<1>1. CallOK(call[c]) /\ call[c].pc = "refresh" /\ UNCHANGED <<net, resting, calls>>
  BY DEF Refresh, FlatInv, FlatShapes
<1>2. PICK kept \in SUBSET OpenIn(call[c].failed) :
         /\ Step(c, Attempt(Succeeded(call[c]), Retried(kept)))
         /\ Unsettle(Retried(kept))
  BY DEF Refresh
<1> DEFINE told == Succeeded(call[c])
           todo == Retried(kept)
           rec == Attempt(told, todo)
<1>3. todo \in [Rows -> Int] /\ \A r \in Rows : todo[r] # 0 => todo[r] = net[r]
  BY DEF FlatInv, FlatShapes, Retried
<1>4. /\ CallOK(told) /\ told.pc = "refresh"
      /\ \A k \in Instruments : told.result[k] = "success" =>
            call[c].result[k] = "success" \/ OpenIn({k}) = {}
  BY <1>1, SucceededOK
<1>5. Step(c, rec) /\ Unsettle(todo)
  BY <1>2
<1> HIDE DEF told, todo
<1>6. CallOK(rec) /\ rec.todo = todo /\ rec.left = NoRows /\ rec.result = told.result
  BY <1>3, <1>4, AttemptOK
<1> HIDE DEF rec
<1>7. \A r \in Rows : rec.result[KeyOf[r]] = "success" =>
         call[c].result[KeyOf[r]] = "success" \/ net[r] = 0
  BY <1>4, <1>6 DEF Instruments, OpenIn
<1> QED BY <1>1, <1>3, <1>5, <1>6, <1>7, ReadsInv

LEMMA RulesArriveInv ==
    ASSUME FlatInv, NEW c \in FlatCalls, NEW r \in Rows, RulesArrive(c, r)
    PROVE  FlatInv'
<1> DEFINE left == [NoRows EXCEPT ![r] = Abs(call[c].todo[r])]
           rec == [call[c] EXCEPT !.pc = "chunk", !.left = left]
<1>1. /\ CallOK(call[c]) /\ call[c].pc = "rules" /\ call[c].todo[r] # 0
      /\ call[c].todo \in [Rows -> Int] /\ call[c].left = NoRows
  BY DEF RulesArrive, InHand, FlatInv, FlatShapes, CallOK, CallRecord
<1>2. /\ left \in [Rows -> Nat]
      /\ \A q \in Rows : left[q] = IF q = r THEN Abs(call[c].todo[r]) ELSE 0
  BY <1>1 DEF NoRows, Abs
<1>3. Step(c, rec) /\ UNCHANGED <<net, resting, calls, unsettled>>
  BY DEF RulesArrive
<1> HIDE DEF left
<1>4. /\ rec \in CallRecord /\ rec.pc = "chunk" /\ rec.left = left /\ rec.todo = call[c].todo
      /\ rec.result = call[c].result
  BY <1>1, <1>2 DEF CallOK, CallRecord
<1> HIDE DEF rec
<1>5. CallOK(rec)
  BY <1>1, <1>2, <1>4 DEF CallOK
<1>6. FlatShapes' /\ call'[c] = rec /\ \A d \in FlatCalls \ {c} : call'[d] = call[d]
  BY <1>3, <1>5, StepShapes DEF FlatInv, FlatShapes
<1>7. \A q \in Rows : StillOpen(rec, q) = StillOpen(call[c], q)
  <2> SUFFICES ASSUME NEW q \in Rows PROVE StillOpen(rec, q) = StillOpen(call[c], q)
    OBVIOUS
  <2>1. call[c].left[q] = 0 /\ call[c].todo[q] \in Int
    BY <1>1 DEF NoRows
  <2>2. StillOpen(call[c], q) = call[c].todo[q]
    BY <2>1 DEF StillOpen
  <2>3. CASE q = r
    BY <1>1, <1>2, <1>4, <2>1, <2>2, <2>3 DEF StillOpen, Abs
  <2>4. CASE q # r
    BY <1>2, <1>4, <2>2, <2>4 DEF StillOpen
  <2> QED BY <2>3, <2>4
<1>8. \A d \in FlatCalls, q \in Rows : KnowsOrReads(d, q)
  <2>1. \A q \in Rows : KnowsOrReads(c, q)
    BY <1>4, <1>6, <1>7 DEF KnowsOrReads
  <2>2. \A d \in FlatCalls \ {c}, q \in Rows : KnowsOrReads(d, q)
    BY <1>6 DEF KnowsOrReads
  <2> QED BY <2>1, <2>2
<1>9. \A q \in Rows : /\ net'[q] + resting'[q] = Exposure(q) /\ resting'[q] \in {resting[q], 0}
                      /\ unsettled'[q] = unsettled[q]
  BY <1>3 DEF Exposure
<1> QED BY <1>6, <1>8, <1>9, NothingSent

\* An order that goes out keeps the types.
LEMMA SentShapes ==
    ASSUME FlatShapes, NEW c \in FlatCalls, NEW r \in Rows, call[c].left[r] > 0, Sent(c, r)
    PROVE  resting' \in [Rows -> Int] /\ unsettled' \in [Rows -> BOOLEAN]
<1> DEFINE chunk == NextChunk(call[c].left[r], Slice(c, r))
<1>1. chunk \in Int /\ call[c].todo[r] \in Int
  BY ChunkOfLeft DEF FlatShapes, CallRecord
<1>2. Direction(call[c].todo[r]) \in Int
  BY <1>1 DEF Direction
<1>3. resting' = [resting EXCEPT ![r] = @ + Direction(call[c].todo[r]) * chunk]
  BY DEF Sent
<1> HIDE DEF chunk
<1>4. resting' \in [Rows -> Int]
  BY <1>1, <1>2, <1>3 DEF FlatShapes
<1> QED BY <1>4 DEF Sent, FlatShapes

LEMMA ChunkAcceptedInv ==
    ASSUME FlatInv, NEW c \in FlatCalls, NEW r \in Rows, ChunkAccepted(c, r)
    PROVE  FlatInv'
<1> DEFINE rest == StillToSend(call[c].left[r], Slice(c, r))
<1>1. /\ call[c].left[r] > 0 /\ call[c].pc = "chunk" /\ Sent(c, r) /\ UNCHANGED <<net, calls>>
      /\ CallOK(call[c]) /\ FlatShapes
  BY DEF ChunkAccepted, FlatInv, FlatShapes
<1>2. resting' \in [Rows -> Int] /\ unsettled' \in [Rows -> BOOLEAN]
  BY <1>1, SentShapes
<1>3. rest \in Nat
  BY <1>1, ChunkOfLeft DEF FlatShapes, CallRecord
<1>4. Step(c, IF rest > 0 THEN [call[c] EXCEPT !.left[r] = rest]
              ELSE NextRow(Record(c, r, "success"), r))
  BY DEF ChunkAccepted
<1>5. net' \in [Rows -> Int] /\ calls' \in 0..MaxCalls
  BY <1>1 DEF FlatShapes
<1> HIDE DEF rest
<1>6. CASE rest > 0
  <2> DEFINE left == [call[c].left EXCEPT ![r] = rest]
             rec == [call[c] EXCEPT !.left = left]
  <2>0. /\ call[c] \in CallRecord /\ call[c].left \in [Rows -> Nat]
        /\ \A q, s \in Rows : call[c].left[q] > 0 /\ call[c].left[s] > 0 => q = s
        /\ \A q \in Rows : call[c].left[q] > 0 => call[c].todo[q] # 0
    BY <1>1 DEF CallOK, CallRecord
  <2>1. /\ left \in [Rows -> Nat]
        /\ \A q, s \in Rows : left[q] > 0 /\ left[s] > 0 => q = s
        /\ \A q \in Rows : left[q] > 0 => call[c].todo[q] # 0
    BY <1>1, <1>3, <1>6, <2>0
  <2>2. Step(c, rec)
    BY <1>4, <1>6, <2>0 DEF CallRecord
  <2> HIDE DEF left
  <2>3. /\ rec \in CallRecord /\ rec.pc = "chunk" /\ rec.left = left /\ rec.todo = call[c].todo
        /\ rec.result = call[c].result
    BY <1>1, <2>0, <2>1 DEF CallRecord
  <2> HIDE DEF rec
  <2>4. CallOK(rec)
    BY <2>1, <2>3 DEF CallOK
  <2>5. FlatShapes' /\ call'[c] = rec /\ \A d \in FlatCalls \ {c} : call'[d] = call[d]
    BY <1>1, <1>2, <1>5, <2>2, <2>4, StepShapes
  <2>6. Continues(c, r, rest)
    BY <1>6, <2>3, <2>5 DEF Continues, left
  <2> QED BY <1>1, <2>5, <2>6, ChunkSent DEF rest
<1>7. CASE ~(rest > 0)
  <2> DEFINE told == Record(c, r, "success")
             rec == NextRow(told, r)
  <2>1. /\ told \in CallRecord /\ told.todo = call[c].todo
        /\ \A k \in Instruments :
              told.result[k] = IF k = KeyOf[r] THEN "success" ELSE call[c].result[k]
    BY <1>1, RecordOK DEF CallOK
  <2> HIDE DEF told
  <2>2. /\ CallOK(rec) /\ rec.todo = [call[c].todo EXCEPT ![r] = 0] /\ rec.left = NoRows
        /\ rec.result = told.result
    BY <2>1, NextRowOK
  <2>3. Step(c, rec)
    BY <1>4, <1>7 DEF told
  <2> HIDE DEF rec
  <2>4. FlatShapes' /\ call'[c] = rec /\ \A d \in FlatCalls \ {c} : call'[d] = call[d]
    BY <1>1, <1>2, <1>5, <2>2, <2>3, StepShapes
  <2>5. rest = 0
    BY <1>3, <1>7
  <2>6. Continues(c, r, rest)
    BY <2>1, <2>2, <2>4, <2>5 DEF Continues
  <2> QED BY <1>1, <2>4, <2>6, ChunkSent DEF rest
<1> QED BY <1>6, <1>7

LEMMA ChunkFailsInv ==
    ASSUME FlatInv, NEW c \in FlatCalls, NEW r \in Rows, ChunkFails(c, r)
    PROVE  FlatInv'
<1> DEFINE told == Record(c, r, "error")
           rec == NextRow(told, r)
<1>1. /\ call[c].left[r] > 0 /\ UNCHANGED <<net, calls>> /\ CallOK(call[c]) /\ FlatShapes
      /\ Sent(c, r) \/ UNCHANGED <<resting, unsettled>>
      /\ Step(c, rec)
  BY DEF ChunkFails, FlatInv, FlatShapes
<1>2. /\ told \in CallRecord /\ told.todo = call[c].todo
      /\ \A k \in Instruments :
            told.result[k] = IF k = KeyOf[r] THEN "error" ELSE call[c].result[k]
  BY <1>1, RecordOK DEF CallOK
<1> HIDE DEF told
<1>3. /\ CallOK(rec) /\ rec.todo = [call[c].todo EXCEPT ![r] = 0] /\ rec.left = NoRows
      /\ rec.result = told.result
  BY <1>2, NextRowOK
<1> HIDE DEF rec
<1>4. /\ net' \in [Rows -> Int] /\ calls' \in 0..MaxCalls
      /\ resting' \in [Rows -> Int] /\ unsettled' \in [Rows -> BOOLEAN]
  BY <1>1, SentShapes DEF FlatShapes
<1>5. FlatShapes' /\ call'[c] = rec /\ \A d \in FlatCalls \ {c} : call'[d] = call[d]
  BY <1>1, <1>3, <1>4, StepShapes
<1>6. KeyOf[r] \in Instruments
  BY DEF Instruments
<1>7. CASE Sent(c, r)
  <2>1. Continues(c, r, StillToSend(call[c].left[r], Slice(c, r)))
    BY <1>2, <1>3, <1>5, <1>6 DEF Continues
  <2> QED BY <1>1, <1>5, <1>7, <2>1, ChunkSent
<1>8. CASE UNCHANGED <<resting, unsettled>>
  <2>1. call[c].todo \in [Rows -> Int] /\ call[c].left \in [Rows -> Nat]
    BY <1>1 DEF CallOK, CallRecord
  <2>2. \A q \in Rows : q # r => call[c].left[q] = 0
    BY <1>1, <2>1 DEF CallOK
  <2>3. \A q \in Rows : KnowsOrReads(c, q)
    BY <1>2, <1>3, <1>5, <1>6, <2>1, <2>2 DEF KnowsOrReads, StillOpen, NoRows, Instruments
  <2>4. \A d \in FlatCalls, q \in Rows : KnowsOrReads(d, q)
    BY <1>5, <2>3 DEF KnowsOrReads
  <2>5. \A q \in Rows : /\ net'[q] + resting'[q] = Exposure(q) /\ resting'[q] \in {resting[q], 0}
                        /\ unsettled'[q] = unsettled[q]
    BY <1>1, <1>8 DEF Exposure
  <2> QED BY <1>5, <2>4, <2>5, NothingSent
<1> QED BY <1>1, <1>7, <1>8

LEMMA ExitFillsInv ==
    ASSUME FlatInv, NEW r \in Rows, ExitFills(r)
    PROVE  FlatInv'
<1>1. /\ net' = [net EXCEPT ![r] = @ + resting[r]] /\ resting' = [resting EXCEPT ![r] = 0]
      /\ UNCHANGED <<call, calls, unsettled>>
      /\ net \in [Rows -> Int] /\ resting \in [Rows -> Int]
  BY DEF ExitFills, FlatInv, FlatShapes
<1>2. FlatShapes'
  BY <1>1 DEF FlatInv, FlatShapes
<1>3. \A q \in Rows : net'[q] + resting'[q] = Exposure(q) /\ resting'[q] \in {resting[q], 0}
  BY <1>1 DEF Exposure
<1>4. \A d \in FlatCalls, q \in Rows : KnowsOrReads(d, q)
  BY <1>1 DEF KnowsOrReads
<1> QED BY <1>1, <1>2, <1>3, <1>4, NothingSent

-----------------------------------------------------------------------------
\* The inductive invariant of the position flattener.
THEOREM SpecFlatInv == FlatSpec => []FlatInv
<1>1. FlatInit => FlatInv
  BY FlatInitInv
<1>2. FlatInv /\ [FlatNext]_flatVars => FlatInv'
  <2> SUFFICES ASSUME FlatInv, [FlatNext]_flatVars PROVE FlatInv'
    OBVIOUS
  <2>1. CASE UNCHANGED flatVars
    BY <2>1 DEF flatVars, FlatInv, FlatShapes, ReadIsOpen, SignKept, SuccessIsFlat, InHand,
       Exposure, StillOpen
  <2>2. CASE FlatNext
    BY <2>2, ExitInv, PositionsArriveInv, ReturnsInv, RefreshInv, RefreshFailsInv, RulesArriveInv,
       ChunkAcceptedInv, ChunkFailsInv, ExitFillsInv DEF FlatNext
  <2> QED BY <2>1, <2>2
<1> QED BY <1>1, <1>2, PTL DEF FlatSpec

\* However many calls overlap, and whatever orders lose their replies or fill
\* late, a position changes sign only where a quantity was read while an exit of
\* it rested or two calls were at it.
THEOREM SpecReversedOnlyWhenUnsettled == FlatSpec => []ReversedOnlyWhenUnsettled
<1>1. FlatInv => ReversedOnlyWhenUnsettled
  <2> SUFFICES ASSUME FlatInv, NEW r \in Rows, ~unsettled[r]
               PROVE  ~(Held[r] * (net[r] + resting[r]) < 0)
    BY DEF ReversedOnlyWhenUnsettled
  <2> DEFINE h == Held[r]
             x == net[r] + resting[r]
  <2>1. /\ h \in Int /\ x \in Int
        /\ h > 0 => x >= 0
        /\ h < 0 => x <= 0
        /\ h = 0 => x = 0
    BY RowsAssumption DEF FlatInv, FlatShapes, SignKept, Exposure
  <2> HIDE DEF h, x
  <2>2. h * x >= 0
    BY <2>1
  <2>3. ~(h * x < 0)
    BY <2>1, <2>2
  <2> QED BY <2>3 DEF h, x
<1> QED BY <1>1, SpecFlatInv, PTL

\* Of an instrument reported as a success nothing is left that no exit covers,
\* also when the success was concluded from refreshed positions.
THEOREM SpecSuccessLeavesNothingOpen == FlatSpec => []SuccessLeavesNothingOpen
<1>1. FlatInv => SuccessLeavesNothingOpen
  <2> SUFFICES ASSUME FlatInv, NEW c \in FlatCalls, NEW r \in Rows,
                      call[c].result[KeyOf[r]] = "success", OnlyRowOfKey(r), ~unsettled[r]
               PROVE  Held[r] * (net[r] + resting[r]) <= 0
    BY DEF SuccessLeavesNothingOpen
  <2>1. net[r] + resting[r] = 0
    BY DEF FlatInv, SuccessIsFlat, Exposure
  <2> QED BY <2>1, RowsAssumption
<1> QED BY <1>1, SpecFlatInv, PTL

\* Every variable of the exit-all keeps its type.
THEOREM FlatTypeCorrect == FlatSpec => []FlatTypeOK
<1>1. FlatInv => FlatTypeOK
  BY DEF FlatInv, FlatShapes, CallRecord, FlatTypeOK
<1> QED BY <1>1, SpecFlatInv, PTL

-----------------------------------------------------------------------------
(* The max-loss watcher: sums over the lots.                               *)

\* A nonempty set of naturals has a least one.
LEMMA LeastOfNaturals ==
    ASSUME NEW T \in SUBSET Nat, T # {}
    PROVE  \E x \in T : \A y \in T : x <= y
<1>1. IsWellFoundedOn(OpToRel(<, Nat), Nat)
  BY NatLessThanWellFounded
<1>2. PICK x \in T : \A y \in T : ~(<<y, x>> \in OpToRel(<, Nat))
  BY <1>1, WFMin
<1>3. \A y \in T : ~(y < x)
  BY <1>2 DEF OpToRel
<1> QED BY <1>3

\* The partial sums of a function are there, and integers.
PartialSums(g, N) ==
    {s \in [0..N -> Int] : s = [n \in 0..N |-> IF n = 0 THEN 0 ELSE s[n - 1] + g[n]]}

LEMMA PartialSumsExist ==
    ASSUME NEW N \in Nat, NEW g \in [1..N -> Int]
    PROVE  PartialSums(g, N) # {}
<1> DEFINE T == {m \in 0..N : PartialSums(g, m) = {}}
<1> SUFFICES ASSUME T # {} PROVE FALSE
  OBVIOUS
<1>1. PICK m \in T : \A y \in T : m <= y
  <2>1. T \in SUBSET Nat
    OBVIOUS
  <2> HIDE DEF T
  <2> QED BY <2>1, LeastOfNaturals
<1>2. m \in 0..N /\ PartialSums(g, m) = {}
  OBVIOUS
<1>3. m # 0
  <2>1. [n \in 0..0 |-> 0] \in PartialSums(g, 0)
    BY DEF PartialSums
  <2> QED BY <1>2, <2>1
<1>4. PartialSums(g, m - 1) # {}
  BY <1>1, <1>2, <1>3
<1>5. PICK s \in PartialSums(g, m - 1) : TRUE
  BY <1>4
<1> DEFINE next == [n \in 0..m |-> IF n = m THEN s[m - 1] + g[m] ELSE s[n]]
<1> HIDE DEF T
<1>6. /\ s \in [0..(m - 1) -> Int] /\ g[m] \in Int
      /\ \A n \in 0..(m - 1) : s[n] = IF n = 0 THEN 0 ELSE s[n - 1] + g[n]
  BY <1>2, <1>3, <1>5 DEF PartialSums
<1>7. next \in [0..m -> Int]
  BY <1>2, <1>3, <1>6
<1>8. ASSUME NEW n \in 0..m PROVE next[n] = IF n = 0 THEN 0 ELSE next[n - 1] + g[n]
  <2>1. CASE n = m
    <3>1. m # 0 /\ m - 1 \in 0..m /\ m - 1 # m
      BY <1>2, <1>3
    <3> QED BY <2>1, <3>1
  <2>2. CASE n # m /\ n # 0
    <3>1. n \in 0..(m - 1) /\ n - 1 \in 0..m /\ n - 1 # m
      BY <1>2, <1>3, <2>2
    <3> QED BY <1>6, <2>2, <3>1
  <2>3. CASE n # m /\ n = 0
    <3>1. 0 \in 0..(m - 1)
      BY <1>2, <1>3, <2>3
    <3> QED BY <1>6, <2>3, <3>1
  <2> QED BY <2>1, <2>2, <2>3
<1> HIDE DEF next
<1>9. next = [n \in 0..m |-> IF n = 0 THEN 0 ELSE next[n - 1] + g[n]]
  BY <1>7, <1>8
<1> QED BY <1>2, <1>7, <1>9 DEF PartialSums

LEMMA SumOverType ==
    ASSUME NEW f \in [Lots -> Int]
    PROVE  SumOver(f) \in Int
<1> DEFINE N == Len(LotSeq)
           g == [n \in 1..N |-> f[LotSeq[n]]]
           upTo == CHOOSE s : s = [n \in 0..N |-> IF n = 0 THEN 0 ELSE s[n - 1] + f[LotSeq[n]]]
<1>1. N \in Nat /\ DOMAIN LotSeq = 1..N
  BY LotsAssumption
<1>2. g \in [1..N -> Int]
  BY <1>1 DEF Lots
<1>3. PICK s \in PartialSums(g, N) : TRUE
  BY <1>1, <1>2, PartialSumsExist
<1>4. s = [n \in 0..N |-> IF n = 0 THEN 0 ELSE s[n - 1] + f[LotSeq[n]]]
  <2>1. /\ s \in [0..N -> Int]
        /\ \A n \in 0..N : s[n] = IF n = 0 THEN 0 ELSE s[n - 1] + g[n]
    BY <1>3 DEF PartialSums
  <2>2. \A n \in 1..N : g[n] = f[LotSeq[n]]
    OBVIOUS
  <2> HIDE DEF g
  <2> QED BY <1>1, <2>1, <2>2
<1>5. upTo = [n \in 0..N |-> IF n = 0 THEN 0 ELSE upTo[n - 1] + f[LotSeq[n]]]
  BY <1>4
<1>6. SumOver(f) = upTo[N]
  BY DEF SumOver
<1> HIDE DEF upTo
<1> DEFINE T == {n \in 0..N : upTo[n] \notin Int}
<1>7. ASSUME T # {} PROVE FALSE
  <2>1. PICK n \in T : \A y \in T : n <= y
    <3>1. T \in SUBSET Nat /\ T # {}
      BY <1>1, <1>7
    <3> HIDE DEF T
    <3> QED BY <3>1, LeastOfNaturals
  <2>2. n \in 0..N /\ upTo[n] = IF n = 0 THEN 0 ELSE upTo[n - 1] + f[LotSeq[n]]
    BY <1>5
  <2>3. n # 0
    BY <2>1, <2>2
  <2>4. n - 1 \in 0..N /\ upTo[n - 1] \in Int
    BY <1>1, <2>1, <2>2, <2>3
  <2>5. f[LotSeq[n]] \in Int
    BY <1>1, <2>2, <2>3 DEF Lots
  <2> QED BY <2>1, <2>2, <2>3, <2>4, <2>5
<1> QED BY <1>1, <1>6, <1>7

\* Of the lots a loop has still to come to there is a first one.
LEMMA FirstOfLots ==
    ASSUME NEW S \in SUBSET Lots, S # {}
    PROVE  First(S) \in S
<1> DEFINE T == {i \in DOMAIN LotSeq : LotSeq[i] \in S}
<1>1. DOMAIN LotSeq \subseteq Nat
  BY LotsAssumption
<1>2. T # {} /\ T \in SUBSET Nat
  BY <1>1 DEF Lots
<1>3. \A l \in S : \E i \in T : LotSeq[i] = l
  BY DEF Lots
<1>4. \A i \in T : i \in DOMAIN LotSeq /\ LotSeq[i] \in S
  OBVIOUS
<1> HIDE DEF T
<1>5. PICK i \in T : \A j \in T : i <= j
  BY <1>2, LeastOfNaturals
<1>6. \A k \in S \ {LotSeq[i]} : Before(LotSeq[i], k)
  <2> SUFFICES ASSUME NEW k \in S, k # LotSeq[i] PROVE Before(LotSeq[i], k)
    OBVIOUS
  <2>1. PICK j \in T : LotSeq[j] = k
    BY <1>3
  <2>2. i < j
    BY <1>2, <1>5, <2>1
  <2> QED BY <1>4, <2>1, <2>2 DEF Before
<1> QED BY <1>4, <1>6 DEF First

-----------------------------------------------------------------------------
(* The invariant of the checks.                                            *)

TaskRecord ==
    [pc : {"idle", "quote", "lock"} \cup Locked, epoch : EpochRow \cup {None}, token : BOOLEAN,
     equity : Int, rows : [Lots -> Nat], lot : Lots \cup {None}, qty : Nat]

\* A check that runs has an epoch, a quote is for a lot, an exit is for a lot.
TaskOK(t) ==
    /\ t \in TaskRecord
    /\ t.pc # "idle" => t.epoch \in EpochRow
    /\ t.pc \in {"quote", "requote"} => Left(t.rows) # {}
    /\ t.pc \in {"positions", "placing", "placed"} => t.lot \in Lots

Bounds == [{"arm", "rearm", "tick", "turn", "manual", "fail"} -> Nat]

LockHeld == \A c \in Checks : task[c].pc \in Locked <=> lock = c

\* A leg whose call is under way is FIRING, and only one that has fired can have
\* an exit at the broker.
LegsFired ==
    \A l \in Lots : /\ legCall[l].at # "none" => leg[l] = "FIRING"
                    /\ working[l].LEG > 0 => leg[l] # "ARMED"

\* No exit of the lot rests, and no leg of it has fired: not even one that is lost.
Clear(l) == (\A m \in Makers : working[l][m] = 0) /\ ~InFlight(l)

\* What a check found of the lot it is at still holds if nothing touched the lot.
CalmIsClear ==
    \A c \in Checks :
        (task[c].pc \in {"positions", "placing"} /\ calm[c]) =>
            /\ Clear(task[c].lot)
            /\ task[c].pc = "placing" => task[c].qty <= Closeable(task[c].lot)

WatcherInv == /\ TypeOK /\ (\A c \in Checks : TaskOK(task[c]))
              /\ LockHeld /\ LegsFired /\ CalmIsClear

LEMMA IdleOK == TaskOK(Idle)
  BY DEF TaskOK, TaskRecord, Idle, NoLots, Locked

LEMMA WatcherInitInv == Init => WatcherInv
<1> SUFFICES ASSUME Init PROVE WatcherInv OBVIOUS
<1>1. \A c \in Checks : task[c] = Idle
  BY DEF Init
<1>2. \A c \in Checks : TaskOK(task[c]) /\ task[c].pc = "idle"
  BY <1>1, IdleOK DEF Idle
<1>3. task \in [Checks -> TaskRecord]
  BY <1>2 DEF Init, TaskOK
<1>4. TypeOK
  <2>1. position \in [Lots -> Int]
    BY LotQtyAssumption DEF Init, Sign
  <2> QED BY <1>3, <2>1, LotQtyAssumption DEF Init, TypeOK, TaskRecord, NoLegCall
<1>5. LockHeld /\ LegsFired /\ CalmIsClear
  BY <1>2, FreeLockAssumption DEF Init, LockHeld, Locked, LegsFired, Makers, CalmIsClear, NoLegCall
<1> QED BY <1>2, <1>4, <1>5 DEF WatcherInv

LEMMA ProductsAreIntegers == \A a, b \in Int : a * b \in Int
  OBVIOUS

\* What a quantity of a lot has gained is an amount.
LEMMA LivePnlType ==
    ASSUME NEW l \in Lots, NEW qty \in Int, NEW price \in Int
    PROVE  LivePnl(l, qty, price) \in Int
<1>1. price - Entry \in Int /\ Sign(l) \in Int
  BY PricesAssumption DEF Sign
<1>2. (price - Entry) * qty \in Int
  BY <1>1, ProductsAreIntegers, Zenon
<1> QED BY <1>1, <1>2, ProductsAreIntegers, Zenon DEF LivePnl

LEMMA PnlType ==
    ASSUME TypeOK
    PROVE  Pnl \in Int
<1>1. \A l \in Lots : TickedPnl(l) \in Int
  <2> SUFFICES ASSUME NEW l \in Lots PROVE TickedPnl(l) \in Int
    OBVIOUS
  <2>1. remaining[l] \in Int
    BY DEF TypeOK
  <2>2. CASE mark[l] = None
    BY <2>2 DEF TickedPnl
  <2>3. CASE mark[l] # None
    <3>1. mark[l] \in Int
      BY <2>3, PricesAssumption DEF TypeOK
    <3> QED BY <2>1, <2>3, <3>1, LivePnlType DEF TickedPnl
  <2> QED BY <2>2, <2>3
<1>2. [l \in Lots |-> TickedPnl(l)] \in [Lots -> Int] /\ realized \in [Lots -> Int]
  BY <1>1 DEF TypeOK
<1> QED BY <1>2, SumOverType DEF Pnl, RealizedPnl, TotalLivePnl

-----------------------------------------------------------------------------
(* What a stretch of a check between two awaits comes to.                  *)

\* The check goes on to a sound state, holds the lock just where its state says
\* so, and writes an epoch with a higher peak than one of E, or a fresh one.
Outcome(c, E) ==
    /\ \E t \in TaskRecord :
        /\ TaskOK(t) /\ t.pc \notin {"placing", "placed"}
        /\ task' = [task EXCEPT ![c] = t]
        /\ t.pc \in Locked <=> lock' = c
        /\ (t.pc = "positions" /\ calm'[c]) => Clear(t.lot)
    /\ lock' = lock \/ (lock = c /\ lock' = None)
    /\ calm' \in [Checks -> BOOLEAN] /\ \A d \in Checks \ {c} : calm'[d] = calm[d]
    /\ epoch' \in EpochRow \cup {None} /\ bound' \in Bounds /\ basis' \in Int \cup {None}
    /\ \/ epoch' = epoch
       \/ bound'.rearm > bound.rearm
       \/ \E e \in E : epoch'.born = e.born /\ epoch'.peak > e.peak

LEMMA StopOutcome ==
    ASSUME WatcherInv, NEW c \in Checks, Stop(c)
    PROVE  Outcome(c, {})
<1>1. Idle \in TaskRecord /\ TaskOK(Idle) /\ Idle.pc = "idle"
  BY IdleOK DEF TaskOK, Idle
<1>2. task' = [task EXCEPT ![c] = Idle] /\ UNCHANGED <<epoch, bound, calm, basis>>
  BY DEF Stop, Set
<1>3. lock' = IF lock = c THEN None ELSE lock
  BY DEF Stop, Released
<1>4. "idle" \notin Locked /\ lock' # c
  BY <1>3, FreeLockAssumption DEF Locked
<1>5. /\ epoch' \in EpochRow \cup {None} /\ bound' \in Bounds /\ basis' \in Int \cup {None}
      /\ calm' \in [Checks -> BOOLEAN]
  BY <1>2 DEF WatcherInv, TypeOK, Bounds
<1> HIDE DEF Idle
<1> QED BY <1>1, <1>2, <1>3, <1>4, <1>5 DEF Outcome

LEMMA JudgeOutcome ==
    ASSUME WatcherInv, NEW c \in Checks, lock # c, NEW t \in TaskRecord, t.epoch \in EpochRow,
           NEW equity \in Int, Judge(c, t, equity)
    PROVE  Outcome(c, {t.epoch}) /\ task'[c].pc \in {"lock", "idle"}
<1> DEFINE peak == Ratchet(equity, t.epoch)
           e == [t.epoch EXCEPT !.peak = peak]
           goes == [t EXCEPT !.pc = "lock", !.rows = NoLots]
           next == IF IsBreached(equity, e) /\ t.token THEN goes ELSE Idle
<1>1. peak \in Int /\ (peak # t.epoch.peak => peak > t.epoch.peak)
  BY DEF Ratchet, Larger, EpochRow
<1>2. /\ epoch' = IF e.peak # t.epoch.peak THEN e ELSE epoch
      /\ task' = [task EXCEPT ![c] = next]
      /\ UNCHANGED <<lock, bound, calm, basis>>
  BY DEF Judge, Set
<1> HIDE DEF peak
<1>3. e \in EpochRow /\ e.peak = peak /\ e.born = t.epoch.born
  BY <1>1 DEF EpochRow
<1>4. NoLots \in [Lots -> Nat]
  BY DEF NoLots
<1>5. goes \in TaskRecord /\ goes.pc = "lock" /\ goes.epoch \in EpochRow
  BY <1>4 DEF TaskRecord
<1> HIDE DEF goes, e
<1>6. TaskOK(goes)
  BY <1>5 DEF TaskOK
<1>7. next \in TaskRecord /\ TaskOK(next) /\ next.pc \in {"lock", "idle"}
  BY <1>5, <1>6, IdleOK DEF TaskOK, Idle
<1> HIDE DEF next
<1>8. {"lock", "idle"} \cap Locked = {}
  BY DEF Locked
<1>9. /\ epoch' \in EpochRow \cup {None} /\ bound' \in Bounds /\ basis' \in Int \cup {None}
      /\ calm' \in [Checks -> BOOLEAN]
  BY <1>2, <1>3 DEF WatcherInv, TypeOK, Bounds
<1>10. epoch' = epoch \/ (epoch'.born = t.epoch.born /\ epoch'.peak > t.epoch.peak)
  BY <1>1, <1>2, <1>3
<1>11. task'[c] = next
  BY <1>2 DEF WatcherInv, TypeOK
<1> QED BY <1>2, <1>7, <1>8, <1>9, <1>10, <1>11 DEF Outcome

LEMMA FlattenOutcome ==
    ASSUME WatcherInv, NEW c \in Checks, lock = c, NEW t \in TaskRecord, t.epoch \in EpochRow,
           NEW rows \in [Lots -> Nat], Flatten(c, t, rows)
    PROVE  Outcome(c, {})
<1>1. {"positions", "notify"} \subseteq Locked
  BY DEF Locked
<1>2. CASE Due(rows) # {}
  <2> DEFINE l == First(Due(rows))
             rest == [k \in Lots |-> IF Before(l, k) THEN rows[k] ELSE 0]
             qty == rows[l]
             next == [t EXCEPT !.pc = "positions", !.lot = l, !.qty = qty, !.rows = rest]
             clear == (\A m \in {"WATCHER", "MANUAL"} : working[l][m] = 0) /\ ~LostLeg(l)
  <2>1. /\ task' = [task EXCEPT ![c] = next]
        /\ calm' = [calm EXCEPT ![c] = clear]
        /\ UNCHANGED <<epoch, lock, bound, basis>>
    BY <1>2 DEF Flatten, Set
  <2>2. l \in Due(rows)
    BY <1>2, FirstOfLots DEF Due, Left
  <2>3. l \in Lots /\ ~InFlight(l)
    BY <2>2 DEF Due, Left
  <2> HIDE DEF l
  <2>4. rest \in [Lots -> Nat] /\ qty \in Nat
    BY <2>3
  <2> HIDE DEF rest, qty
  <2>5. next \in TaskRecord /\ next.pc = "positions" /\ next.lot = l /\ next.epoch \in EpochRow
    BY <2>3, <2>4 DEF TaskRecord, Locked
  <2> HIDE DEF next
  <2>6. TaskOK(next)
    BY <2>3, <2>5 DEF TaskOK
  <2>7. clear \in BOOLEAN
    OBVIOUS
  <2>8. clear => Clear(l)
    <3>1. leg[l] \in {"ARMED", "FAILED"} /\ working[l].LEG \in Nat
      <4>1. /\ leg \in [Lots -> {"ARMED", "FIRING", "PLACED", "FAILED"}]
            /\ working \in [Lots -> [Makers -> Nat]]
        BY DEF WatcherInv, TypeOK
      <4>2. leg[l] \notin {"FIRING", "PLACED"}
        BY <2>3 DEF InFlight
      <4>3. working[l] \in [Makers -> Nat] /\ "LEG" \in Makers
        BY <2>3, <4>1 DEF Makers
      <4> QED BY <2>3, <4>1, <4>2, <4>3
    <3>2. ~LostLeg(l) => ~(working[l].LEG > 0)
      BY <2>3, <3>1 DEF LostLeg, WatcherInv, LegsFired
    <3> QED BY <2>3, <3>1, <3>2 DEF Clear, Makers
  <2> HIDE DEF clear
  <2>9. /\ calm' \in [Checks -> BOOLEAN] /\ calm'[c] = clear
        /\ \A d \in Checks \ {c} : calm'[d] = calm[d]
    BY <2>1, <2>7 DEF WatcherInv, TypeOK
  <2>10. epoch' \in EpochRow \cup {None} /\ bound' \in Bounds /\ basis' \in Int \cup {None}
    BY <2>1 DEF WatcherInv, TypeOK, Bounds
  <2> QED BY <1>1, <2>1, <2>5, <2>6, <2>8, <2>9, <2>10 DEF Outcome
<1>3. CASE Due(rows) = {}
  <2> DEFINE next == [t EXCEPT !.pc = "notify", !.rows = NoLots, !.lot = None, !.qty = 0]
             born == bound.arm + bound.rearm + 1
  <2>1. /\ task' = [task EXCEPT ![c] = next]
        /\ epoch' = [t.epoch EXCEPT !.opening = t.equity, !.peak = t.equity, !.born = born]
        /\ bound' = [bound EXCEPT !.rearm = @ + 1]
        /\ basis' = t.equity - t.epoch.opening
        /\ UNCHANGED <<lock, calm>>
    BY <1>3 DEF Flatten, Set, FreshEpoch
  <2>2. bound \in Bounds /\ calm \in [Checks -> BOOLEAN]
    BY DEF WatcherInv, TypeOK, Bounds
  <2>3. born \in Nat /\ bound.rearm \in Nat
    BY <2>2 DEF Bounds
  <2>4. bound' \in Bounds /\ bound'.rearm = bound.rearm + 1
    BY <2>1, <2>2 DEF Bounds
  <2> HIDE DEF born
  <2>5. epoch' \in EpochRow /\ basis' \in Int
    <3>1. t.equity \in Int /\ t.epoch.opening \in Int
      BY DEF TaskRecord, EpochRow
    <3>2. basis' \in Int
      BY <2>1, <3>1
    <3>3. epoch' \in EpochRow
      BY <2>1, <2>3, <3>1 DEF EpochRow
    <3> QED BY <3>2, <3>3
  <2>6. NoLots \in [Lots -> Nat]
    BY DEF NoLots
  <2>7. next \in TaskRecord /\ next.pc = "notify" /\ next.epoch \in EpochRow
    BY <2>6 DEF TaskRecord, Locked
  <2> HIDE DEF next
  <2>8. TaskOK(next)
    BY <2>7 DEF TaskOK
  <2>9. bound'.rearm > bound.rearm
    BY <2>3, <2>4
  <2>10. task' = [task EXCEPT ![c] = next] /\ lock' = c /\ calm' = calm
    BY <2>1
  <2> QED BY <1>1, <2>2, <2>4, <2>5, <2>7, <2>8, <2>9, <2>10 DEF Outcome
<1> QED BY <1>2, <1>3

LEMMA RowsType ==
    ASSUME TypeOK
    PROVE  OpenRows \in [Lots -> Nat] /\ UntickedRows \in [Lots -> Nat] /\ NoLots \in [Lots -> Nat]
  BY DEF TypeOK, OpenRows, UntickedRows, RowsOf, NoLots

LEMMA RejudgeOutcome ==
    ASSUME WatcherInv, NEW c \in Checks, lock = c, NEW t \in TaskRecord, t.epoch \in EpochRow,
           NEW equity \in Int, Rejudge(c, t, equity)
    PROVE  Outcome(c, {})
<1> DEFINE next == [t EXCEPT !.equity = equity]
<1>1. next \in TaskRecord /\ next.epoch \in EpochRow
  BY DEF TaskRecord
<1>2. Flatten(c, next, OpenRows) \/ Stop(c)
  BY DEF Rejudge
<1> HIDE DEF next
<1>3. OpenRows \in [Lots -> Nat]
  BY RowsType DEF WatcherInv
<1> QED BY <1>1, <1>2, <1>3, FlattenOutcome, StopOutcome

\* What a value is for: before the lock, or under it.
Runs(c, pc) == \/ pc = "quote" /\ lock # c
               \/ pc = "requote" /\ lock = c

LEMMA VerdictOutcome ==
    ASSUME WatcherInv, NEW c \in Checks, NEW t \in TaskRecord, t.epoch \in EpochRow,
           NEW pc \in {"quote", "requote"}, Runs(c, pc), NEW equity \in Int,
           Verdict(c, t, pc, equity)
    PROVE  /\ pc = "quote" => Outcome(c, {t.epoch}) /\ task'[c].pc \in {"lock", "idle"}
           /\ pc = "requote" => Outcome(c, {})
<1>1. CASE pc = "quote"
  BY <1>1, JudgeOutcome DEF Verdict, Runs
<1>2. CASE pc = "requote"
  BY <1>2, RejudgeOutcome DEF Verdict, Runs
<1> QED BY <1>1, <1>2

\* A check that goes on quoting.
LEMMA QuotingOutcome ==
    ASSUME WatcherInv, NEW c \in Checks, NEW pc \in {"quote", "requote"}, Runs(c, pc),
           NEW t \in TaskRecord, TaskOK(t), t.pc = pc, Set(c, t),
           UNCHANGED <<epoch, lock, bound, calm, basis>>
    PROVE  Outcome(c, {})
<1>1. "quote" \notin Locked /\ "requote" \in Locked
  BY DEF Locked
<1>2. /\ epoch' \in EpochRow \cup {None} /\ bound' \in Bounds /\ basis' \in Int \cup {None}
      /\ calm' \in [Checks -> BOOLEAN]
  BY DEF WatcherInv, TypeOK, Bounds
<1> QED BY <1>1, <1>2 DEF Outcome, Set, Runs

LEMMA ValueOutcome ==
    ASSUME WatcherInv, NEW c \in Checks, NEW t \in TaskRecord, t.epoch \in EpochRow,
           NEW pc \in {"quote", "requote"}, Runs(c, pc), Value(c, t, pc)
    PROVE  /\ pc = "quote" => Outcome(c, {t.epoch})
           /\ pc = "requote" => Outcome(c, {})
<1> DEFINE rows == IF t.token THEN UntickedRows ELSE NoLots
           equity == t.epoch.opening + Pnl
<1>1. rows \in [Lots -> Nat]
  BY RowsType DEF WatcherInv
<1>2. equity \in Int
  BY PnlType DEF WatcherInv, EpochRow
<1>3. CASE Left(rows) = {}
  <2>1. Verdict(c, t, pc, equity)
    BY <1>3 DEF Value
  <2> HIDE DEF equity
  <2> QED BY <1>2, <2>1, VerdictOutcome
<1>4. CASE Left(rows) # {}
  <2> DEFINE next == [t EXCEPT !.pc = pc, !.rows = rows, !.equity = equity]
  <2>1. Set(c, next) /\ UNCHANGED <<epoch, lock, bound, calm, basis>>
    BY <1>4 DEF Value
  <2> HIDE DEF rows, equity
  <2>2. /\ next \in TaskRecord /\ next.pc = pc /\ next.rows = rows /\ next.epoch \in EpochRow
    BY <1>1, <1>2 DEF TaskRecord, Locked
  <2> HIDE DEF next
  <2>3. TaskOK(next)
    BY <1>4, <2>2 DEF TaskOK
  <2>4. Outcome(c, {})
    BY <2>1, <2>2, <2>3, QuotingOutcome
  <2>5. Outcome(c, {}) => Outcome(c, {t.epoch})
    BY DEF Outcome
  <2> QED BY <2>4, <2>5
<1> QED BY <1>3, <1>4

-----------------------------------------------------------------------------
(* What each step of a check comes to.                                     *)

LEMMA TaskFacts ==
    ASSUME WatcherInv, NEW c \in Checks
    PROVE  /\ TaskOK(task[c]) /\ task[c] \in TaskRecord
           /\ task[c].pc # "idle" => task[c].epoch \in EpochRow
           /\ task[c].pc \in Locked <=> lock = c
  BY DEF WatcherInv, TaskOK, LockHeld

LEMMA BeginCheckOutcome ==
    ASSUME WatcherInv, NEW c \in Checks, BeginCheck(c)
    PROVE  epoch # None /\ Outcome(c, {epoch})
<1> DEFINE next == [Idle EXCEPT !.epoch = epoch, !.token = token]
<1>1. task[c].pc = "idle" /\ epoch # None /\ Value(c, next, "quote")
  BY DEF BeginCheck
<1>2. epoch \in EpochRow /\ token \in BOOLEAN
  BY <1>1 DEF WatcherInv, TypeOK
<1>3. Idle \in TaskRecord
  BY IdleOK DEF TaskOK
<1>4. next \in TaskRecord /\ next.epoch = epoch
  BY <1>2, <1>3 DEF TaskRecord
<1> HIDE DEF next
<1>5. Runs(c, "quote")
  BY <1>1, TaskFacts DEF Runs, Locked
<1>6. Outcome(c, {next.epoch})
  BY <1>1, <1>2, <1>4, <1>5, ValueOutcome
<1> QED BY <1>1, <1>4, <1>6

LEMMA QuoteReplyOutcome ==
    ASSUME WatcherInv, NEW c \in Checks, QuoteReply(c)
    PROVE  \/ Outcome(c, {})
           \/ task[c].pc = "quote" /\ task'[c] # task[c] /\ Outcome(c, {task[c].epoch})
<1> DEFINE l == First(Left(task[c].rows))
           next == [task[c] EXCEPT !.rows[l] = 0]
           pc == task[c].pc
<1>1. /\ pc \in {"quote", "requote"} /\ task[c] \in TaskRecord /\ task[c].epoch \in EpochRow
      /\ Left(task[c].rows) # {} /\ Runs(c, pc)
  BY TaskFacts DEF QuoteReply, TaskOK, Runs, Locked
<1>2. l \in Lots /\ l \in Left(task[c].rows)
  BY <1>1, FirstOfLots DEF Left
<1>3. PICK worth \in Worth(l, task[c].rows[l]) :
        IF Left(next.rows) # {}
        THEN /\ Set(c, [next EXCEPT !.equity = next.equity + worth])
             /\ UNCHANGED <<epoch, lock, bound, calm, basis>>
        ELSE Verdict(c, next, next.pc, next.equity + worth)
  BY DEF QuoteReply
<1>4. worth \in Int
  <2>1. task[c].rows[l] \in Int /\ l \in Lots /\ Prices \subseteq Int
    BY <1>1, <1>2, PricesAssumption DEF TaskRecord
  <2>2. \A p \in Prices : LivePnl(l, task[c].rows[l], p) \in Int
    BY <2>1, LivePnlType
  <2> QED BY <2>2 DEF Worth
<1> HIDE DEF l
<1>5. /\ next \in TaskRecord /\ next.pc = pc /\ next.epoch = task[c].epoch /\ next.equity \in Int
  BY <1>1, <1>2 DEF TaskRecord
<1> HIDE DEF next
<1> DEFINE equity == next.equity + worth
           goes == [next EXCEPT !.equity = equity]
<1>6. equity \in Int
  BY <1>4, <1>5
<1>7. CASE Left(next.rows) # {}
  <2>1. Set(c, goes) /\ UNCHANGED <<epoch, lock, bound, calm, basis>>
    BY <1>3, <1>7
  <2> HIDE DEF equity
  <2>2. /\ goes \in TaskRecord /\ goes.pc = pc /\ goes.epoch \in EpochRow /\ goes.rows = next.rows
    BY <1>1, <1>5, <1>6 DEF TaskRecord
  <2> HIDE DEF goes
  <2>3. TaskOK(goes)
    BY <1>1, <1>7, <2>2 DEF TaskOK
  <2> QED BY <1>1, <2>1, <2>2, <2>3, QuotingOutcome
<1>8. CASE Left(next.rows) = {}
  <2>1. Verdict(c, next, pc, equity)
    BY <1>3, <1>5, <1>8
  <2> HIDE DEF equity
  <2>2. /\ pc = "quote" => Outcome(c, {next.epoch}) /\ task'[c].pc \in {"lock", "idle"}
        /\ pc = "requote" => Outcome(c, {})
    BY <1>1, <1>5, <1>6, <2>1, VerdictOutcome
  <2> QED BY <1>1, <1>5, <2>2
<1> QED BY <1>7, <1>8

LEMMA ReconsiderOutcome ==
    ASSUME WatcherInv, NEW c \in Checks, Reconsider(c)
    PROVE  Outcome(c, {})
<1>1. task[c].pc = "locked" /\ lock = c /\ task[c] \in TaskRecord
  BY TaskFacts DEF Reconsider, Locked
<1>2. CASE epoch = None
  BY <1>2, StopOutcome DEF Reconsider
<1>3. CASE epoch # None
  <2> DEFINE next == [task[c] EXCEPT !.epoch = epoch]
  <2>1. Value(c, next, "requote") /\ epoch \in EpochRow
    BY <1>3 DEF Reconsider, WatcherInv, TypeOK
  <2>2. next \in TaskRecord /\ next.epoch \in EpochRow
    BY <1>1, <2>1 DEF TaskRecord
  <2> HIDE DEF next
  <2> QED BY <1>1, <2>1, <2>2, ValueOutcome DEF Runs
<1> QED BY <1>2, <1>3

LEMMA FlattensOutcome ==
    ASSUME WatcherInv, NEW c \in Checks, task[c].pc \in Locked,
           Flatten(c, task[c], task[c].rows)
    PROVE  Outcome(c, {})
<1>1. /\ lock = c /\ task[c] \in TaskRecord /\ task[c].epoch \in EpochRow
      /\ task[c].rows \in [Lots -> Nat]
  BY TaskFacts DEF Locked, TaskRecord
<1> QED BY <1>1, FlattenOutcome

\* The reply to the call for the positions moves on, or finds a quantity to exit.
LEMMA PositionsReplyOutcome ==
    ASSUME WatcherInv, NEW c \in Checks, PositionsReply(c)
    PROVE  \/ Outcome(c, {})
           \/ /\ task[c].pc = "positions"
              /\ \E qty \in Nat : /\ qty <= Closeable(task[c].lot)
                                  /\ task' = [task EXCEPT ![c] = [task[c] EXCEPT !.pc = "placing",
                                                                                 !.qty = qty]]
              /\ UNCHANGED <<epoch, lock, bound, calm, basis>>
<1> DEFINE qty == ExitQty(task[c].lot, task[c].qty)
<1>1. task[c].pc = "positions" /\ task[c] \in TaskRecord /\ task[c].lot \in Lots
  BY TaskFacts DEF PositionsReply, TaskOK
<1>2. qty \in Int /\ qty <= Closeable(task[c].lot)
  <2>1. position[task[c].lot] \in Int /\ Sign(task[c].lot) \in Int /\ task[c].qty \in Int
    BY <1>1 DEF WatcherInv, TypeOK, TaskRecord, Sign
  <2>2. Closeable(task[c].lot) \in Int
    BY <2>1 DEF Closeable, Larger
  <2> QED BY <2>1, <2>2 DEF ExitQty, Smaller
<1>3. CASE qty <= 0
  <2>1. Flatten(c, task[c], task[c].rows)
    BY <1>3 DEF PositionsReply
  <2> QED BY <1>1, <2>1, FlattensOutcome DEF Locked
<1>4. CASE ~(qty <= 0)
  <2>1. /\ task' = [task EXCEPT ![c] = [task[c] EXCEPT !.pc = "placing", !.qty = qty]]
        /\ UNCHANGED <<epoch, lock, bound, calm, basis>>
    BY <1>4 DEF PositionsReply, Set
  <2> HIDE DEF qty
  <2>2. qty \in Nat
    BY <1>2, <1>4
  <2> QED BY <1>1, <1>2, <2>1, <2>2
<1> QED BY <1>3, <1>4

LEMMA CountedBounds ==
    ASSUME TypeOK, NEW b \in DOMAIN bound, NEW limit, Counted(b, limit)
    PROVE  bound' \in Bounds /\ bound'[b] = bound[b] + 1
  BY DEF Counted, TypeOK, Bounds

LEMMA CallRaisesOutcome ==
    ASSUME WatcherInv, NEW c \in Checks, CallRaises(c)
    PROVE  Outcome(c, {})
<1>1. Idle \in TaskRecord /\ TaskOK(Idle) /\ Idle.pc = "idle"
  BY IdleOK DEF TaskOK, Idle
<1>2. task' = [task EXCEPT ![c] = Idle] /\ UNCHANGED <<epoch, calm, basis>>
  BY DEF CallRaises, Set, ledger, past
<1>3. lock' = IF lock = c THEN None ELSE lock
  BY DEF CallRaises, Released
<1>4. "idle" \notin Locked /\ lock' # c
  BY <1>3, FreeLockAssumption DEF Locked
<1>5. /\ epoch' \in EpochRow \cup {None} /\ basis' \in Int \cup {None}
      /\ calm' \in [Checks -> BOOLEAN]
  BY <1>2 DEF WatcherInv, TypeOK
<1>6. bound' \in Bounds
  <2>1. TypeOK /\ "fail" \in DOMAIN bound /\ Counted("fail", MaxFailures)
    BY DEF WatcherInv, TypeOK, CallRaises
  <2> QED BY <2>1, CountedBounds
<1> HIDE DEF Idle
<1> QED BY <1>1, <1>2, <1>3, <1>4, <1>5, <1>6 DEF Outcome

-----------------------------------------------------------------------------
(* The steps keep the invariant.                                           *)

LEMMA OutcomeInv ==
    ASSUME WatcherInv, NEW c \in Checks, NEW E, Outcome(c, E),
           UNCHANGED <<remaining, realized, leg, account, env>>
    PROVE  WatcherInv'
<1>1. PICK t \in TaskRecord :
        /\ TaskOK(t) /\ t.pc \notin {"placing", "placed"}
        /\ task' = [task EXCEPT ![c] = t]
        /\ t.pc \in Locked <=> lock' = c
        /\ (t.pc = "positions" /\ calm'[c]) => Clear(t.lot)
  BY DEF Outcome
<1>2. /\ lock' = lock \/ (lock = c /\ lock' = None)
      /\ calm' \in [Checks -> BOOLEAN] /\ \A d \in Checks \ {c} : calm'[d] = calm[d]
      /\ epoch' \in EpochRow \cup {None} /\ bound' \in Bounds /\ basis' \in Int \cup {None}
  BY DEF Outcome
<1>3. /\ remaining' = remaining /\ realized' = realized /\ leg' = leg /\ position' = position
      /\ working' = working /\ pushes' = pushes /\ mark' = mark /\ open' = open /\ token' = token
      /\ legCall' = legCall
  BY DEF account, env
<1>4. /\ task \in [Checks -> TaskRecord] /\ \A d \in Checks : TaskOK(task[d])
      /\ LockHeld /\ LegsFired /\ CalmIsClear
  BY DEF WatcherInv, TypeOK, TaskRecord
<1>5. task'[c] = t /\ \A d \in Checks \ {c} : task'[d] = task[d]
  BY <1>1, <1>4
<1>6. TypeOK'
  <2>1. task' \in [Checks -> TaskRecord]
    BY <1>1, <1>4
  <2>2. lock' \in Checks \cup {None}
    BY <1>2 DEF WatcherInv, TypeOK
  <2> QED BY <1>2, <1>3, <2>1, <2>2 DEF WatcherInv, TypeOK, TaskRecord, Bounds
<1>7. \A d \in Checks : TaskOK(task[d])'
  BY <1>1, <1>4, <1>5 DEF TaskOK, Left
<1>8. LockHeld'
  <2>1. \A d \in Checks \ {c} : task[d].pc \in Locked <=> lock' = d
    BY <1>2, <1>4, FreeLockAssumption DEF LockHeld
  <2> QED BY <1>1, <1>5, <2>1 DEF LockHeld
<1>9. LegsFired'
  BY <1>3, <1>4 DEF LegsFired
<1>10. CalmIsClear'
  <2>1. \A l : Clear(l)' = Clear(l) /\ Closeable(l)' = Closeable(l)
    BY <1>3 DEF Clear, InFlight, Closeable, Sign
  <2> SUFFICES ASSUME NEW d \in Checks, task'[d].pc \in {"positions", "placing"}, calm'[d]
               PROVE  /\ Clear(task'[d].lot)
                      /\ task'[d].pc = "placing" => task'[d].qty <= Closeable(task'[d].lot)
    BY <1>3 DEF CalmIsClear, Clear, InFlight, Closeable, Sign
  <2>2. CASE d = c
    BY <1>1, <1>5, <2>2
  <2>3. CASE d # c
    BY <1>2, <1>4, <1>5, <2>3 DEF CalmIsClear
  <2> QED BY <2>2, <2>3
<1> QED BY <1>6, <1>7, <1>8, <1>9, <1>10 DEF WatcherInv

LEMMA PositionsReplyInv ==
    ASSUME WatcherInv, NEW c \in Checks, PositionsReply(c)
    PROVE  WatcherInv'
<1>1. UNCHANGED <<remaining, realized, leg, account, env>>
  BY DEF PositionsReply
<1>2. CASE Outcome(c, {})
  BY <1>1, <1>2, OutcomeInv
<1>3. CASE /\ task[c].pc = "positions"
           /\ \E qty \in Nat : /\ qty <= Closeable(task[c].lot)
                               /\ task' = [task EXCEPT ![c] = [task[c] EXCEPT !.pc = "placing",
                                                                              !.qty = qty]]
           /\ UNCHANGED <<epoch, lock, bound, calm, basis>>
  <2>1. PICK qty \in Nat : /\ qty <= Closeable(task[c].lot)
                           /\ task' = [task EXCEPT ![c] = [task[c] EXCEPT !.pc = "placing",
                                                                          !.qty = qty]]
    BY <1>3
  <2> DEFINE t == [task[c] EXCEPT !.pc = "placing", !.qty = qty]
  <2>2. /\ task \in [Checks -> TaskRecord] /\ \A d \in Checks : TaskOK(task[d])
        /\ TypeOK /\ LockHeld /\ LegsFired /\ CalmIsClear
    BY DEF WatcherInv, TypeOK, TaskRecord
  <2>3. /\ t \in TaskRecord /\ t.pc = "placing" /\ t.qty = qty /\ t.lot = task[c].lot
        /\ t.epoch = task[c].epoch
    BY <2>2 DEF TaskRecord, Locked
  <2>4. task' = [task EXCEPT ![c] = t]
    BY <2>1
  <2> HIDE DEF t
  <2>5. task'[c] = t /\ \A d \in Checks \ {c} : task'[d] = task[d]
    BY <2>2, <2>4
  <2>6. /\ epoch' = epoch /\ lock' = lock /\ bound' = bound /\ calm' = calm /\ basis' = basis
        /\ remaining' = remaining /\ realized' = realized /\ leg' = leg /\ position' = position
        /\ working' = working /\ pushes' = pushes /\ mark' = mark /\ open' = open
        /\ token' = token /\ legCall' = legCall
    BY <1>1, <1>3 DEF account, env
  <2>7. TypeOK'
    <3>1. task' \in [Checks -> TaskRecord]
      BY <2>2, <2>3, <2>4
    <3> QED BY <2>2, <2>6, <3>1 DEF TypeOK, TaskRecord
  <2>8. \A d \in Checks : TaskOK(task[d])'
    BY <1>3, <2>2, <2>3, <2>5 DEF TaskOK, Left
  <2>9. LockHeld'
    <3>1. {"positions", "placing"} \subseteq Locked
      BY DEF Locked
    <3> QED BY <1>3, <2>2, <2>3, <2>5, <2>6, <3>1 DEF LockHeld
  <2>10. LegsFired'
    BY <2>2, <2>6 DEF LegsFired
  <2>11. CalmIsClear'
    <3>1. /\ task'[c].lot = task[c].lot /\ task'[c].qty = qty /\ task[c].pc = "positions"
      BY <1>3, <2>3, <2>5
    <3> SUFFICES ASSUME NEW d \in Checks, task'[d].pc \in {"positions", "placing"}, calm[d]
                 PROVE  /\ Clear(task'[d].lot)
                        /\ task'[d].pc = "placing" => task'[d].qty <= Closeable(task'[d].lot)
      BY <2>6 DEF CalmIsClear, Clear, InFlight, Closeable, Sign
    <3>2. CASE d = c
      BY <2>1, <2>2, <3>1, <3>2 DEF CalmIsClear
    <3>3. CASE d # c
      BY <2>2, <2>5, <3>3 DEF CalmIsClear
    <3> QED BY <3>2, <3>3
  <2> QED BY <2>7, <2>8, <2>9, <2>10, <2>11 DEF WatcherInv
<1> QED BY <1>2, <1>3, PositionsReplyOutcome

LEMMA AcquireLockInv ==
    ASSUME WatcherInv, NEW c \in Checks, AcquireLock(c)
    PROVE  WatcherInv'
<1> DEFINE t == [task[c] EXCEPT !.pc = "locked"]
<1>1. /\ task \in [Checks -> TaskRecord] /\ \A d \in Checks : TaskOK(task[d])
      /\ TypeOK /\ LockHeld /\ LegsFired /\ CalmIsClear
  BY DEF WatcherInv, TypeOK, TaskRecord
<1>2. /\ task[c].pc = "lock" /\ lock = None /\ lock' = c /\ task' = [task EXCEPT ![c] = t]
  BY DEF AcquireLock, LockIsFree
<1>3. /\ epoch' = epoch /\ bound' = bound /\ calm' = calm /\ basis' = basis
      /\ remaining' = remaining /\ realized' = realized /\ leg' = leg /\ position' = position
      /\ working' = working /\ pushes' = pushes /\ mark' = mark /\ open' = open
      /\ token' = token /\ legCall' = legCall
  BY DEF AcquireLock, ledger, account, env, past
<1>4. /\ t \in TaskRecord /\ t.pc = "locked" /\ t.epoch = task[c].epoch
  BY <1>1 DEF TaskRecord, Locked
<1> HIDE DEF t
<1>5. task'[c] = t /\ \A d \in Checks \ {c} : task'[d] = task[d]
  BY <1>1, <1>2
<1>6. TypeOK'
  <2>1. task' \in [Checks -> TaskRecord]
    BY <1>1, <1>2, <1>4
  <2> QED BY <1>1, <1>2, <1>3, <2>1 DEF TypeOK, TaskRecord
<1>7. \A d \in Checks : TaskOK(task[d])'
  BY <1>1, <1>2, <1>4, <1>5 DEF TaskOK, Left
<1>8. LockHeld'
  BY <1>1, <1>2, <1>4, <1>5, FreeLockAssumption DEF LockHeld, Locked
<1>9. LegsFired'
  BY <1>1, <1>3 DEF LegsFired
<1>10. CalmIsClear'
  BY <1>1, <1>3, <1>4, <1>5 DEF CalmIsClear, Clear, InFlight, Closeable, Sign
<1> QED BY <1>6, <1>7, <1>8, <1>9, <1>10 DEF WatcherInv

\* An order reaches the broker: the lock keeps the other checks from looking meanwhile.
LEMMA PlaceReachesInv ==
    ASSUME WatcherInv, NEW c \in Checks, PlaceReaches(c)
    PROVE  WatcherInv'
<1> DEFINE t == [task[c] EXCEPT !.pc = "placed"]
           l == task[c].lot
           more == [working[l] EXCEPT !.WATCHER = @ + task[c].qty]
<1>1. /\ task \in [Checks -> TaskRecord] /\ \A d \in Checks : TaskOK(task[d])
      /\ TypeOK /\ LockHeld /\ LegsFired /\ CalmIsClear
  BY DEF WatcherInv, TypeOK, TaskRecord
<1>2. /\ task[c].pc = "placing" /\ task' = [task EXCEPT ![c] = t]
      /\ working' = [working EXCEPT ![l] = more]
  BY DEF PlaceReaches, Rest
<1>3. /\ epoch' = epoch /\ bound' = bound /\ calm' = calm /\ basis' = basis /\ lock' = lock
      /\ remaining' = remaining /\ realized' = realized /\ leg' = leg /\ position' = position
      /\ pushes' = pushes /\ mark' = mark /\ open' = open /\ token' = token
      /\ legCall' = legCall
  BY DEF PlaceReaches, ledger, env, past
<1>4. /\ t \in TaskRecord /\ t.pc = "placed" /\ t.epoch = task[c].epoch /\ t.lot = l
      /\ l \in Lots
  BY <1>1, <1>2 DEF TaskRecord, Locked, TaskOK
<1>5. more \in [Makers -> Nat] /\ more.LEG = working[l].LEG
  <2>1. working[l] \in [Makers -> Nat] /\ task[c].qty \in Nat
    BY <1>1, <1>4 DEF TypeOK, TaskRecord
  <2> QED BY <2>1 DEF Makers
<1> HIDE DEF t, more
<1>6. task'[c] = t /\ \A d \in Checks \ {c} : task'[d] = task[d]
  BY <1>1, <1>2
<1>7. TypeOK'
  <2>1. task' \in [Checks -> TaskRecord] /\ working' \in [Lots -> [Makers -> Nat]]
    BY <1>1, <1>2, <1>4, <1>5 DEF TypeOK
  <2> QED BY <1>1, <1>3, <2>1 DEF TypeOK, TaskRecord
<1>8. \A d \in Checks : TaskOK(task[d])'
  BY <1>1, <1>2, <1>4, <1>6 DEF TaskOK, Left
<1>9. LockHeld'
  BY <1>1, <1>2, <1>3, <1>4, <1>6 DEF LockHeld, Locked
<1>10. LegsFired'
  <2>1. \A k \in Lots : working'[k].LEG = working[k].LEG
    BY <1>1, <1>2, <1>5 DEF TypeOK
  <2> QED BY <1>1, <1>3, <2>1 DEF LegsFired
<1>11. \A d \in Checks : task'[d].pc \notin {"positions", "placing"}
  BY <1>1, <1>2, <1>4, <1>6 DEF LockHeld, Locked
<1>12. CalmIsClear'
  BY <1>11 DEF CalmIsClear
<1> QED BY <1>7, <1>8, <1>9, <1>10, <1>12 DEF WatcherInv

\* A step of another actor: what a check found of its lot holds on, or the
\* check is no longer calm.
Undisturbed ==
    \A c \in Checks, l \in Lots :
        (task[c].pc \in {"positions", "placing"} /\ task[c].lot = l /\ calm'[c]) =>
            /\ calm[c]
            /\ Clear(l) => Clear(l)'
            /\ position'[l] = position[l]

LEMMA OthersInv ==
    ASSUME WatcherInv, TypeOK', LegsFired', Undisturbed, UNCHANGED checks
    PROVE  WatcherInv'
<1>1. task' = task /\ lock' = lock
  BY DEF checks
<1>2. (\A c \in Checks : TaskOK(task[c]))' /\ LockHeld'
  BY <1>1 DEF WatcherInv, TaskOK, Left, LockHeld
<1>3. CalmIsClear'
  <2>1. \A c \in Checks : task[c].pc \in {"positions", "placing"} => task[c].lot \in Lots
    BY TaskFacts DEF TaskOK
  <2> SUFFICES ASSUME NEW c \in Checks, NEW l \in Lots,
                      task[c].pc \in {"positions", "placing"}, task[c].lot = l, calm'[c]
               PROVE  Clear(l)' /\ (task[c].pc = "placing" => task[c].qty <= Closeable(l)')
    BY <1>1, <2>1 DEF CalmIsClear, Clear, InFlight, Closeable, Sign
  <2>2. calm[c] /\ (Clear(l) => Clear(l)') /\ position'[l] = position[l]
    BY DEF Undisturbed
  <2>3. Clear(l) /\ (task[c].pc = "placing" => task[c].qty <= Closeable(l))
    BY <2>2 DEF WatcherInv, CalmIsClear
  <2> QED BY <2>2, <2>3 DEF Closeable, Sign
<1> QED BY <1>2, <1>3 DEF WatcherInv

LEMMA QuietUndisturbed ==
    ASSUME WatcherInv, UNCHANGED <<working, leg, position, legCall, calm>>
    PROVE  Undisturbed /\ LegsFired'
<1>1. /\ working' = working /\ leg' = leg /\ position' = position /\ calm' = calm
      /\ legCall' = legCall
  OBVIOUS
<1> QED BY <1>1 DEF WatcherInv, Undisturbed, LegsFired, Clear, InFlight

\* A step about lot l leaves the lots alone that the calm checks are at.
LEMMA DisturbUndisturbed ==
    ASSUME WatcherInv, NEW l \in Lots, Disturb(l),
           \A k \in Lots \ {l} : /\ working'[k] = working[k] /\ leg'[k] = leg[k]
                                 /\ position'[k] = position[k]
    PROVE  Undisturbed /\ calm' \in [Checks -> BOOLEAN]
<1>1. \A c \in Checks : task[c].pc \in {"positions", "placing"} => task[c].lot \in Lots
  BY TaskFacts DEF TaskOK
<1>2. \A c \in Checks :
        calm'[c] = (calm[c] /\ ~(task[c].pc \in {"positions", "placing"} /\ task[c].lot = l))
  BY DEF Disturb
<1>3. Undisturbed
  BY <1>1, <1>2 DEF Undisturbed, Clear, InFlight
<1> QED BY <1>3 DEF Disturb, WatcherInv, TypeOK

LEMMA ArmInv ==
    ASSUME WatcherInv, NEW a \in Arms, Arm(a)
    PROVE  WatcherInv'
<1>1. /\ UNCHANGED <<remaining, realized, leg, account, env, checks, calm>> /\ basis' = None
      /\ epoch' = [opening |-> a.opening, peak |-> a.peak, x |-> a.x, mode |-> a.mode,
                   born |-> bound.arm + bound.rearm + 1]
  BY DEF Arm
<1>2. TypeOK /\ bound \in Bounds /\ bound.arm \in Nat /\ bound.rearm \in Nat
  BY DEF WatcherInv, TypeOK, Bounds
<1>3. bound' \in Bounds
  BY <1>2, CountedBounds DEF Arm, Bounds
<1>4. epoch' \in EpochRow
  <2>1. a.opening \in Int /\ a.peak \in Int /\ a.x \in Nat \ {0} /\ a.mode \in Modes
    BY ArmsAssumption
  <2> QED BY <1>1, <1>2, <2>1 DEF EpochRow
<1>5. TypeOK'
  BY <1>1, <1>2, <1>3, <1>4 DEF TypeOK, Bounds, account, env, checks
<1>6. Undisturbed /\ LegsFired'
  BY <1>1, QuietUndisturbed DEF account, env
<1> QED BY <1>1, <1>5, <1>6, OthersInv

LEMMA DisarmInv ==
    ASSUME WatcherInv, Disarm
    PROVE  WatcherInv'
<1>1. /\ UNCHANGED <<remaining, realized, leg, account, env, checks, bound, calm>>
      /\ basis' = None /\ epoch' = None
  BY DEF Disarm
<1>2. TypeOK'
  BY <1>1 DEF WatcherInv, TypeOK, account, env, checks
<1>3. Undisturbed /\ LegsFired'
  BY <1>1, QuietUndisturbed DEF account, env
<1> QED BY <1>1, <1>2, <1>3, OthersInv

LegCall == [at : {"none", "sending", "arrived"}, qty : Nat]

LEMMA LegFiresInv ==
    ASSUME WatcherInv, NEW l \in Lots, LegFires(l)
    PROVE  WatcherInv'
<1>1. /\ leg[l] = "ARMED" /\ Disturb(l)
      /\ UNCHANGED <<epoch, remaining, realized, account, mark, open, token, checks, bound, basis>>
  BY DEF LegFires
<1>2. working' = working /\ position' = position
  BY <1>1 DEF account
<1>3. /\ leg \in [Lots -> {"ARMED", "FIRING", "PLACED", "FAILED"}]
      /\ legCall \in [Lots -> LegCall] /\ remaining[l] \in Nat
  BY DEF WatcherInv, TypeOK, LegCall
<1>4. /\ leg' \in [Lots -> {"ARMED", "FIRING", "PLACED", "FAILED"}]
      /\ legCall' \in [Lots -> LegCall]
      /\ \A k \in Lots \ {l} : leg'[k] = leg[k] /\ legCall'[k] = legCall[k]
      /\ leg'[l] = "FIRING" \/ (leg'[l] = "FAILED" /\ legCall' = legCall)
  <2>1. CASE /\ leg' = [leg EXCEPT ![l] = "FIRING"]
             /\ legCall' = [legCall EXCEPT ![l] = [at |-> "sending", qty |-> remaining[l]]]
    BY <1>3, <2>1 DEF LegCall
  <2>2. CASE leg' = [leg EXCEPT ![l] = "FAILED"] /\ legCall' = legCall
    BY <1>3, <2>2
  <2> QED BY <2>1, <2>2 DEF LegFires
<1>5. Undisturbed /\ calm' \in [Checks -> BOOLEAN]
  BY <1>1, <1>2, <1>4, DisturbUndisturbed
<1>6. TypeOK'
  BY <1>1, <1>4, <1>5 DEF WatcherInv, TypeOK, account, checks, LegCall
<1>7. LegsFired'
  BY <1>1, <1>2, <1>3, <1>4 DEF WatcherInv, LegsFired
<1> QED BY <1>1, <1>5, <1>6, <1>7, OthersInv

LEMMA RestsTyped ==
    ASSUME WatcherInv, NEW l \in Lots, NEW maker \in Makers, NEW qty \in Nat, Rest(l, maker, qty)
    PROVE  /\ working' \in [Lots -> [Makers -> Nat]]
           /\ \A k \in Lots \ {l} : working'[k] = working[k]
           /\ \A m \in Makers \ {maker} : working'[l][m] = working[l][m]
<1> DEFINE more == [working[l] EXCEPT ![maker] = @ + qty]
<1>1. working \in [Lots -> [Makers -> Nat]] /\ working' = [working EXCEPT ![l] = more]
  BY DEF WatcherInv, TypeOK, Rest
<1>2. more \in [Makers -> Nat] /\ \A m \in Makers \ {maker} : more[m] = working[l][m]
  BY <1>1
<1> HIDE DEF more
<1> QED BY <1>1, <1>2

\* What a step of lot l's leg that follows its FIRING may do to the lots.
LEMMA FiringUndisturbed ==
    ASSUME WatcherInv, NEW l \in Lots, leg[l] = "FIRING", UNCHANGED <<position, calm>>,
           \A k \in Lots \ {l} : working'[k] = working[k] /\ leg'[k] = leg[k]
    PROVE  Undisturbed
<1>1. ~Clear(l)
  BY DEF Clear, InFlight
<1>2. \A k \in Lots \ {l} : Clear(k) => Clear(k)'
  BY DEF Clear, InFlight
<1> QED BY <1>1, <1>2 DEF Undisturbed

LEMMA LegReachesInv ==
    ASSUME WatcherInv, NEW l \in Lots, LegReaches(l)
    PROVE  WatcherInv'
<1>1. /\ legCall[l].at = "sending" /\ Rest(l, "LEG", legCall[l].qty)
      /\ legCall' = [legCall EXCEPT ![l].at = "arrived"]
      /\ UNCHANGED <<ledger, position, pushes, mark, open, token, checks, bound, past>>
  BY DEF LegReaches
<1>2. legCall \in [Lots -> LegCall] /\ "LEG" \in Makers
  BY DEF WatcherInv, TypeOK, LegCall, Makers
<1>3. /\ legCall' \in [Lots -> LegCall]
      /\ \A k \in Lots \ {l} : legCall'[k] = legCall[k]
  BY <1>1, <1>2 DEF LegCall
<1>4. legCall[l].qty \in Nat
  BY <1>2 DEF LegCall
<1>5. /\ working' \in [Lots -> [Makers -> Nat]]
      /\ \A k \in Lots \ {l} : working'[k] = working[k]
  BY <1>1, <1>2, <1>4, RestsTyped
<1>6. leg[l] = "FIRING" /\ leg' = leg
  BY <1>1 DEF WatcherInv, LegsFired, ledger
<1>7. Undisturbed
  BY <1>1, <1>5, <1>6, FiringUndisturbed DEF past
<1>8. LegsFired'
  BY <1>3, <1>5, <1>6 DEF WatcherInv, LegsFired
<1>9. TypeOK'
  BY <1>1, <1>3, <1>5 DEF WatcherInv, TypeOK, ledger, checks, past, LegCall
<1> QED BY <1>1, <1>7, <1>8, <1>9, OthersInv

LEMMA LegReturnsInv ==
    ASSUME WatcherInv, NEW l \in Lots, LegReturns(l)
    PROVE  WatcherInv'
<1>1. /\ legCall' = [legCall EXCEPT ![l] = NoLegCall] /\ legCall[l].at # "none"
      /\ UNCHANGED <<epoch, remaining, realized, account, mark, open, token, checks, bound, past>>
  BY DEF LegReturns
<1>2. /\ legCall \in [Lots -> LegCall] /\ NoLegCall \in LegCall
      /\ leg \in [Lots -> {"ARMED", "FIRING", "PLACED", "FAILED"}]
  BY DEF WatcherInv, TypeOK, LegCall, NoLegCall
<1>3. /\ legCall' \in [Lots -> LegCall] /\ legCall'[l].at = "none"
      /\ \A k \in Lots \ {l} : legCall'[k] = legCall[k]
  BY <1>1, <1>2 DEF NoLegCall
<1>4. /\ leg' \in [Lots -> {"ARMED", "FIRING", "PLACED", "FAILED"}]
      /\ \A k \in Lots \ {l} : leg'[k] = leg[k]
      /\ leg'[l] \in {"PLACED", "FAILED"}
  BY <1>2 DEF LegReturns
<1>5. leg[l] = "FIRING" /\ working' = working
  BY <1>1 DEF WatcherInv, LegsFired, account
<1>6. Undisturbed
  BY <1>1, <1>4, <1>5, FiringUndisturbed DEF past, account
<1>7. LegsFired'
  BY <1>3, <1>4, <1>5 DEF WatcherInv, LegsFired
<1>8. TypeOK'
  BY <1>1, <1>3, <1>4 DEF WatcherInv, TypeOK, account, checks, past, LegCall
<1> QED BY <1>1, <1>6, <1>7, <1>8, OthersInv

LEMMA CloseableType ==
    ASSUME TypeOK, NEW l \in Lots
    PROVE  Closeable(l) \in Nat
<1>1. position[l] \in Int /\ Sign(l) \in Int
  BY DEF TypeOK, Sign
<1> QED BY <1>1 DEF Closeable, Larger

LEMMA ManualExitInv ==
    ASSUME WatcherInv, NEW l \in Lots, ManualExit(l)
    PROVE  WatcherInv'
<1>1. /\ Rest(l, "MANUAL", Closeable(l)) /\ Disturb(l)
      /\ UNCHANGED <<ledger, position, pushes, env, checks, basis>>
  BY DEF ManualExit
<1>2. TypeOK /\ "MANUAL" \in Makers /\ "LEG" \in Makers /\ Closeable(l) \in Nat
  BY CloseableType DEF WatcherInv, Makers
<1>3. /\ working' \in [Lots -> [Makers -> Nat]]
      /\ \A k \in Lots \ {l} : working'[k] = working[k]
      /\ working'[l]["LEG"] = working[l]["LEG"]
  BY <1>1, <1>2, RestsTyped
<1>4. Undisturbed /\ calm' \in [Checks -> BOOLEAN]
  <2>1. leg' = leg /\ position' = position
    BY <1>1 DEF ledger
  <2> QED BY <1>1, <1>3, <2>1, DisturbUndisturbed
<1>5. bound' \in Bounds
  BY <1>2, CountedBounds DEF ManualExit, TypeOK
<1>6. TypeOK'
  BY <1>1, <1>2, <1>3, <1>4, <1>5 DEF TypeOK, Bounds, ledger, env, checks
<1>7. LegsFired'
  <2>1. \A k \in Lots : working'[k].LEG = working[k].LEG
    BY <1>3
  <2> QED BY <1>1, <2>1 DEF WatcherInv, LegsFired, ledger, env
<1> QED BY <1>1, <1>4, <1>6, <1>7, OthersInv

FillRecord == [lot : Lots, qty : Nat, price : FillPrices]

LEMMA FillInv ==
    ASSUME WatcherInv, NEW l \in Lots, NEW maker \in Makers, NEW price \in FillPrices,
           Fill(l, maker, price)
    PROVE  WatcherInv'
<1> DEFINE qty == working[l][maker]
           less == [working[l] EXCEPT ![maker] = 0]
           push == [lot |-> l, qty |-> qty, price |-> price]
<1>1. /\ position' = [position EXCEPT ![l] = @ - Sign(l) * qty]
      /\ pushes' = Append(pushes, push)
      /\ working' = [working EXCEPT ![l] = less] /\ Disturb(l)
      /\ UNCHANGED <<ledger, env, checks, bound, basis>>
  BY DEF Fill
<1>2. /\ working \in [Lots -> [Makers -> Nat]] /\ position \in [Lots -> Int]
      /\ pushes \in Seq(FillRecord) /\ Sign(l) \in Int
  BY DEF WatcherInv, TypeOK, FillRecord, Sign
<1>3. /\ qty \in Nat /\ less \in [Makers -> Nat]
      /\ \A m \in Makers : less[m] = working[l][m] \/ less[m] = 0
  BY <1>2
<1>4. push \in FillRecord
  BY <1>3 DEF FillRecord
<1> HIDE DEF push, less
<1>5. pushes' \in Seq(FillRecord)
  BY <1>1, <1>2, <1>4
<1>6. /\ position' \in [Lots -> Int] /\ working' \in [Lots -> [Makers -> Nat]]
      /\ \A k \in Lots \ {l} : working'[k] = working[k] /\ position'[k] = position[k]
      /\ working'[l] = less
  BY <1>1, <1>2, <1>3
<1>7. leg' = leg
  BY <1>1 DEF ledger
<1>8. Undisturbed /\ calm' \in [Checks -> BOOLEAN]
  BY <1>1, <1>6, <1>7, DisturbUndisturbed
<1>9. TypeOK'
  BY <1>1, <1>5, <1>6, <1>8 DEF WatcherInv, TypeOK, FillRecord, ledger, env, checks
<1>10. LegsFired'
  <2>1. "LEG" \in Makers
    BY DEF Makers
  <2> QED BY <1>1, <1>3, <1>6, <1>7, <2>1 DEF WatcherInv, LegsFired, env
<1> QED BY <1>1, <1>8, <1>9, <1>10, OthersInv

LEMMA DroppedPush ==
    ASSUME NEW S, NEW s \in Seq(S), NEW i \in 1..Len(s)
    PROVE  SubSeq(s, 1, i - 1) \o SubSeq(s, i + 1, Len(s)) \in Seq(S)
<1>1. Len(s) \in Nat /\ i - 1 \in Int /\ i + 1 \in Int
  BY LenProperties
<1>2. \A j \in 1..Len(s) : s[j] \in S
  BY ElementOfSeq
<1>3. SubSeq(s, 1, i - 1) \in Seq(S)
  <2>1. \A j \in 1..(i - 1) : s[j] \in S
    BY <1>1, <1>2
  <2> QED BY <1>1, <2>1, SubSeqProperties
<1>4. SubSeq(s, i + 1, Len(s)) \in Seq(S)
  <2>1. \A j \in (i + 1)..Len(s) : s[j] \in S
    BY <1>1, <1>2
  <2> QED BY <1>1, <2>1, SubSeqProperties
<1> QED BY <1>3, <1>4, ConcatProperties

\* A push never takes a lot below what the ledger says is left of it.
LEMMA PushInv ==
    ASSUME WatcherInv, NEW i \in 1..Len(pushes), Push(i)
    PROVE  WatcherInv'
<1> DEFINE fill == pushes[i]
           l == fill.lot
           qty == Applied(fill)
           gain == LivePnl(l, qty, fill.price)
<1>1. /\ remaining' = [remaining EXCEPT ![l] = @ - qty]
      /\ realized' = [realized EXCEPT ![l] = @ + gain]
      /\ pushes' = SubSeq(pushes, 1, i - 1) \o SubSeq(pushes, i + 1, Len(pushes))
      /\ UNCHANGED <<epoch, leg, position, working, env, checks, bound, past>>
  BY DEF Push
<1>2. /\ pushes \in Seq(FillRecord) /\ remaining \in [Lots -> Nat] /\ realized \in [Lots -> Int]
  BY DEF WatcherInv, TypeOK, FillRecord
<1>3. fill \in FillRecord
  BY <1>2, ElementOfSeq
<1>4. l \in Lots /\ fill.qty \in Nat /\ fill.price \in Int /\ Entry \in Int /\ Sign(l) \in Int
  BY <1>3, PricesAssumption DEF FillRecord, Sign
<1>5. qty \in Nat /\ qty <= remaining[l]
  <2>1. remaining[l] \in Nat
    BY <1>2, <1>4
  <2> QED BY <1>4, <2>1 DEF Applied, Smaller
<1>6. gain \in Int
  <2> HIDE DEF qty
  <2> QED BY <1>4, <1>5, LivePnlType
<1> HIDE DEF qty, gain, l
<1>7. remaining' \in [Lots -> Nat] /\ realized' \in [Lots -> Int]
  <2>1. remaining[l] - qty \in Nat /\ realized[l] + gain \in Int
    BY <1>2, <1>4, <1>5, <1>6
  <2>2. remaining' = [remaining EXCEPT ![l] = remaining[l] - qty]
    BY <1>1
  <2>3. realized' = [realized EXCEPT ![l] = realized[l] + gain]
    BY <1>1
  <2>4. remaining' \in [Lots -> Nat]
    BY <1>2, <2>1, <2>2
  <2>5. realized' \in [Lots -> Int]
    BY <1>2, <2>1, <2>3
  <2> QED BY <2>4, <2>5
<1>8. pushes' \in Seq(FillRecord)
  BY <1>1, <1>2, DroppedPush
<1>9. TypeOK'
  BY <1>1, <1>7, <1>8 DEF WatcherInv, TypeOK, FillRecord, env, checks, past
<1>10. Undisturbed /\ LegsFired'
  BY <1>1, QuietUndisturbed DEF past, env
<1> QED BY <1>1, <1>9, <1>10, OthersInv

LEMMA PriceTickInv ==
    ASSUME WatcherInv, NEW l \in Lots, NEW price \in Prices, Tick(l, price)
    PROVE  WatcherInv'
<1>1. /\ mark' = [mark EXCEPT ![l] = price] /\ Counted("tick", MaxTicks)
      /\ UNCHANGED <<ledger, account, open, token, legCall, checks, past>>
  BY DEF Tick
<1>2. bound' \in Bounds
  BY <1>1, CountedBounds DEF WatcherInv, TypeOK
<1>3. TypeOK'
  BY <1>1, <1>2 DEF WatcherInv, TypeOK, Bounds, ledger, account, checks, past
<1>4. Undisturbed /\ LegsFired'
  BY <1>1, QuietUndisturbed DEF ledger, account, past
<1> QED BY <1>1, <1>3, <1>4, OthersInv

LEMMA TurnInv ==
    ASSUME WatcherInv, Turn
    PROVE  WatcherInv'
<1>1. /\ Counted("turn", MaxTurns) /\ UNCHANGED <<ledger, account, mark, legCall, checks, past>>
  BY DEF Turn
<1>2. open' \in BOOLEAN /\ token' \in BOOLEAN
  BY DEF Turn, WatcherInv, TypeOK
<1>3. bound' \in Bounds
  BY <1>1, CountedBounds DEF WatcherInv, TypeOK
<1>4. TypeOK'
  BY <1>1, <1>2, <1>3 DEF WatcherInv, TypeOK, Bounds, ledger, account, checks, past
<1>5. Undisturbed /\ LegsFired'
  BY <1>1, QuietUndisturbed DEF ledger, account, past
<1> QED BY <1>1, <1>4, <1>5, OthersInv

LEMMA RestartInv ==
    ASSUME WatcherInv, Restart
    PROVE  WatcherInv'
<1>1. /\ Counted("fail", MaxFailures) /\ mark' = [l \in Lots |-> None]
      /\ legCall' = [l \in Lots |-> NoLegCall]
      /\ task' = [c \in Checks |-> Idle] /\ lock' = None /\ calm' = [c \in Checks |-> FALSE]
      /\ UNCHANGED <<ledger, account, open, token, basis>>
  BY DEF Restart
<1>2. bound' \in Bounds
  BY <1>1, CountedBounds DEF WatcherInv, TypeOK
<1>3. Idle \in TaskRecord /\ TaskOK(Idle) /\ Idle.pc = "idle"
  BY IdleOK DEF TaskOK, Idle
<1> HIDE DEF Idle
<1>4. \A c \in Checks : task'[c] = Idle
  BY <1>1
<1>5. TypeOK'
  <2>1. task' \in [Checks -> TaskRecord]
    BY <1>1, <1>3
  <2> QED BY <1>1, <1>2, <2>1 DEF WatcherInv, TypeOK, TaskRecord, Bounds, ledger, account, NoLegCall
<1>6. (\A c \in Checks : TaskOK(task[c]))'
  BY <1>3, <1>4 DEF TaskOK, Left
<1>7. LockHeld'
  BY <1>1, <1>3, <1>4, FreeLockAssumption DEF LockHeld, Locked
<1>8. LegsFired' /\ CalmIsClear'
  BY <1>1, <1>3, <1>4 DEF WatcherInv, LegsFired, CalmIsClear, ledger, account, NoLegCall
<1> QED BY <1>5, <1>6, <1>7, <1>8 DEF WatcherInv

LEMMA CheckSteps ==
    ASSUME WatcherInv, NEW c \in Checks, CheckMoves(c) \/ CallRaises(c)
    PROVE  \/ Outcome(c, {})
           \/ epoch # None /\ Outcome(c, {epoch})
           \/ task[c].pc = "quote" /\ task'[c] # task[c] /\ Outcome(c, {task[c].epoch})
           \/ AcquireLock(c) \/ PlaceReaches(c) \/ PositionsReply(c)
<1>1. ASSUME PlaceReturns(c) \/ PlaceRefused(c) PROVE Outcome(c, {})
  <2>1. task[c].pc \in Locked /\ Flatten(c, task[c], task[c].rows)
    BY <1>1 DEF PlaceReturns, PlaceRefused, Locked
  <2> QED BY <2>1, FlattensOutcome
<1>2. ASSUME Notified(c) PROVE Outcome(c, {})
  BY <1>2, StopOutcome DEF Notified
<1> QED BY <1>1, <1>2, BeginCheckOutcome, QuoteReplyOutcome, ReconsiderOutcome,
           CallRaisesOutcome DEF CheckMoves, Resumes

LEMMA CheckMovesInv ==
    ASSUME WatcherInv, NEW c \in Checks, CheckMoves(c) \/ CallRaises(c)
    PROVE  WatcherInv'
<1>1. ASSUME NEW E, Outcome(c, E), ~AcquireLock(c), ~PlaceReaches(c) PROVE WatcherInv'
  <2>1. UNCHANGED <<remaining, realized, leg, account, env>>
    BY <1>1 DEF CheckMoves, Resumes, BeginCheck, QuoteReply, Reconsider, PositionsReply, PlaceReturns,
             PlaceRefused, Notified, CallRaises, ledger
  <2> QED BY <1>1, <2>1, OutcomeInv
<1> QED BY <1>1, CheckSteps, AcquireLockInv, PlaceReachesInv, PositionsReplyInv

LEMMA StutterInv ==
    ASSUME WatcherInv, UNCHANGED vars
    PROVE  WatcherInv'
<1>1. UNCHANGED <<ledger, account, env, checks, bound, past>>
  BY DEF vars
<1>2. TypeOK'
  BY <1>1 DEF WatcherInv, TypeOK, ledger, account, env, checks, past
<1>3. Undisturbed /\ LegsFired'
  BY <1>1, QuietUndisturbed DEF ledger, account, env, past
<1> QED BY <1>1, <1>2, <1>3, OthersInv

\* The invariant of the watcher, for any lots, prices, overlapping checks and bounds.
THEOREM SpecWatcherInv == Spec => []WatcherInv
<1>1. Init => WatcherInv
  BY WatcherInitInv
<1>2. WatcherInv /\ [Next]_vars => WatcherInv'
  <2> SUFFICES ASSUME WatcherInv, [Next]_vars PROVE WatcherInv'
    OBVIOUS
  <2>1. ASSUME NEW c \in Checks, CheckMoves(c) \/ CallRaises(c) PROVE WatcherInv'
    BY <2>1, CheckMovesInv
  <2>2. ASSUME NEW l \in Lots, LegFires(l) \/ LegReaches(l) \/ LegReturns(l) \/ ManualExit(l) PROVE WatcherInv'
    BY <2>2, LegFiresInv, LegReachesInv, LegReturnsInv, ManualExitInv
  <2> QED BY <2>1, <2>2, ArmInv, DisarmInv, FillInv, PushInv, PriceTickInv, TurnInv, RestartInv,
             StutterInv DEF Next
<1> QED BY <1>1, <1>2, PTL DEF Spec

\* Every variable of the watcher has its type: no push takes a lot below zero.
THEOREM WatcherTypeCorrect == Spec => []TypeOK
<1>1. WatcherInv => TypeOK
  BY DEF WatcherInv
<1> QED BY <1>1, SpecWatcherInv, PTL

\* The steps of the other actors leave the checks alone, or end them all.
LEMMA OtherSteps ==
    ASSUME [Next]_vars, \A c \in Checks : ~CheckMoves(c) /\ ~CallRaises(c)
    PROVE  /\ task' = task \/ task' = [c \in Checks |-> Idle]
           /\ epoch' = epoch \/ epoch' = None \/ \E a \in Arms : Arm(a)
<1>1. ASSUME UNCHANGED vars PROVE task' = task /\ epoch' = epoch
  BY <1>1 DEF vars, ledger, checks
<1>2. ASSUME NEW l \in Lots, LegFires(l) \/ LegReaches(l) \/ LegReturns(l) \/ ManualExit(l)
      PROVE  task' = task /\ epoch' = epoch
  BY <1>2 DEF LegFires, LegReaches, LegReturns, ManualExit, ledger, checks
<1>3. ASSUME NEW l \in Lots, NEW m \in Makers, NEW p \in FillPrices, Fill(l, m, p)
      PROVE  task' = task /\ epoch' = epoch
  BY <1>3 DEF Fill, ledger, checks
<1>4. ASSUME NEW i \in 1..Len(pushes), Push(i) PROVE task' = task /\ epoch' = epoch
  BY <1>4 DEF Push, checks
<1>5. ASSUME NEW l \in Lots, NEW p \in Prices, Tick(l, p) PROVE task' = task /\ epoch' = epoch
  BY <1>5 DEF Tick, ledger, checks
<1>6. ASSUME Turn PROVE task' = task /\ epoch' = epoch
  BY <1>6 DEF Turn, ledger, checks
<1>7. ASSUME Restart PROVE task' = [c \in Checks |-> Idle] /\ epoch' = epoch
  BY <1>7 DEF Restart, ledger
<1>8. ASSUME Disarm PROVE task' = task /\ epoch' = None
  BY <1>8 DEF Disarm, checks
<1>9. ASSUME NEW a \in Arms, Arm(a) PROVE task' = task
  BY <1>9 DEF Arm, checks
<1> QED BY <1>1, <1>2, <1>3, <1>4, <1>5, <1>6, <1>7, <1>8, <1>9 DEF Next

\* An exit is sent by no step but PlaceReaches of that check.
LEMMA SendsOnlyByPlacing ==
    ASSUME WatcherInv, [Next]_vars, NEW c \in Checks,
           task[c].pc = "placing", task'[c].pc = "placed"
    PROVE  PlaceReaches(c)
<1>1. CASE \A d \in Checks : ~CheckMoves(d) /\ ~CallRaises(d)
  BY <1>1, OtherSteps DEF Idle
<1>2. CASE \E d \in Checks : CheckMoves(d) \/ CallRaises(d)
  <2>1. PICK d \in Checks : CheckMoves(d) \/ CallRaises(d)
    BY <1>2
  <2>2. task \in [Checks -> TaskRecord]
    BY DEF WatcherInv, TypeOK, TaskRecord
  <2>3. ASSUME NEW E, Outcome(d, E) PROVE FALSE
    BY <2>2, <2>3 DEF Outcome
  <2>4. ASSUME AcquireLock(d) PROVE FALSE
    BY <2>2, <2>4 DEF AcquireLock
  <2>5. ASSUME PositionsReply(d) PROVE FALSE
    <3>1. \E qty \in Nat : task' = [task EXCEPT ![d] = [task[d] EXCEPT !.pc = "placing",
                                                                       !.qty = qty]]
      BY <2>3, <2>5, PositionsReplyOutcome
    <3>2. task[d].pc = "positions"
      BY <2>5 DEF PositionsReply
    <3> QED BY <2>2, <3>1, <3>2
  <2>6. PlaceReaches(d)
    BY <2>1, <2>3, <2>4, <2>5, CheckSteps
  <2>7. d = c
    BY <2>2, <2>6 DEF PlaceReaches
  <2> QED BY <2>6, <2>7
<1> QED BY <1>1, <1>2

\* An exit the watcher sends never takes a position past flat, as long as it
\* found no exit resting and nothing touched the lot since: the lock, and the
\* quantity capped at what the broker holds (flatten_open_lots).
THEOREM SpecExitsWithinPosition == Spec => WatcherExitsWithinPosition
<1> DEFINE Sends == \A c \in Checks :
              (task[c].pc = "placing" /\ task'[c].pc = "placed" /\ calm[c])
              => Outstanding(task[c].lot)' <= Closeable(task[c].lot)
<1>1. WatcherInv /\ [Next]_vars => Sends
  <2> SUFFICES ASSUME WatcherInv, [Next]_vars, NEW c \in Checks,
                      task[c].pc = "placing", task'[c].pc = "placed", calm[c]
               PROVE  Outstanding(task[c].lot)' <= Closeable(task[c].lot)
    OBVIOUS
  <2> DEFINE l == task[c].lot
             qty == task[c].qty
             more == [working[l] EXCEPT !.WATCHER = @ + qty]
  <2>1. PlaceReaches(c)
    BY SendsOnlyByPlacing
  <2>2. /\ l \in Lots /\ qty \in Nat /\ Clear(l) /\ qty <= Closeable(l)
        /\ working \in [Lots -> [Makers -> Nat]]
        /\ leg \in [Lots -> {"ARMED", "FIRING", "PLACED", "FAILED"}]
    BY TaskFacts DEF TaskOK, TaskRecord, WatcherInv, CalmIsClear, TypeOK
  <2>3. task'[c].lot = l /\ working' = [working EXCEPT ![l] = more]
    <3>1. task \in [Checks -> TaskRecord] /\ task[c] \in TaskRecord
      BY DEF WatcherInv, TypeOK, TaskRecord
    <3> QED BY <2>1, <3>1 DEF PlaceReaches, Rest, TaskRecord
  <2>4. working[l].LEG = 0 /\ working[l].WATCHER = 0 /\ working[l].MANUAL = 0
    BY <2>2 DEF Clear, Makers
  <2>5. working'[l] = more
    BY <2>2, <2>3
  <2>6. more.WATCHER = qty /\ more.LEG = 0 /\ more.MANUAL = 0
    <3>1. working[l] \in [Makers -> Nat]
      BY <2>2
    <3> QED BY <2>2, <2>4, <3>1 DEF Makers
  <2> HIDE DEF more
  <2>7. working'[l].WATCHER + working'[l].LEG + working'[l].MANUAL = qty
    BY <2>2, <2>5, <2>6
  <2> QED BY <2>2, <2>3, <2>7 DEF Outstanding
<1> QED BY <1>1, SpecWatcherInv, PTL DEF Spec, WatcherExitsWithinPosition

\* The watcher raises the peak of the epoch that is there or arms a fresh one; a
\* check puts back an epoch the phone disarmed, or a lower peak, only if it was
\* suspended on a quote (the ratchet in check_now).
THEOREM SpecEpochGoesBack == Spec => EpochGoesBackOnlyAfterAQuote
<1> DEFINE Back == (epoch' # epoch /\ epoch' # None /\ bound'.arm = bound.arm)
              => \/ epoch # None /\ epoch'.born = epoch.born /\ epoch'.peak > epoch.peak
                 \/ bound'.rearm > bound.rearm
                 \/ \E c \in Checks : task[c].pc = "quote" /\ task'[c] # task[c]
<1>1. WatcherInv /\ [Next]_vars => Back
  <2> SUFFICES ASSUME WatcherInv, [Next]_vars,
                      epoch' # epoch, epoch' # None, bound'.arm = bound.arm
               PROVE  \/ epoch # None /\ epoch'.born = epoch.born /\ epoch'.peak > epoch.peak
                      \/ bound'.rearm > bound.rearm
                      \/ \E c \in Checks : task[c].pc = "quote" /\ task'[c] # task[c]
    OBVIOUS
  <2>1. CASE \A c \in Checks : ~CheckMoves(c) /\ ~CallRaises(c)
    <3>1. PICK a \in Arms : Arm(a)
      BY <2>1, OtherSteps
    <3>2. "arm" \in DOMAIN bound /\ bound.arm \in Nat
      BY DEF WatcherInv, TypeOK
    <3>3. bound'.arm = bound.arm + 1
      BY <3>1, <3>2, CountedBounds DEF Arm, WatcherInv
    <3> QED BY <3>2, <3>3
  <2>2. CASE \E c \in Checks : CheckMoves(c) \/ CallRaises(c)
    <3>1. PICK c \in Checks : CheckMoves(c) \/ CallRaises(c)
      BY <2>2
    <3>2. ASSUME Outcome(c, {}) PROVE bound'.rearm > bound.rearm
      BY <3>2 DEF Outcome
    <3>3. ASSUME Outcome(c, {epoch})
          PROVE  \/ bound'.rearm > bound.rearm
                 \/ epoch'.born = epoch.born /\ epoch'.peak > epoch.peak
      BY <3>3 DEF Outcome
    <3>4. ASSUME AcquireLock(c) \/ PlaceReaches(c) PROVE FALSE
      BY <3>4 DEF AcquireLock, PlaceReaches, ledger
    <3>5. ASSUME PositionsReply(c) PROVE Outcome(c, {})
      BY <3>5, PositionsReplyOutcome
    <3> QED BY <3>1, <3>2, <3>3, <3>4, <3>5, CheckSteps
  <2> QED BY <2>1, <2>2
<1> QED BY <1>1, SpecWatcherInv, PTL DEF Spec, EpochGoesBackOnlyAfterAQuote

-----------------------------------------------------------------------------
(* The guards side by side.                                                *)

\* A step of one guard is a step of its own specification and a stutter of the
\* others', so a behaviour of the guards side by side is a behaviour of each, and
\* what was proved of each holds there too.
THEOREM GuardsRunApart == GuardsSpec => Spec /\ FlatSpec /\ FeedSpec
<1>1. GuardsInit => Init /\ FlatInit /\ FeedInit
  BY DEF GuardsInit
<1>2. [GuardsNext]_guardVars => [Next]_vars /\ [FlatNext]_flatVars /\ [FeedNext]_feedVars
  BY DEF GuardsNext, guardVars
<1> QED BY <1>1, <1>2, PTL DEF GuardsSpec, Spec, FlatSpec, FeedSpec

\* The types of the three, in any behaviour of the guards.
THEOREM GuardsTypeCorrect == GuardsSpec => []GuardsTypeOK
<1>1. TypeOK /\ FlatTypeOK /\ FeedTypeOK => GuardsTypeOK
  BY DEF GuardsTypeOK
<1> QED BY <1>1, GuardsRunApart, WatcherTypeCorrect, FlatTypeCorrect, FeedTypeCorrect, PTL

=============================================================================
