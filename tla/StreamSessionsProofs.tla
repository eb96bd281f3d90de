------------------------- MODULE StreamSessionsProofs -------------------------
(* The index of sessions and the signal loops of StreamSessions, proved    *)
(* for any number of sockets, clients, generations and views.              *)
EXTENDS StreamSessions, TLAPS

\* What the proofs use of the types.
Shapes ==
    /\ link \in [Links -> LinkRecord]
    /\ sessions \subseteq Links
    /\ byClient \in [Clients -> Links \cup {Nobody}]
    /\ waiting \in Seq(LockRequest)
    /\ signals \in [Links -> [runs : BOOLEAN, failures : 0..Alarm]]
    /\ late \subseteq Links

\* A socket that has not been accepted yet is nobody's session, and one that
\* replaces another has said whose it is.
Unborn == \A l \in Links : link[l].step = "new" => l \notin sessions
Named == \A l \in Links : link[l].step \in {"closing", "replacing"} => link[l].client \in Clients

StreamInv == Shapes /\ Unborn /\ Named /\ IndexIsLive /\ NoSignalsForTheGone

-----------------------------------------------------------------------------
LEMMA StreamInitInv == StreamInit => StreamInv
<1> SUFFICES ASSUME StreamInit PROVE StreamInv OBVIOUS
<1>1. Shapes
  BY StreamAssumption DEF StreamInit, Shapes, LinkRecord, Steps
<1>2. Unborn /\ Named /\ IndexIsLive /\ NoSignalsForTheGone
  BY DEF StreamInit, Unborn, Named, IndexIsLive, NoSignalsForTheGone
<1> QED BY <1>1, <1>2 DEF StreamInv

\* Any session may become the client's, if it is the one it names.
LEMMA RegisterInv ==
    ASSUME StreamInv, Shapes', NEW l \in Links, NEW c \in Clients,
           Register(l, c, sessions), link'[l].client = c, link'[l].step # "new",
           \A m \in Links : /\ link'[m].step = "new" => link[m].step = "new"
                            /\ link[m].step # "new" => link'[m].client = link[m].client
                            /\ m # l => (link'[m].step \in {"closing", "replacing"}
                                            => link[m].step \in {"closing", "replacing"})
                            /\ link'[m].step \in {"closing", "replacing"}
                                  => link'[m].client \in Clients,
           signals' = signals, late' = late
    PROVE  StreamInv'
<1>1. Unborn'
  BY DEF StreamInv, Unborn, Register
<1>2. Named'
  BY DEF Named
<1>3. IndexIsLive'
  <2> SUFFICES ASSUME NEW d \in Clients, byClient'[d] # Nobody
               PROVE  byClient'[d] \in sessions' /\ link'[byClient'[d]].client = d
    BY DEF IndexIsLive
  <2>1. CASE d = c
    BY <2>1 DEF Register, StreamInv, Shapes
  <2>2. CASE d # c
    BY <2>2 DEF Register, StreamInv, Shapes, IndexIsLive, Unborn
  <2> QED BY <2>1, <2>2
<1>4. NoSignalsForTheGone'
  BY DEF StreamInv, NoSignalsForTheGone, Register
<1> QED BY <1>1, <1>2, <1>3, <1>4 DEF StreamInv

\* A session that is removed leaves both indexes and its signals stop.
LEMMA RemoveInv ==
    ASSUME StreamInv, Shapes', NEW s \in Links,
           sessions' = Removed(s), byClient' = Unindexed(s), signals' = Stopped(s),
           \A m \in Links : /\ link'[m].step = "new" => link[m].step = "new"
                            /\ link'[m].client = link[m].client
                            /\ link'[m].step \in {"closing", "replacing"}
                                  => link[m].step \in {"closing", "replacing"},
           late' = late
    PROVE  StreamInv'
<1>1. Unborn' /\ Named'
  BY DEF StreamInv, Unborn, Named, Removed
<1>2. IndexIsLive'
  BY DEF StreamInv, Shapes, IndexIsLive, Removed, Unindexed
<1>3. NoSignalsForTheGone'
  BY DEF StreamInv, Shapes, NoSignalsForTheGone, Removed, Stopped, Quiet
<1> QED BY <1>1, <1>2, <1>3 DEF StreamInv

\* A request in the lock's queue is well shaped.
LEMMA AskLockShape ==
    ASSUME waiting \in Seq(LockRequest), NEW l \in Links, NEW s \in Links,
           NEW v \in Views \cup {Nobody}, AskLock(l, s, v)
    PROVE  waiting' \in Seq(LockRequest)
  BY DEF AskLock, LockRequest

-----------------------------------------------------------------------------
(* One lemma per action.                                                   *)

LEMMA OpenInv ==
    ASSUME StreamInv, NEW l \in Links, NEW c \in Clients, NEW g \in Generations, Open(l, c, g)
    PROVE  StreamInv'
<1> DEFINE old == byClient[c]
           mine == [link[l] EXCEPT !.client = c, !.generation = g, !.open = TRUE]
<1>0. link \in [Links -> LinkRecord]
  BY DEF StreamInv, Shapes
<1>1. mine \in LinkRecord /\ mine.client = c
  <2>1. link[l] \in LinkRecord /\ g \in Nat
    BY <1>0, StreamAssumption
  <2> QED BY <2>1 DEF LinkRecord
<1>2. /\ link[l].step = "new" /\ l \notin sessions
      /\ signals' = signals /\ late' = late /\ waiting' = waiting
  BY DEF Open, StreamInv, Unborn
<1>3. CASE old = Nobody
  <2> DEFINE next == [mine EXCEPT !.step = "receiving"]
  <2>1. link' = [link EXCEPT ![l] = next] /\ Register(l, c, sessions)
    BY <1>3 DEF Open
  <2> HIDE DEF mine
  <2>2. next \in LinkRecord /\ next.step = "receiving" /\ next.client = c
    BY <1>1 DEF LinkRecord, Steps
  <2> HIDE DEF next
  <2>3. /\ link' \in [Links -> LinkRecord] /\ link'[l] = next
        /\ \A m \in Links : m # l => link'[m] = link[m]
    BY <2>1, <2>2 DEF StreamInv, Shapes
  <2>4. Shapes'
    BY <1>2, <2>1, <2>3 DEF StreamInv, Shapes, Register
  <2> QED BY <1>2, <2>1, <2>2, <2>3, <2>4, RegisterInv DEF StreamInv, Named
<1>4. CASE old # Nobody
  <2>1. old \in Links
    BY <1>4 DEF StreamInv, Shapes
  <2>2. PICK next \in LinkRecord : /\ link' = [link EXCEPT ![l] = next] /\ next.client = c
                                  /\ next.step \in {"closing", "gone"}
    <3>1. \/ link' = [link EXCEPT ![l] = [mine EXCEPT !.step = "closing", !.replaces = old]]
          \/ link' = [link EXCEPT ![l] = [mine EXCEPT !.step = "gone", !.open = FALSE]]
      BY <1>4 DEF Open
    <3> HIDE DEF mine, old
    <3>2. CASE link' = [link EXCEPT ![l] = [mine EXCEPT !.step = "closing", !.replaces = old]]
      <4>1. [mine EXCEPT !.step = "closing", !.replaces = old] \in LinkRecord
        BY <1>1, <2>1 DEF LinkRecord, Steps
      <4>2. /\ [mine EXCEPT !.step = "closing", !.replaces = old].client = c
            /\ [mine EXCEPT !.step = "closing", !.replaces = old].step = "closing"
        BY <1>1 DEF LinkRecord
      <4> QED BY <3>2, <4>1, <4>2
    <3>3. CASE link' = [link EXCEPT ![l] = [mine EXCEPT !.step = "gone", !.open = FALSE]]
      <4>1. [mine EXCEPT !.step = "gone", !.open = FALSE] \in LinkRecord
        BY <1>1 DEF LinkRecord, Steps
      <4>2. /\ [mine EXCEPT !.step = "gone", !.open = FALSE].client = c
            /\ [mine EXCEPT !.step = "gone", !.open = FALSE].step = "gone"
        BY <1>1 DEF LinkRecord
      <4> QED BY <3>3, <4>1, <4>2
    <3> QED BY <3>1, <3>2, <3>3
  <2>3. UNCHANGED <<sessions, byClient>>
    BY <1>4 DEF Open
  <2>4. /\ link' \in [Links -> LinkRecord] /\ link'[l] = next
        /\ \A m \in Links : m # l => link'[m] = link[m]
    BY <2>2 DEF StreamInv, Shapes
  <2>5. Shapes'
    BY <1>2, <2>3, <2>4 DEF StreamInv, Shapes
  <2>6. Unborn' /\ Named'
    BY <2>2, <2>3, <2>4 DEF StreamInv, Unborn, Named
  <2>7. IndexIsLive'
    BY <1>2, <2>3, <2>4 DEF StreamInv, IndexIsLive, Shapes
  <2>8. NoSignalsForTheGone'
    BY <1>2, <2>3 DEF StreamInv, NoSignalsForTheGone
  <2> QED BY <2>5, <2>6, <2>7, <2>8 DEF StreamInv
<1> QED BY <1>3, <1>4

LEMMA CloseOldInv ==
    ASSUME StreamInv, NEW l \in Links, CloseOld(l)
    PROVE  StreamInv'
<1> DEFINE s == link[l].replaces
           c == link[l].client
           closed == [link EXCEPT ![s].open = FALSE]
<1>1. c \in Clients /\ link[l].step = "closing"
  BY DEF CloseOld, StreamInv, Named
<1>0. link \in [Links -> LinkRecord]
  BY DEF StreamInv, Shapes
<1>2. /\ closed \in [Links -> LinkRecord]
      /\ \A m \in Links : closed[m].step = link[m].step /\ closed[m].client = link[m].client
  <2>1. closed \in [Links -> LinkRecord]
    BY <1>0 DEF LinkRecord
  <2>2. \A m \in Links : closed[m].step = link[m].step /\ closed[m].client = link[m].client
    BY <1>0 DEF LinkRecord
  <2> QED BY <2>1, <2>2
<1>3. CASE s \in sessions
  <2>1. /\ sessions' = Removed(s) /\ byClient' = Unindexed(s) /\ signals' = Stopped(s)
        /\ AskLock(l, s, Nobody) /\ late' = late
        /\ link' = [closed EXCEPT ![l].step = "replacing"]
    BY <1>3 DEF CloseOld
  <2>2. s \in Links
    BY <1>3 DEF StreamInv, Shapes
  <2> HIDE DEF s, closed
  <2>3. /\ link' \in [Links -> LinkRecord]
        /\ \A m \in Links : /\ link'[m].step = IF m = l THEN "replacing" ELSE link[m].step
                            /\ link'[m].client = link[m].client
    BY <1>2, <2>1 DEF LinkRecord, Steps
  <2>4. waiting' \in Seq(LockRequest)
    BY <2>1, <2>2, AskLockShape DEF StreamInv, Shapes
  <2>5. Shapes'
    BY <2>1, <2>2, <2>3, <2>4, StreamAssumption
    DEF StreamInv, Shapes, Removed, Unindexed, Stopped, Quiet
  <2> QED BY <1>1, <2>1, <2>2, <2>3, <2>5, RemoveInv
<1>4. CASE s \notin sessions
  <2>1. /\ Register(l, c, sessions) /\ UNCHANGED <<waiting, signals, late>>
        /\ link' = [closed EXCEPT ![l].step = "receiving"]
    BY <1>4 DEF CloseOld
  <2> HIDE DEF s, closed
  <2>2. /\ link' \in [Links -> LinkRecord]
        /\ \A m \in Links : /\ link'[m].step = IF m = l THEN "receiving" ELSE link[m].step
                            /\ link'[m].client = link[m].client
    BY <1>2, <2>1 DEF LinkRecord, Steps
  <2>3. Shapes'
    BY <1>1, <2>1, <2>2 DEF StreamInv, Shapes, Register
  <2> QED BY <1>1, <2>1, <2>2, <2>3, RegisterInv DEF StreamInv, Named
<1> QED BY <1>3, <1>4

\* Nothing of the index moves: a frame only changes the task's own step, asks
\* for the lock or starts the push loop, and says so when it is late.
LEMMA FrameInv ==
    ASSUME StreamInv, Shapes', NEW l \in Links, LateFrame(l),
           UNCHANGED <<sessions, byClient>>,
           \A m \in Links : /\ link'[m].step = "new" => link[m].step = "new"
                            /\ link'[m].client = link[m].client
                            /\ link'[m].step \in {"closing", "replacing"}
                                  => link[m].step \in {"closing", "replacing"}
                            /\ signals'[m].runs => signals[m].runs \/ m = l
    PROVE  StreamInv'
<1>1. Unborn' /\ Named'
  BY DEF StreamInv, Unborn, Named
<1>2. IndexIsLive'
  BY DEF StreamInv, IndexIsLive, Shapes
<1>3. NoSignalsForTheGone'
  BY DEF StreamInv, NoSignalsForTheGone, LateFrame
<1> QED BY <1>1, <1>2, <1>3 DEF StreamInv

LEMMA SubscribeInv ==
    ASSUME StreamInv, NEW l \in Links, NEW r \in 0..MaxRevision, NEW v \in Views,
           Subscribe(l, r, v)
    PROVE  StreamInv'
<1> DEFINE moved == [link EXCEPT ![l].step = "subscribing"]
<1>1. /\ link' = [moved EXCEPT ![l].asked = r]
      /\ AskLock(l, l, v) /\ LateFrame(l)
      /\ UNCHANGED <<sessions, byClient, registered, signals>>
  BY DEF Subscribe
<1>0. link \in [Links -> LinkRecord]
  BY DEF StreamInv, Shapes
<1>2. /\ moved \in [Links -> LinkRecord]
      /\ \A m \in Links : /\ moved[m].step = IF m = l THEN "subscribing" ELSE link[m].step
                          /\ moved[m].client = link[m].client
  <2>1. moved \in [Links -> LinkRecord]
    BY <1>0 DEF LinkRecord, Steps
  <2>2. \A m \in Links : /\ moved[m].step = IF m = l THEN "subscribing" ELSE link[m].step
                         /\ moved[m].client = link[m].client
    BY <1>0 DEF LinkRecord
  <2> QED BY <2>1, <2>2
<1> HIDE DEF moved
<1>3. r \in -1..MaxRevision
  BY StreamAssumption
<1>4. /\ link' \in [Links -> LinkRecord]
      /\ \A m \in Links : /\ link'[m].step = IF m = l THEN "subscribing" ELSE link[m].step
                          /\ link'[m].client = link[m].client
  BY <1>1, <1>2, <1>3 DEF LinkRecord
<1>5. waiting' \in Seq(LockRequest)
  BY <1>1, AskLockShape DEF StreamInv, Shapes
<1>6. Shapes'
  BY <1>1, <1>4, <1>5 DEF StreamInv, Shapes, LateFrame
<1> QED BY <1>1, <1>4, <1>6, FrameInv

LEMMA SetUnderlyingInv ==
    ASSUME StreamInv, NEW l \in Links, SetUnderlying(l)
    PROVE  StreamInv'
<1>1. /\ signals' = [signals EXCEPT ![l].runs = TRUE]
      /\ LateFrame(l) /\ UNCHANGED <<sessions, byClient, waiting, registered>>
  BY DEF SetUnderlying
<1>2. PICK s \in Steps : link' = [link EXCEPT ![l].step = s] /\ s \in {"receiving", "gone"}
  BY DEF SetUnderlying, Steps, StreamInv, Shapes
<1>3. /\ link' \in [Links -> LinkRecord]
      /\ \A m \in Links : /\ link'[m].step = IF m = l THEN s ELSE link[m].step
                          /\ link'[m].client = link[m].client
  <2>0. link \in [Links -> LinkRecord]
    BY DEF StreamInv, Shapes
  <2>1. link' \in [Links -> LinkRecord]
    BY <1>2, <2>0 DEF LinkRecord
  <2>2. \A m \in Links : /\ link'[m].step = IF m = l THEN s ELSE link[m].step
                         /\ link'[m].client = link[m].client
    BY <1>2, <2>0 DEF LinkRecord
  <2> QED BY <2>1, <2>2
<1>4. Shapes'
  BY <1>1, <1>3 DEF StreamInv, Shapes, LateFrame
<1>5. \A m \in Links : signals'[m].runs => signals[m].runs \/ m = l
  BY <1>1 DEF StreamInv, Shapes
<1> QED BY <1>1, <1>2, <1>3, <1>4, <1>5, FrameInv

LEMMA PushSignalsInv ==
    ASSUME StreamInv, NEW l \in Links, NEW ok \in BOOLEAN, PushSignals(l, ok)
    PROVE  StreamInv'
<1> USE DEF StreamInv
<1>1. UNCHANGED <<link, sessions, byClient, waiting, registered, late>>
  BY DEF PushSignals
<1>2. signals' \in [Links -> [runs : BOOLEAN, failures : 0..Alarm]]
  <2> DEFINE n == IF ok THEN 0 ELSE IF signals[l].failures = Alarm THEN Alarm
                                   ELSE signals[l].failures + 1
  <2>1. signals \in [Links -> [runs : BOOLEAN, failures : 0..Alarm]]
    BY DEF Shapes
  <2>2. n \in 0..Alarm
    BY <2>1, StreamAssumption
  <2>3. signals' = [signals EXCEPT ![l].failures = n]
    BY <2>1 DEF PushSignals
  <2> QED BY <2>1, <2>2, <2>3
<1>3. \A m \in Links : signals'[m].runs = signals[m].runs
  BY DEF PushSignals, Shapes
<1>4. Shapes' /\ Unborn' /\ Named' /\ IndexIsLive'
  BY <1>1, <1>2 DEF Shapes, Unborn, Named, IndexIsLive
<1>5. NoSignalsForTheGone'
  BY <1>1, <1>3 DEF NoSignalsForTheGone
<1> QED BY <1>4, <1>5

LEMMA LeaveInv ==
    ASSUME StreamInv, NEW l \in Links, Leave(l)
    PROVE  StreamInv'
<1>1. PICK s \in {"leaving", "gone"} :
         link' = [[link EXCEPT ![l].step = s] EXCEPT ![l].open = FALSE]
  BY DEF Leave
<1> DEFINE moved == [link EXCEPT ![l].step = s]
<1>0. link \in [Links -> LinkRecord]
  BY DEF StreamInv, Shapes
<1>2. /\ moved \in [Links -> LinkRecord]
      /\ \A m \in Links : /\ moved[m].step = IF m = l THEN s ELSE link[m].step
                          /\ moved[m].client = link[m].client
  <2>1. moved \in [Links -> LinkRecord]
    BY <1>0 DEF LinkRecord, Steps
  <2>2. \A m \in Links : /\ moved[m].step = IF m = l THEN s ELSE link[m].step
                         /\ moved[m].client = link[m].client
    BY <1>0 DEF LinkRecord
  <2> QED BY <2>1, <2>2
<1>3. link' = [moved EXCEPT ![l].open = FALSE]
  BY <1>1
<1> HIDE DEF moved
<1>4. /\ link' \in [Links -> LinkRecord] /\ late' = late
      /\ \A m \in Links : /\ link'[m].step = IF m = l THEN s ELSE link[m].step
                          /\ link'[m].client = link[m].client
  <2>1. link' \in [Links -> LinkRecord]
    BY <1>2, <1>3 DEF LinkRecord
  <2>2. \A m \in Links : /\ link'[m].step = IF m = l THEN s ELSE link[m].step
                         /\ link'[m].client = link[m].client
    BY <1>2, <1>3 DEF LinkRecord
  <2>3. late' = late
    BY DEF Leave
  <2> QED BY <2>1, <2>2, <2>3
<1>5. CASE l \in sessions
  <2>1. /\ sessions' = Removed(l) /\ byClient' = Unindexed(l) /\ signals' = Stopped(l)
        /\ AskLock(l, l, Nobody)
    BY <1>5 DEF Leave
  <2>2. waiting' \in Seq(LockRequest)
    BY <2>1, AskLockShape DEF StreamInv, Shapes
  <2>3. Shapes'
    BY <1>4, <2>1, <2>2, StreamAssumption
    DEF StreamInv, Shapes, Removed, Unindexed, Stopped, Quiet
  <2> QED BY <1>4, <2>1, <2>3, RemoveInv
<1>6. CASE l \notin sessions
  <2>1. UNCHANGED <<sessions, byClient, signals, waiting>>
    BY <1>6 DEF Leave
  <2>2. Shapes'
    BY <1>4, <2>1 DEF StreamInv, Shapes
  <2>3. Unborn' /\ Named'
    BY <1>4, <2>1 DEF StreamInv, Unborn, Named
  <2>4. IndexIsLive' /\ NoSignalsForTheGone'
    BY <1>4, <2>1 DEF StreamInv, IndexIsLive, NoSignalsForTheGone, Shapes
  <2> QED BY <2>2, <2>3, <2>4 DEF StreamInv
<1> QED BY <1>5, <1>6

\* After its call returned a task receives again or is over.
LEMMA AfterCallShape ==
    ASSUME link \in [Links -> LinkRecord], NEW request \in LockRequest, NEW accepted \in BOOLEAN
    PROVE  LET l == request.of
               f == AfterCall(request, accepted)
           IN /\ f \in [Links -> LinkRecord]
              /\ f[l].step \in {"receiving", "gone"}
              /\ \A m \in Links : /\ m # l => f[m].step = link[m].step
                                  /\ f[m].client = link[m].client
<1> DEFINE l == request.of
<1>1. l \in Links /\ request.view \in Views \cup {Nobody}
  BY DEF LockRequest
<1>2. CASE link[l].step = "replacing"
  BY <1>1, <1>2 DEF AfterCall, Steps, LinkRecord
<1>3. CASE link[l].step = "leaving"
  BY <1>1, <1>3 DEF AfterCall, Steps, LinkRecord
<1>4. CASE link[l].step \notin {"replacing", "leaving"}
  <2> DEFINE s == IF link[l].open THEN "receiving" ELSE "gone"
             moved == [link EXCEPT ![l].step = s]
             r == IF accepted THEN link[l].asked ELSE moved[l].revision
             v == IF accepted THEN request.view ELSE moved[l].view
  <2>1. s \in Steps /\ s \in {"receiving", "gone"}
    BY DEF Steps
  <2>2. /\ moved \in [Links -> LinkRecord]
        /\ \A m \in Links : /\ moved[m].step = IF m = l THEN s ELSE link[m].step
                            /\ moved[m].client = link[m].client
    BY <1>1, <2>1 DEF LinkRecord
  <2>3. AfterCall(request, accepted) = [moved EXCEPT ![l].revision = r, ![l].view = v]
    BY <1>1, <1>4 DEF AfterCall, LinkRecord
  <2> HIDE DEF moved
  <2>4. r \in -1..MaxRevision /\ v \in Views \cup {Nobody}
    BY <1>1, <2>2 DEF LinkRecord
  <2> DEFINE f == [moved EXCEPT ![l].revision = r, ![l].view = v]
  <2> HIDE DEF s, r, v
  <2> DEFINE rec == [moved[l] EXCEPT !.revision = r, !.view = v]
  <2>5. moved[l] \in LinkRecord
    BY <1>1, <2>2
  <2>6. rec \in LinkRecord /\ rec.step = moved[l].step /\ rec.client = moved[l].client
    BY <2>4, <2>5 DEF LinkRecord
  <2>7. f = [moved EXCEPT ![l] = rec]
    BY <1>1, <2>2
  <2> HIDE DEF rec, f
  <2>8. f \in [Links -> LinkRecord]
    BY <1>1, <2>2, <2>6, <2>7
  <2>9. \A m \in Links : f[m].step = moved[m].step /\ f[m].client = moved[m].client
    BY <1>1, <2>2, <2>6, <2>7
  <2>10. f[l].step \in {"receiving", "gone"}
    BY <1>1, <2>1, <2>2, <2>9
  <2>11. \A m \in Links : /\ m # l => f[m].step = link[m].step
                          /\ f[m].client = link[m].client
    BY <2>2, <2>9
  <2> QED BY <2>3, <2>8, <2>10, <2>11 DEF f
<1> QED BY <1>2, <1>3, <1>4

LEMMA HoldLockInv ==
    ASSUME StreamInv, NEW accepted \in BOOLEAN, HoldLock(accepted)
    PROVE  StreamInv'
<1> DEFINE request == Head(waiting)
           l == request.of
<1>1. request \in LockRequest /\ Tail(waiting) \in Seq(LockRequest)
  BY DEF HoldLock, StreamInv, Shapes
<1>2. /\ link' = AfterCall(request, accepted) /\ waiting' = Tail(waiting)
      /\ signals' = signals /\ late' = late
  BY DEF HoldLock
<1>3. IF link[l].step = "replacing" THEN Register(l, link[l].client, sessions)
                                    ELSE UNCHANGED <<sessions, byClient>>
  BY DEF HoldLock
<1> HIDE DEF request
<1>4. l \in Links
  BY <1>1 DEF LockRequest
<1>5. /\ link' \in [Links -> LinkRecord]
      /\ link'[l].step \in {"receiving", "gone"}
      /\ \A m \in Links : /\ m # l => link'[m].step = link[m].step
                          /\ link'[m].client = link[m].client
  BY <1>1, <1>2, AfterCallShape DEF StreamInv, Shapes
<1> HIDE DEF l
<1>6. CASE link[l].step = "replacing"
  <2>1. Register(l, link[l].client, sessions)
    BY <1>3, <1>6
  <2>2. link[l].client \in Clients
    BY <1>4, <1>6 DEF StreamInv, Named
  <2>3. Shapes'
    BY <1>1, <1>2, <1>4, <1>5, <2>1, <2>2 DEF StreamInv, Shapes, Register
  <2> QED BY <1>2, <1>4, <1>5, <2>1, <2>2, <2>3, RegisterInv DEF StreamInv, Named
<1>7. CASE link[l].step # "replacing"
  <2>1. UNCHANGED <<sessions, byClient>>
    BY <1>3, <1>7
  <2>2. Shapes'
    BY <1>1, <1>2, <1>5, <2>1 DEF StreamInv, Shapes
  <2>3. Unborn' /\ Named'
    BY <1>4, <1>5, <2>1 DEF StreamInv, Unborn, Named
  <2>4. IndexIsLive' /\ NoSignalsForTheGone'
    BY <1>2, <1>5, <2>1 DEF StreamInv, IndexIsLive, NoSignalsForTheGone, Shapes
  <2> QED BY <2>2, <2>3, <2>4 DEF StreamInv
<1> QED BY <1>6, <1>7

-----------------------------------------------------------------------------
\* The invariant holds whatever the order in which the tasks of the sockets
\* run between their awaits, and whatever requests the lock's queue holds.
THEOREM SpecStreamInv == StreamSpec => []StreamInv
<1>1. StreamInit => StreamInv
  BY StreamInitInv
<1>2. StreamInv /\ [StreamNext]_streamVars => StreamInv'
  <2> SUFFICES ASSUME StreamInv, [StreamNext]_streamVars PROVE StreamInv'
    OBVIOUS
  <2>1. CASE UNCHANGED streamVars
    BY <2>1 DEF streamVars, StreamInv, Shapes, Unborn, Named, IndexIsLive, NoSignalsForTheGone
  <2>2. CASE StreamNext
    BY <2>2, OpenInv, CloseOldInv, SetUnderlyingInv, LeaveInv, SubscribeInv, PushSignalsInv,
       HoldLockInv DEF StreamNext
  <2> QED BY <2>1, <2>2
<1> QED BY <1>1, <1>2, PTL DEF StreamSpec

\* _session_by_client_instance never names a removed session or another
\* client's, though connect yields twice between looking up the older session
\* and writing the index.
THEOREM SpecIndexIsLive == StreamSpec => []IndexIsLive
<1>1. StreamInv => IndexIsLive
  BY DEF StreamInv
<1> QED BY <1>1, SpecStreamInv, PTL

\* A push loop runs only for a session that is connected or that asked for it
\* in a frame it received before it was removed.
THEOREM SpecNoSignalsForTheGone == StreamSpec => []NoSignalsForTheGone
<1>1. StreamInv => NoSignalsForTheGone
  BY DEF StreamInv
<1> QED BY <1>1, SpecStreamInv, PTL

-----------------------------------------------------------------------------
(* What is registered with the feed, while requests for the lock wait.     *)

Unopened == {"new", "closing", "replacing"}
Queued == 1..Len(waiting)

\* A task waits with one request at most, for what its step says: a subscriber
\* for its own view, the others to take a session away that is gone already.
OneRequestEach == \A i, j \in Queued : waiting[i].of = waiting[j].of => i = j
RequestsMatchSteps ==
    \A i \in Queued :
        LET q == waiting[i] IN
        \/ link[q.of].step = "subscribing" /\ q.session = q.of /\ q.view # Nobody
        \/ /\ link[q.of].step = "leaving" /\ q.session = q.of /\ q.view = Nobody
           /\ q.session \notin sessions
        \/ link[q.of].step = "replacing" /\ q.view = Nobody /\ q.session \notin sessions

\* A socket that was never a session has left no trace.
UnopenedIsClean ==
    \A l \in Links : link[l].step \in Unopened =>
        /\ l \notin sessions /\ registered[l] = Nobody /\ link[l].view = Nobody
        /\ \A i \in Queued : waiting[i].session # l

\* A session shows what is registered for it until its next request is answered.
ShownIsRegistered ==
    \A l \in sessions : link[l].step \in {"receiving", "subscribing"} => link[l].view = registered[l]

\* What is registered, or about to be, for a session that is gone is removed by a
\* request behind it, unless the session handled a frame after its removal.
RegisteredLeaves ==
    \A l \in Links : registered[l] # Nobody =>
        \/ l \in sessions \cup late
        \/ \E j \in Queued : waiting[j].session = l /\ waiting[j].view = Nobody
RequestsLeave ==
    \A i \in Queued : waiting[i].view # Nobody =>
        \/ waiting[i].session \in sessions \cup late
        \/ \E j \in Queued : /\ j > i /\ waiting[j].session = waiting[i].session
                             /\ waiting[j].view = Nobody

FeedTypes == registered \in [Links -> Views \cup {Nobody}]

ServedInv == /\ FeedTypes /\ OneRequestEach /\ RequestsMatchSteps /\ UnopenedIsClean
             /\ ShownIsRegistered /\ RegisteredLeaves /\ RequestsLeave

LEMMA ServedInitInv == StreamInit => ServedInv
<1> SUFFICES ASSUME StreamInit PROVE ServedInv OBVIOUS
<1>1. Len(waiting) = 0
  BY DEF StreamInit
<1>2. Queued = {}
  BY <1>1 DEF Queued
<1>3. OneRequestEach /\ RequestsMatchSteps /\ RequestsLeave
  BY <1>2 DEF OneRequestEach, RequestsMatchSteps, RequestsLeave
<1>4. FeedTypes /\ UnopenedIsClean /\ ShownIsRegistered /\ RegisteredLeaves
  BY <1>2 DEF StreamInit, FeedTypes, UnopenedIsClean, ShownIsRegistered, RegisteredLeaves
<1> QED BY <1>3, <1>4 DEF ServedInv

LEMMA QueueTypes ==
    ASSUME waiting \in Seq(LockRequest)
    PROVE  \A i \in Queued : waiting[i].of \in Links /\ waiting[i].session \in Links
<1> SUFFICES ASSUME NEW i \in Queued PROVE waiting[i].of \in Links /\ waiting[i].session \in Links
  OBVIOUS
<1>1. waiting[i] \in LockRequest
  BY DEF Queued
<1> QED BY <1>1 DEF LockRequest

\* A request goes to the end of the queue.
LEMMA AskLockQueue ==
    ASSUME waiting \in Seq(LockRequest), NEW l \in Links, NEW s \in Links,
           NEW v \in Views \cup {Nobody}, AskLock(l, s, v)
    PROVE  LET n == Len(waiting) + 1
           IN /\ n \in Nat \ {0} /\ n \notin Queued
              /\ Queued \subseteq 1..(n - 1)
              /\ Queued' = Queued \cup {n}
              /\ \A i \in Queued : waiting'[i] = waiting[i]
              /\ waiting'[n] = [of |-> l, session |-> s, view |-> v]
<1> DEFINE q == [of |-> l, session |-> s, view |-> v]
<1>1. q \in LockRequest
  BY DEF LockRequest
<1>2. waiting' = Append(waiting, q)
  BY DEF AskLock
<1> HIDE DEF q
<1>3. /\ Len(waiting) \in Nat
      /\ Len(waiting') = Len(waiting) + 1
      /\ \A i \in 1..Len(waiting) : waiting'[i] = waiting[i]
      /\ waiting'[Len(waiting) + 1] = q
  BY <1>1, <1>2
<1> QED BY <1>3 DEF Queued, q

\* How a task comes to wait for the lock: a subscriber for its own view, as a
\* session or late; the others for a session they have just removed.
Asks(l, s, v) ==
    \/ /\ link[l].step = "receiving" /\ link'[l].step = "subscribing"
       /\ s = l /\ v # Nobody /\ l \in sessions' \cup late' /\ sessions' = sessions
    \/ /\ link[l].step = "receiving" /\ link'[l].step = "leaving"
       /\ s = l /\ v = Nobody /\ sessions' = sessions \ {s}
    \/ /\ link[l].step = "closing" /\ link'[l].step = "replacing"
       /\ s \in sessions /\ v = Nobody /\ sessions' = sessions \ {s}

LEMMA AskedServed ==
    ASSUME StreamInv, ServedInv,
           NEW l \in Links, NEW s \in Links, NEW v \in Views \cup {Nobody},
           AskLock(l, s, v), Asks(l, s, v), registered' = registered, late \subseteq late',
           \A m \in Links : /\ link'[m].view = link[m].view
                            /\ m # l => link'[m].step = link[m].step
    PROVE  ServedInv'
<1> DEFINE n == Len(waiting) + 1
<1>1. /\ n \in Nat \ {0} /\ n \notin Queued /\ Queued \subseteq 1..(n - 1)
      /\ Queued' = Queued \cup {n}
      /\ \A i \in Queued : waiting'[i] = waiting[i]
      /\ waiting'[n].of = l /\ waiting'[n].session = s /\ waiting'[n].view = v
  <2>1. waiting \in Seq(LockRequest)
    BY DEF StreamInv, Shapes
  <2>2. /\ n \in Nat \ {0} /\ n \notin Queued /\ Queued \subseteq 1..(n - 1)
        /\ Queued' = Queued \cup {n}
        /\ \A i \in Queued : waiting'[i] = waiting[i]
        /\ waiting'[n] = [of |-> l, session |-> s, view |-> v]
    BY <2>1, AskLockQueue
  <2> HIDE DEF n
  <2> QED BY <2>2
<1> HIDE DEF n
<1>2. \A i \in Queued : waiting[i].of \in Links /\ waiting[i].session \in Links
  BY QueueTypes DEF StreamInv, Shapes
<1>3. \A i \in Queued : waiting[i].of # l
  BY DEF ServedInv, RequestsMatchSteps, Asks
<1>4. sessions' \subseteq sessions /\ sessions \subseteq sessions' \cup {s}
  BY DEF Asks
<1>5. FeedTypes'
  BY DEF ServedInv, FeedTypes
<1>6. OneRequestEach'
  BY <1>1, <1>3 DEF ServedInv, OneRequestEach
<1>7. RequestsMatchSteps'
  <2> SUFFICES ASSUME NEW i \in Queued'
               PROVE  LET q == waiting'[i] IN
                      \/ link'[q.of].step = "subscribing" /\ q.session = q.of /\ q.view # Nobody
                      \/ /\ link'[q.of].step = "leaving" /\ q.session = q.of /\ q.view = Nobody
                         /\ q.session \notin sessions'
                      \/ link'[q.of].step = "replacing" /\ q.view = Nobody /\ q.session \notin sessions'
    BY DEF RequestsMatchSteps
  <2>1. CASE i = n
    BY <1>1, <2>1 DEF Asks
  <2>2. CASE i \in Queued
    BY <1>1, <1>2, <1>3, <1>4, <2>2 DEF ServedInv, RequestsMatchSteps
  <2> QED BY <1>1, <2>1, <2>2
<1>8. UnopenedIsClean'
  <2> SUFFICES ASSUME NEW m \in Links, link'[m].step \in Unopened
               PROVE  /\ m \notin sessions' /\ registered'[m] = Nobody /\ link'[m].view = Nobody
                      /\ \A i \in Queued' : waiting'[i].session # m
    BY DEF UnopenedIsClean, Unopened
  <2>1. link[m].step \in Unopened
    BY DEF Asks, Unopened
  <2>2. /\ m \notin sessions /\ registered[m] = Nobody /\ link[m].view = Nobody
        /\ \A i \in Queued : waiting[i].session # m
    BY <2>1 DEF ServedInv, UnopenedIsClean
  <2>3. m # s
    BY <2>2 DEF Asks, Unopened
  <2> QED BY <1>1, <1>4, <2>2, <2>3
<1>9. ShownIsRegistered'
  BY <1>4 DEF ServedInv, ShownIsRegistered, Asks, StreamInv, Shapes
<1>10. \A m \in sessions \cup late : m \in sessions' \cup late' \/ (m = s /\ v = Nobody)
  BY <1>4 DEF Asks
<1>11. RegisteredLeaves'
  <2> SUFFICES ASSUME NEW m \in Links, registered[m] # Nobody, m \notin sessions' \cup late'
               PROVE  \E j \in Queued' : waiting'[j].session = m /\ waiting'[j].view = Nobody
    BY DEF RegisteredLeaves
  <2>1. CASE m \in sessions \cup late
    BY <1>1, <1>10, <2>1
  <2>2. CASE m \notin sessions \cup late
    BY <1>1, <2>2 DEF ServedInv, RegisteredLeaves
  <2> QED BY <2>1, <2>2
<1>12. RequestsLeave'
  <2> SUFFICES ASSUME NEW i \in Queued', waiting'[i].view # Nobody,
                      waiting'[i].session \notin sessions' \cup late'
               PROVE  \E j \in Queued' : /\ j > i /\ waiting'[j].session = waiting'[i].session
                                         /\ waiting'[j].view = Nobody
    BY DEF RequestsLeave
  <2>1. i # n
    BY <1>1 DEF Asks
  <2>2. i \in Queued /\ waiting'[i] = waiting[i] /\ n > i
    BY <1>1, <2>1
  <2>3. CASE waiting[i].session \in sessions \cup late
    BY <1>1, <1>10, <2>2, <2>3
  <2>4. CASE waiting[i].session \notin sessions \cup late
    BY <1>1, <2>2, <2>4 DEF ServedInv, RequestsLeave
  <2> QED BY <2>3, <2>4
<1> QED BY <1>5, <1>6, <1>7, <1>8, <1>9, <1>11, <1>12 DEF ServedInv

\* A step that leaves the queue and the maps alone moves one task that is not
\* waiting, and may make it a session if it was none.
LEMMA StepServed ==
    ASSUME StreamInv, ServedInv, NEW l \in Links,
           UNCHANGED <<waiting, registered>>, late \subseteq late',
           link[l].step \in {"new", "closing", "receiving"},
           link'[l].step \in {"closing", "receiving", "gone"},
           link'[l].step = "closing" => link[l].step = "new",
           sessions' = sessions
             \/ (sessions' = sessions \cup {l} /\ link[l].step \in {"new", "closing"}),
           sessions' = sessions \/ link'[l].step = "receiving",
           \A m \in Links : /\ link'[m].view = link[m].view
                            /\ m # l => link'[m].step = link[m].step
    PROVE  ServedInv'
<1>1. Queued' = Queued
  BY DEF Queued
<1>2. \A i \in Queued : waiting[i].of \in Links /\ waiting[i].session \in Links
  BY QueueTypes DEF StreamInv, Shapes
<1>3. \A i \in Queued : waiting[i].of # l
  BY DEF ServedInv, RequestsMatchSteps
<1>4. sessions' # sessions => \A i \in Queued : waiting[i].session # l
  BY DEF ServedInv, UnopenedIsClean, Unopened
<1>5. FeedTypes' /\ OneRequestEach' /\ RegisteredLeaves' /\ RequestsLeave'
  BY <1>1 DEF ServedInv, FeedTypes, OneRequestEach, RegisteredLeaves, RequestsLeave
<1>6. RequestsMatchSteps'
  BY <1>1, <1>2, <1>3, <1>4 DEF ServedInv, RequestsMatchSteps
<1>7. UnopenedIsClean'
  BY <1>1 DEF ServedInv, UnopenedIsClean, Unopened
<1>8. ShownIsRegistered'
  BY DEF ServedInv, ShownIsRegistered, UnopenedIsClean, Unopened, StreamInv, Shapes
<1> QED BY <1>5, <1>6, <1>7, <1>8 DEF ServedInv

LEMMA OpenServed ==
    ASSUME StreamInv, ServedInv, NEW l \in Links, NEW c \in Clients, NEW g \in Generations,
           Open(l, c, g)
    PROVE  ServedInv'
<1> DEFINE old == byClient[c]
           mine == [link[l] EXCEPT !.client = c, !.generation = g, !.open = TRUE]
<1>1. link[l] \in LinkRecord /\ link \in [Links -> LinkRecord]
  BY DEF StreamInv, Shapes
<1>2. link[l].step = "new" /\ UNCHANGED <<waiting, registered, signals, late>>
  BY DEF Open
<1>3. PICK next : /\ link' = [link EXCEPT ![l] = next] /\ next.view = link[l].view
                  /\ next.step \in {"closing", "receiving", "gone"}
                  /\ sessions' = sessions
                       \/ (sessions' = sessions \cup {l} /\ next.step = "receiving")
  <2>1. CASE old = Nobody
    <3>1. /\ [mine EXCEPT !.step = "receiving"].view = link[l].view
          /\ [mine EXCEPT !.step = "receiving"].step = "receiving"
      BY <1>1 DEF LinkRecord
    <3>2. /\ link' = [link EXCEPT ![l] = [mine EXCEPT !.step = "receiving"]]
          /\ sessions' = sessions \cup {l}
      BY <2>1 DEF Open, Register
    <3> QED BY <3>1, <3>2
  <2>2. CASE old # Nobody
    <3>1. /\ [mine EXCEPT !.step = "closing", !.replaces = old].view = link[l].view
          /\ [mine EXCEPT !.step = "closing", !.replaces = old].step = "closing"
      BY <1>1 DEF LinkRecord
    <3>2. /\ [mine EXCEPT !.step = "gone", !.open = FALSE].view = link[l].view
          /\ [mine EXCEPT !.step = "gone", !.open = FALSE].step = "gone"
      BY <1>1 DEF LinkRecord
    <3>3. /\ \/ link' = [link EXCEPT ![l] = [mine EXCEPT !.step = "closing", !.replaces = old]]
             \/ link' = [link EXCEPT ![l] = [mine EXCEPT !.step = "gone", !.open = FALSE]]
          /\ sessions' = sessions
      BY <2>2 DEF Open
    <3> QED BY <3>1, <3>2, <3>3
  <2> QED BY <2>1, <2>2
<1> HIDE DEF mine
<1>4. /\ link'[l].step = next.step /\ link'[l].view = link[l].view
      /\ \A m \in Links : m # l => link'[m] = link[m]
  BY <1>1, <1>3
<1> QED BY <1>2, <1>3, <1>4, StepServed

LEMMA CloseOldServed ==
    ASSUME StreamInv, ServedInv, NEW l \in Links, CloseOld(l)
    PROVE  ServedInv'
<1> DEFINE s == link[l].replaces
           closed == [link EXCEPT ![s].open = FALSE]
<1>1. /\ link[l].step = "closing" /\ registered' = registered /\ late' = late
      /\ link \in [Links -> LinkRecord] /\ sessions \subseteq Links
  BY DEF CloseOld, StreamInv, Shapes
<1>2. /\ closed \in [Links -> LinkRecord]
      /\ \A m \in Links : closed[m].step = link[m].step /\ closed[m].view = link[m].view
  <2>1. closed \in [Links -> LinkRecord]
    BY <1>1 DEF LinkRecord
  <2>2. \A m \in Links : closed[m].step = link[m].step /\ closed[m].view = link[m].view
    BY <1>1 DEF LinkRecord
  <2> QED BY <2>1, <2>2
<1>3. CASE s \in sessions
  <2>1. /\ sessions' = sessions \ {s} /\ AskLock(l, s, Nobody)
        /\ link' = [closed EXCEPT ![l].step = "replacing"]
    BY <1>3 DEF CloseOld, Removed
  <2> HIDE DEF s, closed
  <2>2. \A m \in Links : /\ link'[m].step = IF m = l THEN "replacing" ELSE link[m].step
                         /\ link'[m].view = link[m].view
    BY <1>2, <2>1 DEF LinkRecord
  <2>3. Asks(l, s, Nobody)
    BY <1>1, <1>3, <2>1, <2>2 DEF Asks
  <2> QED BY <1>1, <1>3, <2>1, <2>2, <2>3, AskedServed
<1>4. CASE s \notin sessions
  <2>1. /\ sessions' = sessions \cup {l} /\ waiting' = waiting
        /\ link' = [closed EXCEPT ![l].step = "receiving"]
    BY <1>4 DEF CloseOld, Register
  <2> HIDE DEF s, closed
  <2>2. \A m \in Links : /\ link'[m].step = IF m = l THEN "receiving" ELSE link[m].step
                         /\ link'[m].view = link[m].view
    BY <1>2, <2>1 DEF LinkRecord
  <2> QED BY <1>1, <2>1, <2>2, StepServed
<1> QED BY <1>3, <1>4

LEMMA SubscribeServed ==
    ASSUME StreamInv, ServedInv, NEW l \in Links, NEW r \in 0..MaxRevision, NEW v \in Views,
           Subscribe(l, r, v)
    PROVE  ServedInv'
<1> DEFINE moved == [link EXCEPT ![l].step = "subscribing"]
<1>1. /\ link' = [moved EXCEPT ![l].asked = r] /\ link[l].step = "receiving"
      /\ AskLock(l, l, v) /\ LateFrame(l)
      /\ UNCHANGED <<sessions, byClient, registered, signals>>
  BY DEF Subscribe
<1>2. link \in [Links -> LinkRecord]
  BY DEF StreamInv, Shapes
<1>3. /\ moved \in [Links -> LinkRecord]
      /\ \A m \in Links : /\ moved[m].step = IF m = l THEN "subscribing" ELSE link[m].step
                          /\ moved[m].view = link[m].view
  <2>1. moved \in [Links -> LinkRecord]
    BY <1>2 DEF LinkRecord, Steps
  <2>2. \A m \in Links : /\ moved[m].step = IF m = l THEN "subscribing" ELSE link[m].step
                         /\ moved[m].view = link[m].view
    BY <1>2 DEF LinkRecord
  <2> QED BY <2>1, <2>2
<1> HIDE DEF moved
<1>4. \A m \in Links : /\ link'[m].step = IF m = l THEN "subscribing" ELSE link[m].step
                       /\ link'[m].view = link[m].view
  BY <1>1, <1>3 DEF LinkRecord
<1>5. late \subseteq late' /\ l \in sessions' \cup late'
  BY <1>1 DEF LateFrame
<1>6. v # Nobody
  BY StreamAssumption
<1>7. Asks(l, l, v)
  BY <1>1, <1>4, <1>5, <1>6 DEF Asks
<1> QED BY <1>1, <1>4, <1>5, <1>7, AskedServed

LEMMA SetUnderlyingServed ==
    ASSUME StreamInv, ServedInv, NEW l \in Links, SetUnderlying(l)
    PROVE  ServedInv'
<1>1. /\ link[l].step = "receiving" /\ LateFrame(l) /\ UNCHANGED <<sessions, waiting, registered>>
  BY DEF SetUnderlying
<1>2. PICK s \in {"receiving", "gone"} : link' = [link EXCEPT ![l].step = s]
  BY DEF SetUnderlying, StreamInv, Shapes
<1>3. link \in [Links -> LinkRecord]
  BY DEF StreamInv, Shapes
<1>4. \A m \in Links : /\ link'[m].step = IF m = l THEN s ELSE link[m].step
                       /\ link'[m].view = link[m].view
  BY <1>2, <1>3 DEF LinkRecord
<1>5. late \subseteq late'
  BY <1>1 DEF LateFrame
<1> QED BY <1>1, <1>4, <1>5, StepServed

LEMMA LeaveServed ==
    ASSUME StreamInv, ServedInv, NEW l \in Links, Leave(l)
    PROVE  ServedInv'
<1>1. /\ link[l].step = "receiving" /\ registered' = registered /\ late' = late
      /\ link \in [Links -> LinkRecord]
  BY DEF Leave, StreamInv, Shapes
<1>2. \A s \in {"leaving", "gone"} :
         link' = [link EXCEPT ![l].step = s, ![l].open = FALSE] =>
             \A m \in Links : /\ link'[m].step = IF m = l THEN s ELSE link[m].step
                              /\ link'[m].view = link[m].view
  <2> SUFFICES ASSUME NEW s \in {"leaving", "gone"},
                      link' = [link EXCEPT ![l].step = s, ![l].open = FALSE]
               PROVE  \A m \in Links : /\ link'[m].step = IF m = l THEN s ELSE link[m].step
                                       /\ link'[m].view = link[m].view
    OBVIOUS
  <2> DEFINE moved == [link EXCEPT ![l].step = s]
  <2>1. link' = [moved EXCEPT ![l].open = FALSE]
    OBVIOUS
  <2>2. moved \in [Links -> LinkRecord]
    BY <1>1 DEF LinkRecord, Steps
  <2>3. \A m \in Links : /\ moved[m].step = IF m = l THEN s ELSE link[m].step
                         /\ moved[m].view = link[m].view
    BY <1>1 DEF LinkRecord
  <2> HIDE DEF moved
  <2> QED BY <2>1, <2>2, <2>3 DEF LinkRecord
<1>3. CASE l \in sessions
  <2>1. /\ sessions' = sessions \ {l} /\ AskLock(l, l, Nobody)
        /\ link' = [link EXCEPT ![l].step = "leaving", ![l].open = FALSE]
    BY <1>3 DEF Leave, Removed
  <2>2. \A m \in Links : /\ link'[m].step = IF m = l THEN "leaving" ELSE link[m].step
                         /\ link'[m].view = link[m].view
    BY <1>2, <2>1
  <2>3. Asks(l, l, Nobody)
    BY <1>1, <2>1, <2>2 DEF Asks
  <2> QED BY <1>1, <2>1, <2>2, <2>3, AskedServed
<1>4. CASE l \notin sessions
  <2>1. /\ sessions' = sessions /\ waiting' = waiting
        /\ link' = [link EXCEPT ![l].step = "gone", ![l].open = FALSE]
    BY <1>4 DEF Leave
  <2>2. \A m \in Links : /\ link'[m].step = IF m = l THEN "gone" ELSE link[m].step
                         /\ link'[m].view = link[m].view
    BY <1>2, <2>1
  <2> QED BY <1>1, <2>1, <2>2, StepServed
<1> QED BY <1>3, <1>4

\* The head's request is answered, and every other one moves up.
LEMMA TakeRequest ==
    ASSUME waiting \in Seq(LockRequest), waiting # <<>>, waiting' = Tail(waiting)
    PROVE  /\ 1 \in Queued /\ waiting[1] = Head(waiting) /\ waiting[1] \in LockRequest
           /\ \A i \in Queued' : /\ i \in Nat /\ i + 1 \in Queued /\ i + 1 # 1
                                 /\ waiting'[i] = waiting[i + 1]
           /\ \A j \in Queued : j \in Nat /\ (j = 1 \/ j - 1 \in Queued')
<1>1. /\ Len(waiting) \in Nat \ {0}
      /\ Len(Tail(waiting)) = Len(waiting) - 1
      /\ \A i \in 1..(Len(waiting) - 1) : Tail(waiting)[i] = waiting[i + 1]
  OBVIOUS
<1>2. Queued = 1..Len(waiting) /\ Queued' = 1..(Len(waiting) - 1)
  BY <1>1 DEF Queued
<1>3. waiting[1] = Head(waiting) /\ waiting[1] \in LockRequest
  BY <1>1
<1> QED BY <1>1, <1>2, <1>3

\* What the caller remembers of its call's result.
LEMMA AfterCallViews ==
    ASSUME link \in [Links -> LinkRecord], NEW request \in LockRequest, NEW accepted \in BOOLEAN
    PROVE  LET l == request.of
               f == AfterCall(request, accepted)
           IN /\ \A m \in Links : m # l => f[m] = link[m]
              /\ link[l].step = "replacing" =>
                    f[l].step = "receiving" /\ f[l].view = link[l].view
              /\ link[l].step = "leaving" => f[l].step = "gone"
              /\ link[l].step = "subscribing" =>
                    f[l].view = IF accepted THEN request.view ELSE link[l].view
<1> DEFINE l == request.of
<1>1. l \in Links /\ request.view \in Views \cup {Nobody}
  BY DEF LockRequest
<1>2. CASE link[l].step = "replacing"
  BY <1>1, <1>2 DEF AfterCall, Steps, LinkRecord
<1>3. CASE link[l].step = "leaving"
  BY <1>1, <1>3 DEF AfterCall, Steps, LinkRecord
<1>4. CASE link[l].step \notin {"replacing", "leaving"}
  <2> DEFINE s == IF link[l].open THEN "receiving" ELSE "gone"
             moved == [link EXCEPT ![l].step = s]
             r == IF accepted THEN link[l].asked ELSE moved[l].revision
             v == IF accepted THEN request.view ELSE moved[l].view
             told == [moved EXCEPT ![l].revision = r]
  <2>1. AfterCall(request, accepted) = [told EXCEPT ![l].view = v]
    BY <1>1, <1>4 DEF AfterCall, LinkRecord
  <2>2. /\ moved \in [Links -> LinkRecord] /\ moved[l].view = link[l].view
        /\ \A m \in Links : m # l => moved[m] = link[m]
    BY <1>1 DEF LinkRecord, Steps
  <2> HIDE DEF moved
  <2>3. /\ told \in [Links -> LinkRecord]
        /\ \A m \in Links : m # l => told[m] = link[m]
    BY <1>1, <2>2 DEF LinkRecord
  <2> HIDE DEF told
  <2>4. v = IF accepted THEN request.view ELSE link[l].view
    BY <2>2
  <2> HIDE DEF v
  <2> QED BY <1>1, <1>4, <2>1, <2>3, <2>4 DEF LinkRecord
<1> QED BY <1>2, <1>3, <1>4

LEMMA HoldLockServed ==
    ASSUME StreamInv, ServedInv, NEW accepted \in BOOLEAN, HoldLock(accepted)
    PROVE  ServedInv'
<1> DEFINE request == waiting[1]
           l == request.of
           s == request.session
           v == request.view
<1>1. waiting \in Seq(LockRequest) /\ link \in [Links -> LinkRecord] /\ sessions \subseteq Links
  BY DEF StreamInv, Shapes
<1>2. /\ 1 \in Queued /\ request = Head(waiting) /\ request \in LockRequest
      /\ \A i \in Queued' : /\ i \in Nat /\ i + 1 \in Queued /\ i + 1 # 1
                            /\ waiting'[i] = waiting[i + 1]
      /\ \A j \in Queued : j \in Nat /\ (j = 1 \/ j - 1 \in Queued')
  BY <1>1, TakeRequest DEF HoldLock
<1>3. /\ v = Nobody => accepted
      /\ registered' = Maps(request, accepted) /\ late' = late
      /\ link' = AfterCall(request, accepted)
      /\ IF link[l].step = "replacing" THEN Register(l, link[l].client, sessions)
                                       ELSE UNCHANGED <<sessions, byClient>>
  BY <1>2 DEF HoldLock
<1>4. l \in Links /\ s \in Links /\ v \in Views \cup {Nobody}
  BY <1>2 DEF LockRequest
<1>5. /\ link'[l].step \in {"receiving", "gone"}
      /\ \A m \in Links : m # l => link'[m] = link[m]
      /\ link[l].step = "replacing" =>
            link'[l].step = "receiving" /\ link'[l].view = link[l].view
      /\ link[l].step = "leaving" => link'[l].step = "gone"
      /\ link[l].step = "subscribing" => link'[l].view = IF accepted THEN v ELSE link[l].view
  BY <1>1, <1>2, <1>3, AfterCallShape, AfterCallViews
<1>6. \/ link[l].step = "subscribing" /\ s = l /\ v # Nobody
      \/ link[l].step = "leaving" /\ s = l /\ v = Nobody /\ s \notin sessions
      \/ link[l].step = "replacing" /\ v = Nobody /\ s \notin sessions
  BY <1>2 DEF ServedInv, RequestsMatchSteps
<1>7. \A i \in Queued : i # 1 => waiting[i].of # l
  BY <1>2 DEF ServedInv, OneRequestEach
<1>8. \A i \in Queued : waiting[i].of \in Links /\ waiting[i].session \in Links
  BY <1>1, QueueTypes
<1> HIDE DEF request, l, s, v
<1>9. registered \in [Links -> Views \cup {Nobody}]
  BY DEF ServedInv, FeedTypes
<1>10. /\ registered' \in [Links -> Views \cup {Nobody}]
       /\ registered'[s] = IF accepted THEN v ELSE registered[s]
       /\ \A m \in Links : m # s => registered'[m] = registered[m]
  BY <1>3, <1>4, <1>9 DEF Maps, s, v
<1>11. sessions' = IF link[l].step = "replacing" THEN sessions \cup {l} ELSE sessions
  BY <1>3 DEF Register
<1>12. link[l].step = "replacing" =>
          /\ l \notin sessions /\ registered[l] = Nobody /\ link[l].view = Nobody
          /\ \A i \in Queued : waiting[i].session # l
  BY <1>4 DEF ServedInv, UnopenedIsClean, Unopened
<1>13. OneRequestEach'
  <2> SUFFICES ASSUME NEW i \in Queued', NEW j \in Queued', waiting'[i].of = waiting'[j].of
               PROVE  i = j
    BY DEF OneRequestEach
  <2>1. i + 1 = j + 1
    BY <1>2 DEF ServedInv, OneRequestEach
  <2> QED BY <1>2, <2>1
<1>14. RequestsMatchSteps'
  <2> SUFFICES ASSUME NEW i \in Queued'
               PROVE  LET q == waiting'[i] IN
                      \/ link'[q.of].step = "subscribing" /\ q.session = q.of /\ q.view # Nobody
                      \/ /\ link'[q.of].step = "leaving" /\ q.session = q.of /\ q.view = Nobody
                         /\ q.session \notin sessions'
                      \/ link'[q.of].step = "replacing" /\ q.view = Nobody /\ q.session \notin sessions'
    BY DEF RequestsMatchSteps
  <2> DEFINE q == waiting[i + 1]
  <2>1. waiting'[i] = q /\ q.of # l /\ q.of \in Links /\ i + 1 \in Queued
    BY <1>2, <1>7, <1>8
  <2>2. \/ link[q.of].step = "subscribing" /\ q.session = q.of /\ q.view # Nobody
        \/ /\ link[q.of].step = "leaving" /\ q.session = q.of /\ q.view = Nobody
           /\ q.session \notin sessions
        \/ link[q.of].step = "replacing" /\ q.view = Nobody /\ q.session \notin sessions
    BY <2>1 DEF ServedInv, RequestsMatchSteps
  <2>3. q.session \notin sessions => q.session \notin sessions'
    BY <1>11, <1>12, <2>1
  <2> HIDE DEF q
  <2> QED BY <1>5, <2>1, <2>2, <2>3
<1>15. UnopenedIsClean'
  <2> SUFFICES ASSUME NEW m \in Links, link'[m].step \in Unopened
               PROVE  /\ m \notin sessions' /\ registered'[m] = Nobody /\ link'[m].view = Nobody
                      /\ \A i \in Queued' : waiting'[i].session # m
    BY DEF UnopenedIsClean, Unopened
  <2>1. m # l /\ link'[m] = link[m]
    BY <1>5 DEF Unopened
  <2>2. /\ m \notin sessions /\ registered[m] = Nobody /\ link[m].view = Nobody
        /\ \A i \in Queued : waiting[i].session # m
    BY <2>1 DEF ServedInv, UnopenedIsClean
  <2>3. m # s
    BY <1>2, <2>2 DEF s, request
  <2> QED BY <1>2, <1>10, <1>11, <2>1, <2>2, <2>3
<1>16. ShownIsRegistered'
  <2> SUFFICES ASSUME NEW m \in sessions', link'[m].step \in {"receiving", "subscribing"}
               PROVE  link'[m].view = registered'[m]
    BY DEF ShownIsRegistered
  <2>1. m \in Links
    BY <1>1, <1>4, <1>11
  <2>2. CASE m = l
    <3>1. CASE link[l].step = "subscribing"
      <4>1. link[l].view = registered[l]
        BY <1>11, <2>2, <3>1 DEF ServedInv, ShownIsRegistered
      <4> QED BY <1>5, <1>6, <1>10, <2>2, <3>1, <4>1
    <3>2. CASE link[l].step = "replacing"
      <4>1. s # l
        BY <1>2, <1>12, <3>2 DEF s, request
      <4> QED BY <1>4, <1>5, <1>10, <1>12, <2>2, <3>2, <4>1
    <3> QED BY <1>5, <1>6, <2>2, <3>1, <3>2
  <2>3. CASE m # l
    <3>1. link'[m] = link[m] /\ m \in sessions /\ link[m].view = registered[m]
      BY <1>5, <1>11, <2>1, <2>3 DEF ServedInv, ShownIsRegistered
    <3>2. m # s
      BY <1>6, <2>3, <3>1
    <3> QED BY <1>10, <2>1, <3>1, <3>2
  <2> QED BY <2>2, <2>3
<1>17. sessions \cup late \subseteq sessions' \cup late'
  BY <1>3, <1>11
<1>18. RegisteredLeaves'
  <2> SUFFICES ASSUME NEW m \in Links, registered'[m] # Nobody, m \notin sessions' \cup late'
               PROVE  \E j \in Queued' : waiting'[j].session = m /\ waiting'[j].view = Nobody
    BY DEF RegisteredLeaves
  <2>1. \E j \in Queued : j # 1 /\ waiting[j].session = m /\ waiting[j].view = Nobody
    <3>1. CASE m = s /\ accepted
      <4>1. v # Nobody
        BY <1>10, <3>1
      <4> QED BY <1>2, <1>17, <3>1, <4>1 DEF ServedInv, RequestsLeave, s, v, request
    <3>2. CASE ~(m = s /\ accepted)
      <4>1. registered[m] # Nobody
        BY <1>10, <3>2
      <4>2. PICK j \in Queued : waiting[j].session = m /\ waiting[j].view = Nobody
        BY <1>17, <4>1 DEF ServedInv, RegisteredLeaves
      <4>3. j # 1
        BY <1>3, <3>2, <4>2 DEF s, v, request
      <4> QED BY <4>2, <4>3
    <3> QED BY <3>1, <3>2
  <2>2. PICK j \in Queued : j # 1 /\ waiting[j].session = m /\ waiting[j].view = Nobody
    BY <2>1
  <2>3. j - 1 \in Queued' /\ waiting'[j - 1] = waiting[j]
    BY <1>2, <2>2
  <2> QED BY <2>2, <2>3
<1>19. RequestsLeave'
  <2> SUFFICES ASSUME NEW i \in Queued', waiting'[i].view # Nobody,
                      waiting'[i].session \notin sessions' \cup late'
               PROVE  \E j \in Queued' : /\ j > i /\ waiting'[j].session = waiting'[i].session
                                         /\ waiting'[j].view = Nobody
    BY DEF RequestsLeave
  <2>1. i \in Nat /\ i + 1 \in Queued /\ waiting'[i] = waiting[i + 1]
    BY <1>2
  <2>2. PICK j \in Queued : /\ j > i + 1 /\ waiting[j].session = waiting[i + 1].session
                            /\ waiting[j].view = Nobody
    BY <1>17, <2>1 DEF ServedInv, RequestsLeave
  <2>3. j - 1 \in Queued' /\ j - 1 > i /\ waiting'[j - 1] = waiting[j]
    BY <1>2, <2>1, <2>2
  <2> QED BY <2>1, <2>2, <2>3
<1> QED BY <1>10, <1>13, <1>14, <1>15, <1>16, <1>18, <1>19 DEF ServedInv, FeedTypes

\* The inductive invariant of the sessions and of what they demand of the feed.
THEOREM SpecServedInv == StreamSpec => [](StreamInv /\ ServedInv)
<1>1. StreamInit => StreamInv /\ ServedInv
  BY StreamInitInv, ServedInitInv
<1>2. StreamInv /\ ServedInv /\ [StreamNext]_streamVars => ServedInv'
  <2> SUFFICES ASSUME StreamInv, ServedInv, [StreamNext]_streamVars PROVE ServedInv'
    OBVIOUS
  <2>1. ASSUME UNCHANGED <<link, sessions, waiting, registered, late>> PROVE ServedInv'
    BY <2>1 DEF ServedInv, FeedTypes, OneRequestEach, RequestsMatchSteps, UnopenedIsClean,
       ShownIsRegistered, RegisteredLeaves, RequestsLeave, Queued, Unopened
  <2>2. CASE UNCHANGED streamVars
    BY <2>1, <2>2 DEF streamVars
  <2>3. CASE StreamNext
    <3>1. ASSUME NEW l \in Links, NEW ok \in BOOLEAN, PushSignals(l, ok) PROVE ServedInv'
      BY <2>1, <3>1 DEF PushSignals
    <3> QED BY <2>3, <3>1, OpenServed, CloseOldServed, SetUnderlyingServed, LeaveServed,
            SubscribeServed, HoldLockServed DEF StreamNext
  <2> QED BY <2>2, <2>3
<1> QED BY <1>1, <1>2, SpecStreamInv, PTL DEF StreamSpec

\* A session is sent what the feed is subscribed to for it, and a view stays
\* registered for a removed session only if a frame was handled after its
\* removal, though a client's remove_client and set_client_subscription wait for
\* the same lock in any order and the one may overtake the other's task.
THEOREM SpecFeedMatchesSessions == StreamSpec => []FeedMatchesSessions
<1>1. StreamInv /\ ServedInv => FeedMatchesSessions
  <2> SUFFICES ASSUME StreamInv, ServedInv PROVE FeedMatchesSessions
    OBVIOUS
  <2>1. OnlyLateFramesLeak
    <3>1. waiting = <<>> => Queued = {}
      BY DEF Queued
    <3> QED BY <3>1 DEF ServedInv, RegisteredLeaves, OnlyLateFramesLeak
  <2>2. ViewIsRegistered
    BY DEF ServedInv, ShownIsRegistered, ViewIsRegistered
  <2> QED BY <2>1, <2>2 DEF FeedMatchesSessions
<1> QED BY <1>1, SpecServedInv, PTL

\* Every variable keeps its type.
THEOREM StreamTypeCorrect == StreamSpec => []StreamTypeOK
<1>1. StreamInv /\ ServedInv => StreamTypeOK
  BY DEF StreamInv, Shapes, ServedInv, FeedTypes, StreamTypeOK
<1> QED BY <1>1, SpecServedInv, PTL
==============================================================================
