--------------------------- MODULE StreamSessions --------------------------
(***************************************************************************)
(* The app's sessions on the backend's own WebSocket                       *)
(* (stream_routes.py, stream_connection_manager.py).                       *)
(*                                                                         *)
(* A phone or a browser (a client instance) opens a link; a newer link     *)
(* with a higher generation replaces the session of the older one.  What a *)
(* session subscribes to is registered with the feed subscription manager  *)
(* under that manager's lock, which asyncio grants first come first        *)
(* served.  Every link has its own task, which runs at its awaits beside   *)
(* the others: closing an old socket, waiting for the lock, receiving.     *)
(***************************************************************************)
EXTENDS Integers, Sequences

CONSTANTS
    Links,        \* WebSockets, each used once
    Clients,      \* client instances
    Generations,  \* connection generations a link may carry
    Views,        \* what a subscribe message may ask for
    MaxRevision,  \* bound on subscribe messages of a link
    Alarm,        \* failed signal pushes in a row that are reported
    Nobody        \* no link, nothing registered

ASSUME StreamAssumption ==
    /\ Generations \subseteq Nat /\ MaxRevision \in Nat /\ Alarm \in Nat \ {0}
    /\ Nobody \notin Links \cup Views

VARIABLES
    link,        \* per link: its task and its ClientSession
    sessions,    \* _sessions
    byClient,    \* _session_by_client_instance
    waiting,     \* the subscription manager's lock queue, the holder first
    registered,  \* the subscription manager's maps
    signals,     \* per link: the push loop runs, and its failures in a row
    late         \* history: links that handled a frame after their removal

streamVars == <<link, sessions, byClient, waiting, registered, signals, late>>

Steps == {"new", "closing", "replacing", "receiving", "subscribing", "leaving", "gone"}

LinkRecord ==
    [step : Steps, client : Clients \cup {Nobody}, generation : Nat, open : BOOLEAN,
     replaces : Links \cup {Nobody}, revision : -1..MaxRevision, view : Views \cup {Nobody},
     asked : -1..MaxRevision]

LockRequest == [of : Links, session : Links, view : Views \cup {Nobody}]

StreamTypeOK ==
    /\ link \in [Links -> LinkRecord]
    /\ sessions \subseteq Links
    /\ byClient \in [Clients -> Links \cup {Nobody}]
    /\ waiting \in Seq(LockRequest)
    /\ registered \in [Links -> Views \cup {Nobody}]
    /\ signals \in [Links -> [runs : BOOLEAN, failures : 0..Alarm]]
    /\ late \subseteq Links

StreamInit ==
    /\ link = [l \in Links |-> [step |-> "new", client |-> Nobody, generation |-> 0,
                                open |-> FALSE, replaces |-> Nobody, revision |-> -1,
                                view |-> Nobody, asked |-> -1]]
    /\ sessions = {} /\ byClient = [c \in Clients |-> Nobody]
    /\ waiting = <<>>
    /\ registered = [l \in Links |-> Nobody]
    /\ signals = [l \in Links |-> [runs |-> FALSE, failures |-> 0]]
    /\ late = {}

Quiet == [runs |-> FALSE, failures |-> 0]

\* connect, once the older session is out of the way.
Register(l, c, others) ==
    /\ sessions' = others \cup {l}
    /\ byClient' = [byClient EXCEPT ![c] = l]

\* connect: no session of this client, or one that is older.
Open(l, c, g) ==
    /\ link[l].step = "new"
    /\ LET old == byClient[c]
           mine == [link[l] EXCEPT !.client = c, !.generation = g, !.open = TRUE]
       IN \/ /\ old = Nobody
             /\ link' = [link EXCEPT ![l] = [mine EXCEPT !.step = "receiving"]]
             /\ Register(l, c, sessions)
          \/ /\ old # Nobody /\ g > link[old].generation
             /\ link' = [link EXCEPT ![l] = [mine EXCEPT !.step = "closing", !.replaces = old]]
             /\ UNCHANGED <<sessions, byClient>>
          \/ /\ old # Nobody /\ g <= link[old].generation
             /\ link' = [link EXCEPT ![l] = [mine EXCEPT !.step = "gone", !.open = FALSE]]
             /\ UNCHANGED <<sessions, byClient>>
    /\ UNCHANGED <<waiting, registered, signals, late>>

\* disconnect up to the lock: the session leaves both indexes, its pushes stop.
Removed(s) == sessions \ {s}
BrokenUnindexed(s) == byClient
Unindexed(s) == [c \in Clients |-> IF byClient[c] = s THEN Nobody ELSE byClient[c]]

BrokenStopped(s) == signals
Stopped(s) == [signals EXCEPT ![s] = Quiet]

BrokenAskLock(l, s, view) == waiting' = <<[of |-> l, session |-> s, view |-> view]>> \o waiting
AskLock(l, s, view) == waiting' = Append(waiting, [of |-> l, session |-> s, view |-> view])

\* The old socket is closed; whoever finds its session still there removes it.
CloseOld(l) ==
    /\ link[l].step = "closing"
    /\ LET s == link[l].replaces c == link[l].client
       IN IF s \in sessions
          THEN /\ sessions' = Removed(s) /\ byClient' = Unindexed(s)
               /\ signals' = Stopped(s)
               /\ AskLock(l, s, Nobody)
               /\ link' = [link EXCEPT ![s].open = FALSE, ![l].step = "replacing"]
          ELSE /\ Register(l, c, sessions)
               /\ link' = [link EXCEPT ![s].open = FALSE, ![l].step = "receiving"]
               /\ UNCHANGED <<waiting, signals>>
    /\ UNCHANGED <<registered, late>>

LateFrame(l) == late' = IF l \in sessions THEN late ELSE late \cup {l}

\* _handle_subscribe up to the lock.  A frame that was being received when the
\* server closed the socket is still handled.
Fresh(l, revision) == revision > link[l].revision
Subscribe(l, revision, view) ==
    /\ link[l].step = "receiving" /\ Fresh(l, revision)
    /\ link' = [link EXCEPT ![l].step = "subscribing", ![l].asked = revision]
    /\ AskLock(l, l, view)
    /\ LateFrame(l)
    /\ UNCHANGED <<sessions, byClient, registered, signals>>

\* _handle_set_underlying replaces the push loop.
SetUnderlying(l) ==
    /\ link[l].step = "receiving"
    /\ signals' = [signals EXCEPT ![l].runs = TRUE]
    /\ link' = [link EXCEPT ![l].step = IF @ = "receiving" /\ ~link[l].open THEN "gone" ELSE @]
    /\ LateFrame(l)
    /\ UNCHANGED <<sessions, byClient, waiting, registered>>

\* _push_signals_once: a failure counts, the third in a row is reported once.
PushSignals(l, succeeds) ==
    /\ signals[l].runs
    /\ signals' = [signals EXCEPT ![l].failures =
                     IF succeeds THEN 0 ELSE IF @ = Alarm THEN @ ELSE @ + 1]
    /\ UNCHANGED <<link, sessions, byClient, waiting, registered, late>>

\* The phone went away, or was silent for _CLIENT_IDLE_TIMEOUT_SECONDS, or the
\* socket was closed under the task: disconnect, from the route's finally.
Leave(l) ==
    /\ link[l].step = "receiving"
    /\ IF l \in sessions
       THEN /\ sessions' = Removed(l) /\ byClient' = Unindexed(l)
            /\ signals' = Stopped(l)
            /\ AskLock(l, l, Nobody)
            /\ link' = [link EXCEPT ![l].step = "leaving", ![l].open = FALSE]
       ELSE /\ link' = [link EXCEPT ![l].step = "gone", ![l].open = FALSE]
            /\ UNCHANGED <<sessions, byClient, signals, waiting>>
    /\ UNCHANGED <<registered, late>>

\* What a task does when the manager's call returns: a subscriber remembers the
\* revision and the view; then the next receive, which fails on a closed socket.
BrokenAfterCall(request, accepted) ==
    LET l == request.of
    IN [link EXCEPT ![l].step = "receiving", ![l].revision = link[l].asked + 1,
                    ![l].view = request.view]
AfterCall(request, accepted) ==
    LET l == request.of
    IN CASE link[l].step = "replacing" -> [link EXCEPT ![l].step = "receiving"]
         [] link[l].step = "leaving" -> [link EXCEPT ![l].step = "gone"]
         [] OTHER ->
              [link EXCEPT ![l].step = IF link[l].open THEN "receiving" ELSE "gone",
                           ![l].revision = IF accepted THEN link[l].asked ELSE @,
                           ![l].view = IF accepted THEN request.view ELSE @]

Maps(request, accepted) ==
    IF accepted THEN [registered EXCEPT ![request.session] = request.view] ELSE registered

\* set_client_subscription, or remove_client, by the holder of the lock.
HoldLock(accepted) ==
    LET request == Head(waiting)
    IN /\ waiting # <<>>
       /\ request.view = Nobody => accepted
       /\ registered' = Maps(request, accepted)
       /\ link' = AfterCall(request, accepted)
       /\ waiting' = Tail(waiting)
       /\ IF link[request.of].step = "replacing"
          THEN Register(request.of, link[request.of].client, sessions)
          ELSE UNCHANGED <<sessions, byClient>>
       /\ UNCHANGED <<signals, late>>

StreamNext ==
    \/ \E l \in Links :
        \/ \E c \in Clients, g \in Generations : Open(l, c, g)
        \/ CloseOld(l) \/ SetUnderlying(l) \/ Leave(l)
        \/ \E r \in 0..MaxRevision, v \in Views : Subscribe(l, r, v)
        \/ \E ok \in BOOLEAN : PushSignals(l, ok)
    \/ \E accepted \in BOOLEAN : HoldLock(accepted)

StreamSpec == StreamInit /\ [][StreamNext]_streamVars

\* dispatch_tick and its siblings: whom an update of an instrument reaches.
Recipients(k) == {l \in sessions : link[l].open /\ link[l].view # Nobody /\ k \in link[l].view}

-----------------------------------------------------------------------------
(* Properties.                                                             *)

\* A client's session in the index is one of the sessions, and its own: no
\* update is lost because the index points at a session already removed.
IndexIsLive ==
    \A c \in Clients : byClient[c] # Nobody =>
        byClient[c] \in sessions /\ link[byClient[c]].client = c

\* remove_client "drops a disconnected session's contribution to the union
\* entirely": once the lock queue is empty only a session that handled a frame
\* after its removal can still be registered.
OnlyLateFramesLeak ==
    waiting = <<>> =>
        \A l \in Links : registered[l] # Nobody => l \in sessions \cup late

\* A session is sent what the feed is subscribed to for it, and nothing else,
\* also after a request was refused for the D30 cap.
ViewIsRegistered ==
    \A l \in sessions : link[l].step = "receiving" => link[l].view = registered[l]

\* Signals are computed only for a session that is there, or for one that asked
\* in a late frame.
NoSignalsForTheGone == \A l \in Links : signals[l].runs => l \in sessions \cup late

\* What the feed serves and what the sessions show is one: nothing but a late frame
\* leaves a view registered for the gone, and no session shows another view than its own.
FeedMatchesSessions == OnlyLateFramesLeak /\ ViewIsRegistered

=============================================================================
