-------------------------- MODULE MarketFeedProofs --------------------------
(* What the demand for market data can rely on in MarketFeed, proved for   *)
(* any number of keys, sessions, changes and faults.                       *)
EXTENDS MarketFeed, FiniteSetTheorems, SequenceTheorems, TLAPS

-----------------------------------------------------------------------------
(* Queues of messages.                                                     *)

\* The queue has a subscription of the key still to send.
HasSub(q, k) == \E i \in 1..Len(q) : q[i].do = "sub" /\ k \in q[i].keys

\* Whoever unsubscribes the key subscribes it again later in the same queue.
Paired(q, k) ==
    \A i \in 1..Len(q) :
        (q[i].do = "unsub" /\ k \in q[i].keys)
            => \E j \in 1..Len(q) : j > i /\ q[j].do = "sub" /\ k \in q[j].keys

\* No message of the queue takes the key away.
NeverDrops(q, k) == \A i \in 1..Len(q) : q[i].do = "sub" \/ k \notin q[i].keys

\* A queue of one message or none.
LEMMA SayIfAnyFacts ==
    ASSUME NEW do \in {"sub", "unsub"}, NEW mode \in FeedModes, NEW keys \in SUBSET Keys
    PROVE  /\ SayIfAny(do, mode, keys) \in Seq(Message)
           /\ keys # {} => SayIfAny(do, mode, keys) # <<>>
           /\ \A k \in keys : do = "sub" => HasSub(SayIfAny(do, mode, keys), k)
           /\ \A k : do = "sub" \/ k \notin keys => NeverDrops(SayIfAny(do, mode, keys), k)
<1>1. CASE keys = {}
  BY <1>1 DEF SayIfAny, HasSub, NeverDrops
<1>2. CASE keys # {}
  <2> DEFINE msg == Say(do, mode, keys)
  <2>1. SayIfAny(do, mode, keys) = <<msg>> /\ msg \in Message
    BY <1>2 DEF SayIfAny, Say, Message
  <2>2. msg.do = do /\ msg.keys = keys
    BY DEF Say
  <2> HIDE DEF msg
  <2>3. <<msg>> \in Seq(Message) /\ Len(<<msg>>) = 1 /\ <<msg>>[1] = msg
    BY <2>1
  <2> QED BY <2>1, <2>2, <2>3 DEF HasSub, NeverDrops
<1> QED BY <1>1, <1>2

\* What one part of a queue promises the whole of it promises.
LEMMA JoinedFacts ==
    ASSUME NEW p \in Seq(Message), NEW q \in Seq(Message)
    PROVE  /\ p \o q \in Seq(Message)
           /\ p # <<>> \/ q # <<>> => p \o q # <<>>
           /\ \A k : HasSub(p, k) \/ HasSub(q, k) => HasSub(p \o q, k)
           /\ \A k : NeverDrops(p, k) /\ NeverDrops(q, k) => NeverDrops(p \o q, k)
           /\ \A k : HasSub(q, k) /\ NeverDrops(q, k) => Paired(p \o q, k)
           /\ \A k : Paired(p, k) /\ NeverDrops(q, k) => Paired(p \o q, k)
<1> DEFINE r == p \o q
<1>1. /\ r \in Seq(Message) /\ Len(r) = Len(p) + Len(q)
      /\ \A i \in 1..Len(p) : r[i] = p[i]
      /\ \A i \in 1..Len(q) : r[Len(p) + i] = q[i]
  OBVIOUS
<1>2. Len(p) \in Nat /\ Len(q) \in Nat
  OBVIOUS
<1>3. \A i \in 1..Len(r) : \/ i \in 1..Len(p) /\ r[i] = p[i]
                           \/ i - Len(p) \in 1..Len(q) /\ r[i] = q[i - Len(p)]
  <2> SUFFICES ASSUME NEW i \in 1..Len(r), i \notin 1..Len(p)
               PROVE  i - Len(p) \in 1..Len(q) /\ r[i] = q[i - Len(p)]
    BY <1>1
  <2>1. i - Len(p) \in 1..Len(q)
    BY <1>1, <1>2
  <2>2. r[Len(p) + (i - Len(p))] = q[i - Len(p)]
    BY <1>1, <2>1
  <2>3. Len(p) + (i - Len(p)) = i
    BY <1>1, <1>2
  <2> QED BY <2>1, <2>2, <2>3
<1>4. \A j \in 1..Len(q) : Len(p) + j \in 1..Len(r) /\ r[Len(p) + j] = q[j]
  BY <1>1, <1>2
<1>5. \A i \in 1..Len(p) : i \in 1..Len(r) /\ r[i] = p[i]
  BY <1>1, <1>2
<1>6. p # <<>> \/ q # <<>> => r # <<>>
  BY <1>1, <1>2, EmptySeq
<1> HIDE DEF r
<1>7. \A k : HasSub(p, k) \/ HasSub(q, k) => HasSub(r, k)
  BY <1>4, <1>5 DEF HasSub
<1>8. \A k : NeverDrops(p, k) /\ NeverDrops(q, k) => NeverDrops(r, k)
  BY <1>3 DEF NeverDrops
<1>9. \A k : HasSub(q, k) /\ NeverDrops(q, k) => Paired(r, k)
  <2> SUFFICES ASSUME NEW k, HasSub(q, k), NeverDrops(q, k),
                      NEW i \in 1..Len(r), r[i].do = "unsub", k \in r[i].keys
               PROVE  \E j \in 1..Len(r) : j > i /\ r[j].do = "sub" /\ k \in r[j].keys
    BY DEF Paired
  <2>1. i \in 1..Len(p)
    BY <1>3 DEF NeverDrops
  <2>2. PICK j \in 1..Len(q) : q[j].do = "sub" /\ k \in q[j].keys
    BY DEF HasSub
  <2>3. Len(p) + j > i
    BY <1>2, <2>1
  <2> QED BY <1>4, <2>2, <2>3
<1>10. \A k : Paired(p, k) /\ NeverDrops(q, k) => Paired(r, k)
  <2> SUFFICES ASSUME NEW k, Paired(p, k), NeverDrops(q, k),
                      NEW i \in 1..Len(r), r[i].do = "unsub", k \in r[i].keys
               PROVE  \E j \in 1..Len(r) : j > i /\ r[j].do = "sub" /\ k \in r[j].keys
    BY DEF Paired
  <2>1. i \in 1..Len(p) /\ r[i] = p[i]
    BY <1>3 DEF NeverDrops
  <2> QED BY <1>5, <2>1 DEF Paired
<1> QED BY <1>1, <1>6, <1>7, <1>8, <1>9, <1>10 DEF r

LEMMA NeverDropsIsPaired ==
    ASSUME NEW q, NEW k, NeverDrops(q, k)
    PROVE  Paired(q, k)
  BY DEF NeverDrops, Paired

\* Subscribed in the queue, after whatever else it does with the key.
Restored(q, k) == HasSub(q, k) /\ Paired(q, k)

\* A queue that grows by subscriptions keeps its promises and makes new ones.
LEMMA GrownFacts ==
    ASSUME NEW p \in Seq(Message), NEW q \in Seq(Message), \A k : NeverDrops(q, k)
    PROVE  /\ p \o q \in Seq(Message)
           /\ \A k : Restored(p, k) \/ HasSub(q, k) => Restored(p \o q, k)
           /\ \A k : Paired(p, k) => Paired(p \o q, k)
  BY JoinedFacts DEF Restored

LEMMA EmptyQueue ==
    /\ <<>> \in Seq(Message)
    /\ \A k : Paired(<<>>, k) /\ ~HasSub(<<>>, k)
  BY DEF Paired, HasSub

\* What is left of a queue after its first message is sent.
LEMMA TailFacts ==
    ASSUME NEW q \in Seq(Message), q # <<>>
    PROVE  /\ Head(q) \in Message /\ Tail(q) \in Seq(Message)
           /\ (Tail(q) = <<>>) = (Len(q) = 1)
           /\ \A k : Paired(q, k) => Paired(Tail(q), k)
           /\ \A k : HasSub(q, k) /\ ~HasSub(Tail(q), k)
                     => Head(q).do = "sub" /\ k \in Head(q).keys
           /\ \A k : Paired(q, k) /\ Head(q).do = "unsub" /\ k \in Head(q).keys
                     => HasSub(Tail(q), k)
<1> DEFINE t == Tail(q)
<1>1. /\ Len(q) \in Nat \ {0} /\ q[1] = Head(q) /\ Head(q) \in Message
      /\ t \in Seq(Message) /\ Len(t) = Len(q) - 1
      /\ \A i \in 1..Len(t) : t[i] = q[i + 1]
  BY EmptySeq, HeadTailProperties
<1>2. \A j \in 1..Len(q) : j > 1 => j - 1 \in 1..Len(t) /\ t[j - 1] = q[j]
  <2> SUFFICES ASSUME NEW j \in 1..Len(q), j > 1 PROVE j - 1 \in 1..Len(t) /\ t[j - 1] = q[j]
    OBVIOUS
  <2>1. j - 1 \in 1..Len(t) /\ (j - 1) + 1 = j
    BY <1>1
  <2> QED BY <1>1, <2>1
<1>3. (t = <<>>) = (Len(q) = 1)
  BY <1>1, EmptySeq
<1> HIDE DEF t
<1>4. \A k : HasSub(q, k) /\ ~HasSub(t, k) => Head(q).do = "sub" /\ k \in Head(q).keys
  <2> SUFFICES ASSUME NEW k, HasSub(q, k), ~HasSub(t, k)
               PROVE  Head(q).do = "sub" /\ k \in Head(q).keys
    OBVIOUS
  <2>1. PICK j \in 1..Len(q) : q[j].do = "sub" /\ k \in q[j].keys
    BY DEF HasSub
  <2>2. j = 1
    BY <1>1, <1>2, <2>1 DEF HasSub
  <2> QED BY <1>1, <2>1, <2>2
<1>5. \A k : Paired(q, k) /\ Head(q).do = "unsub" /\ k \in Head(q).keys => HasSub(t, k)
  <2> SUFFICES ASSUME NEW k, Paired(q, k), Head(q).do = "unsub", k \in Head(q).keys
               PROVE  HasSub(t, k)
    OBVIOUS
  <2>1. 1 \in 1..Len(q)
    BY <1>1
  <2>2. PICK j \in 1..Len(q) : j > 1 /\ q[j].do = "sub" /\ k \in q[j].keys
    BY <1>1, <2>1 DEF Paired
  <2> QED BY <1>2, <2>2 DEF HasSub
<1>6. \A k : Paired(q, k) => Paired(t, k)
  <2> SUFFICES ASSUME NEW k, Paired(q, k),
                      NEW i \in 1..Len(t), t[i].do = "unsub", k \in t[i].keys
               PROVE  \E j \in 1..Len(t) : j > i /\ t[j].do = "sub" /\ k \in t[j].keys
    BY DEF Paired
  <2>1. i + 1 \in 1..Len(q) /\ q[i + 1] = t[i]
    BY <1>1
  <2>2. PICK j \in 1..Len(q) : j > i + 1 /\ q[j].do = "sub" /\ k \in q[j].keys
    BY <2>1 DEF Paired
  <2>3. j > 1 /\ j - 1 > i
    BY <2>2
  <2> QED BY <1>2, <2>2, <2>3
<1> QED BY <1>1, <1>3, <1>4, <1>5, <1>6 DEF t

-----------------------------------------------------------------------------
(* The inductive invariant.                                                *)

\* The desired modes are those of the wishes, whose D30 fits the allowance.
DesiredIsTarget == desired = Target(want, tracked, held)
AllowanceIsKept == Cardinality(Union("d30", want)) <= D30Cap

\* No queue takes a key away for good: the one of a change may, from keys that
\* nobody wants any more.
QueuesArePaired ==
    \A k \in Keys : /\ desired[k] # NoMode => Paired(applying, k)
                    /\ Paired(replaying, k)
                    /\ Paired(checking.msgs, k)

\* A wanted key is subscribed, or one of the three tasks is about to.
ServedOrSoon ==
    conn = "up" => \A k \in Keys : desired[k] # NoMode =>
        \/ broker[k].mode # NoMode
        \/ HasSub(applying, k) \/ HasSub(replaying, k) \/ HasSub(checking.msgs, k)

FeedInv == /\ FeedTypeOK /\ DesiredIsTarget /\ AllowanceIsKept /\ QueuesArePaired /\ ServedOrSoon
           /\ EveryDesiredKeyHasAClock

-----------------------------------------------------------------------------
(* The operators.                                                          *)

LEMMA UpToType ==
    ASSUME NEW n \in Nat, NEW cap \in Nat
    PROVE  UpTo(n, cap) \in 0..cap
  BY DEF UpTo

LEMMA TargetType ==
    ASSUME NEW w, NEW t, NEW h
    PROVE  Target(w, t, h) \in [Keys -> FeedModes \cup {NoMode}]
  BY DEF Target, FeedModes

\* A change of what is desired unsubscribes nothing it does not subscribe
\* again, and subscribes whatever is desired in another mode than before.
LEMMA ChangeFacts ==
    ASSUME NEW old \in [Keys -> FeedModes \cup {NoMode}],
           NEW new \in [Keys -> FeedModes \cup {NoMode}]
    PROVE  /\ Change(old, new) \in Seq(Message)
           /\ new # old => Change(old, new) # <<>>
           /\ \A k \in Keys : new[k] # NoMode => Paired(Change(old, new), k)
           /\ \A k \in Keys : new[k] # NoMode /\ new[k] # old[k] => HasSub(Change(old, new), k)
           /\ \A k \in Keys : old[k] = NoMode => Paired(Change(old, new), k)
<1> DEFINE gone == SayIfAny("unsub", "ltpc", Departed(old, new))
           d30 == SayIfAny("sub", "full_d30", Arrived(old, new, "full_d30"))
           full == SayIfAny("sub", "full", Arrived(old, new, "full"))
           ltpc == SayIfAny("sub", "ltpc", Arrived(old, new, "ltpc"))
<1>1. /\ Departed(old, new) \in SUBSET Keys
      /\ \A m \in FeedModes : Arrived(old, new, m) \in SUBSET Keys
  BY DEF Departed, Arrived, InMode
<1>2. /\ "full_d30" \in FeedModes /\ "full" \in FeedModes /\ "ltpc" \in FeedModes
      /\ NoMode \notin FeedModes
  BY NoModeAssumption DEF FeedModes
<1>3. /\ gone \in Seq(Message)
      /\ Departed(old, new) # {} => gone # <<>>
      /\ \A k : k \notin Departed(old, new) => NeverDrops(gone, k)
  BY <1>1, <1>2, SayIfAnyFacts
<1>4. /\ d30 \in Seq(Message)
      /\ Arrived(old, new, "full_d30") # {} => d30 # <<>>
      /\ \A k : NeverDrops(d30, k)
      /\ \A k \in Arrived(old, new, "full_d30") : HasSub(d30, k)
  BY <1>1, <1>2, SayIfAnyFacts
<1>5. /\ full \in Seq(Message)
      /\ Arrived(old, new, "full") # {} => full # <<>>
      /\ \A k : NeverDrops(full, k)
      /\ \A k \in Arrived(old, new, "full") : HasSub(full, k)
  BY <1>1, <1>2, SayIfAnyFacts
<1>6. /\ ltpc \in Seq(Message)
      /\ Arrived(old, new, "ltpc") # {} => ltpc # <<>>
      /\ \A k : NeverDrops(ltpc, k)
      /\ \A k \in Arrived(old, new, "ltpc") : HasSub(ltpc, k)
  BY <1>1, <1>2, SayIfAnyFacts
<1>7. Change(old, new) = ((gone \o d30) \o full) \o ltpc
  BY DEF Change
<1> HIDE DEF gone, d30, full, ltpc
<1>8. /\ Change(old, new) \in Seq(Message)
      /\ \A k : HasSub(d30, k) \/ HasSub(full, k) \/ HasSub(ltpc, k)
               => Restored(Change(old, new), k)
      /\ \A k : NeverDrops(gone, k) => Paired(Change(old, new), k)
      /\ gone # <<>> => Change(old, new) # <<>>
  <2>1. /\ gone \o d30 \in Seq(Message)
        /\ \A k : HasSub(d30, k) => Restored(gone \o d30, k)
        /\ \A k : NeverDrops(gone, k) => Paired(gone \o d30, k)
        /\ gone # <<>> => gone \o d30 # <<>>
    BY <1>3, <1>4, GrownFacts, JoinedFacts, NeverDropsIsPaired
  <2>2. /\ (gone \o d30) \o full \in Seq(Message)
        /\ \A k : HasSub(d30, k) \/ HasSub(full, k) => Restored((gone \o d30) \o full, k)
        /\ \A k : NeverDrops(gone, k) => Paired((gone \o d30) \o full, k)
        /\ gone # <<>> => (gone \o d30) \o full # <<>>
    BY <1>5, <2>1, GrownFacts, JoinedFacts
  <2> DEFINE front == (gone \o d30) \o full
  <2>3. Change(old, new) = front \o ltpc
    BY <1>7
  <2> HIDE DEF front
  <2>4. /\ front \o ltpc \in Seq(Message)
        /\ \A k : Restored(front, k) \/ HasSub(ltpc, k) => Restored(front \o ltpc, k)
        /\ \A k : Paired(front, k) => Paired(front \o ltpc, k)
        /\ front # <<>> => front \o ltpc # <<>>
    BY <1>6, <2>2, GrownFacts, JoinedFacts DEF front
  <2> QED BY <2>2, <2>3, <2>4 DEF front
<1>9. \A k \in Keys : new[k] # NoMode /\ new[k] # old[k] => Restored(Change(old, new), k)
  <2> SUFFICES ASSUME NEW k \in Keys, new[k] # NoMode, new[k] # old[k]
               PROVE  HasSub(d30, k) \/ HasSub(full, k) \/ HasSub(ltpc, k)
    BY <1>8
  <2>1. new[k] \in {"full_d30", "full", "ltpc"}
    BY DEF FeedModes
  <2>2. k \in Arrived(old, new, new[k])
    BY DEF Arrived, InMode
  <2> QED BY <1>4, <1>5, <1>6, <2>1, <2>2
<1>10. \A k \in Keys : old[k] = NoMode \/ new[k] = old[k] => NeverDrops(gone, k)
  BY <1>3 DEF Departed
<1>11. new # old => Change(old, new) # <<>>
  <2> SUFFICES ASSUME new # old PROVE Change(old, new) # <<>>
    OBVIOUS
  <2>1. PICK k \in Keys : new[k] # old[k]
    OBVIOUS
  <2>2. CASE old[k] # NoMode
    <3>1. k \in Departed(old, new)
      BY <2>1, <2>2 DEF Departed
    <3> QED BY <1>3, <1>8, <3>1
  <2>3. CASE new[k] # NoMode
    BY <1>9, <2>1, <2>3, EmptyQueue DEF Restored
  <2> QED BY <2>1, <2>2, <2>3
<1> QED BY <1>8, <1>9, <1>10, <1>11 DEF Restored

\* A nudge subscribes again whatever it unsubscribes.
LEMMA NudgeFacts ==
    ASSUME desired \in [Keys -> FeedModes \cup {NoMode}],
           NEW stale \in SUBSET {k \in Keys : desired[k] # NoMode}, NEW counts
    PROVE  /\ Nudge(stale, counts) \in Seq(Message)
           /\ stale # {} => Nudge(stale, counts) # <<>>
           /\ \A k \in Keys : Paired(Nudge(stale, counts), k)
<1> DEFINE hard == {k \in stale : counts[k] >= EscalateAfter}
           soft == stale \ hard
           gone == SayIfAny("unsub", "ltpc", hard)
           h1 == Resubscribe("full_d30", hard)
           h2 == Resubscribe("full", hard)
           h3 == Resubscribe("ltpc", hard)
           s1 == Resubscribe("full", soft)
           s2 == Resubscribe("full_d30", soft)
           s3 == Resubscribe("ltpc", soft)
<1>1. hard \in SUBSET Keys /\ soft \in SUBSET Keys /\ hard \subseteq stale
  OBVIOUS
<1>2. Nudge(stale, counts) = (((((gone \o h1) \o h2) \o h3) \o s1) \o s2) \o s3
  BY DEF Nudge
<1>3. stale = hard \cup soft
  OBVIOUS
<1> HIDE DEF hard, soft
<1>4. ASSUME NEW m \in FeedModes, NEW keys \in SUBSET Keys
      PROVE  /\ Resubscribe(m, keys) \in Seq(Message)
             /\ \A k : NeverDrops(Resubscribe(m, keys), k)
             /\ \A k \in keys : desired[k] = m => HasSub(Resubscribe(m, keys), k)
  <2> DEFINE those == {k \in keys : desired[k] = m}
  <2>1. those \in SUBSET Keys
    OBVIOUS
  <2>2. \A k \in keys : desired[k] = m => k \in those
    OBVIOUS
  <2>3. Resubscribe(m, keys) = SayIfAny("sub", m, those)
    BY DEF Resubscribe
  <2> HIDE DEF those
  <2> QED BY <2>1, <2>2, <2>3, SayIfAnyFacts
<1>5. "full_d30" \in FeedModes /\ "full" \in FeedModes /\ "ltpc" \in FeedModes
  BY DEF FeedModes
<1>6. /\ gone \in Seq(Message)
      /\ \A k : k \notin hard => Paired(gone, k)
  BY <1>1, <1>5, SayIfAnyFacts, NeverDropsIsPaired
<1>7. /\ h1 \in Seq(Message) /\ h2 \in Seq(Message) /\ h3 \in Seq(Message)
      /\ \A k : NeverDrops(h1, k) /\ NeverDrops(h2, k) /\ NeverDrops(h3, k)
      /\ \A k \in hard : HasSub(h1, k) \/ HasSub(h2, k) \/ HasSub(h3, k)
  <2>1. \A k \in hard : desired[k] \in {"full_d30", "full", "ltpc"}
    BY <1>1 DEF FeedModes
  <2> QED BY <1>1, <1>4, <1>5, <2>1
<1>8. /\ s1 \in Seq(Message) /\ s2 \in Seq(Message) /\ s3 \in Seq(Message)
      /\ \A k : NeverDrops(s1, k) /\ NeverDrops(s2, k) /\ NeverDrops(s3, k)
      /\ \A k \in soft : HasSub(s1, k) \/ HasSub(s2, k) \/ HasSub(s3, k)
  <2>1. \A k \in soft : desired[k] \in {"full_d30", "full", "ltpc"}
    BY <1>3 DEF FeedModes
  <2> QED BY <1>1, <1>4, <1>5, <2>1
<1> HIDE DEF gone, h1, h2, h3, s1, s2, s3
<1> DEFINE q1 == gone \o h1
           q2 == q1 \o h2
           q3 == q2 \o h3
           q4 == q3 \o s1
           q5 == q4 \o s2
           q6 == q5 \o s3
<1>9. /\ q1 \in Seq(Message)
      /\ \A k : HasSub(h1, k) => Restored(q1, k)
      /\ \A k : k \notin hard => Paired(q1, k)
  BY <1>6, <1>7, GrownFacts
<1> HIDE DEF q1
<1>10. /\ q2 \in Seq(Message)
       /\ \A k : HasSub(h1, k) \/ HasSub(h2, k) => Restored(q2, k)
       /\ \A k : k \notin hard => Paired(q2, k)
  BY <1>7, <1>9, GrownFacts
<1> HIDE DEF q2
<1>11. /\ q3 \in Seq(Message)
       /\ \A k : k \in hard => Restored(q3, k)
       /\ \A k : k \notin hard => Paired(q3, k)
  BY <1>7, <1>10, GrownFacts
<1> HIDE DEF q3
<1>12. /\ q4 \in Seq(Message)
       /\ \A k : k \in hard \/ HasSub(s1, k) => Restored(q4, k)
       /\ \A k : k \notin hard => Paired(q4, k)
  BY <1>8, <1>11, GrownFacts
<1> HIDE DEF q4
<1>13. /\ q5 \in Seq(Message)
       /\ \A k : k \in hard \/ HasSub(s1, k) \/ HasSub(s2, k) => Restored(q5, k)
       /\ \A k : k \notin hard => Paired(q5, k)
  BY <1>8, <1>12, GrownFacts
<1> HIDE DEF q5
<1>14. /\ q6 \in Seq(Message)
       /\ \A k : k \in stale => Restored(q6, k)
       /\ \A k : k \notin hard => Paired(q6, k)
  BY <1>3, <1>8, <1>13, GrownFacts
<1>15. Nudge(stale, counts) = q6
  BY <1>2 DEF q1, q2, q3, q4, q5
<1> HIDE DEF q6
<1>16. stale # {} => q6 # <<>>
  BY <1>14, EmptyQueue DEF Restored
<1> QED BY <1>3, <1>14, <1>15, <1>16 DEF Restored

\* What a message does to the broker, whichever way it takes it.
LEMMA SendFacts ==
    ASSUME broker \in [Keys -> [mode : FeedModes \cup {NoMode, "lost"}, ticks : BOOLEAN]],
           NEW msg \in Message, Send(msg)
    PROVE  /\ broker' \in [Keys -> [mode : FeedModes \cup {NoMode, "lost"}, ticks : BOOLEAN]]
           /\ \A k \in Keys : k \notin msg.keys => broker'[k] = broker[k]
           /\ conn = "up" => \A k \in Keys :
                 (msg.do = "sub" /\ k \in msg.keys) => broker'[k].mode # NoMode
<1> DEFINE Service == [mode : FeedModes \cup {NoMode, "lost"}, ticks : BOOLEAN]
<1>1. CASE conn # "up"
  BY <1>1 DEF Send
<1>2. CASE conn = "up"
  <2>1. PICK choice \in [Keys -> {"old", "new"}] :
            broker' = [k \in Keys |->
                LET outcomes == Served(broker, k, msg)
                IN CHOOSE o \in outcomes :
                    \/ Cardinality(outcomes) = 1
                    \/ (o = broker[k]) = (choice[k] = "old")]
    BY <1>2 DEF Send
  <2>2. ASSUME NEW k \in Keys
        PROVE  /\ broker'[k] \in Service
               /\ k \notin msg.keys => broker'[k] = broker[k]
               /\ (msg.do = "sub" /\ k \in msg.keys) => broker'[k].mode # NoMode
    <3> DEFINE outcomes == Served(broker, k, msg)
               P(o) == \/ Cardinality(outcomes) = 1
                       \/ (o = broker[k]) = (choice[k] = "old")
               changed == [broker[k] EXCEPT !.mode = msg.mode]
    <3>1. broker'[k] = CHOOSE o \in outcomes : P(o)
      BY <2>1
    <3>2. /\ msg.mode \in FeedModes /\ msg.do \in {"sub", "unsub"}
          /\ "lost" # NoMode /\ msg.mode # NoMode
          /\ \A m \in FeedModes : m # NoMode
      BY NoModeAssumption DEF Message
    <3>3. broker[k] \in Service /\ changed \in Service /\ changed.mode = msg.mode
      BY <3>2
    <3>4. /\ outcomes \subseteq Service
          /\ k \notin msg.keys => outcomes = {broker[k]}
          /\ (msg.do = "sub" /\ k \in msg.keys) => \A o \in outcomes : o.mode # NoMode
          /\ \/ \E o \in Service : outcomes = {o}
             \/ outcomes = {broker[k], changed}
      <4>1. CASE k \notin msg.keys
        <5>1. outcomes = {broker[k]}
          BY <4>1 DEF Served
        <5> HIDE DEF outcomes
        <5> QED BY <3>3, <4>1, <5>1
      <4>2. CASE k \in msg.keys /\ msg.do = "unsub"
        <5>1. outcomes = {[mode |-> NoMode, ticks |-> FALSE]}
          BY <4>2 DEF Served
        <5>2. [mode |-> NoMode, ticks |-> FALSE] \in Service
          OBVIOUS
        <5> HIDE DEF outcomes
        <5> QED BY <4>2, <5>1, <5>2
      <4>3. CASE k \in msg.keys /\ msg.do = "sub" /\ broker[k].mode \in {NoMode, "lost"}
        <5>1. outcomes = {[mode |-> msg.mode, ticks |-> TRUE]}
          BY <4>3 DEF Served
        <5>2. [mode |-> msg.mode, ticks |-> TRUE] \in Service
          BY <3>2
        <5>3. [mode |-> msg.mode, ticks |-> TRUE].mode # NoMode
          BY <3>2
        <5> HIDE DEF outcomes
        <5> QED BY <4>3, <5>1, <5>2, <5>3
      <4>4. CASE k \in msg.keys /\ msg.do = "sub" /\ broker[k].mode \notin {NoMode, "lost"}
        <5>1. outcomes = {broker[k], changed}
          BY <4>4 DEF Served
        <5> HIDE DEF changed, outcomes
        <5> QED BY <3>2, <3>3, <4>4, <5>1
      <4> QED BY <3>2, <4>1, <4>2, <4>3, <4>4
    <3>5. \E o \in outcomes : P(o)
      <4> HIDE DEF changed, outcomes
      <4>1. ASSUME NEW x \in Service, outcomes = {x} PROVE \E o \in outcomes : P(o)
        <5>1. Cardinality(outcomes) = 1
          BY <4>1, FS_Singleton
        <5>2. P(x)
          BY <5>1
        <5> HIDE DEF P
        <5> QED BY <4>1, <5>2
      <4>2. CASE outcomes = {broker[k], changed} /\ changed # broker[k]
        <5>1. CASE choice[k] = "old"
          <6>1. P(broker[k])
            BY <5>1
          <6> HIDE DEF P
          <6> QED BY <4>2, <6>1
        <5>2. CASE choice[k] # "old"
          <6>1. P(changed)
            BY <4>2, <5>2
          <6> HIDE DEF P
          <6> QED BY <4>2, <6>1
        <5> QED BY <5>1, <5>2
      <4>3. CASE outcomes = {broker[k], changed} /\ changed = broker[k]
        <5>1. outcomes = {changed}
          BY <4>3
        <5> QED BY <3>3, <4>1, <5>1
      <4> HIDE DEF P
      <4> QED BY <3>4, <4>1, <4>2, <4>3
    <3> HIDE DEF outcomes, P
    <3>6. broker'[k] \in outcomes
      BY <3>1, <3>5
    <3> QED BY <3>4, <3>6
  <2>3. broker' = [k \in Keys |-> broker'[k]]
    BY <2>1
  <2> QED BY <2>2, <2>3
<1> QED BY <1>1, <1>2

\* Sending the first message of a queue: a key that is subscribed, or that the
\* queue still subscribes, is so afterwards.
LEMMA SendStep ==
    ASSUME broker \in [Keys -> [mode : FeedModes \cup {NoMode, "lost"}, ticks : BOOLEAN]],
           NEW q \in Seq(Message), q # <<>>, Send(Head(q))
    PROVE  /\ Tail(q) \in Seq(Message)
           /\ (Tail(q) = <<>>) = (Len(q) = 1)
           /\ broker' \in [Keys -> [mode : FeedModes \cup {NoMode, "lost"}, ticks : BOOLEAN]]
           /\ \A k : Paired(q, k) => Paired(Tail(q), k)
           /\ conn = "up" => \A k \in Keys : Paired(q, k) =>
                 \/ broker'[k].mode # NoMode
                 \/ HasSub(Tail(q), k)
                 \/ broker'[k] = broker[k] /\ ~HasSub(q, k)
<1>1. Head(q) \in Message
  BY TailFacts
<1>2. Head(q).do \in {"sub", "unsub"}
  BY <1>1 DEF Message
<1> QED BY <1>1, <1>2, SendFacts, TailFacts

-----------------------------------------------------------------------------
(* One lemma per group of actions.                                         *)

LEMMA FeedInitInv == FeedInit => FeedInv
<1> SUFFICES ASSUME FeedInit PROVE FeedInv OBVIOUS
<1> USE FeedNumbersAssumption
<1>1. Union("d30", want) = {}
  BY DEF FeedInit, Union, NoWish
<1>2. AllowanceIsKept
  BY <1>1, FS_EmptySet DEF AllowanceIsKept
<1>3. DesiredIsTarget
  <2>1. \A f \in {"d30", "full", "ltpc"} : Union(f, want) = {}
    BY DEF FeedInit, Union, NoWish
  <2> QED BY <2>1 DEF FeedInit, DesiredIsTarget, Target, Nothing, Holders
<1>4. FeedTypeOK
  <2>1. /\ want \in [Sessions -> Wish] /\ held \in [Holders -> SUBSET Keys] /\ tracked \in SUBSET Keys
        /\ desired \in [Keys -> FeedModes \cup {NoMode}]
    BY DEF FeedInit, Wish, NoWish, Holders, Nothing
  <2>2. /\ applying \in Seq(Message) /\ replaying \in Seq(Message)
        /\ checking \in [pc : {"idle", "resetting", "nudging"}, msgs : Seq(Message), keys : SUBSET Keys]
        /\ (checking.pc = "idle") = (checking.msgs = <<>>)
    BY EmptyQueue DEF FeedInit, NotChecking
  <2>3. /\ broker \in [Keys -> [mode : FeedModes \cup {NoMode, "lost"}, ticks : BOOLEAN]]
        /\ conn \in {"up", "closing", "down"}
        /\ age \in [Keys -> 0..StaleAfter \cup {NoMode}]
    BY DEF FeedInit, Unserved, Nothing
  <2>4. /\ nudges \in [Keys -> 0..EscalateAfter] /\ streak \in [Keys -> 0..AlertAfter]
        /\ stage \in 0..2 /\ cooling \in 0..Cooldown /\ failures \in 0..AlertAfter
        /\ changes \in 0..MaxChanges /\ faults \in 0..MaxFaults
    BY DEF FeedInit
  <2> QED BY <2>1, <2>2, <2>3, <2>4 DEF FeedTypeOK
<1>5. QueuesArePaired /\ ServedOrSoon /\ EveryDesiredKeyHasAClock
  BY EmptyQueue DEF FeedInit, QueuesArePaired, ServedOrSoon, EveryDesiredKeyHasAClock,
     NotChecking, Nothing
<1> QED BY <1>2, <1>3, <1>4, <1>5 DEF FeedInv

\* What is wanted changes: the messages that follow serve it.
LEMMA ApplyInv ==
    ASSUME FeedInv, Changing,
           want' \in [Sessions -> Wish], held' \in [Holders -> SUBSET Keys], tracked' \in SUBSET Keys,
           AllowanceIsKept', Apply(want', tracked', held')
    PROVE  FeedInv'
<1> DEFINE new == Target(want', tracked', held')
<1>1. new \in [Keys -> FeedModes \cup {NoMode}] /\ desired \in [Keys -> FeedModes \cup {NoMode}]
  BY TargetType DEF FeedInv, FeedTypeOK
<1>2. desired' = new /\ applying = <<>> /\ applying' = IF new = desired THEN <<>> ELSE Change(desired, new)
  BY DEF Apply, Changing, UnionIsFree
<1>3. /\ changes' = changes + 1 /\ changes < MaxChanges
      /\ UNCHANGED <<replaying, checking, conn, broker, clockVars, failures, faults>>
  BY DEF Changing
<1> HIDE DEF new
<1>4. /\ applying' \in Seq(Message)
      /\ \A k \in Keys : new[k] # NoMode => Paired(applying', k)
      /\ \A k \in Keys : new[k] # NoMode /\ new[k] # desired[k] => HasSub(applying', k)
      /\ applying' = <<>> => new = desired
  BY <1>1, <1>2, ChangeFacts, EmptyQueue
<1>5. FeedTypeOK'
  <2>1. changes' \in 0..MaxChanges
    BY <1>3, FeedNumbersAssumption DEF FeedInv, FeedTypeOK
  <2> QED BY <1>1, <1>2, <1>3, <1>4, <2>1 DEF FeedInv, FeedTypeOK, clockVars
<1>6. DesiredIsTarget'
  BY <1>2 DEF DesiredIsTarget, new
<1>7. QueuesArePaired'
  BY <1>2, <1>3, <1>4 DEF FeedInv, QueuesArePaired
<1>8. ServedOrSoon'
  <2> SUFFICES ASSUME conn = "up", NEW k \in Keys, new[k] # NoMode
               PROVE  \/ broker[k].mode # NoMode
                      \/ HasSub(applying', k) \/ HasSub(replaying, k) \/ HasSub(checking.msgs, k)
    BY <1>2, <1>3 DEF ServedOrSoon
  <2>1. CASE new[k] # desired[k]
    BY <1>4, <2>1
  <2>2. CASE new[k] = desired[k]
    BY <1>2, <2>2, EmptyQueue DEF FeedInv, ServedOrSoon
  <2> QED BY <2>1, <2>2
<1>9. EveryDesiredKeyHasAClock'
  BY <1>2, <1>3, <1>4 DEF FeedInv, EveryDesiredKeyHasAClock, clockVars
<1> QED BY <1>5, <1>6, <1>7, <1>8, <1>9 DEF FeedInv

LEMMA WishInv ==
    ASSUME FeedInv, NEW s \in Sessions,
           RemoveClient(s) \/ \E w \in Wishes : SetClientSubscription(s, w)
    PROVE  FeedInv'
<1> USE DEF FeedInv
<1>1. NoWish \in Wish
  BY DEF NoWish, Wish
<1>2. ASSUME RemoveClient(s) PROVE FeedInv'
  <2>1. want' = [want EXCEPT ![s] = NoWish] /\ want' \in [Sessions -> Wish]
    BY <1>1, <1>2 DEF RemoveClient, FeedTypeOK
  <2>2. /\ Union("d30", want') \subseteq Union("d30", want)
        /\ Union("d30", want) \subseteq Keys
    BY <2>1 DEF Union, NoWish, FeedTypeOK, Wish
  <2>3. IsFiniteSet(Union("d30", want))
    BY <2>2, FS_Subset, WishesAssumption
  <2>4. /\ Cardinality(Union("d30", want')) <= Cardinality(Union("d30", want))
        /\ Cardinality(Union("d30", want')) \in Nat /\ Cardinality(Union("d30", want)) \in Nat
    BY <2>2, <2>3, FS_Subset, FS_CardinalityType
  <2>5. AllowanceIsKept'
    <3>1. D30Cap \in Nat
      BY FeedNumbersAssumption
    <3>2. Cardinality(Union("d30", want)) <= D30Cap
      BY DEF AllowanceIsKept
    <3>3. Cardinality(Union("d30", want')) <= D30Cap
      BY <2>4, <3>1, <3>2
    <3> QED BY <3>3 DEF AllowanceIsKept
  <2> QED BY <1>2, <2>1, <2>5, ApplyInv DEF RemoveClient, FeedTypeOK
<1>3. ASSUME NEW w \in Wishes, SetClientSubscription(s, w) PROVE FeedInv'
  <2> DEFINE kept == [w EXCEPT !.full = @ \ w.d30]
  <2>1. w \in Wish
    BY WishesAssumption
  <2>2. kept \in Wish /\ kept.d30 = w.d30
    BY <2>1 DEF Wish
  <2>3. want' = [want EXCEPT ![s] = kept]
    BY <1>3 DEF SetClientSubscription
  <2> HIDE DEF kept
  <2>4. want' \in [Sessions -> Wish]
    BY <2>2, <2>3 DEF FeedTypeOK
  <2>5. \A x \in Sessions : want'[x]["d30"] = [want EXCEPT ![s] = w][x]["d30"]
    BY <2>2, <2>3 DEF FeedTypeOK
  <2>6. Union("d30", want') = Union("d30", [want EXCEPT ![s] = w])
    BY <2>5 DEF Union
  <2>7. AllowanceIsKept'
    BY <1>3, <2>6 DEF SetClientSubscription, WithinCap, AllowanceIsKept
  <2> QED BY <1>3, <2>4, <2>7, ApplyInv DEF SetClientSubscription, FeedTypeOK
<1> QED BY <1>2, <1>3

LEMMA HeldInv ==
    ASSUME FeedInv,
           \/ \E h \in Holders, keys \in Holdings : SetHeld(h, keys)
           \/ \E keys \in Trackings : RefreshTracked(keys)
    PROVE  FeedInv'
<1>1. ASSUME NEW h \in Holders, NEW keys \in Holdings, SetHeld(h, keys) PROVE FeedInv'
  <2>1. keys \in SUBSET Keys
    BY WishesAssumption
  <2>2. /\ held' \in [Holders -> SUBSET Keys] /\ want' \in [Sessions -> Wish] /\ tracked' \in SUBSET Keys
        /\ AllowanceIsKept' /\ Apply(want', tracked', held')
    BY <1>1, <2>1 DEF SetHeld, FeedInv, FeedTypeOK, AllowanceIsKept, Apply
  <2> QED BY <1>1, <2>2, ApplyInv DEF SetHeld
<1>2. ASSUME NEW keys \in Trackings, RefreshTracked(keys) PROVE FeedInv'
  <2>1. keys \in SUBSET Keys
    BY WishesAssumption
  <2>2. /\ held' \in [Holders -> SUBSET Keys] /\ want' \in [Sessions -> Wish] /\ tracked' \in SUBSET Keys
        /\ AllowanceIsKept' /\ Apply(want', tracked', held')
    BY <1>2, <2>1 DEF RefreshTracked, FeedInv, FeedTypeOK, AllowanceIsKept, Apply
  <2> QED BY <1>2, <2>2, ApplyInv DEF RefreshTracked
<1> QED BY <1>1, <1>2

\* The parts of the invariant that only the wishes and the queues can disturb.
LEMMA UntouchedParts ==
    ASSUME FeedInv, UNCHANGED <<wishVars, desired>>
    PROVE  DesiredIsTarget' /\ AllowanceIsKept'
  BY DEF FeedInv, DesiredIsTarget, AllowanceIsKept, wishVars, Target, Union

LEMMA SendApplyInv == ASSUME FeedInv, SendApply PROVE FeedInv'
<1>1. /\ applying \in Seq(Message) /\ applying # <<>> /\ Send(Head(applying))
      /\ applying' = Tail(applying)
      /\ UNCHANGED <<wishVars, desired, replaying, checking, conn, stage, cooling, failures,
                     streak, changes, faults>>
      /\ broker \in [Keys -> [mode : FeedModes \cup {NoMode, "lost"}, ticks : BOOLEAN]]
  BY DEF SendApply, FeedInv, FeedTypeOK
<1>2. /\ applying' \in Seq(Message)
      /\ (applying' = <<>>) = (Len(applying) = 1)
      /\ broker' \in [Keys -> [mode : FeedModes \cup {NoMode, "lost"}, ticks : BOOLEAN]]
      /\ \A k : Paired(applying, k) => Paired(applying', k)
      /\ conn = "up" => \A k \in Keys : Paired(applying, k) =>
            \/ broker'[k].mode # NoMode
            \/ HasSub(applying', k)
            \/ broker'[k] = broker[k] /\ ~HasSub(applying, k)
  BY <1>1, SendStep
<1>3. /\ age' \in [Keys -> 0..StaleAfter \cup {NoMode}]
      /\ nudges' \in [Keys -> 0..EscalateAfter]
      /\ Len(applying) = 1 => \A k \in Keys : desired[k] # NoMode => age'[k] # NoMode
  <2>1. CASE Len(applying) # 1
    BY <2>1 DEF SendApply, FeedInv, FeedTypeOK
  <2>2. CASE Len(applying) = 1
    <3>1. /\ age' = Seeded
          /\ nudges' = [k \in Keys |-> IF desired[k] = NoMode THEN 0 ELSE nudges[k]]
      BY <2>2 DEF SendApply
    <3>2. 0 \in 0..EscalateAfter /\ 0 \in 0..StaleAfter /\ 0 # NoMode
      BY FeedNumbersAssumption, NoModeAssumption
    <3>3. nudges' \in [Keys -> 0..EscalateAfter]
      BY <3>1, <3>2 DEF FeedInv, FeedTypeOK
    <3>4. /\ age' \in [Keys -> 0..StaleAfter \cup {NoMode}]
          /\ \A k \in Keys : desired[k] # NoMode => age'[k] # NoMode
      BY <3>1, <3>2 DEF FeedInv, FeedTypeOK, Seeded
    <3> QED BY <3>3, <3>4
  <2> QED BY <2>1, <2>2
<1>4. FeedTypeOK'
  BY <1>1, <1>2, <1>3 DEF FeedInv, FeedTypeOK, wishVars
<1>5. QueuesArePaired'
  BY <1>1, <1>2 DEF FeedInv, QueuesArePaired
<1>6. ServedOrSoon'
  BY <1>1, <1>2 DEF FeedInv, QueuesArePaired, ServedOrSoon
<1>7. EveryDesiredKeyHasAClock'
  BY <1>1, <1>2, <1>3 DEF EveryDesiredKeyHasAClock
<1> QED BY <1>1, <1>4, <1>5, <1>6, <1>7, UntouchedParts DEF FeedInv

LEMMA SendReplayInv == ASSUME FeedInv, SendReplay PROVE FeedInv'
<1>1. /\ replaying \in Seq(Message) /\ replaying # <<>> /\ Send(Head(replaying))
      /\ replaying' = Tail(replaying)
      /\ UNCHANGED <<wishVars, desired, applying, checking, conn, clockVars, failures,
                     changes, faults>>
      /\ broker \in [Keys -> [mode : FeedModes \cup {NoMode, "lost"}, ticks : BOOLEAN]]
  BY DEF SendReplay, FeedInv, FeedTypeOK
<1>2. /\ replaying' \in Seq(Message)
      /\ broker' \in [Keys -> [mode : FeedModes \cup {NoMode, "lost"}, ticks : BOOLEAN]]
      /\ \A k : Paired(replaying, k) => Paired(replaying', k)
      /\ conn = "up" => \A k \in Keys : Paired(replaying, k) =>
            \/ broker'[k].mode # NoMode
            \/ HasSub(replaying', k)
            \/ broker'[k] = broker[k] /\ ~HasSub(replaying, k)
  BY <1>1, SendStep
<1>3. FeedTypeOK'
  BY <1>1, <1>2 DEF FeedInv, FeedTypeOK, wishVars, clockVars
<1>4. QueuesArePaired'
  BY <1>1, <1>2 DEF FeedInv, QueuesArePaired
<1>5. ServedOrSoon'
  BY <1>1, <1>2 DEF FeedInv, QueuesArePaired, ServedOrSoon
<1>6. EveryDesiredKeyHasAClock'
  BY <1>1 DEF FeedInv, EveryDesiredKeyHasAClock, clockVars
<1> QED BY <1>1, <1>3, <1>4, <1>5, <1>6, UntouchedParts DEF FeedInv

\* A connection that is not up owes nothing; the replay of one that comes up
\* covers whatever is desired.
LEMMA ConnectionInv ==
    ASSUME FeedInv, Connect \/ ConnectFails \/ Drop \/ Watchdog \/ Reenter
    PROVE  FeedInv'
<1> USE FeedNumbersAssumption
<1>1. /\ UNCHANGED <<wishVars, desired, applying, checking, clockVars, changes>>
      /\ faults' \in 0..MaxFaults /\ failures' \in 0..AlertAfter
      /\ conn' \in {"up", "closing", "down"}
      /\ broker' = broker \/ broker' = Unserved
      /\ \/ conn' # "up" /\ replaying' = replaying
         \/ replaying' = Replay
  <2>1. Failed \in 0..AlertAfter
    <3>1. failures + 1 \in Nat /\ AlertAfter \in Nat
      BY DEF FeedInv, FeedTypeOK
    <3> QED BY <3>1, UpToType DEF Failed
  <2>2. failures \in 0..AlertAfter /\ faults \in 0..MaxFaults /\ conn \in {"up", "closing", "down"}
    BY DEF FeedInv, FeedTypeOK
  <2>3. CASE Connect
    <3>1. 0 \in 0..AlertAfter
      OBVIOUS
    <3> QED BY <2>2, <2>3, <3>1 DEF Connect
  <2>4. CASE ConnectFails
    BY <2>1, <2>2, <2>4 DEF ConnectFails
  <2>5. CASE Drop
    BY <2>1, <2>2, <2>5 DEF Drop, Lost
  <2>6. CASE Watchdog \/ Reenter
    BY <2>1, <2>2, <2>6 DEF Watchdog, Reenter, Lost
  <2> QED BY <2>3, <2>4, <2>5, <2>6
<1>2. /\ Replay \in Seq(Message)
      /\ \A k \in Keys : Paired(Replay, k)
      /\ \A k \in Keys : desired[k] # NoMode => HasSub(Replay, k)
  <2>1. Nothing \in [Keys -> FeedModes \cup {NoMode}] /\ \A k \in Keys : Nothing[k] = NoMode
    BY DEF Nothing
  <2>2. desired \in [Keys -> FeedModes \cup {NoMode}] /\ Replay = Change(Nothing, desired)
    BY DEF Replay, FeedInv, FeedTypeOK
  <2>3. /\ Change(Nothing, desired) \in Seq(Message)
        /\ \A k \in Keys : desired[k] # NoMode /\ desired[k] # Nothing[k]
                              => HasSub(Change(Nothing, desired), k)
        /\ \A k \in Keys : Nothing[k] = NoMode => Paired(Change(Nothing, desired), k)
    BY <2>1, <2>2, ChangeFacts
  <2> QED BY <2>1, <2>2, <2>3
<1>3. Unserved \in [Keys -> [mode : FeedModes \cup {NoMode, "lost"}, ticks : BOOLEAN]]
  BY DEF Unserved
<1>4. FeedTypeOK'
  BY <1>1, <1>2, <1>3 DEF FeedInv, FeedTypeOK, wishVars, clockVars
<1>5. QueuesArePaired'
  BY <1>1, <1>2 DEF FeedInv, QueuesArePaired
<1>6. ServedOrSoon'
  BY <1>1, <1>2 DEF ServedOrSoon
<1>7. EveryDesiredKeyHasAClock'
  BY <1>1 DEF FeedInv, EveryDesiredKeyHasAClock, clockVars
<1> QED BY <1>1, <1>4, <1>5, <1>6, <1>7, UntouchedParts DEF FeedInv

\* Ticks and silences leave every subscription in place.
LEMMA TickInv ==
    ASSUME FeedInv, NEW k \in Keys, TickArrives(k)
    PROVE  FeedInv'
<1>1. /\ age' = [age EXCEPT ![k] = 0] /\ stage' \in 0..2
      /\ UNCHANGED <<wishVars, desired, applying, replaying, checking, conn, broker, nudges,
                     cooling, failures, streak, changes, faults>>
  BY DEF TickArrives, FeedInv, FeedTypeOK
<1>2. 0 # NoMode /\ 0 \in 0..StaleAfter
  BY FeedNumbersAssumption, NoModeAssumption
<1>3. FeedTypeOK'
  BY <1>1, <1>2 DEF FeedInv, FeedTypeOK, wishVars
<1>4. QueuesArePaired' /\ ServedOrSoon'
  BY <1>1 DEF FeedInv, QueuesArePaired, ServedOrSoon
<1>5. EveryDesiredKeyHasAClock'
  BY <1>1, <1>2 DEF FeedInv, FeedTypeOK, EveryDesiredKeyHasAClock
<1> QED BY <1>1, <1>3, <1>4, <1>5, UntouchedParts DEF FeedInv

LEMMA SilenceInv ==
    ASSUME FeedInv, NEW b \in [Keys -> [mode : FeedModes \cup {NoMode, "lost"}, ticks : BOOLEAN]],
           Silence(b), \A k \in Keys : broker[k].mode # NoMode => b[k].mode # NoMode
    PROVE  FeedInv'
<1>1. /\ broker' = b /\ faults' = faults + 1 /\ faults < MaxFaults
      /\ UNCHANGED <<wishVars, desired, applying, replaying, checking, conn, clockVars,
                     failures, changes>>
  BY DEF Silence
<1>2. faults' \in 0..MaxFaults
  BY <1>1, FeedNumbersAssumption DEF FeedInv, FeedTypeOK
<1>3. FeedTypeOK'
  BY <1>1, <1>2 DEF FeedInv, FeedTypeOK, wishVars, clockVars
<1>4. QueuesArePaired' /\ ServedOrSoon'
  BY <1>1 DEF FeedInv, QueuesArePaired, ServedOrSoon
<1>5. EveryDesiredKeyHasAClock'
  BY <1>1 DEF FeedInv, EveryDesiredKeyHasAClock, clockVars
<1> QED BY <1>1, <1>3, <1>4, <1>5, UntouchedParts DEF FeedInv

LEMMA SilencesInv ==
    ASSUME FeedInv, StallD30 \/ \E k \in Keys : Forget(k) \/ Stick(k)
    PROVE  FeedInv'
<1> DEFINE Service == [mode : FeedModes \cup {NoMode, "lost"}, ticks : BOOLEAN]
<1>0. broker \in [Keys -> Service]
  BY DEF FeedInv, FeedTypeOK
<1>1. ASSUME NEW k \in Keys, Forget(k) PROVE FeedInv'
  <2> DEFINE b == [broker EXCEPT ![k] = [mode |-> "lost", ticks |-> FALSE]]
  <2>1. b \in [Keys -> Service] /\ Silence(b)
    BY <1>0, <1>1 DEF Forget
  <2>2. \A j \in Keys : broker[j].mode # NoMode => b[j].mode # NoMode
    BY <1>0, NoModeAssumption
  <2> HIDE DEF b
  <2> QED BY <2>1, <2>2, SilenceInv
<1>2. ASSUME NEW k \in Keys, Stick(k) PROVE FeedInv'
  <2> DEFINE b == [broker EXCEPT ![k].ticks = FALSE]
  <2>1. b \in [Keys -> Service] /\ Silence(b)
    BY <1>0, <1>2 DEF Stick
  <2>2. \A j \in Keys : broker[j].mode # NoMode => b[j].mode # NoMode
    BY <1>0
  <2> HIDE DEF b
  <2> QED BY <2>1, <2>2, SilenceInv
<1>3. ASSUME StallD30 PROVE FeedInv'
  <2> DEFINE b == [k \in Keys |-> IF broker[k].mode = "full_d30"
                                  THEN [broker[k] EXCEPT !.ticks = FALSE] ELSE broker[k]]
  <2>1. b \in [Keys -> Service] /\ Silence(b)
    BY <1>0, <1>3 DEF StallD30
  <2>2. \A j \in Keys : broker[j].mode # NoMode => b[j].mode # NoMode
    BY <1>0
  <2> HIDE DEF b
  <2> QED BY <2>1, <2>2, SilenceInv
<1> QED BY <1>1, <1>2, <1>3

-----------------------------------------------------------------------------
(* The staleness check.                                                    *)

\* Ageing leaves a key with a clock its clock.
LEMMA OlderFacts ==
    ASSUME FeedInv
    PROVE  /\ Older \in [Keys -> 0..StaleAfter \cup {NoMode}]
           /\ \A k \in Keys : age[k] # NoMode => Older[k] # NoMode
<1>1. age \in [Keys -> 0..StaleAfter \cup {NoMode}] /\ StaleAfter \in Nat
  BY FeedNumbersAssumption DEF FeedInv, FeedTypeOK
<1>2. ASSUME NEW k \in Keys, age[k] # NoMode PROVE UpTo(age[k] + 1, StaleAfter) \in 0..StaleAfter
  <2>1. age[k] + 1 \in Nat
    BY <1>1, <1>2
  <2> QED BY <1>1, <2>1, UpToType
<1>3. \A n \in 0..StaleAfter : n # NoMode
  BY <1>1, NoModeAssumption
<1> QED BY <1>1, <1>2, <1>3 DEF Older

LEMMA ReportedType ==
    ASSUME FeedInv, NEW nudged
    PROVE  Reported(nudged) \in [Keys -> 0..AlertAfter]
<1>1. AlertAfter \in Nat /\ streak \in [Keys -> 0..AlertAfter]
  BY FeedNumbersAssumption DEF FeedInv, FeedTypeOK
<1>2. ASSUME NEW k \in Keys PROVE UpTo(streak[k] + 1, AlertAfter) \in 0..AlertAfter
  <2>1. streak[k] + 1 \in Nat
    BY <1>1
  <2> QED BY <1>1, <2>1, UpToType
<1> QED BY <1>1, <1>2 DEF Reported

LEMMA IdleIsWell ==
    /\ NotChecking \in [pc : {"idle", "resetting", "nudging"}, msgs : Seq(Message), keys : SUBSET Keys]
    /\ NotChecking.pc = "idle" /\ NotChecking.msgs = <<>>
    /\ \A k \in Keys : Paired(NotChecking.msgs, k)
  BY EmptyQueue DEF NotChecking

LEMMA BeginNudgingFacts ==
    ASSUME FeedInv, NEW a, NEW withD30 \in BOOLEAN, BeginNudging(a, withD30)
    PROVE  /\ nudges' \in [Keys -> 0..EscalateAfter] /\ streak' \in [Keys -> 0..AlertAfter]
           /\ checking' \in [pc : {"idle", "resetting", "nudging"}, msgs : Seq(Message),
                             keys : SUBSET Keys]
           /\ (checking'.pc = "idle") = (checking'.msgs = <<>>)
           /\ \A k \in Keys : Paired(checking'.msgs, k)
<1> DEFINE stale == IF conn = "up" THEN Stale(a, withD30) ELSE {}
           counts == IF conn = "up"
                     THEN [k \in Keys |-> IF k \in stale THEN nudges[k] ELSE 0] ELSE nudges
<1>1. /\ nudges' = counts
      /\ stale = {} => checking' = NotChecking /\ streak' = Reported({})
      /\ stale # {} => /\ checking' = [pc |-> "nudging", msgs |-> Nudge(stale, counts), keys |-> stale]
                       /\ streak' = streak
  BY DEF BeginNudging
<1>2. counts \in [Keys -> 0..EscalateAfter]
  BY FeedNumbersAssumption DEF FeedInv, FeedTypeOK
<1>3. stale \in SUBSET {k \in Keys : desired[k] # NoMode}
  BY DEF Stale
<1> HIDE DEF stale, counts
<1>4. streak' \in [Keys -> 0..AlertAfter]
  BY <1>1, ReportedType DEF FeedInv, FeedTypeOK
<1>5. CASE stale = {}
  BY <1>1, <1>2, <1>4, <1>5, IdleIsWell
<1>6. CASE stale # {}
  <2>1. /\ Nudge(stale, counts) \in Seq(Message) /\ Nudge(stale, counts) # <<>>
        /\ \A k \in Keys : Paired(Nudge(stale, counts), k)
    BY <1>3, <1>6, NudgeFacts DEF FeedInv, FeedTypeOK
  <2>2. /\ checking'.pc = "nudging" /\ checking'.msgs = Nudge(stale, counts)
        /\ checking' \in [pc : {"idle", "resetting", "nudging"}, msgs : Seq(Message), keys : SUBSET Keys]
    BY <1>1, <1>3, <1>6, <2>1
  <2> QED BY <1>1, <1>2, <1>4, <2>1, <2>2
<1> QED BY <1>5, <1>6

\* A pass that begins had nothing to send before.
LEMMA CheckBegins ==
    ASSUME FeedInv, CheckCommon,
           nudges' \in [Keys -> 0..EscalateAfter], streak' \in [Keys -> 0..AlertAfter],
           checking' \in [pc : {"idle", "resetting", "nudging"}, msgs : Seq(Message), keys : SUBSET Keys],
           (checking'.pc = "idle") = (checking'.msgs = <<>>),
           \A k \in Keys : Paired(checking'.msgs, k),
           stage' \in 0..2, cooling' \in 0..Cooldown,
           \/ conn' = conn /\ broker' = broker
           \/ conn' = "closing" /\ broker' = Unserved
    PROVE  FeedInv'
<1>1. /\ checking.pc = "idle" /\ age' = Older
      /\ UNCHANGED <<wishVars, desired, applying, replaying, failures, changes, faults>>
  BY DEF CheckCommon
<1>2. \A k : ~HasSub(checking.msgs, k)
  BY <1>1, EmptyQueue DEF FeedInv, FeedTypeOK
<1>3. Unserved \in [Keys -> [mode : FeedModes \cup {NoMode, "lost"}, ticks : BOOLEAN]]
  BY DEF Unserved
<1>4. FeedTypeOK'
  BY <1>1, <1>3, OlderFacts DEF FeedInv, FeedTypeOK, wishVars
<1>5. QueuesArePaired'
  BY <1>1 DEF FeedInv, QueuesArePaired
<1>6. ServedOrSoon'
  BY <1>1, <1>2 DEF FeedInv, ServedOrSoon
<1>7. EveryDesiredKeyHasAClock'
  BY <1>1, OlderFacts DEF FeedInv, EveryDesiredKeyHasAClock
<1> QED BY <1>1, <1>4, <1>5, <1>6, <1>7, UntouchedParts DEF FeedInv

LEMMA CheckInv == ASSUME FeedInv, Check PROVE FeedInv'
<1>0. /\ cooling \in 0..Cooldown /\ Cooldown \in Nat /\ stage \in 0..2
      /\ nudges \in [Keys -> 0..EscalateAfter] /\ streak \in [Keys -> 0..AlertAfter]
  BY FeedNumbersAssumption DEF FeedInv, FeedTypeOK
<1>1. ASSUME CoolerBy1 PROVE cooling' \in 0..Cooldown
  BY <1>0, <1>1 DEF CoolerBy1
<1>2. CASE CheckNudges
  <2>1. /\ CheckCommon /\ CoolerBy1 /\ BeginNudging(Older, TRUE) /\ stage' \in 0..2
        /\ conn' = conn /\ broker' = broker
    <3>1. /\ CheckCommon /\ CoolerBy1 /\ BeginNudging(Older, TRUE)
          /\ stage' = 0 \/ stage' = stage
          /\ conn' = conn /\ broker' = broker
      BY <1>2 DEF CheckNudges
    <3>2. stage' \in 0..2
      <4>1. CASE stage' = 0
        BY <4>1
      <4>2. CASE stage' = stage
        BY <1>0, <4>2
      <4> QED BY <3>1, <4>1, <4>2
    <3> QED BY <3>1, <3>2
  <2>2. TRUE \in BOOLEAN
    OBVIOUS
  <2> QED BY <1>1, <2>1, <2>2, BeginNudgingFacts, CheckBegins
<1>3. CASE CheckAwaits
  <2>1. /\ CheckCommon /\ CoolerBy1 /\ BeginNudging(Older, FALSE) /\ stage' \in 0..2
        /\ conn' = conn /\ broker' = broker
    BY <1>0, <1>3 DEF CheckAwaits
  <2>2. FALSE \in BOOLEAN
    OBVIOUS
  <2> QED BY <1>1, <2>1, <2>2, BeginNudgingFacts, CheckBegins
<1>4. CASE CheckReconnects
  <2>1. /\ CheckCommon /\ stage' = 2 /\ cooling' = Cooldown
        /\ conn' = "closing" /\ broker' = Unserved
        /\ checking' = NotChecking /\ streak' = Reported({}) /\ nudges' = nudges
    BY <1>4 DEF CheckReconnects
  <2>2. streak' \in [Keys -> 0..AlertAfter]
    BY <2>1, ReportedType
  <2>3. stage' \in 0..2 /\ cooling' \in 0..Cooldown /\ nudges' \in [Keys -> 0..EscalateAfter]
    BY <1>0, <2>1
  <2> QED BY <2>1, <2>2, <2>3, IdleIsWell, CheckBegins
<1>5. CASE CheckResets
  <2> DEFINE unsub == Say("unsub", "ltpc", D30Wanted)
             sub == Say("sub", "full_d30", D30Wanted)
             q == <<unsub, sub>>
  <2>1. /\ CheckCommon /\ CoolerBy1
        /\ checking' = [pc |-> "resetting", keys |-> D30Wanted, msgs |-> q]
        /\ UNCHANGED <<stage, nudges, streak, conn, broker>>
    BY <1>5 DEF CheckResets
  <2>2. D30Wanted \in SUBSET Keys
    BY DEF D30Wanted, InMode
  <2>3. unsub \in Message /\ sub \in Message /\ sub.do = "sub" /\ sub.keys = unsub.keys
    BY <2>2 DEF Say, Message, FeedModes
  <2> HIDE DEF unsub, sub
  <2>4. q \in Seq(Message) /\ Len(q) = 2 /\ q[1] = unsub /\ q[2] = sub /\ q # <<>>
    BY <2>3
  <2> HIDE DEF q
  <2>5. \A k : Paired(q, k)
    BY <2>3, <2>4 DEF Paired
  <2>6. /\ checking' \in [pc : {"idle", "resetting", "nudging"}, msgs : Seq(Message), keys : SUBSET Keys]
        /\ checking'.pc = "resetting" /\ checking'.msgs = q
    BY <2>1, <2>2, <2>4
  <2> QED BY <1>0, <1>1, <2>1, <2>4, <2>5, <2>6, CheckBegins
<1> QED BY <1>2, <1>3, <1>4, <1>5 DEF Check

\* The check's queue loses its first message, or its last and is replaced.
ChecksOn ==
    \/ checking' = [checking EXCEPT !.msgs = Tail(@)] /\ Len(checking.msgs) > 1
    \/ /\ Len(checking.msgs) = 1
       /\ checking' \in [pc : {"idle", "resetting", "nudging"}, msgs : Seq(Message),
                         keys : SUBSET Keys]
       /\ (checking'.pc = "idle") = (checking'.msgs = <<>>)
       /\ \A k \in Keys : Paired(checking'.msgs, k)

\* A message of the check is sent, and its queue goes on or is replaced.
LEMMA CheckSends ==
    ASSUME FeedInv, checking.msgs # <<>>, Send(Head(checking.msgs)), CheckFrame,
           ChecksOn,
           nudges' \in [Keys -> 0..EscalateAfter], streak' \in [Keys -> 0..AlertAfter],
           age' \in [Keys -> 0..StaleAfter \cup {NoMode}],
           \A k \in Keys : age[k] # NoMode => age'[k] # NoMode,
           stage' \in 0..2
    PROVE  FeedInv'
<1> DEFINE q == checking.msgs
<1>1. /\ checking \in [pc : {"idle", "resetting", "nudging"}, msgs : Seq(Message), keys : SUBSET Keys]
      /\ q \in Seq(Message) /\ q # <<>> /\ Send(Head(q)) /\ checking.pc # "idle"
      /\ broker \in [Keys -> [mode : FeedModes \cup {NoMode, "lost"}, ticks : BOOLEAN]]
      /\ \A k \in Keys : Paired(q, k)
  BY DEF FeedInv, FeedTypeOK, QueuesArePaired
<1>2. UNCHANGED <<wishVars, desired, applying, replaying, conn, cooling, failures, changes, faults>>
  BY DEF CheckFrame
<1> HIDE DEF q
<1>3. /\ Tail(q) \in Seq(Message)
      /\ (Tail(q) = <<>>) = (Len(q) = 1)
      /\ broker' \in [Keys -> [mode : FeedModes \cup {NoMode, "lost"}, ticks : BOOLEAN]]
      /\ \A k \in Keys : Paired(Tail(q), k)
      /\ conn = "up" => \A k \in Keys :
            \/ broker'[k].mode # NoMode
            \/ HasSub(Tail(q), k)
            \/ broker'[k] = broker[k] /\ ~HasSub(q, k)
  BY <1>1, SendStep
<1>4. /\ checking' \in [pc : {"idle", "resetting", "nudging"}, msgs : Seq(Message), keys : SUBSET Keys]
      /\ (checking'.pc = "idle") = (checking'.msgs = <<>>)
      /\ \A k \in Keys : Paired(checking'.msgs, k)
      /\ \A k : HasSub(Tail(q), k) => HasSub(checking'.msgs, k)
  <2>1. CASE Len(q) # 1
    <3>1. checking' = [checking EXCEPT !.msgs = Tail(q)] /\ Tail(q) # <<>>
      BY <1>3, <2>1 DEF q, ChecksOn
    <3>2. checking'.msgs = Tail(q) /\ checking'.pc = checking.pc
      BY <1>1, <3>1
    <3>3. checking' \in [pc : {"idle", "resetting", "nudging"}, msgs : Seq(Message), keys : SUBSET Keys]
      BY <1>1, <1>3, <3>1
    <3> QED BY <1>1, <1>3, <3>1, <3>2, <3>3
  <2>2. CASE Len(q) = 1
    <3>1. Tail(q) = <<>>
      BY <1>3, <2>2
    <3>2. \A k : ~HasSub(Tail(q), k)
      BY <3>1, EmptyQueue
    <3>3. /\ checking' \in [pc : {"idle", "resetting", "nudging"}, msgs : Seq(Message), keys : SUBSET Keys]
          /\ (checking'.pc = "idle") = (checking'.msgs = <<>>)
          /\ \A k \in Keys : Paired(checking'.msgs, k)
      BY <2>2 DEF q, ChecksOn
    <3> QED BY <3>2, <3>3
  <2> QED BY <2>1, <2>2
<1>5. FeedTypeOK'
  BY <1>2, <1>3, <1>4 DEF FeedInv, FeedTypeOK, wishVars
<1>6. QueuesArePaired'
  BY <1>2, <1>4 DEF FeedInv, QueuesArePaired
<1>7. ServedOrSoon'
  BY <1>2, <1>3, <1>4 DEF FeedInv, ServedOrSoon, q
<1>8. EveryDesiredKeyHasAClock'
  BY <1>2 DEF FeedInv, EveryDesiredKeyHasAClock
<1> QED BY <1>2, <1>5, <1>6, <1>7, <1>8, UntouchedParts DEF FeedInv

LEMMA SendCheckInv == ASSUME FeedInv, SendReset \/ SendNudge PROVE FeedInv'
<1>0. /\ checking.pc # "idle" /\ checking.msgs # <<>>
      /\ (Len(checking.msgs) > 1 \/ Len(checking.msgs) = 1)
      /\ Send(Head(checking.msgs)) /\ CheckFrame
      /\ nudges \in [Keys -> 0..EscalateAfter] /\ streak \in [Keys -> 0..AlertAfter]
      /\ age \in [Keys -> 0..StaleAfter \cup {NoMode}] /\ stage \in 0..2
  <2>1. checking.pc # "idle" /\ Send(Head(checking.msgs)) /\ CheckFrame
    BY DEF SendReset, SendNudge
  <2>2. checking.msgs \in Seq(Message) /\ checking.msgs # <<>>
    BY <2>1 DEF FeedInv, FeedTypeOK
  <2>3. Len(checking.msgs) > 1 \/ Len(checking.msgs) = 1
    <3>1. Len(checking.msgs) \in Nat /\ Len(checking.msgs) # 0
      BY <2>2, EmptySeq
    <3> DEFINE n == Len(checking.msgs)
    <3> HIDE DEF n
    <3>2. n \in Nat /\ n # 0 => n > 1 \/ n = 1
      OBVIOUS
    <3> QED BY <3>1, <3>2 DEF n
  <2> QED BY <2>1, <2>2, <2>3 DEF FeedInv, FeedTypeOK
<1>1. CASE SendReset
  <2>1. CASE Len(checking.msgs) > 1
    <3>1. /\ checking' = [checking EXCEPT !.msgs = Tail(@)]
          /\ UNCHANGED <<stage, nudges, streak, age>>
      BY <1>1, <2>1 DEF SendReset
    <3>2. ChecksOn
      BY <2>1, <3>1 DEF ChecksOn
    <3> QED BY <1>0, <3>1, <3>2, CheckSends
  <2>2. CASE Len(checking.msgs) = 1
    <3>1. stage' = 1 /\ BeginNudging(age, FALSE) /\ age' = age
      <4>1. ~(Len(checking.msgs) > 1)
        BY <2>2
      <4> QED BY <1>1, <4>1 DEF SendReset
    <3>2. FALSE \in BOOLEAN /\ stage' \in 0..2
      BY <3>1
    <3>3. /\ nudges' \in [Keys -> 0..EscalateAfter] /\ streak' \in [Keys -> 0..AlertAfter]
          /\ checking' \in [pc : {"idle", "resetting", "nudging"}, msgs : Seq(Message),
                            keys : SUBSET Keys]
          /\ (checking'.pc = "idle") = (checking'.msgs = <<>>)
          /\ \A k \in Keys : Paired(checking'.msgs, k)
      BY <3>1, <3>2, BeginNudgingFacts
    <3>4. /\ age' \in [Keys -> 0..StaleAfter \cup {NoMode}]
          /\ \A k \in Keys : age[k] # NoMode => age'[k] # NoMode
      BY <1>0, <3>1
    <3>5. ChecksOn
      BY <2>2, <3>3 DEF ChecksOn
    <3>6. nudges' \in [Keys -> 0..EscalateAfter] /\ streak' \in [Keys -> 0..AlertAfter]
      BY <3>3
    <3>7. FeedInv /\ checking.msgs # <<>> /\ Send(Head(checking.msgs)) /\ CheckFrame
      BY <1>0
    <3> QED BY <3>2, <3>4, <3>5, <3>6, <3>7, CheckSends
  <2> QED BY <1>0, <2>1, <2>2
<1>2. CASE SendNudge
  <2>1. CASE Len(checking.msgs) > 1
    <3>1. /\ checking' = [checking EXCEPT !.msgs = Tail(@)]
          /\ UNCHANGED <<stage, nudges, streak, age>>
      BY <1>2, <2>1 DEF SendNudge
    <3>2. ChecksOn
      BY <2>1, <3>1 DEF ChecksOn
    <3> QED BY <1>0, <3>1, <3>2, CheckSends
  <2>2. CASE Len(checking.msgs) = 1
    <3>1. /\ checking' = NotChecking /\ streak' = Reported(checking.keys) /\ stage' = stage
          /\ age' = [k \in Keys |-> IF k \in checking.keys THEN 0 ELSE age[k]]
          /\ nudges' = [k \in Keys |-> IF k \in checking.keys
                                       THEN UpTo(nudges[k] + 1, EscalateAfter) ELSE nudges[k]]
      <4>1. ~(Len(checking.msgs) > 1)
        BY <2>2
      <4> QED BY <1>2, <4>1 DEF SendNudge
    <3>2. 0 \in 0..StaleAfter /\ 0 # NoMode /\ EscalateAfter \in Nat
      BY FeedNumbersAssumption, NoModeAssumption
    <3>3. /\ age' \in [Keys -> 0..StaleAfter \cup {NoMode}]
          /\ \A k \in Keys : age[k] # NoMode => age'[k] # NoMode
      BY <1>0, <3>1, <3>2
    <3>4. ASSUME NEW k \in Keys PROVE UpTo(nudges[k] + 1, EscalateAfter) \in 0..EscalateAfter
      <4>1. nudges[k] + 1 \in Nat
        BY <1>0, <3>2
      <4> QED BY <3>2, <4>1, UpToType
    <3>5. nudges' \in [Keys -> 0..EscalateAfter] /\ streak' \in [Keys -> 0..AlertAfter]
      BY <1>0, <3>1, <3>4, ReportedType
    <3>6. stage' \in 0..2
      BY <1>0, <3>1
    <3>7. /\ checking' \in [pc : {"idle", "resetting", "nudging"}, msgs : Seq(Message),
                            keys : SUBSET Keys]
          /\ (checking'.pc = "idle") = (checking'.msgs = <<>>)
          /\ \A k \in Keys : Paired(checking'.msgs, k)
      BY <3>1, IdleIsWell
    <3>8. ChecksOn
      BY <2>2, <3>7 DEF ChecksOn
    <3>9. FeedInv /\ checking.msgs # <<>> /\ Send(Head(checking.msgs)) /\ CheckFrame
      BY <1>0
    <3> QED BY <3>3, <3>5, <3>6, <3>8, <3>9, CheckSends
  <2> QED BY <1>0, <2>1, <2>2
<1> QED BY <1>1, <1>2

-----------------------------------------------------------------------------
LEMMA FeedNextInv == FeedInv /\ [FeedNext]_feedVars => FeedInv'
<1> SUFFICES ASSUME FeedInv, [FeedNext]_feedVars PROVE FeedInv' OBVIOUS
<1>1. CASE UNCHANGED feedVars
  <2>1. UNCHANGED <<wishVars, desired>>
    BY <1>1 DEF feedVars, wishVars
  <2>2. FeedTypeOK'
    BY <1>1 DEF FeedInv, FeedTypeOK, feedVars
  <2>3. QueuesArePaired' /\ ServedOrSoon' /\ EveryDesiredKeyHasAClock'
    BY <1>1 DEF FeedInv, QueuesArePaired, ServedOrSoon, EveryDesiredKeyHasAClock, feedVars
  <2> QED BY <2>1, <2>2, <2>3, UntouchedParts DEF FeedInv
<1>2. CASE FeedNext
  BY <1>2, WishInv, HeldInv, SendApplyInv, SendReplayInv, ConnectionInv, TickInv, SilencesInv,
     CheckInv, SendCheckInv DEF FeedNext
<1> QED BY <1>1, <1>2

\* The invariant says what the property does.
LEMMA FeedInvServes == FeedInv => DemandIsServed
<1> SUFFICES ASSUME FeedInv PROVE DemandIsServed OBVIOUS
<1>1. WantedIsSubscribed
  <2> SUFFICES ASSUME conn = "up", applying = <<>>, replaying = <<>>, checking.pc = "idle",
                      NEW k \in Keys, WantedBy(k)
               PROVE  broker[k].mode # NoMode
    BY DEF WantedIsSubscribed
  <2>1. desired[k] # NoMode
    <3>1. NoMode \notin {"full_d30", "full", "ltpc"}
      BY NoModeAssumption DEF FeedModes
    <3>2. \/ k \in Union("d30", want) \/ k \in tracked \cup Union("full", want)
          \/ k \in held["positions"] \cup held["lots"] \cup Union("ltpc", want)
      BY DEF WantedBy, Union
    <3> QED BY <3>1, <3>2 DEF FeedInv, DesiredIsTarget, Target
  <2> QED BY <2>1, EmptyQueue DEF FeedInv, FeedTypeOK, ServedOrSoon
<1>2. D30StaysWithinCap
  <2>1. D30Wanted = Union("d30", want)
    <3>1. Union("d30", want) \subseteq Keys
      BY DEF FeedInv, FeedTypeOK, Union, Wish
    <3>2. "full_d30" # NoMode
      BY NoModeAssumption DEF FeedModes
    <3> QED BY <3>1, <3>2 DEF FeedInv, DesiredIsTarget, Target, D30Wanted, InMode
  <2> QED BY <2>1 DEF FeedInv, AllowanceIsKept, D30StaysWithinCap
<1> QED BY <1>1, <1>2 DEF FeedInv, DemandIsServed

\* Whatever changes, replays, nudges and resets interleave, the demand is
\* subscribed when the sends are over, each of its keys has a clock, and D30
\* keeps to its allowance (replace_subscriptions, resend_stale_subscriptions,
\* recover_stale_d30_cohort, _connect_once, set_client_subscription).
THEOREM DemandStaysServed == FeedSpec => []DemandIsServed
<1>1. FeedInit => FeedInv
  BY FeedInitInv
<1>2. FeedInv /\ [FeedNext]_feedVars => FeedInv'
  BY FeedNextInv
<1>3. FeedInv => DemandIsServed
  BY FeedInvServes
<1> QED BY <1>1, <1>2, <1>3, PTL DEF FeedSpec

\* The feed's state keeps its types, queues and clocks included.
THEOREM FeedTypeCorrect == FeedSpec => []FeedTypeOK
<1>1. FeedInit => FeedInv
  BY FeedInitInv
<1>2. FeedInv /\ [FeedNext]_feedVars => FeedInv'
  BY FeedNextInv
<1>3. FeedInv => FeedTypeOK
  BY DEF FeedInv
<1> QED BY <1>1, <1>2, <1>3, PTL DEF FeedSpec
=============================================================================
