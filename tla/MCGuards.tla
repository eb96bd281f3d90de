------------------------------- MODULE MCGuards -------------------------------
(* What guards the open positions: the max-loss watcher, the phone's exit- *)
(* all, and the feed whose ticks price them, each on a small instance of   *)
(* its own.  They share no state: a behaviour is one of one of them.       *)
EXTENDS MaxLossWatcher, PositionFlattener, MarketFeed, TLC
CONSTANTS
    Guards,       \* those a run checks
    nifty, bank
VARIABLE active

MCOneLot == <<"l1">>
MCTwoLots == <<"l1", "l2">>
MCLong == [l \in {"l1"} |-> "BUY"]
MCLongAndShort == [l \in {"l1", "l2"} |-> IF l = "l1" THEN "BUY" ELSE "SELL"]
MCArms == {[opening |-> 20, peak |-> 20, x |-> 2, mode |-> "ABSOLUTE"]}
MCPercentage == {[opening |-> 20, peak |-> 20, x |-> 10, mode |-> "PERCENTAGE"]}
CheckSymmetry == Permutations(Checks)

\* One instrument held in two products, another in one.
MCKey == [r \in Rows |-> IF r = "bank" THEN "bank" ELSE "nifty"]
MCHeld == [r \in Rows |-> CASE r = "nifty_I" -> -3 [] r = "nifty_D" -> 1 [] OTHER -> 3]

SomeWishes == {[NoWish EXCEPT !.d30 = {nifty}, !.ltpc = {bank}],
               [NoWish EXCEPT !.full = {nifty}],
               [NoWish EXCEPT !.d30 = {bank}, !.full = {bank}]}
LotsOfBank == {{}, {bank}}
TrackBank == {{bank}}

-----------------------------------------------------------------------------
guardVars == <<active, vars, flatVars, feedVars>>

GuardsInit == active \in Guards /\ Init /\ FlatInit /\ FeedInit

GuardsNext ==
    /\ UNCHANGED active
    /\ \/ active = "watcher" /\ Next /\ UNCHANGED <<flatVars, feedVars>>
       \/ active = "flattener" /\ FlatNext /\ UNCHANGED <<vars, feedVars>>
       \/ active = "feed" /\ FeedNext /\ UNCHANGED <<vars, flatVars>>

GuardsSpec == GuardsInit /\ [][GuardsNext]_guardVars

\* The fairness of FairSpec and of FeedFairSpec, each in its own behaviours.
GuardsFairness ==
    /\ WF_vars(active = "watcher" /\ \E c \in Checks : BeginCheck(c))
    /\ \A c \in Checks : WF_vars(active = "watcher" /\ Resumes(c))
    /\ WF_feedVars(active = "feed" /\ SendApply)
    /\ WF_feedVars(active = "feed" /\ SendReplay)
    /\ WF_feedVars(active = "feed" /\ SendReset)
    /\ WF_feedVars(active = "feed" /\ SendNudge)
    /\ WF_feedVars(active = "feed" /\ Check)
    /\ WF_feedVars(active = "feed" /\ Connect)
    /\ WF_feedVars(active = "feed" /\ Reenter)
    /\ \A k \in Keys : WF_feedVars(active = "feed" /\ TickArrives(k))

GuardsFairSpec == GuardsSpec /\ GuardsFairness

\* The types of the three (each module's own invariant).
GuardsTypeOK == TypeOK /\ FlatTypeOK /\ FeedTypeOK
=============================================================================
