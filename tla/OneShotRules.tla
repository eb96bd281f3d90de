--------------------------- MODULE OneShotRules ----------------------------
(***************************************************************************)
(* What the order engine promises of its trigger rules: each is armed      *)
(* once, sends at most one exit order to the broker, is PLACED only when   *)
(* that order exists, and never moves backwards.  Several rules may move   *)
(* in one step (a bracket is armed as a pair).                             *)
(***************************************************************************)
EXTENDS Naturals

CONSTANT Rules

VARIABLES
    phase,  \* trigger_rules.state of each rule
    exits   \* number of broker orders that carry each rule's tag

Moves(r, from, to) == phase[r] = from /\ phase'[r] = to /\ exits'[r] = exits[r]

Arm(r) == Moves(r, "ABSENT", "ARMED")

Fire(r) == Moves(r, "ARMED", "FIRING")

SendExit(r) ==
    /\ phase[r] = "FIRING" /\ phase'[r] = "FIRING"
    /\ exits[r] = 0 /\ exits'[r] = 1

Confirm(r) == exits[r] = 1 /\ Moves(r, "FIRING", "PLACED")

GiveUp(r) == Moves(r, "FIRING", "FAILED")

Cancel(r) == Moves(r, "ARMED", "CANCELLED") \/ Moves(r, "PLACED", "CANCELLED")

Step(r) == Arm(r) \/ Fire(r) \/ SendExit(r) \/ Confirm(r) \/ GiveUp(r) \/ Cancel(r)

Rest(r) == phase'[r] = phase[r] /\ exits'[r] = exits[r]

Init == phase = [r \in Rules |-> "ABSENT"] /\ exits = [r \in Rules |-> 0]

Next == \A r \in Rules : Step(r) \/ Rest(r)

Spec == Init /\ [][Next]_<<phase, exits>>
=============================================================================
