----------------------------- MODULE MCTriggers -----------------------------
(* Instances of AutomationStore and Triggers for TLC.                       *)
EXTENDS Triggers, TLC
CONSTANTS c1, t1

\* One with a quota, one that any number of automations may have.
MCTriggers ==
    {[type |-> "message_posted", scope |-> c1, only |-> {"root"}],
     [type |-> "user_joined_team", scope |-> t1, only |-> {"user"}]}

MCEvents == {[type |-> "user_joined_team", scope |-> t1, variant |-> "user"]}

Symmetry == Permutations(Ids) \cup Permutations(Callers)
============================================================================
