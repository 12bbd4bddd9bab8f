---------------------------- MODULE MCTriageSync ----------------------------
EXTENDS TriageSync, TLC

\* Every kind, on free and paid models, on the environment's and own keys
AllAsks ==
    {q \in Ask : /\ q.own => q.paid
                 /\ q.kind \notin FixKinds => ~q.own /\ (q.kind # "analyze_local" => ~q.paid)}

\* Actions that compete for a report and its slot
RivalAsks ==
    {[kind |-> "fix_and_open_pr", own |-> FALSE, paid |-> FALSE]}

LocalAsks == {q \in AllAsks : q.kind = "analyze_local"}

Symmetry == Permutations(Actions) \cup Permutations(Reports)
=============================================================================
