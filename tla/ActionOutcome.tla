--------------------------- MODULE ActionOutcome ---------------------------
(***************************************************************************)
(* What triage sync promises sonicgrid for each admin action, whatever     *)
(* crashes, answers are lost or bounds pass: one outcome, decided once and *)
(* told, if at all, as decided; at most one paid model call; `done` only   *)
(* when the work is there, and `refused` only when nothing was spent       *)
(* without a result. An action reported `failed` may still have, or get,   *)
(* partial effects (sync/actions.py, "failed: the step ran, and its side   *)
(* effects may be partial").                                               *)
(***************************************************************************)
CONSTANTS Actions, None  \* None: no outcome, nothing told

VARIABLES
    works,   \* action -> it has to produce an analysis or a proposal
    outcome, \* action -> the decided outcome
    told,    \* action -> the outcome sonicgrid knows
    paid,    \* action -> paid model calls made
    made     \* action -> its analysis or proposal exists

vars == <<works, outcome, told, paid, made>>

Outcomes == {"done", "failed", "refused"}

Init ==
    /\ works \in [Actions -> BOOLEAN]
    /\ outcome = [a \in Actions |-> None]
    /\ told = [a \in Actions |-> None]
    /\ paid = [a \in Actions |-> 0]
    /\ made = [a \in Actions |-> FALSE]

\* Work in progress: the action is open, or failed while its task goes on
MayWork(a) == works[a] /\ outcome[a] \in {None, "failed"}

Spend(a) ==
    /\ MayWork(a) /\ paid[a] = 0
    /\ paid' = [paid EXCEPT ![a] = 1]
    /\ UNCHANGED <<works, outcome, told, made>>

Make(a) ==
    /\ MayWork(a) /\ ~made[a]
    /\ made' = [made EXCEPT ![a] = TRUE]
    /\ UNCHANGED <<works, outcome, told, paid>>

Decide(a, o) ==
    /\ outcome[a] = None
    /\ o = "done" /\ works[a] => made[a]
    /\ o = "refused" => paid[a] = 0 \/ made[a]
    /\ outcome' = [outcome EXCEPT ![a] = o]
    /\ UNCHANGED <<works, told, paid, made>>

Tell(a) ==
    /\ outcome[a] # None /\ told[a] = None
    /\ told' = [told EXCEPT ![a] = outcome[a]]
    /\ UNCHANGED <<works, outcome, paid, made>>

\* A sweep of the time bound fails several actions in one step
FailLate(S) ==
    /\ \A a \in S : outcome[a] = None
    /\ outcome' = [a \in Actions |-> IF a \in S THEN "failed" ELSE outcome[a]]
    /\ UNCHANGED <<works, told, paid, made>>

Next ==
    \/ \E a \in Actions : Spend(a) \/ Make(a) \/ Tell(a) \/ \E o \in Outcomes : Decide(a, o)
    \/ \E S \in SUBSET Actions : FailLate(S)

Spec == Init /\ [][Next]_vars
=============================================================================
