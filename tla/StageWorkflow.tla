--------------------------- MODULE StageWorkflow ---------------------------
(***************************************************************************)
(* What the pipeline promises about a report's way through its stages: a   *)
(* stage takes a report by claiming its status, has it to itself, whatever *)
(* users, the worker and other runs do meanwhile, and gives it back in one *)
(* of the statuses its claim may end in; a fix counts as proposed only     *)
(* when there is a proposal; nothing comes back from rejected or           *)
(* duplicate; and a restart releases every claim.                          *)
(***************************************************************************)
CONSTANTS Reports, Slots

VARIABLES
    status,  \* report -> bug_reports.status
    owners,  \* report -> the coroutines that are in a stage of it
    drafted  \* the reports that have a fix proposal

vars == <<status, owners, drafted>>

\* The transient claims (models.BugStatus)
Claims == {"validating", "analyzing", "fix_proposing"}
Final == {"rejected", "duplicate"}
\* What a report may become by hand: never fix_proposed
Editable == Claims \cup Final \cup
    {"submitted", "triaged", "clarification_needed", "closed", "deferred"}

\* Where a stage takes a report from
Enters(claim) ==
    CASE claim = "validating" -> {"submitted"}
      [] claim = "analyzing" -> {"triaged", "clarification_needed"}
      [] OTHER -> {"triaged"}

\* Where it gives it back, in success, in failure or not processed at all
Ends(claim) ==
    CASE claim = "validating" -> {"triaged", "duplicate", "submitted"}
      [] claim = "analyzing" -> {"triaged", "clarification_needed"}
      [] OTHER -> {"fix_proposed", "triaged"}

\* release_orphaned_claims
Released(st) ==
    CASE st = "validating" -> "submitted"
      [] st \in {"analyzing", "fix_proposing"} -> "triaged"
      [] OTHER -> st

Init ==
    /\ status = [r \in Reports |-> "absent"]
    /\ owners = [r \in Reports |-> {}]
    /\ drafted = {}

Take(r, s) ==
    /\ owners[r] = {} /\ \A x \in Reports : s \notin owners[x]
    /\ \E claim \in Claims :
        /\ status[r] \in Enters(claim)
        /\ status' = [status EXCEPT ![r] = claim]
    /\ owners' = [owners EXCEPT ![r] = {s}]
    /\ UNCHANGED drafted

Draft(r, s) ==
    /\ owners[r] = {s} /\ status[r] = "fix_proposing"
    /\ drafted' = drafted \cup {r}
    /\ UNCHANGED <<status, owners>>

GiveBack(r, s) ==
    /\ owners[r] = {s}
    /\ \E st \in Ends(status[r]) :
        /\ st = "fix_proposed" => r \in drafted
        /\ status' = [status EXCEPT ![r] = st]
    /\ owners' = [owners EXCEPT ![r] = {}]
    /\ UNCHANGED drafted

\* Somebody else moves a report, only while it is in nobody's claim, and out of
\* a final status only to the other
Edit(r) ==
    /\ owners[r] = {} /\ status[r] \notin Claims
    /\ \E st \in IF status[r] \in Final THEN Final ELSE Editable :
        status' = [status EXCEPT ![r] = st]
    /\ UNCHANGED <<owners, drafted>>

Restart ==
    /\ status' = [r \in Reports |-> Released(status[r])]
    /\ owners' = [r \in Reports |-> {}]
    /\ UNCHANGED drafted

Next ==
    \/ \E r \in Reports, s \in Slots : Take(r, s) \/ Draft(r, s) \/ GiveBack(r, s)
    \/ \E r \in Reports : Edit(r)
    \/ Restart

Spec == Init /\ [][Next]_vars
=============================================================================
