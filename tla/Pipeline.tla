------------------------------ MODULE Pipeline ------------------------------
(***************************************************************************)
(* The report pipeline of one Bugalizer process on one database: the       *)
(* report rows and their status, the analysis rows the retry gates are     *)
(* derived from, the queue worker (queue/worker.py), the four stages       *)
(* (pipeline/*.py), the API routes that edit a report (api/reports.py,     *)
(* api/queue.py), the checkout of the project's repository and the         *)
(* start-up recovery (db.release_orphaned_claims).                         *)
(*                                                                         *)
(* Two kinds of concurrency exist. The stages, the worker and the async    *)
(* routes share one asyncio event loop: between two awaits nothing else on *)
(* the loop runs. The sync routes (create, PATCH, DELETE, retry) run on    *)
(* threads and may come between any two statements. A step below is one    *)
(* committed statement, or several that no other actor can tell apart.     *)
(***************************************************************************)
EXTENDS Integers, FiniteSets

CONSTANTS
    Reports,          \* the bug reports of one project
    NoReport,         \* not a report
    Slots,            \* coroutines of the event loop that can run a stage
    AutoFix,          \* settings.auto_fix_enabled
    MaxConcurrent,    \* settings.queue_max_concurrent
    MaxTriageRetries, \* settings.max_triage_retries
    MaxLocRetries,    \* settings.max_localize_retries
    MaxFixRetries,    \* settings.max_fix_retries
    Modes,            \* the analysis modes users pick
    HandEdits,        \* how users PATCH/DELETE stage claims: "enter", "leave"
    MaxSha,           \* bound: commits the checkout can reach
    MaxEdits,         \* bound: user operations on existing reports
    MaxCrashes        \* bound: process crashes

ASSUME NoReportAssumption == NoReport \notin Reports
ASSUME SettingsAssumption ==
    /\ AutoFix \in BOOLEAN
    /\ {MaxConcurrent, MaxTriageRetries, MaxLocRetries, MaxFixRetries} \subseteq Nat
    /\ Modes \subseteq {"auto", "local_only", "hold"}
    /\ HandEdits \subseteq {"enter", "leave"}
ASSUME BoundsAssumption == {MaxSha, MaxEdits, MaxCrashes} \subseteq Nat

VARIABLES
    status,    \* report -> bug_reports.status ("absent": not created yet)
    reason,    \* report -> bug_reports.resolution_reason
    dupOf,     \* report -> duplicate_of of its validation
    mode,      \* report -> bug_reports.analysis_mode
    analyses,  \* report -> its triage, localization and fix rows
    proposals, \* report -> its fix_proposals rows
    clock,     \* report -> created_at stamps issued by db._now
    head,      \* projects.head_sha; 0 while the repository is not cloned
    checkout,  \* HEAD of the clone on disk
    pulls,     \* shas that running clone/refresh-map requests will record
    task,      \* slot -> the coroutine it runs
    poll,      \* where the worker's poll loop is
    queue,     \* jobs created this cycle and waiting for the semaphore
    retrying,  \* reports whose retry request passed its status check
    autoPaid,  \* history: paid calls the worker made on its own since the
               \* last budget reset (new localization, or retry)
    edits, crashes

rowVars  == <<analyses, proposals, clock>>
repoVars == <<head, checkout, pulls>>
reportVars == <<status, reason, dupOf, mode>>
loopVars == <<poll, queue>>
boundVars == <<edits, crashes>>
vars == <<status, reason, dupOf, mode, analyses, proposals, clock, head,
          checkout, pulls, task, poll, queue, retrying, autoPaid, edits, crashes>>

-----------------------------------------------------------------------------
(* The status workflow: models.py. *)

BugStatus == {"submitted", "validating", "triaged", "analyzing",
    "clarification_needed", "fix_proposing", "fix_proposed", "fix_approved",
    "fix_committed", "verified", "closed", "rejected", "duplicate", "deferred"}

Terminal == {"closed", "rejected", "duplicate"}

\* VALID_TRANSITIONS
ValidTransitions(current) ==
    CASE current = "submitted"  -> {"validating", "rejected", "triaged"}
      [] current = "validating" -> {"triaged", "rejected"}
      [] current = "triaged" ->
            {"analyzing", "fix_proposing", "deferred", "duplicate", "closed"}
      [] current = "analyzing" -> {"clarification_needed", "fix_proposed", "triaged"}
      [] current = "clarification_needed" -> {"analyzing", "closed"}
      [] current = "fix_proposing" -> {"fix_proposed", "triaged"}
      [] current = "fix_proposed"  -> {"fix_approved", "triaged", "closed"}
      [] current = "fix_approved"  -> {"fix_committed", "fix_proposed"}
      [] current = "fix_committed" -> {"verified", "triaged"}
      [] current = "verified" -> {"closed"}
      [] current = "deferred" -> {"triaged"}
      [] OTHER -> {}

\* CURRENT_PHASE_TARGETS
PhaseTargets ==
    BugStatus \ {"submitted", "fix_approved", "fix_committed", "verified"}

\* validate_transition with phase gating; CLAIM_STATUSES holds fix_approved only
PatchAllowed(current, target) ==
    /\ current \notin Terminal
    /\ target \in ValidTransitions(current)
    /\ target \in PhaseTargets
    /\ current # "fix_approved"

\* The claims a stage takes and where release_orphaned_claims rolls them back.
Rollback == [validating |-> "submitted", analyzing |-> "triaged",
             fix_proposing |-> "triaged"]
StageClaims == DOMAIN Rollback

Stages == {"validate", "triage", "localize", "fix"}

ClaimOf(stage) ==
    CASE stage = "validate" -> "validating"
      [] stage = "fix" -> "fix_proposing"
      [] OTHER -> "analyzing"

-----------------------------------------------------------------------------
(* Analysis rows and the retry gates: db.py. *)

Phases == {"triage", "localization", "fix"}

\* id is created_at, which db._now issues strictly increasing; recent: the row
\* completed less than retry_delay_seconds ago.
Analysis == [id: Nat, phase: Phases, status: {"running", "completed", "failed"},
             sha: Nat, permanent: BOOLEAN, recent: BOOLEAN]

Proposal == [id: Nat, analysis: Nat]

Row(id, phase, st, perm) ==
    [id |-> id, phase |-> phase, status |-> st, sha |-> 0,
     permanent |-> perm, recent |-> st = "failed"]

RowsOf(r, phase, st) == {a \in analyses[r] : a.phase = phase /\ a.status = st}

Newest(rows) == CHOOSE a \in rows : \A b \in rows : b.id <= a.id

\* latest_completed_localization
Localized(r) == RowsOf(r, "localization", "completed") # {}
LatestLocalization(r) == Newest(RowsOf(r, "localization", "completed"))

\* _failed_attempts_after the newest completed row of the same phase
FailedSinceSuccess(r, phase) ==
    {a \in RowsOf(r, phase, "failed") :
        \A c \in RowsOf(r, phase, "completed") : a.id > c.id}

FailedFixes(r, loc) == {a \in RowsOf(r, "fix", "failed") : a.id > loc.id}

\* _retry_blocked
RetryBlocked(failed, max) ==
    /\ failed # {}
    /\ \/ \E a \in failed : a.permanent
       \/ Cardinality(failed) >= max
       \/ Newest(failed).recent

Dispatchable(r) == status[r] = "triaged" /\ reason[r] # "deleted"

\* triage_eligible_reports: a failed latest row must be past its delay
TriageEligible(r) ==
    LET rows == {a \in analyses[r] : a.phase = "triage"} IN
    /\ Dispatchable(r)
    /\ mode[r] # "hold"
    /\ \/ rows = {}
       \/ /\ RowsOf(r, "triage", "completed") = {}
          /\ Cardinality(RowsOf(r, "triage", "failed")) < MaxTriageRetries
          /\ ~Newest(rows).recent

\* localization_eligible_reports
LocalizationEligible(r) ==
    /\ Dispatchable(r)
    /\ mode[r] # "hold"
    /\ head # 0
    /\ RowsOf(r, "triage", "completed") # {}
    /\ ~RetryBlocked(FailedSinceSuccess(r, "localization"), MaxLocRetries)
    /\ Localized(r) => LatestLocalization(r).sha # head

\* Faulty variant: looks the proposal up by its own id.
ProposalForWrongKey(r, loc) == \E p \in proposals[r] : p.id = loc.id

ProposalFor(r, loc) == \E p \in proposals[r] : p.analysis = loc.id

\* Fresh: a known HEAD and the localization made at it
Fresh(r) == Localized(r) /\ head # 0 /\ LatestLocalization(r).sha = head

\* reports_eligible_for_fix
FixEligible(r) ==
    /\ Dispatchable(r)
    /\ mode[r] = "auto"
    /\ Fresh(r)
    /\ ~ProposalFor(r, LatestLocalization(r))
    /\ ~RetryBlocked(FailedFixes(r, LatestLocalization(r)), MaxFixRetries)

-----------------------------------------------------------------------------
(* Coroutines of the event loop. *)

\* Points between two awaits: while a task is at one, the loop runs only it.
SyncPcs == {"claim", "row", "reopen", "settle", "propose", "rollback"}
\* Points at an await, or scheduled and not started (start).
AwaitPcs == {"idle", "start", "sha", "fresh", "map", "llm", "files", "paid"}

\* row: the running row a triage/localize task writes, the localization a fix
\* works from; next: the status the task is about to write; more: triage was
\* started by run_local_analysis, which goes on to localization.
Task == [report: Reports \cup {NoReport}, by: {"worker", "user"}, stage: Stages,
         pc: SyncPcs \cup AwaitPcs, row: Nat, sha: Nat, next: BugStatus,
         more: BOOLEAN, dup: Reports \cup {NoReport}]

Idle == [report |-> NoReport, by |-> "worker", stage |-> "validate", pc |-> "idle",
         row |-> 0, sha |-> 0, next |-> "triaged", more |-> FALSE, dup |-> NoReport]

NewTask(r, by, stage, pc) ==
    [Idle EXCEPT !.report = r, !.by = by, !.stage = stage, !.pc = pc]

LoopIdle == poll \in {"sleep", "gather"}
MayRun(s) == LoopIdle /\ \A t \in Slots : task[t].pc \in SyncPcs => t = s
LoopFree == LoopIdle /\ \A t \in Slots : task[t].pc \notin SyncPcs

\* A task that has won its claim and has not yet written the status that ends
\* its stage.
InStage(s) == task[s].pc \in (SyncPcs \cup AwaitPcs) \ {"idle", "start", "claim"}

Init ==
    /\ status = [r \in Reports |-> "absent"]
    /\ reason = [r \in Reports |-> "none"]
    /\ dupOf = [r \in Reports |-> NoReport]
    /\ mode = [r \in Reports |-> "auto"]
    /\ analyses = [r \in Reports |-> {}]
    /\ proposals = [r \in Reports |-> {}]
    /\ clock = [r \in Reports |-> 0]
    /\ head = 0 /\ checkout = 0 /\ pulls = {}
    /\ task = [s \in Slots |-> Idle]
    /\ poll = "sleep" /\ queue = {} /\ retrying = {}
    /\ autoPaid = [r \in Reports |-> 0]
    /\ edits = 0 /\ crashes = 0

-----------------------------------------------------------------------------
(* The queue worker: one poll cycle samples the four eligibility queries,  *)
(* creates one job per hit, runs them under the semaphore and waits for    *)
(* all of them. No await separates the queries; threads may write between. *)

\* One job per report of an eligibility query
Sampled(stage, eligible) == {stage} \X eligible

Submitted(r) == status[r] = "submitted" /\ reason[r] # "deleted"

PollSubmitted ==
    /\ poll = "sleep" /\ LoopFree
    /\ poll' = "triage"
    /\ queue' = Sampled("validate", {r \in Reports : Submitted(r)})
    /\ UNCHANGED <<reportVars, rowVars, repoVars, task, retrying, autoPaid, boundVars>>

PollTriage ==
    /\ poll = "triage"
    /\ poll' = "localize"
    /\ queue' = queue \cup Sampled("triage", {r \in Reports : TriageEligible(r)})
    /\ UNCHANGED <<reportVars, rowVars, repoVars, task, retrying, autoPaid, boundVars>>

PollLocalization ==
    /\ poll = "localize"
    /\ poll' = "fix"
    /\ queue' = queue \cup Sampled("localize", {r \in Reports : LocalizationEligible(r)})
    /\ UNCHANGED <<reportVars, rowVars, repoVars, task, retrying, autoPaid, boundVars>>

PollFix ==
    /\ poll = "fix"
    /\ poll' = "gather"
    /\ queue' = IF AutoFix THEN queue \cup Sampled("fix", {r \in Reports : FixEligible(r)}) ELSE queue
    /\ UNCHANGED <<reportVars, rowVars, repoVars, task, retrying, autoPaid, boundVars>>

WorkerSlots == {s \in Slots : task[s].pc # "idle" /\ task[s].by = "worker"}

\* _process_with_semaphore: a job takes a permit and starts its stage
StartJob(s, stage, r) ==
    /\ poll = "gather" /\ LoopFree
    /\ task[s].pc = "idle"
    /\ <<stage, r>> \in queue
    /\ Cardinality(WorkerSlots) < MaxConcurrent
    /\ queue' = queue \ {<<stage, r>>}
    /\ task' = [task EXCEPT ![s] = NewTask(r, "worker", stage, "claim")]
    /\ UNCHANGED <<reportVars, rowVars, repoVars, poll, retrying, autoPaid, boundVars>>

\* gather returns once every job of the cycle is done
CycleEnds ==
    /\ poll = "gather" /\ LoopFree
    /\ queue = {} /\ WorkerSlots = {}
    /\ poll' = "sleep"
    /\ UNCHANGED <<reportVars, rowVars, repoVars, task, queue, retrying, autoPaid, boundVars>>

-----------------------------------------------------------------------------
(* Claims. try_claim_report is one compare-and-set on the status. *)

\* Faulty variant: an UPDATE without the status condition.
ClaimsUnconditionally(s, from) ==
    status' = [status EXCEPT ![task[s].report] = ClaimOf(task[s].stage)]

Claims(s, from) ==
    LET r == task[s].report IN
    /\ status[r] = from
    /\ status' = [status EXCEPT ![r] = ClaimOf(task[s].stage)]

Continue(s, pc) == task' = [task EXCEPT ![s].pc = pc]
SettleWith(s, st) == task' = [task EXCEPT ![s].pc = "settle", ![s].next = st]

\* Faulty variant: forgets that duplicates are no originals.
DuplicateCandidatesAny(r) ==
    {o \in Reports \ {r} : status[o] \notin {"absent", "rejected"} /\ reason[o] # "deleted"}

\* Stage 1: find_duplicate skips the report itself and reports that are
\* deleted, duplicates or rejected; similarity of the texts is a free choice.
DuplicateCandidates(r) ==
    {o \in Reports \ {r} : /\ status[o] \notin {"absent", "duplicate", "rejected"}
                           /\ reason[o] # "deleted"}

ClaimValidation(s) ==
    /\ task[s].pc = "claim" /\ task[s].stage = "validate" /\ MayRun(s)
    /\ Claims(s, "submitted")
    /\ \E o \in DuplicateCandidates(task[s].report) \cup {NoReport} :
        task' = [task EXCEPT ![s].pc = "settle", ![s].dup = o,
                             ![s].next = IF o = NoReport THEN "triaged" ELSE "duplicate"]
    /\ UNCHANGED <<reason, dupOf, mode, rowVars, repoVars, loopVars, retrying, autoPaid, boundVars>>

\* process_submitted's except branch
ValidationFails(s) ==
    /\ task[s].pc = "settle" /\ task[s].stage = "validate" /\ MayRun(s)
    /\ Continue(s, "rollback")
    /\ UNCHANGED <<reportVars, rowVars, repoVars, loopVars, retrying, autoPaid, boundVars>>

ClaimTriage(s) ==
    /\ task[s].pc = "claim" /\ task[s].stage = "triage" /\ MayRun(s)
    /\ Claims(s, "triaged")
    /\ Continue(s, "row")
    /\ UNCHANGED <<reason, dupOf, mode, rowVars, repoVars, loopVars, retrying, autoPaid, boundVars>>

\* process_localization: a project without a clone ends the stage at once
ClaimLocalization(s) ==
    /\ task[s].pc = "claim" /\ task[s].stage = "localize" /\ MayRun(s)
    /\ Claims(s, "triaged")
    /\ IF head = 0 THEN SettleWith(s, "triaged") ELSE Continue(s, "sha")
    /\ UNCHANGED <<reason, dupOf, mode, rowVars, repoVars, loopVars, retrying, autoPaid, boundVars>>

\* propose_fix up to its first await: a prior proposal settles the report, a
\* missing, stale or empty localization defers, otherwise it reads the files
ClaimFix(s) ==
    LET r == task[s].report IN
    /\ task[s].pc = "claim" /\ task[s].stage = "fix" /\ MayRun(s)
    /\ Claims(s, "triaged")
    /\ \/ /\ Localized(r) /\ ProposalFor(r, LatestLocalization(r))
          /\ SettleWith(s, "fix_proposed")
       \/ /\ ~(Localized(r) /\ ProposalFor(r, LatestLocalization(r)))
          /\ Continue(s, "rollback")
       \/ /\ Fresh(r) /\ ~ProposalFor(r, LatestLocalization(r))
          /\ task' = [task EXCEPT ![s].pc = "files", ![s].row = LatestLocalization(r).id]
    /\ UNCHANGED <<reason, dupOf, mode, rowVars, repoVars, loopVars, retrying, autoPaid, boundVars>>

\* The task of run_local_analysis goes from triage on to localization.
AfterStage(s) ==
    IF task[s].more
    THEN NewTask(task[s].report, task[s].by, "localize", "claim")
    ELSE Idle

\* try_claim_report returned False
ClaimLost(s) ==
    /\ task[s].pc = "claim" /\ MayRun(s)
    /\ status[task[s].report] # IF task[s].stage = "validate" THEN "submitted" ELSE "triaged"
    /\ task' = [task EXCEPT ![s] = AfterStage(s)]
    /\ UNCHANGED <<reportVars, rowVars, repoVars, loopVars, retrying, autoPaid, boundVars>>

-----------------------------------------------------------------------------
(* Stages 2 and 3: a running row, a model call, the row's outcome, and a   *)
(* status write that is not conditional on the claim.                      *)

RunningRow(s, phase) ==
    LET r == task[s].report IN
    /\ clock' = [clock EXCEPT ![r] = @ + 1]
    /\ analyses' = [analyses EXCEPT ![r] = @ \cup {Row(clock[r] + 1, phase, "running", FALSE)}]
    /\ task' = [task EXCEPT ![s].pc = "llm", ![s].row = clock[r] + 1]

\* triage_report: analysis_create, then the model call
TriageRow(s) ==
    /\ task[s].pc = "row" /\ MayRun(s)
    /\ RunningRow(s, "triage")
    /\ UNCHANGED <<reportVars, proposals, repoVars, loopVars, retrying, autoPaid, boundVars>>

\* get_head_sha on a thread
ReadHead(s) ==
    /\ task[s].pc = "sha"
    /\ task' = [task EXCEPT ![s].pc = "fresh", ![s].sha = checkout]
    /\ UNCHANGED <<reportVars, rowVars, repoVars, loopVars, retrying, autoPaid, boundVars>>

\* Back on the loop: record the sha, stop when some completed localization
\* was made at it, else build the repo map on a thread.
RecordHead(s) ==
    LET r == task[s].report IN
    /\ task[s].pc = "fresh" /\ MayRun(s)
    /\ head' = task[s].sha
    /\ IF \E a \in RowsOf(r, "localization", "completed") : a.sha = task[s].sha
       THEN SettleWith(s, "triaged")
       ELSE Continue(s, "map")
    /\ UNCHANGED <<reportVars, rowVars, checkout, pulls, loopVars, retrying, autoPaid, boundVars>>

\* localize_report: analysis_create, then the model calls
LocalizationRow(s) ==
    /\ task[s].pc = "map" /\ MayRun(s)
    /\ RunningRow(s, "localization")
    /\ UNCHANGED <<reportVars, proposals, repoVars, loopVars, retrying, autoPaid, boundVars>>

\* Faulty variant: the error path forgets to give the claim back.
LocalizationAbortsHolding(s) ==
    /\ task[s].pc \in {"sha", "map"} /\ MayRun(s)
    /\ task' = [task EXCEPT ![s] = Idle]
    /\ UNCHANGED <<reportVars, rowVars, repoVars, loopVars, retrying, autoPaid, boundVars>>

\* get_head_sha or the repo map failed: no row is written
LocalizationAborts(s) ==
    /\ task[s].pc \in {"sha", "map"} /\ MayRun(s)
    /\ SettleWith(s, "triaged")
    /\ UNCHANGED <<reportVars, rowVars, repoVars, loopVars, retrying, autoPaid, boundVars>>

\* analysis_update of the task's row
RowEnds(s, st) ==
    LET r == task[s].report IN
    analyses' = [analyses EXCEPT ![r] =
        {IF a.id = task[s].row
         THEN [a EXCEPT !.status = st, !.recent = (st = "failed"),
                        !.sha = IF st = "completed" THEN task[s].sha ELSE 0]
         ELSE a : a \in @}]

\* The model answered; triage may ask for clarification.
StageSucceeds(s, st) ==
    /\ task[s].pc = "llm" /\ MayRun(s)
    /\ task[s].stage = "localize" => st = "triaged"
    /\ RowEnds(s, "completed")
    /\ autoPaid' = IF task[s].stage = "localize"
                   THEN [autoPaid EXCEPT ![task[s].report] = 0] ELSE autoPaid
    /\ SettleWith(s, st)
    /\ UNCHANGED <<reportVars, proposals, clock, repoVars, loopVars, retrying, boundVars>>

StageFails(s) ==
    /\ task[s].pc = "llm" /\ MayRun(s)
    /\ RowEnds(s, "failed")
    /\ SettleWith(s, "triaged")
    /\ UNCHANGED <<reportVars, proposals, clock, repoVars, loopVars, retrying, autoPaid, boundVars>>

\* report_update_status without expected_status: whatever the status is now
Settle(s) ==
    LET r == task[s].report IN
    /\ task[s].pc = "settle" /\ MayRun(s)
    /\ status' = [status EXCEPT ![r] = task[s].next]
    /\ IF task[s].next = "duplicate"
       THEN /\ reason' = [reason EXCEPT ![r] = "duplicate"]
            /\ dupOf' = [dupOf EXCEPT ![r] = task[s].dup]
       ELSE UNCHANGED <<reason, dupOf>>
    /\ task' = [task EXCEPT ![s] = AfterStage(s)]
    /\ UNCHANGED <<mode, rowVars, repoVars, loopVars, retrying, autoPaid, boundVars>>

\* Faulty variant: a deferred job tries again inside its own poll cycle.
RollbackClaimRetrying(s) ==
    LET r == task[s].report
        c == ClaimOf(task[s].stage) IN
    /\ task[s].pc = "rollback" /\ MayRun(s)
    /\ status' = IF status[r] = c THEN [status EXCEPT ![r] = Rollback[c]] ELSE status
    /\ task' = [task EXCEPT ![s].pc = "claim"]
    /\ UNCHANGED <<reason, dupOf, mode, rowVars, repoVars, loopVars, retrying, autoPaid, boundVars>>

\* try_claim_report back to the status the claim was taken from
RollbackClaim(s) ==
    LET r == task[s].report
        c == ClaimOf(task[s].stage) IN
    /\ task[s].pc = "rollback" /\ MayRun(s)
    /\ status' = IF status[r] = c THEN [status EXCEPT ![r] = Rollback[c]] ELSE status
    /\ task' = [task EXCEPT ![s] = Idle]
    /\ UNCHANGED <<reason, dupOf, mode, rowVars, repoVars, loopVars, retrying, autoPaid, boundVars>>

-----------------------------------------------------------------------------
(* Stage 4: the paid call. *)

\* The candidate files were read on a thread: nothing readable defers,
\* otherwise the paid call starts.
FilesUnreadable(s) ==
    /\ task[s].pc = "files" /\ MayRun(s)
    /\ Continue(s, "rollback")
    /\ UNCHANGED <<reportVars, rowVars, repoVars, loopVars, retrying, autoPaid, boundVars>>

CallFixModel(s) ==
    /\ task[s].pc = "files" /\ MayRun(s)
    /\ Continue(s, "paid")
    /\ autoPaid' = IF task[s].by = "worker"
                   THEN [autoPaid EXCEPT ![task[s].report] = @ + 1] ELSE autoPaid
    /\ UNCHANGED <<reportVars, rowVars, repoVars, loopVars, retrying, boundVars>>

FixRow(s, st, perm) ==
    LET r == task[s].report IN
    /\ clock' = [clock EXCEPT ![r] = @ + 1]
    /\ analyses' = [analyses EXCEPT ![r] = @ \cup {Row(clock[r] + 1, "fix", st, perm)}]

\* Faulty variant: counts the answer as the proposal.
FixAnsweredSettles(s) ==
    /\ task[s].pc = "paid" /\ MayRun(s)
    /\ FixRow(s, "completed", FALSE)
    /\ SettleWith(s, "fix_proposed")
    /\ UNCHANGED <<reportVars, proposals, repoVars, loopVars, retrying, autoPaid, boundVars>>

\* Valid answer: the fix row, the proposal and the status are three commits.
FixAnswered(s) ==
    /\ task[s].pc = "paid" /\ MayRun(s)
    /\ FixRow(s, "completed", FALSE)
    /\ Continue(s, "propose")
    /\ UNCHANGED <<reportVars, proposals, repoVars, loopVars, retrying, autoPaid, boundVars>>

CreateProposal(s) ==
    LET r == task[s].report IN
    /\ task[s].pc = "propose" /\ MayRun(s)
    /\ clock' = [clock EXCEPT ![r] = @ + 1]
    /\ proposals' = [proposals EXCEPT ![r] =
                        @ \cup {[id |-> clock[r] + 1, analysis |-> task[s].row]}]
    /\ SettleWith(s, "fix_proposed")
    /\ UNCHANGED <<reportVars, analyses, repoVars, loopVars, retrying, autoPaid, boundVars>>

\* Error or invalid answer: a failed row, permanent or transient
FixFails(s, perm) ==
    /\ task[s].pc = "paid" /\ MayRun(s)
    /\ FixRow(s, "failed", perm)
    /\ Continue(s, "rollback")
    /\ UNCHANGED <<reportVars, proposals, repoVars, loopVars, retrying, autoPaid, boundVars>>

-----------------------------------------------------------------------------
(* Users: the sync routes run on threads, analyze on the event loop. *)

Edits == edits < MaxEdits /\ edits' = edits + 1 /\ UNCHANGED crashes

CreateReport(r, m) ==
    /\ status[r] = "absent"
    /\ status' = [status EXCEPT ![r] = "submitted"]
    /\ mode' = [mode EXCEPT ![r] = m]
    /\ UNCHANGED <<reason, dupOf, rowVars, repoVars, task, loopVars, retrying, autoPaid, boundVars>>

\* PATCH /status: validated on the status read, then a compare-and-set on it.
PatchStatus(r, target, why) ==
    /\ Edits
    /\ PatchAllowed(status[r], target)
    /\ status[r] \in StageClaims => "leave" \in HandEdits
    /\ target \in StageClaims => "enter" \in HandEdits
    /\ status' = [status EXCEPT ![r] = target]
    /\ reason' = [reason EXCEPT ![r] = why]
    /\ UNCHANGED <<dupOf, mode, rowVars, repoVars, task, loopVars, retrying, autoPaid>>

PatchMode(r, m) ==
    /\ Edits
    /\ status[r] # "absent" /\ mode[r] # m
    /\ mode' = [mode EXCEPT ![r] = m]
    /\ UNCHANGED <<status, reason, dupOf, rowVars, repoVars, task, loopVars, retrying, autoPaid>>

\* DELETE: report_delete, a soft delete conditional on the status read
DeleteReport(r) ==
    /\ Edits
    /\ status[r] # "absent" /\ reason[r] # "deleted"
    /\ status[r] \in StageClaims => "leave" \in HandEdits
    /\ status' = [status EXCEPT ![r] = "rejected"]
    /\ reason' = [reason EXCEPT ![r] = "deleted"]
    /\ UNCHANGED <<dupOf, mode, rowVars, repoVars, task, loopVars, retrying, autoPaid>>

\* POST /queue/{id}/retry checks the status and then deletes; the two are
\* separate statements of a thread.
RetryRequest(r) ==
    /\ Edits
    /\ status[r] = "triaged"
    /\ retrying' = retrying \cup {r}
    /\ UNCHANGED <<reportVars, rowVars, repoVars, task, loopVars, autoPaid>>

ResetStageRetries(r) ==
    /\ r \in retrying
    /\ retrying' = retrying \ {r}
    /\ analyses' = [analyses EXCEPT ![r] = {a \in @ : a.status # "failed"}]
    /\ autoPaid' = [autoPaid EXCEPT ![r] = 0]
    /\ UNCHANGED <<reportVars, proposals, clock, repoVars, task, loopVars, boundVars>>

\* POST /analyze checks its preconditions and schedules a background task.
AnalyzeLocal(s, r) ==
    /\ Edits /\ LoopFree
    /\ task[s].pc = "idle"
    /\ status[r] \in {"triaged", "clarification_needed"}
    /\ task' = [task EXCEPT ![s] = NewTask(r, "user", "localize", "start")]
    /\ UNCHANGED <<reportVars, rowVars, repoVars, loopVars, retrying, autoPaid>>

AnalyzeCloud(s, r) ==
    /\ Edits /\ LoopFree
    /\ task[s].pc = "idle"
    /\ status[r] = "triaged" /\ Fresh(r)
    /\ task' = [task EXCEPT ![s] = NewTask(r, "user", "fix", "start")]
    /\ UNCHANGED <<reportVars, rowVars, repoVars, loopVars, retrying, autoPaid>>

\* run_local_analysis: triage first when no triage completed
LocalStage(r) ==
    IF RowsOf(r, "triage", "completed") = {}
    THEN [NewTask(r, "user", "triage", "claim") EXCEPT !.more = TRUE]
    ELSE NewTask(r, "user", "localize", "claim")

\* The background task starts: a cloud run goes to its claim; a local one first
\* pushes a clarification_needed report on, by a claim and a status write.
RunBackground(s) ==
    LET r == task[s].report IN
    /\ task[s].pc = "start" /\ MayRun(s)
    /\ IF task[s].stage = "localize" /\ status[r] = "clarification_needed"
       THEN /\ status' = [status EXCEPT ![r] = "analyzing"]
            /\ Continue(s, "reopen")
       ELSE /\ status' = status
            /\ task' = [task EXCEPT ![s] =
                  IF task[s].stage = "fix" THEN [@ EXCEPT !.pc = "claim"] ELSE LocalStage(r)]
    /\ UNCHANGED <<reason, dupOf, mode, rowVars, repoVars, loopVars, retrying, autoPaid, boundVars>>

ReopenForAnalysis(s) ==
    LET r == task[s].report IN
    /\ task[s].pc = "reopen" /\ MayRun(s)
    /\ status' = [status EXCEPT ![r] = "triaged"]
    /\ task' = [task EXCEPT ![s] = LocalStage(r)]
    /\ UNCHANGED <<reason, dupOf, mode, rowVars, repoVars, loopVars, retrying, autoPaid, boundVars>>

-----------------------------------------------------------------------------
(* The repository, time, and the process. *)

\* clone / refresh-map: git on a thread, possibly bringing one new commit;
\* refresh-map then parses the files before it records the sha
PullRepo ==
    /\ checkout' \in {c \in {checkout, checkout + 1} : 0 < c /\ c <= MaxSha}
    /\ checkout' \notin pulls
    /\ pulls' = pulls \cup {checkout'}
    /\ UNCHANGED <<reportVars, rowVars, head, task, loopVars, retrying, autoPaid, boundVars>>

\* ... project_update of head_sha, on the loop
RecordPull(sha) ==
    /\ sha \in pulls /\ LoopFree
    /\ head' = sha
    /\ pulls' = pulls \ {sha}
    /\ UNCHANGED <<reportVars, rowVars, checkout, task, loopVars, retrying, autoPaid, boundVars>>

\* retry_delay_seconds pass since row a completed
DelayElapses(r, a) ==
    /\ a \in analyses[r] /\ a.recent
    /\ analyses' = [analyses EXCEPT ![r] = (@ \ {a}) \cup {[a EXCEPT !.recent = FALSE]}]
    /\ UNCHANGED <<reportVars, proposals, clock, repoVars, task, loopVars, retrying, autoPaid, boundVars>>

\* release_orphaned_claims, in one transaction
RecoveredStatus(st) == IF st \in StageClaims THEN Rollback[st] ELSE st

\* Faulty variants of the recovery: a row status no query knows, running rows
\* left alone, and interrupted paid calls not recorded.
RecoveredRowsRenamed(r) ==
    {IF a.status = "running" THEN [a EXCEPT !.status = "interrupted"] ELSE a : a \in analyses[r]}
RecoveredRowsKept(r) == analyses[r]
RecoveredRowsUnbilled(r) ==
    {IF a.status = "running"
     THEN [a EXCEPT !.status = "failed", !.recent = TRUE] ELSE a : a \in analyses[r]}

RecoveredRows(r) ==
    {IF a.status = "running"
     THEN [a EXCEPT !.status = "failed", !.recent = TRUE] ELSE a : a \in analyses[r]}
    \cup (IF status[r] = "fix_proposing"
          THEN {Row(clock[r] + 1, "fix", "failed", TRUE)} ELSE {})

\* The process dies and starts again; the lifespan recovers the claims before
\* any loop or route runs.
CrashRestart ==
    /\ crashes < MaxCrashes
    /\ crashes' = crashes + 1
    /\ status' = [r \in Reports |-> RecoveredStatus(status[r])]
    /\ analyses' = [r \in Reports |-> RecoveredRows(r)]
    /\ clock' = [r \in Reports |->
                    IF status[r] = "fix_proposing" THEN clock[r] + 1 ELSE clock[r]]
    /\ task' = [s \in Slots |-> Idle]
    /\ poll' = "sleep" /\ queue' = {} /\ retrying' = {} /\ pulls' = {}
    /\ UNCHANGED <<reason, dupOf, mode, proposals, head, checkout, autoPaid, edits>>

-----------------------------------------------------------------------------

Poll == PollSubmitted \/ PollTriage \/ PollLocalization \/ PollFix \/ CycleEnds

StageStep(s) ==
    \/ ClaimValidation(s) \/ ValidationFails(s)
    \/ ClaimTriage(s) \/ ClaimLocalization(s) \/ ClaimFix(s) \/ ClaimLost(s)
    \/ TriageRow(s) \/ ReadHead(s) \/ RecordHead(s)
    \/ LocalizationRow(s) \/ LocalizationAborts(s)
    \/ \E st \in {"triaged", "clarification_needed"} : StageSucceeds(s, st)
    \/ StageFails(s) \/ Settle(s) \/ RollbackClaim(s)
    \/ FilesUnreadable(s) \/ CallFixModel(s) \/ FixAnswered(s) \/ CreateProposal(s)
    \/ \E perm \in BOOLEAN : FixFails(s, perm)
    \/ RunBackground(s) \/ ReopenForAnalysis(s)

UserStep(r) ==
    \/ \E m \in Modes : CreateReport(r, m) \/ PatchMode(r, m)
    \/ \E target \in BugStatus, why \in {reason[r], "other"} : PatchStatus(r, target, why)
    \/ DeleteReport(r) \/ RetryRequest(r) \/ ResetStageRetries(r)
    \/ \E s \in Slots : AnalyzeLocal(s, r) \/ AnalyzeCloud(s, r)

Next ==
    \/ Poll
    \/ \E s \in Slots, stage \in Stages, r \in Reports : StartJob(s, stage, r)
    \/ \E s \in Slots : StageStep(s)
    \/ \E r \in Reports : UserStep(r)
    \/ PullRepo \/ \E sha \in pulls : RecordPull(sha)
    \/ \E r \in Reports : \E a \in analyses[r] : DelayElapses(r, a)
    \/ CrashRestart

Spec == Init /\ [][Next]_vars
\* What asyncio and the clients guarantee: the loop's ready queue is FIFO, so a
\* coroutine that is ready again and again runs (strong fairness per slot);
\* model calls and git subprocesses have timeouts; the poll loop and the jobs
\* waiting for the semaphore run when they can. Users, pulls and crashes are
\* not fair.
Fairness ==
    /\ WF_vars(Poll)
    /\ WF_vars(\E s \in Slots, stage \in Stages, r \in Reports : StartJob(s, stage, r))
    /\ \A s \in Slots : SF_vars(StageStep(s))

FairSpec == Spec /\ Fairness

-----------------------------------------------------------------------------
(* Properties *)

\* Type invariant of the report rows, the analysis rows and the coroutines.
TypeOK ==
    /\ status \in [Reports -> BugStatus \cup {"absent"}]
    /\ reason \in [Reports -> {"none", "deleted", "duplicate", "other"}]
    /\ dupOf \in [Reports -> Reports \cup {NoReport}]
    /\ mode \in [Reports -> {"auto", "local_only", "hold"}]
    /\ analyses \in [Reports -> SUBSET Analysis]
    /\ proposals \in [Reports -> SUBSET Proposal]
    /\ clock \in [Reports -> Nat]
    /\ head \in Nat /\ checkout \in Nat /\ pulls \subseteq Nat
    /\ task \in [Slots -> Task]
    /\ poll \in {"sleep", "triage", "localize", "fix", "gather"}
    /\ queue \subseteq Stages \X Reports
    /\ retrying \subseteq Reports
    /\ autoPaid \in [Reports -> Nat]
    /\ edits \in Nat /\ crashes \in Nat

\* The atomic claim (try_claim_report) gives a report to one stage run at a
\* time: no two coroutines are in a stage of the same report, whatever mix of
\* worker jobs, manual runs, restarts and retries started them.
NoDoubleProcessing ==
    \A s, t \in Slots :
        s # t /\ InStage(s) /\ InStage(t) => task[s].report # task[t].report

\* While a stage runs, the report carries that stage's claim status; this is
\* what makes the unconditional status writes at the end of a stage sound.
\* Proved together with NoDoubleProcessing: neither is inductive alone.
ClaimsHeld ==
    \A s \in Slots : InStage(s) => status[task[s].report] = ClaimOf(task[s].stage)

\* A report that was rejected (DELETE included) or marked a duplicate is out of
\* the workflow: no late stage result brings it back.
TerminalIsFinal ==
    [][\A r \in Reports : status[r] \in {"rejected", "duplicate"}
                                => status'[r] \in {"rejected", "duplicate"}]_vars

\* The coroutines in a stage of a report, and the reports with a proposal: with
\* the status, what StageWorkflow speaks about
owners == [r \in Reports |-> {s \in Slots : InStage(s) /\ task[s].report = r}]
drafted == {r \in Reports : proposals[r] # {}}
Workflow == INSTANCE StageWorkflow

\* The pipeline keeps the promise of StageWorkflow: while a stage runs nobody else
\* moves its report; it ends where its claim may end, and at fix_proposed only with
\* a proposal; claims, deferrals, late status writes and the recovery included.
FollowsWorkflow == Workflow!Spec

\* One fix proposal per localization: the double check in propose_fix and the
\* eligibility query keep a second paid proposal from being stored for the
\* same evidence, also when the process dies between proposal and status.
OneProposalPerLocalization ==
    \A r \in Reports : \A p, q \in proposals[r] : p.analysis = q.analysis => p = q

\* A running row always has the coroutine that will end it; a crash leaves none
\* behind (release_orphaned_claims), so no attempt escapes the retry caps.
RunningRowsOwned ==
    \A r \in Reports : \A a \in analyses[r] :
        a.status = "running" =>
            \E s \in Slots : task[s].pc = "llm" /\ task[s].report = r /\ task[s].row = a.id

\* The worker has at most one job of a stage for a report, those that wait and
\* those that run together, also when users PATCH the report out of the claim of
\* the running one: gather ends a cycle's jobs before the next cycle samples.
OneJobPerStage ==
    \A s \in WorkerSlots :
        /\ <<task[s].stage, task[s].report>> \notin queue
        /\ \A t \in WorkerSlots \ {s} :
              task[s].stage # task[t].stage \/ task[s].report # task[t].report

\* The worker alone never makes more than max_fix_retries paid calls on one
\* localization between two resets (a new localization, or a person's retry),
\* crashes in the middle of a call included.
PaidCallBudget == \A r \in Reports : autoPaid[r] <= MaxFixRetries

\* The duplicate_of links validation writes never form a cycle, so following
\* them always ends at an original report.
DuplicatesAcyclic ==
    \A S \in (SUBSET Reports) \ {{}} : \E r \in S : dupOf[r] \notin S

\* The worker never makes a paid call for a report that has a permanent failure
\* on record for the localization it works from.
NeverRedispatchedAfterPermanent ==
    \A s \in Slots :
        task[s].pc = "paid" /\ task[s].by = "worker" =>
            ~\E a \in RowsOf(task[s].report, "fix", "failed") :
                a.id > task[s].row /\ a.permanent

\* Every claim a stage takes is given back: on success, on failure, on a
\* deferral and after a crash, the report leaves the transient claim status.
ClaimsReleased ==
    \A r \in Reports : status[r] \in StageClaims ~> status[r] \notin StageClaims

\* A poll cycle always comes to its end, so the next one samples fresh state:
\* no job waits for the semaphore for ever.
CyclesEnd == (poll = "gather") ~> (poll = "sleep")
=============================================================================
