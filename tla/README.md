# A formal model of Bugalizer

Bugalizer (`src/bugalizer/`) is a FastAPI service on one SQLite database. It
takes bug reports in, runs them through four stages (validate, triage, localize,
propose a fix), opens a pull request for an approved fix, imports reports from an
external tracker ("sonicgrid") and sends results back to it. This directory holds
TLA+ modules that model its stateful parts, TLC configurations that check them on
small instances, and TLAPS proofs for instances of any size.

Check a run with `tlc -config <run>.cfg <module>` and the proofs with
`tlapm` on `NaturalLemmas`, `PipelineProofs`, `PipelineRowProofs`, `IngestProofs`,
`OpenPrProofs`, `TriageProofs`, `TriageOutcomeProofs` and `ResultPushProofs`.
`PROJECT.json` maps every definition to the lines it models and lists runs,
mutants, findings, hazards and theorems.

## 1. Inventory

| Component | State it keeps | Operations | What makes it correct |
|---|---|---|---|
| Status workflow (`models.py`) | - | `validate_transition`, terminal and phase tables | a terminal report stays out of the workflow |
| Report store (`db.py`) | `bug_reports`, `analyses`, `fix_proposals`, claim tokens | `try_claim_report`, `report_update_status`, retry gates, `release_orphaned_claims` | claims exclude each other; caps count every attempt |
| Queue worker (`queue/worker.py`) | the tasks of one cycle, a semaphore | sample four queries, dispatch, wait for all | every cycle ends |
| Stages (`pipeline/*.py`) | one coroutine each | claim, running row, model call, row end, status write or rollback | one stage per report; one proposal per localization; claims released |
| Report and queue routes (`api/reports.py`, `api/queue.py`) | background tasks | create, PATCH, DELETE, analyze, retry, open-pr | edits and stages do not undo each other |
| Checkout (`git_ops/repo.py`) | the clone on disk, `projects.head_sha` | clone, pull, read HEAD | the recorded head follows the checkout |
| Open pull request (`git_ops/pull_request.py`) | claim token, `_active_claims`, `pushed_sha`, `pr_number`; branch and PRs at GitHub | claim/adopt, look up, build, push, POST, attribute, record, release | one recorded PR, made by the proposal it is recorded for |
| PR settling (`_check_prs`, `prs_to_check`, `pr_settle`) | `pr_settled_at`, PR state of the proposal | read at GitHub, settle | only a merge closes the report; a closed pull request sends it back to triage once |
| Ingest poller (`ingest/`) | `ingest_state` (cursor, re-walk cursor, generation), `_skip` | forward walk, re-walk, finish, fence | no report lost, nothing of an old source imported |
| Project routes (`api/projects.py`) | `projects` row | PATCH, DELETE, clone, refresh-map, ingest run | a new source invalidates the old checkpoint |
| Start-up (`main.py`) | - | recover, then start the loops | in-memory state is lost, claims are recovered |
| Triage sync (`sync/triage_sync.py`, `sync/actions.py`) | `triage_actions` ledger, `_holds` | reserve, claim, intent, dispatch, finish, drain, recover, time bound | an action is paid for and decided at most once, and told as decided or surfaced as a breach; slots are not oversold |
| Result push (`sync/results.py`, `sync/stage.py`) | `triage_results` revisions | stage, PUT, acknowledge | a revision means one payload; the shown picture never goes back; the last one arrives |
| Model client, configuration, usage, dashboard | settings, `token_usage` | I/O, read-only views | not modelled |

Interactions: worker, stages, poller, sync and async routes are coroutines of one
event loop and share `db_write_lock` and per-project locks. Sync routes run on
threads with their own SQLite connections and may come between any two committed
statements. Remote systems (model, git remote, GitHub, sonicgrid) answer late,
wrongly or not at all. A crash loses everything that is not committed.

Hard behaviours, each with its line under `hazards` in `PROJECT.json`: claims
against thread edits; jobs sampled long before they run; crashes between the
commits of a stage; retry caps over crashes; lost updates of `head_sha`; claim
adoption; pushes and POSTs that take effect after their timeout; configuration
changes during a poll; a resumable re-walk over a changing source; a failed
project deletion; a time bound that passes while its task is inside a model call
or open-pr; recovery of a lost action from rows, pull requests or the report's
claim; credential and terminal requests whose answers are lost; a terminal state that
sonicgrid answers with 400, which drops it; a key gate that a
restart switches; revisions over late PUTs, a clock that steps back and a head
that comes back.

## 2. Modules

### `Pipeline` - report workflow, worker, stages, routes, recovery

One project, a set of `Reports`, and `Slots`: coroutines that may run a stage, for
the worker or for a manual run.

* `status`, `reason`, `dupOf`, `mode` are columns of `bug_reports`; `analyses` and
  `proposals` are the rows of a report; `clock` is the strictly increasing
  `created_at` stamp of `db._now`; `head`, `checkout` and `pulls` are
  `projects.head_sha`, HEAD on disk and the git threads still to record theirs.
* `task[s]` is a coroutine: its stage, report, program counter, row and who
  started it. `poll` and `queue` are the worker's loop and the jobs behind its
  semaphore. `retrying` holds retry requests between status check and delete.
* A step is one committed statement, or several that nobody can tell apart.
  `LoopFree` and `MayRun` state that the loop runs one coroutine between two
  awaits; threads are not bound by them. `Claim*` are the compare-and-set claims,
  `TriageRow`/`LocalizationRow`/`FixRow` the rows, `StageSucceeds`, `StageFails`,
  `FixAnswered`, `FixFails`, `FilesUnreadable` the outcomes, `Settle` the
  unconditional status write, `RollbackClaim` the conditional one, `CrashRestart`
  the loss of the process with the recovery of `release_orphaned_claims`.

Abstractions: what a model answers, which reports are similar and whether
validation finds a report complete are free choices; the retry delay is the flag
`recent` that may fall at any time; validation's own analysis row, token usage,
severity and texts are not kept; the order in which jobs get the semaphore is
open (`EagerSpec` in `MCPipeline` restricts it for one run); failures of the
database itself are left out; a PATCH with the resolution reason "deleted" is not
modelled (DELETE is).

### `StageWorkflow` - the promise of the stages

What the pipeline promises of a report's way through its stages: a stage takes a
report by claiming its status (`Take`), has it to itself, stores a proposal only
while it holds `fix_proposing` (`Draft`) and gives the report back in a status its
claim may end in, `fix_proposed` only with a proposal (`GiveBack`); others move a
report only while nobody holds it, never to `fix_proposed` and out of `rejected` or
`duplicate` only to the other (`Edit`); a restart releases every claim (`Restart`).
Rows, retries, the worker's cycle, the checkout and the program counters are gone.
The statuses that open-pr moves a report through belong to `OpenPr`.
`Pipeline` instantiates it with `owners`, the coroutines in a stage of each report,
and `drafted`, the reports with a proposal; `FollowsWorkflow` is the refinement,
checked and proved.

### `OpenPr` - one report's pull request

`status`, `token`, `active` are the report's row and the registry entry; `pushed`
and `recorded` are columns of `fix_proposals`; `branch`, `prs` and `late` are the
remote: commits of the branch, its pull requests, and failed pushes or POSTs that
may still take effect. `req[q]` is a request of `open_pull_request`, whose program
counter follows `_run_claimed`: look up the PR, read the branch tip, build the
commit with its intent, push, POST, look up again, attribute, record, release.
`People` lets persons push, open, close and delete on GitHub. `Propose` stands for
the pipeline making a newer proposal while the report is back in triage. People do
not delete the branch while a lost push may still arrive. The project's lock for
the checkout is implicit.

Settling is the sync tick's `_check_prs`: `check` is the read in flight and
`settled` is `pr_settled_at`. `SelectPr` takes what `prs_to_check` lists, `ReadPr`
the answer of GitHub, `SettlePr` the transaction of `pr_settle`, which looks at
the report again; `CheckFails` is every failed read. `Reopen` is the reopen of a
report, `PersonEnds` and `PersonReopens` what people do to a pull request
meanwhile. There is one report, so a tick reads at most one pull request; the
interval `PR_CHECK_SECONDS` is not kept.

### `Ingest` - the poller of one project

`project` (existence, configuration, generation), `st` (the checkpoint row or
none), `rows` (imported reports), `open` (external: what each source has active).
Cursors are positions in the source's (created_at, id) order, so a report may
appear behind a cursor. `poll[p]` is the coroutine of the background tick or of a
manual run; `patch` and `del` are threads; `held` is the transaction a failed
`project_delete` leaves open on its thread, until the thread writes again
(`ThreadReused`) or the process dies. Hours are the flags `due` and `overdue`; the
poll identity is a model value (source, URL and credential name together);
`analysed` stands for every row with a foreign key to the report. `shown` and
`staying` are history, of the present configuration's source only: what a poll of an
earlier configuration is still shown belongs to no checkpoint. The mapping of texts, and what a failed PATCH leaves in its
connection, are not modelled.

### `TriageSync` - sonicgrid's admin actions

One project and a set of `Actions`. External: `asked` (kind, whether the
requester's model is pinned, whether the model is paid, the report) and `source`
(the action's state at sonicgrid). `ledger` is the row of `triage_actions`: its
phase (none, reserved, intent, dispatched, fix_done, finished), outcome, the pinned
key, the fix step, PR attempts, acknowledgement and late outcome. `hold` is
`_holds`, `task` the coroutine of an action, `tick` the loop in `sync_project`;
`overdue` says that an action's time bound has passed. `status`, `triaged`, `rows`
and `imported` are what the actions read and write of reports; `gate` is
`settings.sonicgrid_user_keys`, which a restart may switch. `calls`, `ran`,
`fetched` and `reopened` are history.

| Actions | Code |
|---|---|
| `StartTick`, `Drain`, `PostTerminal`, `PostRejected`, `PostUnanswered` | `sync_project` up to and with `_drain`: post finished rows; 200, 404 and 409 are answered from sonicgrid's state and acknowledged by its table; a 400 is acknowledged with an error and never posted again (`triage_sync.py:692`); any other status leaves the row to the next drain |
| `ListActions`, `Reserve`, `Skip`, `Authorize`, `Refuse`, `ClaimDenied`, `ClaimUnanswered` | the walk over open actions: resolve the report, reserve, hold, claim, intent |
| `Dispatch`, `RunInline`, `Reopen`, `FinishInline` | start the task, or run `set_mode`, `close` and `reopen` in the tick |
| `RequestKey`, `KeyRefused`, `ClaimFix` .. `FixAnswered`, `StartLocal` .. `LocalAnswered`, `NotRun` | the task's stages, with every early exit of `actions.py` |
| `Return`, `StartPr`, `PrAnswers` | the step's result in the ledger, the open-pr step with its attempts |
| `RecoverPr`, `RecoverInline`, `RecoverEvidence`, `RecoverSettles`, `Redispatch`, `Wait` | an action whose task is gone: `_recover` by evidence |
| `BoundPasses`, `ExpireSweep`, `HandleOverdue` | the time bound, in the sweep and in the walk |
| `Abort`, `CrashRestart`, `Withdraw`, `WorkerClaims`, `UserCloses`, `Import` | failures and the rest of the system |

Abstractions: the status "triaged" stands for every status that is neither closed
nor a stage's claim; the exits of `sync_project` on a bad configuration and the
backoff `_skip` are left out (the latter is bounded, see Fairness); consent and the
model allowlist are free refusals; manual runs take the same lock as the tick.
What `open_pull_request` does is `OpenPr`; here it is an answer. When sonicgrid
answers 400 is not in this repository; the test suite's fake does so for a body it
does not accept, whatever state the action is in, so `PostRejected` may happen to any
post and changes nothing there (external).

Of the acknowledgement (`Acks`: `terminal_acked` with its `terminal_error`),
`AckMatchesSource` says what it is worth: without an error sonicgrid has our outcome, with
that of a 404 or 409 the action is gone there, and after a 400 it is whatever it was,
`claimed` included. So `ClaimedIsSettled` promises an end for every claimed action but
one whose terminal state was answered with 400: that one stays `claimed` at sonicgrid,
and only `terminal_errors` on the status endpoint shows it, as
`docs/phases/sonicgrid-triage-sync.md:396-398` has it.

### `ActionOutcome` - the promise to sonicgrid

What triage sync promises for each action: one outcome, decided once and told as
decided if told at all; at most one paid call; `done` only when the analysis or proposal exists,
`refused` only when nothing was spent without a result. `TriageSync` instantiates
it with `outcome <- Posted(ledger.outcome)`, `told <- source`, `paid <- calls`
and `made <-` the stage row tagged with the action (`Outcome`), and
`ImplementsOutcome` is the refinement, checked and proved.

### `ResultPush` - the picture of a report at sonicgrid

`head` is `projects.head_sha`, `report` the stamp of a report's newest row and the
commit of its localization, `stored` the row of `triage_results` (revision,
picture, acknowledged and refused fingerprints), `push` the running `_push`,
`remote` and `late` what sonicgrid shows and lost PUTs that may still arrive. A
picture is what its fingerprint tells apart: the newest stamp, and `localized` or
`stale`. `StartPush` builds every picture and takes the oldest `PerTick`; `Send` is
`triage_result_stage` with the PUT's departure; `PutAnswered`, `PutRefused`,
`PutLost`, `LatePutArrives` are the fates of a PUT; `CrashRestart` may come between
staging and answer. The clock that stamps revisions may step back. Sonicgrid keeps
the highest revision (external, as `results.py` assumes). Writes that change a picture
without a new stamp (`pr_check_record`, `reset_stage_retries`) are left out: none of them
brings an earlier picture back, which is what the properties are about.

### How the modules meet

One tick of the triage sync sweeps overdue actions (`TriageSync`), reads recorded
pull requests (`OpenPr`), drains, walks and drains again (`TriageSync`) and pushes
results (`ResultPush`). The stage claims of `Pipeline` appear in `TriageSync` as
`WorkerClaims` and `InStage`, its rows as `rows`; `Ingest` imports the reports that
`Import` makes visible. `OpenPr` is one report's part of the open-pr step. The
`head` of `ResultPush` takes an earlier value as `Pipeline`'s `RecordHead` may make it.

## 3. Runs

Mutants: every property of a passing run has a faulty variant of one mapped
definition next to it, marked "Faulty variant", under which TLC refutes it.

| Run | Checks | Bounds and why they suffice |
|---|---|---|
| `PipelineClaims` | `TypeOK`, `NoDoubleProcessing`, `OneProposalPerLocalization`, `RunningRowsOwned`, `PaidCallBudget`, `FollowsWorkflow` | 1 report, 2 coroutines, 2 commits, 2 fix retries, 1 edit, 1 crash: two claimants of one report, a crash between any two commits of the database, two localizations, a paid-call cap that is reached, reset and reached again. Edits do not take a report *out* of a stage claim (`HandEdits`) |
| `PipelineDuplicates` | `DuplicatesAcyclic` | 3 reports on hold, so a chain can close; 2 edits, 1 crash |
| `PipelineLiveness` | `ClaimsReleased`, `CyclesEnd` | fair; 1 report, 2 coroutines, 1 crash |
| `OpenPr` | `TypeOK`, `OneRecordedPr`, `RecordedOwnerMadeIt`, `OneHolder`, `PushedHasIntent`, `RequestsEnd`, `MergedIsNoticed`, `OnlyMergeCloses`, `RejectedStays` | fair; 2 requests, 2 proposals, 2 claims, 2 commits, 2 PRs, 1 crash, 1 edit, 1 failed read, people at work: a second proposal after a lost push of the first, adoption after a crash, a merge or close between read and settling |
| `IngestWalks` | `TypeOK`, `ForwardNeverSkips`, `RewalkCovers`, `ReportsArrive` | fair; 3 reports, one malformed, pages of 2, one page per walk and poll (so walks resume), 2 changes, 2 errors, 1 crash |
| `IngestFence` | `CheckpointIsCurrent`, `OldSourceNeverImported` | 2 configurations, 2 PATCHes one after another, 2 deletions, 1 report: back to the old configuration with a poll in flight |
| `TriageRecovery` | `TypeOK`, `PaidOnce`, `LateOnlyAfterTimeout`, `ReopenedOnce`, `AckMatchesSource`, `KeyOfPaidCall`, `NoPrAfterOutcome`, `ImplementsOutcome`, `ClaimedIsSettled`, `SlotsFreed` | fair; 1 action of every kind, key and model, 1 report the worker also claims, 2 crashes (one to lose the task, one to lose its recovery), 1 failed request (lost before or after its effect, an odd status, or a 400 to a terminal POST), 1 withdrawal or closing, 2 PR attempts (the second is the last). With 2 failed requests, so that a 400 also follows a lost answer, it passes by hand (1,045,368 states) |
| `TriageSlots` | `SlotsRespected` | 2 fix_and_open_pr actions on one or two reports, 1 model slot, 1 crash: every way to compete for the report and for the slot |
| `ResultPush` | `TypeOK`, `OneRevisionOnePayload`, `AckedIsShown`, `ShownNeverGoesBack`, `LastPictureArrives` | fair; 2 reports and 1 PUT per tick (one waits), 2 changes, 1 move of the head, clock readings 1 and 3 (equal, ahead and back), 1 lost, late or refused PUT, 1 crash |

Deadlock is checked except where the system may stop: in `OpenPr` all claims of
the bound may be used up; in `ResultPush` every picture has been pushed; in the `Ingest` runs with PATCH or DELETE the project
may lose its source and is then not polled. In `Pipeline` and `TriageSync` no stop is possible.

### Findings (runs that show a disagreement)

| Run | What it shows |
|---|---|
| `PipelineTerminal` | DELETE or PATCH during a stage is overwritten by the stage's unconditional status write (`orchestrator.py:81`, `:222`, `:230`, `triage.py:117`), although terminal states have "no outbound transitions" |
| `IngestPatch` | two PATCHes at once: the one that compared against the old row puts the old configuration back without a new generation, and a poll of the other source passes the fence |
| `ResultReturns` | when `projects.head_sha` takes an earlier value again while the PUT of the picture in between is lost, the earlier picture is staged with a new revision and its old acknowledgement still counts (`db.py:2010-2033` keeps `acked_fingerprint`, `triage_sync.py:714-716` then skips it): sonicgrid never gets it, although the document says the stored payload is resent while it is not acknowledged (`docs/phases/sonicgrid-triage-sync.md:175`) |

Four more disagreements are kept as configurations to run by hand:

| Configuration | Property | What it shows |
|---|---|---|
| `PipelineStaleJob` (`MCPipeline`) | `NeverRedispatchedAfterPermanent` | a fix job sampled before a permanent failure still makes its paid call: `propose_fix` checks proposal and freshness again after its claim, not the retry gate (`fix_proposer.py:331` against `:69`) |
| `OpenPrDelete` (`MCOpenPr`) | `DeleteRefusedWhileClaimed` | DELETE between the claim's commit and its entry in `_active_claims` is not refused (`pull_request.py:547` against `reports.py:521`) |
| `ProjectDelete` (`MCIngest`) | `ForeignKeyAnswered` | `project_delete` raises on a foreign key where its docstring promises `'has_reports'` (`db.py:571` against `:561-562`) |
| `TriageRefused` (`MCTriageSync`) | `RefusedDidNotRun` | analyze_local on a report without a triage is told `refused` after its triage has run, when the localization then finds no clone or is already fresh (`map_local`, `orchestrator.py:277-284`); `sync/actions.py:7` says of `refused` that it "spent nothing and wrote nothing" |

A further one passes: `PipelineHands` (`MCPipeline`) lets users move the report into
and out of a claim and checks what still holds then, `RunningRowsOwned` and
`OneJobPerStage`, both theorems without an assumption on users. `TerminalIsFinal`, which
`PipelineTerminal` refutes under such edits, is part of what `FollowsWorkflow` says in
`PipelineClaims` (`Edit` leaves `Final` only to `Final`) and a theorem of its own.

Remarks without a configuration. The PATCH of `PipelineTerminal` also breaks
`NoDoubleProcessing` (set `HandEdits = {"leave"}`): it takes a report out of
`analyzing` or `fix_proposing` while the stage runs, and a second stage claims it.
The passing run `PipelineClaims` leaves such edits out and would not show this.
`process_localization` may record a HEAD it read before an await over the newer
one of a pull (`RecordHead` after `RecordPull`); the next read repairs it. A model
call may start after its action's bound passed during `_fetch_key`; its answer is
kept as late. An inline close may be replayed after a crash, without effect. A pull
request closed unmerged keeps its report from a second one, and one reopened after
settling is not read again; both are documented or follow from `pr_settled_at`. A
report whose PUT keeps getting an undocumented status stays at the head of the
push order and may starve others (`triage_sync.py:721`).

## 4. Fairness

* `Pipeline`: weak fairness of the poll loop and of the semaphore's waiters, strong
  fairness of each coroutine. asyncio's ready queue is FIFO, so a coroutine that
  is ready again and again is run, although another one may disable it by being
  in the middle of a synchronous section. Model calls and git have timeouts and
  every exit is an outcome, so a waiting coroutine always becomes ready. Users,
  pulls and crashes are not fair.
* `OpenPr`: weak fairness of each request's steps and of the tick's check. Claims
  and failures are bounded, so nothing disables a step for ever.
* `Ingest`: weak fairness of the poll's steps, of the tick and of time; strong
  fairness of taking the project's lock (asyncio.Lock wakes waiters in order).
  Errors are bounded, which says that the source is reachable in the end.
* `TriageSync`: weak fairness of the tick, of each task, of time (`BoundPasses`) and
  of the import of reports. The loop ticks every few seconds, its backoff skips
  a bounded number of ticks, every request and model call has a timeout. Nothing is
  assumed of users, the worker, crashes or withdrawals; failures are bounded, that is,
  sonicgrid answers in the end.
* `ResultPush`: weak fairness of the push. Lost PUTs need not arrive.

## 5. Proofs

Each theorem holds for all values of the constants: sets of reports, coroutines,
requests and actions, settings and bounds.

`Pipeline` (`PipelineProofs`, `PipelineRowProofs`):

| Theorem | Statement | Argument |
|---|---|---|
| `TypeCorrect` | `Spec => []TypeOK` | `TypeInv` = `TypeOK`, plus `StampsIssued` (row ids are at most the report's clock) and `TasksHaveReports` (a coroutine beyond the idle state has a report); the type alone is not inductive, because a step indexes rows by `task[s].report` |
| `ExclusiveClaims` | `"leave" \notin HandEdits`: `Spec => [](ClaimsHeld /\ NoDoubleProcessing)` | `ClaimInv` is their conjunction with `TypeInv`: the held status excludes a second claim because a claim needs another status, and exclusion keeps the status held when another coroutine writes one. Neither half is inductive alone |
| `TerminalStays` | same assumption: `Spec => TerminalIsFinal` | every unconditional status write is made in a stage, where `ClaimsHeld` says the status is not terminal |
| `ImplementsWorkflow` | same assumption: `Spec => FollowsWorkflow` | `ResultInv`, below: `ClaimInv` makes each stage's last write a `GiveBack` and each edit an `Edit` |
| `OneProposal` | same assumption: `Spec => []OneProposalPerLocalization` | `ProposalInv` adds `Unanswered`: a fix stage past its double check has no proposal for its localization yet; `NoDoubleProcessing` keeps others from adding one |
| `LinksAcyclic` | `Spec => []DuplicatesAcyclic` | `LinkInv`, below; no assumption on users |
| `PaidCallsCapped` | `"leave" \notin HandEdits`: `Spec => []CallsCapped` (the worker's calls on a localization are at most the cap, or 1 if the cap is 0) | `RecordInv`, `JobInv` and `PayInv`, below |
| `WorkerJobsApart` | `Spec => []OneJobPerStage`; no assumption on users | `AloneInv` adds that no job outlives its cycle and that a worker's coroutine goes on to no other stage (`more`): a cycle samples when all jobs of the last one are gone, and a job leaves the queue as it starts |
| `PaidWithinBudget` | same assumption, `MaxFixRetries # 0`: `Spec => []PaidCallBudget` | from `PaidCallsCapped` |
| `RunningOwned` | `Spec => []RunningRowsOwned` | inductive with `TypeInv`; stamps are fresh, so a new row never takes the id of a row another coroutine owns |

`LinkInv` (the links of `LinksAcyclic`) says that only a report in a final status has
a link, and that a validation knows the report it is about to link to for an original
one. Validation runs from its duplicate search to its write without an await, so no
other coroutine is between those two (`AloneInSync`); a chain would need a linked
report to be validated again, or a link to one that is about to get a link.

`ResultInv` (`ImplementsWorkflow`) is what the refinement needs beside `ClaimInv`. The
status that ends a stage is decided steps before it is written (`task.next`), and it
is written without a condition; `ResultInv` says that what is decided is a status the
held claim may end in, that a decided `fix_proposed` has its proposal, and that the
program counter tells the stage (only triage may ask back, only a fix proposes).
Each step is then one of `StageWorkflow`: the won claims and the reopening of a
manual run are `Take`, `CreateProposal` is `Draft`, `Settle`, `RollbackClaim` and
`ReopenForAnalysis` are `GiveBack`, the routes `Edit`, the recovery `Restart`, and the
others change neither status, owners nor proposals. No PATCH reaches `fix_proposed`:
`VALID_TRANSITIONS` leads there from two claims, which the assumption leaves alone,
and from `fix_approved`, which a PATCH may not leave (`CLAIM_STATUSES`).

`PayInv` (`PaidCallsCapped`) is an account of the worker's paid calls on a
localization: each has a failed row, is under way, was given up for good, or is
answered by a proposal. The retry gate counts failed rows, so the account bounds the
calls. It needs that failed rows are told apart (`RecordInv`) and that a report is in
one worker job at a time, which does not outlive its cycle (`JobInv`): otherwise
two jobs sampled together could both spend the last call. With a cap of 0
`_retry_blocked` still lets a report without a failed row pass, hence "at least 1" in
`PaidWithinBudget`; `PaidCallsCapped` says what holds for 0.

`Ingest` (`IngestProofs`):

| Theorem | Statement | Argument |
|---|---|---|
| `TypesKept` | `Spec => []TypeOK` | `TypeInv` adds that a poll at work has read a configuration and that a walk has a page left; the last report of a page exists, so cursors stay within the source; the backoff is capped |
| `CheckpointFenced` | one patcher at most: `Spec => []CheckpointIsCurrent` | `FenceInv` adds `PollsCurrent` (a poll's generation is at most the project's, and while they are equal the poll's configuration is the project's) and `PatchesCurrent` (a PATCH that found nothing to change writes what is there); without them a late `ingest_commit` could meet an equal generation with another source |
| `ImportsFenced` | same assumption: `Spec => OldSourceNeverImported` | only `Imported` adds rows, behind the fence, where `PollsCurrent` gives the source |
| `ForwardComplete` | one patcher at most: `Spec => []ForwardNeverSkips` | `WalkInv`, below |
| `RewalkComplete` | same assumption: `Spec => RewalkCovers` | `WalkInv`, below |

`WalkInv` says that every report the walk was shown and has its cursor
past is imported, of the stored cursors and of the cursors of the poll that holds the
lock; that a page in hand leaves out only what lies after its last report; that the
stored forward cursor is not ahead of the poll's; and that what is remembered is
still active at the source. Its conjuncts need each other: a commit moves the stored
cursor to the end of a page that was chosen by the poll's cursor. `PageCovers` is the
lemma about the source: a report that a page leaves out comes after all of it, and
the page is full. `FenceInv` supplies that a transaction that passes the fence
updates the checkpoint the poll read, or a new one.

`OpenPr` (`OpenPrProofs`):

| Theorem | Statement | Argument |
|---|---|---|
| `TypeCorrect` | `Spec => []TypeOK` | `TypeInv` adds `PrsExist`: whatever is recorded, about to be recorded or read is an existing pull request; otherwise a step reads beyond the list |
| `ClaimExclusive` | `Spec => []OneHolder` | `HolderInv`: a claim on the report is the one request's under way, and the registry names it once it works; so a second claim finds the status, an adoption the registry in its way |
| `OnePullRequest` | `Spec => []OneRecordedPr` | `RecordInv`, with `HolderInv`: with a record the report is outside the claim, no request is at work, and no other proposal has one; recording needs the claim |
| `RecordLeavesClaim` | `Spec => []RecordedIsCommitted` | from `RecordInv`: record and status change are one transaction |
| `ClosedByMerge` | `Spec => OnlyMergeCloses` | `MergedInv`: an answer "merged" stays true, because a merge is final |
| `RejectedForGood` | `Spec => RejectedStays` | every step that writes the status finds the row as it is, after the last await before it |
| `IntentBeforePush` | `Spec => []PushedHasIntent` | `IntentInv` adds that a request about to push has announced its proposal: the intent is committed before the push and never cleared |
| `RecordNamesAuthor` | `Spec => []RecordedOwnerMadeIt` | `AuthorInv`: a request about to POST or to record works for whoever made the commits in question. It rests on `CommitInv` (an intent names a commit of its own proposal) and `PrInv`: an open pull request holds the branch, and a branch that shares a commit with a pull request has no other author, so reopening one cannot change who made it |

`TriageSync` (`TriageProofs`, `TriageOutcomeProofs`). The inductive invariant is
`Inv == TypeOK /\ (\A a \in Actions : ActionInv(a)) /\ TickInv`. `ActionInv` has one
part for each thing a step relies on: `DecidedInv` (a row is finished exactly when it
has an outcome, and sonicgrid has no other), `RunningInv` (a running task's row is
dispatched, at its PR step or timed out, and still as it was authorized), `PaidInv`
(what the phase, the program counter and the no-retry mark say of the calls and
credential requests made), `MadeInv` (an answer `done` and the PR step of a fix have
their row, and a refused task made no paid call) and `ReopenedInv`. `TickInv` says what the tick has in its hands.
No part alone is inductive: that no second call is made needs the mark to be
set before dispatch, and an action dispatched again to have none, which is what
`TickInv` says of the action in the tick's hands. `SlotInv == HandInv /\ ShareInv` says
that a running task has its slot and that slots are within their limits.

| Theorem | Statement | Argument |
|---|---|---|
| `TypeCorrect` | `Spec => []TypeOK` | part of `Inv`; attempts stay under the cap because the failure that reaches it is final |
| `PaidAtMostOnce` | `Spec => []PaidOnce` | `PaidInv` |
| `LateBesideTimeout` | `Spec => []LateOnlyAfterTimeout` | `DecidedInv` |
| `ReopensOnce` | `Spec => []ReopenedOnce` | `ReopenedInv`: reopening and outcome are one transaction |
| `AckIsTrue` | `Spec => []AckMatchesSource` | `DecidedInv`: a finished action is not pending at sonicgrid, and what it has of ours is our outcome; so after a 400 only `claimed`, `gone` and that are left |
| `PaidOnTheRightKey` | `Spec => KeyOfPaidCall` | only `CallFixModel` calls; `RunningInv` gives the pinned key and `PaidInv` what the gate said when the stage was entered: the gate changes only with a restart, which ends the task |
| `PrBeforeOutcome` | `Spec => NoPrAfterOutcome` | `RunningInv`, `MadeInv` |
| `SlotsNeverOversold` | `Spec => []SlotsRespected` | `SlotInv` with the cardinality of the holders |
| `SyncImplementsOutcome` | `Spec => ImplementsOutcome` | each step is classified by what it does to outcome, told, paid and made; `Inv` shows that each class is a step of `ActionOutcome` or a stutter |

`ResultPush` (`ResultPushProofs`), with `Inv == TypeOK /\ \A r : SentInv /\ WireInv /\ StampInv`:

| Theorem | Statement | Argument |
|---|---|---|
| `TypeCorrect` | `Spec => []TypeOK` | part of `Inv` |
| `RevisionIsPayload` | `Spec => []OneRevisionOnePayload` | `SentInv`: what was sent has at most the stored revision, and the stored picture at that revision; staging takes a higher one |
| `NeverGoesBack` | `Spec => ShownNeverGoesBack` | `SentInv` orders revisions and stamps alike, `WireInv` says that only sent payloads arrive, `StampInv` that a push does not stage an older picture |
| `AcknowledgedIsShown` | `HeadReturns = FALSE`: `Spec => []AckedIsShown` | `AckInv` orders acknowledged, staged, seen and present picture by stamp, and for one stamp from localized to stale; so a picture staged anew is never the one acknowledged before, and an acknowledged one has sonicgrid's revision, which no late PUT exceeds. With a head that returns, the order breaks (see the run `ResultReturns`) |

The assumption `"leave" \notin HandEdits` says that nobody moves a report out of a
stage claim by hand. The code does not enforce it: `PipelineTerminal` shows
what happens without it; for the paid calls it matters because a report taken out of
its claim in the middle of a call can lose the record of that call to a crash. "One patcher at most" says that PATCH requests of a project
do not overlap; `IngestPatch` shows what happens when they do. The other assumptions are the
types of the constants and `NoReport \notin Reports`.

`RecordLeavesClaim`, `PaidCallsCapped`, `WorkerJobsApart` and the conjunct `ClaimsHeld` of
`ExclusiveClaims` are proved and in no run.

Only model-checked: the liveness properties (`RequestsEnd`, `MergedIsNoticed`,
`ReportsArrive`, `ClaimedIsSettled`, `SlotsFreed`, `LastPictureArrives`, `ClaimsReleased`, `CyclesEnd`),
because fairness is out of the prover's reach. Every safety property of the passing
runs is a theorem. `Backoff` is written as a test of the power of two against its cap,
since the provers know nothing of powers.

## 6. Not modelled

The repo map, prompts and parsing (pure functions whose result is a free choice
here), token usage and statistics, configuration, authentication, dashboard,
migrations, and failures of the database itself. Of `stage_of` and
`build_payload` (`sync/stage.py`, `sync/results.py`) only what the fingerprint tells
apart is modelled. Of the report and project routes, the read-only ones and the
clone are left out.

## 7. Plan

Done: all modules above, their runs and proofs. Left:

1. A composition of `Pipeline` with the calls of the triage sync (trigger references,
   stage claims as evidence), in place of `WorkerClaims` and the rows of `TriageSync`.
2. Proofs: which of the theorems of `Ingest` survive overlapping PATCH requests; the
   abstract promise of `OpenPr`, as `StageWorkflow` is that of `Pipeline`.
