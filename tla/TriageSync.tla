----------------------------- MODULE TriageSync -----------------------------
(***************************************************************************)
(* Sonicgrid's admin actions, executed by Bugalizer (sync/triage_sync.py,  *)
(* sync/actions.py, the triage_actions ledger of db.py) for one project.   *)
(*                                                                         *)
(* A tick lists the open actions, claims each at sonicgrid and takes it    *)
(* through the ledger: reserved, intent (authorized and pinned),           *)
(* dispatched, fix_done, finished; a later tick posts the outcome. Model   *)
(* and open-pr calls run as tasks that hold a slot. A crash loses ticks,   *)
(* tasks and slots and keeps the ledger and the stage rows; the next       *)
(* process recovers from these. Every request to sonicgrid may fail before *)
(* or after its effect.                                                    *)
(*                                                                         *)
(* Ticks, tasks and the queue worker are coroutines of one loop: an action *)
(* below is what one of them does between two awaits, cut where a crash    *)
(* between two commits can be told. The status is "triaged" for every      *)
(* status of a report that is neither closed nor in a stage's claim.       *)
(***************************************************************************)
EXTENDS Integers, FiniteSets

CONSTANTS
    Actions,     \* sonicgrid's actions
    Reports,     \* reports of the project
    Asks,        \* what an action may ask for: a set of [kind, own, paid]
    Slots,       \* settings.triage_max_concurrent
    PrAttempts,  \* PR_STEP_MAX_ATTEMPTS
    MaxErrors,   \* bound: requests to sonicgrid that fail or are answered oddly
    MaxCrashes,  \* bound: process crashes
    MaxEdits,    \* bound: closing by users, withdrawals at sonicgrid
    Busy,        \* bound: reports the queue worker and users also run
    None, Idle   \* no outcome; no action in the tick's hands

FixKinds == {"analyze_cloud", "fix_and_open_pr"}
LlmKinds == FixKinds \cup {"analyze_local"}
InlineKinds == {"set_mode", "close", "reopen"}
Kinds == LlmKinds \cup InlineKinds \cup {"open_pr"}

\* own: params.llm pins the requester's model; paid: the model is not local
Ask == [kind: Kinds, own: BOOLEAN, paid: BOOLEAN]

ASSUME TriageAssumption ==
    /\ Asks \subseteq Ask /\ \A q \in Asks : q.own => q.paid
    /\ Busy \subseteq Reports
    /\ {Slots, PrAttempts} \subseteq Nat \ {0}
    /\ {MaxErrors, MaxCrashes, MaxEdits} \subseteq Nat
    /\ None \notin {"done", "failed", "refused", "timed_out"}
    /\ Idle \notin Actions

VARIABLES
    asked,   \* external: action -> what was asked, and for which report
    source,  \* external: action -> its state at sonicgrid
    ledger,  \* triage_actions
    overdue, \* actions whose time bound has passed since intent_at
    hold,    \* _holds: action -> slot
    task,    \* action -> its running task
    tick,    \* sync_project
    status,  \* report -> bug_reports.status
    triaged, \* reports with a completed triage row
    rows,    \* action -> finished stage rows tagged with it
    imported,\* reports sync can resolve
    gate,    \* settings.sonicgrid_user_keys
    calls,   \* history: action -> paid model calls
    ran,     \* history: actions whose stage called a model
    fetched, \* history: action -> credential requests
    reopened,\* history: action -> reports it reopened
    errors, crashes, edits

sourceVars == <<asked, source>>
reportVars == <<status, triaged, rows, imported>>
historyVars == <<calls, ran, fetched, reopened>>
boundVars == <<errors, crashes, edits>>
vars == <<sourceVars, ledger, overdue, hold, task, tick, reportVars, gate,
          historyVars, boundVars>>

\* timed_out is `failed` with the message "timed out"
Outcomes == {"done", "failed", "refused", "timed_out"}
Posted(o) == IF o = "timed_out" THEN "failed" ELSE o
Told == {"done", "failed", "refused"}

\* terminal_acked with terminal_error: none, of a 404 or 409, of a 400
Acks == {"no", "yes", "breach", "rejected"}

\* fixed: steps[0] is `fix: done`, with its fix_proposal_id
NoRow == [phase |-> "none", outcome |-> None, noRetry |-> FALSE, own |-> FALSE,
          fixed |-> FALSE, attempts |-> 0, acked |-> "no", late |-> None]
LedgerRow == [phase: {"none", "reserved", "intent", "dispatched", "fix_done", "finished"},
              outcome: Outcomes \cup {None}, noRetry: BOOLEAN, own: BOOLEAN, fixed: BOOLEAN,
              attempts: 0 .. PrAttempts, acked: Acks,
              late: Outcomes \cup {None, "fix_done", "pr_pending"}]
Authorized == {"intent", "dispatched", "fix_done"}
Finished(row, o) == [row EXCEPT !.phase = "finished", !.outcome = o]

NoTask == [pc |-> "none", result |-> None]
Task == [pc: {"none", "start", "fetch", "stage", "model", "triage", "locate", "locating",
              "localizing", "returned", "prstart", "pr"},
         result: Outcomes \cup {None, "fix_done"}]
InStage == {"stage", "model", "triage", "locating", "localizing"}

NoTick == [pc |-> "idle", todo |-> {}, cur |-> Idle, result |-> None]
Tick == [pc: {"idle", "check", "drain", "walk", "claim", "dispatch", "inline", "inlined", "last"},
         todo: SUBSET Actions, cur: Actions \cup {Idle}, result: Outcomes \cup {None}]

Kind(a) == asked[a].kind
Report(a) == asked[a].report
Running(a) == task[a].pc # "none"
\* Faulty variant: the bound covers only what is dispatched.
OverdueDispatched(a) == a \in overdue /\ ledger[a].phase = "dispatched"

Overdue(a) == a \in overdue /\ ledger[a].phase \in Authorized

Unacked == {a \in Actions : ledger[a].phase = "finished" /\ ledger[a].acked = "no"}

\* No coroutine runs between two statements of another
LoopFree == tick.pc \notin {"dispatch", "inline", "inlined"}

Init ==
    /\ asked \in [Actions -> [kind: Kinds, own: BOOLEAN, paid: BOOLEAN, report: Reports]]
    /\ \A a \in Actions : [kind |-> asked[a].kind, own |-> asked[a].own, paid |-> asked[a].paid] \in Asks
    /\ source = [a \in Actions |-> "pending"]
    /\ ledger = [a \in Actions |-> NoRow]
    /\ overdue = {}
    /\ hold = [a \in Actions |-> "none"]
    /\ task = [a \in Actions |-> NoTask]
    /\ tick = NoTick
    /\ status \in [Reports -> {"triaged", "closed"}]
    /\ triaged \in SUBSET Reports
    /\ rows = [a \in Actions |-> {}]
    /\ imported \in SUBSET Reports
    /\ gate \in BOOLEAN
    /\ calls = [a \in Actions |-> 0] /\ ran = {}
    /\ fetched = [a \in Actions |-> 0] /\ reopened = [a \in Actions |-> 0]
    /\ errors = 0 /\ crashes = 0 /\ edits = 0

-----------------------------------------------------------------------------
(* Slots and the time bound. *)

\* _try_hold: one action of a report, and triage_max_concurrent model actions
MayHold(a, slot) ==
    \/ hold[a] # "none"
    \/ /\ \A b \in Actions : hold[b] # "none" => Report(b) # Report(a)
       /\ slot = "llm" => Cardinality({b \in Actions : hold[b] = "llm"}) < Slots
TryHold(a, slot) ==
    /\ MayHold(a, slot)
    /\ hold' = IF hold[a] = "none" THEN [hold EXCEPT ![a] = slot] ELSE hold
SlotOf(a) == IF Kind(a) \in LlmKinds THEN "llm" ELSE "free"

\* _release
Release(a) == hold' = [hold EXCEPT ![a] = "none"]

\* expire_overdue: every open row whose bound has passed
Expired == [a \in Actions |-> IF Overdue(a) THEN Finished(ledger[a], "timed_out") ELSE ledger[a]]

\* run_tick sweeps every project, also while a manual tick awaits
ExpireSweep ==
    /\ LoopFree /\ \E a \in Actions : Overdue(a)
    /\ ledger' = Expired
    /\ UNCHANGED <<sourceVars, overdue, hold, task, tick, reportVars, gate, historyVars, boundVars>>

\* The clock
BoundPasses(a) ==
    /\ ledger[a].phase \in Authorized /\ a \notin overdue
    /\ overdue' = overdue \cup {a}
    /\ UNCHANGED <<sourceVars, ledger, hold, task, tick, reportVars, gate, historyVars, boundVars>>

-----------------------------------------------------------------------------
(* The tick: sweep, drain, list, handle each listed action, drain again. *)

\* The await that follows is _check_prs (module OpenPr)
StartTick ==
    /\ tick.pc = "idle"
    /\ tick' = [tick EXCEPT !.pc = "check"]
    /\ ledger' = Expired
    /\ UNCHANGED <<sourceVars, overdue, hold, task, reportVars, gate, historyVars, boundVars>>

\* _drain reads the finished, unacknowledged rows
Drain ==
    /\ \/ tick.pc = "check" /\ tick' = [tick EXCEPT !.pc = "drain", !.todo = Unacked]
       \/ tick.pc = "walk" /\ tick.todo = {} /\ tick' = [tick EXCEPT !.pc = "last", !.todo = Unacked]
    /\ UNCHANGED <<sourceVars, ledger, overdue, hold, task, reportVars, gate, historyVars, boundVars>>

\* Faulty variant: the answer 409 is not compared with the outcome.
AnswerUnchecked(a) == "yes"

\* The answer to a terminal POST that is well formed for sonicgrid: 200 from
\* `claimed`, else 409 with the current state, or 404
Answer(a) ==
    IF source[a] = "claimed" \/ source[a] = Posted(ledger[a].outcome) THEN "yes" ELSE "breach"

PostTerminal(a) ==
    /\ tick.pc \in {"drain", "last"} /\ a \in tick.todo
    /\ source' = IF source[a] = "claimed"
                 THEN [source EXCEPT ![a] = Posted(ledger[a].outcome)] ELSE source
    /\ ledger' = [ledger EXCEPT ![a].acked = Answer(a)]
    /\ tick' = [tick EXCEPT !.todo = @ \ {a}]
    /\ UNCHANGED <<asked, overdue, hold, task, reportVars, gate, historyVars, boundVars>>

\* 400: sonicgrid takes nothing, and the row counts as acknowledged all the same
PostRejected(a) ==
    /\ tick.pc \in {"drain", "last"} /\ a \in tick.todo /\ errors < MaxErrors
    /\ errors' = errors + 1
    /\ ledger' = [ledger EXCEPT ![a].acked = "rejected"]
    /\ tick' = [tick EXCEPT !.todo = @ \ {a}]
    /\ UNCHANGED <<sourceVars, overdue, hold, task, reportVars, gate, historyVars, crashes, edits>>

\* A status other than 200, 400, 404 and 409: posted again by a later drain
PostUnanswered(a) ==
    /\ tick.pc \in {"drain", "last"} /\ a \in tick.todo /\ errors < MaxErrors
    /\ errors' = errors + 1
    /\ tick' = [tick EXCEPT !.todo = @ \ {a}]
    /\ UNCHANGED <<sourceVars, ledger, overdue, hold, task, reportVars, gate, historyVars, crashes, edits>>

\* list_actions, every page: what is open at sonicgrid now
ListActions ==
    /\ tick.pc = "drain" /\ tick.todo = {}
    /\ tick' = [tick EXCEPT !.pc = "walk",
                    !.todo = {a \in Actions : source[a] \in {"pending", "claimed"}}]
    /\ UNCHANGED <<sourceVars, ledger, overdue, hold, task, reportVars, gate, historyVars, boundVars>>

\* The push of the results that follows is module ResultPush
EndTick ==
    /\ tick.pc = "last" /\ tick.todo = {}
    /\ tick' = NoTick
    /\ UNCHANGED <<sourceVars, ledger, overdue, hold, task, reportVars, gate, historyVars, boundVars>>

\* _Abort: a request fails, before or after its effect, and ends the tick.
\* The claim's finally releases the slot.
Abort ==
    /\ tick.pc \in {"drain", "walk", "claim", "last"} /\ errors < MaxErrors
    /\ errors' = errors + 1
    /\ \/ UNCHANGED source
       \/ /\ tick.pc = "claim" /\ source[tick.cur] = "pending"
          /\ source' = [source EXCEPT ![tick.cur] = "claimed"]
       \/ /\ tick.pc \in {"drain", "last"}
          /\ \E a \in tick.todo : /\ source[a] = "claimed"
                                  /\ source' = [source EXCEPT ![a] = Posted(ledger[a].outcome)]
    /\ hold' = IF tick.pc = "claim" THEN [hold EXCEPT ![tick.cur] = "none"] ELSE hold
    /\ tick' = NoTick
    /\ UNCHANGED <<asked, ledger, overdue, task, reportVars, gate, historyVars, crashes, edits>>

-----------------------------------------------------------------------------
(* _handle of one listed action. *)

Listed(a) == tick.pc = "walk" /\ a \in tick.todo
Handled(a) == tick' = [tick EXCEPT !.todo = @ \ {a}]
Goto(a, pc) == tick' = [tick EXCEPT !.pc = pc, !.todo = @ \ {a}, !.cur = a]

\* New, or left reserved by an earlier tick: take a slot, then POST `claimed`
Reserve(a) ==
    /\ Listed(a) /\ ~Running(a)
    /\ \/ ledger[a].phase = "none" /\ Report(a) \in imported
       \/ ledger[a].phase = "reserved"
    /\ TryHold(a, SlotOf(a))
    /\ ledger' = [ledger EXCEPT ![a].phase = "reserved"]
    /\ Goto(a, "claim")
    /\ UNCHANGED <<sourceVars, overdue, task, reportVars, gate, historyVars, boundVars>>

\* Not imported, no slot, finished, or running in this process
Skip(a) ==
    /\ Listed(a)
    /\ CASE ledger[a].phase = "none" -> Report(a) \notin imported \/ ~MayHold(a, SlotOf(a))
         [] ledger[a].phase = "finished" -> TRUE
         [] OTHER -> \/ Running(a) /\ a \notin overdue
                     \/ ~Running(a) /\ ledger[a].phase = "reserved" /\ ~MayHold(a, SlotOf(a))
    /\ Handled(a)
    /\ UNCHANGED <<sourceVars, ledger, overdue, hold, task, reportVars, gate, historyVars, boundVars>>

\* Faulty variant: the slot goes with the outcome, while the task still runs.
HandleOverdueReleasing(a) ==
    /\ Listed(a) /\ Overdue(a)
    /\ ledger' = [ledger EXCEPT ![a] = Finished(@, "timed_out")]
    /\ Release(a)
    /\ Handled(a)
    /\ UNCHANGED <<sourceVars, overdue, task, reportVars, gate, historyVars, boundVars>>

\* Running or not, an action past its bound is finished
HandleOverdue(a) ==
    /\ Listed(a) /\ Overdue(a)
    /\ ledger' = [ledger EXCEPT ![a] = Finished(@, "timed_out")]
    /\ Handled(a)
    /\ UNCHANGED <<sourceVars, overdue, hold, task, reportVars, gate, historyVars, boundVars>>

-----------------------------------------------------------------------------
(* _claim_and_start after the answer to POST `claimed`. *)

\* Faulty variant: a pinned action is accepted with the gate off.
MayAuthorizeUngated(a) == Kind(a) = "reopen" => status[Report(a)] = "closed"

\* authorize: a paid kind needs its own key exactly when the gate is on; the
\* status rules; consents, allowlist and freshness are the caller's choice.
MayAuthorize(a) ==
    /\ Kind(a) \in FixKinds => asked[a].own = gate
    /\ Kind(a) = "analyze_local" => ~asked[a].paid
    /\ Kind(a) \in LlmKinds => status[Report(a)] = "triaged"
    /\ Kind(a) = "reopen" => status[Report(a)] = "closed"
    /\ Kind(a) = "close" => status[Report(a)] = "triaged"

MayRefuse(a) == Kind(a) = "reopen" => status[Report(a)] # "closed"

\* Faulty variant: an own key is fetched again.
NoRetryOnEnvKey(a) == asked[a].paid /\ ~asked[a].own

\* no_auto_retry: analyze_cloud on any model, a fix on a paid one (as every
\* own key's is)
NoRetry(a) == Kind(a) = "analyze_cloud" \/ (Kind(a) = "fix_and_open_pr" /\ asked[a].paid)

Intent(a) == [ledger[a] EXCEPT !.phase = "intent", !.noRetry = NoRetry(a),
                               !.own = Kind(a) \in FixKinds /\ gate]

Claimed(a) ==
    /\ tick.pc = "claim" /\ tick.cur = a
    /\ source[a] \in {"pending", "claimed"}
    /\ source' = [source EXCEPT ![a] = "claimed"]

Authorize(a) ==
    /\ Claimed(a) /\ MayAuthorize(a)
    /\ ledger' = [ledger EXCEPT ![a] = Intent(a)]
    /\ tick' = [tick EXCEPT !.pc = "dispatch"]
    /\ UNCHANGED <<asked, overdue, hold, task, reportVars, gate, historyVars, boundVars>>

\* Straight from reserved, so that recovery never runs a refused action
Refuse(a) ==
    /\ Claimed(a) /\ MayRefuse(a)
    /\ ledger' = [ledger EXCEPT ![a] = Finished(@, "refused")]
    /\ Release(a)
    /\ tick' = [tick EXCEPT !.pc = "walk", !.cur = Idle]
    /\ UNCHANGED <<asked, overdue, task, reportVars, gate, historyVars, boundVars>>

\* 404 and 409 drop the reservation
ClaimDenied(a) ==
    /\ tick.pc = "claim" /\ tick.cur = a
    /\ source[a] \notin {"pending", "claimed"}
    /\ ledger' = [ledger EXCEPT ![a] = NoRow]
    /\ Release(a)
    /\ tick' = [tick EXCEPT !.pc = "walk", !.cur = Idle]
    /\ UNCHANGED <<sourceVars, overdue, task, reportVars, gate, historyVars, boundVars>>

\* Any other status: reserved until the next tick
ClaimUnanswered(a) ==
    /\ tick.pc = "claim" /\ tick.cur = a /\ errors < MaxErrors
    /\ errors' = errors + 1
    /\ Release(a)
    /\ tick' = [tick EXCEPT !.pc = "walk", !.cur = Idle]
    /\ UNCHANGED <<sourceVars, ledger, overdue, task, reportVars, gate, historyVars, crashes, edits>>

\* _dispatch: the phase is written, then the task is created; inline kinds
\* run at once
Dispatch(a) ==
    /\ tick.pc = "dispatch" /\ tick.cur = a
    /\ ledger' = [ledger EXCEPT ![a].phase = "dispatched"]
    /\ \/ /\ Kind(a) \in LlmKinds
          /\ task' = [task EXCEPT ![a] = [pc |-> "start", result |-> None]]
          /\ tick' = [tick EXCEPT !.pc = "walk", !.cur = Idle]
       \/ /\ Kind(a) = "open_pr"
          /\ task' = [task EXCEPT ![a] = [pc |-> "prstart", result |-> None]]
          /\ tick' = [tick EXCEPT !.pc = "walk", !.cur = Idle]
       \/ /\ Kind(a) \in InlineKinds
          /\ tick' = [tick EXCEPT !.pc = "inline"]
          /\ UNCHANGED task
    /\ UNCHANGED <<sourceVars, overdue, hold, reportVars, gate, historyVars, boundVars>>

-----------------------------------------------------------------------------
(* Inline kinds. *)

\* set_mode and close: the report first
RunInline(a) ==
    /\ tick.pc = "inline" /\ tick.cur = a /\ Kind(a) # "reopen"
    /\ \/ /\ Kind(a) = "set_mode" /\ UNCHANGED status
          /\ \E o \in {"done", "failed"} : tick' = [tick EXCEPT !.pc = "inlined", !.result = o]
       \/ /\ Kind(a) = "close" /\ status[Report(a)] # "analyzing"
          /\ status' = [status EXCEPT ![Report(a)] = "closed"]
          /\ tick' = [tick EXCEPT !.pc = "inlined", !.result = "done"]
       \/ /\ Kind(a) = "close" /\ status[Report(a)] # "closed" /\ UNCHANGED status
          /\ tick' = [tick EXCEPT !.pc = "inlined", !.result = "refused"]
    /\ UNCHANGED <<sourceVars, ledger, overdue, hold, task, triaged, rows, imported, gate,
                   historyVars, boundVars>>

\* ... then the ledger
FinishInline(a) ==
    /\ tick.pc = "inlined" /\ tick.cur = a
    /\ ledger' = [ledger EXCEPT ![a] = Finished(@, tick.result)]
    /\ Release(a)
    /\ tick' = [tick EXCEPT !.pc = "walk", !.cur = Idle, !.result = None]
    /\ UNCHANGED <<sourceVars, overdue, task, reportVars, gate, historyVars, boundVars>>

\* Faulty variant: reopen commits the report before the ledger.
ReopenedFirst(a) ==
    /\ UNCHANGED <<ledger, hold>>
    /\ tick' = [tick EXCEPT !.pc = "inlined", !.result = "done"]

\* reopen_for_action: the report and the outcome in one transaction
ReopenedAtOnce(a) ==
    /\ ledger' = [ledger EXCEPT ![a] = Finished(@, "done")]
    /\ Release(a)
    /\ tick' = [tick EXCEPT !.pc = "walk", !.cur = Idle]

Reopen(a) ==
    /\ tick.pc = "inline" /\ tick.cur = a /\ Kind(a) = "reopen"
    /\ \/ /\ status[Report(a)] = "closed"
          /\ status' = [status EXCEPT ![Report(a)] = "triaged"]
          /\ reopened' = [reopened EXCEPT ![a] = @ + 1]
          /\ ReopenedAtOnce(a)
       \/ /\ status[Report(a)] # "closed"
          /\ tick' = [tick EXCEPT !.pc = "inlined", !.result = "refused"]
          /\ UNCHANGED <<status, reopened, ledger, hold>>
    /\ UNCHANGED <<sourceVars, overdue, task, triaged, rows, imported, gate, calls, ran, fetched,
                   boundVars>>

-----------------------------------------------------------------------------
(* _recover: a claimed action with a ledger row and no task in this process. *)

Spawn(a, pc) == task' = [task EXCEPT ![a] = [pc |-> pc, result |-> None]]

\* The outcome shown by the finished rows tagged with the action (evidence)
Evidence(a) ==
    CASE "made" \in rows[a] -> IF Kind(a) = "fix_and_open_pr" THEN "fix_done" ELSE "done"
      [] rows[a] = {"failed"} -> "failed"
      [] OTHER -> None

\* Faulty variant: a running action is recovered too.
RecoverableRunning(a) == Listed(a) /\ ledger[a].phase \in Authorized /\ ~Overdue(a)

Recoverable(a) == Listed(a) /\ ~Running(a) /\ ledger[a].phase \in Authorized /\ ~Overdue(a)

\* The PR step is idempotent: run it again
AtPrStep(a) == \/ ledger[a].phase = "fix_done"
               \/ ledger[a].phase = "dispatched" /\ Kind(a) = "open_pr"
RecoverPr(a) ==
    /\ Recoverable(a) /\ AtPrStep(a)
    /\ TryHold(a, "free")
    /\ Spawn(a, "prstart")
    /\ Handled(a)
    /\ UNCHANGED <<sourceVars, ledger, overdue, reportVars, gate, historyVars, boundVars>>

\* So are the inline kinds
AtInline(a) == ledger[a].phase = "dispatched" /\ Kind(a) \in InlineKinds
RecoverInline(a) ==
    /\ Recoverable(a) /\ AtInline(a)
    /\ TryHold(a, "free")
    /\ Goto(a, "inline")
    /\ UNCHANGED <<sourceVars, ledger, overdue, task, reportVars, gate, historyVars, boundVars>>

Unsettled(a) == Recoverable(a) /\ ~AtPrStep(a) /\ ~AtInline(a)

Checkpoint(a) == [ledger[a] EXCEPT !.phase = "fix_done", !.fixed = TRUE]

\* _apply_evidence
RecoverEvidence(a) ==
    /\ Unsettled(a) /\ Evidence(a) # None
    /\ \/ /\ Evidence(a) = "fix_done"
          /\ ledger' = [ledger EXCEPT ![a] = Checkpoint(a)]
          /\ IF MayHold(a, "free") THEN TryHold(a, "free") /\ Spawn(a, "prstart")
                                   ELSE UNCHANGED <<hold, task>>
       \/ /\ Evidence(a) # "fix_done"
          /\ ledger' = [ledger EXCEPT ![a] = Finished(@, Evidence(a))]
          /\ UNCHANGED <<hold, task>>
    /\ Handled(a)
    /\ UNCHANGED <<sourceVars, overdue, reportVars, gate, historyVars, boundVars>>

\* No evidence yet, and nothing holds the report in a stage
Unproved(a) ==
    /\ Unsettled(a) /\ Evidence(a) = None
    /\ ledger[a].phase = "dispatched" => status[Report(a)] # "analyzing"

\* Authorized under the old rules and never dispatched: refused under the new
Drained(a) ==
    ledger[a].phase = "intent" /\ gate /\ Kind(a) \in FixKinds /\ ~ledger[a].own

\* A paid call that may have happened is not repeated
RecoverSettles(a) ==
    /\ Unproved(a)
    /\ \/ Drained(a) /\ ledger' = [ledger EXCEPT ![a] = Finished(@, "refused")]
       \/ /\ ~Drained(a) /\ ledger[a].noRetry
          /\ ledger' = [ledger EXCEPT ![a] = Finished(@, "failed")]
    /\ Handled(a)
    /\ UNCHANGED <<sourceVars, overdue, hold, task, reportVars, gate, historyVars, boundVars>>

Redispatch(a) ==
    /\ Unproved(a) /\ ~Drained(a) /\ ~ledger[a].noRetry
    /\ TryHold(a, SlotOf(a))
    /\ Goto(a, "dispatch")
    /\ UNCHANGED <<sourceVars, ledger, overdue, task, reportVars, gate, historyVars, boundVars>>

\* Another action holds the slot, or a stage holds the report
Wait(a) ==
    /\ \/ Recoverable(a) /\ (AtPrStep(a) \/ AtInline(a)) /\ ~MayHold(a, "free")
       \/ /\ Unsettled(a) /\ Evidence(a) = None
          /\ ledger[a].phase = "dispatched" /\ status[Report(a)] = "analyzing"
       \/ Unproved(a) /\ ~Drained(a) /\ ~ledger[a].noRetry /\ ~MayHold(a, SlotOf(a))
    /\ Handled(a)
    /\ UNCHANGED <<sourceVars, ledger, overdue, hold, task, reportVars, gate, historyVars, boundVars>>

-----------------------------------------------------------------------------
(* _run_task: the model part of an action. *)

At(a, pc) == task[a].pc = pc /\ LoopFree
Step(a, pc) == task' = [task EXCEPT ![a].pc = pc]
Returns(a, o) == task' = [task EXCEPT ![a] = [pc |-> "returned", result |-> o]]
\* A stage's claim on the report, and its release
Takes(a) == status[Report(a)] = "triaged" /\ status' = [status EXCEPT ![Report(a)] = "analyzing"]
Leaves(a) == status' = [status EXCEPT ![Report(a)] = "triaged"]
Tagged(a, row) == rows' = [rows EXCEPT ![a] = @ \cup {row}]

\* _fetch_key: one request, never repeated
RequestKey(a) ==
    /\ At(a, "start") /\ ledger[a].own
    /\ Step(a, "fetch")
    /\ fetched' = [fetched EXCEPT ![a] = @ + 1]
    /\ UNCHANGED <<sourceVars, ledger, overdue, hold, tick, reportVars, gate, calls, ran, reopened, boundVars>>

\* No key: refused, already released, or the answer is lost
KeyRefused(a) ==
    /\ At(a, "fetch")
    /\ \E o \in {"refused", "failed"} : Returns(a, o)
    /\ UNCHANGED <<sourceVars, ledger, overdue, hold, tick, reportVars, gate, historyVars, boundVars>>

\* run_llm on the env key; a paid model only while the gate is off
MayRunFix(a) ==
    /\ Kind(a) \in FixKinds
    /\ \/ At(a, "fetch")
       \/ At(a, "start") /\ ~ledger[a].own /\ ~(gate /\ asked[a].paid)

\* propose_fix: its claim
ClaimFix(a) ==
    /\ MayRunFix(a) /\ Takes(a)
    /\ Step(a, "stage")
    /\ UNCHANGED <<sourceVars, ledger, overdue, hold, tick, triaged, rows, imported, gate,
                   historyVars, boundVars>>

\* The report is not claimed; the legacy refusal of run_llm
NotRun(a) ==
    /\ At(a, "start") \/ At(a, "fetch")
    /\ Kind(a) \in FixKinds /\ (ledger[a].own => At(a, "fetch"))
    /\ Returns(a, "refused")
    /\ UNCHANGED <<sourceVars, ledger, overdue, hold, tick, reportVars, gate, historyVars, boundVars>>

\* Deferred or already proposed; or the files cannot be read
FixDeclined(a) ==
    /\ At(a, "stage")
    /\ Leaves(a)
    /\ \/ Returns(a, "refused") /\ UNCHANGED rows
       \/ Returns(a, "failed") /\ Tagged(a, "failed")
    /\ UNCHANGED <<sourceVars, ledger, overdue, hold, tick, triaged, imported, gate, historyVars, boundVars>>

CallFixModel(a) ==
    /\ At(a, "stage")
    /\ Step(a, "model")
    /\ ran' = ran \cup {a}
    /\ calls' = IF asked[a].paid THEN [calls EXCEPT ![a] = @ + 1] ELSE calls
    /\ UNCHANGED <<sourceVars, ledger, overdue, hold, tick, reportVars, gate, fetched, reopened, boundVars>>

FixAnswered(a) ==
    /\ At(a, "model")
    /\ Leaves(a)
    /\ \/ /\ Returns(a, IF Kind(a) = "fix_and_open_pr" THEN "fix_done" ELSE "done")
          /\ Tagged(a, "made")
       \/ Returns(a, "failed") /\ Tagged(a, "failed")
    /\ UNCHANGED <<sourceVars, ledger, overdue, hold, tick, triaged, imported, gate, historyVars, boundVars>>

\* run_local_analysis: triage first if the report has none. The result at
\* "locate" is what a lost localization claim will be mapped to (map_local).
StartLocal(a) ==
    /\ At(a, "start") /\ Kind(a) = "analyze_local"
    /\ \/ /\ Report(a) \notin triaged /\ Takes(a)
          /\ task' = [task EXCEPT ![a] = [pc |-> "triage", result |-> None]]
          /\ ran' = ran \cup {a}
       \/ /\ Report(a) \in triaged \/ status[Report(a)] # "triaged"
          /\ task' = [task EXCEPT ![a] = [pc |-> "locate", result |-> "refused"]]
          /\ UNCHANGED <<status, ran>>
    /\ UNCHANGED <<sourceVars, ledger, overdue, hold, tick, triaged, rows, imported, gate,
                   calls, fetched, reopened, boundVars>>

TriageAnswered(a) ==
    /\ At(a, "triage")
    /\ Leaves(a)
    /\ \/ triaged' = triaged \cup {Report(a)} /\ UNCHANGED rows
       \/ Tagged(a, "failed") /\ UNCHANGED triaged
    /\ task' = [task EXCEPT ![a] = [pc |-> "locate", result |-> "failed"]]
    /\ UNCHANGED <<sourceVars, ledger, overdue, hold, tick, imported, gate, historyVars, boundVars>>

\* process_localization: its claim, lost when triage asked for clarification
ClaimLocalization(a) ==
    /\ At(a, "locate")
    /\ \/ Takes(a) /\ Step(a, "locating")
       \/ Returns(a, task[a].result) /\ UNCHANGED status
    /\ UNCHANGED <<sourceVars, ledger, overdue, hold, tick, triaged, rows, imported, gate,
                   historyVars, boundVars>>

\* No repository or already fresh; or HEAD cannot be read
LocalizationDeclined(a) ==
    /\ At(a, "locating")
    /\ Leaves(a)
    /\ \E o \in {"refused", "failed"} : Returns(a, o)
    /\ UNCHANGED <<sourceVars, ledger, overdue, hold, tick, triaged, rows, imported, gate,
                   historyVars, boundVars>>

CallLocalModel(a) ==
    /\ At(a, "locating")
    /\ Step(a, "localizing")
    /\ ran' = ran \cup {a}
    /\ UNCHANGED <<sourceVars, ledger, overdue, hold, tick, reportVars, gate, calls, fetched,
                   reopened, boundVars>>

LocalAnswered(a) ==
    /\ At(a, "localizing")
    /\ Leaves(a)
    /\ \/ Returns(a, "done") /\ Tagged(a, "made")
       \/ Returns(a, "failed") /\ Tagged(a, "failed")
    /\ UNCHANGED <<sourceVars, ledger, overdue, hold, tick, triaged, imported, gate, historyVars, boundVars>>

\* The answer becomes the outcome, or is kept beside the timeout's; the task
\* exits and frees its slot.
\* Faulty variant: the slot is kept when the task exits.
ExitsHolding(a, row) ==
    /\ ledger' = [ledger EXCEPT ![a] = row]
    /\ task' = [task EXCEPT ![a] = NoTask]
    /\ UNCHANGED hold

Exits(a, row) ==
    /\ ledger' = [ledger EXCEPT ![a] = row]
    /\ task' = [task EXCEPT ![a] = NoTask]
    /\ Release(a)

\* _expire_if_overdue
Ended(a) == ledger[a].phase = "finished" \/ Overdue(a)
Late(a, o) == [(IF Overdue(a) THEN Finished(ledger[a], "timed_out") ELSE ledger[a]) EXCEPT !.late = o]

\* Faulty variant: the answer is written whatever the ledger says.
AnsweredAnyway(a) ==
    IF task[a].result = "fix_done" THEN Checkpoint(a) ELSE Finished(ledger[a], task[a].result)

AnsweredRow(a) ==
    IF Ended(a) THEN Late(a, task[a].result)
    ELSE IF task[a].result = "fix_done" THEN Checkpoint(a) ELSE Finished(ledger[a], task[a].result)

Return(a) ==
    /\ At(a, "returned")
    /\ IF AnsweredRow(a).phase = "fix_done"
       THEN /\ ledger' = [ledger EXCEPT ![a] = AnsweredRow(a)]
            /\ Spawn(a, "prstart")
            /\ UNCHANGED hold
       ELSE Exits(a, AnsweredRow(a))
    /\ UNCHANGED <<sourceVars, overdue, tick, reportVars, gate, historyVars, boundVars>>

-----------------------------------------------------------------------------
(* _run_pr: the open-pr step. *)

\* Faulty variant: the step starts whatever the ledger says.
MayStartPrAlways(a) == TRUE

\* The row is still at the step, and within its bound
MayStartPr(a) == ~Ended(a)

StartPr(a) ==
    /\ At(a, "prstart")
    /\ \/ MayStartPr(a) /\ Step(a, "pr") /\ UNCHANGED <<ledger, hold>>
       \/ ~MayStartPr(a) /\ Exits(a, Expired[a])
    /\ UNCHANGED <<sourceVars, overdue, tick, reportVars, gate, historyVars, boundVars>>

\* pr_step: done, refused, in progress, or a failure under the attempt cap
PrAnswered(a, o, attempts) ==
    /\ At(a, "pr")
    /\ Exits(a, IF Ended(a) THEN Late(a, o)
                ELSE IF o = "pr_pending" THEN [ledger[a] EXCEPT !.attempts = attempts]
                ELSE Finished(ledger[a], o))
    /\ UNCHANGED <<sourceVars, overdue, tick, reportVars, gate, historyVars, boundVars>>

\* Faulty variant: the cap is never reached.
PrFailureUncapped(a) == "pr_pending"

PrFailure(a) == IF ledger[a].attempts + 1 < PrAttempts THEN "pr_pending" ELSE "failed"

PrAnswers(a) ==
    \/ \E o \in {"done", "refused", "pr_pending"} : PrAnswered(a, o, ledger[a].attempts)
    \/ PrAnswered(a, PrFailure(a), ledger[a].attempts + 1)

-----------------------------------------------------------------------------
(* The rest of the world. *)

\* The queue worker and the Analyze route, in the same process
WorkerClaims(r) ==
    /\ LoopFree /\ r \in Busy /\ status[r] = "triaged"
    /\ status' = [status EXCEPT ![r] = "analyzing"]
    /\ UNCHANGED <<sourceVars, ledger, overdue, hold, task, tick, triaged, rows, imported, gate,
                   historyVars, boundVars>>

WorkerHolds(r) == status[r] = "analyzing" /\ ~\E a \in Actions : Report(a) = r /\ task[a].pc \in InStage
WorkerReleases(r) ==
    /\ LoopFree /\ WorkerHolds(r)
    /\ status' = [status EXCEPT ![r] = "triaged"]
    /\ UNCHANGED <<sourceVars, ledger, overdue, hold, task, tick, triaged, rows, imported, gate,
                   historyVars, boundVars>>

UserCloses(r) ==
    /\ status[r] = "triaged" /\ edits < MaxEdits
    /\ status' = [status EXCEPT ![r] = "closed"]
    /\ edits' = edits + 1
    /\ UNCHANGED <<sourceVars, ledger, overdue, hold, task, tick, triaged, rows, imported, gate,
                   historyVars, errors, crashes>>

Import(r) ==
    /\ r \notin imported
    /\ imported' = imported \cup {r}
    /\ UNCHANGED <<sourceVars, ledger, overdue, hold, task, tick, status, triaged, rows, gate,
                   historyVars, boundVars>>

\* The action is gone at sonicgrid (404), or was given to somebody else (409)
Withdraw(a) ==
    /\ source[a] \in {"pending", "claimed"} /\ edits < MaxEdits
    /\ source' = [source EXCEPT ![a] = "gone"]
    /\ edits' = edits + 1
    /\ UNCHANGED <<asked, ledger, overdue, hold, task, tick, reportVars, gate, historyVars, errors, crashes>>

\* A crash, or stop_triage_sync; start-up rolls stage claims back before any
\* loop starts, and the gate may have been switched.
CrashRestart ==
    /\ crashes < MaxCrashes
    /\ crashes' = crashes + 1
    /\ hold' = [a \in Actions |-> "none"]
    /\ task' = [a \in Actions |-> NoTask]
    /\ tick' = NoTick
    /\ status' = [r \in Reports |-> IF status[r] = "analyzing" THEN "triaged" ELSE status[r]]
    /\ gate' \in BOOLEAN
    /\ UNCHANGED <<sourceVars, ledger, overdue, triaged, rows, imported, historyVars, errors, edits>>

-----------------------------------------------------------------------------

TickStep ==
    \/ StartTick \/ Drain \/ ListActions \/ EndTick \/ ExpireSweep
    \/ \E a \in Actions :
         \/ PostTerminal(a) \/ Reserve(a) \/ Skip(a) \/ HandleOverdue(a)
         \/ Authorize(a) \/ Refuse(a) \/ ClaimDenied(a) \/ Dispatch(a)
         \/ RunInline(a) \/ FinishInline(a) \/ Reopen(a)
         \/ RecoverPr(a) \/ RecoverInline(a) \/ RecoverEvidence(a)
         \/ RecoverSettles(a) \/ Redispatch(a) \/ Wait(a)

TaskStep(a) ==
    \/ RequestKey(a) \/ KeyRefused(a) \/ ClaimFix(a) \/ NotRun(a) \/ FixDeclined(a)
    \/ CallFixModel(a) \/ FixAnswered(a)
    \/ StartLocal(a) \/ TriageAnswered(a) \/ ClaimLocalization(a)
    \/ LocalizationDeclined(a) \/ CallLocalModel(a) \/ LocalAnswered(a)
    \/ Return(a) \/ StartPr(a) \/ PrAnswers(a)

Fault ==
    \/ Abort \/ CrashRestart
    \/ \E a \in Actions : PostRejected(a) \/ PostUnanswered(a) \/ ClaimUnanswered(a) \/ Withdraw(a)

World ==
    \/ \E a \in Actions : BoundPasses(a)
    \/ \E r \in Reports : WorkerClaims(r) \/ WorkerReleases(r) \/ UserCloses(r) \/ Import(r)

Next == TickStep \/ (\E a \in Actions : TaskStep(a)) \/ Fault \/ World

Spec == Init /\ [][Next]_vars

\* The loop ticks every few seconds (a backoff skips a bounded number of
\* ticks); every HTTP request of a tick or task has a timeout, and so has a
\* model call; time goes on. Nothing is assumed of users or sonicgrid.
FairSpec ==
    /\ Spec
    /\ WF_vars(TickStep)
    /\ \A a \in Actions : WF_vars(TaskStep(a)) /\ WF_vars(BoundPasses(a))
    /\ \A r \in Reports : WF_vars(Import(r))
-----------------------------------------------------------------------------
(* Properties. *)

\* Types; the attempts of a PR step never pass the cap.
TypeOK ==
    /\ asked \in [Actions -> [kind: Kinds, own: BOOLEAN, paid: BOOLEAN, report: Reports]]
    /\ source \in [Actions -> {"pending", "claimed", "gone"} \cup Told]
    /\ ledger \in [Actions -> LedgerRow]
    /\ overdue \in SUBSET Actions
    /\ hold \in [Actions -> {"none", "free", "llm"}]
    /\ task \in [Actions -> Task]
    /\ tick \in Tick
    /\ status \in [Reports -> {"triaged", "analyzing", "closed"}]
    /\ triaged \in SUBSET Reports
    /\ rows \in [Actions -> SUBSET {"made", "failed"}]
    /\ imported \in SUBSET Reports
    /\ gate \in BOOLEAN
    /\ calls \in [Actions -> Nat] /\ ran \in SUBSET Actions
    /\ fetched \in [Actions -> Nat] /\ reopened \in [Actions -> Nat]
    /\ errors \in Nat /\ crashes \in Nat /\ edits \in Nat

\* Over crashes, restarts, lost answers and time bounds, an action makes at
\* most one paid model call and asks for the requester's key at most once
\* (no_auto_retry; _fetch_key, "one release per action").
PaidOnce == \A a \in Actions : calls[a] <= 1 /\ fetched[a] <= 1

\* A slot is given back only when its task has exited, also after the time
\* bound has decided the outcome: two tasks never work for one report, and at
\* most triage_max_concurrent run models.
SlotsRespected ==
    /\ \A a, b \in Actions : Running(a) /\ Running(b) /\ Report(a) = Report(b) => a = b
    /\ Cardinality({a \in Actions : Running(a) /\ task[a].pc \notin {"prstart", "pr"}
                                              /\ Kind(a) \in LlmKinds}) <= Slots

\* An answer is kept as late only beside a timeout: an action whose outcome
\* was decided by recovery or by its own answer has no other answer.
LateOnlyAfterTimeout == \A a \in Actions : ledger[a].late # None => ledger[a].outcome = "timed_out"

\* A reopen action has reopened its report exactly once if it is `done`, and
\* never otherwise: a crash neither replays it nor loses its outcome
\* (reopen_for_action).
ReopenedOnce ==
    \A a \in Actions : reopened[a] = (IF Kind(a) = "reopen" /\ ledger[a].outcome = "done" THEN 1 ELSE 0)

\* What an acknowledgement records is what sonicgrid has, whatever answers
\* were lost: without an error our outcome, with that of a 404 or 409 nothing
\* it still waits for. Only a 400 is acknowledged while sonicgrid may wait, and
\* never leaves it with another outcome than ours (_drain).
AckMatchesSource ==
    \A a \in Actions :
        /\ ledger[a].acked = "yes" => source[a] = Posted(ledger[a].outcome)
        /\ ledger[a].acked = "breach" => source[a] = "gone"
        /\ ledger[a].acked = "rejected" =>
               source[a] \in {"claimed", "gone", Posted(ledger[a].outcome)}

\* A paid call is made on the requester's key if the action pins it, and only
\* on it while per-user keys are on, whenever the gate was switched
\* (per-user-cloud-keys.md, I1).
KeyOfPaidCall ==
    [][\A a \in Actions : calls'[a] # calls[a] => ledger[a].own = asked[a].own /\ (gate => ledger[a].own)]_vars

\* The open-pr step of an action starts only while its outcome is open, and
\* that of fix_and_open_pr only with a proposal tagged by this action.
NoPrAfterOutcome ==
    [][\A a \in Actions : task[a].pc # "pr" /\ task'[a].pc = "pr" =>
          /\ ledger[a].outcome = None /\ source[a] \notin Told
          /\ Kind(a) = "fix_and_open_pr" => "made" \in rows[a]]_vars

\* What sync/actions.py says of `refused`: "the step did not run; it spent
\* nothing and wrote nothing" (a compound action's fix step apart).
RefusedDidNotRun ==
    \A a \in Actions : ledger[a].outcome = "refused" /\ ~ledger[a].fixed => a \notin ran

\* Every action claimed at sonicgrid gets its terminal state there or is
\* withdrawn, whatever became of its task, its process or the answers, unless
\* sonicgrid answered its terminal POST with 400: then the ledger says so, and
\* nothing is posted again (_drain, "surfaced on the status endpoint").
ClaimedIsSettled ==
    \A a \in Actions :
        source[a] = "claimed" ~> source[a] # "claimed" \/ ledger[a].acked = "rejected"

\* Every slot is given back.
SlotsFreed == \A a \in Actions : hold[a] # "none" ~> hold[a] = "none"

\* The promise made to sonicgrid
Outcome == INSTANCE ActionOutcome WITH
    works   <- [a \in Actions |-> Kind(a) \in LlmKinds],
    outcome <- [a \in Actions |-> Posted(ledger[a].outcome)],
    told    <- [a \in Actions |-> IF source[a] \in Told THEN source[a] ELSE None],
    paid    <- calls,
    made    <- [a \in Actions |-> "made" \in rows[a]]

\* Sync implements it.
ImplementsOutcome == Outcome!Spec
=============================================================================
