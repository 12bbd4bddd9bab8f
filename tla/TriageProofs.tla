---------------------------- MODULE TriageProofs ----------------------------
(***************************************************************************)
(* Theorems about TriageSync: types, the one paid call, the acknowledged   *)
(* outcome, the one reopen, the slots, and that sync implements the        *)
(* promise of ActionOutcome, for every number of actions, reports, slots,  *)
(* crashes and failures.                                                   *)
(***************************************************************************)
EXTENDS TriageSync, FiniteSetTheorems, TLAPS

-----------------------------------------------------------------------------
(* The invariant of one action. *)

\* A decided outcome is kept, told as decided, and known to be decided: the
\* row is finished exactly when it has an outcome, and sonicgrid has no other.
\* Only what is finished is acknowledged, whatever the answer was.
DecidedInv(a) ==
    /\ ledger[a].phase = "finished" <=> ledger[a].outcome # None
    /\ ledger[a].late # None => ledger[a].outcome = "timed_out"
    /\ source[a] = "pending" => ledger[a].phase \in {"none", "reserved"}
    /\ source[a] \in Told => ledger[a].phase = "finished" /\ source[a] = Posted(ledger[a].outcome)
    /\ ledger[a].acked = "yes" => ledger[a].phase = "finished" /\ source[a] = Posted(ledger[a].outcome)
    /\ ledger[a].acked = "breach" => ledger[a].phase = "finished" /\ source[a] = "gone"
    /\ ledger[a].acked = "rejected" => ledger[a].phase = "finished"

\* A task works for an action that is dispatched, at its PR step, or timed out;
\* what it was authorized for is still in the row.
RunningInv(a) ==
    /\ Running(a) => \/ ledger[a].phase \in {"dispatched", "fix_done"}
                     \/ ledger[a].outcome = "timed_out"
    /\ Running(a) => Kind(a) \notin InlineKinds
    /\ Running(a) /\ task[a].pc \notin {"prstart", "pr"} => Kind(a) \in LlmKinds
    /\ ledger[a].phase \in Authorized \/ Running(a) =>
          /\ ledger[a].noRetry = NoRetry(a)
          /\ ledger[a].own <=> Kind(a) \in FixKinds /\ asked[a].own

\* Paid calls and credential requests: none before the dispatch, none for a row
\* that may be dispatched again, one after it.
PaidInv(a) ==
    /\ asked[a].own => asked[a].paid
    /\ calls[a] <= 1 /\ fetched[a] <= 1
    /\ calls[a] # 0 => Kind(a) \in FixKinds
    /\ calls[a] # 0 \/ fetched[a] # 0 =>
          /\ ledger[a].phase \notin {"none", "reserved", "intent"}
          /\ ledger[a].noRetry
    /\ task[a].pc \in {"start", "fetch", "stage"} => calls[a] = 0
    /\ task[a].pc = "start" => fetched[a] = 0
    /\ task[a].pc = "fetch" => ledger[a].own
    /\ task[a].pc \in {"fetch", "stage", "model"} => Kind(a) \in FixKinds
    /\ task[a].pc = "stage" /\ asked[a].paid /\ gate => ledger[a].own

\* The work behind an answer: `done` and the PR step of a fix have their row,
\* and a refused action has spent nothing.
MadeInv(a) ==
    /\ rows[a] # {} => Kind(a) \in LlmKinds
    /\ ledger[a].phase = "fix_done" => Kind(a) = "fix_and_open_pr" /\ "made" \in rows[a]
    /\ task[a].pc \in {"prstart", "pr"} =>
          Kind(a) = "open_pr" \/ (Kind(a) = "fix_and_open_pr" /\ "made" \in rows[a])
    /\ task[a].pc \in {"triage", "locate", "locating", "localizing"} => Kind(a) = "analyze_local"
    /\ task[a].pc = "locate" => task[a].result \in {"refused", "failed"}
    /\ task[a].pc = "returned" =>
          /\ task[a].result \in {"done", "failed", "refused", "fix_done"}
          /\ task[a].result \in {"done", "fix_done"} => "made" \in rows[a]
          /\ task[a].result = "fix_done" => Kind(a) = "fix_and_open_pr"
          /\ task[a].result = "refused" => calls[a] = 0

\* A report is reopened with the outcome `done`, and by nothing else.
ReopenedInv(a) ==
    reopened[a] = IF Kind(a) = "reopen" /\ ledger[a].outcome = "done" THEN 1 ELSE 0

ActionInv(a) == DecidedInv(a) /\ RunningInv(a) /\ PaidInv(a) /\ MadeInv(a) /\ ReopenedInv(a)

\* What the tick has in its hands.
TickInv ==
    /\ tick.pc \in {"drain", "last"} => \A a \in tick.todo : ledger[a].phase = "finished"
    /\ tick.pc \in {"claim", "dispatch", "inline", "inlined"} =>
          tick.cur \in Actions /\ ~Running(tick.cur)
    /\ tick.pc = "claim" => ledger[tick.cur].phase = "reserved"
    /\ tick.pc = "dispatch" =>
          /\ ledger[tick.cur].phase \in {"intent", "dispatched"}
          /\ calls[tick.cur] = 0 /\ fetched[tick.cur] = 0
    /\ tick.pc \in {"inline", "inlined"} =>
          Kind(tick.cur) \in InlineKinds /\ ledger[tick.cur].phase = "dispatched"
    /\ tick.pc = "inlined" =>
          /\ tick.result \in {"done", "failed", "refused"}
          /\ Kind(tick.cur) = "reopen" => tick.result = "refused"

Inv == TypeOK /\ (\A a \in Actions : ActionInv(a)) /\ TickInv

\* A slot belongs to a task, or to the action in the tick's hands.
InHand(a) == tick.pc \in {"claim", "dispatch", "inline", "inlined"} /\ tick.cur = a
HandInv ==
    /\ \A a \in Actions : hold[a] # "none" => Running(a) \/ InHand(a)
    /\ \A a \in Actions : Running(a) => hold[a] # "none"
    /\ \A a \in Actions : Running(a) /\ task[a].pc \notin {"prstart", "pr"} => hold[a] = "llm"
    /\ tick.pc \in {"claim", "dispatch"} => hold[tick.cur] = SlotOf(tick.cur)

\* A report has one, and the model actions have at most Slots.
LlmHolders == {a \in Actions : hold[a] = "llm"}
ShareInv ==
    /\ \A a, b \in Actions : hold[a] # "none" /\ hold[b] # "none" /\ Report(a) = Report(b) => a = b
    /\ IsFiniteSet(LlmHolders) /\ Cardinality(LlmHolders) <= Slots

SlotInv == HandInv /\ ShareInv

-----------------------------------------------------------------------------
(* Types. *)

LEMMA RowTypes ==
    ASSUME TypeOK, NEW a \in Actions
    PROVE  /\ ledger[a] \in LedgerRow /\ NoRow \in LedgerRow
           /\ task[a] \in Task /\ NoTask \in Task /\ NoTick \in Tick
           /\ \A o \in Outcomes : Finished(ledger[a], o) \in LedgerRow
           /\ Intent(a) \in LedgerRow /\ Checkpoint(a) \in LedgerRow
           /\ asked[a] \in [kind: Kinds, own: BOOLEAN, paid: BOOLEAN, report: Reports]
           /\ Kind(a) \in Kinds /\ Report(a) \in Reports
<1>1. /\ ledger[a] \in LedgerRow /\ task[a] \in Task /\ gate \in BOOLEAN
      /\ asked[a] \in [kind: Kinds, own: BOOLEAN, paid: BOOLEAN, report: Reports]
  BY DEF TypeOK
<1>2. PrAttempts \in Nat /\ 0 \in 0 .. PrAttempts
  BY TriageAssumption
<1>3. NoRow \in LedgerRow
  BY <1>2 DEF NoRow, LedgerRow, Acks
<1>4. NoTask \in Task /\ NoTick \in Tick
  BY DEF NoTask, Task, NoTick, Tick
<1>5. \A o \in Outcomes : Finished(ledger[a], o) \in LedgerRow
  BY <1>1 DEF Finished, LedgerRow
<1>6. Intent(a) \in LedgerRow
  BY <1>1 DEF Intent, LedgerRow, NoRetry
<1>7. Checkpoint(a) \in LedgerRow
  BY <1>1 DEF Checkpoint, LedgerRow
<1>8. QED
  BY <1>1, <1>3, <1>4, <1>5, <1>6, <1>7 DEF Kind, Report

LEMMA FinishedRow ==
    ASSUME TypeOK, NEW a \in Actions, NEW o
    PROVE  /\ Finished(ledger[a], o).phase = "finished" /\ Finished(ledger[a], o).outcome = o
           /\ Finished(ledger[a], o).noRetry = ledger[a].noRetry
           /\ Finished(ledger[a], o).own = ledger[a].own
           /\ Finished(ledger[a], o).acked = ledger[a].acked
           /\ Finished(ledger[a], o).late = ledger[a].late
<1>1. ledger[a] \in LedgerRow
  BY DEF TypeOK
<1>2. QED
  BY <1>1 DEF Finished, LedgerRow

-----------------------------------------------------------------------------
(* One action at a time. *)

\* What the invariant of action a is about, apart from its row, task and source.
SameWork(a) ==
    /\ asked' = asked /\ gate' = gate /\ rows'[a] = rows[a]
    /\ calls'[a] = calls[a] /\ fetched'[a] = fetched[a] /\ reopened'[a] = reopened[a]

\* An action the step does not touch
Untouched(a) ==
    /\ SameWork(a)
    /\ source'[a] = source[a] /\ ledger'[a] = ledger[a] /\ task'[a] = task[a]

LEMMA UntouchedActs ==
    ASSUME NEW a, ActionInv(a), Untouched(a)
    PROVE  ActionInv(a)'
<1> USE DEF Untouched, SameWork, Kind
<1>1. DecidedInv(a)'
  BY DEF ActionInv, DecidedInv
<1>2. RunningInv(a)'
  BY DEF ActionInv, RunningInv, Running, NoRetry
<1>3. PaidInv(a)'
  BY DEF ActionInv, PaidInv
<1>4. MadeInv(a)'
  BY DEF ActionInv, MadeInv
<1>5. ReopenedInv(a)'
  BY DEF ActionInv, ReopenedInv
<1>6. QED
  BY <1>1, <1>2, <1>3, <1>4, <1>5 DEF ActionInv

LEMMA OneActs ==
    ASSUME \A b \in Actions : ActionInv(b), NEW a \in Actions, ActionInv(a)',
           \A b \in Actions \ {a} : Untouched(b)
    PROVE  \A b \in Actions : ActionInv(b)'
<1>1. \A b \in Actions \ {a} : ActionInv(b)'
  BY UntouchedActs
<1>2. QED
  BY <1>1

\* An open action: nothing is decided, kept as late, acknowledged or told.
LEMMA OpenRow ==
    ASSUME TypeOK, NEW a \in Actions, ActionInv(a), ledger[a].phase # "finished"
    PROVE  /\ ledger[a].outcome = None /\ ledger[a].late = None /\ ledger[a].acked = "no"
           /\ source[a] \notin Told /\ None \notin Outcomes
<1>1. ledger[a].acked \in Acks
  BY RowTypes DEF LedgerRow
<1>2. None \notin Outcomes
  BY TriageAssumption DEF Outcomes
<1>3. QED
  BY <1>1, <1>2 DEF ActionInv, DecidedInv, Outcomes, Acks

\* A row is finished by its bound, or once its task, if any, has exited.
LEMMA FinishActs ==
    ASSUME TypeOK, NEW a \in Actions, ActionInv(a), SameWork(a), NEW o \in Outcomes,
           ledger[a].phase \in Authorized \cup {"reserved"},
           ledger'[a].phase = "finished", ledger'[a].outcome = o,
           ledger'[a].noRetry = ledger[a].noRetry, ledger'[a].own = ledger[a].own,
           ledger'[a].acked = ledger[a].acked,
           ledger'[a].late = ledger[a].late \/ o = "timed_out",
           task'[a] \in {task[a], NoTask},
           o = "timed_out" \/ ~Running(a)',
           Kind(a) = "reopen" => o # "done",
           \/ source'[a] = source[a]
           \/ source[a] \in {"pending", "claimed"} /\ source'[a] = "claimed",
           source'[a] # "pending"
    PROVE  ActionInv(a)'
<1>1. /\ ledger[a].outcome = None /\ ledger[a].late = None /\ ledger[a].acked = "no"
      /\ source[a] \notin Told /\ source'[a] \notin Told /\ o # None
  BY OpenRow DEF Authorized, Told
<1>2. NoTask.pc = "none"
  BY DEF NoTask
<1>3. DecidedInv(a)'
  BY <1>1 DEF DecidedInv
<1>4. RunningInv(a)'
  BY <1>2 DEF ActionInv, RunningInv, SameWork, Running, Authorized, Kind, NoRetry
<1>5. PaidInv(a)'
  BY <1>2 DEF ActionInv, PaidInv, SameWork, Authorized, Kind
<1>6. MadeInv(a)'
  BY <1>2 DEF ActionInv, MadeInv, SameWork, Authorized, Kind
<1>7. ReopenedInv(a)'
  <2>1. reopened[a] = 0
    BY <1>1, TriageAssumption DEF ActionInv, ReopenedInv
  <2>2. QED
    BY <2>1 DEF ReopenedInv, SameWork, Kind
<1>8. QED
  BY <1>3, <1>4, <1>5, <1>6, <1>7 DEF ActionInv

\* A row that stays where it is, while its task may exit.
LEMMA KeepActs ==
    ASSUME TypeOK, NEW a \in Actions, ActionInv(a), SameWork(a), source'[a] = source[a],
           ledger'[a].phase = ledger[a].phase, ledger'[a].outcome = ledger[a].outcome,
           ledger'[a].noRetry = ledger[a].noRetry, ledger'[a].own = ledger[a].own,
           ledger'[a].acked = ledger[a].acked,
           ledger'[a].late = ledger[a].late \/ ledger[a].outcome = "timed_out",
           task'[a] \in {task[a], NoTask}
    PROVE  ActionInv(a)'
<1>1. NoTask.pc = "none"
  BY DEF NoTask
<1>2. DecidedInv(a)'
  BY DEF ActionInv, DecidedInv
<1>3. RunningInv(a)'
  BY <1>1 DEF ActionInv, RunningInv, SameWork, Running, Kind, NoRetry
<1>4. PaidInv(a)'
  BY <1>1 DEF ActionInv, PaidInv, SameWork, Kind
<1>5. MadeInv(a)'
  BY <1>1 DEF ActionInv, MadeInv, SameWork, Kind
<1>6. ReopenedInv(a)'
  BY DEF ActionInv, ReopenedInv, SameWork, Kind
<1>7. QED
  BY <1>2, <1>3, <1>4, <1>5, <1>6 DEF ActionInv

\* A source that answers, while the row is not decided by it.
LEMMA SourceActs ==
    ASSUME TypeOK, NEW a \in Actions, ActionInv(a), SameWork(a),
           ledger'[a] = ledger[a], task'[a] = task[a],
           \/ source'[a] = source[a]
           \/ source[a] = "pending" /\ source'[a] = "claimed"
           \/ source[a] \in {"pending", "claimed"} /\ source'[a] = "gone"
           \/ /\ source[a] = "claimed" /\ ledger[a].phase = "finished"
              /\ source'[a] = Posted(ledger[a].outcome)
    PROVE  ActionInv(a)'
<1>1. ledger[a].phase = "finished" => Posted(ledger[a].outcome) \in Told
  <2>1. ledger[a].outcome \in Outcomes \cup {None}
    BY RowTypes DEF LedgerRow
  <2>2. ledger[a].phase = "finished" => ledger[a].outcome # None
    BY DEF ActionInv, DecidedInv
  <2>3. QED
    BY <2>1, <2>2 DEF Outcomes, Posted, Told
<1>2. DecidedInv(a)'
  BY <1>1 DEF ActionInv, DecidedInv, Told, Posted
<1>3. RunningInv(a)'
  BY DEF ActionInv, RunningInv, SameWork, Running, Kind, NoRetry
<1>4. PaidInv(a)'
  BY DEF ActionInv, PaidInv, SameWork, Kind
<1>5. MadeInv(a)'
  BY DEF ActionInv, MadeInv, SameWork, Kind
<1>6. ReopenedInv(a)'
  BY DEF ActionInv, ReopenedInv, SameWork, Kind
<1>7. QED
  BY <1>2, <1>3, <1>4, <1>5, <1>6 DEF ActionInv

-----------------------------------------------------------------------------
(* The tick's hands. *)

\* Others do not take away what the tick holds.
LEMMA TickKept ==
    ASSUME Inv, tick' = tick, asked' = asked,
           \A b \in Actions : ledger[b].phase = "finished" => ledger'[b].phase = "finished",
           \A b \in Actions : ~Running(b) /\ ledger[b].phase = "reserved" =>
              ~Running(b)' /\ ledger'[b].phase = "reserved",
           LoopFree
    PROVE  TickInv'
<1>1. tick.pc \notin {"dispatch", "inline", "inlined"} /\ tick \in Tick
  BY DEF LoopFree, Inv, TypeOK
<1>2. tick.todo \subseteq Actions
  BY <1>1 DEF Tick
<1>3. QED
  BY <1>1, <1>2 DEF Inv, TickInv

\* Steps that leave every action as it is
StillActions == UNCHANGED <<asked, source, ledger, task, rows, gate, calls, fetched, reopened>>

LEMMA StillActs ==
    ASSUME Inv, StillActions PROVE \A a \in Actions : ActionInv(a)'
<1>1. \A a \in Actions : Untouched(a)
  BY DEF StillActions, Untouched, SameWork
<1>2. QED
  BY <1>1, UntouchedActs DEF Inv

LEMMA StillTick ==
    ASSUME Inv, StillActions,
           \/ tick'.pc \in {"idle", "check", "walk"}
           \/ /\ tick'.pc \in {"drain", "last"}
              /\ \A a \in tick'.todo : ledger[a].phase = "finished"
           \/ tick' = tick
    PROVE  TickInv'
<1>1. CASE tick' = tick
  BY <1>1 DEF StillActions, Inv, TickInv, Running, Kind
<1>2. CASE tick' # tick
  BY <1>2 DEF StillActions, TickInv
<1>3. QED
  BY <1>1, <1>2

\* The tick moves on without touching an action.
LEMMA MovesInv ==
    ASSUME Inv, Drain \/ ListActions \/ EndTick
                  \/ \E a \in Actions : Skip(a) \/ Wait(a)
    PROVE  Inv'
<1> USE DEF sourceVars, reportVars, historyVars, boundVars
<1>1. StillActions /\ UNCHANGED <<overdue, hold, status, triaged, imported, ran, errors, crashes, edits>>
  BY DEF Drain, ListActions, EndTick, Skip, Wait, StillActions
<1>2. tick \in Tick /\ Unacked \subseteq Actions
  BY DEF Inv, TypeOK, Unacked
<1>3. tick' \in Tick
  <2>1. CASE Drain
    BY <1>2, <2>1 DEF Drain, Tick
  <2>2. CASE ListActions
    BY <1>2, <2>2 DEF ListActions, Tick
  <2>3. CASE EndTick
    BY <2>3 DEF EndTick, Tick, NoTick
  <2>4. CASE \E a \in Actions : Skip(a) \/ Wait(a)
    BY <1>2, <2>4 DEF Skip, Wait, Handled, Tick
  <2>5. QED
    BY <2>1, <2>2, <2>3, <2>4
<1>4. \/ tick'.pc \in {"idle", "check", "walk"}
      \/ tick'.pc \in {"drain", "last"} /\ \A a \in tick'.todo : ledger[a].phase = "finished"
  <2>1. CASE Drain
    <3>1. tick'.pc \in {"drain", "last"} /\ tick'.todo = Unacked
      BY <1>2, <2>1 DEF Drain, Tick
    <3>2. QED
      BY <3>1 DEF Unacked
  <2>2. CASE ListActions
    BY <1>2, <2>2 DEF ListActions, Tick
  <2>3. CASE EndTick
    BY <2>3 DEF EndTick, NoTick
  <2>4. CASE \E a \in Actions : Skip(a) \/ Wait(a)
    BY <1>2, <2>4 DEF Skip, Wait, Recoverable, Unsettled, Unproved, Listed, Handled, Tick
  <2>5. QED
    BY <2>1, <2>2, <2>3, <2>4
<1>5. TypeOK'
  BY <1>1, <1>3 DEF StillActions, Inv, TypeOK
<1>6. QED
  BY <1>1, <1>4, <1>5, StillActs, StillTick DEF Inv

LEMMA UnpostedInv ==
    ASSUME Inv, NEW a \in Actions, PostUnanswered(a)
    PROVE  Inv'
<1> USE DEF sourceVars, reportVars, historyVars
<1>1. StillActions /\ UNCHANGED <<overdue, hold, status, triaged, imported, ran, crashes, edits>>
  BY DEF PostUnanswered, StillActions
<1>2. errors' \in Nat /\ tick \in Tick
  BY DEF PostUnanswered, Inv, TypeOK
<1>3. tick' \in Tick /\ tick'.pc \in {"drain", "last"} /\ tick.pc \in {"drain", "last"}
      /\ tick'.todo \subseteq tick.todo
  BY <1>2 DEF PostUnanswered, Tick
<1>4. \A b \in tick'.todo : ledger[b].phase = "finished"
  BY <1>3 DEF Inv, TickInv
<1>5. TypeOK'
  BY <1>1, <1>2, <1>3 DEF StillActions, Inv, TypeOK
<1>6. QED
  BY <1>1, <1>3, <1>4, <1>5, StillActs, StillTick DEF Inv

\* The clock, the queue worker, users and the import
LEMMA WorldInv ==
    ASSUME Inv, World
    PROVE  Inv'
<1> USE DEF sourceVars, reportVars, historyVars, boundVars
<1>1. StillActions /\ tick' = tick /\ UNCHANGED <<hold, triaged, ran, errors, crashes>>
  BY DEF World, BoundPasses, WorkerClaims, WorkerReleases, UserCloses, Import, StillActions
<1>2. /\ overdue' \in SUBSET Actions /\ imported' \in SUBSET Reports /\ edits' \in Nat
      /\ status' \in [Reports -> {"triaged", "analyzing", "closed"}]
  BY DEF Inv, TypeOK, World, BoundPasses, WorkerClaims, WorkerReleases, UserCloses, Import
<1>3. TypeOK'
  BY <1>1, <1>2 DEF StillActions, Inv, TypeOK
<1>4. QED
  BY <1>1, <1>3, StillActs, StillTick DEF Inv

\* The sweep of the time bound
LEMMA ExpiredActs ==
    ASSUME Inv, ledger' = Expired,
           UNCHANGED <<asked, source, task, rows, gate, calls, fetched, reopened>>
    PROVE  /\ \A a \in Actions : ActionInv(a)'
           /\ ledger' \in [Actions -> LedgerRow]
           /\ \A a \in Actions : \/ ledger'[a] = ledger[a]
                                 \/ /\ ledger[a].phase \in Authorized
                                    /\ ledger'[a] = Finished(ledger[a], "timed_out")
<1>1. \A a \in Actions : \/ ledger'[a] = ledger[a]
                         \/ /\ ledger[a].phase \in Authorized
                            /\ ledger'[a] = Finished(ledger[a], "timed_out")
  BY DEF Expired, Overdue
<1>2. ledger' \in [Actions -> LedgerRow]
  BY RowTypes DEF Inv, Expired, Outcomes
<1>3. ASSUME NEW a \in Actions PROVE ActionInv(a)'
  <2>1. SameWork(a) /\ source'[a] = source[a] /\ task'[a] = task[a] /\ ActionInv(a) /\ TypeOK
    BY DEF SameWork, Inv
  <2>2. CASE ledger'[a] = ledger[a]
    BY <2>1, <2>2, UntouchedActs DEF Untouched
  <2>3. CASE ledger[a].phase \in Authorized /\ ledger'[a] = Finished(ledger[a], "timed_out")
    <3>1. /\ ledger'[a].phase = "finished" /\ ledger'[a].outcome = "timed_out"
          /\ ledger'[a].noRetry = ledger[a].noRetry /\ ledger'[a].own = ledger[a].own
          /\ ledger'[a].acked = ledger[a].acked /\ ledger'[a].late = ledger[a].late
      BY <2>3, FinishedRow DEF Inv
    <3>2. source[a] # "pending"
      BY <2>1, <2>3 DEF ActionInv, DecidedInv, Authorized
    <3>3. "timed_out" \in Outcomes
      BY DEF Outcomes
    <3>4. QED
      BY <2>1, <2>3, <3>1, <3>2, <3>3, FinishActs
  <2>4. QED
    BY <1>1, <2>2, <2>3
<1>4. QED
  BY <1>1, <1>2, <1>3

LEMMA ExpiryInv ==
    ASSUME Inv, ExpireSweep \/ StartTick
    PROVE  Inv'
<1> USE DEF sourceVars, reportVars, historyVars, boundVars
<1>1. /\ ledger' = Expired
      /\ UNCHANGED <<asked, source, task, rows, gate, calls, fetched, reopened, overdue, hold,
                     status, triaged, imported, ran, errors, crashes, edits>>
  BY DEF ExpireSweep, StartTick
<1>2. /\ \A a \in Actions : ActionInv(a)'
      /\ ledger' \in [Actions -> LedgerRow]
      /\ \A a \in Actions : \/ ledger'[a] = ledger[a]
                            \/ /\ ledger[a].phase \in Authorized
                               /\ ledger'[a] = Finished(ledger[a], "timed_out")
  BY <1>1, ExpiredActs
<1>3. CASE ExpireSweep
  <2>1. tick' = tick /\ LoopFree
    BY <1>3 DEF ExpireSweep
  <2>2. \A a \in Actions : ledger[a].phase \in {"finished", "reserved"} => ledger'[a] = ledger[a]
    BY <1>2 DEF Authorized
  <2>3. TickInv'
    BY <1>1, <2>1, <2>2, TickKept DEF Running
  <2>4. TypeOK'
    BY <1>1, <1>2, <2>1 DEF Inv, TypeOK
  <2>5. QED
    BY <1>2, <2>3, <2>4 DEF Inv
<1>4. CASE StartTick
  <2>1. tick' \in Tick /\ tick'.pc = "check"
    BY <1>4 DEF StartTick, Inv, TypeOK, Tick
  <2>2. TypeOK'
    BY <1>1, <1>2, <2>1 DEF Inv, TypeOK
  <2>3. TickInv'
    BY <2>1 DEF TickInv
  <2>4. QED
    BY <1>2, <2>2, <2>3 DEF Inv
<1>5. QED
  BY <1>3, <1>4

-----------------------------------------------------------------------------
(* Sonicgrid, failures and crashes. *)

\* A state sonicgrid may take
LEMMA ToldTypes ==
    ASSUME Inv, NEW a \in Actions, ledger[a].phase = "finished"
    PROVE  Posted(ledger[a].outcome) \in Told
<1>1. ledger[a].outcome \in Outcomes \cup {None}
  BY RowTypes DEF LedgerRow, Inv
<1>2. ledger[a].outcome # None
  BY DEF Inv, ActionInv, DecidedInv
<1>3. QED
  BY <1>1, <1>2 DEF Outcomes, Posted, Told

LEMMA PostInv ==
    ASSUME Inv, NEW a \in Actions, PostTerminal(a) \/ PostRejected(a)
    PROVE  Inv'
<1> USE DEF sourceVars, reportVars, historyVars, boundVars
<1> DEFINE ack == IF PostRejected(a) THEN "rejected" ELSE Answer(a)
           row == [ledger[a] EXCEPT !.acked = ack]
<1>1. /\ tick.pc \in {"drain", "last"} /\ ledger[a].phase = "finished"
      /\ tick \in Tick /\ ledger[a] \in LedgerRow /\ ActionInv(a)
      /\ ack \in {"rejected", Answer(a)} /\ ack \in Acks
  BY RowTypes DEF PostTerminal, PostRejected, Inv, TypeOK, TickInv, Answer, Acks
<1>2. /\ row \in LedgerRow /\ row.phase = "finished" /\ row.outcome = ledger[a].outcome
      /\ row.noRetry = ledger[a].noRetry /\ row.own = ledger[a].own
      /\ row.late = ledger[a].late /\ row.acked = ack
  <2> HIDE DEF ack
  <2>1. QED
    BY <1>1 DEF LedgerRow
<1>3. ledger' = [ledger EXCEPT ![a] = row] /\ ledger' \in [Actions -> LedgerRow] /\ ledger'[a] = row
  <2>1. ledger' = [ledger EXCEPT ![a] = row] /\ ledger \in [Actions -> LedgerRow]
    BY DEF PostTerminal, PostRejected, Inv, TypeOK
  <2> HIDE DEF row
  <2>2. QED
    BY <1>2, <2>1
<1>4. /\ source' \in [Actions -> {"pending", "claimed", "gone"} \cup Told]
      /\ \A b \in Actions \ {a} : source'[b] = source[b]
      /\ \/ source'[a] = source[a] /\ ack = "rejected"
         \/ /\ ack = Answer(a)
            /\ source'[a] = IF source[a] = "claimed" THEN Posted(ledger[a].outcome) ELSE source[a]
  <2>1. CASE PostRejected(a)
    BY <2>1 DEF PostRejected, Inv, TypeOK
  <2>2. CASE ~PostRejected(a)
    BY <1>1, <2>2, ToldTypes DEF PostTerminal, Inv, TypeOK
  <2>3. QED
    BY <2>1, <2>2
<1> HIDE DEF row, ack
<1>5. tick' \in Tick /\ tick'.pc = tick.pc /\ tick'.todo \subseteq tick.todo
  BY <1>1 DEF PostTerminal, PostRejected, Tick
<1>6. TypeOK'
  <2>1. UNCHANGED <<asked, overdue, hold, task, reportVars, gate, historyVars, crashes, edits>>
        /\ errors' \in {errors, errors + 1}
    BY DEF PostTerminal, PostRejected
  <2>2. errors' \in Nat
    BY <2>1 DEF Inv, TypeOK
  <2>3. ledger' \in [Actions -> LedgerRow] /\ tick' \in Tick
        /\ source' \in [Actions -> {"pending", "claimed", "gone"} \cup Told]
    BY <1>3, <1>4, <1>5
  <2>4. QED
    BY <2>1, <2>2, <2>3 DEF Inv, TypeOK
<1>7. TickInv'
  <2>1. \A b \in tick.todo : ledger[b].phase = "finished" /\ b \in Actions
    BY <1>1 DEF Inv, TickInv, Tick
  <2>2. \A b \in tick'.todo : ledger'[b].phase = "finished"
    BY <1>2, <1>3, <1>5, <2>1 DEF Inv, TypeOK
  <2>3. QED
    BY <1>1, <1>5, <2>2 DEF TickInv
<1>8. ActionInv(a)'
  <2>1. SameWork(a) /\ task'[a] = task[a]
    BY DEF PostTerminal, PostRejected, SameWork
  <2>2. DecidedInv(a)'
    <3>1. Posted(ledger[a].outcome) \in Told /\ source[a] \in {"pending", "claimed", "gone"} \cup Told
      BY <1>1, ToldTypes DEF Inv, TypeOK
    <3>2. QED
      BY <1>1, <1>2, <1>3, <1>4, <3>1 DEF ActionInv, DecidedInv, Answer, Told
  <2>3. RunningInv(a)'
    BY <1>1, <1>2, <1>3, <2>1 DEF ActionInv, RunningInv, SameWork, Running, Kind, NoRetry
  <2>4. PaidInv(a)'
    BY <1>1, <1>2, <1>3, <2>1 DEF ActionInv, PaidInv, SameWork, Kind
  <2>5. MadeInv(a)'
    BY <1>1, <1>2, <1>3, <2>1 DEF ActionInv, MadeInv, SameWork, Kind
  <2>6. ReopenedInv(a)'
    BY <1>1, <1>2, <1>3, <2>1 DEF ActionInv, ReopenedInv, SameWork, Kind
  <2>7. QED
    BY <2>2, <2>3, <2>4, <2>5, <2>6 DEF ActionInv
<1>9. \A b \in Actions \ {a} : Untouched(b)
  BY <1>3, <1>4 DEF PostTerminal, PostRejected, Untouched, SameWork, Inv, TypeOK
<1>10. QED
  BY <1>6, <1>7, <1>8, <1>9, OneActs DEF Inv

\* The actions after a step that leaves rows, tasks and work alone
LEMMA SourcesActs ==
    ASSUME Inv, UNCHANGED <<asked, ledger, task, rows, gate, calls, fetched, reopened>>,
           \A a \in Actions :
             \/ source'[a] = source[a]
             \/ source[a] = "pending" /\ source'[a] = "claimed"
             \/ source[a] \in {"pending", "claimed"} /\ source'[a] = "gone"
             \/ /\ source[a] = "claimed" /\ ledger[a].phase = "finished"
                /\ source'[a] = Posted(ledger[a].outcome)
    PROVE  \A a \in Actions : ActionInv(a)'
<1>1. \A a \in Actions : SameWork(a)
  BY DEF SameWork
<1>2. QED
  BY <1>1, SourceActs DEF Inv

LEMMA AbortInv ==
    ASSUME Inv, Abort
    PROVE  Inv'
<1> DEFINE Moved(a) ==
        \/ source'[a] = source[a]
        \/ source[a] = "pending" /\ source'[a] = "claimed"
        \/ /\ source[a] = "claimed" /\ ledger[a].phase = "finished"
           /\ source'[a] = Posted(ledger[a].outcome)
<1>1. \A a \in Actions : Moved(a)
  <2>1. source \in [Actions -> {"pending", "claimed", "gone"} \cup Told] /\ tick \in Tick
    BY DEF Inv, TypeOK
  <2>2. CASE source' = source
    BY <2>2
  <2>3. CASE source[tick.cur] = "pending" /\ source' = [source EXCEPT ![tick.cur] = "claimed"]
    BY <2>1, <2>3
  <2>4. ASSUME tick.pc \in {"drain", "last"}, NEW a \in tick.todo, source[a] = "claimed",
               source' = [source EXCEPT ![a] = Posted(ledger[a].outcome)]
        PROVE  \A b \in Actions : Moved(b)
    <3>1. ledger[a].phase = "finished"
      BY <2>4 DEF Inv, TickInv
    <3>2. \A b \in Actions : b # a => source'[b] = source[b]
      BY <2>1, <2>4
    <3>3. a \in Actions => source'[a] = Posted(ledger[a].outcome)
      BY <2>1, <2>4
    <3>4. QED
      BY <2>4, <3>1, <3>2, <3>3
  <2>5. \/ source' = source
        \/ source[tick.cur] = "pending" /\ source' = [source EXCEPT ![tick.cur] = "claimed"]
        \/ /\ tick.pc \in {"drain", "last"}
           /\ \E a \in tick.todo : /\ source[a] = "claimed"
                                   /\ source' = [source EXCEPT ![a] = Posted(ledger[a].outcome)]
    BY DEF Abort
  <2>6. QED
    BY <2>2, <2>3, <2>4, <2>5
<1>2. /\ UNCHANGED <<asked, ledger, task, rows, gate, calls, fetched, reopened, overdue, status,
                     triaged, imported, ran, crashes, edits>>
      /\ tick' = NoTick
  BY DEF Abort, reportVars, historyVars
<1>3. TickInv'
  BY <1>2 DEF TickInv, NoTick
<1>4. \A a \in Actions : ActionInv(a)'
  BY <1>1, <1>2, SourcesActs
<1>5. source' \in [Actions -> {"pending", "claimed", "gone"} \cup Told]
  BY ToldTypes DEF Abort, Inv, TickInv, TypeOK, Tick
<1>6. hold' \in [Actions -> {"none", "free", "llm"}] /\ errors' \in Nat
  <2>1. hold \in [Actions -> {"none", "free", "llm"}] /\ errors \in Nat
    BY DEF Inv, TypeOK
  <2>2. errors' = errors + 1 /\ hold' \in {hold, [hold EXCEPT ![tick.cur] = "none"]}
    BY DEF Abort
  <2>3. QED
    BY <2>1, <2>2
<1>7. NoTick \in Tick
  BY DEF NoTick, Tick
<1>8. TypeOK'
  BY <1>2, <1>5, <1>6, <1>7 DEF Inv, TypeOK
<1>9. QED
  BY <1>3, <1>4, <1>8 DEF Inv

LEMMA WithdrawInv ==
    ASSUME Inv, NEW a \in Actions, Withdraw(a)
    PROVE  Inv'
<1> USE DEF reportVars, historyVars
<1>1. /\ source[a] \in {"pending", "claimed"} /\ source' = [source EXCEPT ![a] = "gone"]
      /\ source \in [Actions -> {"pending", "claimed", "gone"} \cup Told] /\ edits' \in Nat
  BY DEF Withdraw, Inv, TypeOK
<1>2. UNCHANGED <<asked, ledger, task, rows, gate, calls, fetched, reopened, overdue, hold, tick,
                  status, triaged, imported, ran, errors, crashes>>
  BY DEF Withdraw
<1>3. \A b \in Actions : \/ source'[b] = source[b]
                         \/ source[b] \in {"pending", "claimed"} /\ source'[b] = "gone"
  BY <1>1
<1>4. TickInv'
  BY <1>2 DEF Inv, TickInv, Running, Kind
<1>5. TypeOK'
  BY <1>1, <1>2 DEF Inv, TypeOK
<1>6. QED
  BY <1>2, <1>3, <1>4, <1>5, SourcesActs DEF Inv

LEMMA UnansweredInv ==
    ASSUME Inv, NEW a \in Actions, ClaimUnanswered(a)
    PROVE  Inv'
<1> USE DEF sourceVars, reportVars, historyVars
<1>1. StillActions /\ UNCHANGED <<overdue, status, triaged, imported, ran, crashes, edits>>
  BY DEF ClaimUnanswered, StillActions
<1>2. hold' \in [Actions -> {"none", "free", "llm"}] /\ errors' \in Nat
  BY DEF ClaimUnanswered, Release, Inv, TypeOK
<1>3. tick' \in Tick /\ tick'.pc = "walk"
  BY DEF ClaimUnanswered, Inv, TypeOK, Tick
<1>4. TypeOK'
  BY <1>1, <1>2, <1>3 DEF StillActions, Inv, TypeOK
<1>5. QED
  BY <1>1, <1>3, <1>4, StillActs, StillTick DEF Inv

LEMMA CrashInv ==
    ASSUME Inv, CrashRestart
    PROVE  Inv'
<1>1. /\ UNCHANGED <<asked, source, ledger, overdue, triaged, rows, imported, calls, ran, fetched,
                     reopened, errors, edits>>
      /\ tick' = NoTick /\ \A a \in Actions : task'[a] = NoTask
  BY DEF CrashRestart, sourceVars, historyVars
<1>2. NoTask.pc = "none" /\ NoTask \in Task /\ NoTick.pc = "idle" /\ NoTick \in Tick
  BY DEF NoTask, Task, NoTick, Tick
<1>3. ASSUME NEW a \in Actions PROVE ActionInv(a)'
  <2>1. task'[a].pc = "none" /\ ActionInv(a)
    BY <1>1, <1>2 DEF Inv
  <2>2. DecidedInv(a)'
    BY <1>1, <2>1 DEF ActionInv, DecidedInv
  <2>3. RunningInv(a)'
    BY <1>1, <2>1 DEF ActionInv, RunningInv, Running, Kind, NoRetry
  <2>4. PaidInv(a)'
    BY <1>1, <2>1 DEF ActionInv, PaidInv, Kind
  <2>5. MadeInv(a)'
    BY <1>1, <2>1 DEF ActionInv, MadeInv, Kind
  <2>6. ReopenedInv(a)'
    BY <1>1, <2>1 DEF ActionInv, ReopenedInv, Kind
  <2>7. QED
    BY <2>2, <2>3, <2>4, <2>5, <2>6 DEF ActionInv
<1>4. TickInv'
  BY <1>1, <1>2 DEF TickInv
<1>5. /\ hold' \in [Actions -> {"none", "free", "llm"}] /\ crashes' \in Nat /\ gate' \in BOOLEAN
      /\ task' \in [Actions -> Task]
      /\ status' \in [Reports -> {"triaged", "analyzing", "closed"}]
  BY <1>2 DEF CrashRestart, Inv, TypeOK
<1>6. TypeOK'
  BY <1>1, <1>2, <1>5 DEF Inv, TypeOK
<1>7. QED
  BY <1>3, <1>4, <1>6 DEF Inv

-----------------------------------------------------------------------------
(* The tick takes up an action. *)

\* A row that stays open
LEMMA OpenActs ==
    ASSUME TypeOK, NEW a \in Actions, ActionInv(a), SameWork(a),
           ledger[a].phase # "finished", ledger'[a].phase # "finished",
           ledger'[a].outcome = ledger[a].outcome, ledger'[a].late = ledger[a].late,
           ledger'[a].acked = ledger[a].acked,
           \/ source'[a] = source[a]
           \/ source[a] \in {"pending", "claimed"} /\ source'[a] = "claimed",
           source'[a] = "pending" => ledger'[a].phase \in {"none", "reserved"}
    PROVE  DecidedInv(a)' /\ ReopenedInv(a)'
<1>1. /\ ledger[a].outcome = None /\ ledger[a].late = None /\ ledger[a].acked = "no"
      /\ source[a] \notin Told
  BY OpenRow
<1>2. source'[a] \notin Told
  BY <1>1 DEF Told
<1>3. DecidedInv(a)'
  BY <1>1, <1>2 DEF DecidedInv
<1>4. ReopenedInv(a)'
  BY DEF ActionInv, ReopenedInv, SameWork, Kind
<1>5. QED
  BY <1>3, <1>4

\* Before its intent an action has no task and has spent nothing.
LEMMA Unspent ==
    ASSUME TypeOK, NEW a \in Actions, ActionInv(a), ledger[a].phase \in {"none", "reserved"}
    PROVE  ~Running(a) /\ calls[a] = 0 /\ fetched[a] = 0
<1>1. ledger[a].outcome # "timed_out"
  BY OpenRow DEF Outcomes
<1>2. QED
  BY <1>1 DEF ActionInv, RunningInv, PaidInv

LEMMA PhaseRow ==
    ASSUME TypeOK, NEW a \in Actions,
           NEW p \in {"none", "reserved", "intent", "dispatched", "fix_done", "finished"}
    PROVE  LET row == [ledger[a] EXCEPT !.phase = p] IN
           /\ row \in LedgerRow /\ row.phase = p /\ row.outcome = ledger[a].outcome
           /\ row.noRetry = ledger[a].noRetry /\ row.own = ledger[a].own
           /\ row.acked = ledger[a].acked /\ row.late = ledger[a].late
<1>1. ledger[a] \in LedgerRow
  BY DEF TypeOK
<1>2. QED
  BY <1>1 DEF LedgerRow

LEMMA ReserveInv ==
    ASSUME Inv, NEW a \in Actions, Reserve(a)
    PROVE  Inv'
<1> USE DEF sourceVars, reportVars, historyVars, boundVars
<1> DEFINE row == [ledger[a] EXCEPT !.phase = "reserved"]
<1>1. /\ row \in LedgerRow /\ row.phase = "reserved" /\ row.outcome = ledger[a].outcome
      /\ row.noRetry = ledger[a].noRetry /\ row.own = ledger[a].own
      /\ row.acked = ledger[a].acked /\ row.late = ledger[a].late
  BY PhaseRow DEF Inv
<1>2. ledger' = [ledger EXCEPT ![a] = row] /\ ledger \in [Actions -> LedgerRow]
  BY DEF Reserve, Inv, TypeOK
<1> HIDE DEF row
<1>3. /\ ledger' \in [Actions -> LedgerRow] /\ ledger'[a] = row
      /\ \A b \in Actions \ {a} : ledger'[b] = ledger[b]
  BY <1>1, <1>2
<1>4. UNCHANGED <<asked, source, task, rows, gate, calls, fetched, reopened, overdue, status,
                  triaged, imported, ran, errors, crashes, edits>>
  BY DEF Reserve
<1>5. hold' \in [Actions -> {"none", "free", "llm"}]
  BY DEF Reserve, TryHold, SlotOf, Inv, TypeOK
<1>6. tick' \in Tick /\ tick'.pc = "claim" /\ tick'.cur = a
  BY DEF Reserve, Goto, Inv, TypeOK, Tick
<1>7. TypeOK'
  BY <1>3, <1>4, <1>5, <1>6 DEF Inv, TypeOK
<1>8. /\ TypeOK /\ ActionInv(a) /\ SameWork(a) /\ ~Running(a) /\ task'[a] = task[a]
      /\ ledger[a].phase \in {"none", "reserved"} /\ calls[a] = 0 /\ fetched[a] = 0
  BY <1>4, Unspent DEF Reserve, Inv, SameWork
<1>9. ActionInv(a)'
  <2>1. DecidedInv(a)' /\ ReopenedInv(a)'
    BY <1>1, <1>3, <1>4, <1>8, OpenActs
  <2>2. RunningInv(a)'
    BY <1>1, <1>3, <1>8 DEF RunningInv, Running, Authorized
  <2>3. PaidInv(a)'
    BY <1>8 DEF ActionInv, PaidInv, SameWork, Running, Kind
  <2>4. MadeInv(a)'
    BY <1>1, <1>3, <1>8 DEF ActionInv, MadeInv, SameWork, Kind
  <2>5. QED
    BY <2>1, <2>2, <2>3, <2>4 DEF ActionInv
<1>10. TickInv'
  BY <1>1, <1>3, <1>6, <1>8 DEF TickInv, Running
<1>11. \A b \in Actions \ {a} : Untouched(b)
  BY <1>3, <1>4 DEF Untouched, SameWork
<1>12. QED
  BY <1>7, <1>9, <1>10, <1>11, OneActs DEF Inv

\* A row is finished by the tick: by its bound, or of an action without a task.
LEMMA FinishInv ==
    ASSUME Inv, NEW a \in Actions, NEW o \in Outcomes,
           ledger' = [ledger EXCEPT ![a] = Finished(ledger[a], o)],
           ledger[a].phase \in Authorized \cup {"reserved"},
           o = "timed_out" \/ ~Running(a),
           Kind(a) = "reopen" => o # "done",
           \/ source' = source
           \/ source[a] \in {"pending", "claimed"} /\ source' = [source EXCEPT ![a] = "claimed"],
           source'[a] # "pending",
           hold' \in [Actions -> {"none", "free", "llm"}],
           tick' \in Tick, tick'.pc = "walk",
           UNCHANGED <<asked, task, rows, gate, calls, fetched, reopened, overdue, status,
                       triaged, imported, ran, errors, crashes, edits>>
    PROVE  Inv'
<1> DEFINE row == Finished(ledger[a], o)
<1>1. /\ row \in LedgerRow /\ row.phase = "finished" /\ row.outcome = o
      /\ row.noRetry = ledger[a].noRetry /\ row.own = ledger[a].own
      /\ row.acked = ledger[a].acked /\ row.late = ledger[a].late
  <2>1. row \in LedgerRow
    BY RowTypes DEF Inv
  <2>2. QED
    BY <2>1, FinishedRow DEF Inv
<1> HIDE DEF row
<1>2. /\ ledger' \in [Actions -> LedgerRow] /\ ledger'[a] = row
      /\ \A b \in Actions \ {a} : ledger'[b] = ledger[b]
  BY <1>1 DEF Inv, TypeOK, row
<1>3. /\ source' \in [Actions -> {"pending", "claimed", "gone"} \cup Told]
      /\ \A b \in Actions \ {a} : source'[b] = source[b]
      /\ \/ source'[a] = source[a]
         \/ source[a] \in {"pending", "claimed"} /\ source'[a] = "claimed"
  BY DEF Inv, TypeOK
<1>4. TypeOK'
  BY <1>2, <1>3 DEF Inv, TypeOK
<1>5. TypeOK /\ ActionInv(a) /\ SameWork(a) /\ task'[a] = task[a] /\ (~Running(a) => ~Running(a)')
  BY DEF Inv, SameWork, Running
<1>6. ActionInv(a)'
  BY <1>1, <1>2, <1>3, <1>5, FinishActs
<1>7. TickInv'
  BY DEF TickInv
<1>8. \A b \in Actions \ {a} : Untouched(b)
  BY <1>2, <1>3 DEF Untouched, SameWork
<1>9. QED
  BY <1>4, <1>6, <1>7, <1>8, OneActs DEF Inv

LEMMA OverdueInv ==
    ASSUME Inv, NEW a \in Actions, HandleOverdue(a)
    PROVE  Inv'
<1> USE DEF sourceVars, reportVars, historyVars, boundVars
<1>1. /\ ledger' = [ledger EXCEPT ![a] = Finished(ledger[a], "timed_out")]
      /\ ledger[a].phase \in Authorized
      /\ UNCHANGED <<asked, source, task, rows, gate, calls, fetched, reopened, overdue, hold,
                     status, triaged, imported, ran, errors, crashes, edits>>
  BY DEF HandleOverdue, Overdue, Inv, TypeOK
<1>2. tick' \in Tick /\ tick'.pc = "walk"
  BY DEF HandleOverdue, Listed, Handled, Inv, TypeOK, Tick
<1>3. source[a] # "pending"
  BY <1>1 DEF Inv, ActionInv, DecidedInv, Authorized
<1>4. hold' \in [Actions -> {"none", "free", "llm"}]
  BY <1>1 DEF Inv, TypeOK
<1>5. "timed_out" \in Outcomes /\ "timed_out" # "done"
  BY DEF Outcomes
<1>6. QED
  BY <1>1, <1>2, <1>3, <1>4, <1>5, FinishInv

LEMMA RefuseInv ==
    ASSUME Inv, NEW a \in Actions, Refuse(a)
    PROVE  Inv'
<1> USE DEF reportVars, historyVars, boundVars
<1>1. tick.pc = "claim" /\ tick.cur = a /\ tick \in Tick
  BY DEF Refuse, Claimed, Inv, TypeOK
<1>2. ledger[a].phase = "reserved" /\ ~Running(a)
  BY <1>1 DEF Inv, TickInv
<1>3. /\ ledger' = [ledger EXCEPT ![a] = Finished(ledger[a], "refused")]
      /\ source[a] \in {"pending", "claimed"} /\ source' = [source EXCEPT ![a] = "claimed"]
      /\ UNCHANGED <<asked, task, rows, gate, calls, fetched, reopened, overdue, status,
                     triaged, imported, ran, errors, crashes, edits>>
  BY DEF Refuse, Claimed, Inv, TypeOK
<1>4. source'[a] # "pending"
  BY <1>3 DEF Inv, TypeOK
<1>5. hold' \in [Actions -> {"none", "free", "llm"}]
  BY DEF Refuse, Release, Inv, TypeOK
<1>6. tick' \in Tick /\ tick'.pc = "walk"
  BY <1>1 DEF Refuse, Tick
<1>7. "refused" \in Outcomes /\ "refused" # "done"
  BY DEF Outcomes
<1>8. QED
  BY <1>2, <1>3, <1>4, <1>5, <1>6, <1>7, FinishInv

LEMMA SettlesInv ==
    ASSUME Inv, NEW a \in Actions, RecoverSettles(a)
    PROVE  Inv'
<1> USE DEF sourceVars, reportVars, historyVars, boundVars
<1>1. /\ ~Running(a) /\ ledger[a].phase \in Authorized /\ tick.pc = "walk"
      /\ UNCHANGED <<asked, source, task, rows, gate, calls, fetched, reopened, overdue, hold,
                     status, triaged, imported, ran, errors, crashes, edits>>
  BY DEF RecoverSettles, Unproved, Unsettled, Recoverable, Listed
<1>2. PICK o \in {"refused", "failed"} : ledger' = [ledger EXCEPT ![a] = Finished(ledger[a], o)]
  BY DEF RecoverSettles, Inv, TypeOK
<1>3. tick' \in Tick /\ tick'.pc = "walk"
  BY <1>1 DEF RecoverSettles, Handled, Inv, TypeOK, Tick
<1>4. source[a] # "pending"
  BY <1>1 DEF Inv, ActionInv, DecidedInv, Authorized
<1>5. hold' \in [Actions -> {"none", "free", "llm"}]
  BY <1>1 DEF Inv, TypeOK
<1>6. o \in Outcomes /\ o # "done"
  BY DEF Outcomes
<1>7. QED
  BY <1>1, <1>2, <1>3, <1>4, <1>5, <1>6, FinishInv

LEMMA FinishInlineInv ==
    ASSUME Inv, NEW a \in Actions, FinishInline(a)
    PROVE  Inv'
<1> USE DEF sourceVars, reportVars, historyVars, boundVars
<1>1. tick.pc = "inlined" /\ tick.cur = a /\ tick \in Tick
  BY DEF FinishInline, Inv, TypeOK
<1>2. /\ ledger[a].phase = "dispatched" /\ ~Running(a)
      /\ tick.result \in {"done", "failed", "refused"}
      /\ Kind(a) = "reopen" => tick.result = "refused"
  BY <1>1 DEF Inv, TickInv
<1>3. /\ ledger' = [ledger EXCEPT ![a] = Finished(ledger[a], tick.result)]
      /\ UNCHANGED <<asked, source, task, rows, gate, calls, fetched, reopened, overdue, status,
                     triaged, imported, ran, errors, crashes, edits>>
  BY DEF FinishInline, Inv, TypeOK
<1>4. source[a] # "pending"
  BY <1>2 DEF Inv, ActionInv, DecidedInv
<1>5. hold' \in [Actions -> {"none", "free", "llm"}]
  BY DEF FinishInline, Release, Inv, TypeOK
<1>6. tick' \in Tick /\ tick'.pc = "walk"
  BY <1>1 DEF FinishInline, Tick
<1>7. tick.result \in Outcomes /\ ledger[a].phase \in Authorized
  BY <1>2 DEF Outcomes, Authorized
<1>8. QED
  BY <1>2, <1>3, <1>4, <1>5, <1>6, <1>7, FinishInv

LEMMA AuthorizeInv ==
    ASSUME Inv, NEW a \in Actions, Authorize(a)
    PROVE  Inv'
<1> USE DEF reportVars, historyVars, boundVars
<1>1. tick.pc = "claim" /\ tick.cur = a /\ tick \in Tick
  BY DEF Authorize, Claimed, Inv, TypeOK
<1>2. ledger[a].phase = "reserved" /\ ActionInv(a) /\ TypeOK /\ MayAuthorize(a)
  BY <1>1 DEF Inv, TickInv, Authorize
<1>3. /\ source[a] \in {"pending", "claimed"} /\ source' = [source EXCEPT ![a] = "claimed"]
      /\ UNCHANGED <<asked, task, rows, gate, calls, fetched, reopened, overdue, hold, status,
                     triaged, imported, ran, errors, crashes, edits>>
  BY DEF Authorize, Claimed
<1> DEFINE row == Intent(a)
<1>4. /\ row \in LedgerRow /\ row.phase = "intent" /\ row.outcome = ledger[a].outcome
      /\ row.noRetry = NoRetry(a) /\ row.own = (Kind(a) \in FixKinds /\ gate)
      /\ row.acked = ledger[a].acked /\ row.late = ledger[a].late
  <2>1. row \in LedgerRow /\ ledger[a] \in LedgerRow
    BY <1>2, RowTypes
  <2>2. QED
    BY <2>1 DEF Intent, LedgerRow
<1>5. ledger' = [ledger EXCEPT ![a] = row] /\ ledger \in [Actions -> LedgerRow]
  BY DEF Authorize, Inv, TypeOK
<1> HIDE DEF row
<1>6. /\ ledger' \in [Actions -> LedgerRow] /\ ledger'[a] = row
      /\ \A b \in Actions \ {a} : ledger'[b] = ledger[b]
  BY <1>4, <1>5
<1>7. /\ source' \in [Actions -> {"pending", "claimed", "gone"} \cup Told] /\ source'[a] = "claimed"
      /\ \A b \in Actions \ {a} : source'[b] = source[b]
  BY <1>3 DEF Inv, TypeOK
<1>8. tick' \in Tick /\ tick'.pc = "dispatch" /\ tick'.cur = a
  BY <1>1 DEF Authorize, Tick
<1>9. TypeOK'
  BY <1>3, <1>6, <1>7, <1>8 DEF Inv, TypeOK
<1>10. SameWork(a) /\ ~Running(a) /\ task'[a] = task[a] /\ calls[a] = 0 /\ fetched[a] = 0
  BY <1>2, <1>3, Unspent DEF SameWork
<1>11. ActionInv(a)'
  <2>1. DecidedInv(a)' /\ ReopenedInv(a)'
    BY <1>2, <1>3, <1>4, <1>6, <1>7, <1>10, OpenActs
  <2>2. RunningInv(a)'
    <3>1. gate \in BOOLEAN /\ asked[a].own \in BOOLEAN /\ ledger[a].own \in BOOLEAN
      BY RowTypes DEF Inv, TypeOK, LedgerRow
    <3>2. row.own <=> Kind(a) \in FixKinds /\ asked[a].own
      BY <1>2, <1>4, <3>1 DEF MayAuthorize
    <3>3. NoRetry(a)' = NoRetry(a) /\ Kind(a)' = Kind(a) /\ asked' = asked /\ ~Running(a)'
      BY <1>3, <1>10 DEF NoRetry, Kind, Running
    <3>4. QED
      BY <1>4, <1>6, <3>2, <3>3 DEF RunningInv, Running
  <2>3. PaidInv(a)'
    BY <1>2, <1>10 DEF ActionInv, PaidInv, SameWork, Running, Kind
  <2>4. MadeInv(a)'
    BY <1>2, <1>4, <1>6, <1>10 DEF ActionInv, MadeInv, SameWork, Kind
  <2>5. QED
    BY <2>1, <2>2, <2>3, <2>4 DEF ActionInv
<1>12. TickInv'
  BY <1>3, <1>4, <1>6, <1>8, <1>10 DEF TickInv, Running
<1>13. \A b \in Actions \ {a} : Untouched(b)
  BY <1>3, <1>6, <1>7 DEF Untouched, SameWork
<1>14. QED
  BY <1>9, <1>11, <1>12, <1>13, OneActs DEF Inv

LEMMA DeniedInv ==
    ASSUME Inv, NEW a \in Actions, ClaimDenied(a)
    PROVE  Inv'
<1> USE DEF sourceVars, reportVars, historyVars, boundVars
<1>1. tick.pc = "claim" /\ tick.cur = a /\ tick \in Tick
  BY DEF ClaimDenied, Inv, TypeOK
<1>2. /\ ledger[a].phase = "reserved" /\ ActionInv(a) /\ TypeOK
      /\ source[a] \notin {"pending", "claimed"} /\ NoRow \in LedgerRow
  BY <1>1, RowTypes DEF Inv, TickInv, ClaimDenied
<1>3. UNCHANGED <<asked, source, task, rows, gate, calls, fetched, reopened, overdue, status,
                  triaged, imported, ran, errors, crashes, edits>>
  BY DEF ClaimDenied
<1>4. /\ ledger' \in [Actions -> LedgerRow] /\ ledger'[a] = NoRow
      /\ \A b \in Actions \ {a} : ledger'[b] = ledger[b]
  BY <1>2 DEF ClaimDenied, TypeOK
<1>5. /\ NoRow.phase = "none" /\ NoRow.outcome = None /\ NoRow.late = None /\ NoRow.acked = "no"
  BY DEF NoRow
<1>6. tick' \in Tick /\ tick'.pc = "walk"
  BY <1>1 DEF ClaimDenied, Tick
<1>7. hold' \in [Actions -> {"none", "free", "llm"}]
  BY DEF ClaimDenied, Release, Inv, TypeOK
<1>8. TypeOK'
  BY <1>3, <1>4, <1>6, <1>7 DEF Inv, TypeOK
<1>9. SameWork(a) /\ ~Running(a) /\ task'[a] = task[a] /\ calls[a] = 0 /\ fetched[a] = 0
  BY <1>2, <1>3, Unspent DEF SameWork
<1>10. ActionInv(a)'
  <2>1. DecidedInv(a)' /\ ReopenedInv(a)'
    BY <1>2, <1>3, <1>4, <1>5, <1>9, OpenRow, OpenActs
  <2>2. RunningInv(a)'
    BY <1>4, <1>5, <1>9 DEF RunningInv, Running, Authorized
  <2>3. PaidInv(a)'
    BY <1>2, <1>9 DEF ActionInv, PaidInv, SameWork, Running, Kind
  <2>4. MadeInv(a)'
    BY <1>2, <1>4, <1>5, <1>9 DEF ActionInv, MadeInv, SameWork, Kind
  <2>5. QED
    BY <2>1, <2>2, <2>3, <2>4 DEF ActionInv
<1>11. TickInv'
  BY <1>6 DEF TickInv
<1>12. \A b \in Actions \ {a} : Untouched(b)
  BY <1>3, <1>4 DEF Untouched, SameWork
<1>13. QED
  BY <1>8, <1>10, <1>11, <1>12, OneActs DEF Inv

LEMMA DispatchInv ==
    ASSUME Inv, NEW a \in Actions, Dispatch(a)
    PROVE  Inv'
<1> USE DEF sourceVars, reportVars, historyVars, boundVars
<1>1. tick.pc = "dispatch" /\ tick.cur = a /\ tick \in Tick /\ ActionInv(a) /\ TypeOK
  BY DEF Dispatch, Inv, TypeOK
<1>2. /\ ledger[a].phase \in {"intent", "dispatched"} /\ ~Running(a)
      /\ calls[a] = 0 /\ fetched[a] = 0
  BY <1>1 DEF Inv, TickInv
<1> DEFINE row == [ledger[a] EXCEPT !.phase = "dispatched"]
<1>3. /\ row \in LedgerRow /\ row.phase = "dispatched" /\ row.outcome = ledger[a].outcome
      /\ row.noRetry = ledger[a].noRetry /\ row.own = ledger[a].own
      /\ row.acked = ledger[a].acked /\ row.late = ledger[a].late
  BY PhaseRow DEF Inv
<1>4. ledger' = [ledger EXCEPT ![a] = row] /\ ledger \in [Actions -> LedgerRow]
  BY DEF Dispatch, Inv, TypeOK
<1> HIDE DEF row
<1>5. /\ ledger' \in [Actions -> LedgerRow] /\ ledger'[a] = row
      /\ \A b \in Actions \ {a} : ledger'[b] = ledger[b]
  BY <1>3, <1>4
<1>6. UNCHANGED <<asked, source, rows, gate, calls, fetched, reopened, overdue, hold, status,
                  triaged, imported, ran, errors, crashes, edits>>
  BY DEF Dispatch
<1>7. /\ task' \in [Actions -> Task]
      /\ \A b \in Actions \ {a} : task'[b] = task[b]
      /\ \/ Kind(a) \in LlmKinds /\ task'[a].pc = "start" /\ tick'.pc = "walk"
         \/ Kind(a) = "open_pr" /\ task'[a].pc = "prstart" /\ tick'.pc = "walk"
         \/ Kind(a) \in InlineKinds /\ task'[a] = task[a] /\ tick'.pc = "inline" /\ tick'.cur = a
  <2>1. /\ [pc |-> "start", result |-> None] \in Task /\ [pc |-> "prstart", result |-> None] \in Task
        /\ task \in [Actions -> Task]
    BY <1>1 DEF Task, TypeOK
  <2>2. CASE Kind(a) \in LlmKinds /\ task' = [task EXCEPT ![a] = [pc |-> "start", result |-> None]]
                /\ tick' = [tick EXCEPT !.pc = "walk", !.cur = Idle]
    BY <1>1, <2>1, <2>2 DEF Tick
  <2>3. CASE Kind(a) = "open_pr" /\ task' = [task EXCEPT ![a] = [pc |-> "prstart", result |-> None]]
                /\ tick' = [tick EXCEPT !.pc = "walk", !.cur = Idle]
    BY <1>1, <2>1, <2>3 DEF Tick
  <2>4. CASE Kind(a) \in InlineKinds /\ task' = task /\ tick' = [tick EXCEPT !.pc = "inline"]
    BY <1>1, <2>1, <2>4 DEF Tick
  <2>5. QED
    BY <2>2, <2>3, <2>4 DEF Dispatch
<1>8. tick' \in Tick
  BY <1>1 DEF Dispatch, Tick
<1>9. TypeOK'
  BY <1>5, <1>6, <1>7, <1>8 DEF Inv, TypeOK
<1>10. SameWork(a)
  BY <1>6 DEF SameWork
<1>11. LlmKinds \cap InlineKinds = {} /\ "open_pr" \notin InlineKinds
  BY DEF LlmKinds, FixKinds, InlineKinds
<1>12. ActionInv(a)'
  <2>1. source'[a] # "pending"
    BY <1>1, <1>2, <1>6 DEF ActionInv, DecidedInv
  <2>2. DecidedInv(a)' /\ ReopenedInv(a)'
    BY <1>1, <1>2, <1>3, <1>5, <1>6, <1>10, <2>1, OpenActs
  <2>3. RunningInv(a)'
    <3>1. ledger[a].phase \in Authorized
      BY <1>2 DEF Authorized
    <3>2. NoRetry(a)' = NoRetry(a) /\ Kind(a)' = Kind(a) /\ asked' = asked
      BY <1>6 DEF NoRetry, Kind
    <3>3. /\ Running(a)' => Kind(a) \notin InlineKinds
          /\ Running(a)' /\ task'[a].pc \notin {"prstart", "pr"} => Kind(a) \in LlmKinds
      BY <1>2, <1>7, <1>11 DEF Running
    <3>4. QED
      BY <1>1, <1>3, <1>5, <3>1, <3>2, <3>3 DEF ActionInv, RunningInv
  <2>4. PaidInv(a)'
    BY <1>1, <1>2, <1>7, <1>10 DEF ActionInv, PaidInv, Running, SameWork
  <2>5. MadeInv(a)'
    BY <1>1, <1>2, <1>3, <1>5, <1>7, <1>10 DEF ActionInv, MadeInv, SameWork, Kind, Running
  <2>6. QED
    BY <2>2, <2>3, <2>4, <2>5 DEF ActionInv
<1>13. TickInv'
  BY <1>2, <1>3, <1>5, <1>6, <1>7 DEF TickInv, Running, Kind
<1>14. \A b \in Actions \ {a} : Untouched(b)
  BY <1>5, <1>6, <1>7 DEF Untouched, SameWork
<1>15. QED
  BY <1>9, <1>12, <1>13, <1>14, OneActs DEF Inv

-----------------------------------------------------------------------------
(* Inline kinds and recovery. *)

LEMMA RunInlineInv ==
    ASSUME Inv, NEW a \in Actions, RunInline(a)
    PROVE  Inv'
<1> USE DEF sourceVars, reportVars, historyVars, boundVars
<1>1. StillActions /\ UNCHANGED <<overdue, hold, triaged, imported, ran, errors, crashes, edits>>
  BY DEF RunInline, StillActions
<1>2. tick.pc = "inline" /\ tick.cur = a /\ tick \in Tick /\ Kind(a) # "reopen"
  BY DEF RunInline, Inv, TypeOK
<1>3. /\ Kind(a) \in InlineKinds /\ ledger[a].phase = "dispatched" /\ ~Running(a) /\ a \in Actions
  BY <1>2 DEF Inv, TickInv
<1>4. PICK o \in {"done", "failed", "refused"} :
         tick' = [tick EXCEPT !.pc = "inlined", !.result = o]
  BY DEF RunInline
<1>5. tick' \in Tick /\ tick'.pc = "inlined" /\ tick'.cur = a /\ tick'.result = o
  BY <1>2, <1>4 DEF Tick, Outcomes
<1>6. status' \in [Reports -> {"triaged", "analyzing", "closed"}]
  BY DEF RunInline, Inv, TypeOK
<1>7. TypeOK'
  BY <1>1, <1>5, <1>6 DEF StillActions, Inv, TypeOK
<1>8. TickInv'
  BY <1>1, <1>2, <1>3, <1>5 DEF StillActions, TickInv, Running, Kind
<1>9. QED
  BY <1>1, <1>7, <1>8, StillActs DEF Inv

LEMMA ReopenInv ==
    ASSUME Inv, NEW a \in Actions, Reopen(a)
    PROVE  Inv'
<1> USE DEF sourceVars, boundVars
<1>1. /\ tick.pc = "inline" /\ tick.cur = a /\ tick \in Tick /\ Kind(a) = "reopen"
      /\ ActionInv(a) /\ TypeOK
      /\ UNCHANGED <<asked, source, overdue, task, triaged, rows, imported, gate, calls, ran, fetched,
                     errors, crashes, edits>>
  BY DEF Reopen, Inv, TypeOK
<1>2. Kind(a) \in InlineKinds /\ ledger[a].phase = "dispatched" /\ ~Running(a)
  BY <1>1 DEF Inv, TickInv
<1>3. CASE /\ status' = [status EXCEPT ![Report(a)] = "triaged"]
           /\ reopened' = [reopened EXCEPT ![a] = reopened[a] + 1]
           /\ ledger' = [ledger EXCEPT ![a] = Finished(ledger[a], "done")]
           /\ hold' = [hold EXCEPT ![a] = "none"]
           /\ tick' = [tick EXCEPT !.pc = "walk", !.cur = Idle]
  <2> DEFINE row == Finished(ledger[a], "done")
  <2>1. row \in LedgerRow
    BY <1>1, RowTypes DEF Outcomes
  <2>2. /\ row.phase = "finished" /\ row.outcome = "done" /\ row.acked = ledger[a].acked
        /\ row.late = ledger[a].late
    BY <1>1, FinishedRow
  <2> HIDE DEF row
  <2>3. /\ ledger' \in [Actions -> LedgerRow] /\ ledger'[a] = row
        /\ \A b \in Actions \ {a} : ledger'[b] = ledger[b]
    BY <1>1, <1>3, <2>1 DEF TypeOK, row
  <2>4. /\ reopened' \in [Actions -> Nat] /\ reopened'[a] = reopened[a] + 1
        /\ \A b \in Actions \ {a} : reopened'[b] = reopened[b]
    BY <1>1, <1>3 DEF TypeOK
  <2>5. tick' \in Tick /\ tick'.pc = "walk"
    BY <1>1, <1>3 DEF Tick
  <2>6. /\ hold' \in [Actions -> {"none", "free", "llm"}]
        /\ status' \in [Reports -> {"triaged", "analyzing", "closed"}]
    BY <1>1, <1>3 DEF TypeOK
  <2>7. TypeOK'
    BY <1>1, <2>3, <2>4, <2>5, <2>6 DEF TypeOK
  <2>8. /\ ledger[a].outcome = None /\ ledger[a].late = None /\ ledger[a].acked = "no"
        /\ source[a] \notin Told /\ None \notin Outcomes
    BY <1>1, <1>2, OpenRow
  <2>9. reopened[a] = 0
    BY <1>1, <2>8 DEF ActionInv, ReopenedInv, Outcomes
  <2>10. ActionInv(a)'
    <3>1. source[a] # "pending"
      BY <1>1, <1>2 DEF ActionInv, DecidedInv
    <3>2. DecidedInv(a)'
      BY <1>1, <2>2, <2>3, <2>8, <3>1 DEF DecidedInv, Outcomes
    <3>3. RunningInv(a)'
      BY <1>1, <1>2, <2>2, <2>3 DEF RunningInv, Running, Authorized
    <3>4. calls[a] = 0 /\ fetched[a] = 0
      <4>1. Kind(a) \notin FixKinds
        BY <1>1 DEF FixKinds
      <4>2. calls[a] = 0
        BY <1>1, <4>1 DEF ActionInv, PaidInv
      <4>3. ledger[a].noRetry = NoRetry(a) /\ ~NoRetry(a)
        BY <1>1, <1>2 DEF ActionInv, RunningInv, Authorized, NoRetry
      <4>4. QED
        BY <1>1, <4>2, <4>3 DEF ActionInv, PaidInv
    <3>5. PaidInv(a)'
      BY <1>1, <1>2, <3>4 DEF ActionInv, PaidInv, Running
    <3>6. MadeInv(a)'
      BY <1>1, <1>2, <2>2, <2>3 DEF ActionInv, MadeInv, Running, Kind
    <3>7. ReopenedInv(a)'
      BY <1>1, <2>2, <2>3, <2>4, <2>9 DEF ReopenedInv, Kind
    <3>8. QED
      BY <3>2, <3>3, <3>5, <3>6, <3>7 DEF ActionInv
  <2>11. TickInv'
    BY <2>5 DEF TickInv
  <2>12. \A b \in Actions \ {a} : Untouched(b)
    BY <1>1, <2>3, <2>4 DEF Untouched, SameWork
  <2>13. QED
    BY <2>7, <2>10, <2>11, <2>12, OneActs DEF Inv
<1>4. CASE tick' = [tick EXCEPT !.pc = "inlined", !.result = "refused"]
             /\ UNCHANGED <<status, reopened, ledger, hold>>
  <2>1. tick' \in Tick /\ tick'.pc = "inlined" /\ tick'.cur = a /\ tick'.result = "refused"
    BY <1>1, <1>4 DEF Tick, Outcomes
  <2>2. StillActions
    BY <1>1, <1>4 DEF StillActions
  <2>3. TypeOK'
    BY <1>1, <1>4, <2>1 DEF TypeOK
  <2>4. TickInv'
    BY <1>1, <1>2, <2>1, <2>2 DEF StillActions, TickInv, Running, Kind
  <2>5. QED
    BY <2>2, <2>3, <2>4, StillActs DEF Inv
<1>5. QED
  <2>1. \/ /\ status' = [status EXCEPT ![Report(a)] = "triaged"]
           /\ reopened' = [reopened EXCEPT ![a] = reopened[a] + 1]
           /\ ReopenedAtOnce(a)
        \/ /\ tick' = [tick EXCEPT !.pc = "inlined", !.result = "refused"]
           /\ UNCHANGED <<status, reopened, ledger, hold>>
    BY <1>1 DEF Reopen, TypeOK
  <2>2. ReopenedAtOnce(a) =>
           /\ ledger' = [ledger EXCEPT ![a] = Finished(ledger[a], "done")]
           /\ hold' = [hold EXCEPT ![a] = "none"]
           /\ tick' = [tick EXCEPT !.pc = "walk", !.cur = Idle]
    BY <1>1 DEF ReopenedAtOnce, Release, TypeOK
  <2>3. QED
    BY <1>3, <1>4, <2>1, <2>2

\* Taken up again as it is
LEMMA AgainInv ==
    ASSUME Inv, NEW a \in Actions, RecoverInline(a) \/ Redispatch(a)
    PROVE  Inv'
<1> USE DEF sourceVars, reportVars, historyVars, boundVars
<1>1. StillActions /\ UNCHANGED <<overdue, status, triaged, imported, ran, errors, crashes, edits>>
  BY DEF RecoverInline, Redispatch, StillActions
<1>2. tick \in Tick /\ TypeOK /\ ActionInv(a)
  BY DEF Inv, TypeOK
<1>3. ~Running(a) /\ ledger[a].phase \in Authorized
  BY DEF RecoverInline, Redispatch, Unproved, Unsettled, Recoverable
<1>4. hold' \in [Actions -> {"none", "free", "llm"}]
  BY DEF RecoverInline, Redispatch, TryHold, SlotOf, Inv, TypeOK
<1>5. tick' \in Tick
  BY <1>2 DEF RecoverInline, Redispatch, Goto, Tick
<1>6. TypeOK'
  BY <1>1, <1>4, <1>5 DEF StillActions, Inv, TypeOK
<1>7. TickInv'
  <2>1. CASE RecoverInline(a)
    <3>1. tick'.pc = "inline" /\ tick'.cur = a
      BY <1>2, <2>1 DEF RecoverInline, Goto, Tick
    <3>2. ledger[a].phase = "dispatched" /\ Kind(a) \in InlineKinds
      BY <2>1 DEF RecoverInline, AtInline
    <3>3. QED
      BY <1>1, <1>3, <3>1, <3>2 DEF StillActions, TickInv, Running, Kind
  <2>2. CASE Redispatch(a)
    <3>1. tick'.pc = "dispatch" /\ tick'.cur = a
      BY <1>2, <2>2 DEF Redispatch, Goto, Tick
    <3>2. ledger[a].phase \in {"intent", "dispatched"}
      BY <1>3, <2>2 DEF Redispatch, Unproved, Unsettled, AtPrStep, Authorized
    <3>3. calls[a] = 0 /\ fetched[a] = 0
      BY <1>2, <2>2 DEF Redispatch, ActionInv, PaidInv
    <3>4. QED
      BY <1>1, <1>3, <3>1, <3>2, <3>3 DEF StillActions, TickInv, Running
  <2>3. QED
    BY <2>1, <2>2
<1>8. QED
  BY <1>1, <1>6, <1>7, StillActs DEF Inv

LEMMA CheckpointRow ==
    ASSUME TypeOK, NEW a \in Actions
    PROVE  /\ Checkpoint(a) \in LedgerRow /\ Checkpoint(a).phase = "fix_done"
           /\ Checkpoint(a).outcome = ledger[a].outcome
           /\ Checkpoint(a).noRetry = ledger[a].noRetry /\ Checkpoint(a).own = ledger[a].own
           /\ Checkpoint(a).acked = ledger[a].acked /\ Checkpoint(a).late = ledger[a].late
<1>1. ledger[a] \in LedgerRow
  BY DEF TypeOK
<1>2. QED
  BY <1>1 DEF LedgerRow, Checkpoint

\* The checkpoint, and the PR step that follows it at once or later
LEMMA CheckpointActs ==
    ASSUME Inv, NEW a \in Actions, SameWork(a), source'[a] = source[a],
           ledger'[a] = Checkpoint(a), ledger[a].phase \in Authorized,
           Kind(a) = "fix_and_open_pr", "made" \in rows[a],
           \/ ~Running(a) /\ task'[a] = task[a]
           \/ task'[a].pc = "prstart"
    PROVE  ActionInv(a)'
<1>1. /\ Checkpoint(a).phase = "fix_done" /\ Checkpoint(a).outcome = ledger[a].outcome
      /\ Checkpoint(a).noRetry = ledger[a].noRetry /\ Checkpoint(a).own = ledger[a].own
      /\ Checkpoint(a).acked = ledger[a].acked /\ Checkpoint(a).late = ledger[a].late
      /\ TypeOK /\ ActionInv(a)
  BY CheckpointRow DEF Inv
<1>2. ledger[a].phase # "finished" /\ source'[a] # "pending"
  BY <1>1 DEF ActionInv, DecidedInv, Authorized
<1>3. DecidedInv(a)' /\ ReopenedInv(a)'
  BY <1>1, <1>2, OpenActs
<1>4. RunningInv(a)'
  <2>1. NoRetry(a)' = NoRetry(a) /\ Kind(a)' = Kind(a) /\ asked' = asked
    BY DEF NoRetry, Kind, SameWork
  <2>2. Kind(a) \notin InlineKinds /\ Kind(a) \in LlmKinds
    BY DEF InlineKinds, LlmKinds, FixKinds
  <2>3. QED
    BY <1>1, <2>1, <2>2 DEF ActionInv, RunningInv
<1>5. PaidInv(a)'
  BY <1>1 DEF ActionInv, PaidInv, Running, SameWork, Kind
<1>6. MadeInv(a)'
  BY <1>1 DEF ActionInv, MadeInv, Running, SameWork, Kind
<1>7. QED
  BY <1>3, <1>4, <1>5, <1>6 DEF ActionInv

LEMMA SpawnTypes ==
    ASSUME TypeOK, NEW a \in Actions, Spawn(a, "prstart")
    PROVE  /\ task' \in [Actions -> Task] /\ task'[a].pc = "prstart"
           /\ \A b \in Actions \ {a} : task'[b] = task[b]
<1>1. [pc |-> "prstart", result |-> None] \in Task
  BY DEF Task
<1>2. QED
  BY <1>1 DEF Spawn, TypeOK

LEMMA RecoverPrInv ==
    ASSUME Inv, NEW a \in Actions, RecoverPr(a)
    PROVE  Inv'
<1> USE DEF sourceVars, reportVars, historyVars, boundVars
<1>1. /\ UNCHANGED <<asked, source, ledger, rows, gate, calls, fetched, reopened, overdue, status,
                     triaged, imported, ran, errors, crashes, edits>>
      /\ ~Running(a) /\ Listed(a) /\ AtPrStep(a) /\ TypeOK /\ ActionInv(a) /\ tick \in Tick
  BY DEF RecoverPr, Recoverable, Inv, TypeOK
<1>2. /\ task' \in [Actions -> Task] /\ task'[a].pc = "prstart"
      /\ \A b \in Actions \ {a} : task'[b] = task[b]
  BY <1>1, SpawnTypes DEF RecoverPr
<1>3. tick' \in Tick /\ tick'.pc = "walk"
  BY <1>1 DEF RecoverPr, Handled, Listed, Tick
<1>4. hold' \in [Actions -> {"none", "free", "llm"}]
  BY DEF RecoverPr, TryHold, Inv, TypeOK
<1>5. TypeOK'
  BY <1>1, <1>2, <1>3, <1>4 DEF Inv, TypeOK
<1>6. SameWork(a) /\ source'[a] = source[a] /\ ledger'[a] = ledger[a]
  BY <1>1 DEF SameWork
<1>7. ActionInv(a)'
  <2>1. DecidedInv(a)' /\ ReopenedInv(a)'
    BY <1>1 DEF ActionInv, DecidedInv, ReopenedInv, Kind
  <2>2. RunningInv(a)'
    <3>1. ledger[a].phase \in Authorized /\ ledger[a].phase \in {"dispatched", "fix_done"}
      BY <1>1 DEF AtPrStep, Authorized
    <3>2. NoRetry(a)' = NoRetry(a) /\ Kind(a)' = Kind(a)
      BY <1>1 DEF NoRetry, Kind
    <3>3. Kind(a) \notin InlineKinds
      BY <1>1 DEF AtPrStep, ActionInv, MadeInv, InlineKinds
    <3>4. QED
      BY <1>1, <1>2, <3>1, <3>2, <3>3 DEF ActionInv, RunningInv
  <2>3. PaidInv(a)'
    BY <1>1, <1>2 DEF ActionInv, PaidInv, Kind
  <2>4. MadeInv(a)'
    BY <1>1, <1>2 DEF ActionInv, MadeInv, AtPrStep, Kind
  <2>5. QED
    BY <2>1, <2>2, <2>3, <2>4 DEF ActionInv
<1>8. TickInv'
  BY <1>3 DEF TickInv
<1>9. \A b \in Actions \ {a} : Untouched(b)
  BY <1>1, <1>2 DEF Untouched, SameWork
<1>10. QED
  BY <1>5, <1>7, <1>8, <1>9, OneActs DEF Inv

\* What the tagged rows show
LEMMA EvidenceIs ==
    ASSUME NEW a \in Actions, Evidence(a) # None
    PROVE  /\ Evidence(a) \in {"fix_done", "done", "failed"}
           /\ Evidence(a) \in {"fix_done", "done"} => "made" \in rows[a]
           /\ Evidence(a) = "fix_done" <=> "made" \in rows[a] /\ Kind(a) = "fix_and_open_pr"
  BY DEF Evidence

LEMMA EvidenceInv ==
    ASSUME Inv, NEW a \in Actions, RecoverEvidence(a)
    PROVE  Inv'
<1> USE DEF sourceVars, reportVars, historyVars, boundVars
<1>1. /\ UNCHANGED <<asked, source, rows, gate, calls, fetched, reopened, overdue, status,
                     triaged, imported, ran, errors, crashes, edits>>
      /\ ~Running(a) /\ Listed(a) /\ ledger[a].phase \in Authorized /\ Evidence(a) # None
      /\ TypeOK /\ ActionInv(a) /\ tick \in Tick
  BY DEF RecoverEvidence, Unsettled, Recoverable, Inv, TypeOK
<1>2. tick' \in Tick /\ tick'.pc = "walk"
  BY <1>1 DEF RecoverEvidence, Handled, Listed, Tick
<1>3. hold' \in [Actions -> {"none", "free", "llm"}]
  BY DEF RecoverEvidence, TryHold, Inv, TypeOK
<1>4. CASE /\ Evidence(a) = "fix_done" /\ ledger' = [ledger EXCEPT ![a] = Checkpoint(a)]
           /\ task' = task \/ Spawn(a, "prstart")
  <2>1. Checkpoint(a) \in LedgerRow
    BY <1>1, RowTypes
  <2>2. /\ ledger' \in [Actions -> LedgerRow] /\ ledger'[a] = Checkpoint(a)
        /\ \A b \in Actions \ {a} : ledger'[b] = ledger[b]
    BY <1>1, <1>4, <2>1 DEF TypeOK
  <2>3. /\ task' \in [Actions -> Task] /\ \A b \in Actions \ {a} : task'[b] = task[b]
        /\ (~Running(a) /\ task'[a] = task[a]) \/ task'[a].pc = "prstart"
    BY <1>1, <1>4, SpawnTypes DEF TypeOK
  <2>4. Kind(a) = "fix_and_open_pr" /\ "made" \in rows[a]
    BY <1>1, <1>4, EvidenceIs
  <2>5. TypeOK'
    BY <1>1, <1>2, <1>3, <2>2, <2>3 DEF TypeOK
  <2>6. SameWork(a) /\ source'[a] = source[a]
    BY <1>1 DEF SameWork
  <2>7. ActionInv(a)'
    BY <1>1, <2>2, <2>3, <2>4, <2>6, CheckpointActs
  <2>8. TickInv'
    BY <1>2 DEF TickInv
  <2>9. \A b \in Actions \ {a} : Untouched(b)
    BY <1>1, <2>2, <2>3 DEF Untouched, SameWork
  <2>10. QED
    BY <2>5, <2>7, <2>8, <2>9, OneActs DEF Inv
<1>5. CASE /\ Evidence(a) # "fix_done" /\ task' = task /\ hold' = hold
           /\ ledger' = [ledger EXCEPT ![a] = Finished(ledger[a], Evidence(a))]
  <2>1. Evidence(a) \in Outcomes
    BY <1>1, <1>5, EvidenceIs DEF Outcomes
  <2>2. Kind(a) = "reopen" => Evidence(a) # "done"
    BY <1>1, EvidenceIs DEF ActionInv, MadeInv, LlmKinds, FixKinds
  <2>3. source[a] # "pending"
    BY <1>1 DEF ActionInv, DecidedInv, Authorized
  <2>4. QED
    BY <1>1, <1>2, <1>3, <1>5, <2>1, <2>2, <2>3, FinishInv
<1>6. QED
  BY <1>1, <1>4, <1>5 DEF RecoverEvidence, TypeOK

-----------------------------------------------------------------------------
(* Tasks. *)

\* A task at work: its action was dispatched, and its row is not rewritten.
LEMMA AtWork ==
    ASSUME Inv, NEW a \in Actions, Running(a), task[a].pc \notin {"prstart", "pr"}
    PROVE  /\ Kind(a) \in LlmKinds /\ ledger[a].noRetry = NoRetry(a)
           /\ ledger[a].own <=> Kind(a) \in FixKinds /\ asked[a].own
           /\ ledger[a].phase \notin {"none", "reserved", "intent"}
           /\ ActionInv(a) /\ TypeOK
<1>1. ActionInv(a) /\ TypeOK /\ ledger[a].outcome = "timed_out" => ledger[a].outcome # None
  BY TriageAssumption DEF Inv
<1>2. QED
  BY <1>1 DEF ActionInv, RunningInv, DecidedInv, Inv

\* Steps of a task that works on the report.
Works(a) ==
    \/ RequestKey(a) \/ KeyRefused(a) \/ ClaimFix(a) \/ NotRun(a) \/ FixDeclined(a)
    \/ CallFixModel(a) \/ FixAnswered(a)
    \/ StartLocal(a) \/ TriageAnswered(a) \/ ClaimLocalization(a)
    \/ LocalizationDeclined(a) \/ CallLocalModel(a) \/ LocalAnswered(a)

\* They leave the row, the slot and the tick alone, and the task runs on.
LEMMA WorksFrame ==
    ASSUME Inv, NEW a \in Actions, Works(a)
    PROVE  /\ UNCHANGED <<asked, source, ledger, overdue, hold, tick, imported, gate, reopened,
                          errors, crashes, edits>>
           /\ LoopFree /\ Running(a) /\ task[a].pc \notin {"prstart", "pr"}
           /\ task' = [task EXCEPT ![a] = task'[a]]
           /\ task'[a].pc \notin {"none", "prstart", "pr"}
<1> USE DEF sourceVars, reportVars, historyVars, boundVars
<1>1. task \in [Actions -> Task]
  BY DEF Inv, TypeOK
<1>2. CASE RequestKey(a) \/ KeyRefused(a) \/ ClaimFix(a) \/ NotRun(a) \/ FixDeclined(a)
  BY <1>1, <1>2 DEF RequestKey, KeyRefused, ClaimFix, MayRunFix, NotRun, FixDeclined, At, Running,
                    Step, Returns, Task
<1>3. CASE CallFixModel(a) \/ FixAnswered(a) \/ StartLocal(a) \/ TriageAnswered(a)
  BY <1>1, <1>3 DEF CallFixModel, FixAnswered, StartLocal, TriageAnswered, At, Running,
                    Step, Returns, Task
<1>4. CASE ClaimLocalization(a) \/ LocalizationDeclined(a) \/ CallLocalModel(a) \/ LocalAnswered(a)
  BY <1>1, <1>4 DEF ClaimLocalization, LocalizationDeclined, CallLocalModel, LocalAnswered, At,
                    Running, Step, Returns, Task
<1>5. QED
  BY <1>2, <1>3, <1>4 DEF Works

\* What they do to the report, the task's result and the counts
LEMMA WorksTypes ==
    ASSUME Inv, NEW a \in Actions, Works(a)
    PROVE  /\ task'[a] \in Task
           /\ status' \in [Reports -> {"triaged", "analyzing", "closed"}]
           /\ triaged' \in SUBSET Reports /\ ran' \in SUBSET Actions
           /\ rows' \in [Actions -> SUBSET {"made", "failed"}]
           /\ calls' \in [Actions -> Nat] /\ fetched' \in [Actions -> Nat]
           /\ \A b \in Actions \ {a} :
                rows'[b] = rows[b] /\ calls'[b] = calls[b] /\ fetched'[b] = fetched[b]
           /\ rows[a] \subseteq rows'[a]
<1> USE DEF sourceVars, reportVars, historyVars, boundVars
<1>1. /\ task \in [Actions -> Task] /\ status \in [Reports -> {"triaged", "analyzing", "closed"}]
      /\ triaged \in SUBSET Reports /\ ran \in SUBSET Actions
      /\ rows \in [Actions -> SUBSET {"made", "failed"}]
      /\ calls \in [Actions -> Nat] /\ fetched \in [Actions -> Nat] /\ Report(a) \in Reports
  BY RowTypes DEF Inv, TypeOK
<1>2. task'[a] \in Task
  <2>1. \A o \in {"done", "failed", "refused", "fix_done"} : [pc |-> "returned", result |-> o] \in Task
    BY DEF Task, Outcomes
  <2>2. /\ [pc |-> "triage", result |-> None] \in Task
        /\ \A o \in {"refused", "failed"} : [pc |-> "locate", result |-> o] \in Task
    BY DEF Task, Outcomes
  <2>3. \A p \in {"fetch", "stage", "model", "locating", "localizing"} :
           [task[a] EXCEPT !.pc = p] \in Task
    BY <1>1 DEF Task
  <2>4. CASE RequestKey(a) \/ KeyRefused(a) \/ ClaimFix(a) \/ NotRun(a) \/ FixDeclined(a)
    BY <1>1, <2>1, <2>2, <2>3, <2>4 DEF RequestKey, KeyRefused, ClaimFix, NotRun, FixDeclined, Step, Returns
  <2>5. CASE CallFixModel(a) \/ FixAnswered(a) \/ StartLocal(a) \/ TriageAnswered(a)
    BY <1>1, <2>1, <2>2, <2>3, <2>5 DEF CallFixModel, FixAnswered, StartLocal, TriageAnswered, Step, Returns
  <2>6. CASE LocalizationDeclined(a) \/ CallLocalModel(a) \/ LocalAnswered(a)
    BY <1>1, <2>1, <2>2, <2>3, <2>6 DEF LocalizationDeclined, CallLocalModel, LocalAnswered, Step, Returns
  <2>7. CASE ClaimLocalization(a)
    <3>1. task[a].result \in {"refused", "failed"}
      BY <2>7 DEF ClaimLocalization, At, Inv, ActionInv, MadeInv
    <3>2. QED
      BY <1>1, <2>1, <2>3, <2>7, <3>1 DEF ClaimLocalization, Step, Returns
  <2>8. QED
    BY <2>4, <2>5, <2>6, <2>7 DEF Works
<1>3. status' \in [Reports -> {"triaged", "analyzing", "closed"}]
  <2>1. status' = status \/ \E x \in {"triaged", "analyzing"} : status' = [status EXCEPT ![Report(a)] = x]
    BY DEF Works, RequestKey, KeyRefused, ClaimFix, NotRun, FixDeclined, CallFixModel, FixAnswered,
           StartLocal, TriageAnswered, ClaimLocalization, LocalizationDeclined, CallLocalModel,
           LocalAnswered, Takes, Leaves
  <2>2. QED
    BY <1>1, <2>1
<1>4. triaged' \in SUBSET Reports /\ ran' \in SUBSET Actions
  BY <1>1 DEF Works, RequestKey, KeyRefused, ClaimFix, NotRun, FixDeclined, CallFixModel, FixAnswered,
         StartLocal, TriageAnswered, ClaimLocalization, LocalizationDeclined, CallLocalModel, LocalAnswered
<1>5. rows' = rows \/ \E x \in {"made", "failed"} : rows' = [rows EXCEPT ![a] = rows[a] \cup {x}]
  BY <1>1 DEF Works, RequestKey, KeyRefused, ClaimFix, NotRun, FixDeclined, CallFixModel, FixAnswered,
         StartLocal, TriageAnswered, ClaimLocalization, LocalizationDeclined, CallLocalModel,
         LocalAnswered, Tagged
<1>6. /\ rows' \in [Actions -> SUBSET {"made", "failed"}] /\ rows[a] \subseteq rows'[a]
      /\ \A b \in Actions \ {a} : rows'[b] = rows[b]
  BY <1>1, <1>5
<1>7. /\ calls' = calls \/ calls' = [calls EXCEPT ![a] = calls[a] + 1]
      /\ fetched' = fetched \/ fetched' = [fetched EXCEPT ![a] = fetched[a] + 1]
  BY <1>1 DEF Works, RequestKey, KeyRefused, ClaimFix, NotRun, FixDeclined, CallFixModel, FixAnswered,
         StartLocal, TriageAnswered, ClaimLocalization, LocalizationDeclined, CallLocalModel, LocalAnswered
<1>8. /\ calls' \in [Actions -> Nat] /\ fetched' \in [Actions -> Nat]
      /\ \A b \in Actions \ {a} : calls'[b] = calls[b] /\ fetched'[b] = fetched[b]
  BY <1>1, <1>7
<1>9. QED
  BY <1>2, <1>3, <1>4, <1>6, <1>8

\* Each step of a task keeps the account of paid calls and key requests.
LEMMA WorksPaid ==
    ASSUME Inv, NEW a \in Actions, Works(a)
    PROVE  PaidInv(a)'
<1> USE DEF sourceVars, reportVars, historyVars, boundVars
<1>1. /\ UNCHANGED <<asked, ledger, gate>>
      /\ Kind(a) \in LlmKinds /\ ledger[a].noRetry = NoRetry(a)
      /\ ledger[a].own <=> Kind(a) \in FixKinds /\ asked[a].own
      /\ ledger[a].phase \notin {"none", "reserved", "intent"}
      /\ ActionInv(a) /\ PaidInv(a)
  BY WorksFrame, AtWork DEF ActionInv
<1>2. /\ task \in [Actions -> Task] /\ calls \in [Actions -> Nat] /\ fetched \in [Actions -> Nat]
      /\ asked[a].own \in BOOLEAN /\ asked[a].paid \in BOOLEAN /\ gate \in BOOLEAN
      /\ ledger[a].own \in BOOLEAN
  BY RowTypes DEF Inv, TypeOK, LedgerRow
<1>3. CASE RequestKey(a)
  <2>1. /\ task'[a].pc = "fetch" /\ calls' = calls /\ fetched'[a] = fetched[a] + 1
        /\ task[a].pc = "start" /\ ledger[a].own
    BY <1>2, <1>3 DEF RequestKey, Step, At, Task
  <2>2. ledger[a].noRetry
    BY <1>1, <2>1 DEF NoRetry, FixKinds, PaidInv
  <2>3. QED
    BY <1>1, <2>1, <2>2 DEF PaidInv, Kind
<1>4. CASE ClaimFix(a)
  <2>1. /\ task'[a].pc = "stage" /\ calls' = calls /\ fetched' = fetched
        /\ Kind(a) \in FixKinds
        /\ task[a].pc = "fetch" \/ (task[a].pc = "start" /\ ~(gate /\ asked[a].paid))
    BY <1>2, <1>4 DEF ClaimFix, MayRunFix, Step, At, Task
  <2>2. QED
    BY <1>1, <2>1 DEF PaidInv, Kind
<1>5. CASE CallFixModel(a)
  <2>1. /\ task'[a].pc = "model" /\ fetched' = fetched /\ task[a].pc = "stage"
        /\ calls'[a] = IF asked[a].paid THEN calls[a] + 1 ELSE calls[a]
    BY <1>2, <1>5 DEF CallFixModel, Step, At, Task
  <2>2. calls[a] = 0 /\ Kind(a) \in FixKinds
    BY <1>1, <2>1 DEF PaidInv
  <2>3. asked[a].paid => ledger[a].noRetry
    BY <1>1, <2>2 DEF NoRetry, FixKinds
  <2>4. QED
    BY <1>1, <2>1, <2>2, <2>3 DEF PaidInv, Kind
<1>6. CASE KeyRefused(a) \/ NotRun(a) \/ FixDeclined(a) \/ FixAnswered(a)
  <2>1. task'[a].pc = "returned" /\ calls' = calls /\ fetched' = fetched
    BY <1>2, <1>6 DEF KeyRefused, NotRun, FixDeclined, FixAnswered, Returns
  <2>2. QED
    BY <1>1, <2>1 DEF PaidInv, Kind
<1>7. CASE StartLocal(a) \/ TriageAnswered(a) \/ ClaimLocalization(a) \/ LocalizationDeclined(a)
             \/ CallLocalModel(a) \/ LocalAnswered(a)
  <2>1. /\ task'[a].pc \in {"triage", "locate", "locating", "localizing", "returned"}
        /\ calls' = calls /\ fetched' = fetched
    BY <1>2, <1>7 DEF StartLocal, TriageAnswered, ClaimLocalization, LocalizationDeclined,
                      CallLocalModel, LocalAnswered, Step, Returns, Task
  <2>2. QED
    BY <1>1, <2>1 DEF PaidInv, Kind
<1>8. QED
  BY <1>3, <1>4, <1>5, <1>6, <1>7 DEF Works

\* What the answer of a task rests on
LEMMA WorksMade ==
    ASSUME Inv, NEW a \in Actions, Works(a)
    PROVE  MadeInv(a)'
<1> USE DEF sourceVars, reportVars, historyVars, boundVars
<1>1. /\ UNCHANGED <<asked, ledger, gate>> /\ rows[a] \subseteq rows'[a]
      /\ Kind(a) \in LlmKinds /\ ActionInv(a) /\ MadeInv(a) /\ PaidInv(a)
      /\ Kind(a)' = Kind(a)
  BY WorksFrame, WorksTypes, AtWork DEF ActionInv, Kind
<1>2. /\ task \in [Actions -> Task] /\ rows \in [Actions -> SUBSET {"made", "failed"}]
  BY RowTypes DEF Inv, TypeOK
<1>3. CASE RequestKey(a) \/ ClaimFix(a) \/ CallFixModel(a)
  <2>1. task'[a].pc \in {"fetch", "stage", "model"}
    BY <1>2, <1>3 DEF RequestKey, ClaimFix, CallFixModel, Step, Task
  <2>2. QED
    BY <1>1, <2>1 DEF MadeInv
<1>4. CASE KeyRefused(a) \/ NotRun(a) \/ FixDeclined(a)
  <2>1. /\ task'[a].pc = "returned" /\ task'[a].result \in {"refused", "failed"}
        /\ calls' = calls /\ task[a].pc \in {"start", "fetch", "stage"}
    BY <1>2, <1>4 DEF KeyRefused, NotRun, FixDeclined, Returns, At
  <2>2. calls'[a] = 0
    BY <1>1, <2>1 DEF PaidInv
  <2>3. QED
    BY <1>1, <2>1, <2>2 DEF MadeInv
<1>5. CASE FixAnswered(a)
  <2>1. /\ task[a].pc = "model" /\ task'[a].pc = "returned"
        /\ \/ /\ task'[a].result = IF Kind(a) = "fix_and_open_pr" THEN "fix_done" ELSE "done"
              /\ "made" \in rows'[a]
           \/ task'[a].result = "failed"
    BY <1>2, <1>5 DEF FixAnswered, Returns, Tagged, At
  <2>2. QED
    BY <1>1, <2>1 DEF MadeInv
<1>6. CASE StartLocal(a) \/ TriageAnswered(a)
  <2>1. /\ Kind(a) = "analyze_local"
        /\ \/ task'[a].pc = "triage"
           \/ task'[a].pc = "locate" /\ task'[a].result \in {"refused", "failed"}
    BY <1>1, <1>2, <1>6 DEF StartLocal, TriageAnswered, At, MadeInv
  <2>2. QED
    BY <1>1, <2>1 DEF MadeInv
<1>7. CASE ClaimLocalization(a) \/ LocalizationDeclined(a) \/ CallLocalModel(a)
  <2>1. /\ Kind(a) = "analyze_local" /\ calls' = calls
        /\ \/ task'[a].pc \in {"locating", "localizing"}
           \/ task'[a].pc = "returned" /\ task'[a].result \in {"refused", "failed"}
    BY <1>1, <1>2, <1>7 DEF ClaimLocalization, LocalizationDeclined, CallLocalModel, Step, Returns,
                            At, Task, MadeInv
  <2>2. calls'[a] = 0
    BY <1>1, <2>1 DEF PaidInv, FixKinds
  <2>3. QED
    BY <1>1, <2>1, <2>2 DEF MadeInv
<1>8. CASE LocalAnswered(a)
  <2>1. /\ Kind(a) = "analyze_local" /\ task'[a].pc = "returned"
        /\ \/ task'[a].result = "done" /\ "made" \in rows'[a]
           \/ task'[a].result = "failed"
    BY <1>1, <1>2, <1>8 DEF LocalAnswered, Returns, Tagged, At, MadeInv
  <2>2. QED
    BY <1>1, <2>1 DEF MadeInv
<1>9. QED
  BY <1>3, <1>4, <1>5, <1>6, <1>7, <1>8 DEF Works

LEMMA WorksInv ==
    ASSUME Inv, NEW a \in Actions, Works(a)
    PROVE  Inv'
<1>1. /\ UNCHANGED <<asked, source, ledger, overdue, hold, tick, imported, gate, reopened,
                     errors, crashes, edits>>
      /\ LoopFree /\ Running(a) /\ task[a].pc \notin {"prstart", "pr"}
      /\ task' = [task EXCEPT ![a] = task'[a]]
      /\ task'[a].pc \notin {"none", "prstart", "pr"}
  BY WorksFrame
<1>2. /\ task'[a] \in Task
      /\ status' \in [Reports -> {"triaged", "analyzing", "closed"}]
      /\ triaged' \in SUBSET Reports /\ ran' \in SUBSET Actions
      /\ rows' \in [Actions -> SUBSET {"made", "failed"}]
      /\ calls' \in [Actions -> Nat] /\ fetched' \in [Actions -> Nat]
      /\ \A b \in Actions \ {a} :
           rows'[b] = rows[b] /\ calls'[b] = calls[b] /\ fetched'[b] = fetched[b]
  BY WorksTypes
<1>3. task' \in [Actions -> Task] /\ \A b \in Actions \ {a} : task'[b] = task[b]
  BY <1>1, <1>2 DEF Inv, TypeOK
<1>4. TypeOK'
  BY <1>1, <1>2, <1>3 DEF Inv, TypeOK
<1>5. ActionInv(a)'
  <2>1. ActionInv(a) /\ Kind(a) \in LlmKinds /\ Kind(a)' = Kind(a) /\ NoRetry(a)' = NoRetry(a)
    BY <1>1, AtWork DEF Kind, NoRetry
  <2>2. DecidedInv(a)' /\ ReopenedInv(a)'
    BY <1>1, <2>1 DEF ActionInv, DecidedInv, ReopenedInv
  <2>3. RunningInv(a)'
    BY <1>1, <2>1 DEF ActionInv, RunningInv, Running
  <2>4. QED
    BY <2>2, <2>3, WorksPaid, WorksMade DEF ActionInv
<1>6. TickInv'
  <2>1. \A b \in Actions : ~Running(b) => ~Running(b)'
    BY <1>1, <1>3 DEF Running
  <2>2. QED
    BY <1>1, <2>1, TickKept
<1>7. \A b \in Actions \ {a} : Untouched(b)
  BY <1>1, <1>2, <1>3 DEF Untouched, SameWork
<1>8. QED
  BY <1>4, <1>5, <1>6, <1>7, OneActs DEF Inv

\* The rows a task may leave behind when it exits: the decision it found, with
\* its late answer beside a timeout; or the decision itself.
KeptRow(a, row) ==
    /\ row.phase = ledger[a].phase /\ row.outcome = ledger[a].outcome
    /\ row.noRetry = ledger[a].noRetry /\ row.own = ledger[a].own /\ row.acked = ledger[a].acked
    /\ row.late = ledger[a].late \/ ledger[a].outcome = "timed_out"
DecidedRow(a, row) ==
    /\ ledger[a].phase \in Authorized
    /\ row.phase = "finished" /\ row.outcome \in Outcomes
    /\ row.noRetry = ledger[a].noRetry /\ row.own = ledger[a].own /\ row.acked = ledger[a].acked
    /\ row.late = ledger[a].late \/ row.outcome = "timed_out"

LEMMA ExitsInv ==
    ASSUME Inv, NEW a \in Actions, NEW row \in LedgerRow, KeptRow(a, row) \/ DecidedRow(a, row),
           Running(a), LoopFree, Exits(a, row), tick' = tick,
           UNCHANGED <<asked, source, rows, gate, calls, fetched, reopened, overdue, status,
                       triaged, imported, ran, errors, crashes, edits>>
    PROVE  Inv'
<1>1. /\ ledger' \in [Actions -> LedgerRow] /\ ledger'[a] = row
      /\ \A b \in Actions \ {a} : ledger'[b] = ledger[b]
      /\ task' \in [Actions -> Task] /\ task'[a] = NoTask
      /\ \A b \in Actions \ {a} : task'[b] = task[b]
      /\ hold' \in [Actions -> {"none", "free", "llm"}]
  <2>1. NoTask \in Task
    BY DEF NoTask, Task
  <2>2. QED
    BY <2>1 DEF Exits, Release, Inv, TypeOK
<1>2. NoTask.pc = "none"
  BY DEF NoTask
<1>3. TypeOK'
  BY <1>1 DEF Inv, TypeOK
<1>4. SameWork(a) /\ source'[a] = source[a] /\ ActionInv(a) /\ TypeOK /\ ~Running(a)'
  BY <1>1, <1>2 DEF SameWork, Inv, Running
<1>5. ActionInv(a)'
  <2>1. CASE KeptRow(a, row)
    BY <1>1, <1>4, <2>1, KeepActs DEF KeptRow
  <2>2. CASE DecidedRow(a, row)
    <3>1. Kind(a) # "reopen" /\ source[a] # "pending"
      BY <1>4, <2>2 DEF ActionInv, RunningInv, DecidedInv, InlineKinds, DecidedRow, Authorized
    <3>2. QED
      BY <1>1, <1>4, <2>2, <3>1, FinishActs DEF DecidedRow
  <2>3. QED
    BY <2>1, <2>2
<1>6. \A b \in Actions : ledger[b].phase = "finished" => ledger'[b].phase = "finished"
  BY <1>1 DEF KeptRow, DecidedRow
<1>7. \A b \in Actions : ~Running(b) => ~Running(b)' /\ ledger'[b] = ledger[b]
  BY <1>1, <1>2 DEF Running
<1>8. TickInv'
  BY <1>6, <1>7, TickKept
<1>9. \A b \in Actions \ {a} : Untouched(b)
  BY <1>1 DEF Untouched, SameWork
<1>10. QED
  BY <1>3, <1>5, <1>8, <1>9, OneActs DEF Inv

\* A running action that is not finished is at work or at its PR step.
LEMMA OpenTask ==
    ASSUME Inv, NEW a \in Actions, Running(a)
    PROVE  /\ ledger[a].phase # "finished" => ledger[a].phase \in Authorized
           /\ ledger[a].phase = "finished" => ledger[a].outcome = "timed_out"
<1>1. ActionInv(a) /\ "timed_out" # None
  BY TriageAssumption DEF Inv
<1>2. QED
  BY <1>1 DEF ActionInv, RunningInv, DecidedInv, Authorized

LEMMA LateExit ==
    ASSUME Inv, NEW a \in Actions, Running(a), Ended(a),
           NEW o \in Outcomes \cup {"fix_done", "pr_pending"}
    PROVE  /\ Late(a, o) \in LedgerRow /\ (KeptRow(a, Late(a, o)) \/ DecidedRow(a, Late(a, o)))
           /\ Late(a, o).phase = "finished" /\ Late(a, o).outcome = "timed_out"
<1>1. ledger[a] \in LedgerRow /\ TypeOK
  BY DEF Inv, TypeOK
<1>2. CASE Overdue(a)
  <2> DEFINE row == Finished(ledger[a], "timed_out")
  <2>1. row \in LedgerRow
    BY <1>1, RowTypes DEF Outcomes
  <2>2. /\ row.phase = "finished" /\ row.outcome = "timed_out"
        /\ row.noRetry = ledger[a].noRetry /\ row.own = ledger[a].own
        /\ row.acked = ledger[a].acked
    BY <1>1, FinishedRow
  <2>3. Late(a, o) = [row EXCEPT !.late = o]
    BY <1>2 DEF Late
  <2> HIDE DEF row
  <2>4. ledger[a].phase \in Authorized
    BY <1>2 DEF Overdue
  <2>5. QED
    BY <2>1, <2>2, <2>3, <2>4 DEF LedgerRow, DecidedRow, Outcomes
<1>3. CASE ~Overdue(a)
  <2>1. ledger[a].phase = "finished" /\ ledger[a].outcome = "timed_out"
    BY <1>3, OpenTask DEF Ended
  <2>2. Late(a, o) = [ledger[a] EXCEPT !.late = o]
    BY <1>3 DEF Late
  <2>3. QED
    BY <1>1, <2>1, <2>2 DEF LedgerRow, KeptRow
<1>4. QED
  BY <1>2, <1>3

LEMMA FinishExit ==
    ASSUME Inv, NEW a \in Actions, Running(a), ~Ended(a) \/ Overdue(a), NEW o \in Outcomes
    PROVE  Finished(ledger[a], o) \in LedgerRow /\ DecidedRow(a, Finished(ledger[a], o))
<1>1. ledger[a].phase \in Authorized
  BY OpenTask DEF Ended, Overdue
<1>2. QED
  <2>1. TypeOK /\ Finished(ledger[a], o) \in LedgerRow
    BY RowTypes DEF Inv
  <2>2. QED
    BY <1>1, <2>1, FinishedRow DEF DecidedRow

LEMMA ReturnInv ==
    ASSUME Inv, NEW a \in Actions, Return(a)
    PROVE  Inv'
<1> USE DEF sourceVars, reportVars, historyVars, boundVars
<1>1. /\ UNCHANGED <<asked, source, rows, gate, calls, fetched, reopened, overdue, tick, status,
                     triaged, imported, ran, errors, crashes, edits>>
      /\ task[a].pc = "returned" /\ LoopFree /\ Running(a) /\ TypeOK /\ ActionInv(a)
  BY DEF Return, At, Running, Inv
<1>2. /\ task[a].result \in {"done", "failed", "refused", "fix_done"}
      /\ task[a].result = "fix_done" => Kind(a) = "fix_and_open_pr" /\ "made" \in rows[a]
  BY <1>1 DEF ActionInv, MadeInv
<1>3. CASE Ended(a)
  <2>1. AnsweredRow(a) = Late(a, task[a].result) /\ task[a].result \in Outcomes \cup {"fix_done"}
    BY <1>2, <1>3 DEF AnsweredRow, Outcomes
  <2>2. /\ AnsweredRow(a) \in LedgerRow
        /\ KeptRow(a, AnsweredRow(a)) \/ DecidedRow(a, AnsweredRow(a))
    BY <1>1, <1>3, <2>1, LateExit
  <2>3. AnsweredRow(a).phase # "fix_done"
    BY <1>1, <1>3, <2>1, LateExit
  <2>4. Exits(a, AnsweredRow(a))
    BY <2>3 DEF Return
  <2>5. QED
    BY <1>1, <2>2, <2>4, ExitsInv
<1>4. CASE ~Ended(a) /\ task[a].result # "fix_done"
  <2>1. AnsweredRow(a) = Finished(ledger[a], task[a].result) /\ task[a].result \in Outcomes
    BY <1>2, <1>4 DEF AnsweredRow, Outcomes
  <2>2. AnsweredRow(a) \in LedgerRow /\ DecidedRow(a, AnsweredRow(a))
    BY <1>1, <1>4, <2>1, FinishExit
  <2>3. Exits(a, AnsweredRow(a))
    BY <2>2 DEF Return, DecidedRow
  <2>4. QED
    BY <1>1, <2>2, <2>3, ExitsInv
<1>5. CASE ~Ended(a) /\ task[a].result = "fix_done"
  <2>1. AnsweredRow(a) = Checkpoint(a) /\ Checkpoint(a) \in LedgerRow
        /\ Checkpoint(a).phase = "fix_done"
    BY <1>1, <1>5, CheckpointRow DEF AnsweredRow
  <2>2. ledger' = [ledger EXCEPT ![a] = Checkpoint(a)] /\ Spawn(a, "prstart") /\ hold' = hold
    BY <2>1 DEF Return
  <2>3. /\ ledger' \in [Actions -> LedgerRow] /\ ledger'[a] = Checkpoint(a)
        /\ \A b \in Actions \ {a} : ledger'[b] = ledger[b]
        /\ task' \in [Actions -> Task] /\ task'[a].pc = "prstart"
        /\ \A b \in Actions \ {a} : task'[b] = task[b]
    BY <1>1, <2>1, <2>2, SpawnTypes DEF TypeOK
  <2>4. TypeOK'
    BY <1>1, <2>2, <2>3 DEF TypeOK
  <2>5. ledger[a].phase \in Authorized
    BY <1>1, <1>5, OpenTask DEF Ended
  <2>6. SameWork(a) /\ source'[a] = source[a]
    BY <1>1 DEF SameWork
  <2>7. ActionInv(a)'
    BY <1>2, <1>5, <2>3, <2>5, <2>6, CheckpointActs
  <2>8. \A b \in Actions : ledger[b].phase = "finished" => ledger'[b].phase = "finished"
    BY <1>5, <2>3 DEF Ended
  <2>9. \A b \in Actions : ~Running(b) => ~Running(b)' /\ ledger'[b] = ledger[b]
    BY <1>1, <2>3 DEF Running
  <2>10. TickInv'
    BY <1>1, <2>8, <2>9, TickKept
  <2>11. \A b \in Actions \ {a} : Untouched(b)
    BY <1>1, <2>3 DEF Untouched, SameWork
  <2>12. QED
    BY <2>4, <2>7, <2>10, <2>11, OneActs DEF Inv
<1>6. QED
  BY <1>3, <1>4, <1>5

LEMMA StartPrInv ==
    ASSUME Inv, NEW a \in Actions, StartPr(a)
    PROVE  Inv'
<1> USE DEF sourceVars, reportVars, historyVars, boundVars
<1>1. /\ UNCHANGED <<asked, source, rows, gate, calls, fetched, reopened, overdue, tick, status,
                     triaged, imported, ran, errors, crashes, edits>>
      /\ task[a].pc = "prstart" /\ LoopFree /\ Running(a) /\ TypeOK /\ ActionInv(a)
      /\ task \in [Actions -> Task] /\ ledger[a] \in LedgerRow
  BY DEF StartPr, At, Running, Inv, TypeOK
<1>2. CASE ~MayStartPr(a) /\ Exits(a, Expired[a])
  <2>1. CASE Overdue(a)
    <3>1. Expired[a] = Finished(ledger[a], "timed_out") /\ "timed_out" \in Outcomes
      BY <2>1 DEF Expired, Outcomes
    <3>2. QED
      BY <1>1, <1>2, <2>1, <3>1, FinishExit, ExitsInv
  <2>2. CASE ~Overdue(a)
    <3>1. Expired[a] = ledger[a] /\ KeptRow(a, ledger[a])
      BY <2>2 DEF Expired, KeptRow
    <3>2. QED
      BY <1>1, <1>2, <3>1, ExitsInv
  <2>3. QED
    BY <2>1, <2>2
<1>3. CASE Step(a, "pr") /\ ledger' = ledger /\ hold' = hold
  <2>1. /\ task' \in [Actions -> Task] /\ task'[a].pc = "pr"
        /\ \A b \in Actions \ {a} : task'[b] = task[b]
    BY <1>1, <1>3 DEF Step, Task
  <2>2. TypeOK'
    BY <1>1, <1>3, <2>1 DEF TypeOK
  <2>3. ActionInv(a)'
    <3>1. Kind(a)' = Kind(a) /\ NoRetry(a)' = NoRetry(a)
      BY <1>1 DEF Kind, NoRetry
    <3>2. DecidedInv(a)' /\ ReopenedInv(a)'
      BY <1>1, <1>3, <3>1 DEF ActionInv, DecidedInv, ReopenedInv
    <3>3. RunningInv(a)'
      BY <1>1, <1>3, <2>1, <3>1 DEF ActionInv, RunningInv, Running
    <3>4. PaidInv(a)'
      BY <1>1, <1>3, <2>1, <3>1 DEF ActionInv, PaidInv
    <3>5. MadeInv(a)'
      BY <1>1, <1>3, <2>1, <3>1 DEF ActionInv, MadeInv
    <3>6. QED
      BY <3>2, <3>3, <3>4, <3>5 DEF ActionInv
  <2>4. \A b \in Actions : ~Running(b) => ~Running(b)'
    BY <1>1, <2>1 DEF Running
  <2>5. TickInv'
    BY <1>1, <1>3, <2>4, TickKept
  <2>6. \A b \in Actions \ {a} : Untouched(b)
    BY <1>1, <1>3, <2>1 DEF Untouched, SameWork
  <2>7. QED
    BY <2>2, <2>3, <2>5, <2>6, OneActs DEF Inv
<1>4. QED
  BY <1>2, <1>3 DEF StartPr

LEMMA PrAnsweredInv ==
    ASSUME Inv, NEW a \in Actions, NEW o \in {"done", "refused", "failed", "pr_pending"},
           NEW attempts, PrAnswered(a, o, attempts),
           o = "pr_pending" => attempts \in 0 .. PrAttempts
    PROVE  Inv'
<1> USE DEF sourceVars, reportVars, historyVars, boundVars
<1>1. /\ UNCHANGED <<asked, source, rows, gate, calls, fetched, reopened, overdue, tick, status,
                     triaged, imported, ran, errors, crashes, edits>>
      /\ LoopFree /\ Running(a) /\ ledger[a] \in LedgerRow
  BY DEF PrAnswered, At, Running, Inv, TypeOK
<1>2. CASE Ended(a)
  <2>1. o \in Outcomes \cup {"fix_done", "pr_pending"}
    BY DEF Outcomes
  <2>2. Exits(a, Late(a, o))
    BY <1>2 DEF PrAnswered
  <2>3. QED
    BY <1>1, <1>2, <2>1, <2>2, LateExit, ExitsInv
<1>3. CASE ~Ended(a) /\ o = "pr_pending"
  <2> DEFINE row == [ledger[a] EXCEPT !.attempts = attempts]
  <2>1. row \in LedgerRow /\ KeptRow(a, row)
    BY <1>1, <1>3 DEF LedgerRow, KeptRow
  <2>2. Exits(a, row)
    BY <1>3 DEF PrAnswered
  <2> HIDE DEF row
  <2>3. QED
    BY <1>1, <2>1, <2>2, ExitsInv
<1>4. CASE ~Ended(a) /\ o # "pr_pending"
  <2>1. o \in Outcomes
    BY <1>4 DEF Outcomes
  <2>2. Exits(a, Finished(ledger[a], o))
    BY <1>4 DEF PrAnswered
  <2>3. QED
    BY <1>1, <1>4, <2>1, <2>2, FinishExit, ExitsInv
<1>5. QED
  BY <1>2, <1>3, <1>4

LEMMA PrAnswersInv ==
    ASSUME Inv, NEW a \in Actions, PrAnswers(a)
    PROVE  Inv'
<1>1. ledger[a].attempts \in 0 .. PrAttempts /\ PrAttempts \in Nat
  BY RowTypes, TriageAssumption DEF Inv, LedgerRow
<1>2. CASE \E o \in {"done", "refused", "pr_pending"} : PrAnswered(a, o, ledger[a].attempts)
  BY <1>1, <1>2, PrAnsweredInv
<1>3. CASE PrAnswered(a, PrFailure(a), ledger[a].attempts + 1)
  <2>1. /\ PrFailure(a) \in {"failed", "pr_pending"}
        /\ PrFailure(a) = "pr_pending" => ledger[a].attempts + 1 \in 0 .. PrAttempts
    BY <1>1 DEF PrFailure
  <2>2. QED
    BY <1>3, <2>1, PrAnsweredInv
<1>4. QED
  BY <1>2, <1>3 DEF PrAnswers

-----------------------------------------------------------------------------
(* The invariant of the specification. *)

LEMMA InitInv == Init => Inv
<1> SUFFICES ASSUME Init PROVE Inv
  OBVIOUS
<1>1. TypeOK
  <2>1. NoRow \in LedgerRow
    BY TriageAssumption DEF NoRow, LedgerRow, Acks
  <2>2. NoTask \in Task /\ NoTick \in Tick
    BY DEF NoTask, Task, NoTick, Tick
  <2>3. QED
    BY <2>1, <2>2 DEF Init, TypeOK
<1>2. ASSUME NEW a \in Actions PROVE ActionInv(a)
  <2>1. ledger[a] = NoRow /\ task[a] = NoTask /\ source[a] = "pending" /\ rows[a] = {}
        /\ calls[a] = 0 /\ fetched[a] = 0 /\ reopened[a] = 0
    BY DEF Init
  <2>2. NoTask.pc = "none"
    BY DEF NoTask
  <2>3. /\ NoRow.phase = "none" /\ NoRow.outcome = None /\ NoRow.late = None
        /\ NoRow.acked = "no"
    BY DEF NoRow
  <2>4. asked[a].own => asked[a].paid
    <3> DEFINE q == [kind |-> asked[a].kind, own |-> asked[a].own, paid |-> asked[a].paid]
    <3>1. q \in Asks
      BY DEF Init
    <3>2. q.own => q.paid
      BY <3>1, TriageAssumption
    <3>3. QED
      BY <3>2
  <2>5. DecidedInv(a)
    BY <2>1, <2>3 DEF DecidedInv, Told
  <2>6. RunningInv(a)
    BY <2>1, <2>2, <2>3 DEF RunningInv, Running, Authorized
  <2>7. PaidInv(a)
    BY <2>1, <2>2, <2>4 DEF PaidInv
  <2>8. MadeInv(a)
    BY <2>1, <2>2, <2>3 DEF MadeInv
  <2>9. ReopenedInv(a)
    BY <2>1, <2>3, TriageAssumption DEF ReopenedInv
  <2>10. QED
    BY <2>5, <2>6, <2>7, <2>8, <2>9 DEF ActionInv
<1>3. TickInv
  BY DEF Init, NoTick, TickInv
<1>4. QED
  BY <1>1, <1>2, <1>3 DEF Inv

LEMMA TickStepInv == ASSUME Inv, TickStep PROVE Inv'
<1>1. CASE StartTick \/ ExpireSweep
  BY <1>1, ExpiryInv
<1>2. CASE Drain \/ ListActions \/ EndTick
  BY <1>2, MovesInv
<1>3. ASSUME NEW a \in Actions, PostTerminal(a) \/ Reserve(a) \/ Skip(a) \/ HandleOverdue(a)
                                \/ Authorize(a) \/ Refuse(a) \/ ClaimDenied(a) \/ Dispatch(a)
      PROVE Inv'
  BY <1>3, PostInv, ReserveInv, MovesInv, OverdueInv, AuthorizeInv, RefuseInv, DeniedInv, DispatchInv
<1>4. ASSUME NEW a \in Actions, RunInline(a) \/ FinishInline(a) \/ Reopen(a)
      PROVE Inv'
  BY <1>4, RunInlineInv, FinishInlineInv, ReopenInv
<1>5. ASSUME NEW a \in Actions, RecoverPr(a) \/ RecoverInline(a) \/ RecoverEvidence(a)
                                \/ RecoverSettles(a) \/ Redispatch(a) \/ Wait(a)
      PROVE Inv'
  BY <1>5, RecoverPrInv, AgainInv, EvidenceInv, SettlesInv, MovesInv
<1>6. QED
  BY <1>1, <1>2, <1>3, <1>4, <1>5 DEF TickStep

LEMMA TaskStepInv == ASSUME Inv, NEW a \in Actions, TaskStep(a) PROVE Inv'
<1>1. Works(a) \/ Return(a) \/ StartPr(a) \/ PrAnswers(a)
  BY DEF TaskStep, Works
<1>2. QED
  BY <1>1, WorksInv, ReturnInv, StartPrInv, PrAnswersInv

LEMMA NextInv == ASSUME Inv, [Next]_vars PROVE Inv'
<1>1. CASE TickStep
  BY <1>1, TickStepInv
<1>2. CASE \E a \in Actions : TaskStep(a)
  BY <1>2, TaskStepInv
<1>3. CASE Fault
  BY <1>3, AbortInv, CrashInv, PostInv, UnpostedInv, UnansweredInv, WithdrawInv DEF Fault
<1>4. CASE World
  BY <1>4, WorldInv DEF World
<1>5. CASE UNCHANGED vars
  <2> USE <1>5 DEF vars, sourceVars, reportVars, historyVars, boundVars
  <2>1. StillActions
    BY DEF StillActions
  <2>2. TypeOK'
    BY DEF Inv, TypeOK
  <2>3. QED
    BY <2>1, <2>2, StillActs, StillTick DEF Inv
<1>6. QED
  BY <1>1, <1>2, <1>3, <1>4, <1>5 DEF Next

LEMMA Invariant == Spec => []Inv
<1>1. Init => Inv
  BY InitInv
<1>2. Inv /\ [Next]_vars => Inv'
  BY NextInv
<1>3. QED
  BY <1>1, <1>2, PTL DEF Spec

-----------------------------------------------------------------------------
(* Theorems. *)

\* Types, with the attempts of a PR step under their cap.
THEOREM TypeCorrect == Spec => []TypeOK
<1>1. Inv => TypeOK
  BY DEF Inv
<1>2. QED
  BY <1>1, Invariant, PTL

\* One paid call and one credential request for an action, over any number of
\* crashes, lost answers and ticks.
THEOREM PaidAtMostOnce == Spec => []PaidOnce
<1>1. Inv => PaidOnce
  BY DEF Inv, ActionInv, PaidInv, PaidOnce
<1>2. QED
  BY <1>1, Invariant, PTL

\* Only a timed out action has an answer beside its outcome.
THEOREM LateBesideTimeout == Spec => []LateOnlyAfterTimeout
<1>1. Inv => LateOnlyAfterTimeout
  BY DEF Inv, ActionInv, DecidedInv, LateOnlyAfterTimeout
<1>2. QED
  BY <1>1, Invariant, PTL

\* A reopen action reopens its report once, with its outcome.
THEOREM ReopensOnce == Spec => []ReopenedOnce
<1>1. Inv => ReopenedOnce
  BY DEF Inv, ActionInv, ReopenedInv, ReopenedOnce
<1>2. QED
  BY <1>1, Invariant, PTL

\* What an acknowledgement records is what sonicgrid has; one of a 400 leaves
\* it waiting, withdrawn, or with our outcome (_drain).
THEOREM AckIsTrue == Spec => []AckMatchesSource
<1>1. Inv => AckMatchesSource
  <2>1. ASSUME Inv, NEW a \in Actions
        PROVE  source[a] \in {"pending", "claimed", "gone"} \cup Told /\ DecidedInv(a)
    BY <2>1 DEF Inv, TypeOK, ActionInv
  <2>2. QED
    BY <2>1 DEF DecidedInv, AckMatchesSource
<1>2. QED
  BY <1>1, Invariant, PTL

-----------------------------------------------------------------------------
(* Action properties. *)

\* Only CallFixModel makes a paid call.
LEMMA PaidSteps ==
    ASSUME Inv, [Next]_vars, NEW a \in Actions, calls'[a] # calls[a]
    PROVE  CallFixModel(a) /\ asked[a].paid /\ calls'[a] = calls[a] + 1
<1> USE DEF sourceVars, reportVars, historyVars, boundVars
<1>1. calls' # calls
  OBVIOUS
<1>2. ~UNCHANGED vars /\ ~TickStep /\ ~Fault /\ ~World
  <2>1. ~UNCHANGED vars /\ ~World
    BY <1>1 DEF vars, World, BoundPasses, WorkerClaims, WorkerReleases, UserCloses, Import
  <2>2. ~Fault
    BY <1>1 DEF Fault, Abort, CrashRestart, PostRejected, PostUnanswered, ClaimUnanswered,
            Withdraw
  <2>3. ~TickStep
    BY <1>1 DEF TickStep, StartTick, Drain, ListActions, EndTick, ExpireSweep, PostTerminal,
                Reserve, Skip, HandleOverdue, Authorize, Refuse, ClaimDenied, Dispatch,
                RunInline, FinishInline, Reopen, RecoverPr, RecoverInline, RecoverEvidence,
                RecoverSettles, Redispatch, Wait
  <2>4. QED
    BY <2>1, <2>2, <2>3
<1>3. PICK b \in Actions : TaskStep(b)
  BY <1>2 DEF Next
<1>4. CallFixModel(b)
  BY <1>1, <1>3 DEF TaskStep, RequestKey, KeyRefused, ClaimFix, NotRun, FixDeclined, FixAnswered,
                    StartLocal, TriageAnswered, ClaimLocalization, LocalizationDeclined,
                    CallLocalModel, LocalAnswered, Return, StartPr, PrAnswers, PrAnswered
<1>5. calls \in [Actions -> Nat]
  BY DEF Inv, TypeOK
<1>6. asked[b].paid /\ calls' = [calls EXCEPT ![b] = calls[b] + 1]
  BY <1>1, <1>4 DEF CallFixModel
<1>7. a = b
  BY <1>5, <1>6
<1>8. QED
  BY <1>4, <1>5, <1>6, <1>7

\* The key of a paid call: the requester's if it is pinned, and only the
\* requester's while per-user keys are on.
THEOREM PaidOnTheRightKey == Spec => KeyOfPaidCall
<1>1. ASSUME Inv, [Next]_vars, NEW a \in Actions, calls'[a] # calls[a]
      PROVE  ledger[a].own = asked[a].own /\ (gate => ledger[a].own)
  <2>1. CallFixModel(a) /\ asked[a].paid
    BY <1>1, PaidSteps
  <2>2. ActionInv(a) /\ task[a].pc = "stage" /\ Running(a)
    BY <1>1, <2>1 DEF Inv, CallFixModel, At, Running
  <2>3. Kind(a) \in FixKinds
    BY <2>2 DEF ActionInv, PaidInv
  <2>4. ledger[a] \in LedgerRow /\ asked[a].own \in BOOLEAN /\ ledger[a].own \in BOOLEAN
    BY <1>1, RowTypes DEF Inv, LedgerRow
  <2>5. ledger[a].own <=> asked[a].own
    BY <2>2, <2>3 DEF ActionInv, RunningInv
  <2>6. gate => ledger[a].own
    BY <2>1, <2>2 DEF ActionInv, PaidInv
  <2>7. QED
    BY <2>4, <2>5, <2>6
<1>2. Inv /\ [Next]_vars => [\A a \in Actions : calls'[a] # calls[a] =>
                               ledger[a].own = asked[a].own /\ (gate => ledger[a].own)]_vars
  BY <1>1
<1>3. QED
  BY <1>2, Invariant, PTL DEF Spec, KeyOfPaidCall

\* Only StartPr enters the open-pr step.
LEMMA PrSteps ==
    ASSUME Inv, [Next]_vars, NEW a \in Actions, task[a].pc # "pr", task'[a].pc = "pr"
    PROVE  StartPr(a) /\ ~Ended(a)
<1> USE DEF sourceVars, reportVars, historyVars, boundVars
<1>1. task \in [Actions -> Task] /\ task' # task
  BY DEF Inv, TypeOK
<1>2. CASE TickStep
  <2>1. PICK b \in Actions : Dispatch(b) \/ RecoverPr(b) \/ RecoverEvidence(b)
    BY <1>1, <1>2 DEF TickStep, StartTick, Drain, ListActions, EndTick, ExpireSweep, PostTerminal,
                Reserve, Skip, HandleOverdue, Authorize, Refuse, ClaimDenied,
                RunInline, FinishInline, Reopen, RecoverInline, RecoverSettles, Redispatch, Wait
  <2>2. \E pc \in {"start", "prstart"} : task' = [task EXCEPT ![b] = [pc |-> pc, result |-> None]]
    BY <1>1, <2>1 DEF Dispatch, RecoverPr, RecoverEvidence, Spawn
  <2>3. QED
    BY <1>1, <2>2
<1>3. CASE \E b \in Actions : TaskStep(b)
  <2>1. PICK b \in Actions : TaskStep(b)
    BY <1>3
  <2>2. CASE StartPr(b)
    <3>1. CASE Step(b, "pr") /\ MayStartPr(b)
      BY <1>1, <2>2, <3>1 DEF Step, MayStartPr
    <3>2. CASE Exits(b, Expired[b])
      BY <1>1, <3>2 DEF Exits, NoTask
    <3>3. QED
      BY <2>2, <3>1, <3>2 DEF StartPr
  <2>3. CASE Return(b) \/ PrAnswers(b)
    <3>1. task' = [task EXCEPT ![b] = NoTask] \/ Spawn(b, "prstart")
      BY <2>3 DEF Return, PrAnswers, PrAnswered, Exits
    <3>2. QED
      BY <1>1, <3>1 DEF Spawn, NoTask
  <2>4. CASE Works(b)
    <3>1. \/ \E pc \in {"fetch", "stage", "model", "locating", "localizing"} : Step(b, pc)
          \/ \E pc \in {"returned", "triage", "locate"} :
                \E r : task' = [task EXCEPT ![b] = [pc |-> pc, result |-> r]]
      BY <2>4 DEF Works, RequestKey, KeyRefused, ClaimFix, NotRun, FixDeclined, CallFixModel,
                  FixAnswered, StartLocal, TriageAnswered, ClaimLocalization,
                  LocalizationDeclined, CallLocalModel, LocalAnswered, Returns
    <3>2. QED
      BY <1>1, <3>1 DEF Step, Task
  <2>5. QED
    BY <2>1, <2>2, <2>3, <2>4 DEF TaskStep, Works
<1>4. CASE Fault
  <2>1. task' = [b \in Actions |-> NoTask]
    BY <1>1, <1>4 DEF Fault, Abort, CrashRestart, PostRejected, PostUnanswered, ClaimUnanswered,
            Withdraw
  <2>2. QED
    BY <2>1 DEF NoTask
<1>5. CASE World \/ UNCHANGED vars
  BY <1>1, <1>5 DEF vars, World, BoundPasses, WorkerClaims, WorkerReleases, UserCloses, Import
<1>6. QED
  BY <1>2, <1>3, <1>4, <1>5 DEF Next

\* The open-pr step starts before the outcome, and after the proposal.
THEOREM PrBeforeOutcome == Spec => NoPrAfterOutcome
<1>1. ASSUME Inv, [Next]_vars, NEW a \in Actions, task[a].pc # "pr", task'[a].pc = "pr"
      PROVE  /\ ledger[a].outcome = None /\ source[a] \notin Told
             /\ Kind(a) = "fix_and_open_pr" => "made" \in rows[a]
  <2>1. StartPr(a) /\ ~Ended(a)
    BY <1>1, PrSteps
  <2>2. TypeOK /\ ActionInv(a) /\ task[a].pc = "prstart" /\ ledger[a].phase # "finished"
    BY <1>1, <2>1 DEF Inv, StartPr, At, Ended
  <2>3. ledger[a].outcome = None /\ source[a] \notin Told
    BY <2>2, OpenRow
  <2>4. Kind(a) = "fix_and_open_pr" => "made" \in rows[a]
    BY <2>2 DEF ActionInv, MadeInv
  <2>5. QED
    BY <2>3, <2>4
<1>2. Inv /\ [Next]_vars =>
        [\A a \in Actions : task[a].pc # "pr" /\ task'[a].pc = "pr" =>
            /\ ledger[a].outcome = None /\ source[a] \notin Told
            /\ Kind(a) = "fix_and_open_pr" => "made" \in rows[a]]_vars
  BY <1>1
<1>3. QED
  BY <1>2, Invariant, PTL DEF Spec, NoPrAfterOutcome

-----------------------------------------------------------------------------
(* The slots. *)

\* A slot is given back, or taken by _try_hold.
GivesBack == \A a \in Actions : hold'[a] \in {hold[a], "none"}

LEMMA GivesShare ==
    ASSUME Inv, ShareInv, asked' = asked, GivesBack
    PROVE  ShareInv'
<1>1. LlmHolders' \subseteq LlmHolders
  BY DEF LlmHolders, GivesBack
<1>2. IsFiniteSet(LlmHolders) /\ Cardinality(LlmHolders) <= Slots
  BY DEF ShareInv
<1>3. /\ IsFiniteSet(LlmHolders') /\ Cardinality(LlmHolders') <= Cardinality(LlmHolders)
      /\ Cardinality(LlmHolders) \in Nat /\ Cardinality(LlmHolders') \in Nat
  BY <1>1, <1>2, FS_Subset, FS_CardinalityType
<1>4. Cardinality(LlmHolders') <= Slots
  BY <1>2, <1>3, TriageAssumption
<1>5. \A a, b \in Actions : hold'[a] # "none" /\ hold'[b] # "none" /\ Report(a)' = Report(b)' => a = b
  BY DEF ShareInv, GivesBack, Report
<1>6. QED
  BY <1>3, <1>4, <1>5 DEF ShareInv

LEMMA TakesShare ==
    ASSUME Inv, ShareInv, asked' = asked, NEW a \in Actions, NEW slot \in {"free", "llm"},
           TryHold(a, slot)
    PROVE  ShareInv'
<1>1. CASE hold[a] # "none"
  <2>1. GivesBack
    BY <1>1 DEF TryHold, GivesBack
  <2>2. QED
    BY <2>1, GivesShare
<1>2. CASE hold[a] = "none"
  <2>1. /\ hold' = [hold EXCEPT ![a] = slot] /\ hold \in [Actions -> {"none", "free", "llm"}]
        /\ \A b \in Actions : hold[b] # "none" => Report(b) # Report(a)
        /\ slot = "llm" => Cardinality(LlmHolders) < Slots
    BY <1>2 DEF TryHold, MayHold, LlmHolders, Inv, TypeOK
  <2>2. \A b, c \in Actions : hold'[b] # "none" /\ hold'[c] # "none" /\ Report(b)' = Report(c)' => b = c
    BY <2>1 DEF ShareInv, Report
  <2>3. IsFiniteSet(LlmHolders) /\ Cardinality(LlmHolders) \in Nat /\ Cardinality(LlmHolders) <= Slots
    BY FS_CardinalityType DEF ShareInv
  <2>4. CASE slot = "llm"
    <3>1. LlmHolders' = LlmHolders \cup {a} /\ a \notin LlmHolders
      BY <1>2, <2>1, <2>4 DEF LlmHolders
    <3>2. IsFiniteSet(LlmHolders') /\ Cardinality(LlmHolders') = Cardinality(LlmHolders) + 1
      BY <2>3, <3>1, FS_AddElement
    <3>3. Cardinality(LlmHolders') <= Slots
      BY <2>1, <2>3, <2>4, <3>2, TriageAssumption
    <3>4. QED
      BY <2>2, <3>2, <3>3 DEF ShareInv
  <2>5. CASE slot = "free"
    <3>1. LlmHolders' = LlmHolders
      BY <1>2, <2>1, <2>5 DEF LlmHolders
    <3>2. QED
      BY <2>2, <2>3, <3>1 DEF ShareInv
  <2>6. QED
    BY <2>4, <2>5
<1>3. QED
  BY <1>1, <1>2

\* Steps of the tick that take a slot
LEMMA TakeSlots ==
    ASSUME Inv, SlotInv, NEW a \in Actions,
           Reserve(a) \/ RecoverPr(a) \/ RecoverInline(a) \/ Redispatch(a)
    PROVE  SlotInv'
<1> USE DEF sourceVars, reportVars, historyVars, boundVars
<1>1. /\ asked' = asked /\ tick.pc = "walk" /\ ~Running(a) /\ tick \in Tick
      /\ task \in [Actions -> Task] /\ hold \in [Actions -> {"none", "free", "llm"}]
  BY DEF Reserve, RecoverPr, RecoverInline, Redispatch, Unproved, Unsettled, Recoverable, Listed,
         Inv, TypeOK
<1>2. hold[a] = "none"
  BY <1>1 DEF SlotInv, HandInv, InHand
<1>3. SlotOf(a) \in {"free", "llm"}
  BY DEF SlotOf
<1>4. CASE Reserve(a) \/ Redispatch(a)
  <2>1. /\ TryHold(a, SlotOf(a)) /\ task' = task
        /\ \E pc \in {"claim", "dispatch"} : Goto(a, pc)
    BY <1>4 DEF Reserve, Redispatch
  <2>2. hold' = [hold EXCEPT ![a] = SlotOf(a)] /\ ShareInv'
    BY <1>1, <1>2, <1>3, <2>1, TakesShare DEF TryHold, SlotInv
  <2>3. tick'.pc \in {"claim", "dispatch"} /\ tick'.cur = a
    BY <1>1, <2>1 DEF Goto, Tick
  <2>4. SlotOf(a)' = SlotOf(a)
    BY <1>1 DEF SlotOf, Kind
  <2>5. HandInv'
    BY <1>1, <1>3, <2>1, <2>2, <2>3, <2>4 DEF SlotInv, HandInv, InHand, Running
  <2>6. QED
    BY <2>2, <2>5 DEF SlotInv
<1>5. CASE RecoverInline(a)
  <2>1. TryHold(a, "free") /\ task' = task /\ Goto(a, "inline")
    BY <1>5 DEF RecoverInline
  <2>2. hold' = [hold EXCEPT ![a] = "free"] /\ ShareInv'
    BY <1>1, <1>2, <2>1, TakesShare DEF TryHold, SlotInv
  <2>3. tick'.pc = "inline" /\ tick'.cur = a
    BY <1>1, <2>1 DEF Goto, Tick
  <2>4. HandInv'
    BY <1>1, <2>1, <2>2, <2>3 DEF SlotInv, HandInv, InHand, Running
  <2>5. QED
    BY <2>2, <2>4 DEF SlotInv
<1>6. CASE RecoverPr(a)
  <2>1. TryHold(a, "free") /\ Spawn(a, "prstart") /\ Handled(a)
    BY <1>6 DEF RecoverPr
  <2>2. hold' = [hold EXCEPT ![a] = "free"] /\ ShareInv'
    BY <1>1, <1>2, <2>1, TakesShare DEF TryHold, SlotInv
  <2>3. tick'.pc = "walk"
    BY <1>1, <2>1 DEF Handled, Tick
  <2>4. task'[a].pc = "prstart" /\ \A b \in Actions \ {a} : task'[b] = task[b]
    BY <1>1, <2>1 DEF Spawn
  <2>5. HandInv'
    BY <1>1, <2>2, <2>3, <2>4 DEF SlotInv, HandInv, InHand, Running
  <2>6. QED
    BY <2>2, <2>5 DEF SlotInv
<1>7. QED
  BY <1>4, <1>5, <1>6

\* A step that leaves the slots and the tick's hands alone, and no task exits
LEMMA KeepSlots ==
    ASSUME Inv, SlotInv, asked' = asked, hold' = hold,
           \A a \in Actions : /\ Running(a)' <=> Running(a)
                              /\ task'[a].pc = task[a].pc \/ task'[a].pc \in {"prstart", "pr"}
                                 \/ (Running(a) /\ task[a].pc \notin {"prstart", "pr"}),
           \/ tick' = tick
           \/ /\ tick.pc \notin {"claim", "dispatch", "inline", "inlined"}
              /\ tick'.pc \notin {"claim", "dispatch", "inline", "inlined"}
           \/ /\ tick'.pc \in {"dispatch", "inline", "inlined"} /\ tick'.cur = tick.cur
              /\ tick.pc \in {"claim", "dispatch", "inline"}
              /\ tick'.pc = "dispatch" => tick.pc = "claim"
    PROVE  SlotInv'
<1>1. ShareInv'
  BY GivesShare DEF GivesBack, SlotInv
<1>2. \A a \in Actions : InHand(a) => InHand(a)'
  BY DEF InHand
<1>3. \A a \in Actions : hold'[a] # "none" => Running(a)' \/ InHand(a)'
  BY <1>2 DEF SlotInv, HandInv
<1>4. \A a \in Actions : Running(a)' => hold'[a] # "none"
  BY DEF SlotInv, HandInv
<1>5. \A a \in Actions : Running(a)' /\ task'[a].pc \notin {"prstart", "pr"} => hold'[a] = "llm"
  BY DEF SlotInv, HandInv
<1>6. tick'.pc \in {"claim", "dispatch"} => (hold[tick.cur] = SlotOf(tick.cur))'
  BY DEF SlotInv, HandInv, SlotOf, Kind
<1>7. QED
  BY <1>1, <1>3, <1>4, <1>5, <1>6 DEF SlotInv, HandInv

\* The tick lets go of an action, and frees its slot
LEMMA TickFrees ==
    ASSUME Inv, SlotInv, asked' = asked, task' = task,
           tick.pc \in {"claim", "dispatch", "inline", "inlined"},
           hold' = [hold EXCEPT ![tick.cur] = "none"],
           tick'.pc \notin {"claim", "dispatch", "inline", "inlined"}
    PROVE  SlotInv'
<1>1. tick.cur \in Actions /\ ~Running(tick.cur) /\ hold \in [Actions -> {"none", "free", "llm"}]
  BY DEF Inv, TickInv, TypeOK
<1>2. GivesBack
  BY <1>1 DEF GivesBack
<1>3. ShareInv'
  BY <1>2, GivesShare DEF SlotInv
<1>4. HandInv'
  BY <1>1 DEF SlotInv, HandInv, InHand, Running
<1>5. QED
  BY <1>3, <1>4 DEF SlotInv

\* A task exits
LEMMA TaskFrees ==
    ASSUME Inv, SlotInv, UNCHANGED <<asked, tick>>, NEW a \in Actions, Running(a), NEW row,
           Exits(a, row)
    PROVE  SlotInv'
<1>1. /\ hold' = [hold EXCEPT ![a] = "none"] /\ hold \in [Actions -> {"none", "free", "llm"}]
      /\ task' = [task EXCEPT ![a] = NoTask] /\ task \in [Actions -> Task] /\ NoTask.pc = "none"
  BY DEF Exits, Release, NoTask, Inv, TypeOK
<1>2. tick.pc \in {"claim", "dispatch", "inline", "inlined"} => tick.cur \in Actions \ {a}
  BY DEF Inv, TickInv
<1>3. GivesBack
  BY <1>1 DEF GivesBack
<1>4. ShareInv'
  BY <1>3, GivesShare DEF SlotInv
<1>5. HandInv'
  <2>1. \A b \in Actions : hold'[b] # "none" => Running(b)' \/ InHand(b)'
    BY <1>1 DEF SlotInv, HandInv, InHand, Running
  <2>2. \A b \in Actions : Running(b)' => hold'[b] # "none"
    BY <1>1 DEF SlotInv, HandInv, Running
  <2>3. \A b \in Actions : Running(b)' /\ task'[b].pc \notin {"prstart", "pr"} => hold'[b] = "llm"
    BY <1>1 DEF SlotInv, HandInv, Running
  <2>4. tick'.pc \in {"claim", "dispatch"} => (hold[tick.cur] = SlotOf(tick.cur))'
    BY <1>1, <1>2 DEF SlotInv, HandInv, SlotOf, Kind
  <2>5. QED
    BY <2>1, <2>2, <2>3, <2>4 DEF HandInv
<1>6. QED
  BY <1>4, <1>5 DEF SlotInv

\* The tick hands its slot to a task
LEMMA DispatchSlots ==
    ASSUME Inv, SlotInv, NEW a \in Actions, Dispatch(a)
    PROVE  SlotInv'
<1> USE DEF sourceVars, reportVars, historyVars, boundVars
<1>1. /\ asked' = asked /\ hold' = hold /\ tick.pc = "dispatch" /\ tick.cur = a /\ ~Running(a)
      /\ hold[a] = SlotOf(a) /\ tick \in Tick /\ task \in [Actions -> Task]
  BY DEF Dispatch, Inv, TickInv, TypeOK, SlotInv, HandInv
<1>2. CASE Kind(a) \in InlineKinds /\ task' = task /\ tick' = [tick EXCEPT !.pc = "inline"]
  <2>1. tick'.pc = "inline" /\ tick'.cur = tick.cur
    BY <1>1, <1>2 DEF Tick
  <2>2. QED
    BY <1>1, <1>2, <2>1, KeepSlots DEF Running
<1>3. CASE /\ \E pc \in {"start", "prstart"} :
                 /\ task' = [task EXCEPT ![a] = [pc |-> pc, result |-> None]]
                 /\ pc = "start" => Kind(a) \in LlmKinds
           /\ tick' = [tick EXCEPT !.pc = "walk", !.cur = Idle]
  <2>1. tick'.pc = "walk"
    BY <1>1, <1>3 DEF Tick
  <2>2. /\ task'[a].pc \in {"start", "prstart"} /\ \A b \in Actions \ {a} : task'[b] = task[b]
        /\ task'[a].pc = "start" => SlotOf(a) = "llm"
    BY <1>1, <1>3 DEF SlotOf
  <2>3. SlotOf(a) # "none"
    BY DEF SlotOf
  <2>4. HandInv'
    BY <1>1, <2>1, <2>2, <2>3 DEF SlotInv, HandInv, InHand, Running
  <2>5. ShareInv'
    BY <1>1, GivesShare DEF GivesBack, SlotInv
  <2>6. QED
    BY <2>4, <2>5 DEF SlotInv
<1>4. QED
  BY <1>2, <1>3 DEF Dispatch

\* A proposal found in the rows: the PR step follows if a slot is free
LEMMA EvidenceSlots ==
    ASSUME Inv, SlotInv, NEW a \in Actions, RecoverEvidence(a)
    PROVE  SlotInv'
<1> USE DEF sourceVars, reportVars, historyVars, boundVars
<1>1. /\ asked' = asked /\ tick.pc = "walk" /\ ~Running(a) /\ tick \in Tick /\ Handled(a)
      /\ task \in [Actions -> Task] /\ hold \in [Actions -> {"none", "free", "llm"}]
  BY DEF RecoverEvidence, Unsettled, Recoverable, Listed, Inv, TypeOK
<1>2. hold[a] = "none"
  BY <1>1 DEF SlotInv, HandInv, InHand
<1>3. tick'.pc = "walk"
  BY <1>1 DEF Handled, Tick
<1>4. CASE hold' = hold /\ task' = task
  BY <1>1, <1>3, <1>4, KeepSlots DEF Running
<1>5. CASE TryHold(a, "free") /\ Spawn(a, "prstart")
  <2>1. hold' = [hold EXCEPT ![a] = "free"] /\ ShareInv'
    BY <1>1, <1>2, <1>5, TakesShare DEF TryHold, SlotInv
  <2>2. task'[a].pc = "prstart" /\ \A b \in Actions \ {a} : task'[b] = task[b]
    BY <1>1, <1>5 DEF Spawn
  <2>3. HandInv'
    BY <1>1, <1>3, <2>1, <2>2 DEF SlotInv, HandInv, InHand, Running
  <2>4. QED
    BY <2>1, <2>3 DEF SlotInv
<1>6. QED
  BY <1>4, <1>5 DEF RecoverEvidence

\* Steps that take and free nothing
LEMMA IdleSlots ==
    ASSUME Inv, SlotInv,
           \/ StartTick \/ Drain \/ ListActions \/ EndTick \/ ExpireSweep \/ World \/ UNCHANGED vars
           \/ \E a \in Actions :
                \/ PostTerminal(a) \/ Skip(a) \/ HandleOverdue(a) \/ RecoverSettles(a) \/ Wait(a)
                \/ Authorize(a) \/ RunInline(a) \/ Withdraw(a) \/ PostUnanswered(a)
                \/ PostRejected(a)
    PROVE  SlotInv'
<1> USE DEF sourceVars, reportVars, historyVars, boundVars
<1>1. tick \in Tick
  BY DEF Inv, TypeOK
<1>2. CASE StartTick \/ Drain \/ ListActions \/ EndTick \/ ExpireSweep \/ World \/ UNCHANGED vars
  <2>1. UNCHANGED <<asked, hold, task>>
    BY <1>2 DEF StartTick, Drain, ListActions, EndTick, ExpireSweep, World, BoundPasses,
                WorkerClaims, WorkerReleases, UserCloses, Import, vars
  <2>2. \/ tick' = tick
        \/ tick.pc \in {"idle", "check", "drain", "walk", "last"}
           /\ tick'.pc \in {"idle", "check", "drain", "walk", "last"}
    <3>1. CASE StartTick \/ Drain \/ ListActions
      BY <1>1, <3>1 DEF StartTick, Drain, ListActions, Tick
    <3>2. CASE EndTick
      BY <3>2 DEF EndTick, NoTick
    <3>3. CASE ExpireSweep \/ World \/ UNCHANGED vars
      BY <3>3 DEF ExpireSweep, World, BoundPasses, WorkerClaims, WorkerReleases, UserCloses, Import, vars
    <3>4. QED
      BY <1>2, <3>1, <3>2, <3>3
  <2>3. QED
    BY <2>1, <2>2, KeepSlots DEF Running
<1>3. ASSUME NEW a \in Actions, \/ PostTerminal(a) \/ Skip(a) \/ HandleOverdue(a)
                                \/ RecoverSettles(a) \/ Wait(a) \/ Withdraw(a)
                                \/ PostRejected(a) \/ PostUnanswered(a)
      PROVE SlotInv'
  <2>1. UNCHANGED <<asked, hold, task>>
    BY <1>3 DEF PostTerminal, Skip, HandleOverdue, RecoverSettles, Wait, Withdraw,
                PostRejected, PostUnanswered
  <2>2. \/ tick' = tick
        \/ tick.pc \in {"drain", "walk", "last"} /\ tick'.pc = tick.pc
    BY <1>1, <1>3 DEF PostTerminal, Skip, HandleOverdue, RecoverSettles, Wait, Withdraw,
                PostRejected, PostUnanswered, Handled,
                Unproved, Unsettled, Recoverable, Listed, Tick
  <2>3. QED
    BY <2>1, <2>2, KeepSlots DEF Running
<1>4. ASSUME NEW a \in Actions, Authorize(a) \/ RunInline(a)
      PROVE SlotInv'
  <2>1. UNCHANGED <<asked, hold, task>>
    BY <1>4 DEF Authorize, RunInline
  <2>2. /\ tick'.cur = tick.cur
        /\ \/ tick.pc = "claim" /\ tick'.pc = "dispatch"
           \/ tick.pc = "inline" /\ tick'.pc = "inlined"
    BY <1>1, <1>4 DEF Authorize, Claimed, RunInline, Tick
  <2>3. QED
    BY <2>1, <2>2, KeepSlots DEF Running
<1>5. QED
  BY <1>2, <1>3, <1>4

\* The tick lets an action go
LEMMA FreeSlots ==
    ASSUME Inv, SlotInv,
           Abort \/ \E a \in Actions : \/ Refuse(a) \/ ClaimDenied(a) \/ ClaimUnanswered(a)
                                       \/ FinishInline(a) \/ Reopen(a)
    PROVE  SlotInv'
<1> USE DEF sourceVars, reportVars, historyVars, boundVars
<1>1. tick \in Tick
  BY DEF Inv, TypeOK
<1>2. CASE Abort
  <2>1. UNCHANGED <<asked, task>> /\ tick'.pc = "idle"
    BY <1>2 DEF Abort, NoTick
  <2>2. CASE tick.pc = "claim"
    BY <1>2, <2>1, <2>2, TickFrees DEF Abort
  <2>3. CASE tick.pc # "claim"
    <3>1. hold' = hold /\ tick.pc \in {"drain", "walk", "last"}
      BY <1>2, <2>3 DEF Abort
    <3>2. QED
      BY <2>1, <3>1, KeepSlots DEF Running
  <2>4. QED
    BY <2>2, <2>3
<1>3. ASSUME NEW a \in Actions, Refuse(a) \/ ClaimDenied(a) \/ ClaimUnanswered(a) \/ FinishInline(a)
      PROVE SlotInv'
  <2>1. UNCHANGED <<asked, task>> /\ tick'.pc = "walk" /\ Release(a)
        /\ tick.cur = a /\ tick.pc \in {"claim", "inlined"}
    BY <1>1, <1>3 DEF Refuse, Claimed, ClaimDenied, ClaimUnanswered, FinishInline, Tick
  <2>2. QED
    BY <2>1, TickFrees DEF Release
<1>4. ASSUME NEW a \in Actions, Reopen(a)
      PROVE SlotInv'
  <2>1. UNCHANGED <<asked, task>> /\ tick.cur = a /\ tick.pc = "inline"
    BY <1>4 DEF Reopen
  <2>2. CASE ReopenedAtOnce(a)
    <3>1. tick'.pc = "walk" /\ Release(a)
      BY <1>1, <2>2 DEF ReopenedAtOnce, Tick
    <3>2. QED
      BY <2>1, <3>1, TickFrees DEF Release
  <2>3. CASE tick' = [tick EXCEPT !.pc = "inlined", !.result = "refused"] /\ hold' = hold
    <3>1. tick'.pc = "inlined" /\ tick'.cur = tick.cur
      BY <1>1, <2>3 DEF Tick
    <3>2. QED
      BY <2>1, <2>3, <3>1, KeepSlots DEF Running
  <2>4. QED
    BY <1>4, <2>2, <2>3 DEF Reopen
<1>5. QED
  BY <1>2, <1>3, <1>4

LEMMA TaskSlots ==
    ASSUME Inv, SlotInv, NEW a \in Actions, TaskStep(a)
    PROVE  SlotInv'
<1> USE DEF sourceVars, reportVars, historyVars, boundVars
<1>1. task \in [Actions -> Task]
  BY DEF Inv, TypeOK
<1>2. CASE Works(a)
  <2>1. UNCHANGED <<asked, hold, tick>> /\ Running(a) /\ task[a].pc \notin {"prstart", "pr"}
        /\ task' = [task EXCEPT ![a] = task'[a]] /\ task'[a].pc # "none"
    BY <1>2, WorksFrame
  <2>2. \A b \in Actions \ {a} : task'[b] = task[b]
    BY <1>1, <2>1
  <2>3. QED
    BY <2>1, <2>2, KeepSlots DEF Running
<1>3. CASE Return(a) \/ StartPr(a) \/ PrAnswers(a)
  <2>1. Running(a) /\ UNCHANGED <<asked, tick>>
    BY <1>3 DEF Return, StartPr, PrAnswers, PrAnswered, At, Running
  <2>2. \/ \E row : Exits(a, row)
        \/ hold' = hold /\ (Step(a, "pr") \/ Spawn(a, "prstart"))
    BY <1>3 DEF Return, StartPr, PrAnswers, PrAnswered
  <2>3. CASE \E row : Exits(a, row)
    BY <2>1, <2>3, TaskFrees
  <2>4. CASE hold' = hold /\ (Step(a, "pr") \/ Spawn(a, "prstart"))
    <3>1. task'[a].pc \in {"prstart", "pr"} /\ \A b \in Actions \ {a} : task'[b] = task[b]
      BY <1>1, <2>4 DEF Step, Spawn, Task
    <3>2. QED
      BY <2>1, <2>4, <3>1, KeepSlots DEF Running
  <2>5. QED
    BY <2>2, <2>3, <2>4
<1>4. QED
  BY <1>2, <1>3 DEF TaskStep, Works

LEMMA CrashSlots ==
    ASSUME Inv, SlotInv, CrashRestart
    PROVE  SlotInv'
<1>1. /\ asked' = asked /\ hold' = [a \in Actions |-> "none"] /\ tick' = NoTick
      /\ task' = [a \in Actions |-> NoTask]
  BY DEF CrashRestart, sourceVars
<1>2. NoTick.pc = "idle" /\ NoTask.pc = "none"
  BY DEF NoTick, NoTask
<1>3. HandInv'
  BY <1>1, <1>2 DEF HandInv, InHand, Running
<1>4. GivesBack
  BY <1>1 DEF GivesBack
<1>5. ShareInv'
  BY <1>1, <1>4, GivesShare DEF SlotInv
<1>6. QED
  BY <1>3, <1>5 DEF SlotInv

LEMMA SlotInitial == Init => SlotInv
<1> SUFFICES ASSUME Init PROVE SlotInv
  OBVIOUS
<1>1. HandInv
  BY DEF Init, HandInv, InHand, Running, NoTask, NoTick
<1>2. LlmHolders = {}
  BY DEF Init, LlmHolders
<1>3. IsFiniteSet(LlmHolders) /\ Cardinality(LlmHolders) <= Slots
  BY <1>2, FS_EmptySet, TriageAssumption
<1>4. ShareInv
  BY <1>3 DEF Init, ShareInv
<1>5. QED
  BY <1>1, <1>4 DEF SlotInv

LEMMA SlotStep == ASSUME Inv, SlotInv, [Next]_vars PROVE SlotInv'
<1>1. CASE TickStep
  BY <1>1, IdleSlots, FreeSlots, TakeSlots, DispatchSlots, EvidenceSlots DEF TickStep
<1>2. CASE \E a \in Actions : TaskStep(a)
  BY <1>2, TaskSlots
<1>3. CASE Fault
  BY <1>3, FreeSlots, CrashSlots, IdleSlots DEF Fault
<1>4. CASE World \/ UNCHANGED vars
  BY <1>4, IdleSlots
<1>5. QED
  BY <1>1, <1>2, <1>3, <1>4 DEF Next

\* Two tasks never work for one report, and at most Slots run models.
THEOREM SlotsNeverOversold == Spec => []SlotsRespected
<1>1. Inv /\ SlotInv => SlotsRespected
  <2> SUFFICES ASSUME Inv, SlotInv PROVE SlotsRespected
    OBVIOUS
  <2> DEFINE Modelling == {a \in Actions : /\ Running(a) /\ task[a].pc \notin {"prstart", "pr"}
                                           /\ Kind(a) \in LlmKinds}
  <2>1. \A a, b \in Actions : Running(a) /\ Running(b) /\ Report(a) = Report(b) => a = b
    BY DEF SlotInv, HandInv, ShareInv
  <2>2. Modelling \subseteq LlmHolders
    BY DEF SlotInv, HandInv, LlmHolders
  <2>3. IsFiniteSet(LlmHolders) /\ Cardinality(LlmHolders) <= Slots
    BY DEF SlotInv, ShareInv
  <2>4. /\ IsFiniteSet(Modelling) /\ Cardinality(Modelling) <= Cardinality(LlmHolders)
        /\ Cardinality(Modelling) \in Nat /\ Cardinality(LlmHolders) \in Nat
    BY <2>2, <2>3, FS_Subset, FS_CardinalityType
  <2>5. Cardinality(Modelling) <= Slots
    BY <2>3, <2>4, TriageAssumption
  <2>6. QED
    BY <2>1, <2>5, Zenon DEF SlotsRespected
<1>2. Inv /\ SlotInv /\ [Next]_vars => SlotInv'
  BY SlotStep
<1>3. Init => SlotInv
  BY SlotInitial
<1>4. QED
  BY <1>1, <1>2, <1>3, Invariant, PTL DEF Spec
=============================================================================
