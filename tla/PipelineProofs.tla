--------------------------- MODULE PipelineProofs ---------------------------
(***************************************************************************)
(* Theorems about Pipeline, for every set of reports and slots and every   *)
(* value of the settings and bounds.                                       *)
(***************************************************************************)
EXTENDS Pipeline, NaturalLemmas, TLAPS

-----------------------------------------------------------------------------
(* The newest row of a bounded, non-empty set of rows exists. *)

\* The CHOOSE of Newest (ORDER BY created_at DESC LIMIT 1) is met by one of
\* the rows as soon as there is a row and their stamps are bounded.
LEMMA NewestIsARow ==
    ASSUME NEW rows, rows \subseteq Analysis, rows # {},
           NEW m \in Nat, \A a \in rows : a.id <= m
    PROVE  /\ Newest(rows) \in rows
           /\ \A b \in rows : b.id <= Newest(rows).id
<1> DEFINE Gaps == {m - a.id : a \in rows}
<1>1. Gaps \subseteq Nat /\ Gaps # {}
  BY DEF Analysis
<1>2. PICK g \in Gaps : \A h \in Gaps : g <= h
  BY <1>1, LeastNatural
<1>3. PICK a \in rows : g = m - a.id
  OBVIOUS
<1>4. ASSUME NEW b \in rows
      PROVE  b.id <= a.id
  <2>1. g <= m - b.id
    BY <1>2
  <2>2. a.id \in Nat /\ b.id \in Nat
    BY DEF Analysis
  <2>3. QED
    BY <1>3, <2>1, <2>2
<1>5. QED
  BY <1>4 DEF Newest

-----------------------------------------------------------------------------
(* Type correctness. *)

\* Every stamp was issued by the clock of its report.
StampsIssued == \A r \in Reports : \A a \in analyses[r] : a.id <= clock[r]

\* A coroutine that runs has a report.
TasksHaveReports ==
    \A s \in Slots : task[s].pc # "idle" => task[s].report \in Reports

TypeInv == TypeOK /\ StampsIssued /\ TasksHaveReports

\* Only the coroutine of slot s moves.
OnlySlot(s) == \A t \in Slots : t # s => task'[t] = task[t]

\* Continue moves the program counter of one coroutine and nothing else.
LEMMA ContinueMoves ==
    ASSUME task \in [Slots -> Task], NEW s \in Slots, NEW pc, Continue(s, pc)
    PROVE  /\ OnlySlot(s)
           /\ task'[s].pc = pc /\ task'[s].report = task[s].report
           /\ task'[s].stage = task[s].stage /\ task'[s].row = task[s].row
           /\ task'[s].by = task[s].by /\ task'[s].next = task[s].next
           /\ task'[s].dup = task[s].dup
<1>1. task[s] \in Task /\ task' = [task EXCEPT ![s] = [task[s] EXCEPT !.pc = pc]]
  BY DEF Continue
<1>2. OnlySlot(s) /\ task'[s] = [task[s] EXCEPT !.pc = pc]
  BY <1>1 DEF OnlySlot
<1>3. QED
  BY <1>1, <1>2 DEF Task

\* SettleWith also sets the status to write.
LEMMA SettleMoves ==
    ASSUME task \in [Slots -> Task], NEW s \in Slots, NEW st, SettleWith(s, st)
    PROVE  /\ OnlySlot(s)
           /\ task'[s].pc = "settle" /\ task'[s].next = st
           /\ task'[s].report = task[s].report /\ task'[s].stage = task[s].stage
           /\ task'[s].row = task[s].row /\ task'[s].by = task[s].by
           /\ task'[s].dup = task[s].dup
<1>1. task[s] \in Task
      /\ task' = [task EXCEPT ![s] = [task[s] EXCEPT !.pc = "settle", !.next = st]]
  BY DEF SettleWith
<1>2. OnlySlot(s) /\ task'[s] = [task[s] EXCEPT !.pc = "settle", !.next = st]
  BY <1>1 DEF OnlySlot
<1>3. QED
  BY <1>1, <1>2 DEF Task

\* Such a step of a running coroutine keeps the coroutines' types.
LEMMA ContinueTyped ==
    ASSUME task \in [Slots -> Task], TasksHaveReports, NEW s \in Slots,
           NEW pc \in SyncPcs \cup AwaitPcs, task[s].pc # "idle", Continue(s, pc)
    PROVE  task' \in [Slots -> Task] /\ TasksHaveReports'
<1> DEFINE new == [task[s] EXCEPT !.pc = pc]
<1>1. new \in Task /\ new.report = task[s].report
  BY DEF Task
<1>2. task' = [task EXCEPT ![s] = new]
  BY DEF Continue
<1> HIDE DEF new
<1>3. QED
  BY <1>1, <1>2 DEF TasksHaveReports

LEMMA SettleTyped ==
    ASSUME task \in [Slots -> Task], TasksHaveReports, NEW s \in Slots,
           NEW st \in BugStatus, task[s].pc # "idle", SettleWith(s, st)
    PROVE  task' \in [Slots -> Task] /\ TasksHaveReports'
<1> DEFINE new == [task[s] EXCEPT !.pc = "settle", !.next = st]
<1>1. new \in Task /\ new.report = task[s].report
  BY DEF Task, SyncPcs
<1>2. task' = [task EXCEPT ![s] = new]
  BY DEF SettleWith
<1> HIDE DEF new
<1>3. QED
  BY <1>1, <1>2 DEF TasksHaveReports

USE DEF TypeInv

\* The worker's poll cycle keeps the types.
LEMMA PollTypes ==
    ASSUME TypeInv, Poll
    PROVE  TypeInv'
<1> USE DEF TypeOK, StampsIssued, TasksHaveReports, reportVars, rowVars, repoVars, boundVars
<1>1. ASSUME NEW stage \in Stages, NEW E \in SUBSET Reports
      PROVE  Sampled(stage, E) \subseteq Stages \X Reports
  BY DEF Sampled
<1>2. CASE PollSubmitted
  BY <1>2, <1>1 DEF PollSubmitted, Stages, Sampled
<1>3. CASE PollTriage
  BY <1>3, <1>1 DEF PollTriage, Stages, Sampled
<1>4. CASE PollLocalization
  BY <1>4, <1>1 DEF PollLocalization, Stages, Sampled
<1>5. CASE PollFix
  BY <1>5, <1>1 DEF PollFix, Stages, Sampled
<1>6. CASE CycleEnds
  BY <1>6 DEF CycleEnds
<1>7. QED
  BY <1>2, <1>3, <1>4, <1>5, <1>6 DEF Poll

\* The claims, won or lost, keep the types.
LEMMA ClaimTypes ==
    ASSUME TypeInv, NEW s \in Slots,
           ClaimValidation(s) \/ ClaimTriage(s) \/ ClaimLocalization(s) \/ ClaimFix(s)
           \/ ClaimLost(s)
    PROVE  TypeInv'
<1> USE DEF TypeOK, StampsIssued, TasksHaveReports, rowVars, repoVars, boundVars,
            loopVars, reportVars
<1>1. task[s] \in Task
  OBVIOUS
<1>2. ClaimOf(task[s].stage) \in BugStatus
  BY DEF ClaimOf, BugStatus
<1>3. CASE ClaimValidation(s)
  <2>1. PICK o \in Reports \cup {NoReport} :
            task' = [task EXCEPT ![s].pc = "settle", ![s].dup = o,
                         ![s].next = IF o = NoReport THEN "triaged" ELSE "duplicate"]
    BY <1>3 DEF ClaimValidation, DuplicateCandidates
  <2>2. task' \in [Slots -> Task]
    <3>1. ASSUME NEW st \in {"triaged", "duplicate"}
          PROVE  [task[s] EXCEPT !.pc = "settle", !.dup = o, !.next = st] \in Task
      BY <1>1 DEF Task, SyncPcs, BugStatus
    <3>2. QED
      BY <2>1, <3>1
  <2>3. TasksHaveReports'
    BY <1>1, <1>3, <2>1 DEF ClaimValidation, Task
  <2>4. QED
    BY <1>2, <1>3, <2>2, <2>3 DEF ClaimValidation, Claims
<1>4. CASE ClaimTriage(s)
  <2>1. task[s].pc # "idle" /\ Continue(s, "row")
    BY <1>4 DEF ClaimTriage
  <2>2. task' \in [Slots -> Task] /\ TasksHaveReports'
    BY <2>1, ContinueTyped DEF SyncPcs, AwaitPcs
  <2>3. QED
    BY <1>2, <1>4, <2>1, <2>2 DEF ClaimTriage, Claims
<1>5. CASE ClaimLocalization(s)
  <2>1. task[s].pc # "idle" /\ (SettleWith(s, "triaged") \/ Continue(s, "sha"))
    BY <1>5 DEF ClaimLocalization
  <2>2. task' \in [Slots -> Task] /\ TasksHaveReports'
    BY <2>1, ContinueTyped, SettleTyped DEF SyncPcs, AwaitPcs, BugStatus
  <2>3. QED
    BY <1>2, <1>5, <2>1, <2>2 DEF ClaimLocalization, Claims
<1>6. CASE ClaimFix(s)
  <2> DEFINE r == task[s].report
  <2>1. r \in Reports
    BY <1>6 DEF ClaimFix
  <2>2. Localized(r) => LatestLocalization(r).id \in Nat
    <3> DEFINE rows == RowsOf(r, "localization", "completed")
    <3>1. rows \subseteq Analysis /\ \A a \in rows : a.id <= clock[r]
      BY <2>1 DEF RowsOf
    <3>2. clock[r] \in Nat
      BY <2>1
    <3>3. rows # {} => Newest(rows) \in rows
      BY <3>1, <3>2, NewestIsARow
    <3>4. QED
      BY <3>1, <3>3 DEF Localized, LatestLocalization, Analysis
  <2>3. CASE SettleWith(s, "fix_proposed") \/ Continue(s, "rollback")
    <3>1. task[s].pc # "idle"
      BY <1>6 DEF ClaimFix
    <3>2. task' \in [Slots -> Task] /\ TasksHaveReports'
      BY <2>3, <3>1, ContinueTyped, SettleTyped DEF SyncPcs, BugStatus
    <3>3. QED
      BY <1>2, <1>6, <3>2 DEF ClaimFix, Claims
  <2>4. CASE /\ Fresh(r)
             /\ task' = [task EXCEPT ![s].pc = "files", ![s].row = LatestLocalization(r).id]
    <3> DEFINE new == [task[s] EXCEPT !.pc = "files", !.row = LatestLocalization(r).id]
    <3>1. new \in Task /\ new.report = r
      BY <1>1, <2>2, <2>4 DEF Fresh, Task, AwaitPcs
    <3>2. task' = [task EXCEPT ![s] = new]
      BY <2>4
    <3> HIDE DEF new
    <3>3. task' \in [Slots -> Task] /\ TasksHaveReports'
      BY <2>1, <3>1, <3>2
    <3>4. QED
      BY <1>2, <1>6, <3>3 DEF ClaimFix, Claims
  <2>5. QED
    BY <1>6, <2>3, <2>4 DEF ClaimFix
<1>7. CASE ClaimLost(s)
  <2>1. task' \in [Slots -> Task]
    BY <1>1, <1>7 DEF ClaimLost, AfterStage, NewTask, Idle, Task, SyncPcs, AwaitPcs, BugStatus,
                      Stages
  <2>2. TasksHaveReports'
    BY <1>7 DEF ClaimLost, AfterStage, NewTask, Idle
  <2>3. QED
    BY <1>7, <2>1, <2>2 DEF ClaimLost
<1>8. QED
  BY <1>3, <1>4, <1>5, <1>6, <1>7

\* The steps of a stage that only move its coroutine on keep the types.
LEMMA MoveTypes ==
    ASSUME TypeInv, NEW s \in Slots,
           ValidationFails(s) \/ ReadHead(s) \/ RecordHead(s) \/ LocalizationAborts(s)
           \/ FilesUnreadable(s) \/ CallFixModel(s)
    PROVE  TypeInv'
<1> USE DEF TypeOK, StampsIssued, TasksHaveReports, rowVars, repoVars, boundVars,
            loopVars, reportVars
<1>1. task[s] \in Task
  OBVIOUS
<1>2. CASE ValidationFails(s)
  <2>1. task[s].pc # "idle" /\ Continue(s, "rollback")
    BY <1>2 DEF ValidationFails
  <2>2. task' \in [Slots -> Task] /\ TasksHaveReports'
    BY <2>1, ContinueTyped DEF SyncPcs, AwaitPcs
  <2>3. QED
    BY <1>1, <1>2, <2>1, <2>2 DEF ValidationFails
<1>3. CASE ReadHead(s)
  <2>1. task' \in [Slots -> Task]
    BY <1>1, <1>3 DEF ReadHead, Task, SyncPcs, AwaitPcs
  <2>2. TasksHaveReports'
    BY <1>1, <1>3 DEF ReadHead, Task
  <2>3. QED
    BY <1>1, <1>3, <2>1, <2>2 DEF ReadHead
<1>4. CASE RecordHead(s)
  <2>1. task[s].pc # "idle" /\ (SettleWith(s, "triaged") \/ Continue(s, "map"))
    BY <1>4 DEF RecordHead
  <2>2. task' \in [Slots -> Task] /\ TasksHaveReports'
    BY <2>1, ContinueTyped, SettleTyped DEF SyncPcs, AwaitPcs, BugStatus
  <2>3. QED
    BY <1>1, <1>4, <2>1, <2>2 DEF RecordHead, Task
<1>5. CASE LocalizationAborts(s)
  <2>1. task[s].pc # "idle" /\ SettleWith(s, "triaged")
    BY <1>5 DEF LocalizationAborts
  <2>2. task' \in [Slots -> Task] /\ TasksHaveReports'
    BY <2>1, SettleTyped DEF BugStatus
  <2>3. QED
    BY <1>1, <1>5, <2>1, <2>2 DEF LocalizationAborts
<1>6. CASE FilesUnreadable(s)
  <2>1. task[s].pc # "idle" /\ Continue(s, "rollback")
    BY <1>6 DEF FilesUnreadable
  <2>2. task' \in [Slots -> Task] /\ TasksHaveReports'
    BY <2>1, ContinueTyped DEF SyncPcs, AwaitPcs
  <2>3. QED
    BY <1>1, <1>6, <2>1, <2>2 DEF FilesUnreadable
<1>7. CASE CallFixModel(s)
  <2>1. task[s].pc # "idle" /\ Continue(s, "paid")
    BY <1>7 DEF CallFixModel
  <2>2. task' \in [Slots -> Task] /\ TasksHaveReports'
    BY <2>1, ContinueTyped DEF SyncPcs, AwaitPcs
  <2>3. QED
    BY <1>1, <1>7, <2>1, <2>2 DEF CallFixModel, Task
<1>8. QED
  BY <1>2, <1>3, <1>4, <1>5, <1>6, <1>7

\* Facts about records and functions the next proofs cite.
LEMMA TaskWithRow ==
    ASSUME NEW t \in Task, NEW pc \in SyncPcs \cup AwaitPcs, NEW n \in Nat
    PROVE  /\ [t EXCEPT !.pc = pc, !.row = n] \in Task
           /\ [t EXCEPT !.pc = pc, !.row = n].report = t.report
  BY DEF Task

LEMMA RowsWith ==
    ASSUME NEW f \in [Reports -> SUBSET Analysis], NEW r \in Reports, NEW a \in Analysis
    PROVE  [f EXCEPT ![r] = f[r] \cup {a}] \in [Reports -> SUBSET Analysis]
<1>1. f[r] \cup {a} \in SUBSET Analysis
  OBVIOUS
<1>2. QED
  BY <1>1

\* The steps that write analysis rows of stages 2 and 3 keep the types.
LEMMA RowTypes ==
    ASSUME TypeInv, NEW s \in Slots,
           TriageRow(s) \/ LocalizationRow(s) \/ StageFails(s)
           \/ \E st \in {"triaged", "clarification_needed"} : StageSucceeds(s, st)
    PROVE  TypeInv'
<1> USE DEF TypeOK, StampsIssued, TasksHaveReports, rowVars, repoVars, boundVars,
            loopVars, reportVars
<1>1. task[s] \in Task
  OBVIOUS
<1> DEFINE r == task[s].report
<1>2. ASSUME NEW st \in {"completed", "failed"}, RowEnds(s, st), r \in Reports, clock' = clock
      PROVE  analyses' \in [Reports -> SUBSET Analysis] /\ StampsIssued'
  <2> DEFINE Ended(a) == IF a.id = task[s].row
                         THEN [a EXCEPT !.status = st, !.recent = (st = "failed"),
                                        !.sha = IF st = "completed" THEN task[s].sha ELSE 0]
                         ELSE a
  <2>1. analyses' = [analyses EXCEPT ![r] = {Ended(a) : a \in analyses[r]}]
    BY <1>2 DEF RowEnds
  <2>2. ASSUME NEW a \in Analysis
        PROVE  Ended(a) \in Analysis /\ Ended(a).id = a.id
    BY <1>1 DEF Analysis, Task
  <2> HIDE DEF Ended
  <2>3. analyses[r] \subseteq Analysis
    BY <1>2
  <2>4. analyses' \in [Reports -> SUBSET Analysis]
    <3>1. {Ended(a) : a \in analyses[r]} \in SUBSET Analysis
      BY <2>2, <2>3
    <3>2. QED
      BY <2>1, <3>1
  <2>5. StampsIssued'
    BY <1>2, <2>1, <2>2, <2>3
  <2>6. QED
    BY <2>4, <2>5
<1>3. CASE TriageRow(s)
  <2>1. r \in Reports
    BY <1>3 DEF TriageRow
  <2>2. task' \in [Slots -> Task] /\ TasksHaveReports'
    <3>1. "llm" \in SyncPcs \cup AwaitPcs /\ clock[r] + 1 \in Nat
      BY <2>1 DEF AwaitPcs
    <3>2. /\ [task[s] EXCEPT !.pc = "llm", !.row = clock[r] + 1] \in Task
          /\ [task[s] EXCEPT !.pc = "llm", !.row = clock[r] + 1].report = r
      BY <1>1, <3>1, TaskWithRow
    <3>3. task' = [task EXCEPT ![s] = [task[s] EXCEPT !.pc = "llm", !.row = clock[r] + 1]]
      BY <1>3 DEF TriageRow, RunningRow
    <3>4. QED
      BY <2>1, <3>1, <3>2, <3>3
  <2>3. Row(clock[r] + 1, "triage", "running", FALSE) \in Analysis
    BY <2>1 DEF Row, Analysis, Phases
  <2>4. analyses' \in [Reports -> SUBSET Analysis] /\ clock' \in [Reports -> Nat]
    <3>1. analyses' = [analyses EXCEPT ![r] =
                          analyses[r] \cup {Row(clock[r] + 1, "triage", "running", FALSE)}]
      BY <1>3 DEF TriageRow, RunningRow
    <3>2. clock' \in [Reports -> Nat]
      BY <1>3, <2>1 DEF TriageRow, RunningRow
    <3>3. QED
      BY <2>1, <2>3, <3>1, <3>2, RowsWith
  <2>5. StampsIssued'
    BY <1>3, <2>1 DEF TriageRow, RunningRow, Row, Analysis
  <2>6. QED
    BY <1>3, <2>2, <2>4, <2>5 DEF TriageRow
<1>4. CASE LocalizationRow(s)
  <2>1. r \in Reports
    BY <1>4 DEF LocalizationRow
  <2>2. task' \in [Slots -> Task] /\ TasksHaveReports'
    <3>1. "llm" \in SyncPcs \cup AwaitPcs /\ clock[r] + 1 \in Nat
      BY <2>1 DEF AwaitPcs
    <3>2. /\ [task[s] EXCEPT !.pc = "llm", !.row = clock[r] + 1] \in Task
          /\ [task[s] EXCEPT !.pc = "llm", !.row = clock[r] + 1].report = r
      BY <1>1, <3>1, TaskWithRow
    <3>3. task' = [task EXCEPT ![s] = [task[s] EXCEPT !.pc = "llm", !.row = clock[r] + 1]]
      BY <1>4 DEF LocalizationRow, RunningRow
    <3>4. QED
      BY <2>1, <3>1, <3>2, <3>3
  <2>3. Row(clock[r] + 1, "localization", "running", FALSE) \in Analysis
    BY <2>1 DEF Row, Analysis, Phases
  <2>4. analyses' \in [Reports -> SUBSET Analysis] /\ clock' \in [Reports -> Nat]
    <3>1. analyses' = [analyses EXCEPT ![r] =
                          analyses[r] \cup {Row(clock[r] + 1, "localization", "running", FALSE)}]
      BY <1>4 DEF LocalizationRow, RunningRow
    <3>2. clock' \in [Reports -> Nat]
      BY <1>4, <2>1 DEF LocalizationRow, RunningRow
    <3>3. QED
      BY <2>1, <2>3, <3>1, <3>2, RowsWith
  <2>5. StampsIssued'
    BY <1>4, <2>1 DEF LocalizationRow, RunningRow, Row, Analysis
  <2>6. QED
    BY <1>4, <2>2, <2>4, <2>5 DEF LocalizationRow
<1>5. CASE StageFails(s)
  <2>1. r \in Reports
    BY <1>5 DEF StageFails
  <2>2. task' \in [Slots -> Task] /\ TasksHaveReports'
    <3>1. task[s].pc # "idle" /\ SettleWith(s, "triaged")
      BY <1>5 DEF StageFails
    <3>2. QED
      BY <3>1, SettleTyped DEF BugStatus
  <2>3. analyses' \in [Reports -> SUBSET Analysis] /\ StampsIssued'
    BY <1>5, <2>1, <1>2 DEF StageFails
  <2>4. QED
    BY <1>5, <2>2, <2>3 DEF StageFails
<1>6. ASSUME NEW st \in {"triaged", "clarification_needed"}, StageSucceeds(s, st)
      PROVE  TypeInv'
  <2>1. r \in Reports
    BY <1>6 DEF StageSucceeds
  <2>2. task' \in [Slots -> Task] /\ TasksHaveReports'
    <3>1. task[s].pc # "idle" /\ SettleWith(s, st)
      BY <1>6 DEF StageSucceeds
    <3>2. QED
      BY <3>1, SettleTyped DEF BugStatus
  <2>3. analyses' \in [Reports -> SUBSET Analysis] /\ StampsIssued'
    BY <1>6, <2>1, <1>2 DEF StageSucceeds
  <2>4. QED
    BY <1>6, <2>1, <2>2, <2>3 DEF StageSucceeds
<1>7. QED
  BY <1>3, <1>4, <1>5, <1>6

\* The ends of a stage, which write the status, keep the types.
LEMMA EndTypes ==
    ASSUME TypeInv, NEW s \in Slots,
           Settle(s) \/ RollbackClaim(s) \/ RunBackground(s) \/ ReopenForAnalysis(s)
    PROVE  TypeInv'
<1> USE DEF TypeOK, StampsIssued, TasksHaveReports, rowVars, repoVars, boundVars,
            loopVars, reportVars
<1>1. task[s] \in Task
  OBVIOUS
<1> DEFINE r == task[s].report
<1>2. ClaimOf(task[s].stage) \in StageClaims
  BY DEF ClaimOf, StageClaims, Rollback
<1>3. \A c \in StageClaims : Rollback[c] \in BugStatus
  BY DEF StageClaims, Rollback, BugStatus
<1>4. Idle \in Task /\ Idle.pc = "idle"
  BY DEF Idle, Task, SyncPcs, AwaitPcs, Stages, BugStatus
<1>5. r \in Reports => LocalStage(r) \in Task /\ LocalStage(r).report = r
  BY DEF LocalStage, NewTask, Idle, Task, SyncPcs, AwaitPcs, Stages, BugStatus
<1>6. r \in Reports => AfterStage(s) \in Task /\ AfterStage(s).report \in {r, NoReport}
                       /\ (AfterStage(s).pc # "idle" => AfterStage(s).report = r)
  <2> DEFINE next == NewTask(r, task[s].by, "localize", "claim")
  <2>1. next.report = r
    BY DEF NewTask, Idle
  <2>2. r \in Reports => next \in Task
    BY <1>1 DEF NewTask, Idle, Task, SyncPcs, Stages, BugStatus
  <2>3. AfterStage(s) \in {next, Idle} /\ Idle.report = NoReport
    BY DEF AfterStage, Idle
  <2> HIDE DEF next
  <2>4. QED
    BY <1>4, <2>1, <2>2, <2>3
<1>7. CASE Settle(s)
  <2>1. r \in Reports
    BY <1>7 DEF Settle
  <2>2. task' \in [Slots -> Task] /\ TasksHaveReports'
    BY <1>6, <1>7, <2>1 DEF Settle
  <2>3. QED
    BY <1>1, <1>7, <2>1, <2>2 DEF Settle, Task
<1>8. CASE RollbackClaim(s)
  <2>1. task' \in [Slots -> Task] /\ TasksHaveReports'
    BY <1>4, <1>8 DEF RollbackClaim
  <2>2. QED
    BY <1>2, <1>3, <1>8, <2>1 DEF RollbackClaim
<1>9. CASE RunBackground(s)
  <2>1. r \in Reports
    BY <1>9 DEF RunBackground
  <2>2. PICK t : t \in {LocalStage(r), [task[s] EXCEPT !.pc = "claim"],
                        [task[s] EXCEPT !.pc = "reopen"]}
                 /\ task' = [task EXCEPT ![s] = t]
    BY <1>9 DEF RunBackground, Continue
  <2>3. t \in Task /\ t.report = r
    <3>1. ASSUME NEW pc \in {"claim", "reopen"}
          PROVE  [task[s] EXCEPT !.pc = pc] \in Task /\ [task[s] EXCEPT !.pc = pc].report = r
      BY <1>1 DEF Task, SyncPcs
    <3>2. QED
      BY <1>5, <2>1, <2>2, <3>1
  <2>4. task' \in [Slots -> Task] /\ TasksHaveReports'
    BY <2>1, <2>2, <2>3
  <2>5. QED
    BY <1>9, <2>4 DEF RunBackground, BugStatus
<1>10. CASE ReopenForAnalysis(s)
  <2>1. r \in Reports
    BY <1>10 DEF ReopenForAnalysis
  <2>2. task' \in [Slots -> Task] /\ TasksHaveReports'
    BY <1>5, <1>10, <2>1 DEF ReopenForAnalysis
  <2>3. QED
    BY <1>10, <2>2 DEF ReopenForAnalysis, BugStatus
<1>11. QED
  BY <1>7, <1>8, <1>9, <1>10

\* The outcomes of the paid call keep the types.
LEMMA FixTypes ==
    ASSUME TypeInv, NEW s \in Slots,
           FixAnswered(s) \/ CreateProposal(s) \/ \E perm \in BOOLEAN : FixFails(s, perm)
    PROVE  TypeInv'
<1> USE DEF TypeOK, StampsIssued, TasksHaveReports, rowVars, repoVars, boundVars,
            loopVars, reportVars
<1>1. task[s] \in Task
  OBVIOUS
<1> DEFINE r == task[s].report
<1>2. ASSUME NEW st \in {"completed", "failed"}, NEW perm \in BOOLEAN,
             FixRow(s, st, perm), r \in Reports
      PROVE  /\ analyses' \in [Reports -> SUBSET Analysis]
             /\ clock' \in [Reports -> Nat]
             /\ StampsIssued'
  <2> DEFINE a == Row(clock[r] + 1, "fix", st, perm)
  <2>1. a \in Analysis /\ a.id = clock[r] + 1
    BY <1>2 DEF Row, Analysis, Phases
  <2> HIDE DEF a
  <2>2. analyses' = [analyses EXCEPT ![r] = analyses[r] \cup {a}]
    BY <1>2 DEF FixRow, a
  <2>3. analyses' \in [Reports -> SUBSET Analysis]
    BY <1>2, <2>1, <2>2, RowsWith
  <2>4. clock' = [clock EXCEPT ![r] = clock[r] + 1]
    BY <1>2 DEF FixRow
  <2>5. \A x \in Reports : \A b \in analyses'[x] : b.id <= clock'[x]
    <3>1. ASSUME NEW x \in Reports, NEW b \in analyses'[x]
          PROVE  b.id <= clock'[x]
      <4>1. CASE b \in analyses[x]
        <5>1. b.id <= clock[x] /\ clock[x] \in Nat /\ b.id \in Nat
          BY <4>1 DEF Analysis
        <5>2. clock'[x] \in {clock[x], clock[x] + 1}
          BY <2>4
        <5>3. QED
          BY <5>1, <5>2
      <4>2. CASE b \notin analyses[x]
        <5>1. x = r /\ b = a
          BY <2>2, <4>2
        <5>2. clock'[x] = clock[r] + 1 /\ clock[r] \in Nat
          BY <1>2, <2>4, <5>1
        <5>3. QED
          BY <2>1, <5>1, <5>2
      <4>3. QED
        BY <4>1, <4>2
    <3>2. QED
      BY <3>1
  <2>6. QED
    BY <1>2, <2>3, <2>4, <2>5
<1>3. CASE FixAnswered(s)
  <2>1. r \in Reports
    BY <1>3 DEF FixAnswered
  <2>2. task' \in [Slots -> Task] /\ TasksHaveReports'
    <3>1. task[s].pc # "idle" /\ Continue(s, "propose")
      BY <1>3 DEF FixAnswered
    <3>2. QED
      BY <3>1, ContinueTyped DEF SyncPcs
  <2>3. QED
    BY <1>2, <1>3, <2>1, <2>2 DEF FixAnswered
<1>4. CASE CreateProposal(s)
  <2>1. r \in Reports
    BY <1>4 DEF CreateProposal
  <2>2. task' \in [Slots -> Task] /\ TasksHaveReports'
    <3>1. task[s].pc # "idle" /\ SettleWith(s, "fix_proposed")
      BY <1>4 DEF CreateProposal
    <3>2. QED
      BY <3>1, SettleTyped DEF BugStatus
  <2>3. proposals[r] \cup {[id |-> clock[r] + 1, analysis |-> task[s].row]} \in SUBSET Proposal
    BY <1>1, <2>1 DEF Proposal, Task
  <2>4. proposals' \in [Reports -> SUBSET Proposal]
    BY <1>4, <2>1, <2>3 DEF CreateProposal
  <2>5. clock' \in [Reports -> Nat] /\ StampsIssued'
    BY <1>4, <2>1 DEF CreateProposal, Analysis
  <2>6. QED
    BY <1>4, <2>2, <2>4, <2>5 DEF CreateProposal
<1>5. ASSUME NEW perm \in BOOLEAN, FixFails(s, perm)
      PROVE  TypeInv'
  <2>1. r \in Reports
    BY <1>5 DEF FixFails
  <2>2. task' \in [Slots -> Task] /\ TasksHaveReports'
    <3>1. task[s].pc # "idle" /\ Continue(s, "rollback")
      BY <1>5 DEF FixFails
    <3>2. QED
      BY <3>1, ContinueTyped DEF SyncPcs
  <2>3. QED
    BY <1>2, <1>5, <2>1, <2>2 DEF FixFails
<1>6. QED
  BY <1>3, <1>4, <1>5

\* The API routes keep the types.
LEMMA UserTypes ==
    ASSUME TypeInv, NEW r \in Reports, UserStep(r)
    PROVE  TypeInv'
<1> USE DEF TypeOK, StampsIssued, TasksHaveReports, rowVars, repoVars, boundVars,
            loopVars, reportVars
<1>1. ASSUME NEW m \in Modes, CreateReport(r, m)
      PROVE  TypeInv'
  BY <1>1, SettingsAssumption DEF CreateReport, BugStatus
<1>2. ASSUME NEW m \in Modes, PatchMode(r, m)
      PROVE  TypeInv'
  BY <1>2, SettingsAssumption DEF PatchMode, Edits
<1>3. ASSUME NEW target \in BugStatus, NEW why \in {reason[r], "other"},
             PatchStatus(r, target, why)
      PROVE  TypeInv'
  BY <1>3 DEF PatchStatus, Edits
<1>4. CASE DeleteReport(r)
  BY <1>4 DEF DeleteReport, Edits, BugStatus
<1>5. CASE RetryRequest(r)
  BY <1>5 DEF RetryRequest, Edits
<1>6. CASE ResetStageRetries(r)
  <2>1. {a \in analyses[r] : a.status # "failed"} \in SUBSET Analysis
    OBVIOUS
  <2>2. analyses' = [analyses EXCEPT ![r] = {a \in analyses[r] : a.status # "failed"}]
    BY <1>6 DEF ResetStageRetries
  <2>3. analyses' \in [Reports -> SUBSET Analysis]
    BY <2>1, <2>2
  <2>4. StampsIssued'
    BY <1>6, <2>2 DEF ResetStageRetries
  <2>5. QED
    BY <1>6, <2>3, <2>4 DEF ResetStageRetries
<1>7. ASSUME NEW stage \in Stages, NEW pc \in {"start", "claim"}, NEW by \in {"worker", "user"}
      PROVE  /\ NewTask(r, by, stage, pc) \in Task
             /\ NewTask(r, by, stage, pc).report = r
  BY DEF NewTask, Idle, Task, SyncPcs, AwaitPcs, BugStatus, Stages
<1>8. ASSUME NEW s \in Slots, AnalyzeLocal(s, r)
      PROVE  TypeInv'
  <2>1. task' \in [Slots -> Task] /\ TasksHaveReports'
    BY <1>7, <1>8 DEF AnalyzeLocal, Stages
  <2>2. QED
    BY <1>8, <2>1 DEF AnalyzeLocal, Edits
<1>9. ASSUME NEW s \in Slots, AnalyzeCloud(s, r)
      PROVE  TypeInv'
  <2>1. task' \in [Slots -> Task] /\ TasksHaveReports'
    BY <1>7, <1>9 DEF AnalyzeCloud, Stages
  <2>2. QED
    BY <1>9, <2>1 DEF AnalyzeCloud, Edits
<1>10. QED
  BY <1>1, <1>2, <1>3, <1>4, <1>5, <1>6, <1>8, <1>9 DEF UserStep

\* A job that takes its permit keeps the types.
LEMMA JobTypes ==
    ASSUME TypeInv, NEW s \in Slots, NEW stage \in Stages, NEW r \in Reports,
           StartJob(s, stage, r)
    PROVE  TypeInv'
<1> USE DEF TypeOK, StampsIssued, TasksHaveReports, rowVars, repoVars, boundVars,
            loopVars, reportVars
<1>1. NewTask(r, "worker", stage, "claim") \in Task /\ NewTask(r, "worker", stage, "claim").report = r
  BY DEF NewTask, Idle, Task, SyncPcs, AwaitPcs, BugStatus
<1>2. task' \in [Slots -> Task] /\ TasksHaveReports'
  BY <1>1 DEF StartJob
<1>3. QED
  BY <1>2 DEF StartJob

\* Pulls and the passing of time keep the types.
LEMMA WorldTypes ==
    ASSUME TypeInv,
           PullRepo \/ (\E sha \in pulls : RecordPull(sha))
           \/ \E r \in Reports : \E a \in analyses[r] : DelayElapses(r, a)
    PROVE  TypeInv'
<1> USE DEF TypeOK, StampsIssued, TasksHaveReports, rowVars, repoVars, boundVars,
            loopVars, reportVars
<1>1. CASE PullRepo
  BY <1>1 DEF PullRepo
<1>2. ASSUME NEW sha \in pulls, RecordPull(sha)
      PROVE  TypeInv'
  BY <1>2 DEF RecordPull
<1>3. ASSUME NEW r \in Reports, NEW a \in analyses[r], DelayElapses(r, a)
      PROVE  TypeInv'
  <2> DEFINE b == [a EXCEPT !.recent = FALSE]
  <2>1. b \in Analysis /\ b.id = a.id
    <3>1. a \in Analysis
      OBVIOUS
    <3>2. QED
      BY <3>1 DEF Analysis
  <2> HIDE DEF b
  <2>2. analyses' = [analyses EXCEPT ![r] = (analyses[r] \ {a}) \cup {b}]
    BY <1>3 DEF DelayElapses, b
  <2>3. (analyses[r] \ {a}) \cup {b} \in SUBSET Analysis
    BY <2>1
  <2>4. analyses' \in [Reports -> SUBSET Analysis]
    BY <2>2, <2>3
  <2>5. StampsIssued'
    BY <1>3, <2>1, <2>2 DEF DelayElapses
  <2>6. QED
    BY <1>3, <2>4, <2>5 DEF DelayElapses
<1>4. QED
  BY <1>1, <1>2, <1>3

\* The start-up recovery keeps the types.
LEMMA CrashTypes ==
    ASSUME TypeInv, CrashRestart
    PROVE  TypeInv'
<1> USE DEF TypeOK, StampsIssued, TasksHaveReports, rowVars, repoVars, boundVars,
            loopVars, reportVars
<1>1. \A st \in BugStatus \cup {"absent"} : RecoveredStatus(st) \in BugStatus \cup {"absent"}
  BY DEF RecoveredStatus, StageClaims, Rollback, BugStatus
<1>2. Idle \in Task /\ Idle.pc = "idle"
  BY DEF Idle, Task, SyncPcs, AwaitPcs, Stages, BugStatus
<1>3. ASSUME NEW r \in Reports, NEW b \in RecoveredRows(r)
      PROVE  b \in Analysis /\ b.id <= clock'[r]
  <2> DEFINE Ended(a) == IF a.status = "running"
                         THEN [a EXCEPT !.status = "failed", !.recent = TRUE] ELSE a
  <2>1. ASSUME NEW a \in Analysis
        PROVE  Ended(a) \in Analysis /\ Ended(a).id = a.id
    BY DEF Analysis
  <2> HIDE DEF Ended
  <2>2. clock[r] \in Nat /\ clock'[r] = IF status[r] = "fix_proposing" THEN clock[r] + 1
                                        ELSE clock[r]
    BY DEF CrashRestart
  <2>3. \/ \E a \in analyses[r] : b = Ended(a)
        \/ status[r] = "fix_proposing" /\ b = Row(clock[r] + 1, "fix", "failed", TRUE)
    BY <1>3 DEF RecoveredRows, Ended
  <2>4. CASE \E a \in analyses[r] : b = Ended(a)
    <3>1. PICK a \in analyses[r] : b = Ended(a)
      BY <2>4
    <3>2. a \in Analysis /\ a.id <= clock[r] /\ a.id \in Nat
      BY DEF Analysis
    <3>3. QED
      BY <2>1, <2>2, <3>1, <3>2
  <2>5. CASE status[r] = "fix_proposing" /\ b = Row(clock[r] + 1, "fix", "failed", TRUE)
    BY <2>2, <2>5 DEF Row, Analysis, Phases
  <2>6. QED
    BY <2>3, <2>4, <2>5
<1>4. analyses' \in [Reports -> SUBSET Analysis]
  BY <1>3 DEF CrashRestart
<1>5. StampsIssued'
  BY <1>3 DEF CrashRestart
<1>6. task' \in [Slots -> Task] /\ TasksHaveReports'
  BY <1>2 DEF CrashRestart
<1>7. status' \in [Reports -> BugStatus \cup {"absent"}]
  BY <1>1 DEF CrashRestart
<1>8. clock' \in [Reports -> Nat]
  BY DEF CrashRestart
<1>9. QED
  BY <1>4, <1>5, <1>6, <1>7, <1>8 DEF CrashRestart

\* The initial state has the types.
LEMMA InitTypes == Init => TypeInv
<1>1. Idle \in Task /\ Idle.pc = "idle"
  BY DEF Idle, Task, SyncPcs, AwaitPcs, Stages, BugStatus
<1>2. QED
  BY <1>1 DEF Init, TypeOK, StampsIssued, TasksHaveReports

\* Every step of the pipeline keeps the types.
LEMMA NextTypes == TypeInv /\ [Next]_vars => TypeInv'
<1> SUFFICES ASSUME TypeInv, [Next]_vars
             PROVE  TypeInv'
  OBVIOUS
<1>1. ASSUME NEW s \in Slots, StageStep(s)
      PROVE  TypeInv'
  BY <1>1, ClaimTypes, MoveTypes, RowTypes, EndTypes, FixTypes DEF StageStep
<1>2. CASE UNCHANGED vars
  BY <1>2 DEF vars, TypeOK, StampsIssued, TasksHaveReports
<1>3. CASE Next
  BY <1>1, <1>3, PollTypes, JobTypes, UserTypes, WorldTypes, CrashTypes DEF Next
<1>4. QED
  BY <1>2, <1>3

\* Report rows, analysis rows and coroutines have their types in every
\* behaviour: no operation writes a status, a phase or a stamp outside of the
\* ones the queries know, the recovery of a crash included.
THEOREM TypeCorrect == Spec => []TypeOK
<1>1. Spec => []TypeInv
  BY InitTypes, NextTypes, PTL DEF Spec
<1>2. TypeInv => TypeOK
  OBVIOUS
<1>3. QED
  BY <1>1, <1>2, PTL

-----------------------------------------------------------------------------
(* Exclusive claims. ClaimsHeld and NoDoubleProcessing need each other: the *)
(* compare-and-set of a claim excludes a second stage only because a stage  *)
(* in progress shows in the status, and the status stays because the other  *)
(* writers at the end of a stage write only their own report's.             *)

ClaimInv == ClaimsHeld /\ NoDoubleProcessing

\* Only the status of report r is written.
OnlyStatus(r) == \A x \in Reports : x # r => status'[x] = status[x]

\* A coroutine in a stage has a report, and its claim is a stage claim.
LEMMA InStageFacts ==
    ASSUME TypeInv, NEW s \in Slots, InStage(s)
    PROVE  task[s].report \in Reports /\ ClaimOf(task[s].stage) \in StageClaims
  BY DEF TasksHaveReports, InStage, ClaimOf, StageClaims, Rollback

\* A step within a stage, or outside of any, keeps the claims.
LEMMA StageContinues ==
    ASSUME TypeInv, ClaimInv, NEW s \in Slots, OnlySlot(s), status' = status,
           InStage(s)' => /\ InStage(s)
                          /\ task'[s].report = task[s].report
                          /\ task'[s].stage = task[s].stage
    PROVE  ClaimInv'
  BY DEF ClaimInv, ClaimsHeld, NoDoubleProcessing, InStage, OnlySlot

\* The write that ends a stage, whatever it writes, keeps the others' claims.
LEMMA StageEnds ==
    ASSUME TypeInv, ClaimInv, NEW s \in Slots, OnlySlot(s), OnlyStatus(task[s].report),
           InStage(s), ~InStage(s)'
    PROVE  ClaimInv'
<1>1. ASSUME NEW t \in Slots, InStage(t)'
      PROVE  /\ t # s /\ InStage(t) /\ task'[t] = task[t]
             /\ status'[task[t].report] = status[task[t].report]
  <2>1. t # s /\ InStage(t) /\ task'[t] = task[t]
    BY <1>1 DEF OnlySlot, InStage
  <2>2. task[t].report \in Reports /\ task[t].report # task[s].report
    BY <2>1, InStageFacts DEF ClaimInv, NoDoubleProcessing
  <2>3. QED
    BY <2>1, <2>2 DEF OnlyStatus
<1>2. QED
  BY <1>1 DEF ClaimInv, ClaimsHeld, NoDoubleProcessing

\* The claim of a report no stage holds makes its slot the only holder.
LEMMA StageBegins ==
    ASSUME TypeInv, ClaimInv, NEW s \in Slots, OnlySlot(s), OnlyStatus(task[s].report),
           status[task[s].report] \notin StageClaims,
           task'[s].report = task[s].report,
           status'[task[s].report] = ClaimOf(task'[s].stage)
    PROVE  ClaimInv'
<1>1. ASSUME NEW t \in Slots, t # s, InStage(t)'
      PROVE  /\ InStage(t) /\ task'[t] = task[t]
             /\ task[t].report # task[s].report
             /\ status'[task[t].report] = status[task[t].report]
  <2>1. InStage(t) /\ task'[t] = task[t]
    BY <1>1 DEF OnlySlot, InStage
  <2>2. task[t].report \in Reports /\ task[t].report # task[s].report
    BY <2>1, InStageFacts DEF ClaimInv, ClaimsHeld
  <2>3. QED
    BY <2>1, <2>2 DEF OnlyStatus
<1>2. QED
  BY <1>1 DEF ClaimInv, ClaimsHeld, NoDoubleProcessing

\* A user's write to a report that is in no stage claim keeps the claims.
LEMMA ReportEdited ==
    ASSUME TypeInv, ClaimInv, NEW r \in Reports, OnlyStatus(r), task' = task,
           status[r] \notin StageClaims
    PROVE  ClaimInv'
<1>1. ASSUME NEW t \in Slots, InStage(t)
      PROVE  status'[task[t].report] = status[task[t].report]
  BY <1>1, InStageFacts DEF OnlyStatus, ClaimInv, ClaimsHeld
<1>2. QED
  BY <1>1 DEF ClaimInv, ClaimsHeld, NoDoubleProcessing, InStage

\* The steps within a stage keep the claims.
LEMMA WithinStageClaims ==
    ASSUME TypeInv, ClaimInv, NEW s \in Slots,
           ValidationFails(s) \/ ReadHead(s) \/ LocalizationAborts(s) \/ FilesUnreadable(s)
           \/ CallFixModel(s) \/ TriageRow(s) \/ LocalizationRow(s) \/ StageFails(s)
           \/ FixAnswered(s) \/ CreateProposal(s)
           \/ RecordHead(s)
           \/ (\E st \in {"triaged", "clarification_needed"} : StageSucceeds(s, st))
           \/ \E perm \in BOOLEAN : FixFails(s, perm)
    PROVE  ClaimInv'
<1> USE DEF OnlySlot, reportVars, SyncPcs, AwaitPcs
<1>1. task \in [Slots -> Task] /\ task[s] \in Task
  BY DEF TypeOK
<1>2. CASE ValidationFails(s)
  BY <1>1, <1>2, StageContinues DEF ValidationFails, Continue, InStage, Task
<1>3. CASE ReadHead(s)
  BY <1>1, <1>3, StageContinues DEF ReadHead, InStage, Task
<1>4. CASE LocalizationAborts(s)
  BY <1>1, <1>4, StageContinues DEF LocalizationAborts, SettleWith, InStage, Task
<1>5. CASE FilesUnreadable(s)
  BY <1>1, <1>5, StageContinues DEF FilesUnreadable, Continue, InStage, Task
<1>6. CASE CallFixModel(s)
  BY <1>1, <1>6, StageContinues DEF CallFixModel, Continue, InStage, Task
<1>7. CASE TriageRow(s)
  BY <1>1, <1>7, StageContinues DEF TriageRow, RunningRow, InStage, Task
<1>8. CASE LocalizationRow(s)
  BY <1>1, <1>8, StageContinues DEF LocalizationRow, RunningRow, InStage, Task
<1>9. CASE StageFails(s)
  BY <1>1, <1>9, StageContinues DEF StageFails, SettleWith, InStage, Task
<1>10. CASE FixAnswered(s)
  BY <1>1, <1>10, StageContinues DEF FixAnswered, Continue, InStage, Task
<1>11. CASE CreateProposal(s)
  BY <1>1, <1>11, StageContinues DEF CreateProposal, SettleWith, InStage, Task
<1>12. CASE RecordHead(s)
  <2>1. \/ task' = [task EXCEPT ![s].pc = "settle", ![s].next = "triaged"]
        \/ task' = [task EXCEPT ![s].pc = "map"]
    BY <1>12 DEF RecordHead, Continue, SettleWith
  <2>2. InStage(s) /\ status' = status
    BY <1>12 DEF RecordHead, InStage
  <2>3. OnlySlot(s) /\ task'[s].report = task[s].report /\ task'[s].stage = task[s].stage
    BY <1>1, <2>1 DEF Task
  <2>4. QED
    BY <2>2, <2>3, StageContinues
<1>13. ASSUME NEW st \in {"triaged", "clarification_needed"}, StageSucceeds(s, st)
      PROVE  ClaimInv'
  BY <1>1, <1>13, StageContinues DEF StageSucceeds, SettleWith, InStage, Task
<1>14. ASSUME NEW perm \in BOOLEAN, FixFails(s, perm)
      PROVE  ClaimInv'
  BY <1>1, <1>14, StageContinues DEF FixFails, Continue, InStage, Task
<1>15. QED
  BY <1>2, <1>3, <1>4, <1>5, <1>6, <1>7, <1>8, <1>9, <1>10, <1>11, <1>12, <1>13, <1>14

\* Winning or losing a claim keeps the claims.
LEMMA ClaimingClaims ==
    ASSUME TypeInv, ClaimInv, NEW s \in Slots,
           ClaimValidation(s) \/ ClaimTriage(s) \/ ClaimLocalization(s) \/ ClaimFix(s)
           \/ ClaimLost(s)
    PROVE  ClaimInv'
<1>1. /\ task \in [Slots -> Task] /\ task[s] \in Task
      /\ status \in [Reports -> BugStatus \cup {"absent"}]
  BY DEF TypeOK
<1> DEFINE r == task[s].report
<1>2. ASSUME NEW from \in {"submitted", "triaged"}, Claims(s, from), r \in Reports,
             OnlySlot(s), task'[s].report = r, task'[s].stage = task[s].stage
      PROVE  ClaimInv'
  <2>1. status[r] \notin StageClaims
    BY <1>2 DEF Claims, StageClaims, Rollback
  <2>2. status'[r] = ClaimOf(task'[s].stage) /\ OnlyStatus(r)
    BY <1>1, <1>2 DEF Claims, OnlyStatus
  <2>3. QED
    BY <1>2, <2>1, <2>2, StageBegins
<1>3. CASE ClaimValidation(s)
  <2>1. r \in Reports
    BY <1>3 DEF ClaimValidation, TasksHaveReports
  <2>2. OnlySlot(s) /\ task'[s].report = r /\ task'[s].stage = task[s].stage
    <3>1. PICK o : task' = [task EXCEPT ![s].pc = "settle", ![s].dup = o,
                       ![s].next = IF o = NoReport THEN "triaged" ELSE "duplicate"]
      BY <1>3 DEF ClaimValidation
    <3>2. QED
      BY <1>1, <3>1 DEF OnlySlot, Task
  <2>3. QED
    BY <1>2, <1>3, <2>1, <2>2 DEF ClaimValidation
<1>4. CASE ClaimTriage(s)
  <2>1. r \in Reports
    BY <1>4 DEF ClaimTriage, TasksHaveReports
  <2>2. OnlySlot(s) /\ task'[s].report = r /\ task'[s].stage = task[s].stage
    BY <1>1, <1>4 DEF ClaimTriage, Continue, OnlySlot, Task
  <2>3. QED
    BY <1>2, <1>4, <2>1, <2>2 DEF ClaimTriage
<1>5. CASE ClaimLocalization(s)
  <2>1. r \in Reports
    BY <1>5 DEF ClaimLocalization, TasksHaveReports
  <2>2. OnlySlot(s) /\ task'[s].report = r /\ task'[s].stage = task[s].stage
    BY <1>1, <1>5 DEF ClaimLocalization, Continue, SettleWith, OnlySlot, Task
  <2>3. QED
    BY <1>2, <1>5, <2>1, <2>2 DEF ClaimLocalization
<1>6. CASE ClaimFix(s)
  <2>1. r \in Reports
    BY <1>6 DEF ClaimFix, TasksHaveReports
  <2>2. OnlySlot(s) /\ task'[s].report = r /\ task'[s].stage = task[s].stage
    <3>1. \/ task' = [task EXCEPT ![s].pc = "settle", ![s].next = "fix_proposed"]
          \/ task' = [task EXCEPT ![s].pc = "rollback"]
          \/ task' = [task EXCEPT ![s].pc = "files", ![s].row = LatestLocalization(r).id]
      BY <1>6 DEF ClaimFix, Continue, SettleWith
    <3>2. QED
      BY <1>1, <3>1 DEF OnlySlot, Task
  <2>3. QED
    BY <1>2, <1>6, <2>1, <2>2 DEF ClaimFix
<1>7. CASE ClaimLost(s)
  <2>1. AfterStage(s).pc \in {"idle", "claim"}
    BY DEF AfterStage, NewTask, Idle
  <2>2. OnlySlot(s) /\ status' = status /\ ~InStage(s)'
    BY <1>1, <1>7, <2>1 DEF ClaimLost, OnlySlot, InStage, reportVars
  <2>3. QED
    BY <2>2, StageContinues
<1>8. QED
  BY <1>3, <1>4, <1>5, <1>6, <1>7

\* The unconditional writes at the end of a stage, and the start of a manual
\* run, keep the claims.
LEMMA EndingClaims ==
    ASSUME TypeInv, ClaimInv, NEW s \in Slots,
           Settle(s) \/ RollbackClaim(s) \/ RunBackground(s) \/ ReopenForAnalysis(s)
    PROVE  ClaimInv'
<1>1. /\ task \in [Slots -> Task] /\ task[s] \in Task
      /\ status \in [Reports -> BugStatus \cup {"absent"}]
  BY DEF TypeOK
<1> DEFINE r == task[s].report
<1>2. AfterStage(s).pc \in {"idle", "claim"} /\ Idle.pc = "idle" /\ LocalStage(r).pc = "claim"
  BY DEF AfterStage, NewTask, Idle, LocalStage
<1>3. CASE Settle(s)
  <2>1. InStage(s) /\ OnlySlot(s) /\ OnlyStatus(r) /\ ~InStage(s)'
    BY <1>1, <1>2, <1>3 DEF Settle, InStage, OnlySlot, OnlyStatus, SyncPcs, AwaitPcs
  <2>2. QED
    BY <2>1, StageEnds
<1>4. CASE RollbackClaim(s)
  <2>1. InStage(s) /\ OnlySlot(s) /\ OnlyStatus(r) /\ ~InStage(s)'
    BY <1>1, <1>2, <1>4 DEF RollbackClaim, InStage, OnlySlot, OnlyStatus, SyncPcs, AwaitPcs
  <2>2. QED
    BY <2>1, StageEnds
<1>5. CASE ReopenForAnalysis(s)
  <2>1. InStage(s) /\ OnlySlot(s) /\ OnlyStatus(r) /\ ~InStage(s)'
    BY <1>1, <1>2, <1>5 DEF ReopenForAnalysis, InStage, OnlySlot, OnlyStatus, SyncPcs, AwaitPcs
  <2>2. QED
    BY <2>1, StageEnds
<1>6. CASE RunBackground(s) /\ task[s].stage = "localize" /\ status[r] = "clarification_needed"
  <2>1. r \in Reports
    BY <1>6 DEF RunBackground, TasksHaveReports
  <2>2. OnlySlot(s) /\ task'[s].report = r /\ task'[s].stage = "localize"
    BY <1>1, <1>6 DEF RunBackground, Continue, OnlySlot, Task
  <2>3. OnlyStatus(r) /\ status'[r] = "analyzing"
    BY <1>1, <1>6, <2>1 DEF RunBackground, OnlyStatus
  <2>4. status[r] \notin StageClaims /\ ClaimOf("localize") = "analyzing"
    BY <1>6 DEF StageClaims, Rollback, ClaimOf
  <2>5. QED
    BY <2>2, <2>3, <2>4, StageBegins
<1>7. CASE RunBackground(s) /\ ~(task[s].stage = "localize" /\ status[r] = "clarification_needed")
  <2>1. [task[s] EXCEPT !.pc = "claim"].pc = "claim"
    BY <1>1 DEF Task
  <2>2. OnlySlot(s) /\ status' = status /\ task'[s].pc = "claim"
    BY <1>1, <1>2, <1>7, <2>1 DEF RunBackground, OnlySlot
  <2>3. QED
    BY <2>2, StageContinues DEF InStage
<1>8. QED
  BY <1>3, <1>4, <1>5, <1>6, <1>7

\* The routes keep the claims, if users leave reports in a stage claim alone.
LEMMA UserClaims ==
    ASSUME TypeInv, ClaimInv, NEW r \in Reports, UserStep(r), "leave" \notin HandEdits
    PROVE  ClaimInv'
<1>1. task \in [Slots -> Task] /\ status \in [Reports -> BugStatus \cup {"absent"}]
  BY DEF TypeOK
<1>2. ASSUME NEW m \in Modes, CreateReport(r, m)
      PROVE  ClaimInv'
  BY <1>1, <1>2, ReportEdited DEF CreateReport, OnlyStatus, StageClaims, Rollback
<1>3. ASSUME NEW target \in BugStatus, NEW why \in {reason[r], "other"},
             PatchStatus(r, target, why)
      PROVE  ClaimInv'
  BY <1>1, <1>3, ReportEdited DEF PatchStatus, OnlyStatus
<1>4. CASE DeleteReport(r)
  BY <1>1, <1>4, ReportEdited DEF DeleteReport, OnlyStatus
<1>5. CASE RetryRequest(r) \/ ResetStageRetries(r) \/ \E m \in Modes : PatchMode(r, m)
  <2>1. UNCHANGED <<task, status>>
    BY <1>5 DEF RetryRequest, ResetStageRetries, PatchMode, reportVars
  <2>2. QED
    BY <2>1 DEF ClaimInv, ClaimsHeld, NoDoubleProcessing, InStage
<1>6. ASSUME NEW s \in Slots, AnalyzeLocal(s, r) \/ AnalyzeCloud(s, r)
      PROVE  ClaimInv'
  <2>1. PICK stage \in {"localize", "fix"} :
            task' = [task EXCEPT ![s] = NewTask(r, "user", stage, "start")]
    BY <1>6 DEF AnalyzeLocal, AnalyzeCloud
  <2>2. NewTask(r, "user", stage, "start").pc = "start"
    BY DEF NewTask, Idle
  <2>3. OnlySlot(s) /\ status' = status /\ ~InStage(s)'
    BY <1>1, <1>6, <2>1, <2>2 DEF AnalyzeLocal, AnalyzeCloud, OnlySlot, InStage, reportVars
  <2>4. QED
    BY <2>3, StageContinues
<1>7. QED
  BY <1>2, <1>3, <1>4, <1>5, <1>6 DEF UserStep

\* Every step keeps the claims, under the same assumption.
LEMMA NextClaims ==
    ASSUME "leave" \notin HandEdits, TypeInv, ClaimInv, [Next]_vars
    PROVE  ClaimInv'
<1>1. task \in [Slots -> Task]
  BY DEF TypeOK
<1>2. ASSUME UNCHANGED <<task, status>>
      PROVE  ClaimInv'
  BY <1>2 DEF ClaimInv, ClaimsHeld, NoDoubleProcessing, InStage
<1>3. ASSUME NEW s \in Slots, StageStep(s)
      PROVE  ClaimInv'
  BY <1>3, WithinStageClaims, ClaimingClaims, EndingClaims DEF StageStep
<1>4. CASE Poll
  BY <1>2, <1>4 DEF Poll, PollSubmitted, PollTriage, PollLocalization, PollFix, CycleEnds,
                    reportVars
<1>5. ASSUME NEW s \in Slots, NEW stage \in Stages, NEW r \in Reports, StartJob(s, stage, r)
      PROVE  ClaimInv'
  <2>1. NewTask(r, "worker", stage, "claim").pc = "claim"
    BY DEF NewTask, Idle
  <2>2. OnlySlot(s) /\ status' = status /\ ~InStage(s)'
    BY <1>1, <1>5, <2>1 DEF StartJob, OnlySlot, InStage, reportVars
  <2>3. QED
    BY <2>2, StageContinues
<1>6. CASE PullRepo \/ (\E sha \in pulls : RecordPull(sha))
           \/ \E r \in Reports : \E a \in analyses[r] : DelayElapses(r, a)
  BY <1>2, <1>6 DEF PullRepo, RecordPull, DelayElapses, reportVars
<1>7. CASE CrashRestart
  <2>1. \A s \in Slots : ~InStage(s)'
    BY <1>7 DEF CrashRestart, InStage, Idle
  <2>2. QED
    BY <2>1 DEF ClaimInv, ClaimsHeld, NoDoubleProcessing
<1>8. CASE UNCHANGED vars
  BY <1>2, <1>8 DEF vars
<1>9. QED
  BY <1>3, <1>4, <1>5, <1>6, <1>7, <1>8, UserClaims DEF Next

\* The initial state has no claims.
LEMMA InitClaims == Init => ClaimInv
  BY DEF Init, ClaimInv, ClaimsHeld, NoDoubleProcessing, InStage, Idle

\* If users leave reports in a stage claim alone, the atomic claim excludes
\* double processing: a running stage always holds its claim, and no two
\* coroutines are in a stage of one report. For every number of reports and
\* slots, over crashes, retries and manual runs.
THEOREM ExclusiveClaims ==
    ASSUME "leave" \notin HandEdits
    PROVE  Spec => [](ClaimsHeld /\ NoDoubleProcessing)
<1>1. Init => TypeInv /\ ClaimInv
  BY InitTypes, InitClaims
<1>2. (TypeInv /\ ClaimInv) /\ [Next]_vars => (TypeInv /\ ClaimInv)'
  BY NextTypes, NextClaims
<1>3. Spec => [](TypeInv /\ ClaimInv)
  BY <1>1, <1>2, PTL DEF Spec
<1>4. TypeInv /\ ClaimInv => ClaimsHeld /\ NoDoubleProcessing
  BY DEF ClaimInv
<1>5. QED
  BY <1>3, <1>4, PTL

-----------------------------------------------------------------------------
(* Terminal statuses. *)

Final == {"rejected", "duplicate"}

\* A step that writes no final report's status, or writes it a final one.
KeepsFinal == \A r \in Reports : status[r] \in Final => status'[r] \in Final

\* The writes of a stage go to a report in the stage's claim.
LEMMA StageKeepsFinal ==
    ASSUME TypeInv, ClaimInv, NEW s \in Slots, StageStep(s)
    PROVE  KeepsFinal
<1> USE DEF KeepsFinal, Final
<1>1. status \in [Reports -> BugStatus \cup {"absent"}]
  BY DEF TypeOK
<1> DEFINE r == task[s].report
<1>2. CASE status' = status
  BY <1>2
<1>3. ASSUME OnlyStatus(r), status[r] \notin Final
      PROVE  KeepsFinal
  BY <1>3 DEF OnlyStatus
<1>4. ASSUME NEW from \in {"submitted", "triaged"}, Claims(s, from)
      PROVE  KeepsFinal
  BY <1>1, <1>3, <1>4 DEF Claims, OnlyStatus
<1>5. CASE ClaimValidation(s) \/ ClaimTriage(s) \/ ClaimLocalization(s) \/ ClaimFix(s)
  BY <1>4, <1>5 DEF ClaimValidation, ClaimTriage, ClaimLocalization, ClaimFix
<1>6. CASE Settle(s) \/ RollbackClaim(s) \/ ReopenForAnalysis(s)
  <2>1. InStage(s)
    BY <1>6 DEF Settle, RollbackClaim, ReopenForAnalysis, InStage, SyncPcs
  <2>2. status[r] \in StageClaims
    BY <2>1, InStageFacts DEF ClaimInv, ClaimsHeld
  <2>3. status[r] \notin Final
    BY <2>2 DEF StageClaims, Rollback
  <2>4. OnlyStatus(r)
    BY <1>1, <1>6 DEF Settle, RollbackClaim, ReopenForAnalysis, OnlyStatus
  <2>5. QED
    BY <1>3, <2>3, <2>4
<1>7. CASE RunBackground(s)
  BY <1>1, <1>7 DEF RunBackground
<1>8. CASE ClaimLost(s) \/ ValidationFails(s) \/ ReadHead(s) \/ RecordHead(s)
           \/ LocalizationAborts(s) \/ FilesUnreadable(s) \/ CallFixModel(s)
  BY <1>2, <1>8 DEF ClaimLost, ValidationFails, ReadHead, RecordHead, LocalizationAborts,
                    FilesUnreadable, CallFixModel, reportVars
<1>9. CASE TriageRow(s) \/ LocalizationRow(s) \/ StageFails(s) \/ FixAnswered(s)
           \/ CreateProposal(s) \/ (\E st \in {"triaged", "clarification_needed"} :
                                       StageSucceeds(s, st))
           \/ \E perm \in BOOLEAN : FixFails(s, perm)
  BY <1>2, <1>9 DEF TriageRow, LocalizationRow, StageFails, FixAnswered, CreateProposal,
                    StageSucceeds, FixFails, reportVars
<1>10. QED
  BY <1>5, <1>6, <1>7, <1>8, <1>9 DEF StageStep

\* No step takes a report out of a final status.
LEMMA NextKeepsFinal ==
    ASSUME TypeInv, ClaimInv, [Next]_vars
    PROVE  KeepsFinal
<1> USE DEF KeepsFinal, Final
<1>1. status \in [Reports -> BugStatus \cup {"absent"}]
  BY DEF TypeOK
<1>2. CASE status' = status
  BY <1>2
<1>3. ASSUME NEW r \in Reports, UserStep(r)
      PROVE  KeepsFinal
  <2>1. ASSUME NEW m \in Modes, CreateReport(r, m)
        PROVE  KeepsFinal
    BY <1>1, <2>1 DEF CreateReport
  <2>2. ASSUME NEW target \in BugStatus, NEW why \in {reason[r], "other"},
               PatchStatus(r, target, why)
        PROVE  KeepsFinal
    BY <1>1, <2>2 DEF PatchStatus, PatchAllowed, Terminal
  <2>3. CASE DeleteReport(r)
    BY <1>1, <2>3 DEF DeleteReport
  <2>4. CASE RetryRequest(r) \/ ResetStageRetries(r) \/ (\E m \in Modes : PatchMode(r, m))
             \/ \E s \in Slots : AnalyzeLocal(s, r) \/ AnalyzeCloud(s, r)
    BY <1>2, <2>4 DEF RetryRequest, ResetStageRetries, PatchMode, AnalyzeLocal, AnalyzeCloud,
                      reportVars
  <2>5. QED
    BY <1>3, <2>1, <2>2, <2>3, <2>4 DEF UserStep
<1>4. CASE Poll
  BY <1>2, <1>4 DEF Poll, PollSubmitted, PollTriage, PollLocalization, PollFix, CycleEnds,
                    reportVars
<1>5. CASE \E s \in Slots, stage \in Stages, r \in Reports : StartJob(s, stage, r)
  BY <1>2, <1>5 DEF StartJob, reportVars
<1>6. CASE PullRepo \/ (\E sha \in pulls : RecordPull(sha))
           \/ \E r \in Reports : \E a \in analyses[r] : DelayElapses(r, a)
  BY <1>2, <1>6 DEF PullRepo, RecordPull, DelayElapses, reportVars
<1>7. CASE CrashRestart
  BY <1>1, <1>7 DEF CrashRestart, RecoveredStatus, StageClaims, Rollback
<1>8. CASE UNCHANGED vars
  BY <1>2, <1>8 DEF vars
<1>9. QED
  BY <1>3, <1>4, <1>5, <1>6, <1>7, <1>8, StageKeepsFinal DEF Next

\* Under the same assumption a rejected (deleted) report or a duplicate stays
\* one: the status writes that are not conditional on the claim never meet a
\* report that has left the workflow.
THEOREM TerminalStays ==
    ASSUME "leave" \notin HandEdits
    PROVE  Spec => TerminalIsFinal
<1>1. Init => TypeInv /\ ClaimInv
  BY InitTypes, InitClaims
<1>2. (TypeInv /\ ClaimInv) /\ [Next]_vars => (TypeInv /\ ClaimInv)'
  BY NextTypes, NextClaims
<1>3. TypeInv /\ ClaimInv /\ [Next]_vars =>
          [\A r \in Reports : status[r] \in {"rejected", "duplicate"}
                                  => status'[r] \in {"rejected", "duplicate"}]_vars
  BY NextKeepsFinal DEF KeepsFinal, Final
<1>4. QED
  BY <1>1, <1>2, <1>3, PTL DEF Spec, TerminalIsFinal

-----------------------------------------------------------------------------
(* Duplicate links. They stay acyclic however users edit reports that a     *)
(* stage holds: find_duplicate and the write of its answer have no await    *)
(* between them, and a report once out of validation never comes back.      *)

\* The statuses a report has before its validation ends
Unvalidated == {"absent", "submitted", "validating"}

\* A chosen original is another report and no duplicate itself.
OriginalOk(s) ==
    task[s].pc = "settle" /\ task[s].next = "duplicate" =>
        /\ task[s].stage = "validate"
        /\ task[s].dup \in Reports \ {task[s].report}
        /\ dupOf[task[s].dup] = NoReport

\* Who works on a report works on one without a link; the later stages on one
\* that is validated for good, and validation works alone, without an await.
WorkerOk(s) ==
    /\ dupOf[task[s].report] = NoReport
    /\ task[s].stage # "validate" => status[task[s].report] \notin Unvalidated
    /\ task[s].stage = "validate" =>
          /\ task[s].pc \in {"settle", "rollback"}
          /\ \A t \in Slots : InStage(t) /\ task[t].report = task[s].report => t = s
    /\ task[s].pc = "settle" => task[s].next \notin Unvalidated
    /\ OriginalOk(s)

LinkInv ==
    /\ \A x \in Reports : dupOf[x] # NoReport => status[x] \in Final
    /\ \A s \in Slots : InStage(s) => WorkerOk(s)

\* While a coroutine is at a point without an await, no other is.
LEMMA AloneInSync ==
    ASSUME NEW s \in Slots, MayRun(s), NEW t \in Slots, task[t].pc \in SyncPcs
    PROVE  t = s
  BY DEF MayRun

\* A step within a stage other than validation, or to the rollback of one.
LEMMA LinksWithin ==
    ASSUME TypeInv, LinkInv, NEW s \in Slots, OnlySlot(s), status' = status, dupOf' = dupOf,
           InStage(s), task'[s].report = task[s].report, task'[s].stage = task[s].stage,
           task[s].stage = "validate" => task'[s].pc = "rollback",
           task'[s].pc = "settle" => task'[s].next \notin Unvalidated \cup {"duplicate"}
    PROVE  LinkInv'
<1>1. ASSUME NEW t \in Slots, InStage(t)' PROVE InStage(t) /\ task'[t].report = task[t].report
  BY <1>1 DEF OnlySlot, InStage
<1>2. ASSUME NEW t \in Slots, InStage(t)' PROVE WorkerOk(t)'
  <2>1. WorkerOk(t) /\ InStage(t)
    BY <1>1, <1>2 DEF LinkInv
  <2>2. CASE t = s
    BY <1>1, <2>1, <2>2 DEF WorkerOk, OriginalOk
  <2>3. CASE t # s
    <3>1. task'[t] = task[t]
      BY <2>3 DEF OnlySlot
    <3>2. QED
      BY <1>1, <2>1, <3>1 DEF WorkerOk, OriginalOk
  <2>4. QED
    BY <2>2, <2>3
<1>3. QED
  BY <1>2 DEF LinkInv

\* A coroutine outside of any stage moves or is replaced.
LEMMA LinksOutside ==
    ASSUME TypeInv, LinkInv, NEW s \in Slots, OnlySlot(s), status' = status, dupOf' = dupOf,
           ~InStage(s)'
    PROVE  LinkInv'
<1>1. ASSUME NEW t \in Slots, InStage(t)' PROVE InStage(t) /\ t # s /\ task'[t] = task[t]
  BY <1>1 DEF OnlySlot, InStage
<1>2. ASSUME NEW t \in Slots, InStage(t)' PROVE WorkerOk(t)'
  BY <1>1, <1>2 DEF LinkInv, WorkerOk, OriginalOk
<1>3. QED
  BY <1>2 DEF LinkInv

\* A stage begins on a report that is in no claim and not final.
LEMMA LinksBegin ==
    ASSUME TypeInv, LinkInv, NEW s \in Slots, OnlySlot(s), OnlyStatus(task[s].report),
           MayRun(s), ~InStage(s), task[s].report \in Reports, dupOf' = dupOf,
           task'[s].report = task[s].report,
           status[task[s].report] \in {"submitted", "triaged", "clarification_needed"},
           task'[s].stage = "validate" <=> status[task[s].report] = "submitted",
           status'[task[s].report] = ClaimOf(task'[s].stage), task'[s].stage \in Stages,
           task'[s].stage = "validate" => task'[s].pc = "settle",
           task'[s].pc = "settle" => task'[s].next \notin Unvalidated,
           OriginalOk(s)'
    PROVE  LinkInv'
<1> DEFINE r == task[s].report
<1>1. dupOf[r] = NoReport
  BY DEF LinkInv, Final
<1>2. \A t \in Slots : t # s /\ InStage(t) => task[t].stage # "validate"
  BY AloneInSync DEF LinkInv, WorkerOk, SyncPcs
<1>3. \A t \in Slots : t # s /\ InStage(t) /\ task[t].report = r => task'[s].stage # "validate"
  BY <1>2 DEF LinkInv, WorkerOk, Unvalidated
<1>4. \A t \in Slots : t # s => (InStage(t)' <=> InStage(t)) /\ task'[t] = task[t]
  BY DEF OnlySlot, InStage
<1>5. task'[s].stage # "validate" => status'[r] \notin Unvalidated
  BY DEF ClaimOf, Unvalidated, Stages
<1>6. WorkerOk(s)'
  BY <1>1, <1>3, <1>4, <1>5 DEF WorkerOk
<1>7. ASSUME NEW t \in Slots, t # s, InStage(t)' PROVE WorkerOk(t)'
  <2>1. InStage(t) /\ WorkerOk(t) /\ task'[t] = task[t] /\ task[t].report \in Reports
    BY <1>4, <1>7, InStageFacts DEF LinkInv
  <2>2. task[t].stage # "validate"
    BY <1>2, <1>7, <2>1
  <2>3. status'[task[t].report] \notin Unvalidated
    <3>1. CASE task[t].report = r
      BY <1>3, <1>5, <1>7, <2>1, <3>1
    <3>2. CASE task[t].report # r
      BY <2>1, <2>2, <3>2 DEF OnlyStatus, WorkerOk
    <3>3. QED
      BY <3>1, <3>2
  <2>4. QED
    BY <2>1, <2>2, <2>3 DEF WorkerOk, OriginalOk
<1>8. \A x \in Reports : dupOf'[x] # NoReport => status'[x] \in Final
  BY <1>1 DEF LinkInv, OnlyStatus
<1>9. QED
  BY <1>6, <1>7, <1>8 DEF LinkInv

\* A stage ends with a status that is none before validation, or gives its
\* report back; a link is written with the status that makes it final.
LEMMA LinksEnd ==
    ASSUME TypeInv, LinkInv, NEW s \in Slots, OnlySlot(s), OnlyStatus(task[s].report),
           InStage(s), ~InStage(s)', MayRun(s),
           \/ task[s].stage = "validate"
           \/ status'[task[s].report] \in {status[task[s].report], "triaged"}
           \/ status'[task[s].report] \notin Unvalidated,
           \/ dupOf' = dupOf
           \/ /\ task[s].stage = "validate"
              /\ status'[task[s].report] \in Final
              /\ \A x \in Reports : x # task[s].report => dupOf'[x] = dupOf[x]
    PROVE  LinkInv'
<1> DEFINE r == task[s].report
<1>1. WorkerOk(s) /\ r \in Reports
  BY InStageFacts DEF LinkInv
<1>2. \A t \in Slots : InStage(t)' => t # s /\ InStage(t) /\ task'[t] = task[t]
  BY DEF OnlySlot, InStage
<1>3. ASSUME NEW t \in Slots, InStage(t)' PROVE WorkerOk(t)'
  <2>1. /\ t # s /\ InStage(t) /\ WorkerOk(t) /\ task'[t] = task[t] /\ task[t].report \in Reports
    BY <1>2, <1>3, InStageFacts DEF LinkInv
  <2>2. task[t].report = r => task[s].stage # "validate" /\ task[t].stage # "validate"
    BY <1>1, <2>1 DEF WorkerOk
  <2>3. dupOf'[task[t].report] = NoReport
    BY <2>1, <2>2 DEF WorkerOk
  <2>4. task[t].stage # "validate" => status'[task[t].report] \notin Unvalidated
    BY <1>1, <2>1, <2>2 DEF WorkerOk, OnlyStatus, Unvalidated
  <2>5. task[t].stage = "validate" => task[t].pc \in SyncPcs
    BY <2>1 DEF WorkerOk, SyncPcs
  <2>6. task[t].stage # "validate"
    BY <2>1, <2>5, AloneInSync
  <2>7. OriginalOk(t)'
    BY <2>1, <2>6 DEF WorkerOk, OriginalOk
  <2>8. QED
    BY <2>1, <2>3, <2>4, <2>6, <2>7 DEF WorkerOk
<1>4. \A x \in Reports : dupOf'[x] # NoReport => status'[x] \in Final
  BY <1>1 DEF LinkInv, WorkerOk, OnlyStatus
<1>5. QED
  BY <1>3, <1>4 DEF LinkInv

\* A user's write to the status of a report keeps final ones final and does not
\* bring a report back to its validation.
LEMMA LinksEdited ==
    ASSUME TypeInv, LinkInv, NEW r \in Reports, OnlyStatus(r), task' = task, dupOf' = dupOf,
           status[r] \in Final => status'[r] \in Final,
           status'[r] \in Unvalidated => status[r] \in Unvalidated
    PROVE  LinkInv'
<1>1. \A s \in Slots : InStage(s)' <=> InStage(s)
  BY DEF InStage
<1>2. ASSUME NEW s \in Slots, InStage(s) PROVE WorkerOk(s)'
  <2>1. WorkerOk(s) /\ task[s].report \in Reports
    BY <1>2, InStageFacts DEF LinkInv
  <2>2. task[s].stage # "validate" => status'[task[s].report] \notin Unvalidated
    BY <2>1 DEF WorkerOk, OnlyStatus
  <2>3. QED
    BY <1>1, <2>1, <2>2 DEF WorkerOk, OriginalOk
<1>3. QED
  BY <1>1, <1>2 DEF LinkInv, OnlyStatus

\* The steps within a stage.
LEMMA WithinLinks ==
    ASSUME TypeInv, LinkInv, NEW s \in Slots,
           ValidationFails(s) \/ ReadHead(s) \/ LocalizationAborts(s) \/ FilesUnreadable(s)
           \/ CallFixModel(s) \/ TriageRow(s) \/ LocalizationRow(s) \/ StageFails(s)
           \/ FixAnswered(s) \/ CreateProposal(s)
           \/ RecordHead(s)
           \/ (\E st \in {"triaged", "clarification_needed"} : StageSucceeds(s, st))
           \/ \E perm \in BOOLEAN : FixFails(s, perm)
    PROVE  LinkInv'
<1> USE DEF OnlySlot, reportVars, SyncPcs, AwaitPcs, Unvalidated
<1>1. task \in [Slots -> Task] /\ task[s] \in Task
  BY DEF TypeInv, TypeOK
<1>2. ASSUME InStage(s), task[s].stage = "validate" PROVE task[s].pc \in {"settle", "rollback"}
  BY <1>2 DEF LinkInv, WorkerOk
<1>3. CASE ValidationFails(s)
  BY <1>1, <1>3, LinksWithin DEF ValidationFails, Continue, InStage, Task
<1>4. ASSUME task[s].pc \notin {"idle", "start", "claim", "settle", "rollback"}, OnlySlot(s),
             \/ task'[s].pc # "settle"
             \/ task'[s].next \in {"triaged", "clarification_needed", "fix_proposed"},
             task'[s].report = task[s].report, task'[s].stage = task[s].stage,
             status' = status, dupOf' = dupOf
      PROVE  LinkInv'
  <2>1. InStage(s) /\ task[s].stage # "validate"
    BY <1>1, <1>2, <1>4 DEF InStage, Task
  <2>2. QED
    BY <1>4, <2>1, LinksWithin
<1>5. CASE ReadHead(s)
  BY <1>1, <1>4, <1>5 DEF ReadHead, Task
<1>6. CASE FilesUnreadable(s)
  BY <1>1, <1>4, <1>6 DEF FilesUnreadable, Continue, Task
<1>7. CASE CallFixModel(s)
  BY <1>1, <1>4, <1>7 DEF CallFixModel, Continue, Task
<1>8. CASE FixAnswered(s)
  BY <1>1, <1>4, <1>8 DEF FixAnswered, Continue, Task
<1>9. ASSUME NEW perm \in BOOLEAN, FixFails(s, perm) PROVE LinkInv'
  BY <1>1, <1>4, <1>9 DEF FixFails, Continue, Task
<1>10. CASE TriageRow(s)
  BY <1>1, <1>4, <1>10 DEF TriageRow, RunningRow, Task
<1>11. CASE LocalizationRow(s)
  BY <1>1, <1>4, <1>11 DEF LocalizationRow, RunningRow, Task
<1>12. CASE LocalizationAborts(s)
  BY <1>1, <1>4, <1>12 DEF LocalizationAborts, SettleWith, Task
<1>13. CASE StageFails(s)
  BY <1>1, <1>4, <1>13 DEF StageFails, SettleWith, Task
<1>14. CASE CreateProposal(s)
  BY <1>1, <1>4, <1>14 DEF CreateProposal, SettleWith, Task
<1>15. ASSUME NEW st \in {"triaged", "clarification_needed"}, StageSucceeds(s, st) PROVE LinkInv'
  BY <1>1, <1>4, <1>15 DEF StageSucceeds, SettleWith, Task
<1>16. CASE RecordHead(s)
  <2>1. \/ task' = [task EXCEPT ![s].pc = "settle", ![s].next = "triaged"]
        \/ task' = [task EXCEPT ![s].pc = "map"]
    BY <1>16 DEF RecordHead, Continue, SettleWith
  <2>2. /\ OnlySlot(s) /\ task'[s].report = task[s].report /\ task'[s].stage = task[s].stage
        /\ task'[s].pc # "settle" \/ task'[s].next = "triaged"
    BY <1>1, <2>1 DEF Task
  <2>3. QED
    BY <1>4, <1>16, <2>2 DEF RecordHead
<1>17. QED
  BY <1>3, <1>5, <1>6, <1>7, <1>8, <1>9, <1>10, <1>11, <1>12, <1>13, <1>14, <1>15, <1>16

\* Winning or losing a claim.
LEMMA ClaimingLinks ==
    ASSUME TypeInv, LinkInv, NEW s \in Slots,
           ClaimValidation(s) \/ ClaimTriage(s) \/ ClaimLocalization(s) \/ ClaimFix(s)
           \/ ClaimLost(s)
    PROVE  LinkInv'
<1>1. /\ task \in [Slots -> Task] /\ task[s] \in Task
      /\ status \in [Reports -> BugStatus \cup {"absent"}]
  BY DEF TypeInv, TypeOK
<1> DEFINE r == task[s].report
<1>2. task[s].pc = "claim" /\ ~InStage(s) /\ MayRun(s) /\ r \in Reports /\ task[s].stage \in Stages
  BY <1>1 DEF ClaimValidation, ClaimTriage, ClaimLocalization, ClaimFix, ClaimLost, InStage,
              TypeInv, TasksHaveReports, Task
<1>3. ASSUME NEW from \in {"submitted", "triaged"}, Claims(s, from), dupOf' = dupOf,
             OnlySlot(s), task'[s].report = r, task'[s].stage = task[s].stage,
             task[s].stage = "validate" <=> from = "submitted",
             task'[s].stage = "validate" => task'[s].pc = "settle",
             task'[s].pc = "settle" => task'[s].next \notin Unvalidated,
             OriginalOk(s)'
      PROVE  LinkInv'
  <2>1. status[r] = from /\ status'[r] = ClaimOf(task'[s].stage) /\ OnlyStatus(r)
    BY <1>1, <1>2, <1>3 DEF Claims, OnlyStatus
  <2>2. QED
    BY <1>2, <1>3, <2>1, LinksBegin
<1>4. CASE ClaimValidation(s)
  <2>1. PICK o \in DuplicateCandidates(r) \cup {NoReport} :
           task' = [task EXCEPT ![s].pc = "settle", ![s].dup = o,
                        ![s].next = IF o = NoReport THEN "triaged" ELSE "duplicate"]
    BY <1>4 DEF ClaimValidation
  <2>2. /\ OnlySlot(s) /\ task'[s].report = r /\ task'[s].stage = task[s].stage
        /\ task'[s].pc = "settle" /\ task'[s].dup = o
        /\ task'[s].next = IF o = NoReport THEN "triaged" ELSE "duplicate"
    BY <1>1, <2>1 DEF OnlySlot, Task
  <2>3. o # NoReport => o \in Reports \ {r} /\ dupOf[o] = NoReport
    BY <2>1 DEF DuplicateCandidates, LinkInv, Final
  <2>4. dupOf' = dupOf /\ task[s].stage = "validate" /\ Claims(s, "submitted")
    BY <1>4 DEF ClaimValidation
  <2>5. OriginalOk(s)'
    BY <2>2, <2>3, <2>4 DEF OriginalOk
  <2>6. task'[s].next \notin Unvalidated
    BY <2>2 DEF Unvalidated
  <2>7. QED
    BY <1>3, <2>2, <2>4, <2>5, <2>6
<1>5. CASE ClaimTriage(s) \/ ClaimLocalization(s) \/ ClaimFix(s)
  <2>1. \/ task' = [task EXCEPT ![s].pc = "row"]
        \/ task' = [task EXCEPT ![s].pc = "settle", ![s].next = "triaged"]
        \/ task' = [task EXCEPT ![s].pc = "sha"]
        \/ task' = [task EXCEPT ![s].pc = "settle", ![s].next = "fix_proposed"]
        \/ task' = [task EXCEPT ![s].pc = "rollback"]
        \/ task' = [task EXCEPT ![s].pc = "files", ![s].row = LatestLocalization(r).id]
    BY <1>5 DEF ClaimTriage, ClaimLocalization, ClaimFix, Continue, SettleWith
  <2>2. /\ OnlySlot(s) /\ task'[s].report = r /\ task'[s].stage = task[s].stage
        /\ task'[s].pc = "settle" => task'[s].next \notin Unvalidated \cup {"duplicate"}
    BY <1>1, <2>1 DEF OnlySlot, Task, Unvalidated
  <2>3. dupOf' = dupOf /\ task[s].stage # "validate" /\ Claims(s, "triaged")
    BY <1>5 DEF ClaimTriage, ClaimLocalization, ClaimFix
  <2>4. OriginalOk(s)'
    BY <2>2 DEF OriginalOk
  <2>5. QED
    BY <1>3, <2>2, <2>3, <2>4
<1>6. CASE ClaimLost(s)
  <2>1. AfterStage(s).pc \in {"idle", "claim"}
    BY DEF AfterStage, NewTask, Idle
  <2>2. OnlySlot(s) /\ status' = status /\ dupOf' = dupOf /\ ~InStage(s)'
    BY <1>1, <1>6, <2>1 DEF ClaimLost, OnlySlot, InStage, reportVars
  <2>3. QED
    BY <2>2, LinksOutside
<1>7. QED
  BY <1>4, <1>5, <1>6

\* The ends of a stage, and the start of a manual run.
LEMMA EndingLinks ==
    ASSUME TypeInv, LinkInv, NEW s \in Slots,
           Settle(s) \/ RollbackClaim(s) \/ RunBackground(s) \/ ReopenForAnalysis(s)
    PROVE  LinkInv'
<1>1. /\ task \in [Slots -> Task] /\ task[s] \in Task
      /\ status \in [Reports -> BugStatus \cup {"absent"}]
      /\ dupOf \in [Reports -> Reports \cup {NoReport}]
  BY DEF TypeInv, TypeOK
<1> DEFINE r == task[s].report
<1>2. AfterStage(s).pc \in {"idle", "claim"} /\ Idle.pc = "idle" /\ LocalStage(r).pc = "claim"
  BY DEF AfterStage, NewTask, Idle, LocalStage
<1>3. r \in Reports /\ MayRun(s) /\ OnlyStatus(r)
  BY <1>1 DEF Settle, RollbackClaim, RunBackground, ReopenForAnalysis, TypeInv, TasksHaveReports,
              OnlyStatus
<1>4. CASE Settle(s)
  <2>1. InStage(s) /\ OnlySlot(s) /\ ~InStage(s)'
    BY <1>1, <1>2, <1>4 DEF Settle, InStage, OnlySlot, SyncPcs, AwaitPcs
  <2>2. WorkerOk(s) /\ status'[r] = task[s].next /\ task[s].pc = "settle"
    BY <1>1, <1>3, <1>4, <2>1 DEF LinkInv, Settle
  <2>3. CASE task[s].next = "duplicate"
    <3>1. task[s].stage = "validate" /\ status'[r] \in Final
      BY <2>2, <2>3 DEF WorkerOk, OriginalOk, Final
    <3>2. \A x \in Reports : x # r => dupOf'[x] = dupOf[x]
      BY <1>1, <1>4, <2>3 DEF Settle
    <3>3. QED
      BY <1>3, <2>1, <3>1, <3>2, LinksEnd
  <2>4. CASE task[s].next # "duplicate"
    <3>1. dupOf' = dupOf
      BY <1>4, <2>4 DEF Settle
    <3>2. status'[r] \notin Unvalidated
      BY <2>2 DEF WorkerOk
    <3>3. QED
      BY <1>3, <2>1, <3>1, <3>2, LinksEnd
  <2>5. QED
    BY <2>3, <2>4
<1>5. CASE RollbackClaim(s) \/ ReopenForAnalysis(s)
  <2>1. InStage(s) /\ OnlySlot(s) /\ ~InStage(s)' /\ dupOf' = dupOf
    BY <1>1, <1>2, <1>5 DEF RollbackClaim, ReopenForAnalysis, InStage, OnlySlot, SyncPcs, AwaitPcs
  <2>2. \/ task[s].stage = "validate"
        \/ status'[r] \in {status[r], "triaged"}
    BY <1>1, <1>3, <1>5 DEF RollbackClaim, ReopenForAnalysis, ClaimOf, Rollback, Task, Stages
  <2>3. QED
    BY <1>3, <2>1, <2>2, LinksEnd
<1>6. CASE RunBackground(s) /\ task[s].stage = "localize" /\ status[r] = "clarification_needed"
  <2>1. /\ OnlySlot(s) /\ task'[s].report = r /\ task'[s].stage = "localize"
        /\ task'[s].pc = "reopen" /\ dupOf' = dupOf /\ ~InStage(s)
    BY <1>1, <1>6 DEF RunBackground, Continue, OnlySlot, Task, InStage
  <2>2. status'[r] = "analyzing" /\ ClaimOf("localize") = "analyzing" /\ "localize" \in Stages
    BY <1>1, <1>3, <1>6 DEF RunBackground, ClaimOf, Stages
  <2>3. OriginalOk(s)'
    BY <2>1 DEF OriginalOk
  <2>4. QED
    BY <1>3, <1>6, <2>1, <2>2, <2>3, LinksBegin
<1>7. CASE RunBackground(s) /\ ~(task[s].stage = "localize" /\ status[r] = "clarification_needed")
  <2>1. [task[s] EXCEPT !.pc = "claim"].pc = "claim"
    BY <1>1 DEF Task
  <2>2. OnlySlot(s) /\ status' = status /\ dupOf' = dupOf /\ task'[s].pc = "claim"
    BY <1>1, <1>2, <1>7, <2>1 DEF RunBackground, OnlySlot
  <2>3. QED
    BY <2>2, LinksOutside DEF InStage
<1>8. QED
  BY <1>4, <1>5, <1>6, <1>7

LEMMA UserLinks ==
    ASSUME TypeInv, LinkInv, NEW r \in Reports, UserStep(r)
    PROVE  LinkInv'
<1> USE DEF Final, Unvalidated
<1>1. task \in [Slots -> Task] /\ status \in [Reports -> BugStatus \cup {"absent"}]
  BY DEF TypeInv, TypeOK
<1>2. ASSUME NEW m \in Modes, CreateReport(r, m)
      PROVE  LinkInv'
  BY <1>1, <1>2, LinksEdited DEF CreateReport, OnlyStatus
<1>3. ASSUME NEW target \in BugStatus, NEW why \in {reason[r], "other"},
             PatchStatus(r, target, why)
      PROVE  LinkInv'
  <2>1. PatchAllowed(status[r], target) /\ status' = [status EXCEPT ![r] = target]
        /\ task' = task /\ dupOf' = dupOf
    BY <1>3 DEF PatchStatus
  <2>2. status[r] \notin Final
    BY <2>1 DEF PatchAllowed, Terminal
  <2>3. target \in Unvalidated => status[r] \in Unvalidated
    BY <2>1 DEF PatchAllowed, ValidTransitions, PhaseTargets
  <2>4. QED
    BY <1>1, <2>1, <2>2, <2>3, LinksEdited DEF OnlyStatus
<1>4. CASE DeleteReport(r)
  BY <1>1, <1>4, LinksEdited DEF DeleteReport, OnlyStatus
<1>5. CASE RetryRequest(r) \/ ResetStageRetries(r) \/ \E m \in Modes : PatchMode(r, m)
  <2>1. UNCHANGED <<task, status, dupOf>>
    BY <1>5 DEF RetryRequest, ResetStageRetries, PatchMode, reportVars
  <2>2. QED
    BY <2>1, LinksEdited DEF OnlyStatus
<1>6. ASSUME NEW s \in Slots, AnalyzeLocal(s, r) \/ AnalyzeCloud(s, r)
      PROVE  LinkInv'
  <2>1. PICK stage \in {"localize", "fix"} :
            task' = [task EXCEPT ![s] = NewTask(r, "user", stage, "start")]
    BY <1>6 DEF AnalyzeLocal, AnalyzeCloud
  <2>2. NewTask(r, "user", stage, "start").pc = "start"
    BY DEF NewTask, Idle
  <2>3. OnlySlot(s) /\ status' = status /\ dupOf' = dupOf /\ ~InStage(s)'
    BY <1>1, <1>6, <2>1, <2>2 DEF AnalyzeLocal, AnalyzeCloud, OnlySlot, InStage, reportVars
  <2>4. QED
    BY <2>3, LinksOutside
<1>7. QED
  BY <1>2, <1>3, <1>4, <1>5, <1>6 DEF UserStep

LEMMA NextLinks == TypeInv /\ LinkInv /\ [Next]_vars => LinkInv'
<1> SUFFICES ASSUME TypeInv, LinkInv, [Next]_vars PROVE LinkInv'
  OBVIOUS
<1>1. task \in [Slots -> Task]
  BY DEF TypeInv, TypeOK
<1>2. ASSUME UNCHANGED <<task, status, dupOf>>
      PROVE  LinkInv'
  BY <1>2 DEF LinkInv, WorkerOk, OriginalOk, InStage
<1>3. ASSUME NEW s \in Slots, StageStep(s)
      PROVE  LinkInv'
  BY <1>3, WithinLinks, ClaimingLinks, EndingLinks DEF StageStep
<1>4. CASE Poll
  BY <1>2, <1>4 DEF Poll, PollSubmitted, PollTriage, PollLocalization, PollFix, CycleEnds,
                    reportVars
<1>5. ASSUME NEW s \in Slots, NEW stage \in Stages, NEW r \in Reports, StartJob(s, stage, r)
      PROVE  LinkInv'
  <2>1. NewTask(r, "worker", stage, "claim").pc = "claim"
    BY DEF NewTask, Idle
  <2>2. OnlySlot(s) /\ status' = status /\ dupOf' = dupOf /\ ~InStage(s)'
    BY <1>1, <1>5, <2>1 DEF StartJob, OnlySlot, InStage, reportVars
  <2>3. QED
    BY <2>2, LinksOutside
<1>6. CASE PullRepo \/ (\E sha \in pulls : RecordPull(sha))
           \/ \E r \in Reports : \E a \in analyses[r] : DelayElapses(r, a)
  BY <1>2, <1>6 DEF PullRepo, RecordPull, DelayElapses, reportVars
<1>7. CASE CrashRestart
  <2>1. \A s \in Slots : ~InStage(s)'
    BY <1>7 DEF CrashRestart, InStage, Idle
  <2>2. \A x \in Reports : status[x] \in Final => status'[x] \in Final
    BY <1>7 DEF CrashRestart, RecoveredStatus, StageClaims, Rollback, Final
  <2>3. dupOf' = dupOf
    BY <1>7 DEF CrashRestart
  <2>4. QED
    BY <2>1, <2>2, <2>3 DEF LinkInv
<1>8. CASE UNCHANGED vars
  BY <1>2, <1>8 DEF vars
<1>9. QED
  BY <1>3, <1>4, <1>5, <1>6, <1>7, <1>8, UserLinks DEF Next

\* A step writes a link to a report that has none.
LEMMA NextAcyclic ==
    ASSUME TypeInv, LinkInv, DuplicatesAcyclic, [Next]_vars
    PROVE  DuplicatesAcyclic'
<1>1. dupOf' = dupOf \/ \E s \in Slots : Settle(s) /\ task[s].next = "duplicate"
  <2>1. ASSUME NEW s \in Slots, StageStep(s)
        PROVE  dupOf' = dupOf \/ (Settle(s) /\ task[s].next = "duplicate")
    <3>1. CASE Settle(s)
      BY <3>1 DEF Settle
    <3>2. CASE ClaimValidation(s) \/ ClaimTriage(s) \/ ClaimLocalization(s) \/ ClaimFix(s)
                 \/ ClaimLost(s) \/ RollbackClaim(s) \/ RunBackground(s) \/ ReopenForAnalysis(s)
      BY <3>2 DEF ClaimValidation, ClaimTriage, ClaimLocalization, ClaimFix, ClaimLost, RollbackClaim,
                  RunBackground, ReopenForAnalysis, reportVars
    <3>3. CASE ValidationFails(s) \/ ReadHead(s) \/ RecordHead(s) \/ LocalizationAborts(s)
                 \/ FilesUnreadable(s) \/ CallFixModel(s) \/ TriageRow(s) \/ LocalizationRow(s)
                 \/ StageFails(s) \/ FixAnswered(s) \/ CreateProposal(s)
                 \/ (\E st \in {"triaged", "clarification_needed"} : StageSucceeds(s, st))
                 \/ \E perm \in BOOLEAN : FixFails(s, perm)
      BY <3>3 DEF ValidationFails, ReadHead, RecordHead, LocalizationAborts, FilesUnreadable,
                  CallFixModel, TriageRow, LocalizationRow, StageFails, FixAnswered, CreateProposal,
                  StageSucceeds, FixFails, reportVars
    <3>4. QED
      BY <2>1, <3>1, <3>2, <3>3 DEF StageStep
  <2>2. ASSUME NEW r \in Reports, UserStep(r) PROVE dupOf' = dupOf
    BY <2>2 DEF UserStep, CreateReport, PatchMode, PatchStatus, DeleteReport, RetryRequest,
                ResetStageRetries, AnalyzeLocal, AnalyzeCloud, reportVars
  <2>3. CASE Poll \/ (\E s \in Slots, stage \in Stages, r \in Reports : StartJob(s, stage, r))
               \/ PullRepo \/ (\E sha \in pulls : RecordPull(sha))
               \/ (\E r \in Reports : \E a \in analyses[r] : DelayElapses(r, a))
               \/ CrashRestart \/ UNCHANGED vars
    BY <2>3 DEF Poll, PollSubmitted, PollTriage, PollLocalization, PollFix, CycleEnds, StartJob,
                PullRepo, RecordPull, DelayElapses, CrashRestart, vars, reportVars
  <2>4. QED
    BY <2>1, <2>2, <2>3 DEF Next
<1>2. CASE dupOf' = dupOf
  BY <1>2 DEF DuplicatesAcyclic
<1>3. ASSUME NEW s \in Slots, Settle(s), task[s].next = "duplicate" PROVE DuplicatesAcyclic'
  <2> DEFINE r == task[s].report
             o == task[s].dup
  <2>1. task[s].pc = "settle" /\ InStage(s)
    BY <1>3 DEF Settle, InStage, SyncPcs
  <2>2. r \in Reports /\ o \in Reports \ {r} /\ dupOf[o] = NoReport
    BY <1>3, <2>1, InStageFacts DEF LinkInv, WorkerOk, OriginalOk
  <2>3. dupOf' = [dupOf EXCEPT ![r] = o] /\ dupOf \in [Reports -> Reports \cup {NoReport}]
    BY <1>3 DEF Settle, TypeInv, TypeOK
  <2> HIDE DEF r, o
  <2>4. ASSUME NEW S \in (SUBSET Reports) \ {{}} PROVE \E x \in S : dupOf'[x] \notin S
    <3>1. CASE o \in S
      BY <2>2, <2>3, <3>1, NoReportAssumption
    <3>2. CASE o \notin S /\ r \in S
      BY <2>2, <2>3, <3>2
    <3>3. CASE r \notin S
      <4>1. PICK x \in S : dupOf[x] \notin S
        BY DEF DuplicatesAcyclic
      <4>2. QED
        BY <2>3, <3>3, <4>1
    <3>4. QED
      BY <3>1, <3>2, <3>3
  <2>5. QED
    BY <2>4 DEF DuplicatesAcyclic
<1>4. QED
  BY <1>1, <1>2, <1>3

\* The duplicate_of links of any number of reports never form a cycle, whatever
\* users PATCH or DELETE, also in the middle of a validation: find_duplicate
\* answers an original, and it still is one when the link is written.
THEOREM LinksAcyclic == Spec => []DuplicatesAcyclic
<1>1. Init => TypeInv /\ LinkInv /\ DuplicatesAcyclic
  <2>1. Init => LinkInv
    BY DEF Init, LinkInv, InStage, Idle
  <2>2. Init => DuplicatesAcyclic
    BY NoReportAssumption DEF Init, DuplicatesAcyclic
  <2>3. QED
    BY <2>1, <2>2, InitTypes
<1>2. (TypeInv /\ LinkInv /\ DuplicatesAcyclic) /\ [Next]_vars
      => (TypeInv /\ LinkInv /\ DuplicatesAcyclic)'
  BY NextTypes, NextLinks, NextAcyclic
<1>3. QED
  BY <1>1, <1>2, PTL DEF Spec

-----------------------------------------------------------------------------
(* The pipeline implements StageWorkflow. What a coroutine will write when  *)
(* its stage ends is decided steps before; that it is a status its claim    *)
(* may end in is the invariant ResultInv.                                   *)

ResultOk(s) ==
    /\ task[s].pc \in {"row", "sha", "fresh", "map", "llm", "reopen"} =>
          task[s].stage \in {"triage", "localize"}
    /\ task[s].pc \in {"files", "paid", "propose"} => task[s].stage = "fix"
    /\ task[s].pc = "settle" =>
          /\ task[s].next \in Workflow!Ends(ClaimOf(task[s].stage))
          /\ task[s].next = "fix_proposed" => task[s].report \in drafted

ResultInv == \A s \in Slots : ResultOk(s)

WorkflowInv == TypeInv /\ ClaimInv /\ ResultInv

\* Each claim may end as triaged; triage and localization may also ask back.
LEMMA EndsOfClaims ==
    /\ \A stage \in Stages : "triaged" \in Workflow!Ends(ClaimOf(stage))
    /\ \A stage \in {"triage", "localize"} :
          ClaimOf(stage) = "analyzing" /\ "clarification_needed" \in Workflow!Ends("analyzing")
    /\ "duplicate" \in Workflow!Ends(ClaimOf("validate"))
    /\ "fix_proposed" \in Workflow!Ends(ClaimOf("fix"))
    /\ \A c \in StageClaims : Rollback[c] \in Workflow!Ends(c)
  BY DEF Workflow!Ends, ClaimOf, StageClaims, Rollback, Stages

\* Coroutine s moves, and no proposal goes.
LEMMA ResultsKept ==
    ASSUME ResultInv, NEW s \in Slots, OnlySlot(s), drafted \subseteq drafted', ResultOk(s)'
    PROVE  ResultInv'
  BY DEF ResultInv, ResultOk, OnlySlot

\* What the owners are, report by report
LEMMA OwnersType == owners \in [Reports -> SUBSET Slots]
  BY DEF owners

LEMMA OwnersAre ==
    ASSUME NEW f \in [Reports -> SUBSET Slots],
           \A t \in Slots, x \in Reports : (InStage(t) /\ task[t].report = x)' <=> t \in f[x]
    PROVE  owners' = f
<1>1. \A x \in Reports : {t \in Slots : InStage(t) /\ task[t].report = x}' = f[x]
  OBVIOUS
<1>2. QED
  BY <1>1 DEF owners

\* The owners of the reports: as before,
LEMMA OwnersKept ==
    ASSUME NEW s \in Slots, OnlySlot(s), InStage(s)' <=> InStage(s),
           InStage(s) => task'[s].report = task[s].report
    PROVE  owners' = owners
<1>1. ASSUME NEW t \in Slots, NEW x \in Reports
      PROVE  (InStage(t) /\ task[t].report = x)' <=> (InStage(t) /\ task[t].report = x)
  BY DEF OnlySlot, InStage
<1>2. QED
  BY <1>1 DEF owners

\* ... with s in a stage of its report, that nobody was in,
LEMMA OwnersTake ==
    ASSUME ClaimInv, NEW s \in Slots, NEW r \in Reports, OnlySlot(s),
           status[r] \notin StageClaims, ~InStage(s), InStage(s)', task'[s].report = r
    PROVE  /\ owners[r] = {} /\ \A x \in Reports : s \notin owners[x]
           /\ owners' = [owners EXCEPT ![r] = {s}]
<1>1. ASSUME NEW t \in Slots, InStage(t), task[t].report = r
      PROVE  FALSE
  BY <1>1 DEF ClaimInv, ClaimsHeld, ClaimOf, StageClaims, Rollback
<1>2. owners[r] = {} /\ \A x \in Reports : s \notin owners[x]
  BY <1>1 DEF owners
<1>3. ASSUME NEW t \in Slots, NEW x \in Reports
      PROVE  (InStage(t) /\ task[t].report = x)' <=> (t \in [owners EXCEPT ![r] = {s}][x])
  <2>1. CASE t = s
    BY <1>2, <2>1 DEF owners
  <2>2. CASE t # s
    <3>1. (InStage(t) /\ task[t].report = x)' <=> (InStage(t) /\ task[t].report = x)
      BY <2>2 DEF OnlySlot, InStage
    <3>2. QED
      BY <1>1, <2>2, <3>1 DEF owners
  <2>3. QED
    BY <2>1, <2>2
<1>4. [owners EXCEPT ![r] = {s}] \in [Reports -> SUBSET Slots]
  BY OwnersType
<1>5. owners' = [owners EXCEPT ![r] = {s}]
  BY <1>3, <1>4, OwnersAre
<1>6. QED
  BY <1>2, <1>5

\* ... or without s, that alone had its report.
LEMMA OwnersGiveBack ==
    ASSUME ClaimInv, NEW s \in Slots, OnlySlot(s), InStage(s), ~InStage(s)',
           task[s].report \in Reports
    PROVE  /\ owners[task[s].report] = {s}
           /\ owners' = [owners EXCEPT ![task[s].report] = {}]
<1> DEFINE r == task[s].report
<1>1. ASSUME NEW t \in Slots, InStage(t), task[t].report = r
      PROVE  t = s
  BY <1>1 DEF ClaimInv, NoDoubleProcessing
<1>2. owners[r] = {s}
  BY <1>1 DEF owners
<1>3. ASSUME NEW t \in Slots, NEW x \in Reports
      PROVE  (InStage(t) /\ task[t].report = x)' <=> (t \in [owners EXCEPT ![r] = {}][x])
  <2>1. CASE t = s
    BY <2>1 DEF owners
  <2>2. CASE t # s
    <3>1. (InStage(t) /\ task[t].report = x)' <=> (InStage(t) /\ task[t].report = x)
      BY <2>2 DEF OnlySlot, InStage
    <3>2. QED
      BY <1>1, <2>2, <3>1 DEF owners
  <2>3. QED
    BY <2>1, <2>2
<1>4. [owners EXCEPT ![r] = {}] \in [Reports -> SUBSET Slots]
  BY OwnersType
<1>5. owners' = [owners EXCEPT ![r] = {}]
  BY <1>3, <1>4, OwnersAre
<1>6. QED
  BY <1>2, <1>5

\* A step of a coroutine that changes nothing StageWorkflow speaks about
LEMMA Stutters ==
    ASSUME NEW s \in Slots, OnlySlot(s), status' = status, proposals' = proposals,
           InStage(s)' <=> InStage(s), InStage(s) => task'[s].report = task[s].report
    PROVE  UNCHANGED Workflow!vars
  BY OwnersKept DEF Workflow!vars, drafted

\* A coroutine wins the claim of its report.
LEMMA Takes ==
    ASSUME TypeInv, ClaimInv, NEW s \in Slots, NEW r \in Reports, OnlySlot(s),
           ~InStage(s), InStage(s)', task'[s].report = r, NEW claim \in StageClaims,
           status[r] \in Workflow!Enters(claim),
           status' = [status EXCEPT ![r] = claim], proposals' = proposals
    PROVE  Workflow!Next
<1>1. status[r] \notin StageClaims /\ claim \in Workflow!Claims
  BY DEF Workflow!Enters, StageClaims, Rollback, Workflow!Claims
<1>2. /\ owners[r] = {} /\ \A x \in Reports : s \notin owners[x]
      /\ owners' = [owners EXCEPT ![r] = {s}]
  BY <1>1, OwnersTake
<1>3. drafted' = drafted
  BY DEF drafted
<1>4. Workflow!Take(r, s)
  BY <1>1, <1>2, <1>3 DEF Workflow!Take
<1>5. QED
  BY <1>4 DEF Workflow!Next

\* A coroutine writes the status that ends its stage.
LEMMA GivesBack ==
    ASSUME TypeInv, ClaimInv, NEW s \in Slots, OnlySlot(s), InStage(s), ~InStage(s)',
           NEW st \in Workflow!Ends(ClaimOf(task[s].stage)),
           st = "fix_proposed" => task[s].report \in drafted,
           status' = [status EXCEPT ![task[s].report] = st], proposals' = proposals
    PROVE  Workflow!Next
<1> DEFINE r == task[s].report
<1>1. r \in Reports /\ status[r] = ClaimOf(task[s].stage)
  BY InStageFacts DEF ClaimInv, ClaimsHeld
<1>2. owners[r] = {s} /\ owners' = [owners EXCEPT ![r] = {}]
  BY <1>1, OwnersGiveBack
<1>3. drafted' = drafted
  BY DEF drafted
<1>4. Workflow!GiveBack(r, s)
  BY <1>1, <1>2, <1>3 DEF Workflow!GiveBack
<1>5. QED
  BY <1>1, <1>4 DEF Workflow!Next

\* Somebody writes the status of a report that is in no claim.
LEMMA Edited ==
    ASSUME TypeInv, ClaimInv, NEW r \in Reports, NEW st,
           status[r] \notin StageClaims,
           st \in IF status[r] \in Workflow!Final THEN Workflow!Final ELSE Workflow!Editable,
           status' = [status EXCEPT ![r] = st], task' = task, proposals' = proposals
    PROVE  Workflow!Next
<1>1. ASSUME NEW t \in Slots, InStage(t), task[t].report = r
      PROVE  FALSE
  BY <1>1 DEF ClaimInv, ClaimsHeld, ClaimOf, StageClaims, Rollback
<1>2. owners[r] = {} /\ owners' = owners
  BY <1>1 DEF owners, InStage
<1>3. drafted' = drafted /\ status[r] \notin Workflow!Claims
  BY DEF drafted, StageClaims, Rollback, Workflow!Claims
<1>4. Workflow!Edit(r)
  BY <1>2, <1>3 DEF Workflow!Edit
<1>5. QED
  BY <1>4 DEF Workflow!Next

\* A step within a stage
LEMMA StaysInStage ==
    ASSUME ResultInv, NEW s \in Slots, OnlySlot(s), InStage(s), InStage(s)',
           task'[s].report = task[s].report, status' = status, proposals' = proposals,
           ResultOk(s)'
    PROVE  ResultInv' /\ UNCHANGED Workflow!vars
<1>1. drafted' = drafted
  BY DEF drafted
<1>2. QED
  BY <1>1, ResultsKept, Stutters

\* The steps within a stage write no status the claim may not end in.
LEMMA WithinFollows ==
    ASSUME WorkflowInv, NEW s \in Slots,
           ValidationFails(s) \/ ReadHead(s) \/ LocalizationAborts(s) \/ FilesUnreadable(s)
           \/ CallFixModel(s) \/ TriageRow(s) \/ LocalizationRow(s) \/ StageFails(s)
           \/ FixAnswered(s) \/ RecordHead(s)
           \/ (\E st \in {"triaged", "clarification_needed"} : StageSucceeds(s, st))
           \/ \E perm \in BOOLEAN : FixFails(s, perm)
    PROVE  ResultInv' /\ UNCHANGED Workflow!vars
<1>1. /\ task \in [Slots -> Task] /\ task[s] \in Task /\ task[s].stage \in Stages
      /\ ResultInv /\ ResultOk(s)
  BY DEF WorkflowInv, TypeOK, Task, ResultInv
<1>2. ASSUME NEW pc \in {"rollback", "paid", "propose", "map"}, Continue(s, pc), InStage(s),
             status' = status, proposals' = proposals,
             pc \in {"paid", "propose"} => task[s].stage = "fix",
             pc = "map" => task[s].stage \in {"triage", "localize"}
      PROVE  ResultInv' /\ UNCHANGED Workflow!vars
  <2>1. /\ OnlySlot(s) /\ task'[s].pc = pc /\ task'[s].report = task[s].report
        /\ task'[s].stage = task[s].stage
    BY <1>1, <1>2, ContinueMoves
  <2>2. InStage(s)' /\ ResultOk(s)'
    BY <1>2, <2>1 DEF InStage, ResultOk, SyncPcs, AwaitPcs
  <2>3. QED
    BY <1>1, <1>2, <2>1, <2>2, StaysInStage
<1>3. ASSUME NEW st, SettleWith(s, st), InStage(s), status' = status, proposals' = proposals,
             st \in Workflow!Ends(ClaimOf(task[s].stage)), st # "fix_proposed"
      PROVE  ResultInv' /\ UNCHANGED Workflow!vars
  <2>1. /\ OnlySlot(s) /\ task'[s].pc = "settle" /\ task'[s].next = st
        /\ task'[s].report = task[s].report /\ task'[s].stage = task[s].stage
    BY <1>1, <1>3, SettleMoves
  <2>2. InStage(s)' /\ ResultOk(s)'
    BY <1>3, <2>1 DEF InStage, ResultOk, SyncPcs, AwaitPcs
  <2>3. QED
    BY <1>1, <1>3, <2>1, <2>2, StaysInStage
<1>4. ASSUME NEW pc \in {"fresh", "llm"}, OnlySlot(s), task'[s].pc = pc,
             task'[s].report = task[s].report, task'[s].stage = task[s].stage,
             task[s].stage \in {"triage", "localize"},
             InStage(s), status' = status, proposals' = proposals
      PROVE  ResultInv' /\ UNCHANGED Workflow!vars
  <2>1. InStage(s)' /\ ResultOk(s)'
    BY <1>4 DEF InStage, ResultOk, SyncPcs, AwaitPcs
  <2>2. QED
    BY <1>1, <1>4, <2>1, StaysInStage
<1> USE DEF reportVars, rowVars
<1>5. CASE ValidationFails(s) \/ FilesUnreadable(s) \/ \E perm \in BOOLEAN : FixFails(s, perm)
  <2>1. Continue(s, "rollback") /\ InStage(s) /\ status' = status /\ proposals' = proposals
    BY <1>5 DEF ValidationFails, FilesUnreadable, FixFails, InStage, SyncPcs, AwaitPcs
  <2>2. QED
    BY <1>2, <2>1
<1>6. CASE CallFixModel(s) \/ FixAnswered(s)
  <2>1. PICK pc \in {"paid", "propose"} : Continue(s, pc)
    BY <1>6 DEF CallFixModel, FixAnswered
  <2>2. InStage(s) /\ task[s].stage = "fix" /\ status' = status /\ proposals' = proposals
    BY <1>1, <1>6 DEF CallFixModel, FixAnswered, ResultOk, InStage, SyncPcs, AwaitPcs
  <2>3. QED
    BY <1>2, <2>1, <2>2
<1>7. CASE LocalizationAborts(s) \/ StageFails(s)
  <2>1. SettleWith(s, "triaged") /\ InStage(s) /\ status' = status /\ proposals' = proposals
    BY <1>7 DEF LocalizationAborts, StageFails, InStage, SyncPcs, AwaitPcs
  <2>2. QED
    BY <1>1, <1>3, <2>1, EndsOfClaims
<1>8. ASSUME NEW st \in {"triaged", "clarification_needed"}, StageSucceeds(s, st)
      PROVE  ResultInv' /\ UNCHANGED Workflow!vars
  <2>1. SettleWith(s, st) /\ InStage(s) /\ status' = status /\ proposals' = proposals
    BY <1>8 DEF StageSucceeds, InStage, SyncPcs, AwaitPcs
  <2>2. task[s].stage \in {"triage", "localize"}
    BY <1>1, <1>8 DEF StageSucceeds, ResultOk
  <2>3. QED
    BY <1>1, <1>3, <2>1, <2>2, EndsOfClaims
<1>9. CASE RecordHead(s)
  <2>1. /\ SettleWith(s, "triaged") \/ Continue(s, "map")
        /\ InStage(s) /\ status' = status /\ proposals' = proposals
    BY <1>9 DEF RecordHead, InStage, SyncPcs, AwaitPcs
  <2>2. task[s].stage \in {"triage", "localize"}
    BY <1>1, <1>9 DEF RecordHead, ResultOk
  <2>3. QED
    BY <1>1, <1>2, <1>3, <2>1, <2>2, EndsOfClaims
<1>10. CASE ReadHead(s)
  <2>1. task' = [task EXCEPT ![s] = [task[s] EXCEPT !.pc = "fresh", !.sha = checkout]]
    BY <1>10 DEF ReadHead
  <2>2. /\ OnlySlot(s) /\ task'[s].pc = "fresh" /\ task'[s].report = task[s].report
        /\ task'[s].stage = task[s].stage
    BY <1>1, <2>1 DEF OnlySlot, Task
  <2>3. /\ InStage(s) /\ task[s].stage \in {"triage", "localize"}
        /\ status' = status /\ proposals' = proposals
    BY <1>1, <1>10 DEF ReadHead, ResultOk, InStage, SyncPcs, AwaitPcs
  <2>4. QED
    BY <1>4, <2>2, <2>3
<1>11. CASE TriageRow(s) \/ LocalizationRow(s)
  <2>1. task' = [task EXCEPT ![s] = [task[s] EXCEPT !.pc = "llm",
                                                    !.row = clock[task[s].report] + 1]]
    BY <1>11 DEF TriageRow, LocalizationRow, RunningRow
  <2>2. /\ OnlySlot(s) /\ task'[s].pc = "llm" /\ task'[s].report = task[s].report
        /\ task'[s].stage = task[s].stage
    BY <1>1, <2>1 DEF OnlySlot, Task
  <2>3. /\ InStage(s) /\ task[s].stage \in {"triage", "localize"}
        /\ status' = status /\ proposals' = proposals
    BY <1>1, <1>11 DEF TriageRow, LocalizationRow, ResultOk, InStage, SyncPcs, AwaitPcs
  <2>4. QED
    BY <1>4, <2>2, <2>3
<1>12. QED
  BY <1>5, <1>6, <1>7, <1>8, <1>9, <1>10, <1>11

\* A coroutine's claim is what Take allows, and what it goes on to fits the claim.
LEMMA ClaimingFollows ==
    ASSUME WorkflowInv, NEW s \in Slots,
           ClaimValidation(s) \/ ClaimTriage(s) \/ ClaimLocalization(s) \/ ClaimFix(s)
    PROVE  ResultInv' /\ Workflow!Next
<1>1. /\ task \in [Slots -> Task] /\ task[s] \in Task /\ ResultInv /\ ResultOk(s)
      /\ proposals \in [Reports -> SUBSET Proposal]
  BY DEF WorkflowInv, TypeOK, ResultInv
<1> DEFINE r == task[s].report
<1>2. ASSUME r \in Reports, task[s].pc = "claim", OnlySlot(s), InStage(s)', task'[s].report = r,
             Claims(s, IF task[s].stage = "validate" THEN "submitted" ELSE "triaged"),
             proposals' = proposals, ResultOk(s)'
      PROVE  ResultInv' /\ Workflow!Next
  <2> DEFINE claim == ClaimOf(task[s].stage)
  <2>1. /\ claim \in StageClaims /\ status[r] \in Workflow!Enters(claim)
        /\ status' = [status EXCEPT ![r] = claim]
    BY <1>2 DEF Claims, ClaimOf, Workflow!Enters, StageClaims, Rollback
  <2>2. ~InStage(s)
    BY <1>2 DEF InStage
  <2>3. Workflow!Next
    BY <1>2, <2>1, <2>2, Takes DEF WorkflowInv
  <2>4. drafted' = drafted
    BY <1>2 DEF drafted
  <2>5. QED
    BY <1>1, <1>2, <2>3, <2>4, ResultsKept
<1> USE DEF rowVars
<1>3. CASE ClaimValidation(s)
  <2>1. PICK o \in Reports \cup {NoReport} :
            task' = [task EXCEPT ![s].pc = "settle", ![s].dup = o,
                         ![s].next = IF o = NoReport THEN "triaged" ELSE "duplicate"]
    BY <1>3 DEF ClaimValidation, DuplicateCandidates
  <2>2. /\ OnlySlot(s) /\ task'[s].pc = "settle" /\ task'[s].report = r
        /\ task'[s].stage = task[s].stage /\ task'[s].next \in {"triaged", "duplicate"}
    BY <1>1, <2>1 DEF OnlySlot, Task
  <2>3. /\ r \in Reports /\ task[s].pc = "claim" /\ task[s].stage = "validate"
        /\ Claims(s, "submitted") /\ proposals' = proposals
    BY <1>3 DEF ClaimValidation, WorkflowInv, TasksHaveReports
  <2>4. ResultOk(s)' /\ InStage(s)'
    BY <2>2, <2>3, EndsOfClaims DEF ResultOk, InStage, SyncPcs, AwaitPcs, Stages
  <2>5. QED
    BY <1>2, <2>2, <2>3, <2>4
<1>4. CASE ClaimTriage(s)
  <2>1. /\ r \in Reports /\ task[s].pc = "claim" /\ task[s].stage = "triage"
        /\ Claims(s, "triaged") /\ proposals' = proposals /\ Continue(s, "row")
    BY <1>4 DEF ClaimTriage, WorkflowInv, TasksHaveReports
  <2>2. /\ OnlySlot(s) /\ task'[s].pc = "row" /\ task'[s].report = r
        /\ task'[s].stage = task[s].stage
    BY <1>1, <2>1, ContinueMoves
  <2>3. ResultOk(s)' /\ InStage(s)'
    BY <2>1, <2>2 DEF ResultOk, InStage, SyncPcs, AwaitPcs
  <2>4. QED
    BY <1>2, <2>1, <2>2, <2>3
<1>5. CASE ClaimLocalization(s)
  <2>1. /\ r \in Reports /\ task[s].pc = "claim" /\ task[s].stage = "localize"
        /\ Claims(s, "triaged") /\ proposals' = proposals
        /\ SettleWith(s, "triaged") \/ Continue(s, "sha")
    BY <1>5 DEF ClaimLocalization, WorkflowInv, TasksHaveReports
  <2>2. /\ OnlySlot(s) /\ task'[s].report = r /\ task'[s].stage = task[s].stage
        /\ task'[s].pc = "sha" \/ (task'[s].pc = "settle" /\ task'[s].next = "triaged")
    BY <1>1, <2>1, ContinueMoves, SettleMoves
  <2>3. ResultOk(s)' /\ InStage(s)'
    BY <2>1, <2>2, EndsOfClaims DEF ResultOk, InStage, SyncPcs, AwaitPcs, Stages
  <2>4. QED
    BY <1>2, <2>1, <2>2, <2>3
<1>6. CASE ClaimFix(s)
  <2>1. /\ r \in Reports /\ task[s].pc = "claim" /\ task[s].stage = "fix"
        /\ Claims(s, "triaged") /\ proposals' = proposals
    BY <1>6 DEF ClaimFix, WorkflowInv, TasksHaveReports
  <2>2. \/ SettleWith(s, "fix_proposed") /\ r \in drafted
        \/ Continue(s, "rollback")
        \/ task' = [task EXCEPT ![s].pc = "files", ![s].row = LatestLocalization(r).id]
    BY <1>6, <2>1 DEF ClaimFix, ProposalFor, drafted
  <2>3. /\ OnlySlot(s) /\ task'[s].report = r /\ task'[s].stage = task[s].stage
        /\ \/ task'[s].pc = "settle" /\ task'[s].next = "fix_proposed" /\ r \in drafted
           \/ task'[s].pc \in {"rollback", "files"}
    <3>1. CASE task' = [task EXCEPT ![s].pc = "files", ![s].row = LatestLocalization(r).id]
      BY <1>1, <3>1 DEF OnlySlot, Task
    <3>2. QED
      BY <1>1, <2>2, <3>1, ContinueMoves, SettleMoves
  <2>4. drafted' = drafted
    BY <2>1 DEF drafted
  <2>5. ResultOk(s)' /\ InStage(s)'
    BY <2>1, <2>3, <2>4, EndsOfClaims DEF ResultOk, InStage, SyncPcs, AwaitPcs
  <2>6. QED
    BY <1>2, <2>1, <2>3, <2>5
<1>7. QED
  BY <1>3, <1>4, <1>5, <1>6

\* The writes that end a stage are what GiveBack allows, the one that reopens a
\* report is what Take allows, and a lost claim changes nothing.
LEMMA EndingFollows ==
    ASSUME WorkflowInv, NEW s \in Slots,
           Settle(s) \/ RollbackClaim(s) \/ RunBackground(s) \/ ReopenForAnalysis(s)
           \/ ClaimLost(s)
    PROVE  ResultInv' /\ [Workflow!Next]_(Workflow!vars)
<1>1. /\ task \in [Slots -> Task] /\ task[s] \in Task /\ ResultInv /\ ResultOk(s)
      /\ status \in [Reports -> BugStatus \cup {"absent"}] /\ TypeInv /\ ClaimInv
  BY DEF WorkflowInv, TypeOK, ResultInv
<1> DEFINE r == task[s].report
<1>2. AfterStage(s).pc \in {"idle", "claim"} /\ Idle.pc = "idle" /\ LocalStage(r).pc = "claim"
  BY DEF AfterStage, NewTask, Idle, LocalStage
<1> USE DEF rowVars, reportVars
<1>3. ASSUME NEW t, task' = [task EXCEPT ![s] = t], t.pc \in {"idle", "claim"}
      PROVE  OnlySlot(s) /\ ~InStage(s)' /\ ResultOk(s)'
  <2>1. OnlySlot(s) /\ task'[s].pc \in {"idle", "claim"}
    BY <1>1, <1>3 DEF OnlySlot
  <2>2. QED
    BY <2>1 DEF InStage, ResultOk
<1>4. ASSUME NEW t, task' = [task EXCEPT ![s] = t], t.pc \in {"idle", "claim"},
             proposals' = proposals
      PROVE  ResultInv'
  <2>1. drafted' = drafted
    BY <1>4 DEF drafted
  <2>2. QED
    BY <1>1, <1>3, <1>4, <2>1, ResultsKept
<1>5. CASE Settle(s)
  <2>1. /\ InStage(s) /\ proposals' = proposals /\ task' = [task EXCEPT ![s] = AfterStage(s)]
        /\ status' = [status EXCEPT ![r] = task[s].next]
        /\ task[s].next \in Workflow!Ends(ClaimOf(task[s].stage))
        /\ task[s].next = "fix_proposed" => r \in drafted
    BY <1>1, <1>5 DEF Settle, ResultOk, InStage, SyncPcs, AwaitPcs
  <2>2. QED
    BY <1>1, <1>2, <1>3, <1>4, <2>1, GivesBack
<1>6. CASE RollbackClaim(s)
  <2> DEFINE c == ClaimOf(task[s].stage)
  <2>1. /\ InStage(s) /\ proposals' = proposals /\ task' = [task EXCEPT ![s] = Idle]
    BY <1>6 DEF RollbackClaim, InStage, SyncPcs, AwaitPcs
  <2>2. c \in StageClaims /\ status[r] = c /\ r \in Reports
    BY <1>1, <2>1, InStageFacts DEF ClaimInv, ClaimsHeld
  <2>3. status' = [status EXCEPT ![r] = Rollback[c]]
    BY <1>6, <2>2 DEF RollbackClaim
  <2>4. Rollback[c] \in Workflow!Ends(c) /\ Rollback[c] # "fix_proposed"
    BY <2>2, EndsOfClaims DEF Rollback, StageClaims
  <2>5. QED
    BY <1>1, <1>2, <1>3, <1>4, <2>1, <2>3, <2>4, GivesBack
<1>7. CASE ReopenForAnalysis(s)
  <2>1. /\ InStage(s) /\ proposals' = proposals /\ task' = [task EXCEPT ![s] = LocalStage(r)]
        /\ status' = [status EXCEPT ![r] = "triaged"] /\ task[s].stage \in Stages
    BY <1>1, <1>7 DEF ReopenForAnalysis, InStage, SyncPcs, AwaitPcs, Task
  <2>2. "triaged" \in Workflow!Ends(ClaimOf(task[s].stage))
    BY <2>1, EndsOfClaims
  <2>3. QED
    BY <1>1, <1>2, <1>3, <1>4, <2>1, <2>2, GivesBack
<1>8. CASE RunBackground(s) /\ task[s].stage = "localize" /\ status[r] = "clarification_needed"
  <2>1. /\ r \in Reports /\ ~InStage(s) /\ proposals' = proposals /\ Continue(s, "reopen")
        /\ status' = [status EXCEPT ![r] = "analyzing"]
    BY <1>8 DEF RunBackground, WorkflowInv, TasksHaveReports, InStage
  <2>2. /\ OnlySlot(s) /\ task'[s].pc = "reopen" /\ task'[s].report = r
        /\ task'[s].stage = "localize"
    BY <1>1, <1>8, <2>1, ContinueMoves
  <2>3. InStage(s)' /\ ResultOk(s)'
    BY <2>2 DEF InStage, ResultOk, SyncPcs, AwaitPcs
  <2>4. "analyzing" \in StageClaims /\ status[r] \in Workflow!Enters("analyzing")
    BY <1>8 DEF StageClaims, Rollback, Workflow!Enters
  <2>5. Workflow!Next
    BY <1>1, <2>1, <2>2, <2>3, <2>4, Takes
  <2>6. drafted' = drafted
    BY <2>1 DEF drafted
  <2>7. QED
    BY <1>1, <2>2, <2>3, <2>5, <2>6, ResultsKept
<1>9. CASE \/ RunBackground(s) /\ ~(task[s].stage = "localize" /\ status[r] = "clarification_needed")
           \/ ClaimLost(s)
  <2>1. PICK t \in {AfterStage(s), LocalStage(r), [task[s] EXCEPT !.pc = "claim"]} :
            task' = [task EXCEPT ![s] = t]
    BY <1>1, <1>9 DEF RunBackground, ClaimLost
  <2>2. t.pc \in {"idle", "claim"}
    BY <1>1, <1>2, <2>1 DEF Task
  <2>3. ~InStage(s) /\ status' = status /\ proposals' = proposals
    BY <1>9 DEF RunBackground, ClaimLost, InStage
  <2>4. UNCHANGED Workflow!vars
    BY <1>3, <2>1, <2>2, <2>3, Stutters
  <2>5. QED
    BY <1>4, <2>1, <2>2, <2>3, <2>4
<1>10. QED
  BY <1>5, <1>6, <1>7, <1>8, <1>9

\* The proposal is stored before its status is written.
LEMMA CreateFollows ==
    ASSUME WorkflowInv, NEW s \in Slots, CreateProposal(s)
    PROVE  ResultInv' /\ Workflow!Next
<1> DEFINE r == task[s].report
<1>1. /\ task \in [Slots -> Task] /\ ResultInv /\ ResultOk(s) /\ TypeInv /\ ClaimInv
      /\ proposals \in [Reports -> SUBSET Proposal]
  BY DEF WorkflowInv, TypeOK, ResultInv
<1>2. InStage(s) /\ task[s].stage = "fix" /\ status' = status /\ SettleWith(s, "fix_proposed")
  BY <1>1 DEF CreateProposal, InStage, SyncPcs, AwaitPcs, ResultOk, reportVars
<1>3. r \in Reports /\ status[r] = "fix_proposing"
  BY <1>1, <1>2, InStageFacts DEF ClaimInv, ClaimsHeld, ClaimOf
<1>4. /\ OnlySlot(s) /\ task'[s].pc = "settle" /\ task'[s].next = "fix_proposed"
      /\ task'[s].report = r /\ task'[s].stage = "fix"
  BY <1>1, <1>2, SettleMoves
<1>5. drafted' = drafted \cup {r}
  <2>1. /\ \A x \in Reports : x # r => proposals'[x] = proposals[x]
        /\ proposals'[r] # {}
    BY <1>1, <1>3 DEF CreateProposal
  <2>2. QED
    BY <1>3, <2>1 DEF drafted
<1>6. InStage(s)' /\ ResultOk(s)'
  BY <1>4, <1>5, EndsOfClaims DEF InStage, ResultOk, SyncPcs, AwaitPcs
<1>7. owners' = owners
  BY <1>2, <1>4, <1>6, OwnersKept
<1>8. owners[r] = {s}
  <2>1. ASSUME NEW t \in Slots, InStage(t), task[t].report = r PROVE t = s
    BY <1>1, <1>2, <2>1 DEF ClaimInv, NoDoubleProcessing
  <2>2. QED
    BY <1>2, <1>3, <2>1 DEF owners
<1>9. Workflow!Draft(r, s)
  BY <1>2, <1>3, <1>5, <1>7, <1>8 DEF Workflow!Draft
<1>10. QED
  BY <1>1, <1>3, <1>4, <1>5, <1>6, <1>9, ResultsKept DEF Workflow!Next

\* A user's or the world's step that leaves the coroutines and the status alone
LEMMA QuietFollows ==
    ASSUME ResultInv, UNCHANGED <<task, status, proposals>>
    PROVE  ResultInv' /\ UNCHANGED Workflow!vars
  BY DEF ResultInv, ResultOk, drafted, owners, InStage, Workflow!vars

\* A new coroutine, not yet in a stage
LEMMA NewTaskFollows ==
    ASSUME WorkflowInv, NEW s \in Slots, NEW r, NEW by, NEW stage, NEW pc \in {"start", "claim"},
           task[s].pc = "idle", task' = [task EXCEPT ![s] = NewTask(r, by, stage, pc)],
           UNCHANGED <<status, proposals>>
    PROVE  ResultInv' /\ UNCHANGED Workflow!vars
<1>1. task \in [Slots -> Task] /\ ResultInv
  BY DEF WorkflowInv, TypeOK
<1>2. NewTask(r, by, stage, pc).pc = pc
  BY DEF NewTask, Idle
<1>3. OnlySlot(s) /\ ~InStage(s) /\ ~InStage(s)'
  BY <1>1, <1>2 DEF OnlySlot, InStage
<1>4. ResultOk(s)'
  BY <1>1, <1>2 DEF ResultOk
<1>5. drafted' = drafted
  BY DEF drafted
<1>6. QED
  BY <1>1, <1>3, <1>4, <1>5, ResultsKept, Stutters

\* The routes write a status only where Edit may, if users leave reports in a
\* stage claim alone; no PATCH reaches fix_proposed, since its two sources are
\* claims or gated.
LEMMA UserFollows ==
    ASSUME WorkflowInv, NEW r \in Reports, UserStep(r), "leave" \notin HandEdits
    PROVE  ResultInv' /\ [Workflow!Next]_(Workflow!vars)
<1> USE DEF reportVars, rowVars
<1>1. TypeInv /\ ClaimInv /\ ResultInv /\ status \in [Reports -> BugStatus \cup {"absent"}]
  BY DEF WorkflowInv, TypeOK
<1>2. ASSUME NEW st, status[r] \notin StageClaims, status' = [status EXCEPT ![r] = st],
             task' = task, proposals' = proposals,
             st \in IF status[r] \in Workflow!Final THEN Workflow!Final ELSE Workflow!Editable
      PROVE  ResultInv' /\ [Workflow!Next]_(Workflow!vars)
  <2>1. ResultInv'
    BY <1>1, <1>2 DEF ResultInv, ResultOk, drafted
  <2>2. QED
    BY <1>1, <1>2, <2>1, Edited
<1>3. ASSUME NEW m \in Modes, CreateReport(r, m)
      PROVE  ResultInv' /\ [Workflow!Next]_(Workflow!vars)
  BY <1>2, <1>3 DEF CreateReport, StageClaims, Rollback, Workflow!Final, Workflow!Editable
<1>4. ASSUME NEW target \in BugStatus, NEW why \in {reason[r], "other"},
             PatchStatus(r, target, why)
      PROVE  ResultInv' /\ [Workflow!Next]_(Workflow!vars)
  <2>1. /\ PatchAllowed(status[r], target) /\ status[r] \notin StageClaims
        /\ status' = [status EXCEPT ![r] = target] /\ task' = task /\ proposals' = proposals
    BY <1>4 DEF PatchStatus
  <2>2. status[r] \notin Workflow!Final
    BY <2>1 DEF PatchAllowed, Terminal, Workflow!Final
  <2>3. target \in Workflow!Editable
    BY <2>1 DEF PatchAllowed, ValidTransitions, PhaseTargets, BugStatus, StageClaims, Rollback,
                Workflow!Editable, Workflow!Claims, Workflow!Final
  <2>4. QED
    BY <1>2, <2>1, <2>2, <2>3
<1>5. CASE DeleteReport(r)
  <2>1. /\ status[r] \notin StageClaims /\ status' = [status EXCEPT ![r] = "rejected"]
        /\ task' = task /\ proposals' = proposals
    BY <1>5 DEF DeleteReport
  <2>2. QED
    BY <1>2, <2>1 DEF Workflow!Final, Workflow!Editable
<1>6. CASE RetryRequest(r) \/ ResetStageRetries(r) \/ \E m \in Modes : PatchMode(r, m)
  <2>1. UNCHANGED <<task, status, proposals>>
    BY <1>6 DEF RetryRequest, ResetStageRetries, PatchMode
  <2>2. QED
    BY <1>1, <2>1, QuietFollows
<1>7. ASSUME NEW s \in Slots, AnalyzeLocal(s, r) \/ AnalyzeCloud(s, r)
      PROVE  ResultInv' /\ [Workflow!Next]_(Workflow!vars)
  <2>1. PICK stage \in {"localize", "fix"} :
            task' = [task EXCEPT ![s] = NewTask(r, "user", stage, "start")]
    BY <1>7 DEF AnalyzeLocal, AnalyzeCloud
  <2>2. task[s].pc = "idle" /\ UNCHANGED <<status, proposals>>
    BY <1>7 DEF AnalyzeLocal, AnalyzeCloud
  <2>3. QED
    BY <2>1, <2>2, NewTaskFollows
<1>8. QED
  BY <1>3, <1>4, <1>5, <1>6, <1>7 DEF UserStep

\* release_orphaned_claims is what Restart does.
LEMMA CrashFollows ==
    ASSUME WorkflowInv, CrashRestart
    PROVE  ResultInv' /\ Workflow!Next
<1>1. \A s \in Slots : ~InStage(s)' /\ ResultOk(s)'
  BY DEF CrashRestart, Idle, InStage, ResultOk
<1>2. owners' = [r \in Reports |-> {}] /\ drafted' = drafted
  BY <1>1 DEF CrashRestart, owners, drafted
<1>3. \A st : RecoveredStatus(st) = Workflow!Released(st)
  BY DEF RecoveredStatus, Workflow!Released, StageClaims, Rollback
<1>4. Workflow!Restart
  BY <1>2, <1>3 DEF CrashRestart, Workflow!Restart
<1>5. QED
  BY <1>1, <1>4 DEF ResultInv, Workflow!Next

\* Every step of the pipeline is a step of StageWorkflow or changes nothing of it.
LEMMA NextFollows ==
    ASSUME "leave" \notin HandEdits, WorkflowInv, [Next]_vars
    PROVE  ResultInv' /\ [Workflow!Next]_(Workflow!vars)
<1> USE DEF reportVars, rowVars
<1>1. ResultInv
  BY DEF WorkflowInv
<1>2. ASSUME NEW s \in Slots, StageStep(s)
      PROVE  ResultInv' /\ [Workflow!Next]_(Workflow!vars)
  BY <1>2, WithinFollows, ClaimingFollows, EndingFollows, CreateFollows DEF StageStep
<1>3. CASE Poll
  BY <1>1, <1>3, QuietFollows DEF Poll, PollSubmitted, PollTriage, PollLocalization, PollFix,
                                  CycleEnds
<1>4. ASSUME NEW s \in Slots, NEW stage \in Stages, NEW r \in Reports, StartJob(s, stage, r)
      PROVE  ResultInv' /\ [Workflow!Next]_(Workflow!vars)
  BY <1>4, NewTaskFollows DEF StartJob
<1>5. CASE PullRepo \/ (\E sha \in pulls : RecordPull(sha))
           \/ \E r \in Reports : \E a \in analyses[r] : DelayElapses(r, a)
  BY <1>1, <1>5, QuietFollows DEF PullRepo, RecordPull, DelayElapses
<1>6. CASE UNCHANGED vars
  BY <1>1, <1>6, QuietFollows DEF vars
<1>7. QED
  BY <1>2, <1>3, <1>4, <1>5, <1>6, UserFollows, CrashFollows DEF Next

\* The pipeline begins where StageWorkflow begins.
LEMMA InitFollows == Init => ResultInv /\ Workflow!Init
<1> SUFFICES ASSUME Init PROVE ResultInv /\ Workflow!Init
  OBVIOUS
<1>1. \A s \in Slots : task[s].pc = "idle"
  BY DEF Init, Idle
<1>2. ResultInv
  BY <1>1 DEF ResultInv, ResultOk
<1>3. owners = [r \in Reports |-> {}] /\ drafted = {}
  BY <1>1 DEF Init, owners, drafted, InStage
<1>4. QED
  BY <1>2, <1>3 DEF Init, Workflow!Init

\* If users leave reports in a stage claim alone, the pipeline implements
\* StageWorkflow: whatever the worker, manual runs, users and crashes do, a stage
\* has its report to itself from the claim on, gives it back in a status its claim
\* may end in, and none says fix_proposed without a proposal.
THEOREM ImplementsWorkflow ==
    ASSUME "leave" \notin HandEdits
    PROVE  Spec => FollowsWorkflow
<1>1. Init => WorkflowInv /\ Workflow!Init
  BY InitTypes, InitClaims, InitFollows DEF WorkflowInv
<1>2. WorkflowInv /\ [Next]_vars => WorkflowInv' /\ [Workflow!Next]_(Workflow!vars)
  BY NextTypes, NextClaims, NextFollows DEF WorkflowInv
<1>3. QED
  BY <1>1, <1>2, PTL DEF Spec, FollowsWorkflow, Workflow!Spec
=============================================================================
