-------------------------- MODULE PipelineRowProofs --------------------------
(***************************************************************************)
(* Theorems about the rows the pipeline stores: one fix proposal for each  *)
(* localization, no running row without the coroutine that ends it, and    *)
(* no paid call of the worker beyond the cap the rows are counted against. *)
(***************************************************************************)
EXTENDS PipelineProofs, FiniteSetTheorems

USE DEF TypeInv

-----------------------------------------------------------------------------
(* One proposal for each localization. *)

\* A coroutine between the check of propose_fix and the stored proposal.
Answering(s) == task[s].pc \in {"files", "paid", "propose"}

\* No proposal appears for the localization such a coroutine works from.
Unanswered ==
    \A s \in Slots : Answering(s) =>
        \A p \in proposals[task[s].report] : p.analysis # task[s].row

ProposalInv == OneProposalPerLocalization /\ Unanswered

\* Slot s stores nothing and, if it is answering, was and for the same row.
KeepsAnswering(s) ==
    /\ proposals' = proposals
    /\ OnlySlot(s)
    /\ Answering(s)' => /\ Answering(s)
                        /\ task'[s].report = task[s].report
                        /\ task'[s].row = task[s].row

LEMMA ProposalsKept ==
    ASSUME TypeInv, ProposalInv, NEW s \in Slots, KeepsAnswering(s)
    PROVE  ProposalInv'
  BY DEF ProposalInv, OneProposalPerLocalization, Unanswered, Answering, KeepsAnswering, OnlySlot

\* The steps of a stage, but for the check and the store, keep the proposals.
LEMMA StageProposals ==
    ASSUME TypeInv, ClaimInv, ProposalInv, NEW s \in Slots, StageStep(s)
    PROVE  ProposalInv'
<1> USE DEF OnlySlot, rowVars
<1>1. task \in [Slots -> Task] /\ task[s] \in Task
  BY DEF TypeOK
<1> DEFINE r == task[s].report
<1>2. ASSUME proposals' = proposals, OnlySlot(s), ~Answering(s)'
      PROVE  ProposalInv'
  BY <1>2, ProposalsKept DEF KeepsAnswering
<1>3. CASE ClaimValidation(s)
  <2>1. PICK o : task' = [task EXCEPT ![s].pc = "settle", ![s].dup = o,
                     ![s].next = IF o = NoReport THEN "triaged" ELSE "duplicate"]
    BY <1>3 DEF ClaimValidation
  <2>2. QED
    BY <1>1, <1>2, <1>3, <2>1 DEF ClaimValidation, Answering, Task
<1>4. CASE ClaimTriage(s) \/ ValidationFails(s) \/ FilesUnreadable(s)
  BY <1>1, <1>2, <1>4 DEF ClaimTriage, ValidationFails, FilesUnreadable, Continue, Answering, Task
<1>5. CASE ClaimLocalization(s)
  BY <1>1, <1>2, <1>5 DEF ClaimLocalization, Continue, SettleWith, Answering, Task
<1>6. CASE ClaimFix(s)
  <2>1. proposals' = proposals
    BY <1>6 DEF ClaimFix
  <2>2. CASE task' = [task EXCEPT ![s].pc = "settle", ![s].next = "fix_proposed"]
             \/ task' = [task EXCEPT ![s].pc = "rollback"]
    BY <1>1, <1>2, <2>1, <2>2 DEF Answering, Task
  <2>3. CASE /\ ~ProposalFor(r, LatestLocalization(r))
             /\ task' = [task EXCEPT ![s].pc = "files", ![s].row = LatestLocalization(r).id]
    <3>1. task'[s].report = r /\ task'[s].row = LatestLocalization(r).id /\ OnlySlot(s)
      BY <1>1, <2>3 DEF Task
    <3>2. \A p \in proposals[r] : p.analysis # LatestLocalization(r).id
      BY <2>3 DEF ProposalFor
    <3>3. QED
      BY <2>1, <3>1, <3>2 DEF ProposalInv, OneProposalPerLocalization, Unanswered, Answering
  <2>4. QED
    BY <1>6, <2>2, <2>3 DEF ClaimFix, Continue, SettleWith
<1>7. CASE ClaimLost(s) \/ Settle(s)
  <2>1. AfterStage(s).pc \in {"idle", "claim"}
    BY DEF AfterStage, NewTask, Idle
  <2>2. QED
    BY <1>1, <1>2, <1>7, <2>1 DEF ClaimLost, Settle, Answering
<1>8. CASE ReadHead(s) \/ LocalizationAborts(s)
  BY <1>1, <1>2, <1>8 DEF ReadHead, LocalizationAborts, SettleWith, Answering, Task
<1>9. CASE RecordHead(s)
  <2>1. \/ task' = [task EXCEPT ![s].pc = "settle", ![s].next = "triaged"]
        \/ task' = [task EXCEPT ![s].pc = "map"]
    BY <1>9 DEF RecordHead, Continue, SettleWith
  <2>2. OnlySlot(s) /\ ~Answering(s)'
    BY <1>1, <2>1 DEF Answering, Task
  <2>3. QED
    BY <1>2, <1>9, <2>2 DEF RecordHead
<1>10. CASE TriageRow(s) \/ LocalizationRow(s)
  <2>1. task' = [task EXCEPT ![s].pc = "llm", ![s].row = clock[r] + 1]
    BY <1>10 DEF TriageRow, LocalizationRow, RunningRow
  <2>2. OnlySlot(s) /\ ~Answering(s)'
    BY <1>1, <2>1 DEF Answering, Task
  <2>3. QED
    BY <1>2, <1>10, <2>2 DEF TriageRow, LocalizationRow
<1>11. CASE StageFails(s) \/ \E st \in {"triaged", "clarification_needed"} : StageSucceeds(s, st)
  BY <1>1, <1>2, <1>11 DEF StageFails, StageSucceeds, SettleWith, Answering, Task
<1>12. CASE RollbackClaim(s)
  BY <1>1, <1>2, <1>12 DEF RollbackClaim, Answering, Idle
<1>13. CASE RunBackground(s) \/ ReopenForAnalysis(s)
  <2>1. LocalStage(r).pc = "claim"
    BY DEF LocalStage, NewTask, Idle
  <2>2. PICK t : t \in {LocalStage(r), [task[s] EXCEPT !.pc = "claim"],
                        [task[s] EXCEPT !.pc = "reopen"]}
                 /\ task' = [task EXCEPT ![s] = t]
    BY <1>13 DEF RunBackground, ReopenForAnalysis, Continue
  <2>3. t.pc \in {"claim", "reopen"}
    BY <1>1, <2>1, <2>2 DEF Task
  <2>4. OnlySlot(s) /\ ~Answering(s)'
    BY <1>1, <2>2, <2>3 DEF Answering
  <2>5. QED
    BY <1>2, <1>13, <2>4 DEF RunBackground, ReopenForAnalysis
<1>14. CASE CallFixModel(s) \/ FixAnswered(s)
  <2>1. KeepsAnswering(s)
    <3>1. PICK pc \in {"paid", "propose"} : Continue(s, pc)
      BY <1>14 DEF CallFixModel, FixAnswered
    <3>2. Answering(s) /\ proposals' = proposals
      BY <1>14 DEF CallFixModel, FixAnswered, Answering
    <3>3. QED
      BY <1>1, <3>1, <3>2, ContinueMoves DEF KeepsAnswering
  <2>2. QED
    BY <2>1, ProposalsKept
<1>15. ASSUME NEW perm \in BOOLEAN, FixFails(s, perm)
       PROVE  ProposalInv'
  <2>1. OnlySlot(s) /\ ~Answering(s)'
    BY <1>1, <1>15, ContinueMoves DEF FixFails, Answering
  <2>2. QED
    BY <1>2, <1>15, <2>1 DEF FixFails
<1>16. CASE CreateProposal(s)
  <2> DEFINE new == [id |-> clock[r] + 1, analysis |-> task[s].row]
  <2>1. r \in Reports /\ InStage(s) /\ Answering(s)
    BY <1>16 DEF CreateProposal, TasksHaveReports, InStage, Answering, SyncPcs
  <2>2. proposals' = [proposals EXCEPT ![r] = proposals[r] \cup {new}]
    BY <1>16 DEF CreateProposal
  <2>3. proposals \in [Reports -> SUBSET Proposal]
    BY DEF TypeOK
  <2>4. OnlySlot(s) /\ ~Answering(s)'
    BY <1>1, <1>16 DEF CreateProposal, SettleWith, Answering, Task
  <2>5. \A p \in proposals[r] : p.analysis # new.analysis
    BY <2>1 DEF ProposalInv, Unanswered
  <2>6. OneProposalPerLocalization'
    BY <2>1, <2>2, <2>3, <2>5 DEF ProposalInv, OneProposalPerLocalization
  <2>7. ASSUME NEW t \in Slots, Answering(t)'
        PROVE  \A p \in proposals'[task'[t].report] : p.analysis # task'[t].row
    <3>1. t # s /\ task'[t] = task[t] /\ Answering(t)
      BY <2>4, <2>7 DEF Answering
    <3>2. InStage(t)
      BY <3>1 DEF Answering, InStage, SyncPcs, AwaitPcs
    <3>3. task[t].report \in Reports /\ task[t].report # r
      BY <2>1, <3>1, <3>2, InStageFacts DEF ClaimInv, NoDoubleProcessing
    <3>4. proposals'[task[t].report] = proposals[task[t].report]
      BY <2>2, <2>3, <3>3
    <3>5. QED
      BY <3>1, <3>4 DEF ProposalInv, Unanswered
  <2>8. QED
    BY <2>6, <2>7 DEF ProposalInv, Unanswered
<1>17. QED
  BY <1>3, <1>4, <1>5, <1>6, <1>7, <1>8, <1>9, <1>10, <1>11, <1>12, <1>13, <1>14, <1>15, <1>16
     DEF StageStep

\* Every step keeps the proposals.
LEMMA NextProposals ==
    ASSUME TypeInv, ClaimInv, ProposalInv, [Next]_vars
    PROVE  ProposalInv'
<1>1. task \in [Slots -> Task]
  BY DEF TypeOK
<1>2. ASSUME UNCHANGED <<task, proposals>>
      PROVE  ProposalInv'
  BY <1>2 DEF ProposalInv, OneProposalPerLocalization, Unanswered, Answering
<1>3. ASSUME NEW s \in Slots, OnlySlot(s), task'[s].pc \in {"start", "claim"},
             proposals' = proposals
      PROVE  ProposalInv'
  BY <1>3, ProposalsKept DEF KeepsAnswering, Answering
<1>4. ASSUME NEW s \in Slots, NEW r \in Reports,
             AnalyzeLocal(s, r) \/ AnalyzeCloud(s, r) \/ \E stage \in Stages : StartJob(s, stage, r)
      PROVE  ProposalInv'
  <2>1. PICK by \in {"worker", "user"}, stage \in Stages, pc \in {"start", "claim"} :
            task' = [task EXCEPT ![s] = NewTask(r, by, stage, pc)]
    BY <1>4 DEF AnalyzeLocal, AnalyzeCloud, StartJob, Stages
  <2>2. NewTask(r, by, stage, pc).pc = pc
    BY DEF NewTask, Idle
  <2>3. proposals' = proposals
    BY <1>4 DEF AnalyzeLocal, AnalyzeCloud, StartJob, rowVars
  <2>4. OnlySlot(s) /\ task'[s].pc = pc
    BY <1>1, <2>1, <2>2 DEF OnlySlot
  <2>5. QED
    BY <1>3, <2>3, <2>4
<1>5. ASSUME NEW r \in Reports, UserStep(r)
      PROVE  ProposalInv'
  BY <1>2, <1>4, <1>5 DEF UserStep, CreateReport, PatchMode, PatchStatus, DeleteReport,
                          RetryRequest, ResetStageRetries, rowVars
<1>6. CASE Poll
  BY <1>2, <1>6 DEF Poll, PollSubmitted, PollTriage, PollLocalization, PollFix, CycleEnds, rowVars
<1>7. CASE PullRepo \/ (\E sha \in pulls : RecordPull(sha))
           \/ \E r \in Reports : \E a \in analyses[r] : DelayElapses(r, a)
  BY <1>2, <1>7 DEF PullRepo, RecordPull, DelayElapses, rowVars
<1>8. CASE CrashRestart
  <2>1. proposals' = proposals /\ \A s \in Slots : ~Answering(s)'
    BY <1>8 DEF CrashRestart, Answering, Idle
  <2>2. QED
    BY <2>1 DEF ProposalInv, OneProposalPerLocalization, Unanswered
<1>9. CASE UNCHANGED vars
  BY <1>2, <1>9 DEF vars
<1>10. QED
  BY <1>4, <1>5, <1>6, <1>7, <1>8, <1>9, StageProposals DEF Next

\* If users leave reports in a stage claim alone, no localization ever has two
\* fix proposals: the check of propose_fix is not atomic with the store, but
\* the claim held between them makes it so, crashes included.
THEOREM OneProposal ==
    ASSUME "leave" \notin HandEdits
    PROVE  Spec => []OneProposalPerLocalization
<1> DEFINE Inv == TypeInv /\ ClaimInv /\ ProposalInv
<1>1. Init => ProposalInv
  BY DEF Init, ProposalInv, OneProposalPerLocalization, Unanswered, Answering, Idle
<1>2. Init => Inv
  BY <1>1, InitTypes, InitClaims
<1>3. Inv /\ [Next]_vars => Inv'
  BY NextTypes, NextClaims, NextProposals
<1>4. Inv => OneProposalPerLocalization
  BY DEF ProposalInv
<1>5. QED
  BY <1>2, <1>3, <1>4, PTL DEF Spec

-----------------------------------------------------------------------------
(* Running rows. *)

\* Running rows stay or end, and no coroutine loses its row.
LEMMA RunningKept ==
    ASSUME RunningRowsOwned,
           \A r \in Reports : \A a \in analyses'[r] : a.status = "running" =>
               \E b \in analyses[r] : b.status = "running" /\ b.id = a.id,
           \A t \in Slots : task[t].pc = "llm" => task'[t] = task[t]
    PROVE  RunningRowsOwned'
  BY DEF RunningRowsOwned

\* The steps of a stage keep running rows owned.
LEMMA StageRunning ==
    ASSUME TypeInv, RunningRowsOwned, NEW s \in Slots, StageStep(s)
    PROVE  RunningRowsOwned'
<1> USE DEF rowVars
<1>1. task \in [Slots -> Task] /\ task[s] \in Task /\ analyses \in [Reports -> SUBSET Analysis]
  BY DEF TypeOK
<1> DEFINE r == task[s].report
<1>2. ASSUME task[s].pc # "llm", analyses' = analyses, NEW t, task' = [task EXCEPT ![s] = t]
      PROVE  RunningRowsOwned'
  BY <1>1, <1>2, RunningKept
<1>3. CASE ClaimValidation(s) \/ ClaimTriage(s) \/ ClaimLocalization(s) \/ ClaimFix(s)
           \/ ClaimLost(s) \/ ValidationFails(s) \/ ReadHead(s) \/ RecordHead(s)
           \/ LocalizationAborts(s) \/ FilesUnreadable(s) \/ CallFixModel(s)
           \/ Settle(s) \/ RollbackClaim(s) \/ RunBackground(s) \/ ReopenForAnalysis(s)
           \/ CreateProposal(s)
  <2>1. task[s].pc # "llm" /\ analyses' = analyses
    BY <1>3 DEF ClaimValidation, ClaimTriage, ClaimLocalization, ClaimFix, ClaimLost,
                ValidationFails, ReadHead, RecordHead, LocalizationAborts, FilesUnreadable,
                CallFixModel, Settle, RollbackClaim, RunBackground, ReopenForAnalysis,
                CreateProposal
  <2>2. \E t : task' = [task EXCEPT ![s] = t]
    BY <1>3 DEF ClaimValidation, ClaimTriage, ClaimLocalization, ClaimFix, ClaimLost,
                ValidationFails, ReadHead, RecordHead, LocalizationAborts, FilesUnreadable,
                CallFixModel, Settle, RollbackClaim, RunBackground, ReopenForAnalysis,
                CreateProposal, Continue, SettleWith
  <2>3. QED
    BY <1>2, <2>1, <2>2
<1>4. CASE TriageRow(s) \/ LocalizationRow(s)
  <2>1. PICK phase : RunningRow(s, phase)
    BY <1>4 DEF TriageRow, LocalizationRow
  <2> DEFINE new == Row(clock[r] + 1, phase, "running", FALSE)
  <2>2. r \in Reports /\ task[s].pc # "llm"
    BY <1>4 DEF TriageRow, LocalizationRow, TasksHaveReports
  <2>3. analyses' = [analyses EXCEPT ![r] = analyses[r] \cup {new}] /\ new.id = clock[r] + 1
    BY <2>1 DEF RunningRow, Row
  <2>4. task'[s].pc = "llm" /\ task'[s].report = r /\ task'[s].row = clock[r] + 1
        /\ \A t \in Slots : t # s => task'[t] = task[t]
    BY <1>1, <2>1 DEF RunningRow, Task
  <2> HIDE DEF new
  <2>5. ASSUME NEW x \in Reports, NEW a \in analyses'[x], a.status = "running"
        PROVE  \E t \in Slots : task'[t].pc = "llm" /\ task'[t].report = x /\ task'[t].row = a.id
    <3>1. CASE a \in analyses[x]
      <4>1. PICK t \in Slots : task[t].pc = "llm" /\ task[t].report = x /\ task[t].row = a.id
        BY <2>5, <3>1 DEF RunningRowsOwned
      <4>2. QED
        BY <2>2, <2>4, <4>1
    <3>2. CASE a \notin analyses[x]
      BY <1>1, <2>2, <2>3, <2>4, <3>2
    <3>3. QED
      BY <3>1, <3>2
  <2>6. QED
    BY <2>5 DEF RunningRowsOwned
<1>5. CASE StageFails(s) \/ \E st \in {"triaged", "clarification_needed"} : StageSucceeds(s, st)
  <2>1. PICK st \in {"completed", "failed"} : RowEnds(s, st)
    BY <1>5 DEF StageFails, StageSucceeds
  <2> DEFINE Ended(a) == IF a.id = task[s].row
                         THEN [a EXCEPT !.status = st, !.recent = (st = "failed"),
                                        !.sha = IF st = "completed" THEN task[s].sha ELSE 0]
                         ELSE a
  <2>2. r \in Reports
    BY <1>5 DEF StageFails, StageSucceeds, TasksHaveReports
  <2>3. analyses' = [analyses EXCEPT ![r] = {Ended(a) : a \in analyses[r]}]
    BY <2>1 DEF RowEnds
  <2>4. \A a \in Analysis : Ended(a).status = "running" => Ended(a) = a /\ a.id # task[s].row
    BY DEF Analysis
  <2> HIDE DEF Ended
  <2>5. \A t \in Slots : t # s => task'[t] = task[t]
    BY <1>1, <1>5 DEF StageFails, StageSucceeds, SettleWith
  <2>6. ASSUME NEW x \in Reports, NEW a \in analyses'[x], a.status = "running"
        PROVE  \E t \in Slots : task'[t].pc = "llm" /\ task'[t].report = x /\ task'[t].row = a.id
    <3>1. a \in analyses[x] /\ (x = r => a.id # task[s].row)
      BY <1>1, <2>2, <2>3, <2>4, <2>6
    <3>2. PICK t \in Slots : task[t].pc = "llm" /\ task[t].report = x /\ task[t].row = a.id
      BY <2>6, <3>1 DEF RunningRowsOwned
    <3>3. QED
      BY <2>5, <3>1, <3>2
  <2>7. QED
    BY <2>6 DEF RunningRowsOwned
<1>6. CASE FixAnswered(s) \/ \E perm \in BOOLEAN : FixFails(s, perm)
  <2>1. PICK st \in {"completed", "failed"}, perm \in BOOLEAN : FixRow(s, st, perm)
    BY <1>6 DEF FixAnswered, FixFails
  <2>2. task[s].pc # "llm" /\ r \in Reports
    BY <1>6 DEF FixAnswered, FixFails, TasksHaveReports
  <2>3. \A t \in Slots : t # s => task'[t] = task[t]
    BY <1>1, <1>6 DEF FixAnswered, FixFails, Continue
  <2>4. analyses' = [analyses EXCEPT ![r] = analyses[r] \cup {Row(clock[r] + 1, "fix", st, perm)}]
    BY <2>1 DEF FixRow
  <2>5. Row(clock[r] + 1, "fix", st, perm).status # "running"
    BY DEF Row
  <2>6. \A x \in Reports : \A a \in analyses'[x] : a.status = "running" => a \in analyses[x]
    BY <1>1, <2>2, <2>4, <2>5
  <2>7. QED
    BY <2>2, <2>3, <2>6, RunningKept
<1>7. QED
  BY <1>3, <1>4, <1>5, <1>6 DEF StageStep

\* Every step keeps running rows owned.
LEMMA NextRunning ==
    ASSUME TypeInv, RunningRowsOwned, [Next]_vars
    PROVE  RunningRowsOwned'
<1>1. task \in [Slots -> Task] /\ analyses \in [Reports -> SUBSET Analysis]
  BY DEF TypeOK
<1>2. ASSUME UNCHANGED <<task, analyses>>
      PROVE  RunningRowsOwned'
  BY <1>2 DEF RunningRowsOwned
<1>3. ASSUME NEW s \in Slots, NEW r \in Reports,
             AnalyzeLocal(s, r) \/ AnalyzeCloud(s, r) \/ \E stage \in Stages : StartJob(s, stage, r)
      PROVE  RunningRowsOwned'
  <2>1. task[s].pc = "idle" /\ analyses' = analyses
    BY <1>3 DEF AnalyzeLocal, AnalyzeCloud, StartJob, rowVars
  <2>2. \A t \in Slots : t # s => task'[t] = task[t]
    BY <1>1, <1>3 DEF AnalyzeLocal, AnalyzeCloud, StartJob
  <2>3. QED
    BY <2>1, <2>2, RunningKept
<1>4. ASSUME NEW r \in Reports, ResetStageRetries(r)
      PROVE  RunningRowsOwned'
  <2>1. \A x \in Reports : analyses'[x] \subseteq analyses[x]
    BY <1>1, <1>4 DEF ResetStageRetries
  <2>2. task' = task
    BY <1>4 DEF ResetStageRetries
  <2>3. QED
    BY <2>1, <2>2, RunningKept
<1>5. ASSUME NEW r \in Reports, UserStep(r)
      PROVE  RunningRowsOwned'
  BY <1>2, <1>3, <1>4, <1>5 DEF UserStep, CreateReport, PatchMode, PatchStatus, DeleteReport,
                                RetryRequest, rowVars
<1>6. CASE Poll
  BY <1>2, <1>6 DEF Poll, PollSubmitted, PollTriage, PollLocalization, PollFix, CycleEnds, rowVars
<1>7. CASE PullRepo \/ \E sha \in pulls : RecordPull(sha)
  BY <1>2, <1>7 DEF PullRepo, RecordPull, rowVars
<1>8. ASSUME NEW r \in Reports, NEW a \in analyses[r], DelayElapses(r, a)
      PROVE  RunningRowsOwned'
  <2> DEFINE b == [a EXCEPT !.recent = FALSE]
  <2>1. a \in Analysis
    BY <1>1
  <2>2. b.status = a.status /\ b.id = a.id
    BY <2>1 DEF Analysis
  <2> HIDE DEF b
  <2>3. analyses' = [analyses EXCEPT ![r] = (analyses[r] \ {a}) \cup {b}] /\ task' = task
    BY <1>8 DEF DelayElapses, b
  <2>4. \A x \in Reports : \A c \in analyses'[x] : c.status = "running" =>
            \E d \in analyses[x] : d.status = "running" /\ d.id = c.id
    BY <1>1, <2>2, <2>3
  <2>5. QED
    BY <2>3, <2>4, RunningKept
<1>9. CASE CrashRestart
  <2>1. \A a \in Analysis : [a EXCEPT !.status = "failed", !.recent = TRUE].status = "failed"
    BY DEF Analysis
  <2>2. ASSUME NEW r \in Reports, NEW b \in RecoveredRows(r)
        PROVE  b.status # "running"
    <3>1. CASE b = Row(clock[r] + 1, "fix", "failed", TRUE)
      BY <3>1 DEF Row
    <3>2. CASE b # Row(clock[r] + 1, "fix", "failed", TRUE)
      <4>1. PICK a \in analyses[r] :
                b = IF a.status = "running"
                    THEN [a EXCEPT !.status = "failed", !.recent = TRUE] ELSE a
        BY <2>2, <3>2 DEF RecoveredRows
      <4>2. a \in Analysis
        BY <1>1
      <4>3. QED
        BY <2>1, <4>1, <4>2
    <3>3. QED
      BY <3>1, <3>2
  <2>3. QED
    BY <1>9, <2>2 DEF CrashRestart, RunningRowsOwned
<1>10. CASE UNCHANGED vars
  BY <1>2, <1>10 DEF vars
<1>11. QED
  BY <1>3, <1>5, <1>6, <1>7, <1>8, <1>9, <1>10, StageRunning DEF Next

\* Whatever users do, a row in status running has the coroutine that will end
\* it, and a restart leaves none behind: no attempt escapes the retry caps,
\* which count failed rows only.
THEOREM RunningOwned == Spec => []RunningRowsOwned
<1> DEFINE Inv == TypeInv /\ RunningRowsOwned
<1>1. Init => Inv
  BY InitTypes DEF Init, RunningRowsOwned
<1>2. Inv /\ [Next]_vars => Inv'
  BY NextTypes, NextRunning
<1>3. Inv => RunningRowsOwned
  OBVIOUS
<1>4. QED
  BY <1>1, <1>2, <1>3, PTL DEF Spec

-----------------------------------------------------------------------------
(* The paid-call budget. What the worker paid for is on record in the rows    *)
(* the retry gate counts; the gate is read when a job is sampled, and one job *)
(* of a report at a time keeps the answer good until the call is made.        *)

\* What the rows of a report say, by their created_at stamps: the completed
\* localizations, ...
LocIds(r) == {c.id : c \in RowsOf(r, "localization", "completed")}

\* ... the failed fix attempts since, ...
FailedAfter(r) == {a \in RowsOf(r, "fix", "failed") : \A l \in LocIds(r) : a.id > l}
FixIds(r) == {a.id : a \in FailedAfter(r)}

\* ... whether one of them was permanent, ...
GivenUp(r) == \E a \in FailedAfter(r) : a.permanent

\* ... and whether the newest localization has its proposal.
IsLatest(r, id) == id \in LocIds(r) /\ \A l \in LocIds(r) : l <= id
Answered(r) == \E p \in proposals[r] : IsLatest(r, p.analysis)

\* created_at tells the rows of a report apart.
RowsDistinct(r) == \A a, b \in analyses[r] : a.id = b.id => a = b

\* A fix job of the worker, waiting or running
Fixing(s) == task[s].pc # "idle" /\ task[s].by = "worker" /\ task[s].stage = "fix"
Queued(r) == <<"fix", r>> \in queue

\* One poll cycle has at most one fix job for a report, and none outlives it.
JobInv ==
    /\ poll # "gather" => WorkerSlots = {} /\ \A r \in Reports : ~Queued(r)
    /\ \A s \in Slots : Fixing(s) =>
          /\ ~Queued(task[s].report)
          /\ \A t \in Slots : Fixing(t) /\ task[t].report = task[s].report => t = s

\* Where a coroutine is tells its stage; the row it ends is its own running one;
\* a fix works from the newest localization.
PlaceOk(s) ==
    /\ task[s].pc = "row" => task[s].stage = "triage"
    /\ task[s].pc \in {"sha", "fresh", "map"} => task[s].stage = "localize"
    /\ Answering(s) => task[s].stage = "fix" /\ IsLatest(task[s].report, task[s].row)
    /\ task[s].pc = "llm" =>
          /\ task[s].stage \in {"triage", "localize"}
          /\ \A a \in analyses[task[s].report] : a.id = task[s].row =>
                /\ a.status = "running"
                /\ a.phase = IF task[s].stage = "triage" THEN "triage" ELSE "localization"

RecordInv == (\A r \in Reports : RowsDistinct(r)) /\ \A s \in Slots : PlaceOk(s)

\* The cap as _retry_blocked applies it: without a failed row it never blocks,
\* so a cap of 0 lets one call through.
Cap == IF MaxFixRetries = 0 THEN 1 ELSE MaxFixRetries

\* The worker may still pay for the report in this cycle.
MayPay(r) ==
    \/ Queued(r)
    \/ \E s \in Slots : Fixing(s) /\ task[s].report = r
                        /\ task[s].pc \in {"start", "claim", "files"}

\* The worker's call is out, or its answer is not stored yet.
CallOut(r) ==
    \E s \in Slots : Fixing(s) /\ task[s].report = r /\ task[s].pc \in {"paid", "propose"}

\* Each call the worker paid for has its failed row, or is the one that is out,
\* or no further one is made for this localization.
Accounted(r) ==
    \/ autoPaid[r] <= Cardinality(FixIds(r))
    \/ CallOut(r) /\ autoPaid[r] <= Cardinality(FixIds(r)) + 1
    \/ GivenUp(r)
    \/ Answered(r)

PayOk(r) ==
    /\ autoPaid[r] <= Cap
    /\ MayPay(r) => autoPaid[r] < Cap
    /\ Accounted(r)

PayInv == \A r \in Reports : PayOk(r)

\* The rows of a report are counted by their stamps.
LEMMA CountedByStamp ==
    ASSUME TypeInv, NEW r \in Reports
    PROVE  /\ IsFiniteSet(FixIds(r)) /\ Cardinality(FixIds(r)) \in Nat
           /\ RowsDistinct(r) => /\ IsFiniteSet(FailedAfter(r))
                                 /\ Cardinality(FailedAfter(r)) = Cardinality(FixIds(r))
<1>1. /\ analyses[r] \subseteq Analysis /\ clock[r] \in Nat
      /\ \A a \in analyses[r] : a.id \in Nat /\ a.id <= clock[r]
  BY DEF TypeOK, StampsIssued, Analysis
<1>2. FixIds(r) \in SUBSET Nat /\ \A i \in FixIds(r) : i <= clock[r]
  BY <1>1 DEF FixIds, FailedAfter, RowsOf
<1>3. IsFiniteSet(FixIds(r)) /\ Cardinality(FixIds(r)) \in Nat
  BY <1>1, <1>2, FS_BoundedSetOfNaturals, FS_CardinalityType
<1>4. ASSUME RowsDistinct(r)
      PROVE  /\ IsFiniteSet(FailedAfter(r))
             /\ Cardinality(FailedAfter(r)) = Cardinality(FixIds(r))
  <2> DEFINE f == [a \in FailedAfter(r) |-> a.id]
  <2>1. f \in [FailedAfter(r) -> FixIds(r)]
    BY DEF FixIds
  <2>2. \A a, b \in FailedAfter(r) : f[a] = f[b] => a = b
    BY <1>4 DEF RowsDistinct, FailedAfter, RowsOf
  <2>3. \A i \in FixIds(r) : \E a \in FailedAfter(r) : f[a] = i
    BY DEF FixIds
  <2> HIDE DEF f
  <2>4. f \in Injection(FailedAfter(r), FixIds(r)) /\ f \in Surjection(FailedAfter(r), FixIds(r))
    BY <2>1, <2>2, <2>3 DEF Injection, Surjection, IsInjective
  <2>5. QED
    BY <1>3, <2>4, FS_Injection
<1>5. QED
  BY <1>3, <1>4

\* latest_completed_localization picks the newest stamp.
LEMMA LatestIsNewest ==
    ASSUME TypeInv, NEW r \in Reports, Localized(r)
    PROVE  IsLatest(r, LatestLocalization(r).id)
<1>1. /\ analyses[r] \subseteq Analysis /\ clock[r] \in Nat
      /\ \A a \in analyses[r] : a.id <= clock[r]
  BY DEF TypeOK, StampsIssued
<1> DEFINE rows == RowsOf(r, "localization", "completed")
<1>2. rows \subseteq Analysis /\ rows # {} /\ \A a \in rows : a.id <= clock[r]
  BY <1>1 DEF RowsOf, Localized
<1> HIDE DEF rows
<1>3. Newest(rows) \in rows /\ \A b \in rows : b.id <= Newest(rows).id
  BY <1>1, <1>2, NewestIsARow
<1>4. QED
  BY <1>3 DEF IsLatest, LocIds, LatestLocalization, rows

\* The eligibility query for fixes, read on the stamps: nothing is proposed, no
\* failure is permanent and the failures are fewer than the cap.
LEMMA GateReadsRows ==
    ASSUME TypeInv, NEW r \in Reports, RowsDistinct(r), FixEligible(r)
    PROVE  ~Answered(r) /\ ~GivenUp(r) /\ Cardinality(FixIds(r)) < Cap
<1> DEFINE id == LatestLocalization(r).id
<1>1. IsLatest(r, id)
  BY LatestIsNewest DEF FixEligible, Fresh
<1>2. LocIds(r) \subseteq Nat /\ \A a \in analyses[r] : a.id \in Nat
  BY DEF TypeOK, LocIds, RowsOf, Analysis
<1>3. ~ProposalFor(r, LatestLocalization(r))
      /\ ~RetryBlocked(FailedFixes(r, LatestLocalization(r)), MaxFixRetries)
  BY DEF FixEligible
<1>4. ~Answered(r)
  <2>1. ASSUME NEW p \in proposals[r], IsLatest(r, p.analysis) PROVE p.analysis = id
    BY <1>1, <1>2, <2>1 DEF IsLatest
  <2>2. QED
    BY <1>3, <2>1 DEF Answered, ProposalFor
<1>5. FailedFixes(r, LatestLocalization(r)) = FailedAfter(r)
  <2>1. ASSUME NEW a \in analyses[r] PROVE a.id > id <=> \A l \in LocIds(r) : a.id > l
    BY <1>1, <1>2 DEF IsLatest
  <2> HIDE DEF id
  <2>2. FailedFixes(r, LatestLocalization(r)) = {a \in RowsOf(r, "fix", "failed") : a.id > id}
    BY DEF FailedFixes, id
  <2>3. QED
    BY <2>1, <2>2 DEF FailedAfter, RowsOf
<1>6. CASE FailedAfter(r) = {}
  <2>1. FixIds(r) = {}
    BY <1>6 DEF FixIds
  <2>2. Cardinality(FixIds(r)) = 0
    BY <2>1, FS_EmptySet
  <2>3. MaxFixRetries \in Nat
    BY SettingsAssumption
  <2>4. QED
    BY <1>4, <1>6, <2>2, <2>3 DEF GivenUp, Cap
<1>7. CASE FailedAfter(r) # {}
  <2>1. ~GivenUp(r) /\ ~(Cardinality(FailedAfter(r)) >= MaxFixRetries)
    BY <1>3, <1>5, <1>7 DEF RetryBlocked, GivenUp
  <2>2. MaxFixRetries \in Nat
    BY SettingsAssumption
  <2>3. QED
    BY <1>4, <2>1, <2>2, CountedByStamp DEF Cap
<1>8. QED
  BY <1>6, <1>7

\* The rows of a report change, if at all, so that completed localizations stay
\* as they are and failed fix attempts are only added.
RowsGrow(r) ==
    /\ RowsDistinct(r)'
    /\ LocIds(r)' = LocIds(r)
    /\ FixIds(r) \subseteq FixIds(r)'
    /\ GivenUp(r) => GivenUp(r)'

LEMMA RowsSame ==
    ASSUME NEW r \in Reports, RowsDistinct(r), analyses'[r] = analyses[r]
    PROVE  RowsGrow(r)
  BY DEF RowsGrow, RowsDistinct, LocIds, FixIds, GivenUp, FailedAfter, RowsOf

\* A new row gets a stamp later than all others (db._now).
LEMMA RowAdded ==
    ASSUME TypeInv, NEW r \in Reports, RowsDistinct(r), NEW new \in Analysis,
           new.id = clock[r] + 1, analyses'[r] = analyses[r] \cup {new},
           new.phase = "localization" => new.status # "completed"
    PROVE  /\ RowsGrow(r)
           /\ new.phase = "fix" /\ new.status = "failed" =>
                 /\ clock[r] + 1 \in FixIds(r)' /\ clock[r] + 1 \notin FixIds(r)
                 /\ new.permanent => GivenUp(r)'
<1>1. clock[r] \in Nat /\ \A a \in analyses[r] : a.id \in Nat /\ a.id < new.id
  BY DEF TypeOK, StampsIssued, Analysis
<1>2. RowsDistinct(r)'
  BY <1>1 DEF RowsDistinct
<1>3. LocIds(r)' = LocIds(r)
  BY DEF LocIds, RowsOf
<1>4. \A l \in LocIds(r) : l < new.id
  BY <1>1 DEF LocIds, RowsOf
<1>5. FailedAfter(r) \subseteq FailedAfter(r)'
  BY <1>3 DEF FailedAfter, RowsOf
<1>6. FixIds(r) \subseteq FixIds(r)' /\ (GivenUp(r) => GivenUp(r)')
  BY <1>5 DEF FixIds, GivenUp
<1>7. ASSUME new.phase = "fix", new.status = "failed"
      PROVE  /\ clock[r] + 1 \in FixIds(r)' /\ clock[r] + 1 \notin FixIds(r)
             /\ new.permanent => GivenUp(r)'
  <2>1. new \in FailedAfter(r)'
    <3>1. \A l \in LocIds(r)' : new.id > l
      BY <1>1, <1>3, <1>4 DEF LocIds, RowsOf
    <3>2. QED
      BY <1>7, <3>1 DEF FailedAfter, RowsOf
  <2>2. clock[r] + 1 \notin FixIds(r)
    BY <1>1 DEF FixIds, FailedAfter, RowsOf
  <2>3. QED
    BY <2>1, <2>2 DEF FixIds, GivenUp
<1>8. QED
  BY <1>2, <1>3, <1>6, <1>7 DEF RowsGrow

\* Rows change into rows with the same stamps, in ways the ledger does not see.
LEMMA RowsReplaced ==
    ASSUME TypeInv, NEW r \in Reports, RowsDistinct(r),
           \A b \in analyses'[r] : \E a \in analyses[r] : b.id = a.id,
           \A b, c \in analyses'[r] : b.id = c.id => b = c,
           \A a \in analyses[r] : \E b \in analyses'[r] : b.id = a.id,
           \A a \in analyses[r], b \in analyses'[r] : a.id = b.id =>
               /\ a.phase = "localization" /\ a.status = "completed"
                  <=> b.phase = "localization" /\ b.status = "completed"
               /\ a.phase = "fix" /\ a.status = "failed" =>
                     b.phase = "fix" /\ b.status = "failed" /\ b.permanent = a.permanent
    PROVE  RowsGrow(r)
<1>1. LocIds(r)' = LocIds(r)
  BY DEF LocIds, RowsOf
<1>2. ASSUME NEW a \in FailedAfter(r)
      PROVE  \E b \in FailedAfter(r)' : b.id = a.id /\ b.permanent = a.permanent
  <2>1. a \in analyses[r] /\ a.phase = "fix" /\ a.status = "failed"
        /\ \A l \in LocIds(r) : a.id > l
    BY <1>2 DEF FailedAfter, RowsOf
  <2>2. PICK b \in analyses'[r] : b.id = a.id
    BY <2>1
  <2>3. b.phase = "fix" /\ b.status = "failed" /\ b.permanent = a.permanent
    BY <2>1, <2>2
  <2>4. b \in FailedAfter(r)'
    BY <1>1, <2>1, <2>2, <2>3 DEF FailedAfter, RowsOf
  <2>5. QED
    BY <2>2, <2>3, <2>4
<1>3. FixIds(r) \subseteq FixIds(r)'
  BY <1>2 DEF FixIds
<1>4. GivenUp(r) => GivenUp(r)'
  BY <1>2 DEF GivenUp
<1>5. QED
  BY <1>1, <1>3, <1>4 DEF RowsGrow, RowsDistinct

\* analysis_update of the row a triage or localization runs.
LEMMA RowEnded ==
    ASSUME TypeInv, NEW s \in Slots, task[s].pc = "llm", NEW r \in Reports,
           r = task[s].report, RowsDistinct(r), PlaceOk(s),
           NEW st \in {"completed", "failed"}, RowEnds(s, st)
    PROVE  /\ RowsDistinct(r)'
           /\ \A x \in Reports : x # r => analyses'[x] = analyses[x]
           /\ st = "failed" \/ task[s].stage = "triage" => RowsGrow(r)
<1>1. analyses \in [Reports -> SUBSET Analysis]
  BY DEF TypeOK
<1> DEFINE Ended(a) == IF a.id = task[s].row
                       THEN [a EXCEPT !.status = st, !.recent = (st = "failed"),
                                      !.sha = IF st = "completed" THEN task[s].sha ELSE 0]
                       ELSE a
<1>2. analyses' = [analyses EXCEPT ![r] = {Ended(a) : a \in analyses[r]}]
  BY DEF RowEnds
<1>3. \A a \in Analysis : /\ Ended(a).id = a.id /\ Ended(a).phase = a.phase
                          /\ Ended(a).permanent = a.permanent
                          /\ Ended(a).status = IF a.id = task[s].row THEN st ELSE a.status
  BY DEF Analysis
<1> HIDE DEF Ended
<1>4. analyses'[r] = {Ended(a) : a \in analyses[r]} /\ analyses[r] \subseteq Analysis
  BY <1>1, <1>2
<1>5. \A b, c \in analyses'[r] : b.id = c.id => b = c
  BY <1>3, <1>4 DEF RowsDistinct
<1>6. ASSUME task[s].stage = "localize" => st = "failed"
      PROVE  RowsGrow(r)
  <2>1. \A a \in analyses[r] : a.id = task[s].row =>
            /\ a.status = "running"
            /\ a.phase = IF task[s].stage = "triage" THEN "triage" ELSE "localization"
    BY DEF PlaceOk
  <2>2. ASSUME NEW a \in analyses[r], NEW b \in analyses'[r], a.id = b.id
        PROVE  /\ a.phase = "localization" /\ a.status = "completed"
                  <=> b.phase = "localization" /\ b.status = "completed"
               /\ a.phase = "fix" /\ a.status = "failed" =>
                     b.phase = "fix" /\ b.status = "failed" /\ b.permanent = a.permanent
    <3>1. b = Ended(a)
      BY <1>3, <1>4, <2>2 DEF RowsDistinct
    <3>2. QED
      BY <1>3, <1>4, <1>6, <2>1, <3>1 DEF PlaceOk
  <2>3. /\ \A b \in analyses'[r] : \E a \in analyses[r] : b.id = a.id
        /\ \A a \in analyses[r] : \E b \in analyses'[r] : b.id = a.id
    BY <1>3, <1>4
  <2>4. QED
    BY <1>5, <2>2, <2>3, RowsReplaced
<1>7. QED
  BY <1>1, <1>2, <1>5, <1>6 DEF RowsDistinct, PlaceOk

\* retry_delay_seconds pass for one row.
LEMMA RowAges ==
    ASSUME TypeInv, NEW r \in Reports, RowsDistinct(r), NEW a \in analyses[r], DelayElapses(r, a)
    PROVE  /\ RowsGrow(r)
           /\ \A x \in Reports : x # r => analyses'[x] = analyses[x]
           /\ \A b \in analyses'[r] : \E c \in analyses[r] :
                 b.id = c.id /\ b.status = c.status /\ b.phase = c.phase
<1>1. analyses \in [Reports -> SUBSET Analysis] /\ a \in Analysis
  BY DEF TypeOK
<1> DEFINE aged == [a EXCEPT !.recent = FALSE]
<1>2. /\ aged.id = a.id /\ aged.phase = a.phase /\ aged.status = a.status
      /\ aged.permanent = a.permanent
  BY <1>1 DEF Analysis
<1> HIDE DEF aged
<1>3. analyses' = [analyses EXCEPT ![r] = (analyses[r] \ {a}) \cup {aged}]
  BY DEF DelayElapses, aged
<1>4. analyses'[r] = (analyses[r] \ {a}) \cup {aged}
  BY <1>1, <1>3
<1>5. \A b, c \in analyses'[r] : b.id = c.id => b = c
  BY <1>2, <1>4 DEF RowsDistinct
<1>6. \A b \in analyses'[r] : \E c \in analyses[r] :
          /\ b.id = c.id /\ b.status = c.status /\ b.phase = c.phase
          /\ b.permanent = c.permanent
  BY <1>2, <1>4
<1>7. \A c \in analyses[r] : \E b \in analyses'[r] : b.id = c.id
  BY <1>2, <1>4
<1>8. \A c \in analyses[r], b \in analyses'[r] : c.id = b.id =>
          c.phase = b.phase /\ c.status = b.status /\ c.permanent = b.permanent
  BY <1>6 DEF RowsDistinct
<1>9. RowsGrow(r)
  BY <1>5, <1>6, <1>7, <1>8, RowsReplaced
<1>10. QED
  BY <1>1, <1>3, <1>6, <1>9

\* release_orphaned_claims fails the running rows, and records an interrupted
\* paid call as a permanent failure.
LEMMA RowsRecovered ==
    ASSUME TypeInv, NEW r \in Reports, RowsDistinct(r), analyses'[r] = RecoveredRows(r)
    PROVE  /\ RowsGrow(r)
           /\ status[r] = "fix_proposing" => GivenUp(r)'
<1>1. analyses[r] \subseteq Analysis /\ clock[r] \in Nat
      /\ \A a \in analyses[r] : a.id \in Nat /\ a.id <= clock[r]
  BY DEF TypeOK, StampsIssued, Analysis
<1> DEFINE Rec(a) == IF a.status = "running"
                     THEN [a EXCEPT !.status = "failed", !.recent = TRUE] ELSE a
           extra == Row(clock[r] + 1, "fix", "failed", TRUE)
<1>2. \A a \in Analysis : /\ Rec(a).id = a.id /\ Rec(a).phase = a.phase
                          /\ Rec(a).permanent = a.permanent
                          /\ a.status # "running" => Rec(a) = a
                          /\ a.status = "running" => Rec(a).status = "failed"
  BY DEF Analysis
<1>3. /\ extra.id = clock[r] + 1 /\ extra.phase = "fix" /\ extra.status = "failed"
      /\ extra.permanent
  BY DEF Row
<1>4. analyses'[r] = {Rec(a) : a \in analyses[r]}
                     \cup (IF status[r] = "fix_proposing" THEN {extra} ELSE {})
  BY DEF RecoveredRows
<1> HIDE DEF Rec, extra
<1>5. RowsDistinct(r)'
  <2>1. \A a \in analyses[r] : Rec(a).id = a.id /\ a.id < extra.id
    BY <1>1, <1>2, <1>3
  <2>2. \A a, b \in analyses[r] : Rec(a).id = Rec(b).id => Rec(a) = Rec(b)
    BY <2>1 DEF RowsDistinct
  <2>3. \A a \in analyses[r] : Rec(a).id # extra.id
    BY <1>1, <1>3, <2>1
  <2>4. QED
    BY <1>4, <2>2, <2>3 DEF RowsDistinct
<1>6. LocIds(r)' = LocIds(r)
  <2>1. ASSUME NEW c \in RowsOf(r, "localization", "completed")
        PROVE  c \in RowsOf(r, "localization", "completed")'
    BY <1>1, <1>2, <1>4, <2>1 DEF RowsOf
  <2>2. ASSUME NEW c \in RowsOf(r, "localization", "completed")'
        PROVE  c \in RowsOf(r, "localization", "completed")
    <3>1. c \in analyses'[r] /\ c.phase = "localization" /\ c.status = "completed"
      BY <2>2 DEF RowsOf
    <3>2. PICK a \in analyses[r] : c = Rec(a)
      BY <1>3, <1>4, <3>1
    <3>3. c = a
      BY <1>1, <1>2, <3>1, <3>2
    <3>4. QED
      BY <3>1, <3>3 DEF RowsOf
  <2>3. QED
    BY <2>1, <2>2 DEF LocIds
<1>7. FailedAfter(r) \subseteq FailedAfter(r)'
  <2>1. ASSUME NEW a \in RowsOf(r, "fix", "failed") PROVE a \in RowsOf(r, "fix", "failed")'
    BY <1>1, <1>2, <1>4, <2>1 DEF RowsOf
  <2>2. QED
    BY <1>6, <2>1 DEF FailedAfter
<1>8. ASSUME status[r] = "fix_proposing" PROVE GivenUp(r)'
  <2>1. extra \in RowsOf(r, "fix", "failed")'
    BY <1>3, <1>4, <1>8 DEF RowsOf
  <2>2. \A l \in LocIds(r) : extra.id > l
    BY <1>1, <1>3 DEF LocIds, RowsOf
  <2>3. extra \in FailedAfter(r)'
    BY <1>6, <2>1, <2>2 DEF FailedAfter
  <2>4. QED
    BY <1>3, <2>3 DEF GivenUp
<1>9. QED
  BY <1>5, <1>6, <1>7, <1>8 DEF RowsGrow, FixIds, GivenUp

\* Before the call, a fix job is at one of these points.
Early == {"start", "claim", "files"}

\* Only the coroutine of slot s moves; it becomes no worker's if it was none,
\* and as a fix job of the worker it goes on for the same report.
MovesOn(s) ==
    /\ OnlySlot(s) /\ task[s].pc # "idle" /\ poll' = poll /\ queue' = queue
    /\ task'[s].pc # "idle" /\ task'[s].by = "worker" => task[s].by = "worker"
    /\ Fixing(s)' => /\ Fixing(s) /\ task'[s].report = task[s].report
                     /\ task'[s].pc \in Early => task[s].pc \in Early

\* Every step of a stage moves its coroutine on.
LEMMA StageMoves ==
    ASSUME TypeInv, NEW s \in Slots, StageStep(s)
    PROVE  MovesOn(s)
<1> USE DEF OnlySlot, loopVars, MovesOn
<1>1. task \in [Slots -> Task] /\ task[s] \in Task
  BY DEF TypeOK
<1>2. ASSUME NEW t, task' = [task EXCEPT ![s] = t], task[s].pc # "idle",
             poll' = poll, queue' = queue, t.by = task[s].by, t.report = task[s].report,
             t.stage = task[s].stage, t.pc \in Early => task[s].pc \in Early
      PROVE  MovesOn(s)
  BY <1>1, <1>2 DEF Fixing
<1>3. ASSUME NEW t, task' = [task EXCEPT ![s] = t], task[s].pc # "idle",
             poll' = poll, queue' = queue, t.by \in {"user", task[s].by},
             t.pc = "idle" \/ t.by = "user" \/ t.stage # "fix"
      PROVE  MovesOn(s)
  BY <1>1, <1>3 DEF Fixing
<1>4. CASE ClaimValidation(s)
  <2>1. PICK o : task' = [task EXCEPT ![s].pc = "settle", ![s].dup = o,
                     ![s].next = IF o = NoReport THEN "triaged" ELSE "duplicate"]
    BY <1>4 DEF ClaimValidation
  <2> DEFINE t == [task[s] EXCEPT !.pc = "settle", !.dup = o,
                     !.next = IF o = NoReport THEN "triaged" ELSE "duplicate"]
  <2>2. task' = [task EXCEPT ![s] = t]
    BY <2>1
  <2>3. t.pc = "settle" /\ t.by = task[s].by /\ t.report = task[s].report
        /\ t.stage = task[s].stage
    BY <1>1 DEF Task
  <2>4. task[s].pc # "idle" /\ poll' = poll /\ queue' = queue
    BY <1>4 DEF ClaimValidation
  <2> HIDE DEF t
  <2>5. QED
    BY <1>2, <2>2, <2>3, <2>4 DEF Early
<1>5. ASSUME NEW pc, Continue(s, pc), task[s].pc # "idle", poll' = poll, queue' = queue,
             pc \in Early => task[s].pc \in Early
      PROVE  MovesOn(s)
  <2>1. task' = [task EXCEPT ![s] = [task[s] EXCEPT !.pc = pc]]
    BY <1>5 DEF Continue
  <2>2. QED
    BY <1>1, <1>2, <1>5, <2>1 DEF Task
<1>6. ASSUME NEW st, SettleWith(s, st), task[s].pc # "idle", poll' = poll, queue' = queue
      PROVE  MovesOn(s)
  <2>1. task' = [task EXCEPT ![s] = [task[s] EXCEPT !.pc = "settle", !.next = st]]
    BY <1>6 DEF SettleWith
  <2>2. QED
    BY <1>1, <1>2, <1>6, <2>1 DEF Task, Early
<1>7. CASE ValidationFails(s) \/ ClaimTriage(s) \/ FilesUnreadable(s) \/ CallFixModel(s)
           \/ FixAnswered(s) \/ \E perm \in BOOLEAN : FixFails(s, perm)
  BY <1>5, <1>7 DEF ValidationFails, ClaimTriage, FilesUnreadable, CallFixModel, FixAnswered,
                    FixFails, Early
<1>8. CASE LocalizationAborts(s) \/ StageFails(s) \/ CreateProposal(s)
           \/ \E st \in {"triaged", "clarification_needed"} : StageSucceeds(s, st)
  BY <1>6, <1>8 DEF LocalizationAborts, StageFails, CreateProposal, StageSucceeds
<1>9. CASE ClaimLocalization(s) \/ RecordHead(s)
  BY <1>5, <1>6, <1>9 DEF ClaimLocalization, RecordHead, Early
<1>10. CASE ClaimFix(s)
  <2>1. ASSUME task' = [task EXCEPT ![s].pc = "files",
                               ![s].row = LatestLocalization(task[s].report).id]
        PROVE  MovesOn(s)
    <3> DEFINE t == [task[s] EXCEPT !.pc = "files",
                               !.row = LatestLocalization(task[s].report).id]
    <3>1. task' = [task EXCEPT ![s] = t]
      BY <2>1
    <3>2. t.by = task[s].by /\ t.report = task[s].report /\ t.stage = task[s].stage
      BY <1>1 DEF Task
    <3>3. task[s].pc = "claim" /\ poll' = poll /\ queue' = queue
      BY <1>10 DEF ClaimFix
    <3> HIDE DEF t
    <3>4. QED
      BY <1>2, <3>1, <3>2, <3>3 DEF Early
  <2>2. QED
    BY <1>5, <1>6, <1>10, <2>1 DEF ClaimFix, Early
<1>11. CASE ClaimLost(s) \/ Settle(s)
  <2>1. /\ AfterStage(s).pc = "idle" \/ AfterStage(s).stage # "fix"
        /\ AfterStage(s).pc = "idle" \/ AfterStage(s).by = task[s].by
    BY DEF AfterStage, NewTask, Idle
  <2>2. task' = [task EXCEPT ![s] = AfterStage(s)] /\ task[s].pc # "idle"
        /\ poll' = poll /\ queue' = queue
    BY <1>11 DEF ClaimLost, Settle
  <2>3. QED
    BY <1>1, <2>1, <2>2 DEF Fixing
<1>12. CASE ReadHead(s)
  <2>1. task' = [task EXCEPT ![s] = [task[s] EXCEPT !.pc = "fresh", !.sha = checkout]]
    BY <1>12 DEF ReadHead
  <2>2. QED
    BY <1>1, <1>2, <1>12, <2>1 DEF ReadHead, Task, Early
<1>13. CASE TriageRow(s) \/ LocalizationRow(s)
  <2> DEFINE t == [task[s] EXCEPT !.pc = "llm", !.row = clock[task[s].report] + 1]
  <2>1. task' = [task EXCEPT ![s] = t] /\ task[s].pc # "idle" /\ poll' = poll /\ queue' = queue
    BY <1>13 DEF TriageRow, LocalizationRow, RunningRow
  <2>2. t.by = task[s].by /\ t.report = task[s].report /\ t.stage = task[s].stage /\ t.pc = "llm"
    BY <1>1 DEF Task
  <2> HIDE DEF t
  <2>3. QED
    BY <1>2, <2>1, <2>2 DEF Early
<1>14. CASE RollbackClaim(s)
  <2>1. task' = [task EXCEPT ![s] = Idle] /\ task[s].pc # "idle" /\ poll' = poll /\ queue' = queue
    BY <1>14 DEF RollbackClaim
  <2>2. QED
    BY <1>1, <2>1 DEF Fixing, Idle
<1>15. CASE RunBackground(s) \/ ReopenForAnalysis(s)
  <2>1. LocalStage(task[s].report).by = "user"
    BY DEF LocalStage, NewTask, Idle
  <2>2. CASE task' = [task EXCEPT ![s] = LocalStage(task[s].report)]
    BY <1>3, <1>15, <2>1, <2>2 DEF RunBackground, ReopenForAnalysis
  <2>3. CASE task' = [task EXCEPT ![s] = [task[s] EXCEPT !.pc = "claim"]] /\ RunBackground(s)
    BY <1>1, <1>2, <2>3 DEF RunBackground, Task, Early
  <2>4. CASE Continue(s, "reopen") /\ RunBackground(s)
    BY <1>5, <2>4 DEF RunBackground, Early
  <2>5. QED
    BY <1>15, <2>2, <2>3, <2>4 DEF RunBackground, ReopenForAnalysis
<1>16. QED
  BY <1>4, <1>7, <1>8, <1>9, <1>10, <1>11, <1>12, <1>13, <1>14, <1>15 DEF StageStep

\* A coroutine that moves on starts no second job.
LEMMA MovesKeepJobs ==
    ASSUME TypeInv, JobInv, NEW s \in Slots, MovesOn(s)
    PROVE  JobInv' /\ \A r \in Reports : MayPay(r)' => MayPay(r)
<1>1. \A t \in Slots : Fixing(t)' => Fixing(t) /\ task'[t].report = task[t].report
                                     /\ (task'[t].pc \in Early => task[t].pc \in Early)
  BY DEF MovesOn, OnlySlot, Fixing
<1>2. WorkerSlots' \subseteq WorkerSlots
  BY DEF WorkerSlots, MovesOn, OnlySlot
<1>3. JobInv'
  BY <1>1, <1>2 DEF JobInv, Queued, MovesOn
<1>4. \A r \in Reports : MayPay(r)' => MayPay(r)
  BY <1>1 DEF MayPay, Queued, MovesOn, Early
<1>5. QED
  BY <1>3, <1>4

\* Coroutine s moves and no row changes.
LEMMA RecordKept ==
    ASSUME TypeInv, RecordInv, NEW s \in Slots, OnlySlot(s), analyses' = analyses, PlaceOk(s)'
    PROVE  RecordInv' /\ \A x \in Reports : RowsGrow(x)
<1>1. ASSUME NEW t \in Slots, t # s PROVE PlaceOk(t)'
  <2>1. task'[t] = task[t] /\ PlaceOk(t)
    BY <1>1 DEF OnlySlot, RecordInv
  <2>2. QED
    BY <2>1 DEF PlaceOk, Answering, IsLatest, LocIds, RowsOf
<1>2. \A x \in Reports : RowsGrow(x)
  BY RowsSame DEF RecordInv
<1>3. QED
  BY <1>1, <1>2 DEF RecordInv, RowsGrow

\* Coroutine s moves and changes rows of the report it holds; nobody else is at
\* work on them.
LEMMA RecordChanged ==
    ASSUME TypeInv, ClaimInv, RecordInv, NEW s \in Slots, InStage(s), OnlySlot(s),
           NEW r \in Reports, r = task[s].report,
           \A x \in Reports : x # r => analyses'[x] = analyses[x],
           RowsDistinct(r)', PlaceOk(s)'
    PROVE  RecordInv' /\ \A x \in Reports : x # r => RowsGrow(x)
<1>1. ASSUME NEW t \in Slots, t # s PROVE PlaceOk(t)'
  <2>1. task'[t] = task[t] /\ PlaceOk(t)
    BY <1>1 DEF OnlySlot, RecordInv
  <2>2. CASE InStage(t)
    <3> DEFINE x == task[t].report
    <3>1. x \in Reports /\ x # r
      BY <1>1, <2>2, InStageFacts DEF ClaimInv, NoDoubleProcessing
    <3>2. analyses'[x] = analyses[x]
      BY <3>1
    <3>3. LocIds(x)' = LocIds(x)
      BY <2>1, <3>2 DEF LocIds, RowsOf
    <3>4. QED
      BY <2>1, <3>2, <3>3 DEF PlaceOk, Answering, IsLatest
  <2>3. CASE ~InStage(t)
    BY <2>1, <2>3 DEF PlaceOk, Answering, InStage, SyncPcs, AwaitPcs
  <2>4. QED
    BY <2>2, <2>3
<1>2. \A x \in Reports : x # r => RowsGrow(x)
  BY RowsSame DEF RecordInv
<1>3. QED
  BY <1>1, <1>2 DEF RecordInv, RowsGrow

\* The steps of a stage leave the record in order; of the rows the budget is
\* counted on they take away none, unless the count starts anew.
LEMMA StageRecords ==
    ASSUME TypeInv, ClaimInv, RecordInv, NEW s \in Slots, StageStep(s)
    PROVE  RecordInv' /\ \A x \in Reports : RowsGrow(x) \/ autoPaid'[x] = 0
<1> USE DEF rowVars
<1>1. /\ task \in [Slots -> Task] /\ task[s] \in Task /\ clock \in [Reports -> Nat]
      /\ analyses \in [Reports -> SUBSET Analysis] /\ autoPaid \in [Reports -> Nat]
  BY DEF TypeOK
<1>2. MovesOn(s) /\ OnlySlot(s) /\ PlaceOk(s)
  BY StageMoves DEF MovesOn, RecordInv
<1>3. ASSUME analyses' = analyses, PlaceOk(s)'
      PROVE  RecordInv' /\ \A x \in Reports : RowsGrow(x) \/ autoPaid'[x] = 0
  BY <1>2, <1>3, RecordKept
<1>4. ASSUME task'[s].pc \in {"idle", "start", "claim", "reopen", "settle", "rollback"}
      PROVE  PlaceOk(s)'
  BY <1>4 DEF PlaceOk, Answering
<1>5. CASE ClaimValidation(s)
  <2>1. PICK o : task' = [task EXCEPT ![s].pc = "settle", ![s].dup = o,
                     ![s].next = IF o = NoReport THEN "triaged" ELSE "duplicate"]
    BY <1>5 DEF ClaimValidation
  <2>2. QED
    BY <1>1, <1>3, <1>4, <1>5, <2>1 DEF ClaimValidation, Task
<1>6. CASE ValidationFails(s) \/ FilesUnreadable(s)
  BY <1>1, <1>3, <1>4, <1>6 DEF ValidationFails, FilesUnreadable, Continue, Task
<1>7. CASE LocalizationAborts(s) \/ CreateProposal(s)
  BY <1>1, <1>3, <1>4, <1>7 DEF LocalizationAborts, CreateProposal, SettleWith, Task
<1>8. CASE ClaimTriage(s)
  <2>1. task'[s].pc = "row" /\ task'[s].stage = "triage" /\ analyses' = analyses
    BY <1>1, <1>8 DEF ClaimTriage, Continue, Task
  <2>2. PlaceOk(s)'
    BY <2>1 DEF PlaceOk, Answering
  <2>3. QED
    BY <1>3, <2>1, <2>2
<1>9. CASE ClaimLocalization(s) \/ ReadHead(s) \/ RecordHead(s)
  <2>1. /\ task'[s].pc \in {"settle", "sha", "fresh", "map"} /\ task'[s].stage = "localize"
        /\ analyses' = analyses
    BY <1>1, <1>2, <1>9 DEF ClaimLocalization, ReadHead, RecordHead, Continue, SettleWith,
                            PlaceOk, Task
  <2>2. PlaceOk(s)'
    BY <2>1 DEF PlaceOk, Answering
  <2>3. QED
    BY <1>3, <2>1, <2>2
<1>10. CASE ClaimFix(s)
  <2>1. analyses' = analyses /\ task[s].report \in Reports /\ task[s].stage = "fix"
    BY <1>10 DEF ClaimFix, TasksHaveReports
  <2>2. CASE SettleWith(s, "fix_proposed") \/ Continue(s, "rollback")
    BY <1>1, <1>3, <1>4, <2>1, <2>2 DEF SettleWith, Continue, Task
  <2>3. CASE /\ Fresh(task[s].report)
             /\ task' = [task EXCEPT ![s].pc = "files",
                                     ![s].row = LatestLocalization(task[s].report).id]
    <3>1. PICK r \in Reports : r = task[s].report
      BY <2>1
    <3>2. PICK id : id = LatestLocalization(r).id
      OBVIOUS
    <3>3. IsLatest(r, id)
      BY <2>3, <3>1, <3>2, LatestIsNewest DEF Fresh
    <3>4. IsLatest(r, id)'
      BY <2>1, <3>3 DEF IsLatest, LocIds, RowsOf
    <3>5. /\ task'[s].pc = "files" /\ task'[s].row = id /\ task'[s].stage = "fix"
          /\ task'[s].report = r
      BY <1>1, <2>1, <2>3, <3>1, <3>2 DEF Task
    <3>6. PlaceOk(s)'
      BY <3>4, <3>5 DEF PlaceOk, Answering, IsLatest, LocIds, RowsOf
    <3>7. QED
      BY <1>3, <2>1, <3>6
  <2>4. QED
    BY <1>10, <2>2, <2>3 DEF ClaimFix
<1>11. CASE ClaimLost(s) \/ Settle(s) \/ RollbackClaim(s)
  <2>1. AfterStage(s).pc \in {"idle", "claim"} /\ Idle.pc = "idle"
    BY DEF AfterStage, NewTask, Idle
  <2>2. QED
    BY <1>1, <1>3, <1>4, <1>11, <2>1 DEF ClaimLost, Settle, RollbackClaim
<1>12. CASE RunBackground(s) \/ ReopenForAnalysis(s)
  <2>1. LocalStage(task[s].report).pc = "claim"
    BY DEF LocalStage, NewTask, Idle
  <2>2. task'[s].pc \in {"claim", "reopen"}
    BY <1>1, <1>12, <2>1 DEF RunBackground, ReopenForAnalysis, Continue, Task
  <2>3. QED
    BY <1>3, <1>4, <1>12, <2>2 DEF RunBackground, ReopenForAnalysis
<1>13. CASE CallFixModel(s)
  <2>1. /\ task'[s].pc = "paid" /\ task'[s].stage = "fix" /\ analyses' = analyses
        /\ task'[s].report = task[s].report /\ task'[s].row = task[s].row
        /\ IsLatest(task[s].report, task[s].row)
    BY <1>1, <1>2, <1>13 DEF CallFixModel, Continue, PlaceOk, Answering, Task
  <2>2. PlaceOk(s)'
    BY <2>1 DEF PlaceOk, Answering, IsLatest, LocIds, RowsOf
  <2>3. QED
    BY <1>3, <2>1, <2>2
<1>14. CASE TriageRow(s) \/ LocalizationRow(s)
  <2>1. InStage(s) /\ task[s].report \in Reports
    BY <1>14 DEF TriageRow, LocalizationRow, InStage, SyncPcs, AwaitPcs, TasksHaveReports
  <2>2. PICK r \in Reports : r = task[s].report
    BY <2>1
  <2>3. PICK phase \in {"triage", "localization"} :
            /\ RunningRow(s, phase)
            /\ phase = IF task[s].stage = "triage" THEN "triage" ELSE "localization"
            /\ task[s].stage \in {"triage", "localize"}
    BY <1>2, <1>14 DEF TriageRow, LocalizationRow, PlaceOk
  <2> DEFINE new == Row(clock[r] + 1, phase, "running", FALSE)
  <2>4. /\ new \in Analysis /\ new.id = clock[r] + 1 /\ new.status = "running"
        /\ new.phase = phase
    BY <1>1, <2>2 DEF Row, Analysis, Phases
  <2>5. analyses' = [analyses EXCEPT ![r] = analyses[r] \cup {new}]
    BY <2>2, <2>3 DEF RunningRow
  <2>6. /\ task'[s].pc = "llm" /\ task'[s].row = clock[r] + 1
        /\ task'[s].stage = task[s].stage /\ task'[s].report = r
    BY <1>1, <2>2, <2>3 DEF RunningRow, Task
  <2> HIDE DEF new
  <2>7. analyses'[r] = analyses[r] \cup {new}
        /\ \A x \in Reports : x # r => analyses'[x] = analyses[x]
    BY <1>1, <2>5
  <2>8. RowsGrow(r)
    BY <2>4, <2>7, RowAdded DEF RecordInv
  <2>9. \A a \in analyses'[r] : a.id = clock[r] + 1 => a = new
    <3>1. clock[r] \in Nat /\ \A a \in analyses[r] : a.id \in Nat /\ a.id <= clock[r]
      BY <1>1 DEF StampsIssued, Analysis
    <3>2. QED
      BY <2>7, <3>1
  <2>10. PlaceOk(s)'
    BY <2>3, <2>4, <2>6, <2>9 DEF PlaceOk, Answering
  <2>11. QED
    BY <1>2, <2>1, <2>2, <2>7, <2>8, <2>10, RecordChanged DEF RowsGrow
<1>15. ASSUME NEW st \in {"completed", "failed"}, task[s].pc = "llm", RowEnds(s, st),
              task'[s].pc = "settle",
              task[s].stage = "localize" /\ st = "completed" =>
                  autoPaid' = [autoPaid EXCEPT ![task[s].report] = 0]
       PROVE  RecordInv' /\ \A x \in Reports : RowsGrow(x) \/ autoPaid'[x] = 0
  <2>1. InStage(s) /\ task[s].report \in Reports
    BY <1>15 DEF InStage, SyncPcs, AwaitPcs, TasksHaveReports
  <2>2. PICK r \in Reports : r = task[s].report
    BY <2>1
  <2>3. /\ RowsDistinct(r)'
        /\ \A x \in Reports : x # r => analyses'[x] = analyses[x]
        /\ st = "failed" \/ task[s].stage = "triage" => RowsGrow(r)
    BY <1>2, <1>15, <2>2, RowEnded DEF RecordInv
  <2>4. RecordInv' /\ \A x \in Reports : x # r => RowsGrow(x)
    BY <1>2, <1>4, <1>15, <2>1, <2>2, <2>3, RecordChanged
  <2>5. RowsGrow(r) \/ autoPaid'[r] = 0
    BY <1>1, <1>2, <1>15, <2>2, <2>3 DEF PlaceOk
  <2>6. QED
    BY <2>4, <2>5
<1>16. CASE StageFails(s) \/ \E st \in {"triaged", "clarification_needed"} : StageSucceeds(s, st)
  BY <1>1, <1>15, <1>16 DEF StageFails, StageSucceeds, SettleWith, Task
<1>17. CASE FixAnswered(s) \/ \E perm \in BOOLEAN : FixFails(s, perm)
  <2>1. InStage(s) /\ task[s].report \in Reports /\ task[s].pc = "paid"
    BY <1>17 DEF FixAnswered, FixFails, InStage, SyncPcs, AwaitPcs, TasksHaveReports
  <2>2. PICK r \in Reports : r = task[s].report
    BY <2>1
  <2>3. PICK st \in {"completed", "failed"}, perm \in BOOLEAN : FixRow(s, st, perm)
    BY <1>17 DEF FixAnswered, FixFails
  <2> DEFINE new == Row(clock[r] + 1, "fix", st, perm)
  <2>4. new \in Analysis /\ new.id = clock[r] + 1 /\ new.phase = "fix"
    BY <1>1, <2>2 DEF Row, Analysis, Phases
  <2>5. analyses' = [analyses EXCEPT ![r] = analyses[r] \cup {new}]
    BY <2>2, <2>3 DEF FixRow
  <2> HIDE DEF new
  <2>6. analyses'[r] = analyses[r] \cup {new}
        /\ \A x \in Reports : x # r => analyses'[x] = analyses[x]
    BY <1>1, <2>5
  <2>7. RowsGrow(r)
    BY <2>4, <2>6, RowAdded DEF RecordInv
  <2>8. /\ task'[s].pc \in {"propose", "rollback"} /\ task'[s].report = r
        /\ task'[s].row = task[s].row /\ task'[s].stage = task[s].stage
    <3>1. PICK pc \in {"propose", "rollback"} : Continue(s, pc)
      BY <1>17 DEF FixAnswered, FixFails
    <3>2. QED
      BY <1>1, <2>2, <3>1, ContinueMoves
  <2>9. task[s].stage = "fix" /\ IsLatest(r, task[s].row)
    BY <1>2, <2>1, <2>2 DEF PlaceOk, Answering
  <2>10. PlaceOk(s)'
    BY <2>7, <2>8, <2>9 DEF PlaceOk, Answering, IsLatest, RowsGrow
  <2>11. QED
    BY <1>2, <2>1, <2>2, <2>6, <2>7, <2>10, RecordChanged DEF RowsGrow
<1>18. QED
  BY <1>5, <1>6, <1>7, <1>8, <1>9, <1>10, <1>11, <1>12, <1>13, <1>14, <1>16, <1>17 DEF StageStep

\* The same count after a step.
LEMMA CountedAfter ==
    ASSUME TypeInv', NEW r \in Reports
    PROVE  IsFiniteSet(FixIds(r)') /\ Cardinality(FixIds(r)') \in Nat
<1>1. /\ analyses'[r] \subseteq Analysis /\ clock'[r] \in Nat
      /\ \A a \in analyses'[r] : a.id \in Nat /\ a.id <= clock'[r]
  BY DEF TypeOK, StampsIssued, Analysis
<1>2. FixIds(r)' \in SUBSET Nat /\ \A i \in FixIds(r)' : i <= clock'[r]
  BY <1>1 DEF FixIds, FailedAfter, RowsOf
<1>3. QED
  BY <1>1, <1>2, FS_BoundedSetOfNaturals, FS_CardinalityType

\* An account stays settled while rows and proposals are only added, no call is
\* paid for and the one that is out is still out.
LEMMA AccountKept ==
    ASSUME TypeInv, TypeInv', NEW r \in Reports, Accounted(r), RowsGrow(r),
           proposals[r] \subseteq proposals'[r], autoPaid'[r] = autoPaid[r],
           CallOut(r) => CallOut(r)'
    PROVE  Accounted(r)'
<1>1. FixIds(r) \subseteq FixIds(r)' /\ (GivenUp(r) => GivenUp(r)')
  BY DEF RowsGrow
<1>2. IsFiniteSet(FixIds(r)') /\ Cardinality(FixIds(r)') \in Nat /\ Cardinality(FixIds(r)) \in Nat
  BY CountedByStamp, CountedAfter
<1>3. Cardinality(FixIds(r)) <= Cardinality(FixIds(r)')
  BY <1>1, <1>2, FS_Subset
<1>4. Answered(r) => Answered(r)'
  BY DEF Answered, IsLatest, RowsGrow
<1>5. autoPaid[r] \in Nat
  BY DEF TypeOK
<1>6. QED
  BY <1>1, <1>2, <1>3, <1>4, <1>5 DEF Accounted

\* A new localization, or a person's retry, starts the count anew.
LEMMA AccountCleared ==
    ASSUME TypeInv', NEW r \in Reports, autoPaid'[r] = 0
    PROVE  PayOk(r)'
<1>1. Cardinality(FixIds(r)') \in Nat
  BY CountedAfter
<1>2. Cap \in Nat /\ 0 < Cap
  BY SettingsAssumption DEF Cap
<1>3. QED
  BY <1>1, <1>2 DEF PayOk, Accounted, Cap

\* A failed answer is one more row in the account.
LEMMA AccountFails ==
    ASSUME TypeInv, TypeInv', RecordInv, NEW s \in Slots, NEW perm \in BOOLEAN, FixFails(s, perm),
           NEW r \in Reports, r = task[s].report, Accounted(r)
    PROVE  Accounted(r)'
<1>1. analyses \in [Reports -> SUBSET Analysis] /\ clock[r] \in Nat /\ autoPaid[r] \in Nat
  BY DEF TypeOK
<1> DEFINE new == Row(clock[r] + 1, "fix", "failed", perm)
<1>2. /\ new \in Analysis /\ new.id = clock[r] + 1 /\ new.phase = "fix"
      /\ new.status = "failed" /\ new.permanent = perm
  BY <1>1 DEF Row, Analysis, Phases
<1>3. analyses' = [analyses EXCEPT ![r] = analyses[r] \cup {new}]
  BY DEF FixFails, FixRow
<1> HIDE DEF new
<1>4. analyses'[r] = analyses[r] \cup {new}
  BY <1>1, <1>3
<1>5. RowsGrow(r) /\ clock[r] + 1 \in FixIds(r)' /\ clock[r] + 1 \notin FixIds(r)
  BY <1>2, <1>4, RowAdded DEF RecordInv
<1>6. /\ IsFiniteSet(FixIds(r)) /\ Cardinality(FixIds(r)) \in Nat
      /\ IsFiniteSet(FixIds(r)') /\ Cardinality(FixIds(r)') \in Nat
  BY CountedByStamp, CountedAfter
<1>7. Cardinality(FixIds(r)) + 1 <= Cardinality(FixIds(r)')
  <2> DEFINE more == FixIds(r) \cup {clock[r] + 1}
  <2>1. Cardinality(more) = Cardinality(FixIds(r)) + 1
    BY <1>5, <1>6, FS_AddElement
  <2>2. more \in SUBSET (FixIds(r)')
    BY <1>5 DEF RowsGrow
  <2> HIDE DEF more
  <2>3. Cardinality(more) <= Cardinality(FixIds(r)')
    BY <1>6, <2>2, FS_Subset
  <2>4. QED
    BY <2>1, <2>3
<1>8. autoPaid' = autoPaid /\ proposals' = proposals
  BY DEF FixFails
<1>9. Answered(r) => Answered(r)'
  BY <1>5, <1>8 DEF Answered, IsLatest, RowsGrow
<1>10. QED
  BY <1>1, <1>5, <1>6, <1>7, <1>8, <1>9 DEF Accounted, RowsGrow

\* Who moves on without having a call out takes none away.
LEMMA CallStaysOut ==
    ASSUME NEW s \in Slots, OnlySlot(s), NEW x \in Reports, CallOut(x),
           ~(Fixing(s) /\ task[s].pc \in {"paid", "propose"} /\ task[s].report = x)
    PROVE  CallOut(x)'
  BY DEF CallOut, OnlySlot, Fixing

\* The worker's call: it was to be allowed, and it was the only job.
LEMMA CallPays ==
    ASSUME TypeInv, TypeInv', RecordInv, JobInv, PayInv, NEW s \in Slots, CallFixModel(s)
    PROVE  PayInv'
<1>1. /\ task \in [Slots -> Task] /\ task[s] \in Task /\ autoPaid \in [Reports -> Nat]
      /\ analyses' = analyses /\ proposals' = proposals
  BY DEF TypeOK, CallFixModel, rowVars
<1>2. MovesOn(s) /\ OnlySlot(s) /\ task[s].pc = "files"
  BY StageMoves DEF StageStep, MovesOn, CallFixModel
<1>3. \A x \in Reports : (MayPay(x)' => MayPay(x)) /\ RowsGrow(x)
  BY <1>1, <1>2, MovesKeepJobs, RowsSame DEF RecordInv
<1>4. ASSUME NEW x \in Reports, autoPaid'[x] = autoPaid[x] PROVE PayOk(x)'
  <2>1. CallOut(x) => CallOut(x)'
    BY <1>2, CallStaysOut
  <2>2. Accounted(x)'
    BY <1>1, <1>3, <1>4, <2>1, AccountKept DEF PayInv, PayOk
  <2>3. QED
    BY <1>3, <1>4, <2>2 DEF PayInv, PayOk, Cap
<1>5. CASE task[s].by # "worker"
  BY <1>4, <1>5 DEF CallFixModel, PayInv
<1>6. CASE task[s].by = "worker"
  <2>1. PICK r \in Reports : r = task[s].report
    BY <1>2 DEF TasksHaveReports
  <2>2. autoPaid'[r] = autoPaid[r] + 1 /\ \A x \in Reports : x # r => autoPaid'[x] = autoPaid[x]
    BY <1>1, <1>6, <2>1 DEF CallFixModel
  <2>3. Fixing(s)
    BY <1>2, <1>6 DEF Fixing, RecordInv, PlaceOk, Answering
  <2>4. /\ task'[s].pc = "paid" /\ task'[s].by = "worker" /\ task'[s].report = r
        /\ task'[s].stage = task[s].stage /\ queue' = queue
    BY <1>1, <1>6, <2>1 DEF CallFixModel, Continue, Task, loopVars
  <2>5. MayPay(r) /\ CallOut(r)'
    BY <1>2, <2>1, <2>3, <2>4 DEF MayPay, CallOut, Fixing
  <2>6. ~MayPay(r)' /\ ~CallOut(r)
    BY <1>2, <2>1, <2>3, <2>4 DEF MayPay, CallOut, JobInv, Queued, OnlySlot, Fixing
  <2>7. FixIds(r)' = FixIds(r) /\ (GivenUp(r) => GivenUp(r)') /\ (Answered(r) => Answered(r)')
    BY <1>1 DEF FixIds, GivenUp, Answered, IsLatest, LocIds, FailedAfter, RowsOf
  <2>8. Cardinality(FixIds(r)) \in Nat /\ autoPaid[r] \in Nat /\ Cap \in Nat
    BY <1>1, CountedByStamp, SettingsAssumption DEF Cap
  <2>9. Accounted(r)'
    BY <2>2, <2>5, <2>6, <2>7, <2>8 DEF PayInv, PayOk, Accounted
  <2>10. autoPaid'[r] <= Cap
    BY <2>2, <2>5, <2>8 DEF PayInv, PayOk
  <2>11. PayOk(r)'
    BY <2>6, <2>9, <2>10 DEF PayOk, Cap
  <2>12. QED
    BY <1>4, <2>2, <2>11 DEF PayInv
<1>7. QED
  BY <1>5, <1>6

\* The steps of a stage keep the budget.
LEMMA StagePays ==
    ASSUME TypeInv, TypeInv', ClaimInv, RecordInv, JobInv, PayInv, NEW s \in Slots, StageStep(s)
    PROVE  PayInv'
<1>1. /\ task \in [Slots -> Task] /\ task[s] \in Task /\ autoPaid \in [Reports -> Nat]
      /\ proposals \in [Reports -> SUBSET Proposal]
  BY DEF TypeOK
<1>2. MovesOn(s) /\ OnlySlot(s)
  BY StageMoves DEF MovesOn
<1>3. \A x \in Reports : /\ MayPay(x)' => MayPay(x)
                         /\ RowsGrow(x) \/ autoPaid'[x] = 0
  BY <1>2, MovesKeepJobs, StageRecords
<1>4. ASSUME NEW x \in Reports, autoPaid'[x] = autoPaid[x], Accounted(x)' PROVE PayOk(x)'
  BY <1>3, <1>4 DEF PayInv, PayOk, Cap
<1>5. ASSUME NEW x \in Reports, autoPaid'[x] = autoPaid[x], RowsGrow(x),
             proposals[x] \subseteq proposals'[x], CallOut(x) => CallOut(x)'
      PROVE  PayOk(x)'
  BY <1>4, <1>5, AccountKept DEF PayInv, PayOk
<1>6. CASE task[s].pc \notin {"paid", "propose"} /\ ~CallFixModel(s)
  <2>1. proposals' = proposals
    BY <1>6 DEF StageStep, rowVars, ClaimValidation, ValidationFails, ClaimTriage,
                ClaimLocalization, ClaimFix, ClaimLost, TriageRow, ReadHead, RecordHead,
                LocalizationRow, LocalizationAborts, StageSucceeds, StageFails, Settle,
                RollbackClaim, FilesUnreadable, FixAnswered, CreateProposal, FixFails,
                RunBackground, ReopenForAnalysis
  <2>2. \A x \in Reports : autoPaid'[x] = autoPaid[x] \/ autoPaid'[x] = 0
    BY <1>1, <1>6 DEF StageStep, ClaimValidation, ValidationFails, ClaimTriage,
                ClaimLocalization, ClaimFix, ClaimLost, TriageRow, ReadHead, RecordHead,
                LocalizationRow, LocalizationAborts, StageSucceeds, StageFails, Settle,
                RollbackClaim, FilesUnreadable, FixAnswered, CreateProposal, FixFails,
                RunBackground, ReopenForAnalysis
  <2>3. \A x \in Reports : CallOut(x) => CallOut(x)'
    BY <1>2, <1>6, CallStaysOut
  <2>4. QED
    BY <1>3, <1>5, <2>1, <2>2, <2>3, AccountCleared DEF PayInv
<1>7. CASE CallFixModel(s)
  BY <1>7, CallPays
<1>8. CASE FixAnswered(s)
  <2>1. /\ autoPaid' = autoPaid /\ proposals' = proposals
        /\ task'[s].pc = "propose" /\ task'[s].by = task[s].by
        /\ task'[s].stage = task[s].stage /\ task'[s].report = task[s].report
    BY <1>1, <1>8 DEF FixAnswered, Continue, Task
  <2>2. \A x \in Reports : CallOut(x) => CallOut(x)'
    BY <1>2, <2>1 DEF CallOut, Fixing, OnlySlot
  <2>3. QED
    BY <1>3, <1>5, <2>1, <2>2, AccountCleared DEF PayInv
<1>9. ASSUME NEW perm \in BOOLEAN, FixFails(s, perm) PROVE PayInv'
  <2>1. autoPaid' = autoPaid /\ proposals' = proposals /\ task[s].pc = "paid"
    BY <1>9 DEF FixFails
  <2>2. ASSUME NEW x \in Reports PROVE PayOk(x)'
    <3>1. CASE x = task[s].report
      BY <1>4, <1>9, <2>1, <3>1, AccountFails DEF PayInv, PayOk
    <3>2. CASE x # task[s].report
      <4>1. CallOut(x) => CallOut(x)'
        BY <1>2, <3>2, CallStaysOut
      <4>2. QED
        BY <1>3, <1>5, <2>1, <4>1, AccountCleared
    <3>3. QED
      BY <3>1, <3>2
  <2>3. QED
    BY <2>2 DEF PayInv
<1>10. CASE CreateProposal(s)
  <2>1. autoPaid' = autoPaid /\ analyses' = analyses /\ task[s].pc = "propose"
    BY <1>10 DEF CreateProposal
  <2>2. PICK r \in Reports : r = task[s].report
    BY <2>1 DEF TasksHaveReports
  <2>3. PICK new : new = [id |-> clock[r] + 1, analysis |-> task[s].row]
    OBVIOUS
  <2>4. proposals'[r] = proposals[r] \cup {new}
        /\ \A x \in Reports : x # r => proposals'[x] = proposals[x]
    BY <1>1, <1>10, <2>2, <2>3 DEF CreateProposal
  <2>5. IsLatest(r, task[s].row)
    BY <2>1, <2>2 DEF RecordInv, PlaceOk, Answering
  <2>6. Answered(r)'
    <3>1. IsLatest(r, new.analysis)'
      BY <2>1, <2>5, <2>3 DEF IsLatest, LocIds, RowsOf
    <3>2. QED
      BY <2>4, <3>1 DEF Answered
  <2>7. PayOk(r)'
    BY <1>4, <2>1, <2>6 DEF Accounted
  <2>8. ASSUME NEW x \in Reports, x # r PROVE PayOk(x)'
    <3>1. CallOut(x) => CallOut(x)'
      BY <1>2, <2>2, <2>8, CallStaysOut
    <3>2. QED
      BY <1>3, <1>5, <2>1, <2>4, <2>8, <3>1, AccountCleared
  <2>9. QED
    BY <2>7, <2>8 DEF PayInv
<1>11. QED
  <2>1. CASE task[s].pc = "paid"
    BY <1>8, <1>9, <2>1 DEF StageStep, ClaimValidation, ValidationFails, ClaimTriage,
                ClaimLocalization, ClaimFix, ClaimLost, TriageRow, ReadHead, RecordHead,
                LocalizationRow, LocalizationAborts, StageSucceeds, StageFails, Settle,
                RollbackClaim, FilesUnreadable, CallFixModel, CreateProposal,
                RunBackground, ReopenForAnalysis
  <2>2. CASE task[s].pc = "propose"
    BY <1>10, <2>2 DEF StageStep, ClaimValidation, ValidationFails, ClaimTriage,
                ClaimLocalization, ClaimFix, ClaimLost, TriageRow, ReadHead, RecordHead,
                LocalizationRow, LocalizationAborts, StageSucceeds, StageFails, Settle,
                RollbackClaim, FilesUnreadable, CallFixModel, FixAnswered, FixFails,
                RunBackground, ReopenForAnalysis
  <2>3. QED
    BY <1>6, <1>7, <2>1, <2>2

\* Where no row, proposal, count or coroutine changes, neither does a budget,
\* as long as no job is sampled.
LEMMA PayStays ==
    ASSUME TypeInv, PayInv, UNCHANGED <<analyses, proposals, autoPaid, task>>,
           \A r \in Reports : Queued(r)' => Queued(r) \/ autoPaid[r] < Cap
    PROVE  PayInv'
<1>1. ASSUME NEW r \in Reports PROVE PayOk(r)'
  <2>1. /\ FixIds(r)' = FixIds(r) /\ (GivenUp(r)' <=> GivenUp(r))
        /\ (Answered(r)' <=> Answered(r))
    BY DEF FixIds, GivenUp, Answered, IsLatest, LocIds, FailedAfter, RowsOf
  <2>2. CallOut(r)' <=> CallOut(r)
    BY DEF CallOut, Fixing
  <2>3. MayPay(r)' => MayPay(r) \/ autoPaid[r] < Cap
    BY DEF MayPay, Fixing
  <2>4. QED
    BY <2>1, <2>2, <2>3 DEF PayInv, PayOk, Accounted, Cap
<1>2. QED
  BY <1>1 DEF PayInv

LEMMA RecordStays ==
    ASSUME RecordInv, UNCHANGED <<analyses, task>>
    PROVE  RecordInv'
  BY DEF RecordInv, RowsDistinct, PlaceOk, Answering, IsLatest, LocIds, RowsOf

\* A poll cycle samples its jobs when those of the last one are done.
LEMMA PollPays ==
    ASSUME TypeInv, RecordInv, JobInv, PayInv, Poll
    PROVE  RecordInv' /\ JobInv' /\ PayInv'
<1>1. UNCHANGED <<analyses, proposals, autoPaid, task>> /\ WorkerSlots' = WorkerSlots
  BY DEF Poll, PollSubmitted, PollTriage, PollLocalization, PollFix, CycleEnds, rowVars,
         WorkerSlots
<1>2. RecordInv'
  BY <1>1, RecordStays
<1>3. \A s \in Slots : Fixing(s) => s \in WorkerSlots
  BY DEF Fixing, WorkerSlots
<1>4. CASE PollFix
  <2>1. WorkerSlots = {} /\ (\A r \in Reports : ~Queued(r)) /\ poll' = "gather"
    BY <1>4 DEF PollFix, JobInv
  <2>2. \A r \in Reports : Queued(r)' => FixEligible(r)
    BY <1>4, <2>1 DEF PollFix, Queued, Sampled
  <2>3. ASSUME NEW r \in Reports, FixEligible(r) PROVE autoPaid[r] < Cap
    <3>1. ~Answered(r) /\ ~GivenUp(r) /\ Cardinality(FixIds(r)) < Cap
      BY <2>3, GateReadsRows DEF RecordInv
    <3>2. ~CallOut(r)
      BY <1>3, <2>1 DEF CallOut
    <3>3. autoPaid[r] <= Cardinality(FixIds(r))
      BY <3>1, <3>2 DEF PayInv, PayOk, Accounted
    <3>4. /\ autoPaid[r] \in Nat /\ Cardinality(FixIds(r)) \in Nat /\ Cap \in Nat
      BY CountedByStamp, SettingsAssumption DEF Cap, TypeOK
    <3>5. QED
      BY <3>1, <3>3, <3>4
  <2>4. PayInv'
    BY <1>1, <2>2, <2>3, PayStays
  <2>5. JobInv'
    BY <1>1, <1>3, <2>1 DEF JobInv, Fixing
  <2>6. QED
    BY <1>2, <2>4, <2>5
<1>5. CASE CycleEnds
  <2>1. (\A r \in Reports : ~Queued(r)') /\ WorkerSlots = {}
    BY <1>5 DEF CycleEnds, Queued
  <2>2. PayInv'
    BY <1>1, <2>1, PayStays
  <2>3. JobInv'
    BY <1>1, <1>3, <2>1 DEF JobInv, Fixing
  <2>4. QED
    BY <1>2, <2>2, <2>3
<1>6. CASE PollSubmitted \/ PollTriage \/ PollLocalization
  <2>1. (\A r \in Reports : ~Queued(r)') /\ WorkerSlots = {}
    BY <1>6 DEF PollSubmitted, PollTriage, PollLocalization, JobInv, Queued, Sampled
  <2>2. PayInv'
    BY <1>1, <2>1, PayStays
  <2>3. JobInv'
    BY <1>1, <1>3, <2>1 DEF JobInv, Fixing
  <2>4. QED
    BY <1>2, <2>2, <2>3
<1>7. QED
  BY <1>4, <1>5, <1>6 DEF Poll

\* A free slot gets a new coroutine: a sampled job, or a person's run.
LEMMA NewTaskPays ==
    ASSUME TypeInv, RecordInv, JobInv, PayInv, NEW s \in Slots, NEW r \in Reports,
           StartJob(s, "validate", r) \/ StartJob(s, "triage", r) \/ StartJob(s, "localize", r)
           \/ StartJob(s, "fix", r) \/ AnalyzeLocal(s, r) \/ AnalyzeCloud(s, r)
    PROVE  RecordInv' /\ JobInv' /\ PayInv'
<1>1. /\ task \in [Slots -> Task] /\ autoPaid \in [Reports -> Nat]
  BY DEF TypeOK
<1>2. /\ analyses' = analyses /\ proposals' = proposals /\ autoPaid' = autoPaid
      /\ poll' = poll /\ queue' \subseteq queue /\ task[s].pc = "idle"
  BY DEF StartJob, AnalyzeLocal, AnalyzeCloud, rowVars, loopVars
<1>3. PICK by \in {"worker", "user"}, stage \in Stages, pc \in {"start", "claim"} :
          /\ task' = [task EXCEPT ![s] = NewTask(r, by, stage, pc)]
          /\ by = "worker" => /\ poll = "gather" /\ <<stage, r>> \in queue
                              /\ queue' = queue \ {<<stage, r>>}
  BY DEF AnalyzeLocal, AnalyzeCloud, StartJob, Stages
<1>4. /\ NewTask(r, by, stage, pc).pc = pc /\ NewTask(r, by, stage, pc).by = by
      /\ NewTask(r, by, stage, pc).stage = stage /\ NewTask(r, by, stage, pc).report = r
  BY DEF NewTask, Idle
<1>5. /\ OnlySlot(s) /\ task'[s].pc = pc /\ task'[s].by = by /\ task'[s].stage = stage
      /\ task'[s].report = r
  BY <1>1, <1>3, <1>4 DEF OnlySlot
<1>6. PlaceOk(s)'
  BY <1>5 DEF PlaceOk, Answering
<1>7. RecordInv' /\ \A x \in Reports : RowsGrow(x)
  BY <1>2, <1>5, <1>6, RecordKept
<1>8. ~Fixing(s) /\ (Fixing(s)' => by = "worker" /\ stage = "fix")
  BY <1>2, <1>5 DEF Fixing
<1>9. \A t \in Slots : t # s => task'[t] = task[t] /\ (Fixing(t)' <=> Fixing(t))
  BY <1>5 DEF OnlySlot, Fixing
<1>10. JobInv'
  <2>1. poll' # "gather" => WorkerSlots' = {} /\ \A x \in Reports : ~Queued(x)'
    BY <1>2, <1>3, <1>5 DEF JobInv, WorkerSlots, OnlySlot, Queued
  <2>2. ASSUME NEW t \in Slots, Fixing(t)'
        PROVE  /\ ~Queued(task[t].report)'
               /\ \A u \in Slots : Fixing(u)' /\ task'[u].report = task'[t].report => u = t
    <3>1. CASE t = s
      <4>1. Queued(r) /\ task'[t].report = r /\ <<"fix", r>> \notin queue'
        BY <1>3, <1>5, <1>8, <2>2, <3>1 DEF Queued
      <4>2. \A u \in Slots : u # s /\ Fixing(u) => task[u].report # r
        BY <4>1 DEF JobInv
      <4>3. QED
        BY <1>9, <3>1, <4>1, <4>2 DEF Queued
    <3>2. CASE t # s
      <4>1. Fixing(t) /\ task'[t] = task[t] /\ ~Queued(task[t].report)
        BY <1>9, <2>2, <3>2 DEF JobInv
      <4>2. Fixing(s)' => task[t].report # r
        BY <1>3, <1>8, <4>1 DEF Queued
      <4>3. QED
        BY <1>2, <1>5, <1>9, <3>2, <4>1, <4>2 DEF JobInv, Queued
    <3>3. QED
      BY <3>1, <3>2
  <2>3. QED
    BY <2>1, <2>2 DEF JobInv
<1>11. ASSUME NEW x \in Reports PROVE PayOk(x)'
  <2>1. MayPay(x)' => MayPay(x)
    BY <1>2, <1>3, <1>5, <1>8, <1>9 DEF MayPay, Queued
  <2>2. CallOut(x) <=> CallOut(x)'
    BY <1>5, <1>8, <1>9 DEF CallOut
  <2>3. /\ FixIds(x)' = FixIds(x) /\ (GivenUp(x)' <=> GivenUp(x))
        /\ (Answered(x)' <=> Answered(x))
    BY <1>2 DEF FixIds, GivenUp, Answered, IsLatest, LocIds, FailedAfter, RowsOf
  <2>4. QED
    BY <1>2, <2>1, <2>2, <2>3 DEF PayInv, PayOk, Accounted, Cap
<1>12. QED
  BY <1>7, <1>10, <1>11 DEF PayInv

\* Every coroutine stays, rows of report r change.
LEMMA RowsMove ==
    ASSUME TypeInv, RecordInv, JobInv, PayInv, NEW r \in Reports,
           UNCHANGED <<task, poll, queue>>, RowsDistinct(r)', LocIds(r)' = LocIds(r),
           \A x \in Reports : x # r => analyses'[x] = analyses[x],
           \A a \in analyses'[r] : \E b \in analyses[r] :
               a.id = b.id /\ a.status = b.status /\ a.phase = b.phase
    PROVE  RecordInv' /\ JobInv'
<1>1. \A x \in Reports : LocIds(x)' = LocIds(x) /\ RowsDistinct(x)'
  BY DEF LocIds, RowsOf, RowsDistinct, RecordInv
<1>2. ASSUME NEW t \in Slots PROVE PlaceOk(t)'
  <2>1. PlaceOk(t) /\ task'[t] = task[t]
    BY DEF RecordInv
  <2>2. task[t].pc # "idle" => task[t].report \in Reports
    BY DEF TasksHaveReports
  <2>3. Answering(t) => LocIds(task[t].report)' = LocIds(task[t].report)
    <3>1. ASSUME Answering(t) PROVE LocIds(task[t].report)' = LocIds(task[t].report)
      <4>1. PICK x \in Reports : x = task[t].report
        BY <2>2, <3>1 DEF Answering
      <4>2. QED
        BY <1>1, <2>1, <4>1 DEF LocIds, RowsOf
    <3>2. QED
      BY <3>1
  <2>4. Answering(t)' => IsLatest(task[t].report, task[t].row)'
    BY <2>1, <2>3 DEF PlaceOk, Answering, IsLatest
  <2>5. task[t].pc = "llm" => \A a \in analyses'[task[t].report] :
            \E b \in analyses[task[t].report] :
                a.id = b.id /\ a.status = b.status /\ a.phase = b.phase
    BY <2>2
  <2>6. QED
    BY <2>1, <2>4, <2>5 DEF PlaceOk, Answering
<1>3. JobInv'
  BY DEF JobInv, WorkerSlots, Fixing, Queued
<1>4. QED
  BY <1>1, <1>2, <1>3 DEF RecordInv

\* A retry deletes the failed rows, and the count starts anew.
LEMMA ResetPays ==
    ASSUME TypeInv, TypeInv', RecordInv, JobInv, PayInv, NEW r \in Reports, ResetStageRetries(r)
    PROVE  RecordInv' /\ JobInv' /\ PayInv'
<1>1. /\ analyses \in [Reports -> SUBSET Analysis] /\ autoPaid \in [Reports -> Nat]
      /\ UNCHANGED <<task, poll, queue, proposals>>
  BY DEF TypeOK, ResetStageRetries, loopVars
<1>2. /\ analyses'[r] = {a \in analyses[r] : a.status # "failed"} /\ autoPaid'[r] = 0
      /\ \A x \in Reports : x # r => analyses'[x] = analyses[x] /\ autoPaid'[x] = autoPaid[x]
  BY <1>1 DEF ResetStageRetries
<1>3. RowsDistinct(r)' /\ LocIds(r)' = LocIds(r)
  BY <1>2 DEF RowsDistinct, RecordInv, LocIds, RowsOf
<1>4. RecordInv' /\ JobInv'
  BY <1>1, <1>2, <1>3, RowsMove
<1>5. ASSUME NEW x \in Reports, x # r PROVE PayOk(x)'
  <2>1. /\ FixIds(x)' = FixIds(x) /\ (GivenUp(x)' <=> GivenUp(x))
        /\ (Answered(x)' <=> Answered(x))
    BY <1>1, <1>2, <1>5 DEF FixIds, GivenUp, Answered, IsLatest, LocIds, FailedAfter, RowsOf
  <2>2. (CallOut(x)' <=> CallOut(x)) /\ (MayPay(x)' <=> MayPay(x))
    BY <1>1 DEF CallOut, MayPay, Fixing, Queued
  <2>3. QED
    BY <1>2, <1>5, <2>1, <2>2 DEF PayInv, PayOk, Accounted, Cap
<1>6. QED
  BY <1>2, <1>4, <1>5, AccountCleared DEF PayInv

\* retry_delay_seconds pass.
LEMMA DelayPays ==
    ASSUME TypeInv, TypeInv', RecordInv, JobInv, PayInv, NEW r \in Reports,
           NEW a \in analyses[r], DelayElapses(r, a)
    PROVE  RecordInv' /\ JobInv' /\ PayInv'
<1>1. UNCHANGED <<task, poll, queue, proposals, autoPaid>>
  BY DEF DelayElapses, loopVars
<1>2. /\ RowsGrow(r)
      /\ \A x \in Reports : x # r => analyses'[x] = analyses[x]
      /\ \A b \in analyses'[r] : \E c \in analyses[r] :
            b.id = c.id /\ b.status = c.status /\ b.phase = c.phase
  BY RowAges DEF RecordInv
<1>3. RecordInv' /\ JobInv'
  BY <1>1, <1>2, RowsMove DEF RowsGrow
<1>4. \A x \in Reports : RowsGrow(x)
  BY <1>2, RowsSame DEF RecordInv
<1>5. \A x \in Reports : (CallOut(x)' <=> CallOut(x)) /\ (MayPay(x)' <=> MayPay(x))
  BY <1>1 DEF CallOut, MayPay, Fixing, Queued
<1>6. \A x \in Reports : Accounted(x)'
  BY <1>1, <1>4, <1>5, AccountKept DEF PayInv, PayOk
<1>7. QED
  BY <1>1, <1>3, <1>5, <1>6 DEF PayInv, PayOk, Cap

\* A crash takes the calls that are out with it; the claim they hold puts a
\* permanent failure in their place.
LEMMA CrashPays ==
    ASSUME TypeInv, TypeInv', ClaimInv, RecordInv, JobInv, PayInv, CrashRestart
    PROVE  RecordInv' /\ JobInv' /\ PayInv'
<1>1. /\ \A s \in Slots : task'[s].pc = "idle"
      /\ queue' = {} /\ UNCHANGED <<proposals, autoPaid>>
      /\ \A r \in Reports : analyses'[r] = RecoveredRows(r)
  BY DEF CrashRestart, Idle
<1>2. \A r \in Reports : RowsGrow(r) /\ (status[r] = "fix_proposing" => GivenUp(r)')
  BY <1>1, RowsRecovered DEF RecordInv
<1>3. RecordInv'
  BY <1>1, <1>2 DEF RecordInv, RowsGrow, PlaceOk, Answering
<1>4. JobInv'
  BY <1>1 DEF JobInv, Fixing, WorkerSlots, Queued
<1>5. ASSUME NEW r \in Reports PROVE PayOk(r)'
  <2>1. ~MayPay(r)'
    BY <1>1 DEF MayPay, Fixing, Queued
  <2>2. CASE CallOut(r)
    <3>1. PICK s \in Slots : /\ Fixing(s) /\ task[s].report = r
                             /\ task[s].pc \in {"paid", "propose"}
      BY <2>2 DEF CallOut
    <3>2. InStage(s)
      BY <3>1 DEF InStage, SyncPcs, AwaitPcs
    <3>3. status[r] = "fix_proposing"
      BY <3>1, <3>2 DEF ClaimInv, ClaimsHeld, ClaimOf, Fixing
    <3>4. GivenUp(r)'
      BY <1>2, <3>3
    <3>5. QED
      BY <1>1, <2>1, <3>4 DEF PayInv, PayOk, Accounted, Cap
  <2>3. CASE ~CallOut(r)
    <3>1. Accounted(r)'
      BY <1>1, <1>2, <2>3, AccountKept DEF PayInv, PayOk
    <3>2. QED
      BY <1>1, <2>1, <3>1 DEF PayInv, PayOk, Cap
  <2>4. QED
    BY <2>2, <2>3
<1>6. QED
  BY <1>3, <1>4, <1>5 DEF PayInv

\* Every step keeps the budget.
LEMMA NextPays ==
    ASSUME TypeInv, TypeInv', ClaimInv, RecordInv, JobInv, PayInv, [Next]_vars
    PROVE  RecordInv' /\ JobInv' /\ PayInv'
<1>1. ASSUME UNCHANGED <<analyses, proposals, autoPaid, task, poll, queue>>
      PROVE  RecordInv' /\ JobInv' /\ PayInv'
  BY <1>1, RecordStays, PayStays DEF JobInv, Fixing, WorkerSlots, Queued
<1>2. ASSUME NEW s \in Slots, StageStep(s)
      PROVE  RecordInv' /\ JobInv' /\ PayInv'
  BY <1>2, StageMoves, MovesKeepJobs, StageRecords, StagePays
<1>3. ASSUME NEW r \in Reports, UserStep(r)
      PROVE  RecordInv' /\ JobInv' /\ PayInv'
  <2>1. CASE ResetStageRetries(r)
    BY <2>1, ResetPays
  <2>2. CASE \E s \in Slots : AnalyzeLocal(s, r) \/ AnalyzeCloud(s, r)
    BY <2>2, NewTaskPays
  <2>3. CASE \/ \E m \in Modes : CreateReport(r, m) \/ PatchMode(r, m)
             \/ \E target \in BugStatus, why \in {reason[r], "other"} : PatchStatus(r, target, why)
             \/ DeleteReport(r) \/ RetryRequest(r)
    BY <1>1, <2>3 DEF CreateReport, PatchMode, PatchStatus, DeleteReport, RetryRequest, rowVars,
                      loopVars
  <2>4. QED
    BY <1>3, <2>1, <2>2, <2>3 DEF UserStep
<1>4. ASSUME NEW s \in Slots, NEW stage \in Stages, NEW r \in Reports, StartJob(s, stage, r)
      PROVE  RecordInv' /\ JobInv' /\ PayInv'
  BY <1>4, NewTaskPays DEF Stages
<1>5. CASE PullRepo \/ (\E sha \in pulls : RecordPull(sha)) \/ UNCHANGED vars
  BY <1>1, <1>5 DEF PullRepo, RecordPull, rowVars, loopVars, vars
<1>6. QED
  BY <1>2, <1>3, <1>4, <1>5, PollPays, DelayPays, CrashPays DEF Next

\* Even with a cap of 0 the worker makes a first paid call on a localization,
\* since _retry_blocked lets a report without a failed row pass; it never makes
\* more than that, or than the cap.
CallsCapped == \A r \in Reports : autoPaid[r] <= Cap

THEOREM PaidCallsCapped ==
    ASSUME "leave" \notin HandEdits
    PROVE  Spec => []CallsCapped
<1> DEFINE Inv == TypeInv /\ ClaimInv /\ RecordInv /\ JobInv /\ PayInv
<1>1. Init => RecordInv /\ JobInv /\ PayInv
  <2> SUFFICES ASSUME Init PROVE RecordInv /\ JobInv /\ PayInv
    OBVIOUS
  <2>1. \A s \in Slots : task[s].pc = "idle"
    BY DEF Init, Idle
  <2>2. RecordInv
    BY <2>1 DEF Init, RecordInv, RowsDistinct, PlaceOk, Answering
  <2>3. JobInv
    BY <2>1 DEF Init, JobInv, WorkerSlots, Fixing, Queued
  <2>4. ASSUME NEW r \in Reports PROVE PayOk(r)
    <3>1. autoPaid[r] = 0 /\ Cap \in Nat /\ 0 < Cap
      BY SettingsAssumption DEF Init, Cap
    <3>2. Cardinality(FixIds(r)) \in Nat
      BY InitTypes, CountedByStamp
    <3>3. QED
      BY <3>1, <3>2 DEF PayOk, Accounted
  <2>5. QED
    BY <2>2, <2>3, <2>4 DEF PayInv
<1>2. Init => Inv
  BY <1>1, InitTypes, InitClaims
<1>3. Inv /\ [Next]_vars => Inv'
  BY NextTypes, NextClaims, NextPays
<1>4. Inv => CallsCapped
  BY DEF PayInv, PayOk, CallsCapped
<1>5. QED
  BY <1>2, <1>3, <1>4, PTL DEF Spec

\* If users leave reports in a stage claim alone and max_fix_retries is at least
\* 1, the worker alone never makes more paid calls on one localization than
\* that between two resets, whatever person's runs, crashes and stale samples
\* come in between.
THEOREM PaidWithinBudget ==
    ASSUME "leave" \notin HandEdits, MaxFixRetries # 0
    PROVE  Spec => []PaidCallBudget
<1>1. CallsCapped => PaidCallBudget
  BY DEF CallsCapped, PaidCallBudget, Cap
<1>2. QED
  BY <1>1, PaidCallsCapped, PTL

-----------------------------------------------------------------------------
(* The worker's jobs, whatever users do.                                    *)

\* No job outlives its cycle, and none goes on to another stage.
AloneInv ==
    /\ poll # "gather" => WorkerSlots = {}
    /\ \A s \in WorkerSlots : ~task[s].more
    /\ OneJobPerStage

\* Only slot s moves; a worker's coroutine in it was one for the same job.
KeepsJob(s) ==
    /\ OnlySlot(s) /\ task[s].pc # "idle" /\ poll' = poll /\ queue' = queue
    /\ task'[s].pc # "idle" /\ task'[s].by = "worker" =>
          /\ task[s].by = "worker"
          /\ task[s].more \/ /\ task'[s].stage = task[s].stage
                             /\ task'[s].report = task[s].report /\ ~task'[s].more

\* Every step of a stage keeps its coroutine to its job.
LEMMA StageKeepsJob ==
    ASSUME TypeInv, NEW s \in Slots, StageStep(s)
    PROVE  KeepsJob(s)
<1> USE DEF OnlySlot, loopVars, KeepsJob
<1>1. task \in [Slots -> Task] /\ task[s] \in Task
  BY DEF TypeOK
<1>2. ASSUME NEW t, task' = [task EXCEPT ![s] = t], task[s].pc # "idle",
             poll' = poll, queue' = queue, t.by = task[s].by, t.report = task[s].report,
             t.stage = task[s].stage, t.more = task[s].more
      PROVE  KeepsJob(s)
  BY <1>1, <1>2
<1>3. ASSUME NEW t, task' = [task EXCEPT ![s] = t], task[s].pc # "idle",
             poll' = poll, queue' = queue,
             t.pc = "idle" \/ t.by = "user" \/ (t.by = task[s].by /\ task[s].more)
      PROVE  KeepsJob(s)
  BY <1>1, <1>3
<1>4. CASE ClaimValidation(s)
  <2>1. PICK o : task' = [task EXCEPT ![s].pc = "settle", ![s].dup = o,
                     ![s].next = IF o = NoReport THEN "triaged" ELSE "duplicate"]
    BY <1>4 DEF ClaimValidation
  <2> DEFINE t == [task[s] EXCEPT !.pc = "settle", !.dup = o,
                     !.next = IF o = NoReport THEN "triaged" ELSE "duplicate"]
  <2>2. task' = [task EXCEPT ![s] = t]
    BY <2>1
  <2>3. t.by = task[s].by /\ t.report = task[s].report /\ t.stage = task[s].stage
        /\ t.more = task[s].more
    BY <1>1 DEF Task
  <2>4. task[s].pc # "idle" /\ poll' = poll /\ queue' = queue
    BY <1>4 DEF ClaimValidation
  <2> HIDE DEF t
  <2>5. QED
    BY <1>2, <2>2, <2>3, <2>4
<1>5. ASSUME NEW pc, Continue(s, pc), task[s].pc # "idle", poll' = poll, queue' = queue
      PROVE  KeepsJob(s)
  <2>1. task' = [task EXCEPT ![s] = [task[s] EXCEPT !.pc = pc]]
    BY <1>5 DEF Continue
  <2>2. QED
    BY <1>1, <1>2, <1>5, <2>1 DEF Task
<1>6. ASSUME NEW st, SettleWith(s, st), task[s].pc # "idle", poll' = poll, queue' = queue
      PROVE  KeepsJob(s)
  <2>1. task' = [task EXCEPT ![s] = [task[s] EXCEPT !.pc = "settle", !.next = st]]
    BY <1>6 DEF SettleWith
  <2>2. QED
    BY <1>1, <1>2, <1>6, <2>1 DEF Task
<1>7. CASE ValidationFails(s) \/ ClaimTriage(s) \/ FilesUnreadable(s) \/ CallFixModel(s)
           \/ FixAnswered(s) \/ \E perm \in BOOLEAN : FixFails(s, perm)
  BY <1>5, <1>7 DEF ValidationFails, ClaimTriage, FilesUnreadable, CallFixModel, FixAnswered,
                    FixFails
<1>8. CASE LocalizationAborts(s) \/ StageFails(s) \/ CreateProposal(s)
           \/ \E st \in {"triaged", "clarification_needed"} : StageSucceeds(s, st)
  BY <1>6, <1>8 DEF LocalizationAborts, StageFails, CreateProposal, StageSucceeds
<1>9. CASE ClaimLocalization(s) \/ RecordHead(s)
  BY <1>5, <1>6, <1>9 DEF ClaimLocalization, RecordHead
<1>10. CASE ClaimFix(s)
  <2>1. ASSUME task' = [task EXCEPT ![s].pc = "files",
                               ![s].row = LatestLocalization(task[s].report).id]
        PROVE  KeepsJob(s)
    <3> DEFINE t == [task[s] EXCEPT !.pc = "files",
                               !.row = LatestLocalization(task[s].report).id]
    <3>1. task' = [task EXCEPT ![s] = t]
      BY <2>1
    <3>2. t.by = task[s].by /\ t.report = task[s].report /\ t.stage = task[s].stage
          /\ t.more = task[s].more
      BY <1>1 DEF Task
    <3>3. task[s].pc = "claim" /\ poll' = poll /\ queue' = queue
      BY <1>10 DEF ClaimFix
    <3> HIDE DEF t
    <3>4. QED
      BY <1>2, <3>1, <3>2, <3>3
  <2>2. QED
    BY <1>5, <1>6, <1>10, <2>1 DEF ClaimFix
<1>11. CASE ClaimLost(s) \/ Settle(s)
  <2>1. AfterStage(s).pc = "idle" \/ (AfterStage(s).by = task[s].by /\ task[s].more)
    BY DEF AfterStage, NewTask, Idle
  <2>2. task' = [task EXCEPT ![s] = AfterStage(s)] /\ task[s].pc # "idle"
        /\ poll' = poll /\ queue' = queue
    BY <1>11 DEF ClaimLost, Settle
  <2>3. QED
    BY <1>3, <2>1, <2>2
<1>12. CASE ReadHead(s)
  <2>1. task' = [task EXCEPT ![s] = [task[s] EXCEPT !.pc = "fresh", !.sha = checkout]]
    BY <1>12 DEF ReadHead
  <2>2. QED
    BY <1>1, <1>2, <1>12, <2>1 DEF ReadHead, Task
<1>13. CASE TriageRow(s) \/ LocalizationRow(s)
  <2> DEFINE t == [task[s] EXCEPT !.pc = "llm", !.row = clock[task[s].report] + 1]
  <2>1. task' = [task EXCEPT ![s] = t] /\ task[s].pc # "idle" /\ poll' = poll /\ queue' = queue
    BY <1>13 DEF TriageRow, LocalizationRow, RunningRow
  <2>2. t.by = task[s].by /\ t.report = task[s].report /\ t.stage = task[s].stage
        /\ t.more = task[s].more
    BY <1>1 DEF Task
  <2> HIDE DEF t
  <2>3. QED
    BY <1>2, <2>1, <2>2
<1>14. CASE RollbackClaim(s)
  <2>1. task' = [task EXCEPT ![s] = Idle] /\ task[s].pc # "idle" /\ poll' = poll /\ queue' = queue
    BY <1>14 DEF RollbackClaim
  <2>2. QED
    BY <1>3, <2>1 DEF Idle
<1>15. CASE RunBackground(s) \/ ReopenForAnalysis(s)
  <2>1. LocalStage(task[s].report).by = "user"
    BY DEF LocalStage, NewTask, Idle
  <2>2. CASE task' = [task EXCEPT ![s] = LocalStage(task[s].report)]
    BY <1>3, <1>15, <2>1, <2>2 DEF RunBackground, ReopenForAnalysis
  <2>3. CASE task' = [task EXCEPT ![s] = [task[s] EXCEPT !.pc = "claim"]] /\ RunBackground(s)
    BY <1>1, <1>2, <2>3 DEF RunBackground, Task
  <2>4. CASE Continue(s, "reopen") /\ RunBackground(s)
    BY <1>5, <2>4 DEF RunBackground
  <2>5. QED
    BY <1>15, <2>2, <2>3, <2>4 DEF RunBackground, ReopenForAnalysis
<1>16. QED
  BY <1>4, <1>7, <1>8, <1>9, <1>10, <1>11, <1>12, <1>13, <1>14, <1>15 DEF StageStep

\* A coroutine that keeps to its job makes no second one.
LEMMA JobsKept ==
    ASSUME AloneInv, NEW s \in Slots, KeepsJob(s)
    PROVE  AloneInv'
<1>1. ASSUME NEW t \in WorkerSlots'
      PROVE  /\ t \in WorkerSlots /\ task'[t].stage = task[t].stage
             /\ task'[t].report = task[t].report /\ ~task'[t].more
  BY <1>1 DEF AloneInv, KeepsJob, OnlySlot, WorkerSlots
<1>2. OneJobPerStage'
  BY <1>1 DEF AloneInv, OneJobPerStage, KeepsJob
<1>3. QED
  BY <1>1, <1>2 DEF AloneInv, KeepsJob

\* A sampled job takes its place in the queue with it; a person's run is no job.
LEMMA NewTaskAlone ==
    ASSUME TypeInv, AloneInv, NEW s \in Slots, NEW r \in Reports, NEW stage \in Stages,
           StartJob(s, stage, r) \/ AnalyzeLocal(s, r) \/ AnalyzeCloud(s, r)
    PROVE  AloneInv'
<1>1. task \in [Slots -> Task]
  BY DEF TypeOK
<1>2. PICK by \in {"worker", "user"}, st \in Stages, pc \in {"start", "claim"} :
          /\ task' = [task EXCEPT ![s] = NewTask(r, by, st, pc)]
          /\ by = "worker" => /\ poll = "gather" /\ <<st, r>> \in queue
                              /\ queue' = queue \ {<<st, r>>}
  BY DEF AnalyzeLocal, AnalyzeCloud, StartJob, Stages
<1>3. /\ NewTask(r, by, st, pc).by = by /\ NewTask(r, by, st, pc).stage = st
      /\ NewTask(r, by, st, pc).report = r /\ NewTask(r, by, st, pc).more = FALSE
  BY DEF NewTask, Idle
<1>4. /\ OnlySlot(s) /\ task'[s].by = by /\ task'[s].stage = st /\ task'[s].report = r
      /\ ~task'[s].more
  BY <1>1, <1>2, <1>3 DEF OnlySlot
<1>5. poll' = poll /\ queue' \subseteq queue
  BY DEF StartJob, AnalyzeLocal, AnalyzeCloud, loopVars
<1>6. ASSUME NEW t \in WorkerSlots', t # s
      PROVE  t \in WorkerSlots /\ task'[t] = task[t]
  BY <1>4, <1>6 DEF OnlySlot, WorkerSlots
<1>7. s \in WorkerSlots' => /\ poll = "gather" /\ <<st, r>> \in queue
                            /\ queue' = queue \ {<<st, r>>}
  BY <1>2, <1>4 DEF WorkerSlots
<1>8. OneJobPerStage'
  BY <1>4, <1>5, <1>6, <1>7 DEF AloneInv, OneJobPerStage
<1>9. WorkerSlots' \subseteq WorkerSlots \cup {s}
  BY <1>6
<1>10. QED
  BY <1>4, <1>5, <1>6, <1>7, <1>8, <1>9 DEF AloneInv

\* Every step keeps the worker's jobs apart.
LEMMA NextAlone ==
    ASSUME TypeInv, AloneInv, [Next]_vars
    PROVE  AloneInv'
<1>1. ASSUME UNCHANGED <<task, poll, queue>>
      PROVE  AloneInv'
  BY <1>1 DEF AloneInv, OneJobPerStage, WorkerSlots
<1>2. ASSUME NEW s \in Slots, StageStep(s)
      PROVE  AloneInv'
  BY <1>2, StageKeepsJob, JobsKept
<1>3. CASE Poll
  <2>1. WorkerSlots = {}
    BY <1>3 DEF Poll, PollSubmitted, PollTriage, PollLocalization, PollFix, CycleEnds, AloneInv
  <2>2. task' = task
    BY <1>3 DEF Poll, PollSubmitted, PollTriage, PollLocalization, PollFix, CycleEnds
  <2>3. WorkerSlots' = {}
    BY <2>1, <2>2 DEF WorkerSlots
  <2>4. QED
    BY <2>3 DEF AloneInv, OneJobPerStage
<1>4. ASSUME NEW r \in Reports, UserStep(r)
      PROVE  AloneInv'
  <2>1. CASE \E s \in Slots : AnalyzeLocal(s, r) \/ AnalyzeCloud(s, r)
    <3>1. "fix" \in Stages
      BY DEF Stages
    <3>2. QED
      BY <2>1, <3>1, NewTaskAlone
  <2>2. CASE \/ \E m \in Modes : CreateReport(r, m) \/ PatchMode(r, m)
             \/ \E target \in BugStatus, why \in {reason[r], "other"} : PatchStatus(r, target, why)
             \/ DeleteReport(r) \/ RetryRequest(r) \/ ResetStageRetries(r)
    BY <1>1, <2>2 DEF CreateReport, PatchMode, PatchStatus, DeleteReport, RetryRequest,
                      ResetStageRetries, loopVars
  <2>3. QED
    BY <1>4, <2>1, <2>2 DEF UserStep
<1>5. ASSUME NEW s \in Slots, NEW stage \in Stages, NEW r \in Reports, StartJob(s, stage, r)
      PROVE  AloneInv'
  BY <1>5, NewTaskAlone
<1>6. CASE PullRepo \/ (\E sha \in pulls : RecordPull(sha)) \/ UNCHANGED vars
           \/ \E r \in Reports : \E a \in analyses[r] : DelayElapses(r, a)
  BY <1>1, <1>6 DEF PullRepo, RecordPull, DelayElapses, loopVars, vars
<1>7. CASE CrashRestart
  <2>1. WorkerSlots' = {}
    BY <1>7 DEF CrashRestart, WorkerSlots, Idle
  <2>2. QED
    BY <2>1 DEF AloneInv, OneJobPerStage
<1>8. QED
  BY <1>2, <1>3, <1>4, <1>5, <1>6, <1>7 DEF Next

\* Whatever users PATCH, also reports out of a claim: the worker never has two
\* jobs of one stage for a report, waiting or running. Double processing then takes
\* a person's run, or two stages that one cycle sampled.
THEOREM WorkerJobsApart == Spec => []OneJobPerStage
<1>1. Init => AloneInv
  <2> SUFFICES ASSUME Init PROVE AloneInv
    OBVIOUS
  <2>1. WorkerSlots = {}
    BY DEF Init, Idle, WorkerSlots
  <2>2. QED
    BY <2>1 DEF AloneInv, OneJobPerStage
<1>2. TypeInv /\ AloneInv /\ [Next]_vars => (TypeInv /\ AloneInv)'
  BY NextTypes, NextAlone
<1>3. AloneInv => OneJobPerStage
  BY DEF AloneInv
<1>4. QED
  BY <1>1, <1>2, <1>3, InitTypes, PTL DEF Spec
=============================================================================
