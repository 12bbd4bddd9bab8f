------------------------ MODULE TriageOutcomeProofs ------------------------
(***************************************************************************)
(* TriageSync implements ActionOutcome: every step of sync decides, tells, *)
(* spends or makes what the promise allows, or changes nothing of it.      *)
(***************************************************************************)
EXTENDS TriageProofs

\* The refinement mapping
worksBar == [a \in Actions |-> Kind(a) \in LlmKinds]
outcomeBar == [a \in Actions |-> Posted(ledger[a].outcome)]
toldBar == [a \in Actions |-> IF source[a] \in Told THEN source[a] ELSE None]
madeBar == [a \in Actions |-> "made" \in rows[a]]

\* What a step leaves of an action's promise
SameTold(a) == source'[a] = source[a] \/ {source[a], source'[a]} \cap Told = {}
SameMade(a) == ("made" \in rows'[a]) = ("made" \in rows[a])
SameFace(a) ==
    /\ ledger'[a].outcome = ledger[a].outcome /\ SameTold(a)
    /\ SameMade(a) /\ calls'[a] = calls[a]

LEMMA BarTypes ==
    ASSUME Inv
    PROVE  /\ calls \in [Actions -> Nat]
           /\ \A a \in Actions : /\ ledger[a].outcome \in Outcomes \cup {None}
                                 /\ source[a] \in {"pending", "claimed", "gone"} \cup Told
           /\ Posted(None) = None /\ None \notin Told
<1>1. \A a \in Actions : ledger[a] \in LedgerRow
  BY DEF Inv, TypeOK
<1>2. None \notin {"done", "failed", "refused", "timed_out"}
  BY TriageAssumption
<1>3. QED
  BY <1>1, <1>2 DEF Inv, TypeOK, LedgerRow, Posted, Told

\* A part of the mapping that a step leaves alone
LEMMA BarsKept ==
    ASSUME Inv, Inv', asked' = asked, NEW S \in SUBSET Actions
    PROVE  /\ worksBar' = worksBar
           /\ (\A a \in Actions : ledger'[a].outcome = ledger[a].outcome) => outcomeBar' = outcomeBar
           /\ (\A a \in Actions : SameTold(a)) => toldBar' = toldBar
           /\ (\A a \in Actions : SameMade(a)) => madeBar' = madeBar
           /\ (\A a \in Actions : calls'[a] = calls[a]) => calls' = calls
<1>1. worksBar' = worksBar
  BY DEF worksBar, Kind
<1>2. (\A a \in Actions : ledger'[a].outcome = ledger[a].outcome) => outcomeBar' = outcomeBar
  BY DEF outcomeBar
<1>3. (\A a \in Actions : SameTold(a)) => toldBar' = toldBar
  BY DEF toldBar, SameTold
<1>4. (\A a \in Actions : SameMade(a)) => madeBar' = madeBar
  BY DEF madeBar, SameMade
<1>5. calls \in [Actions -> Nat] /\ calls' \in [Actions -> Nat]
  BY DEF Inv, TypeOK
<1>6. (\A a \in Actions : calls'[a] = calls[a]) => calls' = calls
  BY <1>5
<1>7. QED
  BY <1>1, <1>2, <1>3, <1>4, <1>6

LEMMA Stutters ==
    ASSUME Inv, Inv', asked' = asked, \A a \in Actions : SameFace(a)
    PROVE  UNCHANGED Outcome!vars
<1>1. /\ worksBar' = worksBar /\ outcomeBar' = outcomeBar /\ toldBar' = toldBar
      /\ madeBar' = madeBar /\ calls' = calls
  BY BarsKept DEF SameFace
<1>2. QED
  BY <1>1 DEF Outcome!vars, worksBar, outcomeBar, toldBar, madeBar

LEMMA Decides ==
    ASSUME Inv, Inv', asked' = asked, NEW a \in Actions, NEW o \in Outcomes,
           ledger[a].outcome = None, ledger'[a].outcome = o,
           SameTold(a), SameMade(a), calls'[a] = calls[a],
           \A b \in Actions \ {a} : SameFace(b),
           o = "done" /\ Kind(a) \in LlmKinds => "made" \in rows[a],
           o = "refused" => calls[a] = 0 \/ "made" \in rows[a]
    PROVE  Outcome!Next
<1>1. worksBar' = worksBar /\ toldBar' = toldBar /\ madeBar' = madeBar /\ calls' = calls
  BY BarsKept DEF SameFace
<1>2. outcomeBar' = [outcomeBar EXCEPT ![a] = Posted(o)]
  BY DEF outcomeBar, SameFace
<1>3. outcomeBar[a] = None
  BY BarTypes DEF outcomeBar
<1>4. Posted(o) = "done" /\ worksBar[a] => madeBar[a]
  BY DEF Posted, worksBar, madeBar
<1>5. Posted(o) = "refused" => calls[a] = 0 \/ madeBar[a]
  BY DEF Posted, madeBar
<1>6. Outcome!Decide(a, Posted(o))
  BY <1>1, <1>2, <1>3, <1>4, <1>5 DEF Outcome!Decide, worksBar, outcomeBar, toldBar, madeBar
<1>7. Posted(o) \in Outcome!Outcomes
  BY DEF Posted, Outcomes, Outcome!Outcomes
<1>8. QED
  BY <1>6, <1>7 DEF Outcome!Next

LEMMA FailsLate ==
    ASSUME Inv, Inv', asked' = asked, NEW S \in SUBSET Actions,
           \A a \in S : ledger[a].outcome = None /\ ledger'[a].outcome = "timed_out",
           \A a \in Actions \ S : ledger'[a].outcome = ledger[a].outcome,
           \A a \in Actions : SameTold(a) /\ SameMade(a) /\ calls'[a] = calls[a]
    PROVE  Outcome!Next
<1>1. worksBar' = worksBar /\ toldBar' = toldBar /\ madeBar' = madeBar /\ calls' = calls
  BY BarsKept
<1>2. outcomeBar' = [a \in Actions |-> IF a \in S THEN "failed" ELSE outcomeBar[a]]
  BY DEF outcomeBar, Posted
<1>3. \A a \in S : outcomeBar[a] = None
  BY BarTypes DEF outcomeBar
<1>4. Outcome!FailLate(S)
  BY <1>1, <1>2, <1>3 DEF Outcome!FailLate, worksBar, outcomeBar, toldBar, madeBar
<1>5. QED
  BY <1>4 DEF Outcome!Next

LEMMA Tells ==
    ASSUME Inv, Inv', asked' = asked, NEW a \in Actions,
           source[a] \notin Told, ledger[a].phase = "finished",
           source'[a] = Posted(ledger[a].outcome),
           \A b \in Actions \ {a} : SameTold(b),
           \A b \in Actions : /\ ledger'[b].outcome = ledger[b].outcome
                              /\ SameMade(b) /\ calls'[b] = calls[b]
    PROVE  Outcome!Next
<1>1. worksBar' = worksBar /\ outcomeBar' = outcomeBar /\ madeBar' = madeBar /\ calls' = calls
  BY BarsKept
<1>2. ledger[a].outcome \in Outcomes
  BY BarTypes DEF Inv, ActionInv, DecidedInv
<1>3. Posted(ledger[a].outcome) \in Told
  BY <1>2 DEF Posted, Outcomes, Told
<1>4. toldBar' = [toldBar EXCEPT ![a] = outcomeBar[a]]
  BY <1>3 DEF toldBar, outcomeBar, SameTold
<1>5. outcomeBar[a] # None /\ toldBar[a] = None
  BY <1>3, BarTypes DEF outcomeBar, toldBar
<1>6. Outcome!Tell(a)
  BY <1>1, <1>4, <1>5 DEF Outcome!Tell, worksBar, outcomeBar, toldBar, madeBar
<1>7. QED
  BY <1>6 DEF Outcome!Next

\* A task that works for an open action, or for one failed by its bound
LEMMA MayWork ==
    ASSUME Inv, NEW a \in Actions, Running(a), task[a].pc \notin {"prstart", "pr"}
    PROVE  worksBar[a] /\ outcomeBar[a] \in {None, "failed"}
<1>1. ActionInv(a) /\ "timed_out" # None
  BY TriageAssumption DEF Inv
<1>2. Kind(a) \in LlmKinds /\ ledger[a].outcome \in {None, "timed_out"}
  BY <1>1 DEF ActionInv, RunningInv, DecidedInv
<1>3. Posted(ledger[a].outcome) \in {None, "failed"}
  BY <1>2, BarTypes DEF Posted
<1>4. QED
  BY <1>2, <1>3 DEF worksBar, outcomeBar

LEMMA Spends ==
    ASSUME Inv, Inv', asked' = asked, NEW a \in Actions,
           Running(a), task[a].pc \notin {"prstart", "pr"},
           calls[a] = 0, calls' = [calls EXCEPT ![a] = 1],
           \A b \in Actions : ledger'[b].outcome = ledger[b].outcome /\ SameTold(b) /\ SameMade(b)
    PROVE  Outcome!Next
<1>1. worksBar' = worksBar /\ outcomeBar' = outcomeBar /\ madeBar' = madeBar /\ toldBar' = toldBar
  BY BarsKept
<1>2. worksBar[a] /\ outcomeBar[a] \in {None, "failed"}
  BY MayWork
<1>3. Outcome!Spend(a)
  BY <1>1, <1>2 DEF Outcome!Spend, Outcome!MayWork, worksBar, outcomeBar, toldBar, madeBar
<1>4. QED
  BY <1>3 DEF Outcome!Next

LEMMA Makes ==
    ASSUME Inv, Inv', asked' = asked, NEW a \in Actions,
           Running(a), task[a].pc \notin {"prstart", "pr"},
           "made" \notin rows[a], "made" \in rows'[a],
           \A b \in Actions \ {a} : SameMade(b),
           \A b \in Actions : ledger'[b].outcome = ledger[b].outcome /\ SameTold(b)
                              /\ calls'[b] = calls[b]
    PROVE  Outcome!Next
<1>1. worksBar' = worksBar /\ outcomeBar' = outcomeBar /\ toldBar' = toldBar /\ calls' = calls
  BY BarsKept
<1>2. worksBar[a] /\ outcomeBar[a] \in {None, "failed"}
  BY MayWork
<1>3. madeBar' = [madeBar EXCEPT ![a] = TRUE] /\ ~madeBar[a]
  <2>1. \A b \in Actions : ("made" \in rows'[b]) = (IF b = a THEN TRUE ELSE "made" \in rows[b])
    <3>1. ASSUME NEW b \in Actions, b # a
          PROVE  ("made" \in rows'[b]) = ("made" \in rows[b])
      BY <3>1, Zenon DEF SameMade
    <3>2. ("made" \in rows'[a]) = TRUE
      BY Zenon
    <3>3. QED
      BY <3>1, <3>2, Zenon
  <2>2. madeBar' = [b \in Actions |-> IF b = a THEN TRUE ELSE madeBar[b]]
    BY <2>1, Zenon DEF madeBar
  <2>3. [madeBar EXCEPT ![a] = TRUE] = [b \in Actions |-> IF b = a THEN TRUE ELSE madeBar[b]]
    BY Zenon DEF madeBar
  <2>4. ~madeBar[a]
    BY DEF madeBar
  <2>5. QED
    BY <2>2, <2>3, <2>4
<1>4. Outcome!Make(a)
  BY <1>1, <1>2, <1>3 DEF Outcome!Make, Outcome!MayWork, worksBar, outcomeBar, toldBar, madeBar
<1>5. QED
  BY <1>4 DEF Outcome!Next

-----------------------------------------------------------------------------
(* Every step. *)

\* Steps of the tick and the world that leave the promise alone
LEMMA QuietSteps ==
    ASSUME Inv, Inv',
           \/ Drain \/ ListActions \/ EndTick \/ CrashRestart \/ World \/ UNCHANGED vars
           \/ \E a \in Actions :
                \/ Reserve(a) \/ Skip(a) \/ Wait(a) \/ Authorize(a) \/ ClaimDenied(a) \/ Dispatch(a)
                \/ RunInline(a) \/ RecoverPr(a) \/ RecoverInline(a) \/ Redispatch(a)
                \/ ClaimUnanswered(a) \/ Withdraw(a) \/ PostUnanswered(a)
                \/ PostRejected(a)
    PROVE  UNCHANGED Outcome!vars
<1> USE DEF sourceVars, reportVars, historyVars, boundVars
<1>1. /\ ledger \in [Actions -> LedgerRow] /\ source \in [Actions -> {"pending", "claimed", "gone"} \cup Told]
  BY DEF Inv, TypeOK
<1>2. CASE Drain \/ ListActions \/ EndTick \/ CrashRestart \/ World \/ UNCHANGED vars
  <2>1. UNCHANGED <<asked, source, ledger, rows, calls>>
    BY <1>2 DEF Drain, ListActions, EndTick, CrashRestart, World, vars, BoundPasses, WorkerClaims,
                WorkerReleases, UserCloses, Import
  <2>2. QED
    BY <2>1, Stutters DEF SameFace, SameTold, SameMade
<1>3. ASSUME NEW a \in Actions, \/ Skip(a) \/ Wait(a) \/ RunInline(a) \/ RecoverPr(a)
                                \/ RecoverInline(a) \/ Redispatch(a) \/ ClaimUnanswered(a)
                                \/ PostUnanswered(a)
      PROVE UNCHANGED Outcome!vars
  <2>1. UNCHANGED <<asked, source, ledger, rows, calls>>
    BY <1>3 DEF Skip, Wait, RunInline, RecoverPr, RecoverInline, Redispatch, ClaimUnanswered,
                PostUnanswered
  <2>2. QED
    BY <2>1, Stutters DEF SameFace, SameTold, SameMade
<1>4. ASSUME NEW a \in Actions, Reserve(a) \/ Dispatch(a) \/ PostRejected(a)
      PROVE UNCHANGED Outcome!vars
  <2>1. UNCHANGED <<asked, source, rows, calls>>
        /\ \/ \E p \in {"reserved", "dispatched"} : ledger' = [ledger EXCEPT ![a].phase = p]
           \/ ledger' = [ledger EXCEPT ![a].acked = "rejected"]
    BY <1>4 DEF Reserve, Dispatch, PostRejected
  <2>2. \A b \in Actions : ledger'[b].outcome = ledger[b].outcome
    BY <1>1, <2>1 DEF LedgerRow
  <2>3. QED
    BY <2>1, <2>2, Stutters DEF SameFace, SameTold, SameMade
<1>5. ASSUME NEW a \in Actions, Authorize(a)
      PROVE UNCHANGED Outcome!vars
  <2>1. /\ UNCHANGED <<asked, rows, calls>> /\ ledger' = [ledger EXCEPT ![a] = Intent(a)]
        /\ source[a] \in {"pending", "claimed"} /\ source' = [source EXCEPT ![a] = "claimed"]
    BY <1>5 DEF Authorize, Claimed
  <2>2. Intent(a).outcome = ledger[a].outcome
    BY <1>1 DEF Intent, LedgerRow
  <2>3. \A b \in Actions : ledger'[b].outcome = ledger[b].outcome
    BY <1>1, <2>1, <2>2
  <2>4. \A b \in Actions : SameTold(b)
    BY <1>1, <2>1 DEF SameTold, Told
  <2>5. QED
    BY <2>1, <2>3, <2>4, Stutters DEF SameFace, SameMade
<1>6. ASSUME NEW a \in Actions, ClaimDenied(a)
      PROVE UNCHANGED Outcome!vars
  <2>1. /\ UNCHANGED <<asked, source, rows, calls>> /\ ledger' = [ledger EXCEPT ![a] = NoRow]
        /\ ledger[a].phase = "reserved"
    BY <1>6 DEF ClaimDenied, Inv, TickInv
  <2>2. ledger[a].outcome = None
    BY <2>1, OpenRow DEF Inv
  <2>3. NoRow.outcome = None
    BY DEF NoRow
  <2>4. \A b \in Actions : ledger'[b].outcome = ledger[b].outcome
    BY <1>1, <2>1, <2>2, <2>3
  <2>5. QED
    BY <2>1, <2>4, Stutters DEF SameFace, SameTold, SameMade
<1>7. ASSUME NEW a \in Actions, Withdraw(a)
      PROVE UNCHANGED Outcome!vars
  <2>1. /\ UNCHANGED <<asked, ledger, rows, calls>>
        /\ source[a] \in {"pending", "claimed"} /\ source' = [source EXCEPT ![a] = "gone"]
    BY <1>7 DEF Withdraw
  <2>2. \A b \in Actions : SameTold(b)
    BY <1>1, <2>1 DEF SameTold, Told
  <2>3. QED
    BY <2>1, <2>2, Stutters DEF SameFace, SameMade
<1>8. QED
  BY <1>2, <1>3, <1>4, <1>5, <1>6, <1>7

\* The time bound
LEMMA SweepSteps ==
    ASSUME Inv, Inv', StartTick \/ ExpireSweep
    PROVE  Outcome!Next
<1> USE DEF sourceVars, reportVars, historyVars, boundVars
<1>1. UNCHANGED <<asked, source, rows, calls>> /\ ledger' = Expired
  BY DEF StartTick, ExpireSweep
<1> DEFINE S == {a \in Actions : Overdue(a)}
<1>2. ASSUME NEW a \in S
      PROVE  ledger[a].outcome = None /\ ledger'[a].outcome = "timed_out"
  <2>1. ledger[a].outcome = None
    BY OpenRow DEF Inv, Overdue, Authorized
  <2>2. ledger'[a] = Finished(ledger[a], "timed_out")
    BY <1>1 DEF Expired
  <2>3. QED
    BY <2>1, <2>2, FinishedRow DEF Inv
<1>3. \A a \in Actions \ S : ledger'[a].outcome = ledger[a].outcome
  BY <1>1 DEF Expired
<1>4. \A a \in Actions : SameTold(a) /\ SameMade(a) /\ calls'[a] = calls[a]
  BY <1>1 DEF SameTold, SameMade
<1> HIDE DEF S
<1>5. S \in SUBSET Actions
  BY DEF S
<1>6. QED
  BY <1>1, <1>2, <1>3, <1>4, <1>5, FailsLate

\* The requests of a drain, answered or not
LEMMA TellSteps ==
    ASSUME Inv, Inv', Abort \/ \E a \in Actions : PostTerminal(a)
    PROVE  Outcome!Next \/ UNCHANGED Outcome!vars
<1> USE DEF sourceVars, reportVars, historyVars, boundVars
<1>1. UNCHANGED <<asked, rows, calls>>
      /\ \A b \in Actions : ledger'[b].outcome = ledger[b].outcome
  <2>1. CASE Abort
    BY <2>1 DEF Abort
  <2>2. CASE \E a \in Actions : PostTerminal(a)
    BY <2>2 DEF PostTerminal, Inv, TypeOK, LedgerRow
  <2>3. QED
    BY <2>1, <2>2
<1>2. source \in [Actions -> {"pending", "claimed", "gone"} \cup Told] /\ tick \in Tick
  BY DEF Inv, TypeOK
<1>3. \/ \A b \in Actions : SameTold(b)
      \/ \E a \in Actions : /\ source[a] = "claimed" /\ ledger[a].phase = "finished"
                            /\ source' = [source EXCEPT ![a] = Posted(ledger[a].outcome)]
  <2>1. CASE Abort
    <3>1. \/ UNCHANGED source
          \/ /\ tick.pc = "claim" /\ source[tick.cur] = "pending"
             /\ source' = [source EXCEPT ![tick.cur] = "claimed"]
          \/ \E a \in tick.todo : /\ source[a] = "claimed" /\ tick.pc \in {"drain", "last"}
                                  /\ source' = [source EXCEPT ![a] = Posted(ledger[a].outcome)]
      BY <2>1 DEF Abort
    <3>2. CASE UNCHANGED source
      BY <3>2 DEF SameTold
    <3>3. CASE /\ tick.pc = "claim" /\ source[tick.cur] = "pending"
               /\ source' = [source EXCEPT ![tick.cur] = "claimed"]
      BY <1>2, <3>3 DEF SameTold, Told
    <3>4. CASE \E a \in tick.todo : /\ source[a] = "claimed" /\ tick.pc \in {"drain", "last"}
                                    /\ source' = [source EXCEPT ![a] = Posted(ledger[a].outcome)]
      <4>1. tick.todo \subseteq Actions /\ \A a \in tick.todo : ledger[a].phase = "finished"
        BY <1>2, <3>4 DEF Tick, Inv, TickInv
      <4>2. QED
        BY <3>4, <4>1
    <3>5. QED
      BY <3>1, <3>2, <3>3, <3>4
  <2>2. CASE \E a \in Actions : PostTerminal(a)
    <3>1. PICK a \in Actions : PostTerminal(a)
      BY <2>2
    <3>2. CASE source[a] = "claimed"
      BY <3>1, <3>2 DEF PostTerminal, Inv, TickInv
    <3>3. CASE source[a] # "claimed"
      BY <3>1, <3>3 DEF PostTerminal, SameTold
    <3>4. QED
      BY <3>2, <3>3
  <2>3. QED
    BY <2>1, <2>2
<1>4. CASE \A b \in Actions : SameTold(b)
  BY <1>1, <1>4, Stutters DEF SameFace, SameMade
<1>5. ASSUME NEW a \in Actions, source[a] = "claimed", ledger[a].phase = "finished",
             source' = [source EXCEPT ![a] = Posted(ledger[a].outcome)]
      PROVE  Outcome!Next
  <2>1. source[a] \notin Told /\ source'[a] = Posted(ledger[a].outcome)
        /\ \A b \in Actions \ {a} : SameTold(b)
    BY <1>2, <1>5 DEF Told, SameTold
  <2>2. QED
    BY <1>1, <1>5, <2>1, Tells DEF SameMade
<1>6. QED
  BY <1>3, <1>4, <1>5

\* A step that writes one row decides its outcome, or leaves it
LEMMA RowDecides ==
    ASSUME Inv, Inv', NEW a \in Actions, NEW row, UNCHANGED <<asked, rows, calls>>,
           \A b \in Actions : SameTold(b), ledger' = [ledger EXCEPT ![a] = row],
           \/ row.outcome = ledger[a].outcome
           \/ /\ ledger[a].outcome = None /\ row.outcome \in Outcomes
              /\ row.outcome = "done" /\ Kind(a) \in LlmKinds => "made" \in rows[a]
              /\ row.outcome = "refused" => calls[a] = 0 \/ "made" \in rows[a]
    PROVE  Outcome!Next \/ UNCHANGED Outcome!vars
<1>1. ledger'[a] = row /\ \A b \in Actions \ {a} : ledger'[b] = ledger[b]
  BY DEF Inv, TypeOK
<1>2. CASE row.outcome = ledger[a].outcome
  BY <1>1, <1>2, Stutters DEF SameFace, SameMade
<1>3. CASE /\ ledger[a].outcome = None /\ row.outcome \in Outcomes
           /\ row.outcome = "done" /\ Kind(a) \in LlmKinds => "made" \in rows[a]
           /\ row.outcome = "refused" => calls[a] = 0 \/ "made" \in rows[a]
  BY <1>1, <1>3, Decides DEF SameFace, SameMade
<1>4. QED
  BY <1>2, <1>3

\* An open action that may be decided, and what it has spent
LEMMA OpenPaid ==
    ASSUME Inv, NEW a \in Actions, ledger[a].phase # "finished"
    PROVE  /\ ledger[a].outcome = None
           /\ calls[a] # 0 => Kind(a) \in FixKinds /\ ledger[a].phase \in {"dispatched", "fix_done"}
<1>1. ledger[a] \in LedgerRow /\ ActionInv(a)
  BY DEF Inv, TypeOK
<1>2. ledger[a].outcome = None
  BY OpenRow DEF Inv
<1>3. QED
  BY <1>1, <1>2 DEF ActionInv, PaidInv, LedgerRow

\* Decided by the tick
LEMMA TickDecides ==
    ASSUME Inv, Inv', NEW a \in Actions,
           Refuse(a) \/ HandleOverdue(a) \/ FinishInline(a) \/ Reopen(a) \/ RecoverSettles(a)
    PROVE  Outcome!Next \/ UNCHANGED Outcome!vars
<1> USE DEF sourceVars, reportVars, historyVars, boundVars
<1>1. \A o : Finished(ledger[a], o).outcome = o
  BY FinishedRow DEF Inv
<1>2. CASE Refuse(a)
  <2>1. ledger[a].phase = "reserved"
    BY <1>2 DEF Refuse, Claimed, Inv, TickInv
  <2>2. \A b \in Actions : SameTold(b)
    BY <1>2 DEF Refuse, Claimed, Inv, TypeOK, SameTold, Told
  <2>3. ledger' = [ledger EXCEPT ![a] = Finished(ledger[a], "refused")] /\ UNCHANGED <<asked, rows, calls>>
    BY <1>2 DEF Refuse
  <2>4. ledger[a].outcome = None /\ calls[a] = 0
    BY <2>1, OpenPaid
  <2>5. QED
    BY <1>1, <2>2, <2>3, <2>4, RowDecides DEF Outcomes
<1>3. CASE HandleOverdue(a)
  <2>1. /\ ledger' = [ledger EXCEPT ![a] = Finished(ledger[a], "timed_out")]
        /\ UNCHANGED <<asked, source, rows, calls>> /\ ledger[a].phase # "finished"
    BY <1>3 DEF HandleOverdue, Overdue, Authorized
  <2>2. QED
    BY <1>1, <2>1, OpenPaid, RowDecides DEF Outcomes, SameTold
<1>4. CASE FinishInline(a)
  <2>1. /\ ledger' = [ledger EXCEPT ![a] = Finished(ledger[a], tick.result)]
        /\ UNCHANGED <<asked, source, rows, calls>>
    BY <1>4 DEF FinishInline
  <2>2. Kind(a) \in InlineKinds /\ ledger[a].phase = "dispatched"
        /\ tick.result \in {"done", "failed", "refused"}
    BY <1>4 DEF FinishInline, Inv, TickInv
  <2>3. ledger[a].outcome = None /\ calls[a] = 0 /\ Kind(a) \notin LlmKinds
    BY <2>2, OpenPaid DEF InlineKinds, FixKinds, LlmKinds
  <2>4. QED
    BY <1>1, <2>1, <2>2, <2>3, RowDecides DEF Outcomes, SameTold
<1>5. CASE Reopen(a)
  <2>1. UNCHANGED <<asked, source, rows, calls>> /\ Kind(a) = "reopen"
    BY <1>5 DEF Reopen
  <2>2. ledger' = [ledger EXCEPT ![a] = Finished(ledger[a], "done")] \/ ledger' = ledger
    BY <1>5 DEF Reopen, ReopenedAtOnce
  <2>3. ledger[a].phase = "dispatched"
    BY <1>5 DEF Reopen, Inv, TickInv
  <2>4. ledger[a].outcome = None /\ Kind(a) \notin LlmKinds
    BY <2>1, <2>3, OpenPaid DEF FixKinds, LlmKinds
  <2>5. CASE ledger' = [ledger EXCEPT ![a] = Finished(ledger[a], "done")]
    BY <1>1, <2>1, <2>4, <2>5, RowDecides DEF Outcomes, SameTold
  <2>6. CASE ledger' = ledger
    BY <2>1, <2>6, Stutters DEF SameFace, SameTold, SameMade
  <2>7. QED
    BY <2>2, <2>5, <2>6
<1>6. CASE RecoverSettles(a)
  <2>1. UNCHANGED <<asked, source, rows, calls>> /\ ledger[a].phase \in Authorized
    BY <1>6 DEF RecoverSettles, Unproved, Unsettled, Recoverable
  <2>2. \/ /\ ledger' = [ledger EXCEPT ![a] = Finished(ledger[a], "refused")]
           /\ ledger[a].phase = "intent"
        \/ ledger' = [ledger EXCEPT ![a] = Finished(ledger[a], "failed")]
    BY <1>6 DEF RecoverSettles, Drained
  <2>3. ledger[a].outcome = None /\ ledger[a].phase = "intent" => calls[a] = 0
    BY <2>1, OpenPaid DEF Authorized
  <2>4. ledger[a].outcome = None
    BY <2>1, OpenPaid DEF Authorized
  <2>5. QED
    BY <1>1, <2>1, <2>2, <2>3, <2>4, RowDecides DEF Outcomes, SameTold
<1>7. QED
  BY <1>2, <1>3, <1>4, <1>5, <1>6

\* Decided by the rows the action left behind
LEMMA EvidenceDecides ==
    ASSUME Inv, Inv', NEW a \in Actions, RecoverEvidence(a)
    PROVE  Outcome!Next \/ UNCHANGED Outcome!vars
<1> USE DEF sourceVars, reportVars, historyVars, boundVars
<1>1. UNCHANGED <<asked, source, rows, calls>> /\ ledger[a].phase \in Authorized
  BY DEF RecoverEvidence, Unsettled, Recoverable
<1>2. ledger[a].outcome = None
  BY <1>1, OpenPaid DEF Authorized
<1>3. CASE ledger' = [ledger EXCEPT ![a] = Checkpoint(a)]
  <2>1. Checkpoint(a).outcome = ledger[a].outcome
    BY DEF Checkpoint, Inv, TypeOK, LedgerRow
  <2>2. QED
    BY <1>1, <1>3, <2>1, RowDecides DEF SameTold
<1>4. CASE /\ Evidence(a) # "fix_done" /\ Evidence(a) # None
           /\ ledger' = [ledger EXCEPT ![a] = Finished(ledger[a], Evidence(a))]
  <2>1. Evidence(a) = "failed" \/ (Evidence(a) = "done" /\ "made" \in rows[a])
    BY <1>4 DEF Evidence
  <2>2. Finished(ledger[a], Evidence(a)).outcome = Evidence(a)
    BY FinishedRow DEF Inv
  <2>3. QED
    BY <1>1, <1>2, <1>4, <2>1, <2>2, RowDecides DEF SameTold, Outcomes
<1>5. QED
  BY <1>3, <1>4 DEF RecoverEvidence

\* Decided by the task
LEMMA ExitDecides ==
    ASSUME Inv, Inv', NEW a \in Actions, Running(a), NEW row, KeptRow(a, row) \/ DecidedRow(a, row),
           UNCHANGED <<asked, source, rows, calls>>, Exits(a, row),
           row.outcome = "done" => (Kind(a) \in LlmKinds => "made" \in rows[a]),
           row.outcome = "refused" => calls[a] = 0 \/ "made" \in rows[a]
    PROVE  Outcome!Next \/ UNCHANGED Outcome!vars
<1>1. ledger' = [ledger EXCEPT ![a] = row]
  BY DEF Exits
<1>2. DecidedRow(a, row) => ledger[a].outcome = None /\ row.outcome \in Outcomes
  BY OpenPaid DEF DecidedRow, Authorized
<1>3. QED
  BY <1>1, <1>2, RowDecides DEF KeptRow, SameTold

LEMMA ReturnDecides ==
    ASSUME Inv, Inv', NEW a \in Actions, Return(a)
    PROVE  Outcome!Next \/ UNCHANGED Outcome!vars
<1> USE DEF sourceVars, reportVars, historyVars, boundVars
<1>1. /\ UNCHANGED <<asked, source, rows, calls>>
      /\ task[a].pc = "returned" /\ Running(a) /\ ActionInv(a) /\ TypeOK
  BY DEF Return, At, Running, Inv
<1>2. /\ task[a].result \in {"done", "failed", "refused", "fix_done"}
      /\ task[a].result \in {"done", "fix_done"} => "made" \in rows[a]
      /\ task[a].result = "refused" => calls[a] = 0
  BY <1>1 DEF ActionInv, MadeInv
<1>3. CASE Ended(a)
  <2>1. AnsweredRow(a) = Late(a, task[a].result) /\ task[a].result \in Outcomes \cup {"fix_done"}
    BY <1>2, <1>3 DEF AnsweredRow, Outcomes
  <2>2. /\ KeptRow(a, AnsweredRow(a)) \/ DecidedRow(a, AnsweredRow(a))
        /\ AnsweredRow(a).phase = "finished" /\ AnsweredRow(a).outcome = "timed_out"
    BY <1>1, <1>3, <2>1, LateExit
  <2>3. Exits(a, AnsweredRow(a))
    BY <2>2 DEF Return
  <2>4. QED
    BY <1>1, <2>2, <2>3, ExitDecides
<1>4. CASE ~Ended(a) /\ task[a].result # "fix_done"
  <2>1. AnsweredRow(a) = Finished(ledger[a], task[a].result) /\ task[a].result \in Outcomes
    BY <1>2, <1>4 DEF AnsweredRow, Outcomes
  <2>2. DecidedRow(a, AnsweredRow(a)) /\ AnsweredRow(a).outcome = task[a].result
    <3>1. Finished(ledger[a], task[a].result).outcome = task[a].result
      BY <1>1, FinishedRow
    <3>2. DecidedRow(a, Finished(ledger[a], task[a].result))
      BY <1>1, <1>4, <2>1, FinishExit
    <3>3. QED
      BY <2>1, <3>1, <3>2
  <2>3. Exits(a, AnsweredRow(a))
    BY <2>2 DEF Return, DecidedRow
  <2>4. QED
    BY <1>1, <1>2, <2>2, <2>3, ExitDecides
<1>5. CASE ~Ended(a) /\ task[a].result = "fix_done"
  <2>1. AnsweredRow(a) = Checkpoint(a) /\ Checkpoint(a).phase = "fix_done"
        /\ Checkpoint(a).outcome = ledger[a].outcome
    BY <1>1, <1>5 DEF AnsweredRow, Checkpoint, TypeOK, LedgerRow
  <2>2. ledger' = [ledger EXCEPT ![a] = Checkpoint(a)]
    BY <2>1 DEF Return
  <2>3. QED
    BY <1>1, <2>1, <2>2, RowDecides DEF SameTold
<1>6. QED
  BY <1>3, <1>4, <1>5

LEMMA PrDecides ==
    ASSUME Inv, Inv', NEW a \in Actions, StartPr(a) \/ PrAnswers(a)
    PROVE  Outcome!Next \/ UNCHANGED Outcome!vars
<1> USE DEF sourceVars, reportVars, historyVars, boundVars
<1>1. /\ UNCHANGED <<asked, source, rows, calls>>
      /\ task[a].pc \in {"prstart", "pr"} /\ Running(a) /\ ActionInv(a) /\ TypeOK
  BY DEF StartPr, PrAnswers, PrAnswered, At, Running, Inv
<1>2. Kind(a) \in LlmKinds => "made" \in rows[a]
  BY <1>1 DEF ActionInv, MadeInv, LlmKinds, FixKinds
<1>3. calls[a] = 0 \/ "made" \in rows[a]
  BY <1>1, <1>2 DEF ActionInv, PaidInv, LlmKinds, FixKinds
<1>4. CASE StartPr(a)
  <2>1. CASE ledger' = ledger
    BY <1>1, <2>1, Stutters DEF SameFace, SameTold, SameMade
  <2>2. CASE Exits(a, Expired[a]) /\ Overdue(a)
    <3>1. Expired[a] = Finished(ledger[a], "timed_out")
      BY <2>2 DEF Expired
    <3>2. DecidedRow(a, Expired[a])
      BY <1>1, <2>2, <3>1, FinishExit DEF Outcomes
    <3>3. QED
      BY <1>1, <1>2, <1>3, <2>2, <3>2, ExitDecides
  <2>3. CASE Exits(a, Expired[a]) /\ ~Overdue(a)
    <3>1. Expired[a] = ledger[a]
      BY <2>3 DEF Expired
    <3>2. QED
      BY <1>1, <1>2, <1>3, <2>3, <3>1, ExitDecides DEF KeptRow
  <2>4. QED
    BY <1>4, <2>1, <2>2, <2>3 DEF StartPr
<1>5. CASE PrAnswers(a)
  <2>1. PICK o \in {"done", "refused", "failed", "pr_pending"}, n \in {ledger[a].attempts, ledger[a].attempts + 1} :
          PrAnswered(a, o, n)
    BY <1>5 DEF PrAnswers, PrFailure
  <2>2. CASE Ended(a)
    <3>1. KeptRow(a, Late(a, o)) \/ DecidedRow(a, Late(a, o))
      BY <1>1, <2>2, LateExit DEF Outcomes
    <3>2. QED
      BY <1>1, <1>2, <1>3, <2>1, <2>2, <3>1, ExitDecides DEF PrAnswered
  <2>3. CASE ~Ended(a) /\ o = "pr_pending"
    <3> DEFINE row == [ledger[a] EXCEPT !.attempts = n]
    <3>1. KeptRow(a, row)
      BY <1>1 DEF KeptRow, TypeOK, LedgerRow
    <3>2. Exits(a, row)
      BY <2>1, <2>3 DEF PrAnswered
    <3> HIDE DEF row
    <3>3. QED
      BY <1>1, <1>2, <1>3, <3>1, <3>2, ExitDecides
  <2>4. CASE ~Ended(a) /\ o # "pr_pending"
    <3>1. o \in Outcomes
      BY <2>4 DEF Outcomes
    <3>2. DecidedRow(a, Finished(ledger[a], o))
      BY <1>1, <2>4, <3>1, FinishExit
    <3>3. Exits(a, Finished(ledger[a], o))
      BY <2>1, <2>4 DEF PrAnswered
    <3>4. QED
      BY <1>1, <1>2, <1>3, <3>2, <3>3, ExitDecides
  <2>5. QED
    BY <2>2, <2>3, <2>4
<1>6. QED
  BY <1>4, <1>5

\* The model call, its answer, and the steps around them
LEMMA WorkSteps ==
    ASSUME Inv, Inv', NEW a \in Actions, Works(a)
    PROVE  Outcome!Next \/ UNCHANGED Outcome!vars
<1> USE DEF sourceVars, reportVars, historyVars, boundVars
<1>1. UNCHANGED <<asked, source, ledger>> /\ Running(a) /\ task[a].pc \notin {"prstart", "pr"}
  BY WorksFrame
<1>2. /\ calls \in [Actions -> Nat] /\ rows \in [Actions -> SUBSET {"made", "failed"}]
      /\ \A b \in Actions : SameTold(b) /\ ledger'[b].outcome = ledger[b].outcome
  BY <1>1 DEF Inv, TypeOK, SameTold
<1>3. \/ calls' = calls /\ rows' = rows
      \/ calls' = calls /\ rows' = [rows EXCEPT ![a] = rows[a] \cup {"failed"}]
      \/ calls' = calls /\ rows' = [rows EXCEPT ![a] = rows[a] \cup {"made"}]
      \/ rows' = rows /\ task[a].pc = "stage" /\ calls' = [calls EXCEPT ![a] = calls[a] + 1]
  BY DEF Works, RequestKey, KeyRefused, ClaimFix, NotRun, FixDeclined, CallFixModel,
         FixAnswered, StartLocal, TriageAnswered, ClaimLocalization,
         LocalizationDeclined, CallLocalModel, LocalAnswered, Tagged, At
<1>4. CASE calls' = calls /\ \A b \in Actions : SameMade(b)
  BY <1>1, <1>2, <1>4, Stutters DEF SameFace
<1>5. CASE calls' = calls /\ rows' = [rows EXCEPT ![a] = rows[a] \cup {"made"}]
  <2>1. \A b \in Actions \ {a} : SameMade(b)
    BY <1>2, <1>5 DEF SameMade
  <2>2. "made" \in rows'[a]
    BY <1>2, <1>5
  <2>3. CASE "made" \in rows[a]
    <3>1. rows'[a] = rows[a]
      BY <1>2, <1>5, <2>3
    <3>2. SameMade(a)
      BY <3>1 DEF SameMade
    <3>3. QED
      BY <1>4, <1>5, <2>1, <3>2
  <2>4. CASE "made" \notin rows[a]
    BY <1>1, <1>2, <1>5, <2>1, <2>2, <2>4, Makes
  <2>5. QED
    BY <2>3, <2>4
<1>6. CASE rows' = rows /\ task[a].pc = "stage" /\ calls' = [calls EXCEPT ![a] = calls[a] + 1]
  <2>1. calls[a] = 0
    BY <1>6 DEF Inv, ActionInv, PaidInv
  <2>2. calls' = [calls EXCEPT ![a] = 1]
    BY <1>6, <2>1
  <2>3. QED
    BY <1>1, <1>2, <1>6, <2>1, <2>2, Spends DEF SameMade
<1>7. CASE calls' = calls /\ rows' = rows
  BY <1>4, <1>7 DEF SameMade
<1>8. CASE calls' = calls /\ rows' = [rows EXCEPT ![a] = rows[a] \cup {"failed"}]
  <2>1. \A b \in Actions : SameMade(b)
    BY <1>2, <1>8 DEF SameMade
  <2>2. QED
    BY <1>4, <1>8, <2>1
<1>9. QED
  BY <1>3, <1>5, <1>6, <1>7, <1>8

-----------------------------------------------------------------------------
(* The refinement. *)

LEMMA InitPromises == Init => Outcome!Init
<1> SUFFICES ASSUME Init PROVE Outcome!Init
  OBVIOUS
<1>1. \A a \in Actions : /\ ledger[a].outcome = None /\ source[a] = "pending" /\ rows[a] = {}
  BY DEF Init, NoRow
<1>2. Posted(None) = None
  BY TriageAssumption DEF Posted
<1>3. worksBar \in [Actions -> BOOLEAN]
  <2>1. \A a \in Actions : (Kind(a) \in LlmKinds) \in BOOLEAN
    OBVIOUS
  <2>2. QED
    BY <2>1, Zenon DEF worksBar
<1>4. outcomeBar = [a \in Actions |-> None]
  BY <1>1, <1>2 DEF outcomeBar
<1>5. toldBar = [a \in Actions |-> None]
  BY <1>1 DEF toldBar, Told
<1>6. madeBar = [a \in Actions |-> FALSE]
  <2>1. \A a \in Actions : ("made" \in rows[a]) = FALSE
    BY <1>1
  <2>2. QED
    BY <2>1, Zenon DEF madeBar
<1>7. calls = [a \in Actions |-> 0]
  BY DEF Init
<1>8. QED
  BY <1>3, <1>4, <1>5, <1>6, <1>7 DEF Outcome!Init, worksBar, outcomeBar, toldBar, madeBar

LEMMA StepPromises ==
    ASSUME Inv, [Next]_vars
    PROVE  [Outcome!Next]_(Outcome!vars)
<1>1. Inv'
  BY NextInv
<1> SUFFICES Outcome!Next \/ UNCHANGED Outcome!vars
  OBVIOUS
<1>2. CASE TickStep
  BY <1>1, <1>2, QuietSteps, SweepSteps, TellSteps, TickDecides, EvidenceDecides DEF TickStep
<1>3. CASE \E a \in Actions : TaskStep(a)
  <2>1. PICK a \in Actions : TaskStep(a)
    BY <1>3
  <2>2. Works(a) \/ Return(a) \/ StartPr(a) \/ PrAnswers(a)
    BY <2>1 DEF TaskStep, Works
  <2>3. QED
    BY <1>1, <2>2, WorkSteps, ReturnDecides, PrDecides
<1>4. CASE Fault
  BY <1>1, <1>4, QuietSteps, TellSteps DEF Fault
<1>5. CASE World \/ UNCHANGED vars
  BY <1>1, <1>5, QuietSteps
<1>6. QED
  BY <1>2, <1>3, <1>4, <1>5 DEF Next

\* Whatever crashes, lost answers and passed bounds, sonicgrid sees each action
\* decided once, told as decided, paid for at most once, `done` only with the
\* work made, and `refused` only when nothing was spent without a result.
THEOREM SyncImplementsOutcome == Spec => ImplementsOutcome
<1>1. Init => Outcome!Init
  BY InitPromises
<1>2. Inv /\ [Next]_vars => [Outcome!Next]_(Outcome!vars)
  BY StepPromises
<1>3. QED
  BY <1>1, <1>2, Invariant, PTL DEF Spec, ImplementsOutcome, Outcome!Spec
=============================================================================
