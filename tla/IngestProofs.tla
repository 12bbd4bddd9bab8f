---------------------------- MODULE IngestProofs ----------------------------
(***************************************************************************)
(* Theorems about Ingest, for every source, page size, setting and bound:  *)
(* its types; and, as long as PATCH requests do not overlap, the           *)
(* generation fence of db.ingest_commit and what the forward walk and the  *)
(* re-walk have imported when their cursors have passed.                   *)
(***************************************************************************)
EXTENDS Ingest, NaturalLemmas, FiniteSetTheorems, TLAPS

-----------------------------------------------------------------------------
(* Cursors: the last report of a page exists. *)

\* The position of a page's last report is a position of the source.
LEMMA LastIsAnId ==
    ASSUME NEW page \in SUBSET Ids, page # {}
    PROVE  Max(page) \in page
<1> DEFINE Gaps == {N - i : i \in page}
<1>1. Gaps \subseteq Nat /\ Gaps # {}
  <2>1. N \in Nat /\ \A i \in page : i \in 1 .. N
    BY IngestAssumption DEF Ids
  <2>2. \A i \in page : N - i \in Nat
    BY <2>1
  <2>3. QED
    BY <2>2
<1>2. PICK g \in Gaps : \A h \in Gaps : g <= h
  BY <1>1, LeastNatural
<1>3. PICK i \in page : g = N - i
  OBVIOUS
<1>4. ASSUME NEW j \in page
      PROVE  i >= j
  <2>1. g <= N - j
    BY <1>2
  <2>2. i \in Nat /\ j \in Nat /\ N \in Nat
    BY IngestAssumption DEF Ids
  <2>3. QED
    BY <1>3, <2>1, <2>2
<1>5. QED
  BY <1>4 DEF Max

-----------------------------------------------------------------------------
(* The invariant. *)

\* The part of the type invariant that the fence needs: the backoff is left out.
PollRecord == [at: {"idle", "waiting", "forward", "forwardPage", "forwardClear", "rewalk",
                    "rewalkStart", "again", "againPage", "againClear", "finish", "ending"},
               full: BOOLEAN, gen: Nat, config: Configs \cup {NoConfig}, cursor: 0 .. N,
               page: SUBSET Ids, left: Int, error: {"none", "error", "internal", "lost"}]
Typed ==
    /\ project \in [here: BOOLEAN, config: Configs \cup {NoConfig}, gen: Nat]
    /\ st \in State \cup {NoState}
    /\ rows \in [Ids -> Import \cup {NoRow}]
    /\ open \in [Configs -> SUBSET Ids]
    /\ poll \in [Pollers -> PollRecord]
    /\ patch \in [Patchers -> Patch]

Begun(p) == poll[p].at \notin {"idle", "waiting"}

\* A poll works under a generation that was the project's, and as long as it
\* still is, the configuration is the one the poll read.
PollsCurrent ==
    \A p \in Pollers : Begun(p) =>
        /\ poll[p].config \in Configs
        /\ poll[p].gen <= project.gen
        /\ poll[p].gen = project.gen => poll[p].config = project.config

\* A PATCH that found nothing to change still finds nothing when it writes.
PatchesCurrent ==
    \A x \in Patchers : patch[x].at = "read" /\ ~patch[x].changed =>
        patch[x].new = project.config

FenceInv == Typed /\ PollsCurrent /\ PatchesCurrent /\ CheckpointIsCurrent

LEMMA InitFence == Init => FenceInv
<1> SUFFICES ASSUME Init PROVE FenceInv
  OBVIOUS
<1>1. NoPoll \in PollRecord
  BY IngestAssumption DEF NoPoll, PollRecord
<1>2. NoPatch \in Patch
  BY DEF NoPatch, Patch
<1>3. Typed
  <2>1. /\ project \in [here: BOOLEAN, config: Configs \cup {NoConfig}, gen: Nat]
        /\ st \in State \cup {NoState}
    <3>1. project \in [here: {TRUE}, config: Configs, gen: {0}] /\ st = NoState
      BY DEF Init
    <3>2. {TRUE} \subseteq BOOLEAN /\ {0} \subseteq Nat
      OBVIOUS
    <3>3. project \in [here: BOOLEAN, config: Configs \cup {NoConfig}, gen: Nat]
      BY <3>1, <3>2, Zenon
    <3>4. QED
      BY <3>1, <3>3
  <2>2. /\ rows \in [Ids -> Import \cup {NoRow}]
        /\ open \in [Configs -> SUBSET Ids]
    BY DEF Init
  <2>3. poll \in [Pollers -> PollRecord] /\ patch \in [Patchers -> Patch]
    BY <1>1, <1>2 DEF Init
  <2>4. QED
    BY <2>1, <2>2, <2>3 DEF Typed
<1>4. PollsCurrent
  BY DEF Init, PollsCurrent, Begun, NoPoll
<1>5. PatchesCurrent
  BY DEF Init, PatchesCurrent, NoPatch
<1>6. QED
  BY <1>3, <1>4, <1>5 DEF FenceInv, Init, CheckpointIsCurrent

\* What a transaction that passes the fence updates is the checkpoint of the
\* present configuration.
LEMMA StoredIsCurrent ==
    ASSUME FenceInv, NEW p \in Pollers, Begun(p), Fenced(p)
    PROVE  /\ Stored(p) \in State
           /\ Stored(p).gen = project.gen /\ Stored(p).of = project.config
<1>1. CASE st = NoState \/ st.gen # poll[p].gen
  <2>1. Stored(p) = NewState(p)
    BY <1>1 DEF Stored
  <2>2. poll[p].gen \in Nat /\ 0 \in 0 .. N
    BY IngestAssumption DEF FenceInv, Typed, PollRecord
  <2>3. QED
    BY <2>1, <2>2 DEF NewState, State, FenceInv, PollsCurrent, Fenced
<1>2. CASE st # NoState /\ st.gen = poll[p].gen
  BY <1>2 DEF Stored, FenceInv, Typed, CheckpointIsCurrent
<1>3. QED
  BY <1>1, <1>2

\* The page of a poll moves its cursor to a position of the source.
LEMMA NextCursorIsAPosition ==
    ASSUME Typed, NEW p \in Pollers, NEW old \in 0 .. N
    PROVE  NextCursor(p, old) \in 0 .. N
<1>1. poll[p].page \in SUBSET Ids
  BY DEF Typed, PollRecord
<1>2. CASE poll[p].page = {}
  BY <1>2 DEF NextCursor
<1>3. CASE poll[p].page # {}
  <2>1. Max(poll[p].page) \in 1 .. N
    BY <1>1, <1>3, LastIsAnId DEF Ids
  <2>2. QED
    BY <1>3, <2>1, IngestAssumption DEF NextCursor
<1>4. QED
  BY <1>2, <1>3

\* A new checkpoint differs from the stored one in its walks only.
LEMMA WrittenStates ==
    ASSUME FenceInv, NEW p \in Pollers, Begun(p), Fenced(p),
           NEW s \in {ForwardState(p), [Stored(p) EXCEPT !.cursor = 0], StartState(p),
                      AgainState(p), [Stored(p) EXCEPT !.rewalk = 0],
                      [Stored(p) EXCEPT !.failures = IF poll[p].error = "none" THEN 0 ELSE @ + 1]}
    PROVE  s \in State /\ s.gen = project.gen /\ s.of = project.config
<1> DEFINE d == Stored(p)
<1>1. d \in State /\ d.gen = project.gen /\ d.of = project.config
  BY StoredIsCurrent
<1>2. d.cursor \in 0 .. N /\ d.rewalk \in 0 .. N /\ d.failures \in Nat
  BY <1>1 DEF State
<1>3. NextCursor(p, d.cursor) \in 0 .. N /\ NextCursor(p, d.rewalk) \in 0 .. N
  BY <1>2, NextCursorIsAPosition DEF FenceInv
<1>4. 0 \in 0 .. N
  BY IngestAssumption
<1> HIDE DEF d
<1>5. CASE s = ForwardState(p)
  BY <1>1, <1>3, <1>5 DEF ForwardState, State, d
<1>6. CASE s = [Stored(p) EXCEPT !.cursor = 0]
  BY <1>1, <1>4, <1>6 DEF State, d
<1>7. CASE s = StartState(p)
  BY <1>1, <1>4, <1>7 DEF StartState, State, d
<1>8. CASE s = AgainState(p)
  BY <1>1, <1>3, <1>4, <1>8 DEF AgainState, State, d
<1>9. CASE s = [Stored(p) EXCEPT !.rewalk = 0]
  BY <1>1, <1>4, <1>9 DEF State, d
<1>10. CASE s = [Stored(p) EXCEPT !.failures = IF poll[p].error = "none" THEN 0 ELSE @ + 1]
  BY <1>1, <1>2, <1>10 DEF State, d
<1>11. QED
  BY <1>5, <1>6, <1>7, <1>8, <1>9, <1>10

\* Imports keep the type of the rows.
LEMMA ImportedTyped ==
    ASSUME FenceInv, NEW p \in Pollers, Begun(p)
    PROVE  Imported(p) \in [Ids -> Import \cup {NoRow}]
<1>1. [from |-> poll[p].config, live |-> TRUE, analysed |-> FALSE] \in Import
  BY DEF FenceInv, PollsCurrent, Import
<1>2. QED
  BY <1>1 DEF Imported, FenceInv, Typed

-----------------------------------------------------------------------------
(* The steps of a poll. *)

\* A poll's coroutine moves on under the generation and configuration it read.
Moves(p) ==
    /\ UNCHANGED <<project, patch>>
    /\ poll' \in [Pollers -> PollRecord]
    /\ \A q \in Pollers \ {p} : poll'[q] = poll[q]
    /\ Begun(p)' => Begun(p) /\ poll'[p].gen = poll[p].gen /\ poll'[p].config = poll[p].config

\* Such a move keeps polls and patches current.
LEMMA MovesKeep ==
    ASSUME FenceInv, NEW p \in Pollers, Moves(p)
    PROVE  PollsCurrent' /\ PatchesCurrent'
<1>1. PatchesCurrent'
  BY DEF FenceInv, PatchesCurrent, Moves
<1>2. ASSUME NEW q \in Pollers, Begun(q)'
      PROVE  /\ poll'[q].config \in Configs
             /\ poll'[q].gen <= project'.gen
             /\ poll'[q].gen = project'.gen => poll'[q].config = project'.config
  <2>1. CASE q = p
    BY <1>2, <2>1 DEF Moves, FenceInv, PollsCurrent
  <2>2. CASE q # p
    <3>1. poll'[q] = poll[q] /\ Begun(q)
      BY <1>2, <2>2 DEF Moves, Begun
    <3>2. QED
      BY <3>1 DEF Moves, FenceInv, PollsCurrent
  <2>3. QED
    BY <2>1, <2>2
<1>3. QED
  BY <1>1, <1>2 DEF PollsCurrent

\* Each step of a coroutine moves it so, and writes what WrittenStates allows.
LEMMA StepFence ==
    ASSUME FenceInv, NEW p \in Pollers, Step(p) \/ Raises(p)
    PROVE  FenceInv'
<1> USE DEF pollVars, histVars, boundVars, threadVars
<1>1. /\ poll \in [Pollers -> PollRecord] /\ poll[p] \in PollRecord
      /\ poll[p].cursor \in 0 .. N /\ 0 \in 0 .. N
      /\ NextCursor(p, poll[p].cursor) \in 0 .. N
  <2>1. poll \in [Pollers -> PollRecord] /\ poll[p] \in PollRecord /\ Typed
    BY DEF FenceInv, Typed
  <2>2. poll[p].cursor \in 0 .. N /\ 0 \in 0 .. N
    BY <2>1, IngestAssumption DEF PollRecord
  <2>3. QED
    BY <2>1, <2>2, NextCursorIsAPosition
<1>2. NoPoll \in PollRecord /\ NoPoll.at = "idle"
  BY IngestAssumption DEF NoPoll, PollRecord
<1>3. SUFFICES Moves(p) /\ Typed' /\ CheckpointIsCurrent'
  BY MovesKeep DEF FenceInv
<1>4. ASSUME NEW state \in {ForwardState(p), [Stored(p) EXCEPT !.cursor = 0], StartState(p),
                 AgainState(p), [Stored(p) EXCEPT !.rewalk = 0],
                 [Stored(p) EXCEPT !.failures = IF poll[p].error = "none" THEN 0 ELSE @ + 1]},
             NEW reports \in {rows, Imported(p)},
             Begun(p), Commits(p, state, reports), Moves(p)
      PROVE  Moves(p) /\ Typed' /\ CheckpointIsCurrent'
  <2>1. state \in State /\ state.gen = project.gen /\ state.of = project.config
    BY <1>4, WrittenStates DEF Commits
  <2>2. reports \in [Ids -> Import \cup {NoRow}]
    BY <1>4, ImportedTyped DEF FenceInv, Typed
  <2>3. QED
    BY <1>4, <2>1, <2>2 DEF Commits, Moves, FenceInv, Typed, CheckpointIsCurrent, Fenced,
                            Configured
<1>5. ASSUME Moves(p), UNCHANGED <<project, st, rows, open>>
      PROVE  Moves(p) /\ Typed' /\ CheckpointIsCurrent'
  BY <1>5 DEF Moves, FenceInv, Typed, CheckpointIsCurrent
<1>6. CASE Fetch(p)
  <2>1. poll[p].at \in Walks => poll[p].config \in Configs
    BY DEF Walks, FenceInv, PollsCurrent, Begun
  <2>2. PageAfter(open[poll[p].config], poll[p].cursor) \in SUBSET Ids
    BY <1>6, <2>1 DEF Fetch, PageAfter, FenceInv, Typed
  <2>3. Moves(p)
    BY <1>1, <1>6, <2>2 DEF Fetch, Moves, Walks, PageOf, Begun, PollRecord
  <2>4. QED
    BY <1>5, <1>6, <2>3 DEF Fetch
<1>7. CASE Fence(p) \/ End(p)
  <2>1. Moves(p)
    BY <1>1, <1>2, <1>7 DEF Fence, End, Ends, Moves, Begun
  <2>2. QED
    BY <1>5, <1>7, <2>1 DEF Fence, End
<1>8. CASE ForwardPage(p)
  <2> DEFINE new == [poll[p] EXCEPT !.page = {}, !.left = poll[p].left - 1,
                        !.cursor = NextCursor(p, poll[p].cursor), !.at = poll'[p].at]
  <2>0. poll[p].left - 1 \in Int /\ {} \in SUBSET Ids
    BY <1>1 DEF PollRecord
  <2>3. poll' = [poll EXCEPT ![p] = new] /\ poll'[p].at \in {"rewalk", "forward"}
    BY <1>1, <1>8 DEF ForwardPage, PollRecord
  <2>4. new \in PollRecord /\ new.gen = poll[p].gen /\ new.config = poll[p].config
    BY <1>1, <2>0, <2>3 DEF PollRecord
  <2> HIDE DEF new
  <2>1. Begun(p) /\ Moves(p)
    BY <1>1, <1>8, <2>3, <2>4 DEF ForwardPage, Commits, Moves, Begun
  <2>2. QED
    BY <1>4, <1>8, <2>1 DEF ForwardPage
<1>9. CASE ForwardClear(p) \/ AgainClear(p) \/ Finish(p)
  <2>1. Begun(p) /\ Moves(p)
    BY <1>1, <1>9 DEF ForwardClear, AgainClear, Finish, Commits, Moves, Begun, PollRecord
  <2>2. QED
    BY <1>4, <1>9, <2>1 DEF ForwardClear, AgainClear, Finish
<1>10. CASE Rewalk(p)
  <2>1. st # NoState => st.rewalk \in 0 .. N
    BY DEF FenceInv, Typed, State
  <2>2. RewalkPages \in Int
    BY IngestAssumption
  <2>3. Moves(p)
    BY <1>1, <1>10, <2>1, <2>2 DEF Rewalk, Moves, Begun, PollRecord
  <2>4. QED
    BY <1>5, <1>10, <2>3 DEF Rewalk
<1>11. CASE RewalkStart(p)
  <2>1. Begun(p) /\ Moves(p)
    BY <1>1, <1>11 DEF RewalkStart, Commits, Moves, Begun, PollRecord
  <2>2. QED
    BY <1>4, <1>11, <2>1 DEF RewalkStart
<1>12. CASE AgainPage(p)
  <2> DEFINE new == [poll[p] EXCEPT !.page = {}, !.left = poll[p].left - 1,
                        !.cursor = NextCursor(p, poll[p].cursor), !.at = poll'[p].at]
  <2>0. poll[p].left - 1 \in Int /\ {} \in SUBSET Ids
    BY <1>1 DEF PollRecord
  <2>3. poll' = [poll EXCEPT ![p] = new] /\ poll'[p].at \in {"finish", "again"}
    BY <1>1, <1>12 DEF AgainPage, PollRecord
  <2>4. new \in PollRecord /\ new.gen = poll[p].gen /\ new.config = poll[p].config
    BY <1>1, <2>0, <2>3 DEF PollRecord
  <2> HIDE DEF new
  <2>1. Begun(p) /\ Moves(p)
    BY <1>1, <1>12, <2>3, <2>4 DEF AgainPage, Commits, Moves, Begun
  <2>2. QED
    BY <1>4, <1>12, <2>1 DEF AgainPage
<1>13. CASE Raises(p)
  <2>1. Moves(p)
    BY <1>1, <1>13 DEF Raises, Moves, Begun, PollRecord
  <2>2. QED
    BY <1>5, <1>13, <2>1 DEF Raises
<1>14. QED
  BY <1>6, <1>7, <1>8, <1>9, <1>10, <1>11, <1>12, <1>13 DEF Step

\* A poll that is asked for, enters or fails to: it reads what is current.
LEMMA EntryFence ==
    ASSUME FenceInv, NEW p \in Pollers,
           \/ \E full \in BOOLEAN : Ask(p, full)
           \/ Enter(p) \/ EnterWithoutCredential(p) \/ EnterUnconfigured(p)
           \/ \E badCursor \in BOOLEAN : FetchFails(p, badCursor)
    PROVE  FenceInv'
<1> USE DEF histVars, boundVars, threadVars
<1>1. /\ poll \in [Pollers -> PollRecord] /\ poll[p] \in PollRecord
      /\ project.config \in Configs \cup {NoConfig} /\ project.gen \in Nat
      /\ st # NoState => st.cursor \in 0 .. N
  BY DEF FenceInv, Typed, State
<1>2. NoPoll \in PollRecord /\ NoPoll.at = "idle" /\ 0 \in 0 .. N /\ MaxPages \in Int
  BY IngestAssumption DEF NoPoll, PollRecord
<1>3. UNCHANGED <<project, st, rows, open, patch>>
  BY DEF Ask, Enter, EnterWithoutCredential, EnterUnconfigured, FetchFails
<1>4. ASSUME poll' \in [Pollers -> PollRecord], PollsCurrent'
      PROVE  FenceInv'
  BY <1>3, <1>4 DEF FenceInv, Typed, PatchesCurrent, CheckpointIsCurrent
<1>5. ASSUME NEW full \in BOOLEAN, Ask(p, full)
      PROVE  FenceInv'
  <2>1. [NoPoll EXCEPT !.at = "waiting", !.full = full] \in PollRecord
    BY <1>2 DEF PollRecord
  <2>2. Moves(p)
    BY <1>1, <1>3, <1>5, <2>1 DEF Ask, Moves, Begun, NoPoll
  <2>3. QED
    BY <1>4, <2>2, MovesKeep DEF Moves
<1>6. CASE Enter(p) \/ EnterWithoutCredential(p)
  <2>1. /\ poll' \in [Pollers -> PollRecord]
        /\ poll'[p].gen = project.gen /\ poll'[p].config = project.config
        /\ \A q \in Pollers \ {p} : poll'[q] = poll[q]
        /\ project.config \in Configs
    <3>1. CASE Enter(p)
      BY <1>1, <1>2, <3>1 DEF Enter, PollRecord, Configured
    <3>2. CASE EnterWithoutCredential(p)
      BY <1>1, <1>2, <3>2 DEF EnterWithoutCredential, PollRecord, Configured
    <3>3. QED
      BY <1>6, <3>1, <3>2
  <2>2. PollsCurrent'
    BY <1>1, <1>3, <2>1 DEF FenceInv, PollsCurrent, Begun
  <2>3. QED
    BY <1>4, <2>1, <2>2
<1>7. CASE EnterUnconfigured(p)
  <2>1. Moves(p)
    BY <1>1, <1>2, <1>3, <1>7 DEF EnterUnconfigured, Ends, Moves, Begun
  <2>2. QED
    BY <1>4, <2>1, MovesKeep DEF Moves
<1>8. ASSUME NEW badCursor \in BOOLEAN, FetchFails(p, badCursor)
      PROVE  FenceInv'
  <2>1. Moves(p)
    BY <1>1, <1>3, <1>8 DEF FetchFails, Walks, ClearOf, Moves, Begun, PollRecord
  <2>2. QED
    BY <1>4, <2>1, MovesKeep DEF Moves
<1>9. QED
  BY <1>5, <1>6, <1>7, <1>8

-----------------------------------------------------------------------------
(* The other requests, the source, time and the process. *)

\* Reading the row for a PATCH leaves the comparison's result with it.
LEMMA PatchReadsFence ==
    ASSUME FenceInv, NEW x \in Patchers, NEW new \in Configs \cup {NoConfig}, PatchReads(x, new)
    PROVE  FenceInv'
<1>1. [at |-> "read", new |-> new, changed |-> new # project.config] \in Patch
  BY DEF Patch
<1>2. UNCHANGED <<project, st, rows, open, poll>>
  BY DEF PatchReads, pollVars
<1>3. patch' \in [Patchers -> Patch]
  BY <1>1 DEF PatchReads, FenceInv, Typed
<1>4. PatchesCurrent'
  BY <1>2 DEF PatchReads, FenceInv, Typed, PatchesCurrent
<1>5. QED
  BY <1>2, <1>3, <1>4 DEF FenceInv, Typed, PollsCurrent, Begun, CheckpointIsCurrent

\* A PATCH that changes the pair ends the generation of every poll; one that
\* does not writes the configuration that is there, if no other is under way.
LEMMA PatchWritesFence ==
    ASSUME FenceInv, NEW x \in Patchers, PatchWrites(x), \A y \in Patchers : y = x
    PROVE  FenceInv'
<1>1. UNCHANGED <<rows, open, poll>>
  BY DEF PatchWrites, pollVars
<1>2. NoPatch \in Patch /\ NoPatch.at = "idle"
  BY DEF NoPatch, Patch
<1>3. patch' \in [Patchers -> Patch] /\ PatchesCurrent'
  BY <1>2 DEF PatchWrites, FenceInv, Typed, PatchesCurrent
<1>4. CASE UNCHANGED <<project, st>>
  BY <1>1, <1>3, <1>4 DEF FenceInv, Typed, PollsCurrent, Begun, CheckpointIsCurrent
<1>5. CASE /\ project' = [project EXCEPT !.config = patch[x].new,
                              !.gen = IF patch[x].changed THEN @ + 1 ELSE @]
           /\ IF patch[x].changed THEN Reset ELSE UNCHANGED <<st, histVars>>
  <2>1. /\ patch[x].new \in Configs \cup {NoConfig}
        /\ project \in [here: BOOLEAN, config: Configs \cup {NoConfig}, gen: Nat]
    BY DEF FenceInv, Typed, Patch
  <2>2. CASE patch[x].changed
    <3>1. /\ project' = [project EXCEPT !.config = patch[x].new, !.gen = project.gen + 1]
          /\ st' = NoState
      BY <1>5, <2>2 DEF Reset
    <3>2. PollsCurrent'
      BY <1>1, <2>1, <3>1 DEF FenceInv, Typed, PollRecord, PollsCurrent, Begun
    <3>3. project' \in [here: BOOLEAN, config: Configs \cup {NoConfig}, gen: Nat]
      <4>1. project.gen + 1 \in Nat
        BY <2>1
      <4>2. QED
        BY <2>1, <3>1, <4>1, Zenon
    <3>4. QED
      BY <1>1, <1>3, <3>1, <3>2, <3>3 DEF FenceInv, Typed, CheckpointIsCurrent
  <2>3. CASE ~patch[x].changed
    <3>1. patch[x].new = project.config
      BY <2>3 DEF FenceInv, PatchesCurrent, PatchWrites
    <3>2. project' = project /\ st' = st
      BY <1>5, <2>1, <2>3, <3>1
    <3>3. QED
      BY <1>4, <3>2
  <2>4. QED
    BY <2>2, <2>3
<1>6. QED
  BY <1>4, <1>5 DEF PatchWrites

\* What leaves polls, patches and the configuration alone keeps the invariant
\* if it only drops the checkpoint or changes its clock.
LEMMA OtherFence ==
    ASSUME FenceInv,
           \/ SkipTick \/ IntervalPasses
           \/ \E c \in Configs : \E i \in Ids : Opens(c, i) \/ Resolves(c, i)
           \/ \E i \in Analysable : Analyse(i)
           \/ \E i \in Ids : DeleteReport(i)
           \/ DeleteChecks \/ DeleteWrites \/ ThreadReused \/ Crash
    PROVE  FenceInv'
<1> USE DEF pollVars, histVars, boundVars, threadVars
<1>1. ASSUME UNCHANGED <<project, poll, patch>>, open' \in [Configs -> SUBSET Ids],
             rows' \in [Ids -> Import \cup {NoRow}], st' \in {st, NoState}
      PROVE  FenceInv'
  BY <1>1 DEF FenceInv, Typed, PollsCurrent, Begun, PatchesCurrent, CheckpointIsCurrent
<1>2. /\ open \in [Configs -> SUBSET Ids] /\ rows \in [Ids -> Import \cup {NoRow}]
      /\ st \in State \cup {NoState}
  BY DEF FenceInv, Typed
<1>3. CASE SkipTick \/ DeleteChecks
  BY <1>1, <1>2, <1>3 DEF SkipTick, DeleteChecks
<1>4. CASE IntervalPasses
  <2>1. UNCHANGED <<project, poll, patch, open, rows>>
    BY <1>4 DEF IntervalPasses
  <2>2. st # NoState /\ st' \in State /\ st'.gen = st.gen /\ st'.of = st.of
    BY <1>2, <1>4 DEF IntervalPasses, State
  <2>3. QED
    BY <2>1, <2>2 DEF FenceInv, Typed, PollsCurrent, Begun, PatchesCurrent, CheckpointIsCurrent
<1>5. CASE \E c \in Configs : \E i \in Ids : Opens(c, i) \/ Resolves(c, i)
  BY <1>1, <1>2, <1>5 DEF Opens, Resolves
<1>6. CASE \E i \in Analysable : Analyse(i)
  <2>1. PICK i \in Analysable : Analyse(i)
    BY <1>6
  <2>2. i \in Ids /\ rows[i] \in Import
    BY <1>2, <2>1 DEF Analyse, Live
  <2>3. [rows[i] EXCEPT !.analysed = TRUE] \in Import
    BY <2>2 DEF Import
  <2>4. rows' \in [Ids -> Import \cup {NoRow}]
    BY <1>2, <2>1, <2>2, <2>3 DEF Analyse
  <2>5. QED
    BY <1>1, <1>2, <2>1, <2>4 DEF Analyse
<1>7. CASE \E i \in Ids : DeleteReport(i)
  <2>1. PICK i \in Ids : DeleteReport(i)
    BY <1>7
  <2>2. rows[i] \in Import
    BY <1>2, <2>1 DEF DeleteReport, Live
  <2>3. [rows[i] EXCEPT !.live = FALSE] \in Import
    BY <2>2 DEF Import
  <2>4. rows' \in [Ids -> Import \cup {NoRow}]
    BY <1>2, <2>1, <2>2, <2>3 DEF DeleteReport
  <2>5. QED
    BY <1>1, <1>2, <2>1, <2>4 DEF DeleteReport
<1>8. ASSUME Purge
      PROVE  rows' \in [Ids -> Import \cup {NoRow}] /\ st' = NoState
  BY <1>2, <1>8 DEF Purge
<1>9. CASE DeleteWrites
  <2>1. UNCHANGED <<poll, patch, open>>
    BY <1>9 DEF DeleteWrites
  <2>2. CASE UNCHANGED <<project, st, rows>>
    BY <1>1, <1>2, <2>1, <2>2
  <2>3. CASE project' = [project EXCEPT !.here = FALSE] /\ Purge
    <3>1. project' \in [here: BOOLEAN, config: Configs \cup {NoConfig}, gen: Nat]
      BY <2>3 DEF FenceInv, Typed
    <3>2. project'.config = project.config /\ project'.gen = project.gen
      BY <2>3 DEF FenceInv, Typed
    <3>3. PollsCurrent' /\ PatchesCurrent'
      BY <2>1, <3>2 DEF FenceInv, PollsCurrent, Begun, PatchesCurrent
    <3>4. QED
      BY <1>2, <1>8, <2>1, <2>3, <3>1, <3>3 DEF FenceInv, Typed, CheckpointIsCurrent
  <2>4. QED
    BY <1>9, <2>2, <2>3 DEF DeleteWrites
<1>10. CASE ThreadReused
  BY <1>1, <1>2, <1>8, <1>10 DEF ThreadReused
<1>11. CASE Crash
  <2>1. NoPoll \in PollRecord /\ NoPoll.at = "idle" /\ NoPatch \in Patch /\ NoPatch.at = "idle"
    BY IngestAssumption DEF NoPoll, PollRecord, NoPatch, Patch
  <2>2. UNCHANGED <<project, st, rows, open>>
    BY <1>11 DEF Crash
  <2>3. QED
    BY <1>11, <2>1, <2>2 DEF Crash, FenceInv, Typed, PollsCurrent, Begun, PatchesCurrent,
                             CheckpointIsCurrent
<1>12. QED
  BY <1>3, <1>4, <1>5, <1>6, <1>7, <1>9, <1>10, <1>11

LEMMA NextFence ==
    ASSUME \A x, y \in Patchers : x = y, FenceInv, [Next]_vars
    PROVE  FenceInv'
<1>1. CASE UNCHANGED vars
  BY <1>1 DEF vars, pollVars, threadVars, FenceInv, Typed, PollsCurrent, Begun, PatchesCurrent,
              CheckpointIsCurrent
<1>2. CASE \E p \in Pollers : Step(p) \/ Raises(p)
  BY <1>2, StepFence
<1>3. CASE \E p \in Pollers : \/ \E full \in BOOLEAN : Ask(p, full)
                              \/ Enter(p) \/ EnterWithoutCredential(p) \/ EnterUnconfigured(p)
                              \/ \E badCursor \in BOOLEAN : FetchFails(p, badCursor)
  BY <1>3, EntryFence
<1>4. CASE \E x \in Patchers : \E new \in Configs \cup {NoConfig} : PatchReads(x, new)
  BY <1>4, PatchReadsFence
<1>5. CASE \E x \in Patchers : PatchWrites(x)
  BY <1>5, PatchWritesFence
<1>6. CASE \/ SkipTick \/ IntervalPasses
           \/ \E c \in Configs : \E i \in Ids : Opens(c, i) \/ Resolves(c, i)
           \/ \E i \in Analysable : Analyse(i)
           \/ \E i \in Ids : DeleteReport(i)
           \/ DeleteChecks \/ DeleteWrites \/ ThreadReused \/ Crash
  BY <1>6, OtherFence
<1>7. QED
  BY <1>1, <1>2, <1>3, <1>4, <1>5, <1>6 DEF Next

\* If no two PATCH requests overlap, the checkpoint always belongs to the
\* project's present configuration: ingest_commit's fence keeps every late poll
\* from recreating what project_update or project_delete dropped.
THEOREM CheckpointFenced ==
    ASSUME \A x, y \in Patchers : x = y
    PROVE  Spec => []CheckpointIsCurrent
<1>1. FenceInv /\ [Next]_vars => FenceInv'
  BY NextFence
<1>2. FenceInv => CheckpointIsCurrent
  BY DEF FenceInv
<1>3. QED
  BY InitFence, <1>1, <1>2, PTL DEF Spec

-----------------------------------------------------------------------------
(* Imports. *)

\* Every row that appears comes from the source that is configured.
FromCurrent == \A i \in Ids : (rows[i] = NoRow /\ rows'[i] # NoRow) =>
                                  rows'[i].from = project.config

LEMMA NextImports ==
    ASSUME FenceInv, [Next]_vars
    PROVE  FromCurrent
<1> USE DEF pollVars, histVars, boundVars, threadVars
<1>1. ASSUME UNCHANGED rows PROVE FromCurrent
  BY <1>1 DEF FromCurrent
<1>2. rows \in [Ids -> Import \cup {NoRow}]
  BY DEF FenceInv, Typed
<1>3. ASSUME NEW p \in Pollers, Step(p) \/ Raises(p)
      PROVE  FromCurrent
  <2>1. CASE ForwardPage(p) \/ AgainPage(p)
    <3>1. Begun(p) /\ Fenced(p) /\ rows' = Imported(p)
      BY <2>1 DEF ForwardPage, AgainPage, Begun, Commits
    <3>2. poll[p].config = project.config
      BY <3>1 DEF FenceInv, PollsCurrent, Fenced
    <3>3. QED
      BY <3>1, <3>2 DEF Imported, FromCurrent
  <2>2. CASE ForwardClear(p) \/ RewalkStart(p) \/ AgainClear(p) \/ Finish(p)
    BY <1>1, <2>2 DEF ForwardClear, RewalkStart, AgainClear, Finish, Commits
  <2>3. CASE Fetch(p) \/ Fence(p) \/ Rewalk(p) \/ End(p) \/ Raises(p)
    BY <1>1, <2>3 DEF Fetch, Fence, Rewalk, End, Raises
  <2>4. QED
    BY <1>3, <2>1, <2>2, <2>3 DEF Step
<1>4. ASSUME NEW p \in Pollers,
             \/ \E full \in BOOLEAN : Ask(p, full)
             \/ Enter(p) \/ EnterWithoutCredential(p) \/ EnterUnconfigured(p)
             \/ \E badCursor \in BOOLEAN : FetchFails(p, badCursor)
      PROVE  FromCurrent
  BY <1>1, <1>4 DEF Ask, Enter, EnterWithoutCredential, EnterUnconfigured, FetchFails
<1>5. CASE \E i \in Analysable : Analyse(i)
  BY <1>2, <1>5 DEF Analyse, Live, FromCurrent
<1>6. CASE \E i \in Ids : DeleteReport(i)
  BY <1>2, <1>6 DEF DeleteReport, Live, FromCurrent
<1>7. ASSUME Purge PROVE FromCurrent
  BY <1>2, <1>7 DEF Purge, FromCurrent
<1>8. CASE DeleteWrites \/ ThreadReused
  BY <1>1, <1>7, <1>8 DEF DeleteWrites, ThreadReused
<1>9. CASE \/ SkipTick \/ IntervalPasses \/ DeleteChecks \/ Crash \/ UNCHANGED vars
           \/ \E c \in Configs : \E i \in Ids : Opens(c, i) \/ Resolves(c, i)
           \/ \E x \in Patchers : \E new \in Configs \cup {NoConfig} : PatchReads(x, new)
           \/ \E x \in Patchers : PatchWrites(x)
  BY <1>1, <1>9 DEF SkipTick, IntervalPasses, DeleteChecks, Crash, vars, Opens, Resolves,
                    PatchReads, PatchWrites
<1>10. QED
  BY <1>3, <1>4, <1>5, <1>6, <1>8, <1>9 DEF Next

\* Under the same assumption a poll that was in flight when the configuration
\* changed never imports a report of the old source.
THEOREM ImportsFenced ==
    ASSUME \A x, y \in Patchers : x = y
    PROVE  Spec => OldSourceNeverImported
<1>1. FenceInv /\ [Next]_vars => FenceInv'
  BY NextFence
<1>2. FenceInv /\ [Next]_vars =>
          [\A i \in Ids : (rows[i] = NoRow /\ rows'[i] # NoRow) =>
                              rows'[i].from = project.config]_vars
  BY NextImports DEF FromCurrent
<1>3. QED
  BY InitFence, <1>1, <1>2, PTL DEF Spec, OldSourceNeverImported

-----------------------------------------------------------------------------
(* Type correctness, also with overlapping PATCH requests. *)

\* The points of a poll at which pages are still to be fetched or written.
Walking == {"forward", "forwardPage", "rewalkStart", "again", "againPage"}

\* A poll at work has read a configuration, and a walk has a page left.
Sound(p) ==
    /\ Begun(p) => poll[p].config \in Configs
    /\ poll[p].at \in Walking => poll[p].left # 0

TypeInv == TypeOK /\ \A p \in Pollers : Sound(p)

\* The backoff is capped.
LEMMA BackoffCapped ==
    ASSUME NEW failures
    PROVE  Backoff(failures) \in 0 .. MaxBackoff
<1>1. MaxBackoff \in 0 .. MaxBackoff
  BY IngestAssumption
<1>2. ASSUME NEW w PROVE (IF w \in 0 .. MaxBackoff THEN w ELSE MaxBackoff) \in 0 .. MaxBackoff
  BY <1>1
<1>3. QED
  BY <1>2, Zenon DEF Backoff

\* The type invariant holds what the fence needs.
LEMMA TypedFromTypes == TypeOK => Typed
<1>1. Poll \subseteq PollRecord
  BY DEF Poll, PollRecord
<1>2. QED
  BY <1>1 DEF TypeOK, Typed

\* What a poll writes is a checkpoint.
LEMMA CheckpointTyped ==
    ASSUME TypeInv, NEW p \in Pollers, Begun(p),
           NEW s \in {ForwardState(p), [Stored(p) EXCEPT !.cursor = 0], StartState(p),
                      AgainState(p), [Stored(p) EXCEPT !.rewalk = 0],
                      [Stored(p) EXCEPT !.failures = IF poll[p].error = "none" THEN 0 ELSE @ + 1]}
    PROVE  s \in State
<1> DEFINE d == Stored(p)
<1>1. d \in State
  <2>1. poll[p].gen \in Nat /\ 0 \in 0 .. N /\ poll[p].config \in Configs
    BY IngestAssumption DEF TypeInv, TypeOK, Poll, Sound
  <2>2. NewState(p) \in State
    BY <2>1 DEF NewState, State
  <2>3. QED
    BY <2>2 DEF Stored, TypeInv, TypeOK
<1>2. d.cursor \in 0 .. N /\ d.rewalk \in 0 .. N /\ d.failures \in Nat /\ 0 \in 0 .. N
  BY <1>1, IngestAssumption DEF State
<1>3. NextCursor(p, d.cursor) \in 0 .. N /\ NextCursor(p, d.rewalk) \in 0 .. N
  BY <1>2, TypedFromTypes, NextCursorIsAPosition DEF TypeInv
<1> HIDE DEF d
<1>4. CASE s = ForwardState(p)
  BY <1>1, <1>3, <1>4 DEF ForwardState, State, d
<1>5. CASE s = [Stored(p) EXCEPT !.cursor = 0]
  BY <1>1, <1>2, <1>5 DEF State, d
<1>6. CASE s = StartState(p)
  BY <1>1, <1>2, <1>6 DEF StartState, State, d
<1>7. CASE s = AgainState(p)
  BY <1>1, <1>2, <1>3, <1>7 DEF AgainState, State, d
<1>8. CASE s = [Stored(p) EXCEPT !.rewalk = 0]
  BY <1>1, <1>2, <1>8 DEF State, d
<1>9. CASE s = [Stored(p) EXCEPT !.failures = IF poll[p].error = "none" THEN 0 ELSE @ + 1]
  BY <1>1, <1>2, <1>9 DEF State, d
<1>10. QED
  BY <1>4, <1>5, <1>6, <1>7, <1>8, <1>9

\* Poller p moves to a sound record.
PollMoves(p) ==
    \E new \in Poll :
        /\ poll' = [poll EXCEPT ![p] = new]
        /\ new.at \notin {"idle", "waiting"} => new.config \in Configs
        /\ new.at \in Walking => new.left # 0

LEMMA MovesSound ==
    ASSUME TypeInv, NEW p \in Pollers, PollMoves(p)
    PROVE  poll' \in [Pollers -> Poll] /\ \A q \in Pollers : Sound(q)'
  BY DEF TypeInv, TypeOK, PollMoves, Sound, Begun

\* A transaction of a sound poll keeps the types.
LEMMA CommitTypes ==
    ASSUME TypeInv, NEW p \in Pollers, PollMoves(p), Begun(p),
           NEW state \in {ForwardState(p), [Stored(p) EXCEPT !.cursor = 0], StartState(p),
               AgainState(p), [Stored(p) EXCEPT !.rewalk = 0],
               [Stored(p) EXCEPT !.failures = IF poll[p].error = "none" THEN 0 ELSE @ + 1]},
           NEW reports \in {rows, Imported(p)}, Commits(p, state, reports),
           shown' \subseteq Mappable, staying' \subseteq Mappable
    PROVE  TypeInv'
<1>1. state \in State
  BY CheckpointTyped
<1>2. Imported(p) \in [Ids -> Import \cup {NoRow}]
  <2>1. [from |-> poll[p].config, live |-> TRUE, analysed |-> FALSE] \in Import
    BY DEF TypeInv, Sound, Import
  <2>2. QED
    BY <2>1 DEF Imported, TypeInv, TypeOK
<1>3. reports \in [Ids -> Import \cup {NoRow}]
  BY <1>2 DEF TypeInv, TypeOK
<1>4. UNCHANGED <<project, open, skip, patch, del, held, boundVars>>
  BY DEF Commits, threadVars
<1>5. st' = state /\ rows' = reports
  BY DEF Commits
<1>6. QED
  BY <1>1, <1>3, <1>4, <1>5, MovesSound DEF TypeInv, TypeOK, boundVars

\* A move without a transaction.
LEMMA MoveTypes ==
    ASSUME TypeInv, NEW p \in Pollers, PollMoves(p), skip' \in 0 .. MaxBackoff,
           UNCHANGED <<project, st, rows, open, patch, del, held, staying>>,
           shown' \subseteq Mappable,
           {changes', errors', patches', deletes', crashes'} \subseteq Nat
    PROVE  TypeInv'
  BY MovesSound DEF TypeInv, TypeOK

\* The poll starts over as the idle one.
LEMMA EndMoves ==
    ASSUME NEW p \in Pollers, poll' = [poll EXCEPT ![p] = NoPoll]
    PROVE  PollMoves(p)
<1>1. NoPoll \in Poll /\ NoPoll.at = "idle"
  BY IngestAssumption DEF NoPoll, Poll
<1>2. QED
  BY <1>1 DEF PollMoves, Walking

\* The steps of a poll that holds the lock keep the types.
LEMMA StepTypes ==
    ASSUME TypeInv, NEW p \in Pollers, Step(p) \/ Raises(p)
    PROVE  TypeInv'
<1> USE DEF threadVars, histVars, boundVars
<1>1. /\ poll \in [Pollers -> Poll] /\ poll[p] \in Poll /\ Sound(p)
      /\ skip \in 0 .. MaxBackoff /\ shown \subseteq Mappable /\ staying \subseteq Mappable
      /\ {changes, errors, patches, deletes, crashes} \subseteq Nat
      /\ open \in [Configs -> SUBSET Ids]
      /\ st # NoState => st \in State
  BY DEF TypeInv, TypeOK
<1>2. /\ 0 \in 0 .. N /\ NextCursor(p, poll[p].cursor) \in 0 .. N
      /\ poll[p].left # 0 => poll[p].left - 1 \in Nat
      /\ poll[p].left # 0 /\ poll[p].left # 1 => poll[p].left - 1 # 0
      /\ {} \in SUBSET Ids /\ RewalkPages \in Nat \ {0} /\ errors + 1 \in Nat
  <2>1. poll[p].cursor \in 0 .. N /\ poll[p].left \in Nat
    BY <1>1 DEF Poll
  <2>2. NextCursor(p, poll[p].cursor) \in 0 .. N
    BY <2>1, TypedFromTypes, NextCursorIsAPosition DEF TypeInv
  <2>3. QED
    BY <1>1, <2>1, <2>2, IngestAssumption
<1>3. CASE Fetch(p)
  <2>1. Begun(p) /\ poll[p].config \in Configs
    BY <1>1, <1>3 DEF Fetch, Walks, Begun, Sound
  <2>2. PICK page \in SUBSET Ids : page = PageAfter(open[poll[p].config], poll[p].cursor)
    BY <1>1, <2>1 DEF PageAfter
  <2> DEFINE new == [poll[p] EXCEPT !.at = PageOf(@), !.page = page]
  <2>3. /\ poll' = [poll EXCEPT ![p] = new]
        /\ shown' \in {shown, shown \cup (page \ Unmappable)}
    BY <1>1, <1>3, <2>2 DEF Fetch
  <2>4. /\ new \in Poll /\ new.at \in {"forwardPage", "againPage"}
        /\ new.config = poll[p].config /\ new.left = poll[p].left
    BY <1>1, <1>3, <2>2 DEF Poll, PageOf, Fetch, Walks
  <2> HIDE DEF new
  <2>5. PollMoves(p)
    BY <1>1, <1>3, <2>1, <2>3, <2>4 DEF PollMoves, Sound, Walking, Fetch, Walks
  <2>6. shown' \subseteq Mappable
    BY <1>1, <2>3 DEF Mappable
  <2>7. QED
    BY <1>1, <1>3, <2>5, <2>6, MoveTypes DEF Fetch
<1>4. CASE Fence(p) \/ End(p)
  <2>1. PollMoves(p) /\ skip' \in 0 .. MaxBackoff
    BY <1>1, <1>2, <1>4, EndMoves, BackoffCapped, IngestAssumption DEF Fence, End, Ends
  <2>2. QED
    BY <1>1, <1>4, <2>1, MoveTypes DEF Fence, End
<1>5. CASE ForwardPage(p) \/ AgainPage(p)
  <2>1. Begun(p) /\ poll[p].at \in Walking
    BY <1>5 DEF ForwardPage, AgainPage, Begun, Walking
  <2> DEFINE new == [poll[p] EXCEPT !.page = {}, !.left = poll[p].left - 1,
                        !.cursor = NextCursor(p, poll[p].cursor), !.at = poll'[p].at]
  <2>2. /\ poll' = [poll EXCEPT ![p] = new]
        /\ poll'[p].at \in {"rewalk", "forward", "finish", "again"}
        /\ poll'[p].at \in Walking => poll[p].left # 1
    <3>1. CASE ForwardPage(p)
      BY <1>1, <3>1 DEF ForwardPage, Poll, Walking
    <3>2. CASE AgainPage(p)
      BY <1>1, <3>2 DEF AgainPage, Poll, Walking
    <3>3. QED
      BY <1>5, <3>1, <3>2
  <2>3. /\ new \in Poll /\ new.at = poll'[p].at /\ new.config = poll[p].config
        /\ new.left = poll[p].left - 1
    BY <1>1, <1>2, <2>1, <2>2 DEF Poll, Sound
  <2> HIDE DEF new
  <2>4. PollMoves(p)
    BY <1>1, <1>2, <2>1, <2>2, <2>3 DEF PollMoves, Sound
  <2>5. QED
    BY <1>1, <1>5, <2>1, <2>4, CommitTypes DEF ForwardPage, AgainPage
<1>6. CASE ForwardClear(p) \/ AgainClear(p) \/ Finish(p)
  <2>1. Begun(p)
    BY <1>6 DEF ForwardClear, AgainClear, Finish, Begun
  <2>2. PICK at \in {"finish", "ending"} : poll' = [poll EXCEPT ![p] = [poll[p] EXCEPT !.at = at]]
    BY <1>6 DEF ForwardClear, AgainClear, Finish
  <2> DEFINE new == [poll[p] EXCEPT !.at = at]
  <2>3. new \in Poll /\ new.at = at /\ new.config = poll[p].config
    BY <1>1, <2>2 DEF Poll
  <2>4. poll' = [poll EXCEPT ![p] = new]
    BY <2>2
  <2> HIDE DEF new
  <2>5. PollMoves(p)
    BY <1>1, <2>1, <2>2, <2>3, <2>4 DEF PollMoves, Sound, Walking
  <2>6. QED
    BY <1>1, <1>6, <2>1, <2>5, CommitTypes DEF ForwardClear, AgainClear, Finish
<1>7. CASE Rewalk(p)
  <2>1. Begun(p)
    BY <1>7 DEF Rewalk, Begun
  <2>2. PICK at \in {"again", "rewalkStart", "finish"}, cursor \in 0 .. N :
            poll' = [poll EXCEPT ![p] = [poll[p] EXCEPT !.at = at, !.cursor = cursor,
                                                        !.left = RewalkPages]]
    <3>1. st # NoState => st.rewalk \in 0 .. N
      BY <1>1 DEF State
    <3>2. QED
      BY <1>2, <1>7, <3>1 DEF Rewalk
  <2> DEFINE new == [poll[p] EXCEPT !.at = at, !.cursor = cursor, !.left = RewalkPages]
  <2>3. /\ new \in Poll /\ new.at = at /\ new.config = poll[p].config
        /\ new.left = RewalkPages
    BY <1>1, <1>2, <2>2 DEF Poll
  <2>4. poll' = [poll EXCEPT ![p] = new]
    BY <2>2
  <2> HIDE DEF new
  <2>5. PollMoves(p)
    BY <1>1, <1>2, <2>1, <2>3, <2>4 DEF PollMoves, Sound
  <2>6. QED
    BY <1>1, <1>7, <2>5, MoveTypes DEF Rewalk
<1>8. CASE RewalkStart(p)
  <2>1. Begun(p) /\ poll[p].left \in Nat /\ open[poll[p].config] \subseteq Ids
    BY <1>1, <1>8 DEF RewalkStart, Begun, Sound, Poll
  <2>2. staying' \subseteq Mappable /\ shown' \subseteq Mappable
    BY <1>1, <1>8, <2>1 DEF RewalkStart, Mappable
  <2> DEFINE new == [poll[p] EXCEPT !.at = "again", !.cursor = 0]
  <2>3. poll' = [poll EXCEPT ![p] = new]
    BY <1>1, <1>8 DEF RewalkStart, Poll
  <2>4. new \in Poll /\ new.config = poll[p].config /\ new.left = poll[p].left
    BY <1>1, <1>2 DEF Poll
  <2> HIDE DEF new
  <2>5. PollMoves(p)
    BY <1>1, <1>8, <2>1, <2>3, <2>4 DEF PollMoves, Sound, Walking, RewalkStart
  <2>6. QED
    BY <1>1, <1>8, <2>1, <2>2, <2>5, CommitTypes DEF RewalkStart
<1>9. CASE Raises(p)
  <2>1. PICK at \in {"finish", "ending"}, error \in {"lost", "internal"} :
            poll' = [poll EXCEPT ![p] = [poll[p] EXCEPT !.page = {}, !.at = at, !.error = error]]
    BY <1>9 DEF Raises
  <2>2. Begun(p)
    BY <1>9 DEF Raises, Begun
  <2> DEFINE new == [poll[p] EXCEPT !.page = {}, !.at = at, !.error = error]
  <2>3. new \in Poll /\ new.at = at /\ new.config = poll[p].config
    BY <1>1, <1>2, <2>1 DEF Poll
  <2>4. poll' = [poll EXCEPT ![p] = new]
    BY <2>1
  <2> HIDE DEF new
  <2>5. PollMoves(p)
    BY <1>1, <2>1, <2>2, <2>3, <2>4 DEF PollMoves, Sound, Walking
  <2>6. QED
    BY <1>1, <1>2, <1>9, <2>5, MoveTypes DEF Raises
<1>10. QED
  BY <1>3, <1>4, <1>5, <1>6, <1>7, <1>8, <1>9 DEF Step

\* A poll that is asked for, enters or fails to, and a request that fails.
LEMMA EntryTypes ==
    ASSUME TypeInv, NEW p \in Pollers,
           \/ \E full \in BOOLEAN : Ask(p, full)
           \/ Enter(p) \/ EnterWithoutCredential(p) \/ EnterUnconfigured(p)
           \/ \E badCursor \in BOOLEAN : FetchFails(p, badCursor)
    PROVE  TypeInv'
<1> USE DEF threadVars, histVars, boundVars
<1>1. /\ poll \in [Pollers -> Poll] /\ poll[p] \in Poll /\ Sound(p)
      /\ skip \in 0 .. MaxBackoff /\ shown \subseteq Mappable /\ staying \subseteq Mappable
      /\ {changes, errors, patches, deletes, crashes} \subseteq Nat
      /\ st # NoState => st.cursor \in 0 .. N
      /\ project.config \in Configs \cup {NoConfig} /\ project.gen \in Nat
  BY DEF TypeInv, TypeOK, State
<1>2. NoPoll \in Poll /\ 0 \in 0 .. N /\ MaxPages \in Nat \ {0} /\ errors + 1 \in Nat
  BY <1>1, IngestAssumption DEF NoPoll, Poll
<1>3. ASSUME NEW full \in BOOLEAN, Ask(p, full)
      PROVE  TypeInv'
  <2> DEFINE new == [NoPoll EXCEPT !.at = "waiting", !.full = full]
  <2>1. new \in Poll /\ new.at = "waiting" /\ poll' = [poll EXCEPT ![p] = new]
    BY <1>2, <1>3 DEF Poll, Ask
  <2> HIDE DEF new
  <2>2. PollMoves(p)
    BY <2>1 DEF PollMoves, Walking
  <2>3. QED
    BY <1>1, <1>3, <2>2, MoveTypes DEF Ask
<1>4. CASE Enter(p)
  <2>1. PICK cursor \in 0 .. N :
            poll' = [poll EXCEPT ![p] = [poll[p] EXCEPT !.at = "forward", !.gen = project.gen,
                        !.config = project.config, !.left = MaxPages, !.cursor = cursor]]
    BY <1>1, <1>2, <1>4 DEF Enter
  <2> DEFINE new == [poll[p] EXCEPT !.at = "forward", !.gen = project.gen,
                        !.config = project.config, !.left = MaxPages, !.cursor = cursor]
  <2>2. new \in Poll /\ new.config = project.config /\ new.left = MaxPages
    BY <1>1, <1>2, <2>1 DEF Poll
  <2>3. poll' = [poll EXCEPT ![p] = new]
    BY <2>1
  <2> HIDE DEF new
  <2>4. PollMoves(p)
    BY <1>1, <1>2, <1>4, <2>2, <2>3 DEF PollMoves, Enter, Configured
  <2>5. QED
    BY <1>1, <1>4, <2>4, MoveTypes DEF Enter
<1>5. CASE EnterWithoutCredential(p)
  <2> DEFINE new == [poll[p] EXCEPT !.at = "finish", !.gen = project.gen,
                        !.config = project.config, !.error = "error"]
  <2>1. new \in Poll /\ new.at = "finish" /\ new.config = project.config
    BY <1>1, <1>2 DEF Poll
  <2>2. poll' = [poll EXCEPT ![p] = new]
    BY <1>5 DEF EnterWithoutCredential
  <2> HIDE DEF new
  <2>3. PollMoves(p)
    BY <1>1, <1>5, <2>1, <2>2 DEF PollMoves, Walking, EnterWithoutCredential, Configured
  <2>4. QED
    BY <1>1, <1>2, <1>5, <2>3, MoveTypes DEF EnterWithoutCredential
<1>6. CASE EnterUnconfigured(p)
  <2>1. PollMoves(p) /\ skip' \in 0 .. MaxBackoff
    BY <1>1, <1>6, EndMoves, BackoffCapped DEF EnterUnconfigured, Ends
  <2>2. QED
    BY <1>1, <1>6, <2>1, MoveTypes DEF EnterUnconfigured
<1>7. ASSUME NEW badCursor \in BOOLEAN, FetchFails(p, badCursor)
      PROVE  TypeInv'
  <2>1. PICK at \in {"forwardClear", "againClear", "finish"} :
            poll' = [poll EXCEPT ![p] = [poll[p] EXCEPT !.at = at, !.error = "error"]]
    BY <1>1, <1>7 DEF FetchFails, ClearOf, Walks
  <2>2. Begun(p)
    BY <1>7 DEF FetchFails, Walks, Begun
  <2> DEFINE new == [poll[p] EXCEPT !.at = at, !.error = "error"]
  <2>3. new \in Poll /\ new.at = at /\ new.config = poll[p].config
    BY <1>1, <2>1 DEF Poll
  <2>4. poll' = [poll EXCEPT ![p] = new]
    BY <2>1
  <2> HIDE DEF new
  <2>5. PollMoves(p)
    BY <1>1, <2>1, <2>2, <2>3, <2>4 DEF PollMoves, Sound, Walking
  <2>6. QED
    BY <1>1, <1>2, <1>7, <2>5, MoveTypes DEF FetchFails
<1>8. QED
  BY <1>3, <1>4, <1>5, <1>6, <1>7

\* The other requests, the source, time and the process.
LEMMA OtherTypes ==
    ASSUME TypeInv,
           \/ SkipTick \/ IntervalPasses
           \/ \E c \in Configs : \E i \in Ids : Opens(c, i) \/ Resolves(c, i)
           \/ \E x \in Patchers : \E new \in Configs \cup {NoConfig} : PatchReads(x, new)
           \/ \E x \in Patchers : PatchWrites(x)
           \/ \E i \in Analysable : Analyse(i)
           \/ \E i \in Ids : DeleteReport(i)
           \/ DeleteChecks \/ DeleteWrites \/ ThreadReused
    PROVE  TypeInv'
<1> USE DEF threadVars, pollVars, histVars, boundVars
<1>1. /\ project \in [here: BOOLEAN, config: Configs \cup {NoConfig}, gen: Nat]
      /\ st \in State \cup {NoState} /\ rows \in [Ids -> Import \cup {NoRow}]
      /\ open \in [Configs -> SUBSET Ids]
      /\ poll \in [Pollers -> Poll] /\ skip \in 0 .. MaxBackoff
      /\ patch \in [Patchers -> Patch] /\ del \in {"idle", "checked", "raised"}
      /\ held \in {"none", "reports", "project"}
      /\ shown \subseteq Mappable /\ staying \subseteq Mappable
      /\ changes \in Nat /\ errors \in Nat /\ patches \in Nat /\ deletes \in Nat /\ crashes \in Nat
  BY DEF TypeInv, TypeOK
<1>2. ASSUME poll' = poll,
             project' \in [here: BOOLEAN, config: Configs \cup {NoConfig}, gen: Nat],
             st' \in State \cup {NoState}, rows' \in [Ids -> Import \cup {NoRow}],
             open' \in [Configs -> SUBSET Ids], skip' \in 0 .. MaxBackoff,
             patch' \in [Patchers -> Patch], del' \in {"idle", "checked", "raised"},
             held' \in {"none", "reports", "project"},
             shown' \subseteq Mappable, staying' \subseteq Mappable,
             changes' \in Nat, errors' \in Nat, patches' \in Nat, deletes' \in Nat, crashes' \in Nat
      PROVE  TypeInv'
  <2>1. \A q \in Pollers : Sound(q)'
    BY <1>2 DEF TypeInv, Sound, Begun
  <2>2. TypeOK'
    BY <1>1, <1>2 DEF TypeOK
  <2>3. QED
    BY <2>1, <2>2 DEF TypeInv
<1>3. CASE SkipTick
  <2>1. skip' \in 0 .. MaxBackoff
    BY <1>1, <1>3, IngestAssumption DEF SkipTick
  <2>2. QED
    BY <1>1, <1>2, <1>3, <2>1 DEF SkipTick
<1>4. CASE IntervalPasses
  <2>1. st \in State /\ st' \in State
    BY <1>1, <1>4 DEF IntervalPasses, State
  <2>2. QED
    BY <1>1, <1>2, <1>4, <2>1 DEF IntervalPasses
<1>5. ASSUME NEW c \in Configs, NEW i \in Ids, Opens(c, i) \/ Resolves(c, i)
      PROVE  TypeInv'
  <2>1. open' \in [Configs -> SUBSET Ids]
    BY <1>1, <1>5 DEF Opens, Resolves
  <2>2. shown' \subseteq Mappable /\ staying' \subseteq Mappable
    BY <1>1, <1>5 DEF Opens, Resolves
  <2>3. QED
    BY <1>1, <1>2, <1>5, <2>1, <2>2 DEF Opens, Resolves
<1>6. ASSUME NEW x \in Patchers, NEW new \in Configs \cup {NoConfig}, PatchReads(x, new)
      PROVE  TypeInv'
  <2>1. [at |-> "read", new |-> new, changed |-> new # project.config] \in Patch
    BY DEF Patch
  <2>2. patch' \in [Patchers -> Patch]
    BY <1>1, <1>6, <2>1 DEF PatchReads
  <2>3. QED
    BY <1>1, <1>2, <1>6, <2>2 DEF PatchReads
<1>7. ASSUME NEW x \in Patchers, PatchWrites(x)
      PROVE  TypeInv'
  <2>1. NoPatch \in Patch /\ patch[x].new \in Configs \cup {NoConfig}
    BY <1>1 DEF NoPatch, Patch
  <2>2. patch' \in [Patchers -> Patch]
    BY <1>1, <1>7, <2>1 DEF PatchWrites
  <2>3. project' \in [here: BOOLEAN, config: Configs \cup {NoConfig}, gen: Nat]
    <3>1. CASE project' = [project EXCEPT !.config = patch[x].new,
                              !.gen = IF patch[x].changed THEN @ + 1 ELSE @]
      <4> DEFINE gen == IF patch[x].changed THEN project.gen + 1 ELSE project.gen
      <4>1. gen \in Nat
        BY <1>1
      <4>2. project' = [project EXCEPT !.config = patch[x].new, !.gen = gen]
        BY <3>1
      <4> HIDE DEF gen
      <4>3. QED
        BY <1>1, <2>1, <4>1, <4>2, Zenon
    <3>2. QED
      BY <1>1, <1>7, <3>1 DEF PatchWrites
  <2>4. st' \in State \cup {NoState} /\ shown' \subseteq Mappable /\ staying' \subseteq Mappable
    BY <1>1, <1>7 DEF PatchWrites, Reset
  <2>5. QED
    BY <1>1, <1>2, <1>7, <2>2, <2>3, <2>4 DEF PatchWrites
<1>8. CASE (\E i \in Analysable : Analyse(i)) \/ (\E i \in Ids : DeleteReport(i))
  <2>1. rows' \in [Ids -> Import \cup {NoRow}]
    <3>1. ASSUME NEW i \in Live
          PROVE  /\ [rows[i] EXCEPT !.analysed = TRUE] \in Import
                 /\ [rows[i] EXCEPT !.live = FALSE] \in Import
      <4>1. rows[i] \in Import
        BY <1>1 DEF Live
      <4>2. QED
        BY <4>1 DEF Import
    <3>2. CASE \E i \in Analysable : Analyse(i)
      BY <1>1, <3>1, <3>2 DEF Analyse
    <3>3. CASE \E i \in Ids : DeleteReport(i)
      BY <1>1, <3>1, <3>3 DEF DeleteReport
    <3>4. QED
      BY <1>8, <3>2, <3>3
  <2>2. deletes' \in Nat
    BY <1>1, <1>8 DEF Analyse, DeleteReport
  <2>3. QED
    BY <1>1, <1>2, <1>8, <2>1, <2>2 DEF Analyse, DeleteReport
<1>9. CASE DeleteChecks
  BY <1>1, <1>2, <1>9 DEF DeleteChecks
<1>10. CASE DeleteWrites \/ ThreadReused
  <2>1. Purge => /\ rows' \in [Ids -> Import \cup {NoRow}] /\ st' = NoState
                 /\ shown' \subseteq Mappable /\ staying' \subseteq Mappable
    BY <1>1 DEF Purge
  <2>2. /\ rows' \in [Ids -> Import \cup {NoRow}] /\ st' \in State \cup {NoState}
        /\ shown' \subseteq Mappable /\ staying' \subseteq Mappable
    BY <1>1, <1>10, <2>1 DEF DeleteWrites, ThreadReused
  <2>3. project' \in [here: BOOLEAN, config: Configs \cup {NoConfig}, gen: Nat]
    <3>1. project' \in {project, [project EXCEPT !.here = FALSE]}
      BY <1>10 DEF DeleteWrites, ThreadReused
    <3>2. QED
      BY <1>1, <3>1
  <2>4. del' \in {"idle", "checked", "raised"} /\ held' \in {"none", "reports", "project"}
    BY <1>1, <1>10 DEF DeleteWrites, ThreadReused
  <2>5. QED
    BY <1>1, <1>2, <1>10, <2>2, <2>3, <2>4 DEF DeleteWrites, ThreadReused
<1>11. QED
  BY <1>3, <1>4, <1>5, <1>6, <1>7, <1>8, <1>9, <1>10

LEMMA CrashTypes == ASSUME TypeInv, Crash PROVE TypeInv'
<1>1. NoPoll \in Poll /\ NoPoll.at = "idle" /\ NoPatch \in Patch /\ 0 \in 0 .. MaxBackoff
  BY IngestAssumption DEF NoPoll, Poll, NoPatch, Patch
<1>2. poll' \in [Pollers -> Poll] /\ patch' \in [Patchers -> Patch]
  BY <1>1 DEF Crash
<1>3. \A q \in Pollers : Sound(q)'
  BY <1>1 DEF Crash, Sound, Begun, Walking
<1>4. QED
  BY <1>1, <1>2, <1>3 DEF Crash, TypeInv, TypeOK, histVars

LEMMA NextTypes == ASSUME TypeInv, [Next]_vars PROVE TypeInv'
<1>1. CASE UNCHANGED vars
  BY <1>1 DEF vars, pollVars, threadVars, histVars, boundVars, TypeInv, TypeOK, Sound, Begun
<1>2. CASE \E p \in Pollers : Step(p) \/ Raises(p)
  BY <1>2, StepTypes
<1>3. CASE \E p \in Pollers : \/ \E full \in BOOLEAN : Ask(p, full)
                              \/ Enter(p) \/ EnterWithoutCredential(p) \/ EnterUnconfigured(p)
                              \/ \E badCursor \in BOOLEAN : FetchFails(p, badCursor)
  BY <1>3, EntryTypes
<1>4. CASE \/ SkipTick \/ IntervalPasses
           \/ \E c \in Configs : \E i \in Ids : Opens(c, i) \/ Resolves(c, i)
           \/ \E x \in Patchers : \E new \in Configs \cup {NoConfig} : PatchReads(x, new)
           \/ \E x \in Patchers : PatchWrites(x)
           \/ \E i \in Analysable : Analyse(i)
           \/ \E i \in Ids : DeleteReport(i)
           \/ DeleteChecks \/ DeleteWrites \/ ThreadReused
  BY <1>4, OtherTypes
<1>5. CASE Crash
  BY <1>5, CrashTypes
<1>6. QED
  BY <1>1, <1>2, <1>3, <1>4, <1>5 DEF Next

LEMMA InitTypes == Init => TypeInv
<1> SUFFICES ASSUME Init PROVE TypeInv
  OBVIOUS
<1>1. NoPoll \in Poll /\ NoPoll.at = "idle"
  BY IngestAssumption DEF NoPoll, Poll
<1>2. Typed
  BY InitFence DEF FenceInv
<1>3. poll \in [Pollers -> Poll]
  BY <1>1 DEF Init
<1>4. \A q \in Pollers : Sound(q)
  BY <1>1 DEF Init, Sound, Begun, Walking
<1>5. /\ skip \in 0 .. MaxBackoff /\ del = "idle" /\ held = "none" /\ shown = {} /\ staying = {}
      /\ {changes, errors, patches, deletes, crashes} \subseteq Nat
  BY IngestAssumption DEF Init
<1>6. QED
  BY <1>2, <1>3, <1>4, <1>5 DEF Typed, TypeInv, TypeOK

\* Every variable keeps its type, also with overlapping PATCH requests: the page
\* cursors stay within the source although walks are cut short, cleared and
\* resumed, the backoff within MAX_BACKOFF_TICKS.
THEOREM TypesKept == Spec => []TypeOK
<1>1. TypeInv /\ [Next]_vars => TypeInv'
  BY NextTypes
<1>2. TypeInv => TypeOK
  BY DEF TypeInv
<1>3. QED
  BY InitTypes, <1>1, <1>2, PTL DEF Spec

-----------------------------------------------------------------------------
(* What the walks have covered. *)

\* Every report of T up to position c has a row.
Reached(reports, T, c) == \A i \in T : i <= c => reports[i] # NoRow

\* A page that follows the cursor holds every report of T, as far as it goes.
PageHolds(page, cursor, T) ==
    \A i \in T : i > cursor =>
        i \in page \/ (Cardinality(page) >= PageLimit /\ i > Max(page))

\* What the source leaves out of a full page comes after it, and only a full
\* page leaves reports out.
LEMMA PageCovers ==
    ASSUME NEW active \in SUBSET Ids, NEW cursor \in 0 .. N
    PROVE  PageHolds(PageAfter(active, cursor), cursor, active)
<1> DEFINE page == PageAfter(active, cursor)
           Before(i) == {j \in active : cursor < j /\ j < i}
           Missing == {j \in active : j > cursor /\ j \notin page}
<1> SUFFICES ASSUME NEW i \in Missing
             PROVE  Cardinality(page) >= PageLimit /\ i > Max(page)
  BY DEF PageHolds
<1>1. N \in Nat /\ PageLimit \in Nat \ {0} /\ cursor \in Nat /\ active \subseteq Nat
  BY IngestAssumption DEF Ids
<1>2. ASSUME NEW S \in SUBSET active
      PROVE  IsFiniteSet(S) /\ Cardinality(S) \in Nat
  <2>1. IsFiniteSet(1 .. N)
    BY <1>1, FS_Interval
  <2>2. S \in SUBSET (1 .. N)
    BY DEF Ids
  <2>3. IsFiniteSet(S)
    BY <2>1, <2>2, FS_Subset
  <2>4. QED
    BY <2>3, FS_CardinalityType
<1>3. PICK m \in Missing : \A j \in Missing : m <= j
  <2>1. Missing \subseteq Nat /\ Missing # {}
    BY <1>1
  <2>2. QED
    BY <2>1, LeastNatural
<1>4. page \subseteq active /\ \A j \in page : Cardinality(Before(j)) < PageLimit
  BY DEF PageAfter
<1>5. Cardinality(Before(m)) >= PageLimit
  <2>1. m \in active /\ m > cursor /\ m \notin page
    BY <1>3
  <2>2. ~ (Cardinality(Before(m)) < PageLimit)
    BY <2>1 DEF PageAfter
  <2>3. Cardinality(Before(m)) \in Nat
    BY <1>2
  <2>4. QED
    BY <1>1, <2>2, <2>3
<1>6. Before(m) \subseteq page
  <2>1. ASSUME NEW j \in Before(m), j \notin page
        PROVE  FALSE
    <3>1. j \in Missing
      BY <2>1
    <3>2. m <= j /\ j < m /\ j \in Nat /\ m \in Nat
      BY <1>1, <1>3, <3>1
    <3>3. QED
      BY <3>2
  <2>2. QED
    BY <2>1
<1>7. ASSUME NEW S \in SUBSET active, NEW T \in SUBSET S
      PROVE  Cardinality(T) <= Cardinality(S)
  BY <1>2, FS_Subset
<1> HIDE DEF page
<1>8. Cardinality(page) >= PageLimit
  <2>1. Cardinality(Before(m)) <= Cardinality(page)
    BY <1>4, <1>6, <1>7
  <2>2. Cardinality(Before(m)) \in Nat /\ Cardinality(page) \in Nat
    BY <1>2, <1>4
  <2>3. QED
    BY <1>1, <1>5, <2>1, <2>2
<1>9. i > Max(page)
  <2>1. page # {}
    BY <1>1, <1>8, FS_EmptySet
  <2>2. PICK k \in page : k = Max(page)
    BY <1>4, <2>1, LastIsAnId
  <2>3. ASSUME k >= m
        PROVE  FALSE
    <3>1. Before(m) \subseteq Before(k)
      <4>1. m \in Nat /\ k \in Nat
        BY <1>1, <1>3, <1>4
      <4>2. ASSUME NEW j \in active, j < m
            PROVE  j < k
        BY <1>1, <2>3, <4>1, <4>2
      <4>3. QED
        BY <4>2
    <3>2. Cardinality(Before(m)) <= Cardinality(Before(k))
      BY <1>7, <3>1
    <3>3. Cardinality(Before(m)) \in Nat /\ Cardinality(Before(k)) \in Nat
      BY <1>2
    <3>4. QED
      BY <1>1, <1>4, <1>5, <3>2, <3>3
  <2>4. m <= i /\ m \in Nat /\ k \in Nat /\ i \in Nat
    BY <1>1, <1>3, <1>4
  <2>5. QED
    BY <2>2, <2>3, <2>4
<1>10. QED
  BY <1>8, <1>9

\* Nothing precedes the first position.
LEMMA NothingReached ==
    ASSUME NEW reports, NEW T, T \subseteq Ids
    PROVE  Reached(reports, T, 0)
  BY IngestAssumption DEF Reached, Ids

\* A covered set stays covered while it only loses reports and its rows stay.
LEMMA ReachedKept ==
    ASSUME NEW old, NEW new, NEW T, NEW S, NEW c, Reached(old, T, c),
           \A i \in S : i \in T /\ (old[i] # NoRow => new[i] # NoRow)
    PROVE  Reached(new, S, c)
  BY DEF Reached

LEMMA HoldsKept ==
    ASSUME NEW page, NEW cursor, NEW T, NEW S, PageHolds(page, cursor, T), S \subseteq T
    PROVE  PageHolds(page, cursor, S)
  BY DEF PageHolds

\* A page that was written is covered, to its last report if there is one.
LEMMA PageReached ==
    ASSUME NEW page \in SUBSET Ids, NEW cursor \in 0 .. N, NEW T, T \subseteq Ids, NEW old, NEW new,
           Reached(old, T, cursor), PageHolds(page, cursor, T),
           \A i \in T : old[i] # NoRow \/ i \in page => new[i] # NoRow
    PROVE  /\ page # {} => Reached(new, T, Max(page))
           /\ Cardinality(page) < PageLimit => \A i \in T : new[i] # NoRow
<1>1. ASSUME NEW i \in T
      PROVE  \/ new[i] # NoRow
             \/ Cardinality(page) >= PageLimit /\ i > Max(page)
  <2>1. i \in Nat /\ cursor \in Nat
    BY IngestAssumption DEF Ids
  <2>2. CASE i <= cursor
    BY <2>2 DEF Reached
  <2>3. CASE i > cursor
    BY <2>3 DEF PageHolds
  <2>4. QED
    BY <2>1, <2>2, <2>3
<1>2. ASSUME page # {}
      PROVE  Reached(new, T, Max(page))
  <2>1. Max(page) \in Ids
    BY <1>2, LastIsAnId
  <2>2. ASSUME NEW i \in T, i <= Max(page)
        PROVE  new[i] # NoRow
    <3>1. i \in Nat /\ Max(page) \in Nat
      BY <2>1, IngestAssumption DEF Ids
    <3>2. QED
      BY <1>1, <2>2, <3>1
  <2>3. QED
    BY <2>2 DEF Reached
<1>3. ASSUME Cardinality(page) < PageLimit
      PROVE  \A i \in T : new[i] # NoRow
  <2>1. IsFiniteSet(1 .. N) /\ page \in SUBSET (1 .. N)
    BY FS_Interval, IngestAssumption DEF Ids
  <2>2. IsFiniteSet(page)
    BY <2>1, FS_Subset
  <2>3. Cardinality(page) \in Nat /\ PageLimit \in Nat
    BY <2>2, FS_CardinalityType, IngestAssumption
  <2>4. QED
    BY <1>1, <1>3, <2>3
<1>4. QED
  BY <1>2, <1>3

-----------------------------------------------------------------------------
(* The walks of the polls. *)

\* The project's lock: one poll is past it.
AtMostOne == \A p, q \in Pollers : Begun(p) /\ Begun(q) => p = q

\* The histories hold mappable reports that are active at the polled source.
Tracked ==
    \A i \in shown \cup staying :
        i \in Mappable /\ project.config \in Configs /\ i \in open[project.config]

\* Up to its cursor, the walk of a poll under the present generation is covered,
\* and the page in hand leaves out nothing that lies before its last report. The
\* stored cursor is not ahead of the forward walk.
WalkOk(p) ==
    poll[p].gen = project.gen =>
        /\ poll[p].at \in {"forward", "forwardPage"} => Reached(rows, shown, poll[p].cursor)
        /\ poll[p].at \in {"again", "againPage"} => Reached(rows, staying, poll[p].cursor)
        /\ poll[p].at \in {"forward", "forwardPage"} /\ st # NoState =>
               st.cursor <= poll[p].cursor
        /\ poll[p].at = "forwardPage" => PageHolds(poll[p].page, poll[p].cursor, shown)
        /\ poll[p].at = "againPage" => PageHolds(poll[p].page, poll[p].cursor, staying)

\* So are the stored walks, up to the stored cursors.
StoredOk ==
    st # NoState => /\ Reached(rows, shown, st.cursor)
                    /\ st.walking => Reached(rows, staying, st.rewalk)

WalkInv == AtMostOne /\ Tracked /\ (\A p \in Pollers : WalkOk(p)) /\ StoredOk

LEMMA TrackedAreIds == Tracked => shown \subseteq Ids /\ staying \subseteq Ids
  BY DEF Tracked, Mappable

\* While one poll holds the lock, or takes it when it is free, it is the only
\* one whose walk changes.
LEMMA OnlyPoll ==
    ASSUME WalkInv, NEW p \in Pollers, Begun(p) \/ LockFree,
           \A q \in Pollers \ {p} : poll'[q] = poll[q], WalkOk(p)'
    PROVE  AtMostOne' /\ \A q \in Pollers : WalkOk(q)'
<1>1. \A q \in Pollers \ {p} : ~Begun(q)
  BY DEF WalkInv, AtMostOne, Begun, LockFree
<1>2. \A q \in Pollers \ {p} : ~Begun(q)'
  BY <1>1 DEF Begun
<1>3. ASSUME NEW q \in Pollers \ {p}
      PROVE  WalkOk(q)'
  BY <1>2 DEF WalkOk, Begun
<1>4. QED
  BY <1>2, <1>3 DEF AtMostOne

\* A step that is not a poll's keeps the walks, if the reports it takes away
\* leave the histories and the rows of the others stay.
LEMMA Shrinks ==
    ASSUME WalkInv, poll' = poll, project'.gen = project.gen, Tracked',
           shown' \subseteq shown, staying' \subseteq staying,
           \A i \in shown' \cup staying' : rows[i] # NoRow => rows'[i] # NoRow,
           \/ st' = NoState
           \/ /\ st # NoState /\ st'.cursor = st.cursor
              /\ st'.rewalk = st.rewalk /\ st'.walking = st.walking
    PROVE  WalkInv'
<1>1. ASSUME NEW c
      PROVE  /\ Reached(rows, shown, c) => Reached(rows', shown', c)
             /\ Reached(rows, staying, c) => Reached(rows', staying', c)
  BY DEF Reached
<1>2. ASSUME NEW page, NEW c
      PROVE  /\ PageHolds(page, c, shown) => PageHolds(page, c, shown')
             /\ PageHolds(page, c, staying) => PageHolds(page, c, staying')
  BY DEF PageHolds
<1>3. \A p \in Pollers : WalkOk(p)'
  BY <1>1, <1>2 DEF WalkInv, WalkOk
<1>4. StoredOk'
  BY <1>1 DEF WalkInv, StoredOk
<1>5. AtMostOne'
  BY DEF WalkInv, AtMostOne, Begun
<1>6. QED
  BY <1>3, <1>4, <1>5 DEF WalkInv

\* A poll's step outside its walks: nothing but its own place changes, or it
\* writes a checkpoint whose walks are where they were or start over.
LEMMA Leaves ==
    ASSUME WalkInv, NEW p \in Pollers, Begun(p),
           \A q \in Pollers \ {p} : poll'[q] = poll[q],
           poll'[p].at \notin {"forward", "forwardPage", "again", "againPage"},
           UNCHANGED <<project, rows, open, shown, staying>>,
           \/ st' = st
           \/ /\ st'.cursor = 0 \/ (st # NoState /\ st'.cursor = st.cursor)
              /\ \/ ~st'.walking \/ st'.rewalk = 0
                 \/ st # NoState /\ st.walking /\ st'.rewalk = st.rewalk
    PROVE  WalkInv'
<1>1. WalkOk(p)'
  BY DEF WalkOk
<1>2. AtMostOne' /\ \A q \in Pollers : WalkOk(q)'
  BY <1>1, OnlyPoll
<1>3. Tracked'
  BY DEF WalkInv, Tracked
<1>4. StoredOk'
  <2>1. Reached(rows, shown, 0) /\ Reached(rows, staying, 0)
    BY TrackedAreIds, NothingReached DEF WalkInv
  <2>2. QED
    BY <2>1 DEF WalkInv, StoredOk
<1>5. QED
  BY <1>2, <1>3, <1>4 DEF WalkInv

\* What a fenced transaction updates: the present checkpoint or a new one.
LEMMA StoredCases ==
    ASSUME FenceInv, NEW p \in Pollers, Begun(p), Fenced(p)
    PROVE  /\ Stored(p) \in State
           /\ \/ st # NoState /\ Stored(p) = st
              \/ st = NoState /\ Stored(p).cursor = 0 /\ ~Stored(p).walking /\ Stored(p).rewalk = 0
<1>1. Stored(p) \in State
  BY StoredIsCurrent
<1>2. st # NoState => st.gen = poll[p].gen
  BY DEF FenceInv, CheckpointIsCurrent, Fenced
<1>3. QED
  BY <1>1, <1>2 DEF Stored, NewState

-----------------------------------------------------------------------------
(* The steps of a poll keep the walks covered. *)

LEMMA FetchWalk ==
    ASSUME FenceInv, WalkInv, NEW p \in Pollers, Fetch(p)
    PROVE  WalkInv'
<1> DEFINE page == PageAfter(open[poll[p].config], poll[p].cursor)
<1>1. /\ poll \in [Pollers -> PollRecord] /\ poll[p].cursor \in 0 .. N
      /\ Begun(p) /\ poll[p].config \in Configs /\ open[poll[p].config] \in SUBSET Ids
  BY DEF FenceInv, Typed, PollRecord, PollsCurrent, Fetch, Walks, Begun
<1>2. /\ UNCHANGED <<project, st, rows, open, staying>>
      /\ poll' = [poll EXCEPT ![p].at = PageOf(@), ![p].page = page]
      /\ poll[p].at \in {"forward", "again"}
      /\ shown' = IF poll[p].at = "forward" /\ poll[p].gen = project.gen
                  THEN shown \cup (page \ Unmappable) ELSE shown
  BY DEF Fetch, Walks
<1>3. page \subseteq open[poll[p].config] /\ \A i \in page : i > poll[p].cursor
  BY DEF PageAfter
<1>4. PageHolds(page, poll[p].cursor, open[poll[p].config])
  BY <1>1, PageCovers
<1> HIDE DEF page
<1>5. /\ poll'[p].gen = poll[p].gen /\ poll'[p].cursor = poll[p].cursor /\ poll'[p].page = page
      /\ poll'[p].at = PageOf(poll[p].at)
      /\ \A q \in Pollers \ {p} : poll'[q] = poll[q]
  BY <1>1, <1>2 DEF PollRecord
<1>6. poll[p].gen = project.gen => poll[p].config = project.config
  BY <1>1 DEF FenceInv, PollsCurrent
<1>7. Tracked'
  BY <1>1, <1>2, <1>3, <1>6 DEF WalkInv, Tracked, Mappable
<1>8. \A i \in shown' \ shown : poll[p].gen = project.gen /\ poll[p].at = "forward" /\ i \in page
  BY <1>2
<1>9. WalkOk(p)'
  <2> SUFFICES ASSUME poll[p].gen = project.gen
               PROVE  WalkOk(p)'
    BY <1>2, <1>5 DEF WalkOk
  <2>1. shown' \subseteq open[poll[p].config] /\ staying' \subseteq open[poll[p].config]
    BY <1>2, <1>6, <1>7 DEF Tracked
  <2>2. PageHolds(page, poll[p].cursor, shown') /\ PageHolds(page, poll[p].cursor, staying')
    BY <1>4, <2>1, HoldsKept
  <2>3. CASE poll[p].at = "forward"
    <3>1. Reached(rows, shown, poll[p].cursor)
      BY <2>3 DEF WalkInv, WalkOk
    <3>2. ASSUME NEW i \in shown', i <= poll[p].cursor
          PROVE  rows[i] # NoRow
      <4>1. CASE i \in shown
        BY <3>1, <3>2, <4>1 DEF Reached
      <4>2. CASE i \in page
        <5>1. i > poll[p].cursor /\ i \in Nat /\ poll[p].cursor \in Nat
          BY <1>1, <1>3, <4>2, IngestAssumption DEF Ids
        <5>2. QED
          BY <3>2, <5>1
      <4>3. QED
        BY <1>8, <4>1, <4>2
    <3>3. Reached(rows', shown', poll'[p].cursor)
      BY <1>2, <1>5, <3>2 DEF Reached
    <3>4. poll'[p].at = "forwardPage"
      BY <1>5, <2>3 DEF PageOf
    <3>5. st' # NoState => st'.cursor <= poll'[p].cursor
      BY <1>2, <1>5, <2>3 DEF WalkInv, WalkOk
    <3>6. QED
      BY <1>5, <2>2, <3>3, <3>4, <3>5 DEF WalkOk
  <2>4. CASE poll[p].at = "again"
    <3>1. Reached(rows', staying', poll'[p].cursor)
      BY <1>2, <1>5, <2>4 DEF WalkInv, WalkOk
    <3>2. poll'[p].at = "againPage"
      BY <1>5, <2>4 DEF PageOf
    <3>3. QED
      BY <1>5, <2>2, <3>1, <3>2 DEF WalkOk
  <2>5. QED
    BY <1>2, <2>3, <2>4
<1>10. AtMostOne' /\ \A q \in Pollers : WalkOk(q)'
  BY <1>1, <1>5, <1>9, OnlyPoll
<1>11. StoredOk'
  <2> SUFFICES ASSUME st # NoState
               PROVE  Reached(rows, shown', st.cursor)
    BY <1>2 DEF WalkInv, StoredOk
  <2>1. Reached(rows, shown, st.cursor)
    BY DEF WalkInv, StoredOk
  <2>2. ASSUME NEW i \in shown' \ shown
        PROVE  ~ (i <= st.cursor)
    <3>1. st.cursor <= poll[p].cursor
      BY <1>8, <2>2 DEF WalkInv, WalkOk
    <3>2. i > poll[p].cursor /\ i \in 1 .. N
      BY <1>1, <1>3, <1>8, <2>2 DEF Ids
    <3>3. st.cursor \in 0 .. N
      BY DEF FenceInv, Typed, State
    <3>4. QED
      BY <1>1, <3>1, <3>2, <3>3, IngestAssumption
  <2>3. QED
    BY <2>1, <2>2 DEF Reached
<1>12. QED
  BY <1>7, <1>10, <1>11 DEF WalkInv

\* A page of either walk, once written, leaves every row it held and had.
LEMMA PageWritten ==
    ASSUME FenceInv, WalkInv, NEW p \in Pollers, Begun(p), rows' = Imported(p)
    PROVE  \A i \in shown \cup staying : rows[i] # NoRow \/ i \in poll[p].page => rows'[i] # NoRow
<1>1. [from |-> poll[p].config, live |-> TRUE, analysed |-> FALSE] \in Import
  BY DEF FenceInv, PollsCurrent, Import
<1>2. [from |-> poll[p].config, live |-> TRUE, analysed |-> FALSE] # NoRow
  BY <1>1, ImportAssumption
<1>3. QED
  BY <1>2 DEF Imported, WalkInv, Tracked, Mappable

LEMMA ForwardWalk ==
    ASSUME FenceInv, WalkInv, NEW p \in Pollers, ForwardPage(p)
    PROVE  WalkInv'
<1>1. /\ poll \in [Pollers -> PollRecord] /\ Begun(p) /\ Fenced(p)
      /\ poll[p].gen = project.gen /\ poll[p].at = "forwardPage"
      /\ poll[p].cursor \in 0 .. N /\ poll[p].page \in SUBSET Ids
  BY DEF FenceInv, Typed, PollRecord, ForwardPage, Commits, Fenced, Begun
<1>2. /\ UNCHANGED <<project, open, shown, staying>>
      /\ st' = ForwardState(p) /\ rows' = Imported(p)
  BY DEF ForwardPage, Commits, histVars
<1>3. /\ poll'[p].at \in {"rewalk", "forward"} /\ poll'[p].gen = poll[p].gen
      /\ poll'[p].cursor = NextCursor(p, poll[p].cursor)
      /\ \A q \in Pollers \ {p} : poll'[q] = poll[q]
  BY <1>1 DEF ForwardPage, PollRecord
<1>4. /\ Reached(rows, shown, poll[p].cursor) /\ PageHolds(poll[p].page, poll[p].cursor, shown)
      /\ st # NoState => st.cursor <= poll[p].cursor
  BY <1>1 DEF WalkInv, WalkOk
<1>5. \A i \in shown \cup staying : rows[i] # NoRow \/ i \in poll[p].page => rows'[i] # NoRow
  BY <1>1, <1>2, PageWritten
<1>6. shown \subseteq Ids /\ staying \subseteq Ids
  BY TrackedAreIds DEF WalkInv
<1>7. poll[p].page # {} => Reached(rows', shown, Max(poll[p].page))
  BY <1>1, <1>4, <1>5, <1>6, PageReached
<1>8. ASSUME NEW c
      PROVE  /\ Reached(rows, shown, c) => Reached(rows', shown, c)
             /\ Reached(rows, staying, c) => Reached(rows', staying, c)
  BY <1>5 DEF Reached
<1>9. \A c : Reached(rows, shown, c) => Reached(rows', shown, NextCursor(p, c))
  BY <1>7, <1>8 DEF NextCursor
<1>10. PICK d \in State : /\ d = Stored(p)
                          /\ \/ st # NoState /\ d = st
                             \/ st = NoState /\ d.cursor = 0 /\ ~d.walking /\ d.rewalk = 0
  BY <1>1, StoredCases
<1>11. st' = [d EXCEPT !.cursor = NextCursor(p, d.cursor)]
  BY <1>2, <1>10 DEF ForwardState
<1>12. /\ st'.cursor = NextCursor(p, d.cursor) /\ st'.walking = d.walking
       /\ st'.rewalk = d.rewalk
  BY <1>11 DEF State
<1>13. d.cursor <= poll[p].cursor /\ Reached(rows, shown, d.cursor)
  <2>1. Reached(rows, shown, 0)
    BY <1>6, NothingReached
  <2>2. QED
    BY <1>1, <1>4, <1>10, <2>1 DEF WalkInv, StoredOk
<1>14. StoredOk'
  BY <1>2, <1>8, <1>9, <1>10, <1>12, <1>13 DEF WalkInv, StoredOk
<1>15. st'.cursor <= poll'[p].cursor
  <2>1. CASE poll[p].page = {}
    BY <1>3, <1>12, <1>13, <2>1 DEF NextCursor
  <2>2. CASE poll[p].page # {}
    <3>1. st'.cursor = Max(poll[p].page) /\ poll'[p].cursor = Max(poll[p].page)
      BY <1>3, <1>12, <2>2 DEF NextCursor
    <3>2. Max(poll[p].page) \in 1 .. N
      BY <1>1, <2>2, LastIsAnId DEF Ids
    <3>3. QED
      BY <3>1, <3>2
  <2>3. QED
    BY <2>1, <2>2
<1>16. WalkOk(p)'
  BY <1>2, <1>3, <1>4, <1>9, <1>15 DEF WalkOk
<1>17. AtMostOne' /\ \A q \in Pollers : WalkOk(q)'
  BY <1>1, <1>3, <1>16, OnlyPoll
<1>18. Tracked'
  BY <1>2 DEF WalkInv, Tracked
<1>19. QED
  BY <1>14, <1>17, <1>18 DEF WalkInv

\* The page that completes a re-walk leaves every report it was about imported.
LEMMA AgainWalk ==
    ASSUME FenceInv, WalkInv, NEW p \in Pollers, AgainPage(p)
    PROVE  /\ WalkInv'
           /\ st # NoState /\ st.walking /\ ~st'.walking =>
                  \A i \in staying : rows'[i] # NoRow
<1>1. /\ poll \in [Pollers -> PollRecord] /\ Begun(p) /\ Fenced(p)
      /\ poll[p].gen = project.gen /\ poll[p].at = "againPage"
      /\ poll[p].cursor \in 0 .. N /\ poll[p].page \in SUBSET Ids
  BY DEF FenceInv, Typed, PollRecord, AgainPage, Commits, Fenced, Begun
<1>2. /\ UNCHANGED <<project, open, shown, staying>>
      /\ st' = AgainState(p) /\ rows' = Imported(p)
  BY DEF AgainPage, Commits, histVars
<1>3. /\ poll'[p].at \in {"finish", "again"} /\ poll'[p].gen = poll[p].gen
      /\ poll'[p].cursor = NextCursor(p, poll[p].cursor)
      /\ \A q \in Pollers \ {p} : poll'[q] = poll[q]
  BY <1>1 DEF AgainPage, PollRecord
<1>4. /\ Reached(rows, staying, poll[p].cursor)
      /\ PageHolds(poll[p].page, poll[p].cursor, staying)
  BY <1>1 DEF WalkInv, WalkOk
<1>5. \A i \in shown \cup staying : rows[i] # NoRow \/ i \in poll[p].page => rows'[i] # NoRow
  BY <1>1, <1>2, PageWritten
<1>6. shown \subseteq Ids /\ staying \subseteq Ids
  BY TrackedAreIds DEF WalkInv
<1>7. /\ poll[p].page # {} => Reached(rows', staying, Max(poll[p].page))
      /\ WalkEnds(p) => \A i \in staying : rows'[i] # NoRow
  BY <1>1, <1>4, <1>5, <1>6, PageReached DEF WalkEnds
<1>8. ASSUME NEW c
      PROVE  /\ Reached(rows, shown, c) => Reached(rows', shown, c)
             /\ Reached(rows, staying, c) => Reached(rows', staying, c)
  BY <1>5 DEF Reached
<1>9. \A c : Reached(rows, staying, c) => Reached(rows', staying, NextCursor(p, c))
  BY <1>7, <1>8 DEF NextCursor
<1>10. PICK d \in State : /\ d = Stored(p)
                          /\ \/ st # NoState /\ d = st
                             \/ st = NoState /\ d.cursor = 0 /\ ~d.walking /\ d.rewalk = 0
  BY <1>1, StoredCases
<1>11. st' = IF WalkEnds(p)
             THEN [d EXCEPT !.walking = FALSE, !.rewalk = 0, !.due = d.overdue]
             ELSE [d EXCEPT !.rewalk = NextCursor(p, d.rewalk)]
  BY <1>2, <1>10 DEF AgainState
<1>12. /\ st'.cursor = d.cursor
       /\ WalkEnds(p) => ~st'.walking
       /\ ~WalkEnds(p) => st'.walking = d.walking /\ st'.rewalk = NextCursor(p, d.rewalk)
  BY <1>11 DEF State
<1>13. StoredOk'
  <2>1. Reached(rows', shown, 0)
    BY <1>6, NothingReached
  <2>2. QED
    BY <1>2, <1>8, <1>9, <1>10, <1>12, <2>1 DEF WalkInv, StoredOk
<1>14. WalkOk(p)'
  BY <1>2, <1>3, <1>4, <1>9 DEF WalkOk
<1>15. AtMostOne' /\ \A q \in Pollers : WalkOk(q)'
  BY <1>1, <1>3, <1>14, OnlyPoll
<1>16. Tracked'
  BY <1>2 DEF WalkInv, Tracked
<1>17. QED
  BY <1>7, <1>10, <1>12, <1>13, <1>15, <1>16 DEF WalkInv

LEMMA RewalkWalk ==
    ASSUME FenceInv, WalkInv, NEW p \in Pollers, Rewalk(p)
    PROVE  WalkInv'
<1>1. poll \in [Pollers -> PollRecord] /\ Begun(p)
  BY DEF FenceInv, Typed, Rewalk, Begun
<1>2. UNCHANGED <<project, st, rows, open, shown, staying>>
  BY DEF Rewalk, histVars
<1>3. /\ poll'[p].at \in {"again", "rewalkStart", "finish"}
      /\ poll'[p].at = "again" => st # NoState /\ st.walking /\ poll'[p].cursor = st.rewalk
      /\ \A q \in Pollers \ {p} : poll'[q] = poll[q]
  BY <1>1 DEF Rewalk, PollRecord
<1>4. WalkOk(p)'
  BY <1>2, <1>3 DEF WalkInv, StoredOk, WalkOk
<1>5. AtMostOne' /\ \A q \in Pollers : WalkOk(q)'
  BY <1>1, <1>3, <1>4, OnlyPoll
<1>6. QED
  BY <1>2, <1>5 DEF WalkInv, Tracked, StoredOk

LEMMA RewalkStartWalk ==
    ASSUME FenceInv, WalkInv, NEW p \in Pollers, RewalkStart(p)
    PROVE  WalkInv' /\ st'.walking
<1>1. /\ poll \in [Pollers -> PollRecord] /\ Begun(p) /\ Fenced(p)
      /\ poll[p].gen = project.gen /\ poll[p].config = project.config
      /\ project.config \in Configs /\ open[project.config] \subseteq Ids
  BY DEF FenceInv, Typed, PollRecord, PollsCurrent, RewalkStart, Commits, Fenced, Begun
<1>2. /\ UNCHANGED <<project, rows, open, shown>>
      /\ st' = StartState(p) /\ staying' = open[project.config] \ Unmappable
  BY <1>1 DEF RewalkStart, Commits
<1>3. /\ poll'[p].at = "again" /\ poll'[p].cursor = 0
      /\ \A q \in Pollers \ {p} : poll'[q] = poll[q]
  BY <1>1 DEF RewalkStart, PollRecord
<1>4. Tracked'
  BY <1>1, <1>2 DEF WalkInv, Tracked, Mappable
<1>5. Reached(rows', staying', 0) /\ Reached(rows', shown, 0)
  <2>1. staying' \subseteq Ids /\ shown \subseteq Ids
    BY <1>1, <1>2, TrackedAreIds DEF WalkInv
  <2>2. QED
    BY <2>1, NothingReached
<1>6. WalkOk(p)'
  BY <1>3, <1>5 DEF WalkOk
<1>7. PICK d \in State : /\ d = Stored(p)
                         /\ \/ st # NoState /\ d = st
                            \/ st = NoState /\ d.cursor = 0 /\ ~d.walking /\ d.rewalk = 0
  BY <1>1, StoredCases
<1>8. st'.cursor = d.cursor /\ st'.rewalk = 0 /\ st'.walking
  BY <1>2, <1>7 DEF StartState, State
<1>9. StoredOk'
  BY <1>2, <1>5, <1>7, <1>8 DEF WalkInv, StoredOk
<1>10. AtMostOne' /\ \A q \in Pollers : WalkOk(q)'
  BY <1>1, <1>3, <1>6, OnlyPoll
<1>11. QED
  BY <1>4, <1>8, <1>9, <1>10 DEF WalkInv

\* A re-walk that this step completes has imported what stayed active.
Covers ==
    (st # NoState /\ st' # NoState /\ st.walking /\ ~st'.walking) =>
        \A i \in staying : rows'[i] # NoRow

LEMMA StepWalk ==
    ASSUME FenceInv, WalkInv, NEW p \in Pollers, Step(p) \/ Raises(p)
    PROVE  WalkInv' /\ Covers
<1> USE DEF histVars, threadVars
<1>1. poll \in [Pollers -> PollRecord]
  BY DEF FenceInv, Typed
<1>2. CASE Fetch(p)
  BY <1>2, FetchWalk DEF Fetch, Covers
<1>3. CASE ForwardPage(p)
  <2>1. Begun(p) /\ Fenced(p) /\ st' = ForwardState(p)
    BY <1>3 DEF ForwardPage, Commits, Begun
  <2>2. Covers
    BY <2>1, StoredCases DEF ForwardState, State, Covers
  <2>3. QED
    BY <1>3, <2>2, ForwardWalk
<1>4. CASE AgainPage(p)
  BY <1>4, AgainWalk DEF Covers
<1>5. CASE Rewalk(p)
  BY <1>5, RewalkWalk DEF Rewalk, Covers
<1>6. CASE RewalkStart(p)
  BY <1>6, RewalkStartWalk DEF Covers
<1>7. CASE Fence(p) \/ End(p) \/ Raises(p)
  <2>1. /\ Begun(p) /\ \A q \in Pollers \ {p} : poll'[q] = poll[q]
        /\ poll'[p].at \in {"idle", "finish", "ending"}
    <3>1. CASE Fence(p) \/ End(p)
      BY <1>1, <3>1 DEF Fence, End, Ends, NoPoll, Begun
    <3>2. CASE Raises(p)
      BY <1>1, <3>2 DEF Raises, PollRecord, Begun
    <3>3. QED
      BY <1>7, <3>1, <3>2
  <2>2. UNCHANGED <<project, st, rows, open, shown, staying>>
    BY <1>7 DEF Fence, End, Raises
  <2>3. QED
    BY <2>1, <2>2, Leaves DEF Covers
<1>8. CASE ForwardClear(p) \/ AgainClear(p) \/ Finish(p)
  <2>1. /\ Begun(p) /\ \A q \in Pollers \ {p} : poll'[q] = poll[q]
        /\ poll'[p].at \in {"finish", "ending"}
    BY <1>1, <1>8 DEF ForwardClear, AgainClear, Finish, PollRecord, Begun
  <2>2. UNCHANGED <<project, rows, open, shown, staying>> /\ Fenced(p)
    BY <1>8 DEF ForwardClear, AgainClear, Finish, Commits
  <2>3. PICK d \in State : /\ d = Stored(p)
                           /\ \/ st # NoState /\ d = st
                              \/ st = NoState /\ d.cursor = 0 /\ ~d.walking /\ d.rewalk = 0
    BY <2>1, <2>2, StoredCases
  <2>4. /\ st'.cursor = 0 \/ st'.cursor = d.cursor
        /\ st'.rewalk = 0 \/ st'.rewalk = d.rewalk
        /\ st'.walking <=> d.walking
    <3>1. CASE ForwardClear(p)
      BY <2>3, <3>1 DEF ForwardClear, Commits, State
    <3>2. CASE AgainClear(p)
      BY <2>3, <3>2 DEF AgainClear, Commits, State
    <3>3. CASE Finish(p)
      <4>1. PICK failures : st' = [d EXCEPT !.failures = failures]
        BY <2>3, <3>3 DEF Finish, Commits
      <4>2. QED
        BY <2>3, <4>1 DEF State
    <3>4. QED
      BY <1>8, <3>1, <3>2, <3>3
  <2>5. /\ st'.cursor = 0 \/ (st # NoState /\ st'.cursor = st.cursor)
        /\ \/ ~st'.walking \/ st'.rewalk = 0
           \/ st # NoState /\ st.walking /\ st'.rewalk = st.rewalk
    <3>1. CASE st # NoState /\ d = st
      BY <2>4, <3>1
    <3>2. CASE st = NoState /\ d.cursor = 0 /\ ~d.walking /\ d.rewalk = 0
      BY <2>4, <3>2
    <3>3. QED
      BY <2>3, <3>1, <3>2
  <2>6. WalkInv'
    BY <2>1, <2>2, <2>5, Leaves
  <2>7. QED
    BY <2>3, <2>4, <2>6 DEF Covers
<1>9. QED
  BY <1>2, <1>3, <1>4, <1>5, <1>6, <1>7, <1>8 DEF Step

LEMMA EntryWalk ==
    ASSUME FenceInv, WalkInv, NEW p \in Pollers,
           \/ \E full \in BOOLEAN : Ask(p, full)
           \/ Enter(p) \/ EnterWithoutCredential(p) \/ EnterUnconfigured(p)
           \/ \E badCursor \in BOOLEAN : FetchFails(p, badCursor)
    PROVE  WalkInv' /\ Covers
<1> USE DEF histVars, threadVars
<1>1. poll \in [Pollers -> PollRecord]
  BY DEF FenceInv, Typed
<1>2. UNCHANGED <<project, st, rows, open, shown, staying>>
  BY DEF Ask, Enter, EnterWithoutCredential, EnterUnconfigured, FetchFails
<1>3. \A q \in Pollers \ {p} : poll'[q] = poll[q]
  BY <1>1 DEF Ask, Enter, EnterWithoutCredential, EnterUnconfigured, FetchFails, Ends
<1>4. ASSUME AtMostOne' /\ \A q \in Pollers : WalkOk(q)'
      PROVE  WalkInv' /\ Covers
  BY <1>2, <1>4 DEF WalkInv, Tracked, StoredOk, Covers
<1>5. CASE (\E full \in BOOLEAN : Ask(p, full)) \/ EnterUnconfigured(p)
  <2>1. poll'[p].at \in {"idle", "waiting"}
    <3>1. CASE EnterUnconfigured(p)
      BY <1>1, <3>1 DEF EnterUnconfigured, Ends, NoPoll
    <3>2. ASSUME NEW full \in BOOLEAN, Ask(p, full)
          PROVE  poll'[p].at = "waiting"
      BY <1>1, <3>2 DEF Ask, NoPoll
    <3>3. QED
      BY <1>5, <3>1, <3>2
  <2>2. \A q \in Pollers : Begun(q)' => Begun(q) /\ q # p
    BY <1>3, <2>1 DEF Begun
  <2>3. AtMostOne'
    BY <2>2 DEF WalkInv, AtMostOne
  <2>4. \A q \in Pollers : WalkOk(q)'
    BY <1>2, <1>3, <2>1 DEF WalkInv, WalkOk
  <2>5. QED
    BY <1>4, <2>3, <2>4
<1>6. CASE Enter(p)
  <2>1. /\ LockFree /\ poll'[p].at = "forward"
        /\ poll'[p].cursor = IF st = NoState \/ st.gen # project.gen THEN 0 ELSE st.cursor
    BY <1>1, <1>6 DEF Enter, PollRecord
  <2>2. st # NoState => poll'[p].cursor = st.cursor /\ st.cursor \in 0 .. N
    BY <2>1 DEF FenceInv, CheckpointIsCurrent, Typed, State
  <2>3. Reached(rows, shown, 0)
    BY TrackedAreIds, NothingReached DEF WalkInv
  <2>4. WalkOk(p)'
    BY <1>2, <2>1, <2>2, <2>3 DEF WalkInv, StoredOk, WalkOk
  <2>5. QED
    BY <1>3, <1>4, <2>1, <2>4, OnlyPoll
<1>7. CASE EnterWithoutCredential(p) \/ \E badCursor \in BOOLEAN : FetchFails(p, badCursor)
  <2>1. /\ Begun(p) \/ LockFree
        /\ poll'[p].at \in {"forwardClear", "againClear", "finish"}
    <3>1. CASE EnterWithoutCredential(p)
      BY <1>1, <3>1 DEF EnterWithoutCredential, PollRecord
    <3>2. ASSUME NEW badCursor \in BOOLEAN, FetchFails(p, badCursor)
          PROVE  Begun(p) /\ poll'[p].at \in {"forwardClear", "againClear", "finish"}
      <4>1. poll[p].at \in {"forward", "again"} /\ poll[p] \in PollRecord
        BY <1>1, <3>2 DEF FetchFails, Walks
      <4>2. PICK at \in {"forwardClear", "againClear", "finish"} :
                poll' = [poll EXCEPT ![p].at = at, ![p].error = "error"]
        BY <3>2, <4>1 DEF FetchFails, ClearOf
      <4>3. poll'[p] = [poll[p] EXCEPT !.at = at, !.error = "error"]
        BY <1>1, <4>2
      <4>4. poll'[p].at = at
        BY <4>1, <4>3 DEF PollRecord
      <4>5. QED
        BY <4>1, <4>4 DEF Begun
    <3>3. QED
      BY <1>7, <3>1, <3>2
  <2>2. WalkOk(p)'
    BY <2>1 DEF WalkOk
  <2>3. QED
    BY <1>3, <1>4, <2>1, <2>2, OnlyPoll
<1>8. QED
  BY <1>5, <1>6, <1>7

LEMMA OtherWalk ==
    ASSUME FenceInv, WalkInv,
           \/ SkipTick \/ IntervalPasses
           \/ \E c \in Configs : \E i \in Ids : Opens(c, i) \/ Resolves(c, i)
           \/ \E x \in Patchers : \E new \in Configs \cup {NoConfig} : PatchReads(x, new)
           \/ \E i \in Analysable : Analyse(i)
           \/ \E i \in Ids : DeleteReport(i)
           \/ DeleteChecks \/ DeleteWrites \/ ThreadReused
    PROVE  WalkInv' /\ Covers
<1> USE DEF pollVars, histVars, boundVars, threadVars
<1>1. /\ project \in [here: BOOLEAN, config: Configs \cup {NoConfig}, gen: Nat]
      /\ rows \in [Ids -> Import \cup {NoRow}] /\ open \in [Configs -> SUBSET Ids]
      /\ st \in State \cup {NoState}
  BY DEF FenceInv, Typed
<1>2. CASE SkipTick \/ DeleteChecks
           \/ \E x \in Patchers : \E new \in Configs \cup {NoConfig} : PatchReads(x, new)
  <2>1. UNCHANGED <<project, st, rows, open, poll, shown, staying>>
    BY <1>2 DEF SkipTick, DeleteChecks, PatchReads
  <2>2. QED
    BY <2>1 DEF WalkInv, AtMostOne, Begun, Tracked, WalkOk, StoredOk, Covers
<1>3. CASE IntervalPasses
  <2>1. UNCHANGED <<project, rows, open, poll, shown, staying>>
    BY <1>3 DEF IntervalPasses
  <2>2. /\ st # NoState /\ st'.cursor = st.cursor
        /\ st'.rewalk = st.rewalk /\ st'.walking = st.walking
    BY <1>1, <1>3 DEF IntervalPasses, State
  <2>3. Tracked'
    BY <2>1 DEF WalkInv, Tracked
  <2>4. QED
    BY <2>1, <2>2, <2>3, Shrinks DEF Covers
<1>4. ASSUME NEW c \in Configs, NEW i \in Ids, Opens(c, i) \/ Resolves(c, i)
      PROVE  WalkInv' /\ Covers
  <2>1. /\ UNCHANGED <<project, st, rows, poll>>
        /\ shown' \subseteq shown /\ staying' \subseteq staying
    BY <1>4 DEF Opens, Resolves
  <2>2. Tracked'
    <3>1. CASE Opens(c, i)
      BY <1>1, <3>1 DEF Opens, WalkInv, Tracked
    <3>2. CASE Resolves(c, i)
      BY <1>1, <3>2 DEF Resolves, WalkInv, Tracked
    <3>3. QED
      BY <1>4, <3>1, <3>2
  <2>3. WalkInv'
    <3>1. ASSUME st # NoState
          PROVE  /\ st'.cursor = st.cursor
                 /\ st'.rewalk = st.rewalk /\ st'.walking = st.walking
      BY <2>1
    <3>2. QED
      BY <2>1, <2>2, <3>1, Shrinks
  <2>4. QED
    BY <2>1, <2>3 DEF Covers
<1>5. CASE (\E i \in Analysable : Analyse(i)) \/ (\E i \in Ids : DeleteReport(i))
  <2>1. UNCHANGED <<project, st, open, poll, shown, staying>>
    BY <1>5 DEF Analyse, DeleteReport
  <2>2. \A i \in Ids : rows[i] # NoRow => rows'[i] # NoRow
    <3>1. PICK j \in Ids, new \in Import : rows' = [rows EXCEPT ![j] = new]
      <4>1. \A j \in Live : /\ rows[j] \in Import
                            /\ [rows[j] EXCEPT !.analysed = TRUE] \in Import
                            /\ [rows[j] EXCEPT !.live = FALSE] \in Import
        BY <1>1 DEF Live, Import
      <4>2. QED
        BY <1>5, <4>1 DEF Analyse, DeleteReport, Live
    <3>2. QED
      BY <1>1, <3>1, ImportAssumption
  <2>3. Tracked'
    BY <2>1 DEF WalkInv, Tracked
  <2>4. shown \subseteq Ids /\ staying \subseteq Ids
    BY TrackedAreIds DEF WalkInv
  <2>5. WalkInv'
    BY <2>1, <2>2, <2>3, <2>4, Shrinks
  <2>6. QED
    BY <2>1, <2>5 DEF Covers
<1>6. CASE DeleteWrites \/ ThreadReused
  <2>1. UNCHANGED <<open, poll>> /\ project'.gen = project.gen /\ project'.config = project.config
    BY <1>1, <1>6 DEF DeleteWrites, ThreadReused
  <2>2. CASE UNCHANGED <<st, rows, shown, staying>>
    <3>1. Tracked'
      BY <2>1, <2>2 DEF WalkInv, Tracked
    <3>2. QED
      BY <2>1, <2>2, <3>1, Shrinks DEF Covers
  <2>3. CASE Purge
    <3>1. Tracked'
      BY <2>1, <2>3 DEF Purge, WalkInv, Tracked
    <3>2. /\ shown' \subseteq shown /\ staying' \subseteq staying /\ st' = NoState
          /\ shown' \subseteq Ids /\ staying' \subseteq Ids
          /\ \A i \in shown' \cup staying' : i \notin Dead
      BY <2>3, TrackedAreIds DEF Purge, WalkInv
    <3>3. \A i \in shown' \cup staying' : rows[i] # NoRow => rows'[i] # NoRow
      BY <2>3, <3>2 DEF Purge
    <3>4. QED
      BY <2>1, <3>1, <3>2, <3>3, Shrinks DEF Covers
  <2>4. QED
    BY <1>6, <2>2, <2>3 DEF DeleteWrites, ThreadReused
<1>7. QED
  BY <1>2, <1>3, <1>4, <1>5, <1>6

\* A PATCH that changes the pair empties the histories with the checkpoint.
LEMMA PatchWalk ==
    ASSUME FenceInv, WalkInv, NEW x \in Patchers, PatchWrites(x)
    PROVE  WalkInv' /\ Covers
<1> USE DEF pollVars, histVars
<1>1. UNCHANGED <<rows, open, poll>>
  BY DEF PatchWrites
<1>2. CASE UNCHANGED <<project, st, shown, staying>>
  BY <1>1, <1>2 DEF WalkInv, AtMostOne, Begun, Tracked, WalkOk, StoredOk, Covers
<1>3. CASE Reset
  BY <1>1, <1>3 DEF Reset, WalkInv, AtMostOne, Begun, Tracked, WalkOk, StoredOk, Covers,
                    Reached, PageHolds
<1>4. CASE /\ project' = [project EXCEPT !.config = patch[x].new,
                              !.gen = IF patch[x].changed THEN @ + 1 ELSE @]
           /\ ~patch[x].changed /\ UNCHANGED <<st, histVars>>
  <2>1. patch[x].new = project.config
    BY <1>4 DEF FenceInv, PatchesCurrent, PatchWrites
  <2>2. project' = project
    BY <1>4, <2>1 DEF FenceInv, Typed
  <2>3. QED
    BY <1>2, <1>4, <2>2
<1>5. QED
  BY <1>2, <1>3, <1>4 DEF PatchWrites

LEMMA CrashWalk == ASSUME WalkInv, Crash PROVE WalkInv' /\ Covers
<1>1. UNCHANGED <<project, st, rows, open, shown, staying>>
  BY DEF Crash, histVars
<1>2. \A q \in Pollers : poll'[q].at = "idle"
  BY DEF Crash, NoPoll
<1>3. AtMostOne' /\ \A q \in Pollers : WalkOk(q)'
  BY <1>2 DEF AtMostOne, Begun, WalkOk
<1>4. QED
  BY <1>1, <1>3 DEF WalkInv, Tracked, StoredOk, Covers

LEMMA NextWalk == ASSUME FenceInv, WalkInv, [Next]_vars PROVE WalkInv' /\ Covers
<1>1. CASE UNCHANGED vars
  BY <1>1 DEF vars, pollVars, threadVars, histVars, WalkInv, AtMostOne, Begun, Tracked, WalkOk,
              StoredOk, Covers
<1>2. CASE \E p \in Pollers : Step(p) \/ Raises(p)
  BY <1>2, StepWalk
<1>3. CASE \E p \in Pollers : \/ \E full \in BOOLEAN : Ask(p, full)
                              \/ Enter(p) \/ EnterWithoutCredential(p) \/ EnterUnconfigured(p)
                              \/ \E badCursor \in BOOLEAN : FetchFails(p, badCursor)
  BY <1>3, EntryWalk
<1>4. CASE \/ SkipTick \/ IntervalPasses
           \/ \E c \in Configs : \E i \in Ids : Opens(c, i) \/ Resolves(c, i)
           \/ \E x \in Patchers : \E new \in Configs \cup {NoConfig} : PatchReads(x, new)
           \/ \E i \in Analysable : Analyse(i)
           \/ \E i \in Ids : DeleteReport(i)
           \/ DeleteChecks \/ DeleteWrites \/ ThreadReused
  BY <1>4, OtherWalk
<1>5. CASE \E x \in Patchers : PatchWrites(x)
  BY <1>5, PatchWalk
<1>6. CASE Crash
  BY <1>6, CrashWalk
<1>7. QED
  BY <1>1, <1>2, <1>3, <1>4, <1>5, <1>6 DEF Next

LEMMA InitWalk == Init => WalkInv
<1>1. ASSUME Init PROVE \A p \in Pollers : poll[p].at = "idle"
  BY <1>1 DEF Init, NoPoll
<1>2. QED
  BY <1>1 DEF Init, WalkInv, AtMostOne, Begun, Tracked, WalkOk, StoredOk

\* If no two PATCH requests overlap, a report that the forward walk was shown,
\* that stayed active and that the stored cursor has passed is imported: neither a
\* failed transaction, a bad cursor nor a restart makes the cursor skip one.
THEOREM ForwardComplete ==
    ASSUME \A x, y \in Patchers : x = y
    PROVE  Spec => []ForwardNeverSkips
<1>1. FenceInv /\ [Next]_vars => FenceInv'
  BY NextFence
<1>2. FenceInv /\ WalkInv /\ [Next]_vars => WalkInv'
  BY NextWalk
<1>3. WalkInv => ForwardNeverSkips
  BY DEF WalkInv, StoredOk, Reached, ForwardNeverSkips
<1>4. QED
  BY InitFence, InitWalk, <1>1, <1>2, <1>3, PTL DEF Spec

\* Under the same assumption a re-walk completes only when every report that was
\* active from its first page to its last is imported, over however many polls,
\* failures and restarts it was spread.
THEOREM RewalkComplete ==
    ASSUME \A x, y \in Patchers : x = y
    PROVE  Spec => RewalkCovers
<1>1. FenceInv /\ [Next]_vars => FenceInv'
  BY NextFence
<1>2. FenceInv /\ WalkInv /\ [Next]_vars => WalkInv'
  BY NextWalk
<1>3. FenceInv /\ WalkInv /\ [Next]_vars =>
          [(st # NoState /\ st' # NoState /\ st.walking /\ ~st'.walking) =>
               \A i \in staying : rows'[i] # NoRow]_vars
  BY NextWalk DEF Covers
<1>4. QED
  BY InitFence, InitWalk, <1>1, <1>2, <1>3, PTL DEF Spec, RewalkCovers

=============================================================================
