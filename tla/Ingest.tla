------------------------------- MODULE Ingest -------------------------------
(***************************************************************************)
(* The ingest poller of one project (ingest/poller.py): a forward walk     *)
(* from the stored cursor, a reconciliation re-walk with its own cursor,   *)
(* and the bookkeeping, each page written by db.ingest_commit in one       *)
(* transaction fenced by the project's ingest generation.                  *)
(*                                                                         *)
(* Polls are coroutines serialised by the per-project lock: the background *)
(* tick and manual runs. PATCH and DELETE of the project and DELETE of a   *)
(* report are threads and may come between any two statements of a poll.   *)
(* The source (sonicgrid) is external: a list of active reports in         *)
(* (created_at, id) order, which lets a report appear behind a cursor      *)
(* (late insert, reopening) and disappear (resolution).                    *)
(***************************************************************************)
EXTENDS Integers, FiniteSets, FiniteSetsExt

CONSTANTS
    Configs,        \* poll identities: ingest_source with the url and credential
    NoConfig,       \* no ingest source
    NoRow,          \* no bug report with that external id
    NoState,        \* no ingest_state row
    Tick,           \* the background loop
    Manual,         \* concurrent POST /ingest/run requests
    Patchers,       \* concurrent PATCH requests
    N,              \* the source's report ids are 1..N, in cursor order
    Unmappable,     \* ids of malformed reports (map_report gives None)
    PageLimit,      \* ingest_page_limit
    MaxPages,       \* ingest_max_pages
    RewalkPages,    \* ingest_rewalk_pages
    MaxBackoff,     \* MAX_BACKOFF_TICKS
    Analysable,     \* bound: the imports the pipeline gets to
    MaxChanges,     \* bound: changes at the source
    MaxErrors,      \* bound: failed requests and failed transactions
    MaxPatches,     \* bound: PATCH requests that name the ingest pair
    MaxDeletes,     \* bound: DELETE requests (reports and project)
    MaxCrashes      \* bound: process crashes

ASSUME IngestAssumption ==
    /\ {N, PageLimit, MaxPages, RewalkPages, MaxBackoff} \subseteq Nat \ {0}
    /\ {MaxChanges, MaxErrors, MaxPatches, MaxDeletes, MaxCrashes} \subseteq Nat
    /\ Unmappable \subseteq 1 .. N /\ Analysable \subseteq 1 .. N
    /\ NoConfig \notin Configs
    /\ Tick \notin Manual

VARIABLES
    project,  \* the projects row: here, config, gen (ingest_generation)
    st,       \* the ingest_state row
    rows,     \* external id -> its bug_reports row
    open,     \* external: config -> the source's active reports
    poll,     \* poller -> its coroutine
    skip,     \* _skip[project]
    patch,    \* patcher -> its thread
    del,      \* the thread of DELETE /projects/{id}
    held,     \* the transaction that thread left open, if any
    shown,    \* history: reports of the present configuration's source that the
              \* forward walk was shown, active since
    staying,  \* history: reports active ever since the current re-walk began
    changes, errors, patches, deletes, crashes

pollVars == <<poll, skip>>
histVars == <<shown, staying>>
boundVars == <<changes, errors, patches, deletes, crashes>>
threadVars == <<patch, del, held>>
vars == <<project, st, rows, open, pollVars, threadVars, histVars, boundVars>>

Ids == 1 .. N
Pollers == Manual \cup {Tick}

\* An imported report: the source it came from; soft-deleted or not; named by
\* an analysis or a token_usage row or not
Import == [from: Configs, live: BOOLEAN, analysed: BOOLEAN]
ASSUME ImportAssumption == NoRow \notin Import

\* The checkpoint. Cursors are positions, 0: NULL. walking: rewalk_started_at is
\* set; due, overdue: ingest_rewalk_hours have passed since last_full_walk_at,
\* since rewalk_started_at. of: history, the configuration whose poll created it.
State == [gen: Nat, cursor: 0 .. N, rewalk: 0 .. N, walking: BOOLEAN,
          due: BOOLEAN, overdue: BOOLEAN, failures: Nat, of: Configs]
NewState(p) == [gen |-> poll[p].gen, cursor |-> 0, rewalk |-> 0, walking |-> FALSE,
                due |-> FALSE, overdue |-> FALSE, failures |-> 0, of |-> poll[p].config]

\* at: where the coroutine is; page, more: the page in hand and whether the walk
\* goes on after it; left: pages the walk may still fetch
Poll == [at: {"idle", "waiting", "forward", "forwardPage", "forwardClear", "rewalk",
              "rewalkStart", "again", "againPage", "againClear", "finish", "ending"},
         full: BOOLEAN, gen: Nat, config: Configs \cup {NoConfig}, cursor: 0 .. N,
         page: SUBSET Ids, left: Nat, error: {"none", "error", "internal", "lost"}]
NoPoll == [at |-> "idle", full |-> FALSE, gen |-> 0, config |-> NoConfig, cursor |-> 0,
           page |-> {}, left |-> 0, error |-> "none"]

Patch == [at: {"idle", "read"}, new: Configs \cup {NoConfig}, changed: BOOLEAN]
NoPatch == [at |-> "idle", new |-> NoConfig, changed |-> FALSE]

Live == {i \in Ids : rows[i] # NoRow /\ rows[i].live}
Dead == {i \in Ids : rows[i] # NoRow /\ ~rows[i].live}
Mappable == Ids \ Unmappable

Init ==
    /\ project \in [here: {TRUE}, config: Configs, gen: {0}]
    /\ st = NoState
    /\ rows = [i \in Ids |-> NoRow]
    /\ open \in [Configs -> SUBSET Ids]
    /\ poll = [p \in Pollers |-> NoPoll] /\ skip = 0
    /\ patch = [x \in Patchers |-> NoPatch] /\ del = "idle" /\ held = "none"
    /\ shown = {} /\ staying = {}
    /\ changes = 0 /\ errors = 0 /\ patches = 0 /\ deletes = 0 /\ crashes = 0

-----------------------------------------------------------------------------
(* A poll begins. *)

\* asyncio.Lock of the project
LockFree == \A p \in Pollers : poll[p].at \in {"idle", "waiting"}

Configured == project.here /\ project.config # NoConfig

\* run_tick, or POST /ingest/run after its 404 check
Ask(p, full) ==
    /\ poll[p].at = "idle" /\ Configured
    /\ p = Tick => ~full /\ skip = 0
    /\ poll' = [poll EXCEPT ![p] = [NoPoll EXCEPT !.at = "waiting", !.full = full]]
    /\ UNCHANGED <<project, st, rows, open, skip, threadVars, histVars, boundVars>>

\* run_tick passes a project over while it backs off
SkipTick ==
    /\ poll[Tick].at = "idle" /\ Configured
    /\ skip > 0 /\ skip' = skip - 1
    /\ UNCHANGED <<project, st, rows, open, poll, threadVars, histVars, boundVars>>

\* Faulty variant: the backoff has no cap.
BackoffUncapped(failures) == 2 ^ Max({failures, 1})

\* run_tick after poll_project: the ticks to pass over
Backoff(failures) ==
    LET ticks == 2 ^ Max({failures, 1}) IN
    IF ticks \in 0 .. MaxBackoff THEN ticks ELSE MaxBackoff

\* The coroutine of p ends with this outcome
Ends(p, failed, failures) ==
    /\ poll' = [poll EXCEPT ![p] = NoPoll]
    /\ skip' = IF p # Tick THEN skip ELSE IF failed THEN Backoff(failures) ELSE 0

\* poll_project under the lock: the configuration and the checkpoint are read
Enter(p) ==
    /\ poll[p].at = "waiting" /\ LockFree /\ Configured
    /\ poll' = [poll EXCEPT ![p] =
           [@ EXCEPT !.at = "forward", !.gen = project.gen, !.config = project.config,
                     !.left = MaxPages,
                     !.cursor = IF st = NoState \/ st.gen # project.gen THEN 0 ELSE st.cursor]]
    /\ UNCHANGED <<project, st, rows, open, skip, threadVars, histVars, boundVars>>

\* The credential's variable is empty
EnterWithoutCredential(p) ==
    /\ poll[p].at = "waiting" /\ LockFree /\ Configured
    /\ errors < MaxErrors /\ errors' = errors + 1
    /\ poll' = [poll EXCEPT ![p] =
           [@ EXCEPT !.at = "finish", !.gen = project.gen, !.config = project.config,
                     !.error = "error"]]
    /\ UNCHANGED <<project, st, rows, open, skip, threadVars, histVars,
                   changes, patches, deletes, crashes>>

\* NOT_CONFIGURED: cleared or deleted while the poll waited
EnterUnconfigured(p) ==
    /\ poll[p].at = "waiting" /\ LockFree /\ ~Configured
    /\ Ends(p, TRUE, 0)
    /\ UNCHANGED <<project, st, rows, open, threadVars, histVars, boundVars>>

-----------------------------------------------------------------------------
(* The source answers. *)

Walks == {"forward", "again"}
PageOf(walk) == IF walk = "forward" THEN "forwardPage" ELSE "againPage"
ClearOf(walk) == IF walk = "forward" THEN "forwardClear" ELSE "againClear"

\* External: the first PageLimit active reports after the cursor
PageAfter(active, cursor) ==
    {i \in active : i > cursor /\ Cardinality({j \in active : cursor < j /\ j < i}) < PageLimit}

Fetch(p) ==
    LET page == PageAfter(open[poll[p].config], poll[p].cursor) IN
    /\ poll[p].at \in Walks
    /\ poll' = [poll EXCEPT ![p].at = PageOf(@), ![p].page = page]
    /\ shown' = IF poll[p].at = "forward" /\ poll[p].gen = project.gen
                THEN shown \cup (page \ Unmappable) ELSE shown
    /\ UNCHANGED <<project, st, rows, open, skip, threadVars, staying, boundVars>>

\* Every other answer: the poll fails; BAD_CURSOR also clears the walk's cursor
FetchFails(p, badCursor) ==
    /\ poll[p].at \in Walks
    /\ badCursor => poll[p].cursor # 0
    /\ errors < MaxErrors /\ errors' = errors + 1
    /\ poll' = [poll EXCEPT ![p].at = IF badCursor THEN ClearOf(@) ELSE "finish",
                            ![p].error = "error"]
    /\ UNCHANGED <<project, st, rows, open, skip, threadVars, histVars,
                   changes, patches, deletes, crashes>>

-----------------------------------------------------------------------------
(* Writes: db.ingest_commit. *)

\* Faulty variant: the fence looks at the source only.
FencedBySource(p) == Configured

Fenced(p) == Configured /\ project.gen = poll[p].gen

\* The row the transaction updates: one of another generation is deleted first,
\* a missing one is inserted
Stored(p) == IF st = NoState \/ st.gen # poll[p].gen THEN NewState(p) ELSE st

\* Faulty variant: a malformed report ends the import of its page.
ImportedUpToMalformed(p) ==
    [i \in Ids |-> IF /\ rows[i] = NoRow /\ i \in poll[p].page \ Unmappable
                      /\ \A j \in poll[p].page \cap Unmappable : i < j
                   THEN [from |-> poll[p].config, live |-> TRUE, analysed |-> FALSE]
                   ELSE rows[i]]

\* INSERT ... ON CONFLICT(project_id, external_id) DO NOTHING for each mapped report
Imported(p) ==
    [i \in Ids |-> IF rows[i] = NoRow /\ i \in poll[p].page \ Unmappable
                   THEN [from |-> poll[p].config, live |-> TRUE, analysed |-> FALSE]
                   ELSE rows[i]]

\* The transaction commits
Commits(p, state, reports) ==
    /\ held = "none" /\ Fenced(p)
    /\ st' = state /\ rows' = reports
    /\ UNCHANGED <<project, open, skip, threadVars, boundVars>>

\* _Stale: nothing is written, the poll ends, and no backoff applies
Fence(p) ==
    /\ poll[p].at \in {"forwardPage", "forwardClear", "rewalkStart", "againPage",
                       "againClear", "finish"}
    /\ held = "none" /\ ~Fenced(p)
    /\ Ends(p, FALSE, 0)
    /\ UNCHANGED <<project, st, rows, open, threadVars, histVars, boundVars>>

\* The transaction raises and rolls back. The poll tries to record it; the
\* failure to record a failure is only logged.
Raises(p) ==
    /\ poll[p].at \in {"forwardPage", "forwardClear", "rewalkStart", "againPage",
                       "againClear", "finish"}
    /\ \/ held # "none" /\ errors' = errors
       \/ held = "none" /\ errors < MaxErrors /\ errors' = errors + 1
    /\ poll' = [poll EXCEPT ![p] = [@ EXCEPT !.page = {},
           !.at = IF poll[p].error = "internal" THEN "ending" ELSE "finish",
           !.error = IF poll[p].error = "internal" THEN "lost" ELSE "internal"]]
    /\ UNCHANGED <<project, st, rows, open, skip, threadVars, histVars,
                   changes, patches, deletes, crashes>>

\* _walk_ends: a null next_cursor (an empty page) or a short page
WalkEnds(p) == Cardinality(poll[p].page) < PageLimit

\* next_cursor, kept only when it is not null
NextCursor(p, old) == IF poll[p].page = {} THEN old ELSE Max(poll[p].page)

ForwardState(p) == [Stored(p) EXCEPT !.cursor = NextCursor(p, @)]

\* One page of _forward
ForwardPage(p) ==
    /\ poll[p].at = "forwardPage"
    /\ Commits(p, ForwardState(p), Imported(p))
    /\ poll' = [poll EXCEPT ![p] = [@ EXCEPT !.page = {}, !.left = poll[p].left - 1,
           !.cursor = NextCursor(p, poll[p].cursor),
           !.at = IF WalkEnds(p) \/ poll[p].left = 1 THEN "rewalk" ELSE "forward"]]
    /\ UNCHANGED histVars

ForwardClear(p) ==
    /\ poll[p].at = "forwardClear"
    /\ Commits(p, [Stored(p) EXCEPT !.cursor = 0], rows)
    /\ poll' = [poll EXCEPT ![p].at = "finish"]
    /\ UNCHANGED histVars

-----------------------------------------------------------------------------
(* The reconciliation re-walk. *)

\* _rewalk reads the checkpoint: it resumes, starts, or has nothing to do
Rewalk(p) ==
    LET walking == st # NoState /\ st.walking
        due == poll[p].full \/ (st # NoState /\ st.due)
    IN
    /\ poll[p].at = "rewalk"
    /\ poll' = [poll EXCEPT ![p] = [@ EXCEPT
           !.at = IF walking THEN "again" ELSE IF due THEN "rewalkStart" ELSE "finish",
           !.cursor = IF walking THEN st.rewalk ELSE 0, !.left = RewalkPages]]
    /\ UNCHANGED <<project, st, rows, open, skip, threadVars, histVars, boundVars>>

StartState(p) == [Stored(p) EXCEPT !.walking = TRUE, !.overdue = FALSE, !.rewalk = 0]

RewalkStart(p) ==
    /\ poll[p].at = "rewalkStart"
    /\ Commits(p, StartState(p), rows)
    /\ poll' = [poll EXCEPT ![p].at = "again", ![p].cursor = 0]
    /\ staying' = open[poll[p].config] \ Unmappable
    /\ UNCHANGED shown

\* Faulty variant: the re-walk is done when its pages of this poll are.
AgainStateCapped(p) ==
    IF WalkEnds(p) \/ poll[p].left = 1
    THEN [Stored(p) EXCEPT !.walking = FALSE, !.rewalk = 0, !.due = Stored(p).overdue]
    ELSE [Stored(p) EXCEPT !.rewalk = NextCursor(p, @)]

\* Faulty variant: a completed re-walk stays in progress at its last position.
AgainStateKept(p) == [Stored(p) EXCEPT !.rewalk = NextCursor(p, @)]

\* last_full_walk_at becomes the time the re-walk began
AgainState(p) ==
    IF WalkEnds(p)
    THEN [Stored(p) EXCEPT !.walking = FALSE, !.rewalk = 0, !.due = Stored(p).overdue]
    ELSE [Stored(p) EXCEPT !.rewalk = NextCursor(p, @)]

\* One page of _rewalk
AgainPage(p) ==
    /\ poll[p].at = "againPage"
    /\ Commits(p, AgainState(p), Imported(p))
    /\ poll' = [poll EXCEPT ![p] = [@ EXCEPT !.page = {}, !.left = poll[p].left - 1,
           !.cursor = NextCursor(p, poll[p].cursor),
           !.at = IF WalkEnds(p) \/ poll[p].left = 1 THEN "finish" ELSE "again"]]
    /\ UNCHANGED histVars

AgainClear(p) ==
    /\ poll[p].at = "againClear"
    /\ Commits(p, [Stored(p) EXCEPT !.rewalk = 0], rows)
    /\ poll' = [poll EXCEPT ![p].at = "finish"]
    /\ UNCHANGED histVars

\* ingest_rewalk_hours pass
IntervalPasses ==
    /\ st # NoState
    /\ \/ ~st.due /\ st' = [st EXCEPT !.due = TRUE]
       \/ st.walking /\ ~st.overdue /\ st' = [st EXCEPT !.due = TRUE, !.overdue = TRUE]
    /\ UNCHANGED <<project, rows, open, pollVars, threadVars, histVars, boundVars>>

-----------------------------------------------------------------------------
(* The poll ends. *)

\* _finish: one write for the whole poll
Finish(p) ==
    /\ poll[p].at = "finish"
    /\ Commits(p, [Stored(p) EXCEPT !.failures = IF poll[p].error = "none" THEN 0 ELSE @ + 1],
               rows)
    /\ poll' = [poll EXCEPT ![p].at = "ending"]
    /\ UNCHANGED histVars

\* The failure count read back decides the backoff; it is 0 when it could not
\* be recorded
End(p) ==
    /\ poll[p].at = "ending"
    /\ Ends(p, poll[p].error # "none",
            IF st = NoState \/ poll[p].error = "lost" THEN 0 ELSE st.failures)
    /\ UNCHANGED <<project, st, rows, open, threadVars, histVars, boundVars>>

-----------------------------------------------------------------------------
(* The source, the other requests and the process. *)

\* External: a report is filed (perhaps with an earlier position) or reopened
Opens(c, i) ==
    /\ i \notin open[c]
    /\ changes < MaxChanges /\ changes' = changes + 1
    /\ open' = [open EXCEPT ![c] = @ \cup {i}]
    /\ UNCHANGED <<project, st, rows, pollVars, threadVars, histVars,
                   errors, patches, deletes, crashes>>

\* External: a report is resolved
Resolves(c, i) ==
    /\ i \in open[c]
    /\ changes < MaxChanges /\ changes' = changes + 1
    /\ open' = [open EXCEPT ![c] = @ \ {i}]
    /\ shown' = IF c = project.config THEN shown \ {i} ELSE shown
    /\ staying' = IF c = project.config THEN staying \ {i} ELSE staying
    /\ UNCHANGED <<project, st, rows, pollVars, threadVars,
                   errors, patches, deletes, crashes>>

\* project_update reads the row and compares the ingest pair with the new one
PatchReads(x, new) ==
    /\ patch[x].at = "idle" /\ project.here
    /\ patches < MaxPatches /\ patches' = patches + 1
    /\ patch' = [patch EXCEPT ![x] =
                    [at |-> "read", new |-> new, changed |-> new # project.config]]
    /\ UNCHANGED <<project, st, rows, open, pollVars, del, held, histVars,
                   changes, errors, deletes, crashes>>

\* Faulty variant: the checkpoint outlives the configuration.
ResetKept == UNCHANGED <<st, histVars>>

\* DELETE FROM ingest_state, in the transaction of the update
Reset == st' = NoState /\ shown' = {} /\ staying' = {}

\* project_update writes; it fails while another thread's transaction is open
PatchWrites(x) ==
    /\ patch[x].at = "read"
    /\ patch' = [patch EXCEPT ![x] = NoPatch]
    /\ IF held = "none" /\ project.here
       THEN /\ project' = [project EXCEPT !.config = patch[x].new,
                               !.gen = IF patch[x].changed THEN @ + 1 ELSE @]
            /\ IF patch[x].changed THEN Reset ELSE UNCHANGED <<st, histVars>>
       ELSE UNCHANGED <<project, st, histVars>>
    /\ UNCHANGED <<rows, open, pollVars, del, held, boundVars>>

\* The pipeline validates an imported report: an analysis row names it
Analyse(i) ==
    /\ held = "none" /\ i \in Live /\ ~rows[i].analysed
    /\ rows' = [rows EXCEPT ![i].analysed = TRUE]
    /\ UNCHANGED <<project, st, open, pollVars, threadVars, histVars, boundVars>>

\* DELETE /reports/{id} is a soft delete
DeleteReport(i) ==
    /\ held = "none" /\ i \in Live
    /\ deletes < MaxDeletes /\ deletes' = deletes + 1
    /\ rows' = [rows EXCEPT ![i].live = FALSE]
    /\ UNCHANGED <<project, st, open, pollVars, threadVars, histVars,
                   changes, errors, patches, crashes>>

\* project_delete, up to its check for active reports
DeleteChecks ==
    /\ del # "checked" /\ project.here /\ Live = {}
    /\ deletes < MaxDeletes /\ deletes' = deletes + 1
    /\ del' = "checked"
    /\ UNCHANGED <<project, st, rows, open, pollVars, patch, held, histVars,
                   changes, errors, patches, crashes>>

\* The soft-deleted reports and the checkpoint go
Purge ==
    /\ rows' = [i \in Ids |-> IF i \in Dead THEN NoRow ELSE rows[i]]
    /\ st' = NoState
    /\ shown' = shown \ Dead /\ staying' = staying \ Dead

\* project_delete: the DELETE statements. A soft-deleted report that an analysis
\* names, or a report imported since the check, fails a foreign key; the
\* exception leaves the thread's transaction open.
DeleteWrites ==
    /\ del = "checked" /\ held = "none"
    /\ CASE \E i \in Dead : rows[i].analysed ->
                /\ del' = "raised" /\ held' = "reports"
                /\ UNCHANGED <<project, st, rows, histVars>>
         [] (\A i \in Dead : ~rows[i].analysed) /\ Live # {} ->
                /\ del' = "raised" /\ held' = "project"
                /\ UNCHANGED <<project, st, rows, histVars>>
         [] OTHER ->
                /\ del' = "idle" /\ held' = held
                /\ project' = [project EXCEPT !.here = FALSE]
                /\ Purge
    /\ UNCHANGED <<open, pollVars, patch, boundVars>>

\* The thread's next request that writes commits what the failed DELETE left
ThreadReused ==
    /\ held # "none" /\ held' = "none" /\ del' = "idle"
    /\ IF held = "project" THEN Purge ELSE UNCHANGED <<st, rows, histVars>>
    /\ UNCHANGED <<project, open, pollVars, patch, boundVars>>

\* The process dies and starts again: polls, backoff, threads and their
\* transactions are gone
Crash ==
    /\ crashes < MaxCrashes /\ crashes' = crashes + 1
    /\ poll' = [p \in Pollers |-> NoPoll] /\ skip' = 0
    /\ patch' = [x \in Patchers |-> NoPatch] /\ del' = "idle" /\ held' = "none"
    /\ UNCHANGED <<project, st, rows, open, histVars, changes, errors, patches, deletes>>

-----------------------------------------------------------------------------
(* The specification. *)

\* The coroutine of a poll once it holds the lock
Step(p) ==
    \/ Fetch(p) \/ Fence(p)
    \/ ForwardPage(p) \/ ForwardClear(p)
    \/ Rewalk(p) \/ RewalkStart(p) \/ AgainPage(p) \/ AgainClear(p)
    \/ Finish(p) \/ End(p)

Next ==
    \/ \E p \in Pollers : \E full \in BOOLEAN : Ask(p, full)
    \/ SkipTick
    \/ \E p \in Pollers : \/ Enter(p) \/ EnterWithoutCredential(p) \/ EnterUnconfigured(p)
                          \/ Step(p) \/ Raises(p)
    \/ \E p \in Pollers : \E badCursor \in BOOLEAN : FetchFails(p, badCursor)
    \/ IntervalPasses
    \/ \E c \in Configs : \E i \in Ids : Opens(c, i) \/ Resolves(c, i)
    \/ \E x \in Patchers : \E new \in Configs \cup {NoConfig} : PatchReads(x, new)
    \/ \E x \in Patchers : PatchWrites(x)
    \/ \E i \in Analysable : Analyse(i)
    \/ \E i \in Ids : DeleteReport(i)
    \/ DeleteChecks \/ DeleteWrites \/ ThreadReused
    \/ Crash

Spec == Init /\ [][Next]_vars

\* Coroutines run on, the loop ticks, hours pass and a waiting poll gets the
\* lock in its turn (asyncio.Lock is fair, hence strong fairness of Enter).
Fairness ==
    /\ WF_vars(Ask(Tick, FALSE)) /\ WF_vars(SkipTick) /\ WF_vars(IntervalPasses)
    /\ \A p \in Pollers : /\ WF_vars(Step(p)) /\ WF_vars(EnterUnconfigured(p))
                          /\ SF_vars(Enter(p))
    /\ \A x \in Patchers : WF_vars(PatchWrites(x))

FairSpec == Spec /\ Fairness

-----------------------------------------------------------------------------
(* Properties. *)

\* Every variable keeps its type: no sequence of polls, edits and restarts leaves
\* a cursor outside the source, or a history set with an unmappable report.
TypeOK ==
    /\ project \in [here: BOOLEAN, config: Configs \cup {NoConfig}, gen: Nat]
    /\ st \in State \cup {NoState}
    /\ rows \in [Ids -> Import \cup {NoRow}]
    /\ open \in [Configs -> SUBSET Ids]
    /\ poll \in [Pollers -> Poll] /\ skip \in 0 .. MaxBackoff
    /\ patch \in [Patchers -> Patch] /\ del \in {"idle", "checked", "raised"}
    /\ held \in {"none", "reports", "project"}
    /\ shown \subseteq Mappable /\ staying \subseteq Mappable
    /\ {changes, errors, patches, deletes, crashes} \subseteq Nat

\* A poll that was in flight while the configuration changed never imports
\* reports of the old source (ingest_commit's fence).
OldSourceNeverImported ==
    [][\A i \in Ids : (rows[i] = NoRow /\ rows'[i] # NoRow) =>
                          rows'[i].from = project.config]_vars

\* The checkpoint belongs to the project's present configuration: no stale poll
\* recreates the cursors that a PATCH or DELETE dropped.
CheckpointIsCurrent ==
    st # NoState => project.here /\ st.gen = project.gen /\ st.of = project.config

\* A report that the forward walk was shown, that stayed active and that its
\* stored cursor has passed is imported, whatever failed or crashed between the
\* answer and the commit.
ForwardNeverSkips ==
    st # NoState => \A i \in shown : i <= st.cursor => rows[i] # NoRow

\* When a re-walk completes, over however many polls, restarts and bad cursors,
\* every report that was active the whole time is imported.
RewalkCovers ==
    [][(st # NoState /\ st' # NoState /\ st.walking /\ ~st'.walking) =>
           \A i \in staying : rows'[i] # NoRow]_vars

\* A mappable report that stays active at the polled source is imported in the
\* end, also when it appeared behind the forward cursor.
ReportsArrive ==
    \A i \in Mappable :
        <>[](Configured /\ i \in open[project.config]) => <>(rows[i] # NoRow)

\* project_delete answers 'has_reports' where the foreign key would fail; it
\* does not raise.
ForeignKeyAnswered == del # "raised"

=============================================================================
