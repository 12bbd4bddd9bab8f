------------------------------- MODULE OpenPr -------------------------------
(***************************************************************************)
(* Opening the pull request of one report (git_ops/pull_request.py): the   *)
(* claim fix_proposed -> fix_approved with its owner token, the in-process *)
(* registry _active_claims, adoption of abandoned claims, the push intent, *)
(* the push, the POST, and the record of the result in one transaction;    *)
(* and the settling of the recorded pull request (sync/triage_sync.py      *)
(* _check_prs): its state on GitHub is read until it is merged, which      *)
(* closes the report, or closed, which sends it back to triage.            *)
(* The remote (the branch and the pull requests of GitHub) is external: it *)
(* is modelled by what the code assumes of it. Any remote call may fail,   *)
(* and a failed push or POST may still take effect later.                  *)
(*                                                                         *)
(* Requests are coroutines of one event loop; DELETE and PATCH are threads *)
(* and may come between any two statements.                                *)
(***************************************************************************)
EXTENDS Integers, FiniteSets, Sequences, Functions

CONSTANTS
    Requests,      \* open-pr requests that can be in flight at once
    MaxProposals,  \* bound: fix proposals of the report
    MaxCommits,    \* bound: commits made for the branch
    MaxPrs,        \* bound: pull requests of the branch
    MaxClaims,     \* bound: open-pr claims taken
    MaxCrashes,    \* bound: process crashes
    MaxEdits,      \* bound: DELETE, PATCH, reopen of the report or of a pull request
    MaxErrors,     \* bound: failed reads of a recorded pull request
    People         \* TRUE: people also push, open, close and delete on GitHub

ASSUME OpenPrAssumption ==
    /\ {MaxProposals, MaxCommits, MaxPrs, MaxClaims, MaxCrashes, MaxEdits,
        MaxErrors} \subseteq Nat
    /\ MaxProposals > 0
    /\ People \in BOOLEAN

VARIABLES
    status,   \* bug_reports.status
    token,    \* bug_reports.claim_token; 0: NULL
    active,   \* _active_claims[report]; 0: absent
    made,     \* proposals 1..made exist; the newest is made
    pushed,   \* proposal -> fix_proposals.pushed_sha
    recorded, \* proposal -> fix_proposals.pr_number; 0: NULL
    branch,   \* external: commits of fix/bugalizer-<id>, oldest first
    prs,      \* external: the branch's pull requests, oldest first
    late,     \* external: failed pushes and POSTs that may still take effect
    req,      \* request -> its state
    settled,  \* proposals with fix_proposals.pr_settled_at
    check,    \* the read of a recorded pull request in flight
    commits,  \* commits made so far
    claims, crashes, edits, errors

vars == <<status, token, active, made, pushed, recorded, branch, prs, late,
          req, settled, check, commits, claims, crashes, edits,
          errors>>
rowVars == <<status, token, made, pushed, recorded>>
remoteVars == <<branch, prs, late>>
settleVars == <<settled, check>>
boundVars == <<commits, claims, crashes, edits, errors>>

Proposals == 1 .. MaxProposals

\* A commit: its identity and its Bugalizer-Proposal trailer (0: a person's)
Commit == [n: Nat, by: Proposals \cup {0}]
NoCommit == [n |-> 0, by |-> 0]

Pr == [commits: SUBSET Commit, state: {"open", "merged", "closed"}]

\* prop: the proposal whose pull request is read (0: no read in flight);
\* answer: what GitHub answered ("": not yet)
Check == [prop: Proposals \cup {0}, answer: {"", "merged", "closed"}]
NoCheck == [prop |-> 0, answer |-> ""]

\* want: the fix_proposal_id of the request (0: none); prop: the proposal the
\* request works on or records; pr: the pull request it will record
Request == [pc: {"idle", "claimed", "lookup", "tip", "build", "push", "post",
                 "again", "attribute", "record", "close", "release"},
            token: Nat, want: Proposals \cup {0}, prop: Proposals \cup {0}, pr: Nat]
NoRequest == [pc |-> "idle", token |-> 0, want |-> 0, prop |-> 0, pr |-> 0]

RecordedPr == \E p \in Proposals : recorded[p] # 0

OpenPrExists == \E pr \in Range(prs) : pr.state = "open"
Tip == branch[Len(branch)]

\* The loop runs one coroutine at a time; claim and registration are not
\* separated by an await.
LoopFree == \A q \in Requests : req[q].pc # "claimed"

Init ==
    /\ status = "fix_proposed" /\ token = 0 /\ active = 0
    /\ made = 1
    /\ pushed = [p \in Proposals |-> NoCommit]
    /\ recorded = [p \in Proposals |-> 0]
    /\ branch = <<>> /\ prs = <<>> /\ late = {}
    /\ req = [q \in Requests |-> NoRequest]
    /\ settled = {} /\ check = NoCheck
    /\ commits = 0 /\ claims = 0 /\ crashes = 0 /\ edits = 0 /\ errors = 0

-----------------------------------------------------------------------------
(* The claim. *)

\* Faulty variants: an earlier PR, or a running request, is not looked for.
MayClaimAgain == active = 0
MayClaimRunning == ~RecordedPr

\* The checks before the claim: an earlier PR answers, a running request
\* refuses; both leave the state alone.
MayClaim == ~RecordedPr /\ active = 0

Claimed(q, want) ==
    /\ req[q].pc = "idle" /\ LoopFree
    /\ claims < MaxClaims
    /\ want <= made
    /\ claims' = claims + 1
    /\ token' = claims + 1
    /\ req' = [req EXCEPT ![q] = [pc |-> "claimed", token |-> claims + 1, want |-> want,
                                  prop |-> IF want = 0 THEN made ELSE want, pr |-> 0]]
    /\ UNCHANGED <<settleVars, active, made, pushed, recorded, remoteVars, commits, crashes,
                   edits, errors>>

\* try_claim_report with a fresh token
Claim(q, want) ==
    /\ MayClaim
    /\ status = "fix_proposed"
    /\ status' = "fix_approved"
    /\ Claimed(q, want)

\* adopt_claim: the claim's owner is gone
Adopt(q, want) ==
    /\ MayClaim
    /\ status = "fix_approved"
    /\ status' = status
    /\ Claimed(q, want)

\* _active_claims[report] = token, in the statement after the claim's commit
Register(q) ==
    /\ req[q].pc = "claimed"
    /\ active' = req[q].token
    /\ req' = [req EXCEPT ![q].pc = "lookup"]
    /\ UNCHANGED <<settleVars, rowVars, remoteVars, boundVars>>

Goto(q, pc) == req' = [req EXCEPT ![q].pc = pc]

\* An error or a cancellation at an await, or a locked database at the record,
\* ends in the finally blocks; failures of push and POST are actions below.
Fails(q) ==
    /\ req[q].pc \in {"lookup", "tip", "build", "again", "attribute", "record"} /\ LoopFree
    /\ Goto(q, "release")
    /\ UNCHANGED <<settleVars, rowVars, active, remoteVars, boundVars>>

-----------------------------------------------------------------------------
(* _run_claimed: reconcile with GitHub, then build, push and POST. *)

\* find_pr: any state, newest first; 0 (Len of no pull requests): None
Found(q, none) ==
    req' = [req EXCEPT ![q].pc = IF prs = <<>> THEN none ELSE "attribute", ![q].pr = Len(prs)]

Lookup(q) ==
    /\ req[q].pc = "lookup" /\ LoopFree
    /\ Found(q, "tip")
    /\ UNCHANGED <<settleVars, rowVars, active, remoteVars, boundVars>>

\* _remote_branch_tip: no branch builds one; a tip some proposal recorded as
\* its push resumes at the POST, unless another proposal was requested; any
\* other tip is refused (branch_exists)
Pushers == {p \in 1 .. made : pushed[p] = Tip}

ReadTip(q) ==
    /\ req[q].pc = "tip" /\ LoopFree
    /\ IF branch = <<>>
       THEN Goto(q, "build")
       ELSE \/ \E p \in Pushers :
                  /\ req[q].want \in {0, p}
                  /\ req' = [req EXCEPT ![q].pc = "post", ![q].prop = p]
            \/ /\ \A p \in Pushers : req[q].want \notin {0, p}
               /\ Goto(q, "release")
    /\ UNCHANGED <<settleVars, rowVars, active, remoteVars, boundVars>>

\* _build_commit on a thread, then fix_proposal_record_push_intent
NewCommit(q) == [n |-> commits + 1, by |-> req[q].prop]

\* Faulty variant: the intent is recorded by the push, not before it.
BuildWithoutIntent(q) ==
    /\ req[q].pc = "build" /\ LoopFree
    /\ commits < MaxCommits
    /\ commits' = commits + 1
    /\ Goto(q, "push")
    /\ UNCHANGED <<settleVars, rowVars, active, remoteVars, claims, crashes, edits, errors>>

Build(q) ==
    /\ req[q].pc = "build" /\ LoopFree
    /\ commits < MaxCommits
    /\ commits' = commits + 1
    /\ pushed' = [pushed EXCEPT ![req[q].prop] = NewCommit(q)]
    /\ Goto(q, "push")
    /\ UNCHANGED <<settleVars, status, token, active, made, recorded, remoteVars, claims, crashes,
                   edits, errors>>

\* The commit a request pushes is the last one built: the claim is exclusive.
Pushing(q) == [n |-> commits, by |-> req[q].prop]

\* A push without --force creates the branch or is rejected (branch_exists).
Push(q) ==
    /\ req[q].pc = "push" /\ LoopFree
    /\ IF branch = <<>>
       THEN branch' = <<Pushing(q)>> /\ Goto(q, "post")
       ELSE branch' = branch /\ Goto(q, "release")
    /\ UNCHANGED <<settleVars, rowVars, active, prs, late, boundVars>>

\* The push fails or times out; it may still reach the remote.
PushLost(q) ==
    /\ req[q].pc = "push" /\ LoopFree
    /\ late' \in {late, late \cup {Pushing(q)}}
    /\ Goto(q, "release")
    /\ UNCHANGED <<settleVars, rowVars, active, branch, prs, boundVars>>

\* external: POST /pulls needs the branch and no open pull request on it
OpensPr ==
    /\ branch # <<>> /\ ~OpenPrExists
    /\ Len(prs) < MaxPrs
    /\ prs' = Append(prs, [commits |-> Range(branch), state |-> "open"])

\* 201: the pull request exists before the request resumes
Post(q) ==
    /\ req[q].pc = "post" /\ LoopFree
    /\ OpensPr
    /\ req' = [req EXCEPT ![q].pc = "record", ![q].pr = Len(prs) + 1]
    /\ UNCHANGED <<settleVars, rowVars, active, branch, late, boundVars>>

\* 422: one is open already, look it up again; no branch any more is an error
PostRefused(q) ==
    /\ req[q].pc = "post" /\ LoopFree
    /\ \/ OpenPrExists /\ Goto(q, "again")
       \/ branch = <<>> /\ Goto(q, "release")
    /\ UNCHANGED <<settleVars, rowVars, active, remoteVars, boundVars>>

PostLost(q) ==
    /\ req[q].pc = "post" /\ LoopFree
    /\ late' \in {late, late \cup {NoCommit}}
    /\ Goto(q, "release")
    /\ UNCHANGED <<settleVars, rowVars, active, branch, prs, boundVars>>

FindAgain(q) ==
    /\ req[q].pc = "again" /\ LoopFree
    /\ Found(q, "release")
    /\ UNCHANGED <<settleVars, rowVars, active, remoteVars, boundVars>>

\* Faulty variant: trusts the newest proposal.
OwnersNewest(pr) == {made}

\* _resolve_owner: the one proposal whose push intent is in the pull request,
\* else the trailer of one of its commits
Owners(pr) ==
    LET intents == {p \in 1 .. made : pushed[p] \in pr.commits}
        trailers == {c.by : c \in pr.commits} \cap (1 .. made)
    IN  IF Cardinality(intents) = 1 THEN intents ELSE trailers

\* _record_existing_pr: without an owner only a named proposal is recorded
Attribute(q) ==
    LET owners == Owners(prs[req[q].pr]) IN
    /\ req[q].pc = "attribute" /\ LoopFree
    /\ \/ \E p \in owners :
            req' = [req EXCEPT ![q].pc = "record", ![q].prop = p]
       \/ /\ owners = {} /\ req[q].want # 0
          /\ req' = [req EXCEPT ![q].pc = "record", ![q].prop = req[q].want]
       \/ /\ owners = {} /\ req[q].want = 0
          /\ Goto(q, "release")
    /\ UNCHANGED <<settleVars, rowVars, active, remoteVars, boundVars>>

\* record_pull_request: proposal and report in one transaction, which is
\* conditional on the claim still being the request's
HoldsClaim(q) == status = "fix_approved" /\ token = req[q].token

Record(q) ==
    /\ req[q].pc = "record" /\ LoopFree
    /\ HoldsClaim(q)
    /\ recorded' = [recorded EXCEPT ![req[q].prop] = req[q].pr]
    /\ status' = "fix_committed" /\ token' = 0
    /\ Goto(q, "close")
    /\ UNCHANGED <<settleVars, active, made, pushed, remoteVars, boundVars>>

ClaimLost(q) ==
    /\ req[q].pc = "record" /\ LoopFree
    /\ ~HoldsClaim(q)
    /\ Goto(q, "release")
    /\ UNCHANGED <<settleVars, rowVars, active, remoteVars, boundVars>>

-----------------------------------------------------------------------------
(* The finally blocks. *)

\* Faulty variant: the registry entry stays.
EndsRegistered(q) ==
    /\ UNCHANGED active
    /\ req' = [req EXCEPT ![q] = NoRequest]

Ends(q) ==
    /\ active' = IF active = req[q].token THEN 0 ELSE active
    /\ req' = [req EXCEPT ![q] = NoRequest]

\* release_claim: compare-and-set on the token
Release(q) ==
    /\ req[q].pc = "release" /\ LoopFree
    /\ IF HoldsClaim(q)
       THEN status' = "fix_proposed" /\ token' = 0
       ELSE UNCHANGED <<status, token>>
    /\ Ends(q)
    /\ UNCHANGED <<settleVars, made, pushed, recorded, remoteVars, boundVars>>

\* The release itself fails: the next call adopts the claim.
ReleaseFails(q) ==
    /\ req[q].pc = "release" /\ LoopFree
    /\ Ends(q)
    /\ UNCHANGED <<settleVars, rowVars, remoteVars, boundVars>>

Finish(q) ==
    /\ req[q].pc = "close" /\ LoopFree
    /\ Ends(q)
    /\ UNCHANGED <<settleVars, rowVars, remoteVars, boundVars>>

-----------------------------------------------------------------------------
(* Settling, by the tick of the triage sync. *)

\* prs_to_check, and the call to GitHub it is followed by
SelectPr(p) ==
    /\ check = NoCheck /\ LoopFree
    /\ status = "fix_committed" /\ recorded[p] # 0 /\ p \notin settled
    /\ check' = [prop |-> p, answer |-> ""]
    /\ UNCHANGED <<rowVars, active, remoteVars, req, settled, boundVars>>

\* Faulty variant: every answer settles.
ReadPrSettling ==
    /\ check.prop # 0 /\ check.answer = ""
    /\ check' = NoCheck
    /\ settled' = settled \cup {check.prop}
    /\ UNCHANGED <<rowVars, active, remoteVars, req, boundVars>>

\* read_pr_state: GitHub answers; an open pull request leaves only the time of
\* the read (pr_check_record)
ReadPr ==
    LET state == prs[recorded[check.prop]].state IN
    /\ check.prop # 0 /\ check.answer = ""
    /\ check' = IF state = "open" THEN NoCheck ELSE [check EXCEPT !.answer = state]
    /\ UNCHANGED <<rowVars, active, remoteVars, req, settled, boundVars>>

\* Faulty variants: any end of a pull request closes the report; the status is
\* written whatever it is by now.
SettledStatusClosing == IF status = "fix_committed" THEN "closed" ELSE status
SettledStatusAnyway == IF check.answer = "merged" THEN "closed" ELSE "triaged"

\* pr_settle: from fix_committed only
SettledStatus ==
    IF status # "fix_committed" THEN status
    ELSE IF check.answer = "merged" THEN "closed" ELSE "triaged"

\* One transaction; the pull request counts as settled in any case.
SettlePr ==
    /\ check.answer # "" /\ LoopFree
    /\ status' = SettledStatus
    /\ settled' = settled \cup {check.prop}
    /\ check' = NoCheck
    /\ UNCHANGED <<token, active, made, pushed, recorded, remoteVars, req, boundVars>>

\* The read fails (network, rate limit, 404, ...), or the database stays locked.
CheckFails ==
    /\ check # NoCheck /\ LoopFree
    /\ errors < MaxErrors /\ errors' = errors + 1
    /\ check' = NoCheck
    /\ UNCHANGED <<rowVars, active, remoteVars, req, settled, commits, claims, crashes, edits>>

-----------------------------------------------------------------------------
(* Other actors. *)

\* reopen_for_action: the source's reopen action, on the loop
Reopen ==
    /\ edits < MaxEdits /\ edits' = edits + 1
    /\ status = "closed" /\ LoopFree
    /\ status' = "triaged"
    /\ UNCHANGED <<token, active, made, pushed, recorded, remoteVars, req, settleVars,
                   commits, claims, crashes, errors>>

\* Faulty variant: a status the workflow does not have.
DeleteReportAsStatus ==
    /\ edits < MaxEdits /\ edits' = edits + 1
    /\ status # "rejected"
    /\ active = 0
    /\ status' = "deleted"
    /\ UNCHANGED <<settleVars, token, active, made, pushed, recorded, remoteVars, req, commits,
                   claims, crashes, errors>>

\* DELETE: refused while the registry names the report, else a compare-and-set
\* on status and token
DeleteReport ==
    /\ edits < MaxEdits /\ edits' = edits + 1
    /\ status # "rejected"
    /\ active = 0
    /\ status' = "rejected"
    /\ UNCHANGED <<settleVars, token, active, made, pushed, recorded, remoteVars, req, commits,
                   claims, crashes, errors>>

\* PATCH of a report with a proposal or a recorded PR; never of a claim
PatchStatus(target) ==
    /\ edits < MaxEdits /\ edits' = edits + 1
    /\ status = "fix_proposed" \/ (status = "fix_committed" /\ target = "triaged")
    /\ status' = target
    /\ UNCHANGED <<settleVars, token, active, made, pushed, recorded, remoteVars, req, commits,
                   claims, crashes, errors>>

\* The pipeline stores another proposal for a triaged report.
Propose ==
    /\ status = "triaged" /\ made < MaxProposals
    /\ made' = made + 1
    /\ status' = "fix_proposed"
    /\ UNCHANGED <<settleVars, token, active, pushed, recorded, remoteVars, req, boundVars>>

\* The process dies: coroutines and registry are gone, fix_approved stays.
\* What a request had sent may still take effect.
InFlight ==
    {Pushing(q) : q \in {x \in Requests : req[x].pc = "push"}}
    \cup {NoCommit : q \in {x \in Requests : req[x].pc = "post"}}

Crash ==
    /\ crashes < MaxCrashes /\ crashes' = crashes + 1
    /\ active' = 0
    /\ req' = [q \in Requests |-> NoRequest]
    /\ check' = NoCheck
    /\ late' \in {late, late \cup InFlight}
    /\ UNCHANGED <<settled, rowVars, branch, prs, commits, claims, edits, errors>>

\* external: a late push creates the branch if it still can
LatePush(c) ==
    /\ c \in late /\ c # NoCommit /\ branch = <<>>
    /\ branch' = <<c>>
    /\ late' = late \ {c}
    /\ UNCHANGED <<settleVars, rowVars, active, prs, req, boundVars>>

LatePost ==
    /\ NoCommit \in late
    /\ OpensPr
    /\ late' = late \ {NoCommit}
    /\ UNCHANGED <<settleVars, rowVars, active, branch, req, boundVars>>

\* external: people push to the branch, open and close pull requests on it, and
\* delete it (not within the moment a lost push may still need to arrive)
PersonPushes ==
    /\ People /\ commits < MaxCommits
    /\ commits' = commits + 1
    /\ \A q \in Requests : req[q].pc # "push"
    /\ branch' = Append(branch, [n |-> commits + 1, by |-> 0])
    /\ prs' = [i \in DOMAIN prs |->
                 IF prs[i].state = "open" THEN [prs[i] EXCEPT !.commits = Range(branch')]
                                          ELSE prs[i]]
    /\ UNCHANGED <<settleVars, rowVars, active, late, req, claims, crashes, edits, errors>>

PersonOpens ==
    /\ People /\ OpensPr
    /\ UNCHANGED <<settleVars, rowVars, active, branch, late, req, boundVars>>

PersonEnds(state) ==
    /\ People /\ OpenPrExists
    /\ prs' = [i \in DOMAIN prs |->
                 IF prs[i].state = "open" THEN [prs[i] EXCEPT !.state = state] ELSE prs[i]]
    /\ branch' \in IF late = {} THEN {branch, <<>>} ELSE {branch}
    /\ UNCHANGED <<rowVars, active, late, req, settleVars, boundVars>>

\* GitHub reopens a pull request only on the branch it was closed on.
PersonReopens(i) ==
    /\ People /\ ~OpenPrExists
    /\ edits < MaxEdits /\ edits' = edits + 1
    /\ prs[i].state = "closed" /\ branch # <<>> /\ prs[i].commits \subseteq Range(branch)
    /\ prs' = [prs EXCEPT ![i] = [commits |-> Range(branch), state |-> "open"]]
    /\ UNCHANGED <<rowVars, active, branch, late, req, settleVars, commits, claims, crashes,
                   errors>>

-----------------------------------------------------------------------------

RequestStep(q) ==
    \/ Register(q) \/ Lookup(q) \/ ReadTip(q) \/ Build(q) \/ Push(q) \/ PushLost(q)
    \/ Post(q) \/ PostRefused(q) \/ PostLost(q) \/ FindAgain(q) \/ Attribute(q)
    \/ Record(q) \/ ClaimLost(q) \/ Fails(q)
    \/ Release(q) \/ ReleaseFails(q) \/ Finish(q)

CheckStep == (\E p \in Proposals : SelectPr(p)) \/ ReadPr \/ SettlePr

Next ==
    \/ \E q \in Requests, want \in Proposals \cup {0} : Claim(q, want) \/ Adopt(q, want)
    \/ \E q \in Requests : RequestStep(q)
    \/ DeleteReport \/ Propose \/ Crash
    \/ \E target \in {"triaged", "closed"} : PatchStatus(target)
    \/ \E c \in late : LatePush(c)
    \/ LatePost
    \/ CheckStep \/ CheckFails \/ Reopen
    \/ PersonPushes \/ PersonOpens
    \/ \E state \in {"merged", "closed"} : PersonEnds(state)
    \/ \E i \in DOMAIN prs : PersonReopens(i)

Spec == Init /\ [][Next]_vars

\* Every remote call and git subprocess has a timeout and the finally blocks
\* always run, so a request that has claimed comes to its end; the loop is FIFO.
\* The ticks of the sync go on for ever. People, callers, failures and crashes
\* are not fair. (Claims and failures are bounded, so weak fairness is enough.)
Fairness == WF_vars(CheckStep) /\ \A q \in Requests : WF_vars(RequestStep(q))

FairSpec == Spec /\ Fairness

-----------------------------------------------------------------------------
(* Properties *)

\* Type invariant of the report row, the remote and the requests.
TypeOK ==
    /\ status \in {"triaged", "fix_proposed", "fix_approved", "fix_committed",
                   "rejected", "closed"}
    /\ token \in Nat /\ active \in Nat
    /\ made \in Proposals
    /\ pushed \in [Proposals -> Commit]
    /\ recorded \in [Proposals -> Nat]
    /\ branch \in Seq(Commit) /\ prs \in Seq(Pr)
    /\ late \subseteq Commit
    /\ req \in [Requests -> Request]
    /\ settled \subseteq Proposals /\ check \in Check
    /\ {commits, claims, crashes, edits, errors} \subseteq Nat

Working(q) == req[q].pc \notin {"idle", "claimed"}

\* One pull request per report (recorded_pull_request, the claim and the CAS of
\* record_pull_request): no second proposal is ever recorded, and no request
\* works on the branch once there is a record.
OneRecordedPr ==
    /\ Cardinality({p \in Proposals : recorded[p] # 0}) <= 1
    /\ \A q \in Requests : RecordedPr => req[q].pc \in {"idle", "close"}

\* A recorded pull request takes the report out of fix_approved in the same
\* transaction. Apart, a crash between them would leave a report that open-pr
\* answers with its record, and that PATCH refuses to touch, in its claim.
RecordedIsCommitted == RecordedPr => status # "fix_approved"

\* The pull request on record was made from the proposal it is recorded for,
\* over crashes, adoptions, lost answers and late pushes (_resolve_owner), or
\* holds nothing of Bugalizer's and was claimed by a person by name.
RecordedOwnerMadeIt ==
    \A p \in Proposals : recorded[p] # 0 =>
        LET authors == {c.by : c \in prs[recorded[p]].commits} \ {0}
        IN  authors = {} \/ p \in authors

\* At most one request works on the report's branch, and the registry names it:
\* no adoption takes the claim of a live request.
OneHolder ==
    \A q \in Requests : Working(q) =>
        /\ active = req[q].token
        /\ status = "fix_approved" => token = req[q].token
        /\ \A x \in Requests : Working(x) => x = q

\* A commit of Bugalizer's on the remote was announced first: its proposal has
\* a push intent, so a retry never mistakes an own branch for a foreign one
\* for lack of one (fix_proposal_record_push_intent comes before the push).
PushedHasIntent ==
    \A c \in Range(branch) \cup late : c.by # 0 => pushed[c.by] # NoCommit

\* An open-pr claim does not outlive its request: the registry entry goes and
\* the report leaves fix_approved or becomes adoptable.
RequestsEnd == (active # 0) ~> (active = 0)

\* A merged pull request is noticed: its report does not stay fix_committed,
\* over failed reads and crashes (_check_prs, pr_check_record, prs_to_check).
MergedIsNoticed ==
    (status = "fix_committed" /\ \E p \in Proposals :
        recorded[p] # 0 /\ prs[recorded[p]].state = "merged") ~> (status # "fix_committed")

\* Only a merge closes a report whose pull request is on record: the answer may
\* be late, and people may close, reopen and open pull requests meanwhile.
OnlyMergeCloses ==
    [][ status = "fix_committed" /\ status' = "closed" =>
          \E p \in Proposals : recorded[p] # 0 /\ prs[recorded[p]].state = "merged" ]_vars

\* A report that DELETE rejected stays rejected: no request, release, record or
\* settling that was under way brings it back.
RejectedStays == [][ status = "rejected" => status' = "rejected" ]_vars

\* DELETE never succeeds while a request holds the report's claim.
DeleteRefusedWhileClaimed ==
    [][ (\E q \in Requests : req[q].pc # "idle" /\ HoldsClaim(q)) => status' # "rejected"]_vars
=============================================================================
