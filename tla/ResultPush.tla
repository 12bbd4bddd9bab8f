----------------------------- MODULE ResultPush -----------------------------
(***************************************************************************)
(* The push of each report's picture to sonicgrid (sync/triage_sync.py,    *)
(* _push; sync/results.py; the triage_results table of db.py). A picture   *)
(* is staged with a new revision before its PUT; the PUT may be lost, take *)
(* effect late, or lose its answer; sonicgrid keeps the highest revision   *)
(* (external).                                                             *)
(*                                                                         *)
(* A picture is what its fingerprint tells apart: bugalizerUpdatedAt, the  *)
(* stamp of the report's newest row, and the board's detail, which also    *)
(* depends on projects.head_sha: `localized` while the localization's      *)
(* commit is the head, else `stale`.                                       *)
(***************************************************************************)
EXTENDS Integers, FiniteSets

CONSTANTS
    Reports,
    PerTick,     \* settings.triage_push_per_tick
    Clocks,      \* readings of the clock at a stage: it may step back
    MaxChanges,  \* bound: changes of reports
    MaxHeads,    \* bound: moves of the project's head
    HeadReturns, \* TRUE: projects.head_sha may take an earlier value again
    MaxErrors,   \* bound: PUTs lost, late or refused
    MaxCrashes   \* bound: process crashes

ASSUME PushAssumption ==
    /\ Clocks \subseteq Nat /\ Clocks # {}
    /\ PerTick \in Nat \ {0}
    /\ {MaxChanges, MaxHeads, MaxErrors, MaxCrashes} \subseteq Nat
    /\ HeadReturns \in BOOLEAN

VARIABLES
    head,   \* projects.head_sha
    report, \* report -> its newest stamp and its localization's commit
    stored, \* triage_results
    remote, \* external: report -> what sonicgrid shows
    late,   \* external: lost PUTs that may still take effect
    push,   \* _push of the running tick
    now,    \* the newest stamp
    heads, errors, crashes,
    sent    \* history: report -> payloads of its PUTs

vars == <<head, report, stored, remote, late, push, now, heads, errors, crashes, sent>>

\* A picture and its payload; stamp and revision 0: there is none
Picture == [stamp: Nat, localized: BOOLEAN]
NoPicture == [stamp |-> 0, localized |-> FALSE]
Payload == [revision: Nat, picture: Picture]
NoPayload == [revision |-> 0, picture |-> NoPicture]

\* fingerprint and payload are one: a fingerprint stands for its picture
NoStored == [revision |-> 0, picture |-> NoPicture, acked |-> NoPicture, failed |-> NoPicture]
Stored == [revision: Nat, picture: Picture, acked: Picture, failed: Picture]

\* todo: the reports still to push; seen: the pictures built at its start;
\* cur: the PUT in flight
NoPush == [todo |-> {}, seen |-> [r \in Reports |-> NoPicture], cur |-> {}]

\* build_payload
View(r) == [stamp |-> report[r].stamp, localized |-> report[r].loc = head]

Max2(a, b) == IF a >= b THEN a ELSE b

Init ==
    /\ head = 1
    /\ report = [r \in Reports |-> [stamp |-> 1, loc |-> 1]]
    /\ stored = [r \in Reports |-> NoStored]
    /\ remote = [r \in Reports |-> NoPayload]
    /\ late = [r \in Reports |-> {}]
    /\ push = NoPush
    /\ now = 1 /\ heads = 0 /\ errors = 0 /\ crashes = 0
    /\ sent = [r \in Reports |-> {}]

-----------------------------------------------------------------------------
(* One push: build every picture, then stage and PUT the oldest ones. *)

\* Faulty variant: what was staged is taken as told.
ToldStaged(r) == stored[r].picture = View(r)

\* Acknowledged or refused as it is
ToldOf(r) == stored[r].picture = View(r) /\ View(r) \in {stored[r].acked, stored[r].failed}

Pending == {r \in Reports : ~ToldOf(r)}

\* The PerTick pending reports with the oldest stamps
OldestFirst(S) ==
    /\ S \subseteq Pending
    /\ Cardinality(S) = IF Cardinality(Pending) < PerTick THEN Cardinality(Pending) ELSE PerTick
    /\ \A r \in S, q \in Pending \ S : report[r].stamp <= report[q].stamp

StartPush ==
    /\ push.todo = {} /\ push.cur = {} /\ Pending # {}
    /\ \E S \in SUBSET Reports :
          /\ OldestFirst(S)
          /\ push' = [todo |-> S, seen |-> [r \in Reports |-> View(r)], cur |-> {}]
    /\ UNCHANGED <<head, report, stored, remote, late, now, heads, errors, crashes, sent>>

\* Faulty variants: the revision is the clock's, or the time that has passed;
\* it is not renewed.
RevisionByClock(last, clock) == clock
RevisionSince(last, clock) == clock - last
RevisionKept(last, clock) == Max2(last, 1)

\* max(last + 1, _epoch_us())
RevisionAfter(last, clock) == Max2(last + 1, clock)

\* Faulty variant: the acknowledgement is written before the PUT.
StageRowAcked(row, picture, revision) ==
    [row EXCEPT !.revision = revision, !.picture = picture, !.acked = picture, !.failed = NoPicture]

\* triage_result_stage: fingerprint, revision and payload together; the error
\* of the earlier payload goes, its acknowledgement stays
StageRow(row, picture, revision) ==
    [row EXCEPT !.revision = revision, !.picture = picture, !.failed = NoPicture]

\* Resend what is staged, or stage the new picture; then PUT it
Send(r) ==
    /\ push.cur = {} /\ r \in push.todo
    /\ \A q \in push.todo : push.seen[r].stamp <= push.seen[q].stamp
    /\ IF stored[r].picture = push.seen[r] THEN UNCHANGED stored
       ELSE \E clock \in Clocks :
              stored' = [stored EXCEPT ![r] =
                  StageRow(@, push.seen[r], RevisionAfter(stored[r].revision, clock))]
    /\ push' = [push EXCEPT !.todo = @ \ {r}, !.cur = {r}]
    /\ sent' = [sent EXCEPT ![r] =
                  @ \cup {[revision |-> stored'[r].revision, picture |-> stored'[r].picture]}]
    /\ UNCHANGED <<head, report, remote, late, now, heads, errors, crashes>>

InFlight(r) == [revision |-> stored[r].revision, picture |-> stored[r].picture]

\* External: sonicgrid keeps the highest revision
Apply(r, payload) ==
    remote' = IF payload.revision > remote[r].revision THEN [remote EXCEPT ![r] = payload] ELSE remote

\* 200; with applied:false, the next revision goes above sonicgrid's
AckedRow(row, shown) ==
    [row EXCEPT !.acked = row.picture,
                !.revision = IF shown.revision >= row.revision THEN shown.revision ELSE row.revision]

Answered(r) == push' = [push EXCEPT !.cur = {}]

PutAnswered(r) ==
    /\ r \in push.cur
    /\ Apply(r, InFlight(r))
    /\ stored' = [stored EXCEPT ![r] = AckedRow(@, remote[r])]
    /\ Answered(r)
    /\ UNCHANGED <<head, report, late, now, heads, errors, crashes, sent>>

\* 400, 404, 413: not sent again as it is. Any other status: sent again.
PutRefused(r) ==
    /\ r \in push.cur /\ errors < MaxErrors
    /\ errors' = errors + 1
    /\ \/ stored' = [stored EXCEPT ![r].failed = stored[r].picture]
       \/ UNCHANGED stored
    /\ Answered(r)
    /\ UNCHANGED <<head, report, remote, late, now, heads, crashes, sent>>

\* A PUT whose answer does not come: applied now, later or never
Lost(r) ==
    \/ Apply(r, InFlight(r)) /\ UNCHANGED late
    \/ late' = [late EXCEPT ![r] = @ \cup {InFlight(r)}] /\ UNCHANGED remote
    \/ UNCHANGED <<remote, late>>

\* _Abort ends the tick
PutLost(r) ==
    /\ r \in push.cur /\ errors < MaxErrors
    /\ errors' = errors + 1
    /\ Lost(r)
    /\ push' = NoPush
    /\ UNCHANGED <<head, report, stored, now, heads, crashes, sent>>

LatePutArrives(r) ==
    \E payload \in late[r] :
      /\ Apply(r, payload)
      /\ late' = [late EXCEPT ![r] = @ \ {payload}]
      /\ UNCHANGED <<head, report, stored, push, now, heads, errors, crashes, sent>>

CrashRestart ==
    /\ crashes < MaxCrashes
    /\ crashes' = crashes + 1
    /\ IF push.cur = {} THEN UNCHANGED <<remote, late>> ELSE \E r \in push.cur : Lost(r)
    /\ push' = NoPush
    /\ UNCHANGED <<head, report, stored, now, heads, errors, sent>>

-----------------------------------------------------------------------------
(* The report and the repository move on. *)

\* Any row of the report is written, also a localization at the head
ReportChanges(r) ==
    /\ now <= MaxChanges
    /\ now' = now + 1
    /\ \E loc \in {report[r].loc, head} : report' = [report EXCEPT ![r] = [stamp |-> now + 1, loc |-> loc]]
    /\ UNCHANGED <<head, stored, remote, late, push, heads, errors, crashes, sent>>

\* A pull; an older head comes back with a forced push, or when a
\* localization records the HEAD it read before the pull (Pipeline, RecordHead)
HeadMoves ==
    /\ heads < MaxHeads
    /\ heads' = heads + 1
    /\ head' \in (IF HeadReturns THEN 1 .. heads + 2 ELSE {heads + 2}) \ {head}
    /\ UNCHANGED <<report, stored, remote, late, push, now, errors, crashes, sent>>

PushStep == StartPush \/ \E r \in Reports : Send(r) \/ PutAnswered(r)

Next ==
    \/ PushStep
    \/ \E r \in Reports : PutRefused(r) \/ PutLost(r) \/ LatePutArrives(r) \/ ReportChanges(r)
    \/ CrashRestart \/ HeadMoves

Spec == Init /\ [][Next]_vars

\* Ticks go on, and every PUT has a timeout.
FairSpec == Spec /\ WF_vars(PushStep)

-----------------------------------------------------------------------------
(* Properties. *)

TypeOK ==
    /\ head \in Nat /\ now \in Nat
    /\ report \in [Reports -> [stamp: Nat, loc: Nat]]
    /\ stored \in [Reports -> Stored]
    /\ remote \in [Reports -> Payload]
    /\ late \in [Reports -> SUBSET Payload]
    /\ push \in [todo: SUBSET Reports, seen: [Reports -> Picture], cur: SUBSET Reports]
    /\ Cardinality(push.cur) <= 1
    /\ {heads, errors, crashes} \subseteq Nat
    /\ sent \in [Reports -> SUBSET Payload]

\* One revision always means one payload, over crashes, resends and a clock
\* that steps back (triage_result_stage).
OneRevisionOnePayload ==
    \A r \in Reports : \A p, q \in sent[r] : p.revision = q.revision => p = q

\* Between PUTs, a picture that counts as acknowledged is the one sonicgrid
\* shows: a staged payload that is not shown is sent again
\* (sonicgrid-triage-sync.md, "not yet acked ... resend the stored payload").
AckedIsShown ==
    \A r \in Reports \ push.cur : stored[r].acked = stored[r].picture => remote[r].picture = stored[r].picture

\* What sonicgrid shows never goes back to an earlier picture of the report,
\* also when lost PUTs arrive late.
ShownNeverGoesBack ==
    [][\A r \in Reports : remote'[r].picture.stamp >= remote[r].picture.stamp]_vars

\* When reports stop changing, sonicgrid shows the last picture of each,
\* unless it refused that picture.
LastPictureArrives ==
    \A r \in Reports : <>[](remote[r].picture = View(r) \/ stored[r].failed = View(r))
=============================================================================
