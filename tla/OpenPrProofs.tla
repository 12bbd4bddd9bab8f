---------------------------- MODULE OpenPrProofs ----------------------------
(***************************************************************************)
(* Theorems about OpenPr: types, the exclusive claim on the branch, the    *)
(* one recorded pull request, whose work it is, and what settling may do,  *)
(* for every number of requests, proposals, commits, pull requests,        *)
(* crashes and failures.                                                   *)
(***************************************************************************)
EXTENDS OpenPr, SequenceTheorems, FiniteSetTheorems, TLAPS

-----------------------------------------------------------------------------
(* Sequences. *)

\* Changing the elements of a sequence leaves a sequence of that length.
LEMMA ChangedSeq ==
    ASSUME NEW S, NEW s \in Seq(S), NEW t,
           t = [i \in DOMAIN s |-> t[i]], \A i \in DOMAIN s : t[i] \in S
    PROVE  t \in Seq(S) /\ Len(t) = Len(s)
<1>1. Len(s) \in Nat /\ DOMAIN s = 1 .. Len(s)
  BY LenProperties
<1>2. t \in [1 .. Len(s) -> S]
  BY <1>1
<1>3. QED
  BY <1>1, <1>2

\* A non-empty sequence has a last element.
LEMMA LastOfSeq ==
    ASSUME NEW S, NEW s \in Seq(S), s # <<>>
    PROVE  Len(s) \in 1 .. Len(s) /\ Len(s) \in DOMAIN s /\ s[Len(s)] \in S
  BY LenProperties, EmptySeq

-----------------------------------------------------------------------------
(* Types. *)

\* A pull request that is recorded, about to be, or read exists.
PrsExist ==
    /\ \A p \in Proposals : recorded[p] <= Len(prs)
    /\ \A q \in Requests : req[q].pc \in {"attribute", "record"} => req[q].pr \in 1 .. Len(prs)
    /\ check.prop # 0 => recorded[check.prop] # 0
    /\ check.answer # "" => check.prop # 0

TypeInv == TypeOK /\ PrsExist

LEMMA Constants ==
    /\ MaxProposals \in Nat /\ MaxProposals > 0
    /\ 1 \in Proposals /\ 0 \notin Proposals /\ Proposals \subseteq Nat
  BY OpenPrAssumption DEF Proposals

LEMMA InitTypes == Init => TypeInv
<1> SUFFICES ASSUME Init PROVE TypeInv
  OBVIOUS
<1>1. NoCommit \in Commit /\ NoRequest \in Request /\ NoCheck \in Check
  BY DEF NoCommit, Commit, NoRequest, Request, NoCheck, Check
<1>2. <<>> \in Seq(Commit) /\ <<>> \in Seq(Pr) /\ Len(<<>>) = 0
  BY EmptySeq
<1>3. TypeOK
  BY <1>1, <1>2, Constants DEF Init, TypeOK
<1>4. PrsExist
  <2>1. /\ Len(prs) = 0 /\ \A p \in Proposals : recorded[p] = 0
        /\ check.prop = 0 /\ check.answer = ""
    BY <1>2 DEF Init, NoCheck
  <2>2. \A q \in Requests : req[q].pc = "idle"
    BY DEF Init, NoRequest
  <2>3. ASSUME NEW p \in Proposals PROVE recorded[p] <= Len(prs)
    <3>1. recorded[p] = 0 /\ Len(prs) = 0
      BY <2>1
    <3>2. QED
      BY <3>1
  <2>4. \A q \in Requests : req[q].pc \notin {"attribute", "record"}
    BY <2>2
  <2>5. QED
    BY <2>1, <2>3, <2>4 DEF PrsExist
<1>5. QED
  BY <1>3, <1>4 DEF TypeInv

\* The part of a request's steps that touches only its own state and the row.
LEMMA RequestTypes ==
    ASSUME TypeInv, NEW q \in Requests, NEW c \in Request,
           req' = [req EXCEPT ![q] = c],
           c.pc \in {"attribute", "record"} => c.pr \in 1 .. Len(prs),
           UNCHANGED <<made, pushed, recorded, remoteVars, settleVars>>,
           status' \in {"triaged", "fix_proposed", "fix_approved", "fix_committed",
                        "rejected", "closed"},
           token' \in Nat, active' \in Nat,
           commits' \in Nat, claims' \in Nat, crashes' \in Nat, edits' \in Nat, errors' \in Nat
    PROVE  TypeInv'
<1> USE DEF TypeInv, remoteVars, settleVars
<1>1. TypeOK'
  BY DEF TypeOK
<1>2. PrsExist'
  BY DEF TypeOK, PrsExist
<1>3. QED
  BY <1>1, <1>2

LEMMA ClaimTypes ==
    ASSUME TypeInv, NEW q \in Requests, NEW want \in Proposals \cup {0}, Claimed(q, want),
           status' = "fix_approved"
    PROVE  TypeInv'
<1> DEFINE c == [pc |-> "claimed", token |-> claims + 1, want |-> want,
                 prop |-> IF want = 0 THEN made ELSE want, pr |-> 0]
<1>1. /\ made \in Proposals /\ active \in Nat
      /\ commits \in Nat /\ claims \in Nat /\ crashes \in Nat /\ edits \in Nat /\ errors \in Nat
  BY DEF TypeInv, TypeOK
<1>2. c \in Request /\ c.pc = "claimed"
  BY <1>1 DEF Request
<1>3. req' = [req EXCEPT ![q] = c]
  BY DEF Claimed
<1>4. /\ token' \in Nat /\ active' \in Nat /\ commits' \in Nat /\ claims' \in Nat
      /\ crashes' \in Nat /\ edits' \in Nat /\ errors' \in Nat
      /\ UNCHANGED <<made, pushed, recorded, remoteVars, settleVars>>
  BY <1>1 DEF Claimed
<1> HIDE DEF c
<1>5. QED
  BY <1>2, <1>3, <1>4, RequestTypes

\* Steps of a request that leave the remote and the proposals alone.
LocalStep(q) ==
    \/ Register(q) \/ Lookup(q) \/ ReadTip(q) \/ PostRefused(q) \/ FindAgain(q)
    \/ Attribute(q) \/ ClaimLost(q) \/ Fails(q)
    \/ Release(q) \/ ReleaseFails(q) \/ Finish(q)

LEMMA MadeProposals ==
    ASSUME TypeInv PROVE 1 .. made \subseteq Proposals
<1>1. made \in 1 .. MaxProposals /\ MaxProposals \in Nat
  BY Constants DEF TypeInv, TypeOK, Proposals
<1>2. QED
  BY <1>1 DEF Proposals

LEMMA TipPushers == ASSUME TypeInv PROVE Pushers \subseteq Proposals
  BY MadeProposals DEF Pushers

LEMMA OwnersAreProposals ==
    ASSUME TypeInv, NEW pr PROVE Owners(pr) \subseteq Proposals
  BY MadeProposals DEF Owners

LEMMA LocalTypes ==
    ASSUME TypeInv, NEW q \in Requests, LocalStep(q)
    PROVE  TypeInv'
<1> USE DEF rowVars, remoteVars, settleVars, boundVars
<1>1. /\ req \in [Requests -> Request] /\ req[q] \in Request
      /\ status \in {"triaged", "fix_proposed", "fix_approved", "fix_committed", "rejected", "closed"}
      /\ token \in Nat /\ active \in Nat
      /\ commits \in Nat /\ claims \in Nat /\ crashes \in Nat /\ edits \in Nat /\ errors \in Nat
  BY DEF TypeInv, TypeOK
<1>2. NoRequest \in Request /\ NoRequest.pc = "idle"
  BY DEF NoRequest, Request
<1>3. req' = [req EXCEPT ![q] = req'[q]] /\ req'[q] \in Request
  <2>1. CASE Register(q) \/ PostRefused(q) \/ ClaimLost(q) \/ Fails(q)
    BY <1>1, <2>1 DEF Register, PostRefused, ClaimLost, Fails, Goto, Request
  <2>2. CASE Lookup(q) \/ FindAgain(q)
    <3>1. Len(prs) \in Nat
      BY EmptySeq, LenProperties DEF TypeInv, TypeOK
    <3>2. PICK pc \in {"tip", "release", "attribute"} :
             req' = [req EXCEPT ![q] = [req[q] EXCEPT !.pc = pc, !.pr = Len(prs)]]
      BY <1>1, <2>2 DEF Lookup, FindAgain, Found
    <3>3. QED
      BY <1>1, <3>1, <3>2 DEF Request
  <2>3. CASE ReadTip(q)
    <3>1. CASE \E p \in Pushers :
                 req' = [req EXCEPT ![q] = [req[q] EXCEPT !.pc = "post", !.prop = p]]
      <4>1. PICK p \in Proposals :
               req' = [req EXCEPT ![q] = [req[q] EXCEPT !.pc = "post", !.prop = p]]
        BY <3>1, TipPushers
      <4>2. QED
        BY <1>1, <4>1 DEF Request
    <3>2. CASE \E pc \in {"build", "release"} : Goto(q, pc)
      BY <1>1, <3>2 DEF Goto, Request
    <3>3. QED
      BY <2>3, <3>1, <3>2 DEF ReadTip
  <2>4. CASE Attribute(q)
    BY <1>1, <2>4, OwnersAreProposals DEF Attribute, Goto, Request
  <2>5. CASE Release(q) \/ ReleaseFails(q) \/ Finish(q)
    BY <1>1, <1>2, <2>5 DEF Release, ReleaseFails, Finish, Ends
  <2>6. QED
    BY <2>1, <2>2, <2>3, <2>4, <2>5 DEF LocalStep
<1>4. req'[q].pc \in {"attribute", "record"} => req'[q].pr \in 1 .. Len(prs)
  <2>1. CASE Register(q) \/ PostRefused(q) \/ ClaimLost(q) \/ Fails(q)
    BY <1>1, <2>1 DEF Register, PostRefused, ClaimLost, Fails, Goto, Request
  <2>2. CASE Lookup(q) \/ FindAgain(q)
    <3>1. prs # <<>> => Len(prs) \in 1 .. Len(prs)
      BY LastOfSeq DEF TypeInv, TypeOK
    <3>2. QED
      BY <1>1, <2>2, <3>1 DEF Lookup, FindAgain, Found, Request
  <2>3. CASE ReadTip(q)
    BY <1>1, <2>3 DEF ReadTip, Goto, Request
  <2>4. CASE Attribute(q)
    <3>1. req[q].pr \in 1 .. Len(prs)
      BY <2>4 DEF Attribute, TypeInv, PrsExist
    <3>2. req'[q].pr = req[q].pr
      BY <1>1, <2>4 DEF Attribute, Goto, Request
    <3>3. QED
      BY <3>1, <3>2
  <2>5. CASE Release(q) \/ ReleaseFails(q) \/ Finish(q)
    BY <1>1, <1>2, <2>5 DEF Release, ReleaseFails, Finish, Ends
  <2>6. QED
    BY <2>1, <2>2, <2>3, <2>4, <2>5 DEF LocalStep
<1>5. UNCHANGED <<made, pushed, recorded, remoteVars, settleVars, boundVars>>
  BY DEF LocalStep, Register, Lookup, ReadTip, PostRefused, FindAgain, Attribute, ClaimLost, Fails,
         Release, ReleaseFails, Finish
<1>6. /\ status' \in {"triaged", "fix_proposed", "fix_approved", "fix_committed", "rejected", "closed"}
      /\ token' \in Nat /\ active' \in Nat
  <2>1. req[q].token \in Nat
    BY <1>1 DEF Request
  <2>2. CASE Register(q)
    BY <1>1, <2>1, <2>2 DEF Register
  <2>3. CASE Release(q) \/ ReleaseFails(q) \/ Finish(q)
    BY <1>1, <2>3 DEF Release, ReleaseFails, Finish, Ends
  <2>4. CASE Lookup(q) \/ ReadTip(q) \/ PostRefused(q) \/ FindAgain(q) \/ Attribute(q)
             \/ ClaimLost(q) \/ Fails(q)
    BY <1>1, <2>4 DEF Lookup, ReadTip, PostRefused, FindAgain, Attribute, ClaimLost, Fails
  <2>5. QED
    BY <2>2, <2>3, <2>4 DEF LocalStep
<1>7. QED
  BY <1>1, <1>3, <1>4, <1>5, <1>6, RequestTypes

\* Steps that leave the records and the read alone, whatever they do to the remote.
LEMMA RemoteTypes ==
    ASSUME TypeInv, UNCHANGED <<recorded, settleVars>>,
           prs' \in Seq(Pr), Len(prs) <= Len(prs'),
           \A q \in Requests : req'[q].pc \in {"attribute", "record"} =>
              \/ req'[q].pr \in 1 .. Len(prs')
              \/ req[q].pc \in {"attribute", "record"} /\ req'[q].pr = req[q].pr
    PROVE  PrsExist'
<1> USE DEF TypeInv, settleVars
<1>1. Len(prs) \in Nat /\ Len(prs') \in Nat
  BY LenProperties DEF TypeOK
<1>2. \A p \in Proposals : recorded[p] \in Nat /\ recorded[p] <= Len(prs')
  <2>1. \A p \in Proposals : recorded[p] \in Nat
    BY DEF TypeOK
  <2>2. \A p \in Proposals : recorded[p] <= Len(prs)
    BY DEF PrsExist
  <2>3. QED
    BY <1>1, <2>1, <2>2
<1>3. ASSUME NEW q \in Requests, req'[q].pc \in {"attribute", "record"}
      PROVE  req'[q].pr \in 1 .. Len(prs')
  <2>1. CASE req[q].pc \in {"attribute", "record"} /\ req'[q].pr = req[q].pr
    <3>1. req[q].pr \in 1 .. Len(prs)
      BY <2>1 DEF PrsExist
    <3>2. QED
      BY <1>1, <2>1, <3>1
  <2>2. QED
    BY <1>3, <2>1
<1>4. QED
  BY <1>2, <1>3 DEF PrsExist

\* The commit a request is about to build or to push is one.
LEMMA OwnCommits ==
    ASSUME TypeInv, NEW q \in Requests
    PROVE  /\ NewCommit(q) \in Commit /\ Pushing(q) \in Commit
           /\ req[q] \in Request /\ NoCommit \in Commit
<1>1. req[q] \in Request /\ commits \in Nat
  BY DEF TypeInv, TypeOK
<1>2. QED
  BY <1>1 DEF Request, NewCommit, Pushing, Commit, NoCommit

LEMMA PushTypes ==
    ASSUME TypeInv, NEW q \in Requests, Build(q) \/ Push(q) \/ PushLost(q) \/ PostLost(q)
    PROVE  TypeInv'
<1> USE DEF rowVars, remoteVars, settleVars, boundVars
<1>1. PICK pc \in {"push", "post", "release"} : req' = [req EXCEPT ![q] = [req[q] EXCEPT !.pc = pc]]
  BY DEF Build, Push, PushLost, PostLost, Goto
<1>2. req' \in [Requests -> Request]
  <2>1. req \in [Requests -> Request] /\ [req[q] EXCEPT !.pc = pc] \in Request
    BY OwnCommits DEF TypeInv, TypeOK, Request
  <2>2. QED
    BY <1>1, <2>1
<1>3. \A x \in Requests : req'[x].pc \in {"attribute", "record"} =>
          req[x].pc \in {"attribute", "record"} /\ req'[x].pr = req[x].pr
  BY <1>1, <1>2 DEF TypeInv, TypeOK, Request
<1>4. prs' = prs /\ recorded' = recorded /\ settled' = settled /\ check' = check
  BY DEF Build, Push, PushLost, PostLost
<1>5. PrsExist'
  <2>1. prs \in Seq(Pr) /\ Len(prs) \in Nat
    BY LenProperties DEF TypeInv, TypeOK
  <2>2. QED
    BY <1>3, <1>4, <2>1, RemoteTypes
<1>6. TypeOK'
  <2>1. CASE Build(q)
    <3>1. commits \in Nat /\ pushed \in [Proposals -> Commit]
      BY DEF TypeInv, TypeOK
    <3>2. pushed' \in [Proposals -> Commit]
      BY <2>1, <3>1, OwnCommits DEF Build
    <3>3. commits' \in Nat
      BY <2>1, <3>1 DEF Build
    <3>4. QED
      BY <1>2, <2>1, <3>2, <3>3 DEF Build, TypeInv, TypeOK
  <2>2. CASE Push(q)
    <3>1. <<Pushing(q)>> \in Seq(Commit)
      BY OwnCommits
    <3>2. QED
      BY <1>2, <2>2, <3>1 DEF Push, TypeInv, TypeOK
  <2>3. CASE PushLost(q)
    BY <1>2, <2>3, OwnCommits DEF PushLost, TypeInv, TypeOK
  <2>4. CASE PostLost(q)
    BY <1>2, <2>4, OwnCommits DEF PostLost, TypeInv, TypeOK
  <2>5. QED
    BY <2>1, <2>2, <2>3, <2>4
<1>7. QED
  BY <1>5, <1>6 DEF TypeInv

\* external: a new pull request is the last one
LEMMA OpensTypes ==
    ASSUME TypeInv, OpensPr
    PROVE  /\ prs' \in Seq(Pr) /\ Len(prs') = Len(prs) + 1 /\ Len(prs) \in Nat
           /\ \A i \in 1 .. Len(prs) : prs'[i] = prs[i]
           /\ prs'[Len(prs')] = [commits |-> Range(branch), state |-> "open"]
<1>1. prs \in Seq(Pr) /\ Len(prs) \in Nat /\ Range(branch) \subseteq Commit
  BY LenProperties, RangeOfSeq DEF TypeInv, TypeOK
<1> DEFINE new == [commits |-> Range(branch), state |-> "open"]
<1>2. new \in Pr
  BY <1>1 DEF Pr
<1>3. prs' = Append(prs, new)
  BY DEF OpensPr
<1> HIDE DEF new
<1>4. /\ prs' \in Seq(Pr) /\ Len(prs') = Len(prs) + 1 /\ Len(prs) \in Nat
      /\ \A i \in 1 .. Len(prs) : prs'[i] = prs[i]
      /\ prs'[Len(prs')] = new
  BY <1>1, <1>2, <1>3
<1>5. QED
  BY <1>4 DEF new

LEMMA PostTypes ==
    ASSUME TypeInv, NEW q \in Requests, Post(q)
    PROVE  TypeInv'
<1> USE DEF rowVars, remoteVars, settleVars, boundVars
<1>1. /\ prs' \in Seq(Pr) /\ Len(prs') = Len(prs) + 1 /\ Len(prs) \in Nat
  BY OpensTypes DEF Post
<1>2. req' = [req EXCEPT ![q] = [req[q] EXCEPT !.pc = "record", !.pr = Len(prs) + 1]]
  BY DEF Post
<1>3. req' \in [Requests -> Request]
  <2>1. req \in [Requests -> Request] /\ Len(prs) + 1 \in Nat
    BY <1>1 DEF TypeInv, TypeOK
  <2>2. QED
    BY <1>2, <2>1 DEF Request
<1>4. /\ req'[q].pr = Len(prs')
      /\ \A x \in Requests \ {q} : req'[x] = req[x]
  BY <1>1, <1>2 DEF TypeInv, TypeOK, Request
<1>5. PrsExist'
  <2>1. Len(prs) <= Len(prs') /\ Len(prs') \in 1 .. Len(prs')
    BY <1>1
  <2>2. QED
    BY <1>1, <1>4, <2>1, RemoteTypes DEF Post
<1>6. TypeOK'
  BY <1>1, <1>3 DEF Post, TypeInv, TypeOK
<1>7. QED
  BY <1>5, <1>6 DEF TypeInv

LEMMA RecordTypes ==
    ASSUME TypeInv, NEW q \in Requests, Record(q)
    PROVE  TypeInv'
<1> USE DEF rowVars, remoteVars, settleVars, boundVars
<1>1. /\ req' = [req EXCEPT ![q] = [req[q] EXCEPT !.pc = "close"]] /\ req' \in [Requests -> Request]
      /\ req[q] \in Request /\ recorded \in [Proposals -> Nat]
  BY DEF Record, Goto, TypeInv, TypeOK, Request
<1>2. req[q].pr \in Nat /\ req[q].pr # 0 /\ req[q].pr <= Len(prs)
  <2>1. req[q].pr \in 1 .. Len(prs) /\ Len(prs) \in Nat
    BY LenProperties DEF Record, TypeInv, TypeOK, PrsExist
  <2>2. QED
    BY <2>1
<1>3. recorded' = [recorded EXCEPT ![req[q].prop] = req[q].pr] /\ prs' = prs
      /\ settled' = settled /\ check' = check
  BY DEF Record
<1>4. recorded' \in [Proposals -> Nat]
  BY <1>1, <1>2, <1>3
<1>5. PrsExist'
  <2>1. \A p \in Proposals : recorded'[p] <= Len(prs')
    BY <1>1, <1>2, <1>3 DEF TypeInv, PrsExist
  <2>2. \A x \in Requests : req'[x].pc \in {"attribute", "record"} => req'[x].pr \in 1 .. Len(prs')
    BY <1>1, <1>3 DEF TypeInv, PrsExist, Request
  <2>3. check'.prop # 0 => recorded'[check'.prop] # 0
    <3>1. check.prop \in Proposals \cup {0}
      BY DEF TypeInv, TypeOK, Check
    <3>2. QED
      BY <1>1, <1>2, <1>3, <3>1 DEF TypeInv, PrsExist
  <2>4. QED
    BY <1>3, <2>1, <2>2, <2>3 DEF TypeInv, PrsExist
<1>6. TypeOK'
  BY <1>1, <1>4 DEF Record, TypeInv, TypeOK
<1>7. QED
  BY <1>5, <1>6 DEF TypeInv

\* What is read, and how it is answered.
LEMMA AnswerTypes ==
    ASSUME TypeInv, ReadPr
    PROVE  /\ check.prop \in Proposals
           /\ recorded[check.prop] \in 1 .. Len(prs)
           /\ prs[recorded[check.prop]] \in Pr
           /\ check' \in {NoCheck, [prop |-> check.prop, answer |-> prs[recorded[check.prop]].state]}
           /\ check'.answer \in {"", "merged", "closed"}
<1>1. check \in Check /\ check.prop \in Proposals /\ recorded[check.prop] # 0
  BY DEF ReadPr, Check, TypeInv, TypeOK, PrsExist
<1>2. recorded[check.prop] \in 1 .. Len(prs)
  <2>1. Len(prs) \in Nat /\ recorded[check.prop] \in Nat /\ recorded[check.prop] <= Len(prs)
    BY <1>1, LenProperties DEF TypeInv, TypeOK, PrsExist
  <2>2. QED
    BY <1>1, <2>1
<1>3. prs[recorded[check.prop]] \in Pr
  BY <1>2, ElementOfSeq DEF TypeInv, TypeOK
<1> DEFINE state == prs[recorded[check.prop]].state
<1>4. state \in {"open", "merged", "closed"}
  BY <1>3 DEF Pr
<1>5. CASE state = "open"
  BY <1>1, <1>2, <1>3, <1>5 DEF ReadPr, NoCheck
<1>6. CASE state \in {"merged", "closed"}
  <2>1. check' = [check EXCEPT !.answer = state]
    BY <1>6 DEF ReadPr
  <2>2. check' = [prop |-> check.prop, answer |-> state]
    BY <1>1, <2>1 DEF Check
  <2>3. QED
    BY <1>1, <1>2, <1>3, <1>6, <2>2
<1>7. QED
  BY <1>4, <1>5, <1>6

\* The read in flight stays well typed.
LEMMA CheckTypes ==
    ASSUME TypeInv, CheckStep \/ CheckFails
    PROVE  /\ check' \in Check
           /\ check'.prop # 0 => recorded[check'.prop] # 0
           /\ check'.answer # "" => check'.prop # 0
<1>1. check \in Check /\ NoCheck \in Check /\ NoCheck.prop = 0 /\ NoCheck.answer = ""
  BY DEF TypeInv, TypeOK, NoCheck, Check
<1>2. CASE \E p \in Proposals : SelectPr(p)
  <2>1. PICK p \in Proposals : SelectPr(p)
    BY <1>2
  <2>2. check' = [prop |-> p, answer |-> ""] /\ recorded[p] # 0
    BY <2>1 DEF SelectPr
  <2>3. QED
    BY <2>2 DEF Check
<1>3. CASE ReadPr
  <2>1. check.prop # 0 /\ recorded[check.prop] # 0
    BY <1>3 DEF ReadPr, TypeInv, PrsExist
  <2> DEFINE read == [prop |-> check.prop, answer |-> prs[recorded[check.prop]].state]
  <2>2. CASE check' = NoCheck
    BY <1>1, <2>2
  <2>3. CASE check' = read
    <3>1. check' \in Check
      BY <1>3, <2>3, AnswerTypes DEF Check
    <3>2. QED
      BY <2>1, <2>3, <3>1
  <2>4. QED
    BY <1>3, <2>2, <2>3, AnswerTypes
<1>4. CASE SettlePr \/ CheckFails
  BY <1>1, <1>4 DEF SettlePr, CheckFails
<1>5. QED
  BY <1>2, <1>3, <1>4 DEF CheckStep

\* Settling moves the status and the read only.
LEMMA SettleFrame ==
    ASSUME TypeInv, CheckStep \/ CheckFails
    PROVE  /\ UNCHANGED <<token, active, made, pushed, recorded, remoteVars, req,
                          commits, claims, crashes, edits>>
           /\ settled' \subseteq Proposals /\ errors' \in Nat
           /\ status' \in {status, "closed", "triaged"}
           /\ status' # status => status = "fix_committed" /\ SettlePr
<1> USE DEF rowVars, remoteVars, boundVars
<1>1. check \in Check /\ errors \in Nat /\ settled \subseteq Proposals
  BY DEF TypeInv, TypeOK
<1>2. CASE \E p \in Proposals : SelectPr(p)
  BY <1>1, <1>2 DEF SelectPr
<1>3. CASE ReadPr
  BY <1>1, <1>3 DEF ReadPr
<1>4. CASE SettlePr
  <2>1. check.prop \in Proposals
    BY <1>1, <1>4 DEF SettlePr, Check, TypeInv, PrsExist
  <2>2. settled' \subseteq Proposals
    BY <1>1, <1>4, <2>1 DEF SettlePr
  <2>3. /\ status' \in {status, "closed", "triaged"}
        /\ status' # status => status = "fix_committed"
    BY <1>4 DEF SettlePr, SettledStatus
  <2>4. QED
    BY <1>1, <1>4, <2>2, <2>3 DEF SettlePr
<1>5. CASE CheckFails
  BY <1>1, <1>5 DEF CheckFails
<1>6. QED
  BY <1>2, <1>3, <1>4, <1>5 DEF CheckStep

LEMMA SettleTypes ==
    ASSUME TypeInv, CheckStep \/ CheckFails
    PROVE  TypeInv'
<1> USE DEF remoteVars
<1>1. PrsExist'
  BY CheckTypes, SettleFrame DEF TypeInv, PrsExist
<1>2. TypeOK'
  BY CheckTypes, SettleFrame DEF TypeInv, TypeOK
<1>3. QED
  BY <1>1, <1>2 DEF TypeInv

\* The other actors, as far as they leave GitHub alone.
LEMMA OtherTypes ==
    ASSUME TypeInv,
           DeleteReport \/ Propose \/ Crash \/ Reopen
             \/ (\E target \in {"triaged", "closed"} : PatchStatus(target))
             \/ (\E c \in late : LatePush(c))
    PROVE  TypeInv'
<1> USE DEF rowVars, remoteVars, settleVars, boundVars
<1>1. /\ commits \in Nat /\ claims \in Nat /\ crashes \in Nat /\ edits \in Nat /\ errors \in Nat
      /\ late \subseteq Commit /\ prs \in Seq(Pr) /\ Len(prs) \in Nat /\ made \in Proposals
  BY LenProperties DEF TypeInv, TypeOK
<1>2. CASE DeleteReport \/ Reopen \/ \E target \in {"triaged", "closed"} : PatchStatus(target)
  <2>1. edits' \in Nat
    BY <1>1, <1>2 DEF DeleteReport, Reopen, PatchStatus
  <2>2. PrsExist'
    BY <1>2 DEF DeleteReport, Reopen, PatchStatus, TypeInv, PrsExist
  <2>3. QED
    BY <1>2, <2>1, <2>2 DEF DeleteReport, Reopen, PatchStatus, TypeInv, TypeOK
<1>3. CASE Propose
  <2>1. made' \in Proposals
    <3>1. made + 1 \in 1 .. MaxProposals
      BY <1>1, <1>3, Constants DEF Propose, Proposals
    <3>2. QED
      BY <1>3, <3>1 DEF Propose, Proposals
  <2>2. PrsExist'
    BY <1>3 DEF Propose, TypeInv, PrsExist
  <2>3. QED
    BY <1>3, <2>1, <2>2 DEF Propose, TypeInv, TypeOK
<1>4. CASE Crash
  <2>1. InFlight \subseteq Commit
    BY OwnCommits DEF InFlight
  <2>2. late' \subseteq Commit /\ crashes' \in Nat
    BY <1>1, <1>4, <2>1 DEF Crash
  <2>3. NoRequest \in Request /\ NoRequest.pc = "idle" /\ NoCheck \in Check
        /\ NoCheck.prop = 0 /\ NoCheck.answer = ""
    BY DEF NoRequest, Request, NoCheck, Check
  <2>4. PrsExist'
    BY <1>4, <2>3 DEF Crash, TypeInv, PrsExist
  <2>5. QED
    BY <1>4, <2>2, <2>3, <2>4 DEF Crash, TypeInv, TypeOK
<1>5. CASE \E c \in late : LatePush(c)
  <2>1. PICK c \in late : LatePush(c)
    BY <1>5
  <2>2. branch' \in Seq(Commit) /\ late' \subseteq Commit
    BY <1>1, <2>1 DEF LatePush
  <2>3. PrsExist'
    BY <2>1 DEF LatePush, TypeInv, PrsExist
  <2>4. QED
    BY <2>1, <2>2, <2>3 DEF LatePush, TypeInv, TypeOK
<1>6. QED
  BY <1>2, <1>3, <1>4, <1>5

\* People and late POSTs.
LEMMA PeopleTypes ==
    ASSUME TypeInv,
           LatePost \/ PersonPushes \/ PersonOpens
             \/ (\E state \in {"merged", "closed"} : PersonEnds(state))
             \/ (\E i \in DOMAIN prs : PersonReopens(i))
    PROVE  TypeInv'
<1> USE DEF rowVars, remoteVars, settleVars, boundVars
<1>1. /\ commits \in Nat /\ edits \in Nat /\ late \subseteq Commit
      /\ prs \in Seq(Pr) /\ Len(prs) \in Nat /\ DOMAIN prs = 1 .. Len(prs)
      /\ branch \in Seq(Commit) /\ \A i \in DOMAIN prs : prs[i] \in Pr
  BY LenProperties, ElementOfSeq DEF TypeInv, TypeOK
<1>2. prs' \in Seq(Pr) /\ Len(prs) <= Len(prs') /\ branch' \in Seq(Commit)
  <2>1. CASE LatePost \/ PersonOpens
    BY <1>1, <2>1, OpensTypes DEF LatePost, PersonOpens
  <2>2. CASE PersonPushes
    <3>1. branch' \in Seq(Commit)
      BY <1>1, <2>2, Constants DEF PersonPushes, Commit
    <3>2. Range(branch') \subseteq Commit
      BY <3>1, RangeOfSeq
    <3>3. \A i \in DOMAIN prs : prs'[i] \in Pr
      BY <1>1, <2>2, <3>2 DEF PersonPushes, Pr
    <3>4. prs' = [i \in DOMAIN prs |-> prs'[i]]
      BY <2>2 DEF PersonPushes
    <3>5. prs' \in Seq(Pr) /\ Len(prs') = Len(prs)
      BY <1>1, <3>3, <3>4, ChangedSeq
    <3>6. QED
      BY <1>1, <3>1, <3>5
  <2>3. CASE \E state \in {"merged", "closed"} : PersonEnds(state)
    <3>1. branch' \in Seq(Commit)
      <4>1. branch' \in {branch, <<>>}
        BY <2>3 DEF PersonEnds
      <4>2. QED
        BY <1>1, <4>1, EmptySeq
    <3>2. \A i \in DOMAIN prs : prs'[i] \in Pr
      <4>1. PICK state \in {"merged", "closed"} : PersonEnds(state)
        BY <2>3
      <4>2. \A i \in DOMAIN prs : prs'[i] \in {prs[i], [prs[i] EXCEPT !.state = state]}
        BY <4>1 DEF PersonEnds
      <4>3. QED
        BY <1>1, <4>2 DEF Pr
    <3>3. prs' = [i \in DOMAIN prs |-> prs'[i]]
      BY <2>3 DEF PersonEnds
    <3>4. prs' \in Seq(Pr) /\ Len(prs') = Len(prs)
      BY <1>1, <3>2, <3>3, ChangedSeq
    <3>5. QED
      BY <1>1, <3>1, <3>4
  <2>4. CASE \E i \in DOMAIN prs : PersonReopens(i)
    <3>1. PICK i \in DOMAIN prs : PersonReopens(i)
      BY <2>4
    <3>2. [commits |-> Range(branch), state |-> "open"] \in Pr
      BY <1>1, RangeOfSeq DEF Pr
    <3>3. prs' \in Seq(Pr) /\ Len(prs') = Len(prs) /\ branch' = branch
      BY <1>1, <3>1, <3>2, ExceptSeq DEF PersonReopens
    <3>4. QED
      BY <1>1, <3>3
  <2>5. QED
    BY <2>1, <2>2, <2>3, <2>4
<1>3. /\ UNCHANGED <<rowVars, active, req, settleVars, claims, crashes, errors>>
      /\ commits' \in Nat /\ edits' \in Nat /\ late' \subseteq Commit
  BY <1>1 DEF LatePost, PersonPushes, PersonOpens, PersonEnds, PersonReopens
<1>4. PrsExist'
  BY <1>2, <1>3, RemoteTypes
<1>5. TypeOK'
  BY <1>2, <1>3 DEF TypeInv, TypeOK
<1>6. QED
  BY <1>4, <1>5 DEF TypeInv

\* No action leaves the types.
LEMMA NextTypes == TypeInv /\ [Next]_vars => TypeInv'
<1> SUFFICES ASSUME TypeInv, [Next]_vars PROVE TypeInv'
  OBVIOUS
<1>1. CASE \E q \in Requests, want \in Proposals \cup {0} : Claim(q, want) \/ Adopt(q, want)
  BY <1>1, ClaimTypes DEF Claim, Adopt
<1>2. CASE \E q \in Requests : RequestStep(q)
  BY <1>2, LocalTypes, PushTypes, PostTypes, RecordTypes DEF RequestStep, LocalStep
<1>3. CASE CheckStep \/ CheckFails
  BY <1>3, SettleTypes
<1>4. CASE UNCHANGED vars
  BY <1>4 DEF vars, TypeInv, TypeOK, PrsExist
<1>5. QED
  BY <1>1, <1>2, <1>3, <1>4, OtherTypes, PeopleTypes DEF Next

LEMMA Types == Spec => []TypeInv
<1>1. QED
  BY InitTypes, NextTypes, PTL DEF Spec

\* Every reachable state is well typed, and whatever is recorded, about to be
\* recorded or read is an existing pull request.
THEOREM TypeCorrect == Spec => []TypeOK
<1>1. TypeInv => TypeOK
  BY DEF TypeInv
<1>2. QED
  BY <1>1, Types, PTL

-----------------------------------------------------------------------------
(* The exclusive claim. *)

Busy(q) == req[q].pc # "idle"

\* One request at a time, from its claim to its end; a claim on the report is
\* that request's, and so is the registry entry once it is made.
HolderInv ==
    /\ \A q \in Requests : Busy(q) =>
          /\ req[q].token # 0
          /\ status = "fix_approved" => token = req[q].token
          /\ \A x \in Requests : Busy(x) => x = q
    /\ \A q \in Requests : Working(q) => active = req[q].token

\* With the loop free and the registry empty, no request is under way.
LEMMA NobodyBusy ==
    ASSUME HolderInv, LoopFree, active = 0, NEW q \in Requests
    PROVE  ~Busy(q)
  BY DEF HolderInv, LoopFree, Busy, Working

\* What keeps the claim exclusive: requests only go on or end, and only a claim
\* on a free report brings the claim status.
LEMMA HolderKept ==
    ASSUME HolderInv,
           \A x \in Requests : /\ Busy(x)' => Busy(x) /\ req'[x].token = req[x].token
                               /\ Working(x)' => Working(x),
           active' = active,
           status' = "fix_approved" => status = "fix_approved" /\ token' = token
    PROVE  HolderInv'
<1>1. ASSUME NEW q \in Requests, Busy(q)'
      PROVE  /\ req'[q].token # 0
             /\ status' = "fix_approved" => token' = req'[q].token
             /\ \A x \in Requests : Busy(x)' => x = q
  <2>1. Busy(q) /\ req'[q].token = req[q].token
    BY <1>1
  <2>2. QED
    BY <2>1 DEF HolderInv
<1>2. ASSUME NEW q \in Requests, Working(q)' PROVE active' = req'[q].token
  <2>1. Working(q) /\ Busy(q)'
    BY <1>2 DEF Working, Busy
  <2>2. active = req[q].token /\ req'[q].token = req[q].token
    BY <2>1 DEF HolderInv
  <2>3. QED
    BY <2>2
<1>3. QED
  BY <1>1, <1>2 DEF HolderInv

LEMMA ClaimHolds ==
    ASSUME TypeInv, HolderInv, NEW q \in Requests, NEW want, Claim(q, want) \/ Adopt(q, want)
    PROVE  HolderInv'
<1>1. active = 0 /\ active' = active /\ claims \in Nat /\ req \in [Requests -> Request] /\ LoopFree
  BY DEF Claim, Adopt, Claimed, MayClaim, TypeInv, TypeOK
<1>2. \A x \in Requests : ~Busy(x)
  BY <1>1, NobodyBusy
<1>3. /\ token' = claims + 1 /\ req'[q].token = claims + 1 /\ req'[q].pc = "claimed"
      /\ \A x \in Requests \ {q} : req'[x] = req[x]
  BY <1>1 DEF Claim, Adopt, Claimed
<1>4. claims + 1 # 0
  BY <1>1
<1>5. QED
  BY <1>2, <1>3, <1>4 DEF HolderInv, Busy, Working

LEMMA RegisterHolds ==
    ASSUME TypeInv, HolderInv, NEW q \in Requests, Register(q)
    PROVE  HolderInv'
<1>1. /\ active' = req[q].token /\ req[q].pc = "claimed" /\ status' = status /\ token' = token
      /\ req'[q].token = req[q].token /\ req'[q].pc = "lookup"
      /\ \A x \in Requests \ {q} : req'[x] = req[x]
  BY DEF Register, TypeInv, TypeOK, Request, rowVars
<1>2. \A x \in Requests \ {q} : ~Busy(x)
  BY <1>1 DEF HolderInv, Busy
<1>3. QED
  BY <1>1, <1>2 DEF HolderInv, Busy, Working

\* The end of the only request under way leaves none.
LEMMA EndHolds ==
    ASSUME TypeInv, HolderInv, NEW q \in Requests, Release(q) \/ ReleaseFails(q) \/ Finish(q)
    PROVE  HolderInv'
<1>1. /\ Busy(q) /\ req'[q].pc = "idle"
      /\ \A x \in Requests \ {q} : req'[x] = req[x]
  BY DEF Release, ReleaseFails, Finish, Ends, TypeInv, TypeOK, NoRequest, Busy
<1>2. \A x \in Requests : ~Busy(x)'
  BY <1>1 DEF HolderInv, Busy
<1>3. QED
  BY <1>2 DEF HolderInv, Busy, Working

\* Every other step of a request goes on with the same claim.
LEMMA GoesOn ==
    ASSUME TypeInv, NEW q \in Requests, RequestStep(q),
           ~(Register(q) \/ Release(q) \/ ReleaseFails(q) \/ Finish(q))
    PROVE  /\ Working(q) /\ req'[q].token = req[q].token /\ req'[q].pc # "claimed"
           /\ req[q].pc # "close"
           /\ \A x \in Requests \ {q} : req'[x] = req[x]
           /\ active' = active
           /\ Record(q) \/ (status' = status /\ token' = token /\ recorded' = recorded)
<1> USE DEF rowVars
<1>1. req \in [Requests -> Request] /\ req[q] \in Request
  BY DEF TypeInv, TypeOK
<1>2. CASE Build(q) \/ Push(q) \/ PushLost(q) \/ PostRefused(q) \/ PostLost(q) \/ ClaimLost(q)
             \/ Fails(q) \/ Record(q)
  BY <1>1, <1>2 DEF Build, Push, PushLost, PostRefused, PostLost, ClaimLost, Fails, Record, Goto,
                    Request, Working
<1>3. CASE Lookup(q) \/ FindAgain(q)
  <2>1. PICK pc \in {"tip", "release", "attribute"} :
           req' = [req EXCEPT ![q] = [req[q] EXCEPT !.pc = pc, !.pr = Len(prs)]]
    BY <1>1, <1>3 DEF Lookup, FindAgain, Found
  <2>2. QED
    BY <1>1, <1>3, <2>1 DEF Lookup, FindAgain, Request, Working
<1>4. CASE ReadTip(q) \/ Post(q) \/ Attribute(q)
  BY <1>1, <1>4 DEF ReadTip, Post, Attribute, Goto, Request, Working
<1>5. QED
  BY <1>2, <1>3, <1>4 DEF RequestStep

LEMMA RequestHolds ==
    ASSUME TypeInv, HolderInv, NEW q \in Requests, RequestStep(q)
    PROVE  HolderInv'
<1>1. CASE Register(q) \/ Release(q) \/ ReleaseFails(q) \/ Finish(q)
  BY <1>1, RegisterHolds, EndHolds
<1>2. CASE ~(Register(q) \/ Release(q) \/ ReleaseFails(q) \/ Finish(q))
  <2>1. status' = "fix_approved" => status = "fix_approved" /\ token' = token
    BY <1>2, GoesOn DEF Record
  <2>2. \A x \in Requests : /\ Busy(x)' => Busy(x) /\ req'[x].token = req[x].token
                            /\ Working(x)' => Working(x)
    BY <1>2, GoesOn DEF Busy, Working
  <2>3. QED
    BY <1>2, <2>1, <2>2, GoesOn, HolderKept
<1>3. QED
  BY <1>1, <1>2

\* The other actors take no claim and wake no request.
LEMMA OthersFrame ==
    ASSUME TypeInv, [Next]_vars,
           ~(\E q \in Requests, want \in Proposals \cup {0} : Claim(q, want) \/ Adopt(q, want)),
           ~(\E q \in Requests : RequestStep(q))
    PROVE  /\ recorded' = recorded
           /\ status' = "fix_approved" => status = "fix_approved" /\ token' = token
           /\ \/ req' = req /\ active' = active
              \/ \A q \in Requests : req'[q].pc = "idle"
<1> USE DEF rowVars, remoteVars, settleVars, boundVars
<1>1. CASE CheckStep \/ CheckFails
  BY <1>1, SettleFrame
<1>2. CASE DeleteReport \/ Propose \/ Crash \/ Reopen \/ \E target \in {"triaged", "closed"} : PatchStatus(target)
  BY <1>2 DEF DeleteReport, Propose, Crash, Reopen, PatchStatus, NoRequest
<1>3. CASE (\E c \in late : LatePush(c)) \/ LatePost \/ PersonPushes \/ PersonOpens
             \/ (\E state \in {"merged", "closed"} : PersonEnds(state))
             \/ (\E i \in DOMAIN prs : PersonReopens(i))
  BY <1>3 DEF LatePush, LatePost, PersonPushes, PersonOpens, PersonEnds, PersonReopens
<1>4. CASE UNCHANGED vars
  BY <1>4 DEF vars
<1>5. QED
  BY <1>1, <1>2, <1>3, <1>4 DEF Next

LEMMA NextHolds == TypeInv /\ HolderInv /\ [Next]_vars => HolderInv'
<1> SUFFICES ASSUME TypeInv, HolderInv, [Next]_vars PROVE HolderInv'
  OBVIOUS
<1>1. CASE \E q \in Requests, want \in Proposals \cup {0} : Claim(q, want) \/ Adopt(q, want)
  BY <1>1, ClaimHolds
<1>2. CASE \E q \in Requests : RequestStep(q)
  BY <1>2, RequestHolds
<1>3. ASSUME ~(\E q \in Requests, want \in Proposals \cup {0} : Claim(q, want) \/ Adopt(q, want)),
             ~(\E q \in Requests : RequestStep(q))
      PROVE  HolderInv'
  <2>1. status' = "fix_approved" => status = "fix_approved" /\ token' = token
    BY <1>3, OthersFrame
  <2>2. CASE req' = req /\ active' = active
    BY <2>1, <2>2, HolderKept DEF Busy, Working
  <2>3. CASE \A q \in Requests : req'[q].pc = "idle"
    BY <2>3 DEF HolderInv, Busy, Working
  <2>4. QED
    BY <1>3, <2>2, <2>3, OthersFrame
<1>4. QED
  BY <1>1, <1>2, <1>3

LEMMA Holders == Spec => []HolderInv
<1>1. Init => HolderInv
  BY DEF Init, HolderInv, Busy, Working, NoRequest
<1>2. QED
  BY <1>1, NextHolds, Types, PTL DEF Spec

\* At most one request works on the branch, and the registry names it
\* (_active_claims, adopt_claim): no adoption takes a live request's claim.
THEOREM ClaimExclusive == Spec => []OneHolder
<1>1. HolderInv => OneHolder
  BY DEF HolderInv, OneHolder, Busy, Working
<1>2. QED
  BY <1>1, Holders, PTL

-----------------------------------------------------------------------------
(* The one recorded pull request. *)

\* Once a pull request is recorded, no request works on the branch, the report
\* has left its claim, and no other proposal has one.
RecordInv ==
    /\ RecordedPr => status # "fix_approved"
    /\ RecordedPr => \A q \in Requests : req[q].pc \in {"idle", "close"}
    /\ \A p, x \in Proposals : recorded[p] # 0 /\ recorded[x] # 0 => p = x

\* Without a new record the invariant is kept by steps that wake nobody up.
LEMMA RecordKept ==
    ASSUME RecordInv, recorded' = recorded,
           RecordedPr => /\ status' = "fix_approved" => status = "fix_approved"
                         /\ \A q \in Requests : req'[q].pc \in {req[q].pc, "idle"}
    PROVE  RecordInv'
<1>1. RecordedPr' = RecordedPr
  BY DEF RecordedPr
<1>2. RecordedPr => /\ status' # "fix_approved"
                    /\ \A q \in Requests : req'[q].pc \in {"idle", "close"}
  BY DEF RecordInv
<1>3. \A p, x \in Proposals : recorded'[p] # 0 /\ recorded'[x] # 0 => p = x
  BY DEF RecordInv
<1>4. QED
  BY <1>1, <1>2, <1>3 DEF RecordInv

\* The record: the request that writes it is the only one, and it was the first.
LEMMA RecordRecords ==
    ASSUME TypeInv, HolderInv, RecordInv, NEW q \in Requests, Record(q)
    PROVE  RecordInv'
<1>1. /\ req[q].pc = "record" /\ ~RecordedPr /\ status' = "fix_committed"
      /\ req'[q].pc = "close" /\ \A x \in Requests \ {q} : req'[x] = req[x]
  BY DEF Record, Goto, RecordInv, TypeInv, TypeOK, Request
<1>2. \A x \in Requests \ {q} : req[x].pc = "idle"
  BY <1>1 DEF HolderInv, Busy
<1>3. \A p \in Proposals : recorded'[p] # 0 => p = req[q].prop
  BY <1>1 DEF Record, RecordedPr, TypeInv, TypeOK
<1>4. \A x \in Requests : req'[x].pc \in {"idle", "close"}
  BY <1>1, <1>2
<1>5. \A p, x \in Proposals : recorded'[p] # 0 /\ recorded'[x] # 0 => p = x
  BY <1>3
<1>6. QED
  BY <1>1, <1>4, <1>5 DEF RecordInv

LEMMA RequestRecords ==
    ASSUME TypeInv, HolderInv, RecordInv, NEW q \in Requests, RequestStep(q)
    PROVE  RecordInv'
<1> USE DEF rowVars
<1>1. CASE Register(q)
  <2>1. ~RecordedPr /\ recorded' = recorded
    BY <1>1 DEF Register, RecordInv
  <2>2. QED
    BY <2>1, RecordKept
<1>2. CASE Release(q) \/ ReleaseFails(q) \/ Finish(q)
  <2>1. /\ recorded' = recorded
        /\ status' = "fix_approved" => status = "fix_approved"
        /\ \A x \in Requests : req'[x].pc \in {req[x].pc, "idle"}
    BY <1>2 DEF Release, ReleaseFails, Finish, Ends, TypeInv, TypeOK, NoRequest
  <2>2. QED
    BY <2>1, RecordKept
<1>3. CASE ~(Register(q) \/ Release(q) \/ ReleaseFails(q) \/ Finish(q))
  <2>1. ~RecordedPr
    BY <1>3, GoesOn DEF RecordInv, Working
  <2>2. CASE recorded' = recorded
    BY <2>1, <2>2, RecordKept
  <2>3. QED
    BY <1>3, <2>2, GoesOn, RecordRecords
<1>4. QED
  BY <1>1, <1>2, <1>3

LEMMA NextRecords == TypeInv /\ HolderInv /\ RecordInv /\ [Next]_vars => RecordInv'
<1> SUFFICES ASSUME TypeInv, HolderInv, RecordInv, [Next]_vars PROVE RecordInv'
  OBVIOUS
<1>1. CASE \E q \in Requests, want \in Proposals \cup {0} : Claim(q, want) \/ Adopt(q, want)
  <2>1. ~RecordedPr /\ recorded' = recorded
    BY <1>1 DEF Claim, Adopt, Claimed, MayClaim
  <2>2. QED
    BY <2>1, RecordKept
<1>2. CASE \E q \in Requests : RequestStep(q)
  BY <1>2, RequestRecords
<1>3. ASSUME ~(\E q \in Requests, want \in Proposals \cup {0} : Claim(q, want) \/ Adopt(q, want)),
             ~(\E q \in Requests : RequestStep(q))
      PROVE  RecordInv'
  BY <1>3, OthersFrame, RecordKept
<1>4. QED
  BY <1>1, <1>2, <1>3

LEMMA Records == Spec => []RecordInv
<1>1. Init => RecordInv
  BY DEF Init, RecordInv, RecordedPr
<1>2. QED
  BY <1>1, NextRecords, Types, Holders, PTL DEF Spec

\* One pull request per report: no second proposal is ever recorded, and no
\* request works on the branch once there is a record (recorded_pull_request).
THEOREM OnePullRequest == Spec => []OneRecordedPr
<1>1. RecordInv => OneRecordedPr
  <2> SUFFICES ASSUME RecordInv PROVE OneRecordedPr
    OBVIOUS
  <2> DEFINE S == {p \in Proposals : recorded[p] # 0}
  <2>1. CASE S = {}
    <3>1. Cardinality(S) = 0
      BY <2>1, FS_EmptySet
    <3>2. QED
      BY <3>1 DEF RecordInv, OneRecordedPr
  <2>2. CASE S # {}
    <3>1. PICK p \in S : TRUE
      BY <2>2
    <3>2. S = {p}
      BY <3>1 DEF RecordInv
    <3>3. Cardinality(S) = 1
      BY <3>2, FS_Singleton
    <3>4. QED
      BY <3>3 DEF RecordInv, OneRecordedPr
  <2>3. QED
    BY <2>1, <2>2
<1>2. QED
  BY <1>1, Records, PTL

\* A recorded pull request never leaves its report in the claim that open-pr
\* would have to answer and PATCH may not touch (record_pull_request).
THEOREM RecordLeavesClaim == Spec => []RecordedIsCommitted
<1>1. RecordInv => RecordedIsCommitted
  BY DEF RecordInv, RecordedIsCommitted
<1>2. QED
  BY <1>1, Records, PTL

-----------------------------------------------------------------------------
(* Settling. *)

\* GitHub never takes a merge back.
LEMMA MergedStays ==
    ASSUME TypeInv, [Next]_vars, NEW i \in 1 .. Len(prs), prs[i].state = "merged"
    PROVE  prs'[i].state = "merged"
<1> USE DEF rowVars, remoteVars, settleVars, boundVars
<1>1. prs \in Seq(Pr) /\ DOMAIN prs = 1 .. Len(prs)
  BY LenProperties DEF TypeInv, TypeOK
<1>2. CASE LatePost \/ PersonOpens \/ \E q \in Requests : Post(q)
  BY <1>2, OpensTypes DEF LatePost, PersonOpens, Post
<1>3. CASE PersonPushes
  BY <1>1, <1>3 DEF PersonPushes
<1>4. CASE \E state \in {"merged", "closed"} : PersonEnds(state)
  BY <1>1, <1>4 DEF PersonEnds
<1>5. CASE \E k \in DOMAIN prs : PersonReopens(k)
  BY <1>1, <1>5 DEF PersonReopens
<1>6. CASE prs' = prs
  BY <1>6
<1>7. prs' = prs \/ (LatePost \/ PersonOpens \/ \E q \in Requests : Post(q)) \/ PersonPushes
        \/ (\E state \in {"merged", "closed"} : PersonEnds(state))
        \/ (\E k \in DOMAIN prs : PersonReopens(k))
  <2>1. CASE CheckStep \/ CheckFails
    BY <2>1, SettleFrame
  <2>2. CASE \E q \in Requests, want \in Proposals \cup {0} : Claim(q, want) \/ Adopt(q, want)
    BY <2>2 DEF Claim, Adopt, Claimed
  <2>3. ASSUME NEW q \in Requests, RequestStep(q), ~Post(q) PROVE prs' = prs
    BY <2>3 DEF RequestStep, Register, Lookup, ReadTip, Build, Push, PushLost, PostRefused, PostLost,
                FindAgain, Attribute, Record, ClaimLost, Fails, Release, ReleaseFails, Finish
  <2>4. CASE DeleteReport \/ Propose \/ Crash \/ Reopen
               \/ (\E target \in {"triaged", "closed"} : PatchStatus(target))
               \/ (\E c \in late : LatePush(c)) \/ UNCHANGED vars
    BY <2>4 DEF DeleteReport, Propose, Crash, Reopen, PatchStatus, LatePush, vars
  <2>5. QED
    BY <2>1, <2>2, <2>3, <2>4 DEF Next
<1>8. QED
  BY <1>2, <1>3, <1>4, <1>5, <1>6, <1>7

\* What the read in flight says of a merge is still true of GitHub.
MergedInv == check.answer = "merged" => prs[recorded[check.prop]].state = "merged"

\* Only the steps of settling touch a read in flight, apart from a crash.
LEMMA CheckFrame ==
    ASSUME [Next]_vars, ~(CheckStep \/ CheckFails)
    PROVE  check' = check \/ check' = NoCheck
<1> USE DEF rowVars, remoteVars, settleVars, boundVars
<1>1. CASE \E q \in Requests, want \in Proposals \cup {0} : Claim(q, want) \/ Adopt(q, want)
  BY <1>1 DEF Claim, Adopt, Claimed
<1>2. CASE \E q \in Requests : RequestStep(q)
  BY <1>2 DEF RequestStep, Register, Lookup, ReadTip, Build, Push, PushLost, Post, PostRefused,
              PostLost, FindAgain, Attribute, Record, ClaimLost, Fails, Release, ReleaseFails, Finish
<1>3. CASE DeleteReport \/ Propose \/ Crash \/ Reopen \/ LatePost \/ PersonPushes \/ PersonOpens
             \/ UNCHANGED vars
  BY <1>3 DEF DeleteReport, Propose, Crash, Reopen, LatePost, PersonPushes, PersonOpens, vars
<1>4. CASE \/ \E target \in {"triaged", "closed"} : PatchStatus(target)
           \/ \E c \in late : LatePush(c)
           \/ \E state \in {"merged", "closed"} : PersonEnds(state)
           \/ \E i \in DOMAIN prs : PersonReopens(i)
  BY <1>4 DEF PatchStatus, LatePush, PersonEnds, PersonReopens
<1>5. QED
  BY <1>1, <1>2, <1>3, <1>4 DEF Next

\* A record is never rewritten.
LEMMA RecordsStay ==
    ASSUME TypeInv, HolderInv, RecordInv, [Next]_vars, RecordedPr
    PROVE  recorded' = recorded
<1>1. CASE \E q \in Requests, want \in Proposals \cup {0} : Claim(q, want) \/ Adopt(q, want)
  BY <1>1 DEF Claim, Adopt, Claimed
<1>2. ASSUME NEW q \in Requests, RequestStep(q) PROVE recorded' = recorded
  <2>1. CASE Register(q) \/ Release(q) \/ ReleaseFails(q) \/ Finish(q)
    BY <2>1 DEF Register, Release, ReleaseFails, Finish, rowVars
  <2>2. CASE ~(Register(q) \/ Release(q) \/ ReleaseFails(q) \/ Finish(q))
    BY <1>2, <2>2, GoesOn DEF RecordInv, Working
  <2>3. QED
    BY <2>1, <2>2
<1>3. QED
  BY <1>1, <1>2, OthersFrame

LEMMA NextMerged == TypeInv /\ HolderInv /\ RecordInv /\ MergedInv /\ [Next]_vars => MergedInv'
<1> SUFFICES ASSUME TypeInv, HolderInv, RecordInv, MergedInv, [Next]_vars PROVE MergedInv'
  OBVIOUS
<1>1. NoCheck.answer = "" /\ check \in Check
  BY DEF NoCheck, TypeInv, TypeOK
<1>2. CASE CheckStep \/ CheckFails
  <2>1. prs' = prs /\ recorded' = recorded
    BY <1>2, SettleFrame DEF remoteVars
  <2>2. CASE ReadPr
    BY <1>1, <2>1, <2>2 DEF ReadPr, MergedInv, Check
  <2>3. CASE (\E p \in Proposals : SelectPr(p)) \/ SettlePr \/ CheckFails
    <3>1. check' = NoCheck \/ \E p \in Proposals : check' = [prop |-> p, answer |-> ""]
      BY <2>3 DEF SelectPr, SettlePr, CheckFails
    <3>2. check'.answer = ""
      <4>1. CASE check' = NoCheck
        BY <1>1, <4>1
      <4>2. ASSUME NEW p \in Proposals, check' = [prop |-> p, answer |-> ""]
            PROVE  check'.answer = ""
        BY <4>2
      <4>3. QED
        BY <3>1, <4>1, <4>2
    <3>3. QED
      BY <3>2 DEF MergedInv
  <2>4. QED
    BY <1>2, <2>2, <2>3 DEF CheckStep
<1>3. CASE ~(CheckStep \/ CheckFails)
  <2>1. CASE check' = NoCheck
    BY <1>1, <2>1 DEF MergedInv
  <2>2. CASE check' = check /\ check.answer = "merged"
    <3>1. /\ check.prop \in Proposals /\ recorded[check.prop] # 0
          /\ recorded[check.prop] \in Nat /\ recorded[check.prop] <= Len(prs) /\ Len(prs) \in Nat
      BY <1>1, <2>2, LenProperties DEF Check, TypeInv, TypeOK, PrsExist
    <3>2. recorded[check.prop] \in 1 .. Len(prs)
      BY <3>1
    <3>3. recorded' = recorded
      BY <3>1, RecordsStay DEF RecordedPr
    <3>4. QED
      BY <2>2, <3>2, <3>3, MergedStays DEF MergedInv
  <2>3. QED
    BY <1>3, <2>1, <2>2, CheckFrame DEF MergedInv
<1>4. QED
  BY <1>2, <1>3

LEMMA Merged == Spec => []MergedInv
<1>1. Init => MergedInv
  <2>1. Init => check = NoCheck
    BY DEF Init
  <2>2. NoCheck.answer = ""
    BY DEF NoCheck
  <2>3. QED
    BY <2>1, <2>2 DEF MergedInv
<1>2. QED
  BY <1>1, NextMerged, Types, Holders, Records, PTL DEF Spec

\* A report is closed out of fix_committed only when the recorded pull request
\* is merged at that moment, however old the answer is (pr_settle).
THEOREM ClosedByMerge == Spec => OnlyMergeCloses
<1>1. ASSUME TypeInv, MergedInv, [Next]_vars, status = "fix_committed", status' = "closed"
      PROVE  \E p \in Proposals : recorded[p] # 0 /\ prs[recorded[p]].state = "merged"
  <2> USE DEF rowVars, remoteVars, settleVars, boundVars
  <2>1. CASE SettlePr
    <3>1. check.answer = "merged"
      BY <1>1, <2>1 DEF SettlePr, SettledStatus
    <3>2. check.prop \in Proposals /\ recorded[check.prop] # 0
      BY <1>1, <3>1 DEF TypeInv, TypeOK, PrsExist, Check
    <3>3. QED
      BY <1>1, <3>1, <3>2 DEF MergedInv
  <2>2. CASE ~SettlePr
    <3>1. CASE CheckStep \/ CheckFails
      BY <1>1, <2>2, <3>1, SettleFrame
    <3>2. CASE \E q \in Requests, want \in Proposals \cup {0} : Claim(q, want) \/ Adopt(q, want)
      BY <1>1, <3>2 DEF Claim, Adopt
    <3>3. CASE \E q \in Requests : RequestStep(q)
      BY <1>1, <3>3 DEF RequestStep, Register, Lookup, ReadTip, Build, Push, PushLost, Post,
         PostRefused, PostLost, FindAgain, Attribute, Record, ClaimLost, Fails, Release, ReleaseFails,
         Finish
    <3>4. CASE DeleteReport \/ Propose \/ Crash \/ Reopen \/ LatePost \/ PersonPushes \/ PersonOpens
                 \/ UNCHANGED vars
      BY <1>1, <3>4 DEF DeleteReport, Propose, Crash, Reopen, LatePost, PersonPushes, PersonOpens, vars
    <3>5. CASE \/ \E target \in {"triaged", "closed"} : PatchStatus(target)
               \/ \E c \in late : LatePush(c)
               \/ \E state \in {"merged", "closed"} : PersonEnds(state)
               \/ \E i \in DOMAIN prs : PersonReopens(i)
      BY <1>1, <3>5 DEF PatchStatus, LatePush, PersonEnds, PersonReopens
    <3>6. QED
      BY <1>1, <3>1, <3>2, <3>3, <3>4, <3>5 DEF Next
  <2>3. QED
    BY <2>1, <2>2
<1>2. TypeInv /\ MergedInv /\ [Next]_vars =>
        [status = "fix_committed" /\ status' = "closed" =>
           \E p \in Proposals : recorded[p] # 0 /\ prs[recorded[p]].state = "merged"]_vars
  BY <1>1
<1>3. QED
  BY <1>2, Types, Merged, PTL DEF Spec, OnlyMergeCloses

\* A report that DELETE rejected stays rejected: what was under way, a claim's
\* release, a record or the settling of a late answer, finds it and lets it be.
THEOREM RejectedForGood == Spec => RejectedStays
<1>1. ASSUME [Next]_vars, status = "rejected" PROVE status' = "rejected"
  <2> USE DEF rowVars, remoteVars, settleVars, boundVars
  <2>1. CASE CheckStep \/ CheckFails
    BY <1>1, <2>1 DEF CheckStep, SelectPr, ReadPr, SettlePr, SettledStatus, CheckFails
  <2>2. CASE \E q \in Requests, want \in Proposals \cup {0} : Claim(q, want) \/ Adopt(q, want)
    BY <1>1, <2>2 DEF Claim, Adopt
  <2>3. CASE \E q \in Requests : RequestStep(q)
    BY <1>1, <2>3 DEF RequestStep, Register, Lookup, ReadTip, Build, Push, PushLost, Post, PostRefused,
       PostLost, FindAgain, Attribute, Record, ClaimLost, Fails, Release, ReleaseFails, Finish, HoldsClaim
  <2>4. CASE DeleteReport \/ Propose \/ Crash \/ Reopen \/ LatePost \/ PersonPushes \/ PersonOpens
               \/ UNCHANGED vars
    BY <1>1, <2>4 DEF DeleteReport, Propose, Crash, Reopen, LatePost, PersonPushes, PersonOpens, vars
  <2>5. CASE \/ \E target \in {"triaged", "closed"} : PatchStatus(target)
             \/ \E c \in late : LatePush(c)
             \/ \E state \in {"merged", "closed"} : PersonEnds(state)
             \/ \E i \in DOMAIN prs : PersonReopens(i)
    BY <1>1, <2>5 DEF PatchStatus, LatePush, PersonEnds, PersonReopens
  <2>6. QED
    BY <1>1, <2>1, <2>2, <2>3, <2>4, <2>5 DEF Next
<1>2. [Next]_vars => [status = "rejected" => status' = "rejected"]_vars
  BY <1>1
<1>3. QED
  BY <1>2, PTL DEF Spec, RejectedStays

-----------------------------------------------------------------------------
(* The push intent. *)

\* A request that is about to push has announced its commit.
IntentInv ==
    /\ PushedHasIntent
    /\ \A q \in Requests : req[q].pc = "push" /\ req[q].prop # 0 => pushed[req[q].prop] # NoCommit

\* What a step may bring to the remote: a commit of a request that pushes, or
\* one that is no proposal's.
Announced(c) ==
    \/ c \in Range(branch) \cup late
    \/ c.by = 0
    \/ \E q \in Requests : req[q].pc = "push" /\ c = Pushing(q)

LEMMA IntentKept ==
    ASSUME IntentInv, pushed' = pushed,
           \A c \in Range(branch') \cup late' : Announced(c),
           \A x \in Requests : req'[x].pc = "push" =>
              req[x].pc = "push" /\ req'[x].prop = req[x].prop
    PROVE  IntentInv'
<1>1. ASSUME NEW c \in Range(branch') \cup late', c.by # 0 PROVE pushed[c.by] # NoCommit
  <2>1. CASE c \in Range(branch) \cup late
    BY <1>1, <2>1 DEF IntentInv, PushedHasIntent
  <2>2. ASSUME NEW q \in Requests, req[q].pc = "push", c = Pushing(q) PROVE pushed[c.by] # NoCommit
    <3>1. c.by = req[q].prop
      BY <2>2 DEF Pushing
    <3>2. QED
      BY <1>1, <2>2, <3>1 DEF IntentInv
  <2>3. QED
    BY <1>1, <2>1, <2>2 DEF Announced
<1>2. \A q \in Requests : req'[q].pc = "push" /\ req'[q].prop # 0 => pushed[req'[q].prop] # NoCommit
  BY DEF IntentInv
<1>3. QED
  BY <1>1, <1>2 DEF IntentInv, PushedHasIntent

\* A step that changes neither the branch nor what is late brings nothing.
LEMMA IntentQuiet ==
    ASSUME IntentInv, pushed' = pushed, branch' = branch, late' = late,
           \A x \in Requests : req'[x].pc = "push" =>
              req[x].pc = "push" /\ req'[x].prop = req[x].prop
    PROVE  IntentInv'
  BY IntentKept DEF Announced

\* The build announces its commit, which is none of the proposal's before.
LEMMA BuildIntends ==
    ASSUME TypeInv, IntentInv, NEW q \in Requests, Build(q)
    PROVE  IntentInv'
<1>1. /\ commits \in Nat /\ req \in [Requests -> Request] /\ pushed \in [Proposals -> Commit]
      /\ req[q] \in Request
  BY DEF TypeInv, TypeOK
<1>2. /\ pushed' = [pushed EXCEPT ![req[q].prop] = NewCommit(q)]
      /\ branch' = branch /\ late' = late
      /\ req' = [req EXCEPT ![q] = [req[q] EXCEPT !.pc = "push"]]
  BY DEF Build, Goto, remoteVars
<1>3. NewCommit(q) # NoCommit
  <2>1. NewCommit(q).n # NoCommit.n
    BY <1>1 DEF NewCommit, NoCommit
  <2>2. QED
    BY <2>1
<1>4. \A p \in Proposals : pushed[p] # NoCommit => pushed'[p] # NoCommit
  BY <1>1, <1>2, <1>3
<1>5. ASSUME NEW c \in Range(branch') \cup late', c.by # 0 PROVE pushed'[c.by] # NoCommit
  <2>1. c \in Commit
    BY <1>2, RangeOfSeq DEF TypeInv, TypeOK
  <2>2. pushed[c.by] # NoCommit
    BY <1>2, <1>5 DEF IntentInv, PushedHasIntent
  <2>3. QED
    BY <1>4, <1>5, <2>1, <2>2 DEF Commit
<1>6. ASSUME NEW x \in Requests, req'[x].pc = "push", req'[x].prop # 0
      PROVE  pushed'[req'[x].prop] # NoCommit
  <2>1. req'[x].prop = req[x].prop /\ req[x].prop \in Proposals
    BY <1>1, <1>2, <1>6 DEF Request
  <2>2. CASE x = q
    BY <1>1, <1>2, <1>3, <2>1, <2>2
  <2>3. CASE x # q
    <3>1. req[x].pc = "push"
      BY <1>1, <1>2, <1>6, <2>3
    <3>2. QED
      BY <1>4, <1>6, <2>1, <3>1 DEF IntentInv
  <2>4. QED
    BY <2>2, <2>3
<1>7. QED
  BY <1>5, <1>6 DEF IntentInv, PushedHasIntent

LEMMA RequestIntends ==
    ASSUME TypeInv, IntentInv, NEW q \in Requests, RequestStep(q)
    PROVE  IntentInv'
<1> USE DEF rowVars, remoteVars
<1>1. req \in [Requests -> Request] /\ req[q] \in Request
  BY DEF TypeInv, TypeOK
<1>2. CASE Push(q)
  <2>1. /\ pushed' = pushed /\ late' = late /\ req[q].pc = "push"
        /\ branch' = branch \/ branch' = <<Pushing(q)>>
    BY <1>2 DEF Push
  <2>2. \A c \in Range(branch') \cup late' : Announced(c)
    <3>1. CASE branch' = branch
      BY <2>1, <3>1 DEF Announced
    <3>2. CASE branch' = <<Pushing(q)>>
      <4>1. Range(branch') = {Pushing(q)}
        BY <3>2 DEF Range
      <4>2. QED
        BY <2>1, <4>1 DEF Announced
    <3>3. QED
      BY <2>1, <3>1, <3>2
  <2>3. \A x \in Requests : req'[x].pc = "push" => req[x].pc = "push" /\ req'[x].prop = req[x].prop
    BY <1>1, <1>2 DEF Push, Goto, Request
  <2>4. QED
    BY <2>1, <2>2, <2>3, IntentKept
<1>3. CASE PushLost(q) \/ PostLost(q)
  <2>1. /\ pushed' = pushed /\ branch' = branch
        /\ \/ late' = late
           \/ req[q].pc = "push" /\ late' = late \cup {Pushing(q)}
           \/ late' = late \cup {NoCommit}
    BY <1>3 DEF PushLost, PostLost
  <2>2. NoCommit.by = 0
    BY DEF NoCommit
  <2>3. \A c \in Range(branch') \cup late' : Announced(c)
    BY <2>1, <2>2 DEF Announced
  <2>4. \A x \in Requests : req'[x].pc = "push" => req[x].pc = "push" /\ req'[x].prop = req[x].prop
    BY <1>1, <1>3 DEF PushLost, PostLost, Goto, Request
  <2>5. QED
    BY <2>1, <2>3, <2>4, IntentKept
<1>4. CASE Build(q)
  BY <1>4, BuildIntends
<1>5. CASE Register(q) \/ PostRefused(q) \/ ClaimLost(q) \/ Fails(q) \/ Record(q)
  BY <1>1, <1>5, IntentQuiet DEF Register, PostRefused, ClaimLost, Fails, Record, Goto, Request
<1>6. CASE Lookup(q) \/ FindAgain(q)
  <2>1. PICK pc \in {"tip", "release", "attribute"} :
           req' = [req EXCEPT ![q] = [req[q] EXCEPT !.pc = pc, !.pr = Len(prs)]]
    BY <1>1, <1>6 DEF Lookup, FindAgain, Found
  <2>2. \A x \in Requests : req'[x].pc = "push" => req[x].pc = "push" /\ req'[x].prop = req[x].prop
    BY <1>1, <2>1 DEF Request
  <2>3. QED
    BY <1>6, <2>2, IntentQuiet DEF Lookup, FindAgain
<1>7. CASE ReadTip(q) \/ Attribute(q) \/ Post(q)
  <2>1. \A x \in Requests : req'[x].pc = "push" => req[x].pc = "push" /\ req'[x].prop = req[x].prop
    <3>1. ASSUME NEW x \in Requests
          PROVE  (x = q /\ req'[x].pc # "push") \/ req'[x] = req[x]
      <4>1. CASE ReadTip(q)
        BY <1>1, <4>1 DEF ReadTip, Goto, Request
      <4>2. CASE Attribute(q)
        BY <1>1, <4>2 DEF Attribute, Goto, Request
      <4>3. CASE Post(q)
        BY <1>1, <4>3 DEF Post, Request
      <4>4. QED
        BY <1>7, <4>1, <4>2, <4>3
    <3>2. QED
      BY <3>1
  <2>2. pushed' = pushed /\ branch' = branch /\ late' = late
    BY <1>7 DEF ReadTip, Attribute, Post
  <2>3. QED
    BY <2>1, <2>2, IntentQuiet
<1>8. CASE Release(q) \/ ReleaseFails(q) \/ Finish(q)
  <2>1. \A x \in Requests : req'[x].pc = "push" => req[x].pc = "push" /\ req'[x].prop = req[x].prop
    BY <1>1, <1>8 DEF Release, ReleaseFails, Finish, Ends, NoRequest
  <2>2. pushed' = pushed /\ branch' = branch /\ late' = late
    BY <1>8 DEF Release, ReleaseFails, Finish
  <2>3. QED
    BY <2>1, <2>2, IntentQuiet
<1>9. QED
  BY <1>2, <1>3, <1>4, <1>5, <1>6, <1>7, <1>8 DEF RequestStep

LEMMA NextIntends == TypeInv /\ IntentInv /\ [Next]_vars => IntentInv'
<1> SUFFICES ASSUME TypeInv, IntentInv, [Next]_vars PROVE IntentInv'
  OBVIOUS
<1> USE DEF rowVars, remoteVars, settleVars, boundVars
<1>1. req \in [Requests -> Request] /\ branch \in Seq(Commit) /\ late \subseteq Commit
  BY DEF TypeInv, TypeOK
<1>2. CASE \E q \in Requests, want \in Proposals \cup {0} : Claim(q, want) \/ Adopt(q, want)
  <2>1. PICK q \in Requests : \E c : c.pc = "claimed" /\ req' = [req EXCEPT ![q] = c]
    BY <1>2 DEF Claim, Adopt, Claimed
  <2>2. \A x \in Requests : req'[x].pc = "push" => req[x].pc = "push" /\ req'[x].prop = req[x].prop
    BY <1>1, <2>1
  <2>3. pushed' = pushed /\ branch' = branch /\ late' = late
    BY <1>2 DEF Claim, Adopt, Claimed
  <2>4. QED
    BY <2>2, <2>3, IntentQuiet
<1>3. CASE \E q \in Requests : RequestStep(q)
  BY <1>3, RequestIntends
<1>4. CASE CheckStep \/ CheckFails
  BY <1>4, SettleFrame, IntentQuiet
<1>5. CASE DeleteReport \/ Propose \/ Reopen \/ (\E target \in {"triaged", "closed"} : PatchStatus(target))
             \/ PersonOpens \/ (\E i \in DOMAIN prs : PersonReopens(i)) \/ UNCHANGED vars
  <2>1. pushed' = pushed /\ branch' = branch /\ late' = late /\ req' = req
    BY <1>5 DEF DeleteReport, Propose, Reopen, PatchStatus, PersonOpens, PersonReopens, vars
  <2>2. QED
    BY <2>1, IntentQuiet
<1>6. CASE Crash
  <2>1. /\ pushed' = pushed /\ branch' = branch /\ late' \subseteq late \cup InFlight
        /\ \A x \in Requests : req'[x].pc = "idle"
    BY <1>6 DEF Crash, NoRequest
  <2>2. \A c \in InFlight : Announced(c)
    BY DEF InFlight, Announced, NoCommit
  <2>3. \A c \in Range(branch') \cup late' : Announced(c)
    BY <2>1, <2>2 DEF Announced
  <2>4. QED
    BY <2>1, <2>3, IntentKept
<1>7. CASE \E c \in late : LatePush(c)
  <2>1. PICK c \in late : LatePush(c)
    BY <1>7
  <2>2. Range(branch') = {c}
    BY <2>1 DEF LatePush, Range
  <2>3. \A x \in Range(branch') \cup late' : Announced(x)
    BY <2>1, <2>2 DEF LatePush, Announced
  <2>4. QED
    BY <2>1, <2>3, IntentKept DEF LatePush
<1>8. CASE LatePost
  <2>1. \A x \in Range(branch') \cup late' : Announced(x)
    BY <1>8 DEF LatePost, Announced
  <2>2. QED
    BY <1>8, <2>1, IntentKept DEF LatePost
<1>9. CASE PersonPushes
  <2> DEFINE own == [n |-> commits + 1, by |-> 0]
  <2>1. branch' = Append(branch, own) /\ late' = late /\ pushed' = pushed /\ req' = req /\ own.by = 0
    BY <1>9 DEF PersonPushes
  <2> HIDE DEF own
  <2>2. Range(branch') \subseteq Range(branch) \cup {own}
    BY <1>1, <2>1, AppendProperties DEF Range
  <2>3. \A x \in Range(branch') \cup late' : Announced(x)
    BY <2>1, <2>2 DEF Announced
  <2>4. QED
    BY <2>1, <2>3, IntentKept
<1>10. CASE \E state \in {"merged", "closed"} : PersonEnds(state)
  <2>1. /\ late' = late /\ pushed' = pushed /\ req' = req
        /\ branch' = branch \/ branch' = <<>>
    BY <1>10 DEF PersonEnds
  <2>2. Range(<<>>) = {}
    BY DEF Range
  <2>3. \A x \in Range(branch') \cup late' : Announced(x)
    BY <2>1, <2>2 DEF Announced
  <2>4. QED
    BY <2>1, <2>3, IntentKept
<1>11. QED
  BY <1>2, <1>3, <1>4, <1>5, <1>6, <1>7, <1>8, <1>9, <1>10 DEF Next

\* A commit of Bugalizer's that is on the remote, or may still get there, was
\* recorded as its proposal's push intent first.
THEOREM IntentBeforePush == Spec => []PushedHasIntent
<1>1. Init => IntentInv
  <2>1. Init => Range(branch) = {}
    BY DEF Init, Range
  <2>2. QED
    BY <2>1 DEF Init, IntentInv, PushedHasIntent, NoRequest
<1>2. IntentInv => PushedHasIntent
  BY DEF IntentInv
<1>3. QED
  BY <1>1, <1>2, NextIntends, Types, PTL DEF Spec

-----------------------------------------------------------------------------
(* Who made a recorded pull request. *)

\* The proposals whose commits are among these
Authors(C) == {c.by : c \in C} \ {0}

\* To record a pull request of these commits for p names no other's work.
MadeFor(C, p) == Authors(C) = {} \/ p \in Authors(C)

\* A commit made so far, for a proposal made so far or by a person
Known(c) == c.n \in 1 .. commits /\ c.by <= made

\* Requests name existing proposals, and every commit of theirs is known: an
\* intent is a commit of its own proposal.
CommitInv ==
    /\ \A c \in Range(branch) \cup (late \ {NoCommit}) : Known(c)
    /\ \A p \in Proposals : pushed[p] # NoCommit => pushed[p].by = p
    /\ \A q \in Requests : /\ req[q].want <= made /\ req[q].prop <= made
                           /\ req[q].pc = "push" => commits > 0

\* An open pull request holds what is on the branch; and a branch that shares
\* a commit with a pull request has no author the pull request has not. The
\* second part is why reopening a pull request cannot change who made it.
PrOk(pr) ==
    /\ pr.commits # {} /\ \A c \in pr.commits : Known(c)
    /\ pr.state = "open" => pr.commits = Range(branch)
    /\ pr.commits \cap Range(branch) # {} => Authors(Range(branch)) \subseteq Authors(pr.commits)

PrInv == \A i \in DOMAIN prs : PrOk(prs[i])

\* A request that is about to POST or to record works for the author of the
\* branch or of the pull request, if there is one. No push is still late when
\* people have deleted the branch under a POST.
AuthorInv ==
    \A q \in Requests :
        /\ req[q].pc = "post" => /\ MadeFor(Range(branch), req[q].prop)
                                 /\ branch = <<>> => late \subseteq {NoCommit}
        /\ req[q].pc = "record" => MadeFor(prs[req[q].pr].commits, req[q].prop)

\* Nothing is on an empty branch, and a new branch has its one commit.
LEMMA SmallBranches ==
    /\ Range(<<>>) = {} /\ Authors({}) = {}
    /\ \A c : Range(<<c>>) = {c}
  BY DEF Range, Authors

\* A person's commit on top of the branch adds no author.
LEMMA PersonOnTop ==
    ASSUME TypeInv, PersonPushes
    PROVE  LET own == [n |-> commits + 1, by |-> 0] IN
           /\ Range(branch') = Range(branch) \cup {own}
           /\ Authors(Range(branch')) = Authors(Range(branch))
<1> DEFINE own == [n |-> commits + 1, by |-> 0]
<1>1. /\ branch' = Append(branch, own) /\ branch \in Seq(Commit) /\ own \in Commit /\ own.by = 0
  BY DEF PersonPushes, TypeInv, TypeOK, Commit
<1> HIDE DEF own
<1>2. Range(branch') = Range(branch) \cup {own}
  <2>1. /\ Len(branch') = Len(branch) + 1 /\ Len(branch) \in Nat /\ branch'[Len(branch')] = own
        /\ DOMAIN branch' = 1 .. Len(branch') /\ DOMAIN branch = 1 .. Len(branch)
        /\ \A i \in 1 .. Len(branch) : branch'[i] = branch[i]
    BY <1>1, AppendProperties, LenProperties
  <2>2. 1 .. Len(branch') = (1 .. Len(branch)) \cup {Len(branch')} /\ Len(branch') \in 1 .. Len(branch')
    BY <2>1
  <2>3. QED
    BY <2>1, <2>2 DEF Range
<1>3. Authors(Range(branch')) = Authors(Range(branch))
  BY <1>1, <1>2 DEF Authors
<1>4. QED
  BY <1>2, <1>3 DEF own

\* What was known stays known: commits and proposals are only added.
LEMMA StaysKnown ==
    ASSUME TypeInv, NEW c \in Commit, Known(c), commits' \in Nat, made' \in Proposals,
           commits <= commits', made <= made'
    PROVE  Known(c)'
<1>1. commits \in Nat /\ made \in Nat /\ made' \in Nat
  BY Constants DEF TypeInv, TypeOK
<1>2. c.n \in Nat /\ c.by \in Nat
  <2>1. c.n \in Nat /\ c.by \in Proposals \cup {0}
    BY DEF Commit
  <2>2. Proposals \cup {0} \subseteq Nat
    BY Constants
  <2>3. QED
    BY <2>1, <2>2
<1>3. QED
  BY <1>1, <1>2 DEF Known

\* What keeps every commit known: whatever a step brings is known by its end.
LEMMA CommitsKept ==
    ASSUME TypeInv, CommitInv, TypeInv', pushed' = pushed, commits <= commits', made <= made',
           \A c \in Range(branch') \cup (late' \ {NoCommit}) :
              c \in Range(branch) \cup (late \ {NoCommit}) \/ Known(c)',
           \A x \in Requests : /\ req'[x].want <= made' /\ req'[x].prop <= made'
                               /\ req'[x].pc = "push" => req[x].pc = "push"
    PROVE  CommitInv'
<1>1. /\ commits \in Nat /\ commits' \in Nat /\ made' \in Proposals
      /\ Range(branch) \cup late \subseteq Commit
  BY RangeOfSeq DEF TypeInv, TypeOK
<1>2. ASSUME NEW c \in Range(branch') \cup (late' \ {NoCommit}) PROVE Known(c)'
  <2>1. CASE c \in Range(branch) \cup (late \ {NoCommit})
    BY <1>1, <2>1, StaysKnown DEF CommitInv
  <2>2. CASE Known(c)'
    BY <2>2
  <2>3. QED
    BY <1>2, <2>1, <2>2
<1>3. QED
  BY <1>1, <1>2 DEF CommitInv

\* The commit a request pushes is the last one made, of the request's proposal.
LEMMA PushedIsKnown ==
    ASSUME TypeInv, CommitInv, NEW q \in Requests, req[q].pc = "push"
    PROVE  Known(Pushing(q))
<1>1. commits \in Nat /\ commits > 0 /\ req[q].prop <= made
  BY DEF TypeInv, TypeOK, CommitInv
<1>2. Pushing(q).n = commits /\ Pushing(q).by = req[q].prop
  BY DEF Pushing
<1>3. QED
  BY <1>1, <1>2 DEF Known

\* Requests go on with existing proposals, and only a build leads to a push.
LEMMA RequestNames ==
    ASSUME TypeInv, CommitInv, NEW q \in Requests, RequestStep(q), NEW x \in Requests
    PROVE  /\ req'[x].want <= made /\ req'[x].prop <= made /\ made' = made
           /\ req'[x].pc = "push" => req[x].pc = "push" \/ (x = q /\ Build(q))
<1> USE DEF rowVars
<1>1. /\ req \in [Requests -> Request] /\ req[q] \in Request /\ req[x] \in Request
      /\ req[x].want <= made /\ req[x].prop <= made /\ req[q].want <= made /\ req[q].prop <= made
      /\ made \in Nat /\ 0 <= made
  BY Constants DEF TypeInv, TypeOK, CommitInv
<1>2. CASE Build(q)
  BY <1>1, <1>2 DEF Build, Goto, Request
<1>3. CASE Push(q) \/ PushLost(q) \/ PostRefused(q) \/ PostLost(q) \/ ClaimLost(q) \/ Fails(q)
             \/ Record(q) \/ Register(q)
  BY <1>1, <1>3 DEF Push, PushLost, PostRefused, PostLost, ClaimLost, Fails, Record, Register, Goto,
                    Request
<1>4. CASE Lookup(q) \/ FindAgain(q)
  <2>1. PICK pc \in {"tip", "release", "attribute"} :
           req' = [req EXCEPT ![q] = [req[q] EXCEPT !.pc = pc, !.pr = Len(prs)]]
    BY <1>1, <1>4 DEF Lookup, FindAgain, Found
  <2>2. made' = made
    BY <1>4 DEF Lookup, FindAgain
  <2>3. QED
    BY <1>1, <2>1, <2>2 DEF Request
<1>5. CASE ReadTip(q)
  <2>1. \/ \E pc \in {"build", "release"} : req' = [req EXCEPT ![q] = [req[q] EXCEPT !.pc = pc]]
        \/ \E p \in 1 .. made :
              req' = [req EXCEPT ![q] = [req[q] EXCEPT !.pc = "post", !.prop = p]]
    BY <1>5 DEF ReadTip, Pushers, Goto
  <2>2. made' = made
    BY <1>5 DEF ReadTip
  <2>3. ASSUME NEW pc \in {"build", "release"},
               req' = [req EXCEPT ![q] = [req[q] EXCEPT !.pc = pc]]
        PROVE  /\ req'[x].want <= made /\ req'[x].prop <= made
               /\ req'[x].pc = "push" => req[x].pc = "push"
    BY <1>1, <2>3 DEF Request
  <2>4. ASSUME NEW p \in 1 .. made,
               req' = [req EXCEPT ![q] = [req[q] EXCEPT !.pc = "post", !.prop = p]]
        PROVE  /\ req'[x].want <= made /\ req'[x].prop <= made
               /\ req'[x].pc = "push" => req[x].pc = "push"
    BY <1>1, <2>4 DEF Request
  <2>5. QED
    BY <2>1, <2>2, <2>3, <2>4
<1>6. CASE Attribute(q)
  <2>1. Owners(prs[req[q].pr]) \subseteq 1 .. made
    BY DEF Owners
  <2>2. \/ req' = [req EXCEPT ![q] = [req[q] EXCEPT !.pc = "release"]]
        \/ \E p \in (1 .. made) \cup {req[q].want} :
              req' = [req EXCEPT ![q] = [req[q] EXCEPT !.pc = "record", !.prop = p]]
    BY <1>6, <2>1 DEF Attribute, Goto
  <2>3. made' = made
    BY <1>6 DEF Attribute
  <2>4. ASSUME NEW p \in (1 .. made) \cup {req[q].want},
               req' = [req EXCEPT ![q] = [req[q] EXCEPT !.pc = "record", !.prop = p]]
        PROVE  /\ req'[x].want <= made /\ req'[x].prop <= made
               /\ req'[x].pc = "push" => req[x].pc = "push"
    BY <1>1, <2>4 DEF Request
  <2>5. CASE req' = [req EXCEPT ![q] = [req[q] EXCEPT !.pc = "release"]]
    BY <1>1, <2>3, <2>5 DEF Request
  <2>6. QED
    BY <2>2, <2>3, <2>4, <2>5
<1>7. CASE Post(q)
  BY <1>1, <1>7 DEF Post, Request
<1>8. CASE Release(q) \/ ReleaseFails(q) \/ Finish(q)
  BY <1>1, <1>8 DEF Release, ReleaseFails, Finish, Ends, NoRequest, Request
<1>9. QED
  BY <1>2, <1>3, <1>4, <1>5, <1>6, <1>7, <1>8 DEF RequestStep

\* The build makes a commit of its proposal and announces it.
LEMMA BuildCommits ==
    ASSUME TypeInv, TypeInv', CommitInv, NEW q \in Requests, Build(q)
    PROVE  CommitInv'
<1>1. /\ commits \in Nat /\ commits' = commits + 1 /\ made \in Proposals /\ made' = made
      /\ pushed \in [Proposals -> Commit]
      /\ pushed' = [pushed EXCEPT ![req[q].prop] = NewCommit(q)]
      /\ branch' = branch /\ late' = late
  BY DEF Build, TypeInv, TypeOK, remoteVars
<1>2. NewCommit(q).by = req[q].prop
  BY DEF NewCommit
<1>3. \A c \in Range(branch') \cup (late' \ {NoCommit}) : Known(c)'
  <2>1. ASSUME NEW c \in Range(branch) \cup (late \ {NoCommit}) PROVE Known(c)'
    <3>1. c \in Commit /\ Known(c)
      BY RangeOfSeq DEF TypeInv, TypeOK, CommitInv
    <3>2. made \in Nat
      BY <1>1, Constants
    <3>3. QED
      BY <1>1, <3>1, <3>2, StaysKnown
  <2>2. QED
    BY <1>1, <2>1
<1>4. \A p \in Proposals : pushed'[p] # NoCommit => pushed'[p].by = p
  BY <1>1, <1>2 DEF CommitInv
<1>5. ASSUME NEW x \in Requests
      PROVE  /\ req'[x].want <= made' /\ req'[x].prop <= made'
             /\ req'[x].pc = "push" => commits' > 0
  BY <1>1, RequestNames DEF RequestStep
<1>6. QED
  BY <1>3, <1>4, <1>5 DEF CommitInv

LEMMA NextCommits ==
    TypeInv /\ TypeInv' /\ CommitInv /\ [Next]_vars => CommitInv'
<1> SUFFICES ASSUME TypeInv, TypeInv', CommitInv, [Next]_vars PROVE CommitInv'
  OBVIOUS
<1> USE DEF rowVars, remoteVars, settleVars, boundVars
<1>1. /\ commits \in Nat /\ made \in Nat /\ req \in [Requests -> Request]
      /\ Range(branch) \subseteq Commit /\ late \subseteq Commit
  BY Constants, RangeOfSeq DEF TypeInv, TypeOK
<1>2. commits <= commits /\ made <= made
  BY <1>1
<1>3. CASE \E q \in Requests, want \in Proposals \cup {0} : Claim(q, want) \/ Adopt(q, want)
  <2>1. PICK q \in Requests, want \in Proposals \cup {0} : Claim(q, want) \/ Adopt(q, want)
    BY <1>3
  <2>2. /\ want <= made
        /\ req' = [req EXCEPT ![q] = [pc |-> "claimed", token |-> claims + 1, want |-> want,
                                      prop |-> IF want = 0 THEN made ELSE want, pr |-> 0]]
    BY <2>1 DEF Claim, Adopt, Claimed
  <2>3. \A x \in Requests : /\ req'[x].want <= made /\ req'[x].prop <= made
                            /\ req'[x].pc = "push" => req[x].pc = "push"
    BY <1>1, <1>2, <2>2 DEF CommitInv
  <2>4. pushed' = pushed /\ made' = made /\ commits' = commits /\ branch' = branch /\ late' = late
    BY <2>1 DEF Claim, Adopt, Claimed
  <2>5. QED
    BY <1>2, <2>3, <2>4, CommitsKept
<1>4. ASSUME NEW q \in Requests, RequestStep(q) PROVE CommitInv'
  <2>1. CASE Build(q)
    BY <2>1, BuildCommits
  <2>2. CASE ~Build(q)
    <3>1. \A x \in Requests : /\ req'[x].want <= made /\ req'[x].prop <= made /\ made' = made
                              /\ req'[x].pc = "push" => req[x].pc = "push"
      BY <1>4, <2>2, RequestNames
    <3>2. /\ pushed' = pushed /\ commits' = commits /\ made' = made
          /\ \/ branch' = branch /\ late' = late
             \/ req[q].pc = "push" /\ branch' = <<Pushing(q)>> /\ late' = late
             \/ req[q].pc = "push" /\ branch' = branch /\ late' = late \cup {Pushing(q)}
             \/ branch' = branch /\ late' = late \cup {NoCommit}
      BY <1>4, <2>2 DEF RequestStep, Register, Lookup, ReadTip, Push, PushLost, Post,
         PostRefused, PostLost, FindAgain, Attribute, Record, ClaimLost, Fails, Release,
         ReleaseFails, Finish
    <3>3. req[q].pc = "push" => Known(Pushing(q)) /\ Range(<<Pushing(q)>>) = {Pushing(q)}
      BY PushedIsKnown, SmallBranches
    <3>4. ASSUME NEW c \in Range(branch') \cup (late' \ {NoCommit}),
                 c \notin Range(branch) \cup (late \ {NoCommit})
          PROVE  req[q].pc = "push" /\ c = Pushing(q)
      BY <3>2, <3>3, <3>4
    <3>5. \A c \in Range(branch') \cup (late' \ {NoCommit}) :
             c \in Range(branch) \cup (late \ {NoCommit})
             \/ (req[q].pc = "push" /\ c = Pushing(q))
      BY <3>4
    <3>6. ASSUME req[q].pc = "push", NEW c, c = Pushing(q) PROVE Known(c)'
      <4>1. Known(c)
        BY <3>3, <3>6
      <4>2. QED
        BY <3>2, <4>1 DEF Known
    <3>7. QED
      BY <1>2, <3>1, <3>2, <3>5, <3>6, CommitsKept
  <2>3. QED
    BY <2>1, <2>2
<1>5. CASE CheckStep \/ CheckFails
  <2>1. branch' = branch /\ late' = late /\ req' = req /\ pushed' = pushed /\ made' = made
        /\ commits' = commits
    BY <1>5 DEF CheckStep, SelectPr, ReadPr, SettlePr, CheckFails
  <2>2. QED
    BY <1>2, <2>1, CommitsKept DEF CommitInv
<1>6. CASE DeleteReport \/ Reopen \/ (\E target \in {"triaged", "closed"} : PatchStatus(target))
             \/ PersonOpens \/ (\E i \in DOMAIN prs : PersonReopens(i)) \/ Propose \/ UNCHANGED vars
  <2>1. /\ branch' = branch /\ late' = late /\ req' = req /\ pushed' = pushed
        /\ commits' = commits /\ made' \in {made, made + 1}
    BY <1>6 DEF DeleteReport, Reopen, PatchStatus, PersonOpens, PersonReopens, Propose, vars
  <2>2. made <= made'
    BY <1>1, <2>1
  <2>3. \A x \in Requests : req[x].want <= made' /\ req[x].prop <= made'
    <3>1. ASSUME NEW x \in Requests PROVE req[x].want \in Nat /\ req[x].prop \in Nat
      <4>1. req[x].want \in Proposals \cup {0} /\ req[x].prop \in Proposals \cup {0}
        BY <1>1 DEF Request
      <4>2. Proposals \cup {0} \subseteq Nat
        BY Constants
      <4>3. QED
        BY <4>1, <4>2
    <3>2. QED
      BY <1>1, <2>1, <3>1 DEF CommitInv
  <2>4. QED
    BY <1>2, <2>1, <2>2, <2>3, CommitsKept
<1>7. CASE Crash
  <2>1. /\ pushed' = pushed /\ branch' = branch /\ late' \subseteq late \cup InFlight
        /\ made' = made /\ commits' = commits
        /\ \A x \in Requests : req'[x] = NoRequest
    BY <1>7 DEF Crash
  <2>2. ASSUME NEW c \in InFlight, c # NoCommit PROVE Known(c)'
    <3>1. PICK q \in Requests : req[q].pc = "push" /\ c = Pushing(q)
      BY <2>2 DEF InFlight
    <3>2. Known(c)
      BY <3>1, PushedIsKnown
    <3>3. QED
      BY <2>1, <3>2 DEF Known
  <2>3. \A c \in Range(branch') \cup (late' \ {NoCommit}) :
           c \in Range(branch) \cup (late \ {NoCommit}) \/ Known(c)'
    BY <2>1, <2>2
  <2>4. \A x \in Requests : req'[x].want <= made /\ req'[x].prop <= made /\ req'[x].pc # "push"
    BY <1>1, <2>1 DEF NoRequest
  <2>5. QED
    BY <1>2, <2>1, <2>3, <2>4, CommitsKept
<1>8. CASE \E c \in late : LatePush(c)
  <2>1. PICK c \in late : LatePush(c)
    BY <1>8
  <2>2. Range(branch') = {c} /\ c # NoCommit /\ late' \subseteq late /\ req' = req
        /\ pushed' = pushed /\ commits' = commits /\ made' = made
    BY <2>1, SmallBranches DEF LatePush
  <2>3. QED
    BY <1>2, <2>2, CommitsKept DEF CommitInv
<1>9. CASE LatePost
  <2>1. branch' = branch /\ late' \subseteq late /\ req' = req /\ pushed' = pushed
        /\ commits' = commits /\ made' = made
    BY <1>9 DEF LatePost
  <2>2. QED
    BY <1>2, <2>1, CommitsKept DEF CommitInv
<1>10. CASE PersonPushes
  <2>1. /\ late' = late /\ req' = req /\ pushed' = pushed /\ made' = made /\ commits' = commits + 1
        /\ commits <= commits' /\ commits' > 0
    BY <1>1, <1>10 DEF PersonPushes
  <2>2. PICK own : own.n = commits + 1 /\ own.by = 0 /\ Range(branch') = Range(branch) \cup {own}
    BY <1>10, PersonOnTop
  <2>3. Known(own)'
    BY <1>1, <2>1, <2>2 DEF Known
  <2>4. QED
    BY <1>2, <2>1, <2>2, <2>3, CommitsKept DEF CommitInv
<1>11. CASE \E state \in {"merged", "closed"} : PersonEnds(state)
  <2>1. /\ late' = late /\ req' = req /\ pushed' = pushed /\ made' = made /\ commits' = commits
        /\ branch' = branch \/ branch' = <<>>
    BY <1>11 DEF PersonEnds
  <2>2. Range(branch') \subseteq Range(branch)
    BY <2>1, SmallBranches
  <2>3. QED
    BY <1>2, <2>1, <2>2, CommitsKept DEF CommitInv
<1>12. QED
  BY <1>3, <1>4, <1>5, <1>6, <1>7, <1>8, <1>9, <1>10, <1>11 DEF Next

\* Commits and proposals are only added.
LEMMA NextGrows ==
    ASSUME TypeInv, TypeInv', [Next]_vars
    PROVE  /\ commits <= commits' /\ made <= made'
           /\ \A c \in Commit : Known(c) => Known(c)'
<1> USE DEF rowVars, remoteVars, settleVars, boundVars
<1>1. commits \in Nat /\ made \in Nat /\ commits' \in Nat /\ made' \in Proposals
  BY Constants DEF TypeInv, TypeOK
<1>2. commits' \in {commits, commits + 1} /\ made' \in {made, made + 1}
  <2>1. CASE \E q \in Requests, want \in Proposals \cup {0} : Claim(q, want) \/ Adopt(q, want)
    BY <2>1 DEF Claim, Adopt, Claimed
  <2>2. CASE \E q \in Requests : RequestStep(q)
    BY <2>2 DEF RequestStep, Register, Lookup, ReadTip, Build, Push, PushLost, Post, PostRefused,
       PostLost, FindAgain, Attribute, Record, ClaimLost, Fails, Release, ReleaseFails, Finish
  <2>3. CASE CheckStep \/ CheckFails
    BY <2>3 DEF CheckStep, SelectPr, ReadPr, SettlePr, CheckFails
  <2>4. CASE DeleteReport \/ Reopen \/ (\E target \in {"triaged", "closed"} : PatchStatus(target))
               \/ Propose \/ Crash \/ UNCHANGED vars
    BY <2>4 DEF DeleteReport, Reopen, PatchStatus, Propose, Crash, vars
  <2>5. CASE (\E c \in late : LatePush(c)) \/ LatePost \/ PersonPushes \/ PersonOpens
               \/ (\E state \in {"merged", "closed"} : PersonEnds(state))
               \/ (\E i \in DOMAIN prs : PersonReopens(i))
    BY <2>5 DEF LatePush, LatePost, PersonPushes, PersonOpens, PersonEnds, PersonReopens
  <2>6. QED
    BY <2>1, <2>2, <2>3, <2>4, <2>5 DEF Next
<1>3. commits <= commits' /\ made <= made'
  BY <1>1, <1>2
<1>4. QED
  BY <1>1, <1>3, StaysKnown

\* The steps that change the branch or its pull requests
RemoteStep ==
    \/ OpensPr /\ branch' = branch
    \/ \E c : branch = <<>> /\ branch' = <<c>> /\ prs' = prs
    \/ PersonPushes
    \/ \E state \in {"merged", "closed"} : PersonEnds(state)
    \/ \E i \in DOMAIN prs : PersonReopens(i)

LEMMA RemoteFrame ==
    ASSUME [Next]_vars, ~RemoteStep
    PROVE  branch' = branch /\ prs' = prs
<1> USE DEF rowVars, remoteVars, settleVars, boundVars
<1>1. CASE \E q \in Requests, want \in Proposals \cup {0} : Claim(q, want) \/ Adopt(q, want)
  BY <1>1 DEF Claim, Adopt, Claimed
<1>2. CASE \E q \in Requests : RequestStep(q)
  <2>1. PICK q \in Requests : RequestStep(q)
    BY <1>2
  <2>2. CASE Push(q) \/ Post(q)
    BY <2>2 DEF Push, Post, RemoteStep
  <2>3. CASE ~(Push(q) \/ Post(q))
    BY <2>1, <2>3 DEF RequestStep, Register, Lookup, ReadTip, Build, PushLost, PostRefused,
       PostLost, FindAgain, Attribute, Record, ClaimLost, Fails, Release, ReleaseFails, Finish
  <2>4. QED
    BY <2>2, <2>3
<1>3. CASE CheckStep \/ CheckFails
  BY <1>3 DEF CheckStep, SelectPr, ReadPr, SettlePr, CheckFails
<1>4. CASE DeleteReport \/ Reopen \/ (\E target \in {"triaged", "closed"} : PatchStatus(target))
             \/ Propose \/ Crash \/ UNCHANGED vars
  BY <1>4 DEF DeleteReport, Reopen, PatchStatus, Propose, Crash, vars
<1>5. CASE (\E c \in late : LatePush(c)) \/ LatePost \/ PersonOpens
  BY <1>5 DEF LatePush, LatePost, PersonOpens, RemoteStep
<1>6. QED
  BY <1>1, <1>2, <1>3, <1>4, <1>5 DEF Next, RemoteStep

\* A pull request stays well formed while the branch does not change, or loses
\* its commits while the pull request is not open.
LEMMA PrStays ==
    ASSUME NEW pr, PrOk(pr), \A c \in pr.commits : Known(c)',
           branch' = branch \/ (branch' = <<>> /\ pr.state # "open")
    PROVE  PrOk(pr)'
  BY SmallBranches DEF PrOk

\* Pull requests stay well formed and are never lost, and none of their authors
\* ever changes.
LEMMA NextPrs ==
    ASSUME TypeInv, TypeInv', CommitInv, PrInv, [Next]_vars
    PROVE  /\ PrInv'
           /\ \A i \in DOMAIN prs :
                i \in DOMAIN prs' /\ Authors(prs'[i].commits) = Authors(prs[i].commits)
<1>1. /\ commits \in Nat /\ prs \in Seq(Pr) /\ Len(prs) \in Nat /\ DOMAIN prs = 1 .. Len(prs)
      /\ Range(branch) \subseteq Commit /\ \A i \in DOMAIN prs : prs[i] \in Pr
  BY LenProperties, ElementOfSeq, RangeOfSeq DEF TypeInv, TypeOK
<1>2. ASSUME NEW i \in DOMAIN prs, NEW c \in prs[i].commits PROVE Known(c)'
  <2>1. c \in Commit /\ Known(c)
    BY <1>1 DEF Pr, PrInv, PrOk
  <2>2. QED
    BY <2>1, NextGrows
<1>3. CASE ~RemoteStep
  BY <1>2, <1>3, RemoteFrame, PrStays DEF PrInv
<1>4. ASSUME NEW c, branch = <<>>, branch' = <<c>>, prs' = prs PROVE PrInv'
  <2>1. Range(branch) = {} /\ Range(branch') = {c}
    BY <1>4, SmallBranches
  <2>2. ASSUME NEW i \in DOMAIN prs PROVE PrOk(prs[i])'
    <3>1. PrOk(prs[i])
      BY DEF PrInv
    <3>2. prs[i].state # "open"
      BY <2>1, <3>1 DEF PrOk
    <3>3. c \in prs[i].commits => Authors({c}) \subseteq Authors(prs[i].commits)
      BY DEF Authors
    <3>4. QED
      BY <1>2, <1>4, <2>1, <3>1, <3>2, <3>3 DEF PrOk
  <2>3. QED
    BY <1>4, <2>2 DEF PrInv
<1>5. \A c \in Range(branch) : Known(c) /\ Known(c)'
  BY <1>1, NextGrows DEF CommitInv
<1>6. branch # <<>> => Range(branch) # {}
  BY LastOfSeq DEF TypeInv, TypeOK, Range
<1>7. CASE OpensPr /\ branch' = branch
  <2> DEFINE new == [commits |-> Range(branch), state |-> "open"]
  <2>1. /\ Len(prs') = Len(prs) + 1 /\ DOMAIN prs' = 1 .. Len(prs')
        /\ \A i \in 1 .. Len(prs) : prs'[i] = prs[i]
        /\ prs'[Len(prs')] = new
    BY <1>7, OpensTypes, LenProperties
  <2>2. branch # <<>> /\ new.commits = Range(branch)
    BY <1>7 DEF OpensPr
  <2>3. PrOk(prs[Len(prs)])'
    BY <1>5, <1>6, <1>7, <2>1, <2>2 DEF PrOk
  <2>4. ASSUME NEW i \in 1 .. Len(prs) PROVE PrOk(prs[i])'
    BY <1>1, <1>2, <1>7, <2>1, PrStays DEF PrInv
  <2>5. DOMAIN prs' = DOMAIN prs \cup {Len(prs')}
    BY <1>1, <2>1
  <2>6. QED
    BY <1>1, <2>1, <2>3, <2>4, <2>5 DEF PrInv
<1>8. CASE PersonPushes
  <2>1. PICK own : /\ own.n = commits + 1 /\ own.by = 0 /\ Range(branch') = Range(branch) \cup {own}
                   /\ Authors(Range(branch')) = Authors(Range(branch))
    <3> DEFINE o == [n |-> commits + 1, by |-> 0]
    <3>1. /\ Range(branch') = Range(branch) \cup {o} /\ Authors(Range(branch')) = Authors(Range(branch))
      BY <1>8, PersonOnTop
    <3>2. o.n = commits + 1 /\ o.by = 0
      OBVIOUS
    <3> HIDE DEF o
    <3>3. QED
      BY <3>1, <3>2
  <2>2. /\ prs' = [i \in DOMAIN prs |-> IF prs[i].state = "open"
                                        THEN [prs[i] EXCEPT !.commits = Range(branch')] ELSE prs[i]]
        /\ commits' = commits + 1 /\ made' = made
    BY <1>8 DEF PersonPushes, rowVars
  <2>3. Known(own)'
    <3>1. made \in Nat
      BY Constants DEF TypeInv, TypeOK
    <3>2. QED
      BY <1>1, <2>1, <2>2, <3>1 DEF Known
  <2>4. ASSUME NEW i \in DOMAIN prs
        PROVE  PrOk(prs[i])' /\ Authors(prs'[i].commits) = Authors(prs[i].commits)
    <3>1. PrOk(prs[i]) /\ prs[i] \in Pr
      BY <1>1 DEF PrInv
    <3>2. CASE prs[i].state = "open"
      <4>1. prs'[i].commits = Range(branch')
        BY <2>2, <3>1, <3>2 DEF Pr
      <4>2. Authors(prs'[i].commits) = Authors(prs[i].commits)
        BY <2>1, <3>1, <3>2, <4>1 DEF PrOk
      <4>3. QED
        BY <1>5, <2>1, <2>3, <4>1, <4>2 DEF PrOk
    <3>3. CASE prs[i].state # "open"
      <4>1. prs'[i] = prs[i]
        BY <2>2, <3>3
      <4>2. own \notin prs[i].commits
        BY <1>1, <2>1, <3>1 DEF PrOk, Known
      <4>3. prs[i].commits \cap Range(branch') = prs[i].commits \cap Range(branch)
        BY <2>1, <4>2
      <4>4. QED
        BY <1>2, <2>1, <3>1, <3>3, <4>1, <4>3 DEF PrOk
    <3>4. QED
      BY <3>2, <3>3
  <2>5. QED
    BY <2>2, <2>4 DEF PrInv
<1>9. CASE \E state \in {"merged", "closed"} : PersonEnds(state)
  <2>1. PICK state \in {"merged", "closed"} :
           prs' = [i \in DOMAIN prs |->
                     IF prs[i].state = "open" THEN [prs[i] EXCEPT !.state = state] ELSE prs[i]]
    BY <1>9 DEF PersonEnds
  <2>2. branch' = branch \/ branch' = <<>>
    BY <1>9 DEF PersonEnds
  <2>3. ASSUME NEW i \in DOMAIN prs
        PROVE  PrOk(prs[i])' /\ Authors(prs'[i].commits) = Authors(prs[i].commits)
    <3>1. prs'[i].commits = prs[i].commits /\ prs'[i].state # "open" /\ PrOk(prs[i])
      BY <1>1, <2>1 DEF Pr, PrInv
    <3>2. QED
      BY <1>2, <2>2, <3>1, SmallBranches DEF PrOk
  <2>4. QED
    BY <2>1, <2>3 DEF PrInv
<1>10. CASE \E i \in DOMAIN prs : PersonReopens(i)
  <2>1. PICK i \in DOMAIN prs : PersonReopens(i)
    BY <1>10
  <2> DEFINE again == [commits |-> Range(branch), state |-> "open"]
  <2>2. /\ branch' = branch /\ prs' = [prs EXCEPT ![i] = again] /\ branch # <<>>
        /\ prs[i].commits \subseteq Range(branch)
    BY <2>1 DEF PersonReopens
  <2>3. again.commits = Range(branch)
    OBVIOUS
  <2> HIDE DEF again
  <2>4. PrOk(prs[i])
    BY DEF PrInv
  <2>5. Authors(prs[i].commits) = Authors(Range(branch))
    <3>1. Authors(Range(branch)) \subseteq Authors(prs[i].commits)
      BY <2>2, <2>4 DEF PrOk
    <3>2. QED
      BY <2>2, <3>1 DEF Authors
  <2>6. PrOk(prs[i])' /\ prs'[i].commits = Range(branch)
    BY <1>5, <1>6, <2>2, <2>3 DEF PrOk
  <2>7. ASSUME NEW j \in DOMAIN prs, j # i PROVE PrOk(prs[j])' /\ prs'[j] = prs[j]
    BY <1>2, <2>2, <2>7, PrStays DEF PrInv
  <2>8. QED
    BY <2>2, <2>5, <2>6, <2>7 DEF PrInv
<1>11. QED
  BY <1>3, <1>4, <1>7, <1>8, <1>9, <1>10, RemoteFrame DEF RemoteStep

\* _resolve_owner answers an author of the pull request whenever it has one:
\* a single push intent is a commit of its own proposal, and so is a trailer.
LEMMA OwnersAreAuthors ==
    ASSUME TypeInv, CommitInv, PrInv, NEW i \in DOMAIN prs
    PROVE  /\ Owners(prs[i]) \subseteq Authors(prs[i].commits)
           /\ Owners(prs[i]) = {} => Authors(prs[i].commits) = {}
<1> DEFINE intents == {p \in 1 .. made : pushed[p] \in prs[i].commits}
           trailers == {c.by : c \in prs[i].commits} \cap (1 .. made)
<1>1. /\ prs[i] \in Pr /\ \A c \in prs[i].commits : c \in Commit /\ Known(c)
      /\ commits \in Nat /\ made \in Nat /\ 1 .. made \subseteq Proposals
  <2>1. prs[i] \in Pr /\ PrOk(prs[i])
    BY ElementOfSeq DEF TypeInv, TypeOK, PrInv
  <2>2. commits \in Nat /\ made \in Nat /\ 1 .. made \subseteq Proposals
    BY MadeProposals, Constants DEF TypeInv, TypeOK
  <2>3. QED
    BY <2>1, <2>2 DEF PrOk, Pr
<1>2. \A c \in prs[i].commits : c # NoCommit /\ (c.by # 0 => c.by \in 1 .. made)
  <2>1. ASSUME NEW c \in prs[i].commits PROVE c # NoCommit /\ (c.by # 0 => c.by \in 1 .. made)
    <3>1. c.n \in 1 .. commits /\ c.by <= made /\ NoCommit.n = 0
      BY <1>1 DEF Known, NoCommit
    <3>2. c.by \in Proposals \cup {0} /\ Proposals \cup {0} \subseteq Nat
      BY <1>1, Constants DEF Commit
    <3>3. c.by # 0 => c.by \in Nat /\ c.by > 0
      BY <3>2
    <3>4. QED
      BY <1>1, <3>1, <3>3
  <2>2. QED
    BY <2>1
<1>3. trailers = Authors(prs[i].commits)
  BY <1>2 DEF Authors
<1>4. intents \subseteq Authors(prs[i].commits)
  <2>1. ASSUME NEW p \in 1 .. made, pushed[p] \in prs[i].commits
        PROVE  p \in Authors(prs[i].commits)
    <3>1. p \in Proposals /\ pushed[p].by = p /\ p # 0
      BY <1>1, <1>2, <2>1 DEF CommitInv
    <3>2. QED
      BY <2>1, <3>1 DEF Authors
  <2>2. QED
    BY <2>1
<1>5. Owners(prs[i]) = IF Cardinality(intents) = 1 THEN intents ELSE trailers
  BY DEF Owners
<1>6. Cardinality(intents) = 1 => intents # {}
  BY FS_EmptySet
<1> HIDE DEF intents, trailers
<1>7. QED
  BY <1>3, <1>4, <1>5, <1>6

\* A request's names and where it stands
AuthorOk(x) ==
    /\ req[x].pc = "post" => /\ MadeFor(Range(branch), req[x].prop)
                             /\ branch = <<>> => late \subseteq {NoCommit}
    /\ req[x].pc = "record" => MadeFor(prs[req[x].pr].commits, req[x].prop)

\* The step of the one request at work keeps its attribution right.
LEMMA RequestAuthors ==
    ASSUME TypeInv, TypeInv', CommitInv, PrInv, AuthorInv, NEW q \in Requests, RequestStep(q)
    PROVE  AuthorOk(q)'
<1> USE DEF rowVars, remoteVars
<1>1. req \in [Requests -> Request] /\ req[q] \in Request /\ AuthorOk(q)
  BY DEF TypeInv, TypeOK, AuthorInv, AuthorOk
<1>2. CASE \/ Register(q) \/ Build(q) \/ PushLost(q) \/ PostRefused(q) \/ PostLost(q)
           \/ ClaimLost(q) \/ Fails(q) \/ Record(q)
           \/ Release(q) \/ ReleaseFails(q) \/ Finish(q)
  <2>1. req'[q].pc \notin {"post", "record"}
    BY <1>1, <1>2 DEF Register, Build, PushLost, PostRefused, PostLost, ClaimLost, Fails, Record, Goto,
                      Release, ReleaseFails, Finish, Ends, NoRequest, Request
  <2>2. QED
    BY <2>1 DEF AuthorOk
<1>3. CASE Lookup(q) \/ FindAgain(q)
  <2>1. req'[q].pc \notin {"post", "record"}
    BY <1>1, <1>3 DEF Lookup, FindAgain, Found, Request
  <2>2. QED
    BY <2>1 DEF AuthorOk
<1>4. CASE ReadTip(q)
  <2>1. branch' = branch
    BY <1>4 DEF ReadTip
  <2>2. CASE req' = [req EXCEPT ![q] = [req[q] EXCEPT !.pc = "build"]]
             \/ req' = [req EXCEPT ![q] = [req[q] EXCEPT !.pc = "release"]]
    BY <1>1, <2>2 DEF AuthorOk, Request
  <2>3. ASSUME branch # <<>>, NEW p \in Pushers,
               req' = [req EXCEPT ![q] = [req[q] EXCEPT !.pc = "post", !.prop = p]]
        PROVE  AuthorOk(q)'
    <3>1. req'[q].pc = "post" /\ req'[q].prop = p
      BY <1>1, <2>3 DEF Request
    <3>2. Tip \in Range(branch) /\ pushed[p] = Tip /\ p \in Proposals /\ p # 0
      BY <2>3, LastOfSeq, TipPushers, Constants DEF Tip, Pushers, TypeInv, TypeOK, Range
    <3>3. pushed[p] # NoCommit
      <4>1. Known(Tip)
        BY <3>2 DEF CommitInv
      <4>2. Tip.n # 0 /\ NoCommit.n = 0
        BY <4>1 DEF Known, NoCommit
      <4>3. QED
        BY <3>2, <4>2
    <3>4. p \in Authors(Range(branch))
      BY <3>2, <3>3 DEF CommitInv, Authors
    <3>5. QED
      BY <2>1, <2>3, <3>1, <3>4 DEF AuthorOk, MadeFor
  <2>4. QED
    BY <1>4, <2>2, <2>3 DEF ReadTip, Goto
<1>5. CASE Push(q)
  <2>1. CASE req' = [req EXCEPT ![q] = [req[q] EXCEPT !.pc = "release"]]
    BY <1>1, <2>1 DEF AuthorOk, Request
  <2>2. CASE branch' = <<Pushing(q)>> /\ req' = [req EXCEPT ![q] = [req[q] EXCEPT !.pc = "post"]]
    <3>1. req'[q].pc = "post" /\ req'[q].prop = req[q].prop
      BY <1>1, <2>2 DEF Request
    <3>2. Range(branch') = {Pushing(q)} /\ branch' # <<>>
      BY <2>2, SmallBranches
    <3>3. Pushing(q).by = req[q].prop
      BY DEF Pushing
    <3>4. MadeFor({Pushing(q)}, req[q].prop)
      BY <3>3 DEF MadeFor, Authors
    <3>5. QED
      BY <3>1, <3>2, <3>4 DEF AuthorOk
  <2>3. QED
    BY <1>5, <2>1, <2>2 DEF Push, Goto
<1>6. CASE Post(q)
  <2>1. /\ req[q].pc = "post" /\ OpensPr
        /\ req' = [req EXCEPT ![q] = [req[q] EXCEPT !.pc = "record", !.pr = Len(prs) + 1]]
    BY <1>6 DEF Post
  <2>2. req'[q].pc = "record" /\ req'[q].prop = req[q].prop /\ req'[q].pr = Len(prs) + 1
    BY <1>1, <2>1 DEF Request
  <2>3. prs'[Len(prs) + 1].commits = Range(branch)
    <3>1. /\ Len(prs') = Len(prs) + 1
          /\ prs'[Len(prs')] = [commits |-> Range(branch), state |-> "open"]
      BY <2>1, OpensTypes
    <3>2. QED
      BY <3>1
  <2>4. QED
    BY <1>1, <2>1, <2>2, <2>3 DEF AuthorOk
<1>7. CASE Attribute(q)
  <2> DEFINE k == req[q].pr
             owners == Owners(prs[k])
  <2>1. k \in DOMAIN prs /\ prs' = prs
    BY <1>7, LenProperties DEF Attribute, TypeInv, TypeOK, PrsExist
  <2>2. /\ owners \subseteq Authors(prs[k].commits)
        /\ owners = {} => Authors(prs[k].commits) = {}
    BY <2>1, OwnersAreAuthors
  <2>3. CASE req' = [req EXCEPT ![q] = [req[q] EXCEPT !.pc = "release"]]
    BY <1>1, <2>3 DEF AuthorOk, Request
  <2>4. ASSUME NEW p, p \in owners \/ owners = {},
               req' = [req EXCEPT ![q] = [req[q] EXCEPT !.pc = "record", !.prop = p]]
        PROVE  AuthorOk(q)'
    <3>1. req'[q].pc = "record" /\ req'[q].prop = p /\ req'[q].pr = k
      BY <1>1, <2>4 DEF Request
    <3>2. MadeFor(prs[k].commits, p)
      BY <2>2, <2>4 DEF MadeFor
    <3>3. QED
      BY <2>1, <3>1, <3>2 DEF AuthorOk
  <2>5. QED
    BY <1>7, <2>3, <2>4 DEF Attribute, Goto
<1>8. QED
  BY <1>2, <1>3, <1>4, <1>5, <1>6, <1>7 DEF RequestStep

LEMMA NextAuthors ==
    ASSUME TypeInv, TypeInv', HolderInv, CommitInv, PrInv, AuthorInv, [Next]_vars
    PROVE  AuthorInv'
<1> USE DEF rowVars, remoteVars, settleVars, boundVars
<1>1. /\ req \in [Requests -> Request]
      /\ \A x \in Requests : req[x].pc = "record" => req[x].pr \in DOMAIN prs
      /\ \A x \in Requests : AuthorOk(x)
  BY LenProperties DEF TypeInv, TypeOK, PrsExist, AuthorInv, AuthorOk
<1>2. \A i \in DOMAIN prs : Authors(prs'[i].commits) = Authors(prs[i].commits)
  BY NextPrs
<1>3. SUFFICES ASSUME NEW x \in Requests PROVE AuthorOk(x)'
  BY DEF AuthorInv, AuthorOk
<1>4. CASE req'[x].pc \notin {"post", "record"}
  BY <1>4 DEF AuthorOk
<1>5. ASSUME req'[x] = req[x], Authors(Range(branch')) \in {Authors(Range(branch)), {}},
             branch' = <<>> => (branch = <<>> \/ late = {}) /\ late' \subseteq late \cup {NoCommit}
      PROVE  AuthorOk(x)'
  BY <1>1, <1>2, <1>5 DEF AuthorOk, MadeFor
<1>6. CASE \E q \in Requests, want \in Proposals \cup {0} : Claim(q, want) \/ Adopt(q, want)
  <2>1. PICK q \in Requests : \E c : c.pc = "claimed" /\ req' = [req EXCEPT ![q] = c]
    BY <1>6 DEF Claim, Adopt, Claimed
  <2>2. branch' = branch /\ late' = late
    BY <1>6 DEF Claim, Adopt, Claimed
  <2>3. CASE x = q
    BY <1>1, <1>4, <2>1, <2>3
  <2>4. CASE x # q
    BY <1>1, <1>5, <2>1, <2>2, <2>4
  <2>5. QED
    BY <2>3, <2>4
<1>7. ASSUME NEW q \in Requests, RequestStep(q) PROVE AuthorOk(x)'
  <2>1. CASE x = q
    BY <1>7, <2>1, RequestAuthors
  <2>2. CASE x # q
    <3>1. Busy(q)
      BY <1>7 DEF RequestStep, Register, Lookup, ReadTip, Build, Push, PushLost, Post, PostRefused,
         PostLost, FindAgain, Attribute, Record, ClaimLost, Fails, Release, ReleaseFails, Finish, Busy
    <3>2. req[x].pc = "idle"
      BY <2>2, <3>1 DEF HolderInv, Busy
    <3>3. req'[x] = req[x]
      <4>1. CASE Register(q) \/ Release(q) \/ ReleaseFails(q) \/ Finish(q)
        BY <1>1, <2>2, <4>1 DEF Register, Release, ReleaseFails, Finish, Ends
      <4>2. CASE ~(Register(q) \/ Release(q) \/ ReleaseFails(q) \/ Finish(q))
        BY <1>7, <2>2, <4>2, GoesOn
      <4>3. QED
        BY <4>1, <4>2
    <3>4. QED
      BY <1>4, <3>2, <3>3
  <2>3. QED
    BY <2>1, <2>2
<1>8. CASE CheckStep \/ CheckFails
  <2>1. branch' = branch /\ late' = late /\ req' = req
    BY <1>8 DEF CheckStep, SelectPr, ReadPr, SettlePr, CheckFails
  <2>2. QED
    BY <1>5, <2>1
<1>9. CASE DeleteReport \/ Reopen \/ (\E target \in {"triaged", "closed"} : PatchStatus(target))
             \/ PersonOpens \/ (\E i \in DOMAIN prs : PersonReopens(i)) \/ Propose \/ UNCHANGED vars
             \/ LatePost
  <2>1. branch' = branch /\ late' \subseteq late /\ req' = req
    BY <1>9 DEF DeleteReport, Reopen, PatchStatus, PersonOpens, PersonReopens, Propose, LatePost, vars
  <2>2. QED
    BY <1>5, <2>1
<1>10. CASE Crash
  BY <1>4, <1>10 DEF Crash, NoRequest
<1>11. CASE \E c \in late : LatePush(c)
  <2>1. PICK c \in late : LatePush(c)
    BY <1>11
  <2>2. c # NoCommit /\ branch = <<>> /\ prs' = prs /\ req' = req
    BY <2>1 DEF LatePush
  <2>3. req'[x].pc # "post"
    BY <1>1, <2>1, <2>2 DEF AuthorOk
  <2>4. QED
    BY <1>1, <2>2, <2>3 DEF AuthorOk
<1>12. CASE PersonPushes
  <2>1. req' = req /\ late' = late /\ branch' = Append(branch, [n |-> commits + 1, by |-> 0])
    BY <1>12 DEF PersonPushes
  <2>2. Authors(Range(branch')) = Authors(Range(branch))
    BY <1>12, PersonOnTop
  <2>3. branch' # <<>>
    BY <1>12, PersonOnTop, SmallBranches
  <2>4. QED
    BY <1>5, <2>1, <2>2, <2>3
<1>13. CASE \E state \in {"merged", "closed"} : PersonEnds(state)
  <2>1. /\ req' = req /\ late' = late
        /\ branch' = branch \/ (branch' = <<>> /\ late = {})
    BY <1>13 DEF PersonEnds
  <2>2. QED
    BY <1>5, <2>1, SmallBranches
<1>14. QED
  BY <1>6, <1>7, <1>8, <1>9, <1>10, <1>11, <1>12, <1>13 DEF Next

\* The records name authors, and a record is of an existing pull request.
LEMMA NextOwners ==
    ASSUME TypeInv, TypeInv', HolderInv, RecordInv, CommitInv, PrInv, AuthorInv,
           RecordedOwnerMadeIt, [Next]_vars
    PROVE  RecordedOwnerMadeIt'
<1>1. /\ \A i \in DOMAIN prs : Authors(prs'[i].commits) = Authors(prs[i].commits)
      /\ DOMAIN prs = 1 .. Len(prs) /\ Len(prs) \in Nat
      /\ recorded \in [Proposals -> Nat] /\ recorded' \in [Proposals -> Nat]
      /\ \A p \in Proposals : recorded[p] <= Len(prs)
  BY NextPrs, LenProperties DEF TypeInv, TypeOK, PrsExist
<1>2. SUFFICES ASSUME NEW p \in Proposals, recorded'[p] # 0
               PROVE  MadeFor(prs'[recorded'[p]].commits, p)
  BY DEF RecordedOwnerMadeIt, MadeFor, Authors
<1>3. CASE recorded'[p] = recorded[p]
  <2>1. recorded[p] \in DOMAIN prs
    BY <1>1, <1>2, <1>3
  <2>2. MadeFor(prs[recorded[p]].commits, p)
    BY <1>2, <1>3 DEF RecordedOwnerMadeIt, MadeFor, Authors
  <2>3. QED
    BY <1>1, <1>3, <2>1, <2>2 DEF MadeFor
<1>4. CASE recorded'[p] # recorded[p]
  <2>1. ~RecordedPr
    BY <1>4, RecordsStay
  <2>2. PICK q \in Requests : Record(q)
    <3>1. ~(\E q \in Requests, want \in Proposals \cup {0} : Claim(q, want) \/ Adopt(q, want))
      BY <1>4 DEF Claim, Adopt, Claimed
    <3>2. PICK q \in Requests : RequestStep(q)
      BY <1>4, <3>1, OthersFrame
    <3>3. Record(q)
      BY <1>4, <3>2 DEF RequestStep, Register, Lookup, ReadTip, Build, Push, PushLost, Post,
         PostRefused, PostLost, FindAgain, Attribute, ClaimLost, Fails, Release, ReleaseFails,
         Finish, rowVars
    <3>4. QED
      BY <3>3
  <2>3. /\ recorded' = [recorded EXCEPT ![req[q].prop] = req[q].pr]
        /\ req[q].pc = "record" /\ prs' = prs
    BY <2>2 DEF Record, remoteVars
  <2>4. p = req[q].prop /\ recorded'[p] = req[q].pr
    BY <1>1, <1>4, <2>3
  <2>5. QED
    BY <2>3, <2>4 DEF AuthorInv
<1>5. QED
  BY <1>3, <1>4

\* The recorded pull request is of the proposal it is recorded for: over crashes,
\* adoptions, lost answers, late pushes and people who push, delete the branch
\* and reopen pull requests, no proposal is credited with another's commits
\* (_resolve_owner, fix_proposal_record_push_intent, record_pull_request).
THEOREM RecordNamesAuthor == Spec => []RecordedOwnerMadeIt
<1>1. Init => CommitInv /\ PrInv /\ AuthorInv /\ RecordedOwnerMadeIt
  <2> SUFFICES ASSUME Init PROVE CommitInv /\ PrInv /\ AuthorInv /\ RecordedOwnerMadeIt
    OBVIOUS
  <2>1. /\ Range(branch) = {} /\ late = {} /\ DOMAIN prs = {} /\ made = 1
        /\ \A p \in Proposals : pushed[p] = NoCommit /\ recorded[p] = 0
        /\ \A q \in Requests : req[q] = NoRequest
    BY SmallBranches DEF Init
  <2>2. CommitInv
    BY <2>1 DEF CommitInv, NoRequest
  <2>3. PrInv /\ AuthorInv /\ RecordedOwnerMadeIt
    BY <2>1 DEF PrInv, AuthorInv, RecordedOwnerMadeIt, NoRequest
  <2>4. QED
    BY <2>2, <2>3
<1>2. /\ TypeInv /\ TypeInv' /\ HolderInv /\ RecordInv /\ CommitInv /\ PrInv /\ AuthorInv
      /\ RecordedOwnerMadeIt /\ [Next]_vars
      => CommitInv' /\ PrInv' /\ AuthorInv' /\ RecordedOwnerMadeIt'
  BY NextCommits, NextPrs, NextAuthors, NextOwners
<1>3. QED
  BY <1>1, <1>2, Types, Holders, Records, PTL DEF Spec
=============================================================================
