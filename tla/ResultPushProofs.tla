-------------------------- MODULE ResultPushProofs --------------------------
(***************************************************************************)
(* Theorems about ResultPush: types, one payload for each revision, and    *)
(* that sonicgrid's picture never goes back, for every number of reports,  *)
(* lost or late PUTs, crashes and readings of the clock; and, while the    *)
(* head does not return to an earlier commit, that what counts as          *)
(* acknowledged is shown.                                                  *)
(***************************************************************************)
EXTENDS ResultPush, FiniteSetTheorems, TLAPS

\* What was sent is no newer than what is staged, and a revision orders it.
SentInv(r) ==
    /\ \A p \in sent[r] : /\ p.revision <= stored[r].revision
                          /\ p.revision = stored[r].revision => p.picture = stored[r].picture
                          /\ p.picture.stamp <= stored[r].picture.stamp
    /\ \A p, q \in sent[r] : p.revision <= q.revision => p.picture.stamp <= q.picture.stamp
    /\ \A p, q \in sent[r] : p.revision = q.revision => p = q

\* Sonicgrid and the network only have what was sent.
WireInv(r) ==
    /\ remote[r] \in sent[r] \cup {NoPayload}
    /\ late[r] \subseteq sent[r]
    /\ r \in push.cur => InFlight(r) \in sent[r]

\* A picture is staged at a stamp the report had, and a push does not overtake
\* what it staged.
StampInv(r) ==
    /\ report[r].stamp <= now
    /\ stored[r].picture.stamp <= report[r].stamp
    /\ push.seen[r].stamp <= report[r].stamp
    /\ r \in push.todo => stored[r].picture.stamp <= push.seen[r].stamp

ReportInv(r) == SentInv(r) /\ WireInv(r) /\ StampInv(r)

Inv == TypeOK /\ \A r \in Reports : ReportInv(r)

-----------------------------------------------------------------------------
(* Types. *)

Push == [todo: SUBSET Reports, seen: [Reports -> Picture], cur: SUBSET Reports]

LEMMA NothingTypes ==
    /\ NoPicture \in Picture /\ NoPayload \in Payload /\ NoStored \in Stored /\ NoPush \in Push
    /\ Cardinality(NoPush.cur) <= 1 /\ NoPush.cur = {} /\ NoPush.todo = {}
<1>1. NoPicture \in Picture
  BY DEF NoPicture, Picture
<1>2. NoPayload \in Payload /\ NoStored \in Stored
  BY <1>1 DEF NoPayload, Payload, NoStored, Stored
<1>3. NoPush \in Push
  BY <1>1 DEF NoPush, Push
<1>4. NoPush.cur = {} /\ NoPush.todo = {}
  BY DEF NoPush
<1>5. QED
  BY <1>1, <1>2, <1>3, <1>4, FS_EmptySet

LEMMA Parts ==
    ASSUME TypeOK, NEW r \in Reports
    PROVE  /\ stored[r] \in Stored /\ remote[r] \in Payload /\ InFlight(r) \in Payload
           /\ View(r) \in Picture /\ push \in Push /\ push.seen[r] \in Picture
           /\ sent[r] \subseteq Payload /\ late[r] \subseteq Payload
<1>1. stored[r] \in Stored /\ remote[r] \in Payload /\ report[r] \in [stamp: Nat, loc: Nat]
      /\ push \in Push /\ sent[r] \subseteq Payload /\ late[r] \subseteq Payload
  BY DEF TypeOK, Push
<1>2. InFlight(r) \in Payload
  BY <1>1 DEF InFlight, Stored, Payload
<1>3. View(r) \in Picture
  BY <1>1 DEF View, Picture
<1>4. push.seen[r] \in Picture
  BY <1>1 DEF Push
<1>5. QED
  BY <1>1, <1>2, <1>3, <1>4

LEMMA Applied ==
    ASSUME TypeOK, NEW r \in Reports, NEW payload \in Payload, Apply(r, payload)
    PROVE  /\ remote' \in [Reports -> Payload]
           /\ remote'[r] = IF payload.revision > remote[r].revision THEN payload ELSE remote[r]
           /\ \A q \in Reports \ {r} : remote'[q] = remote[q]
  BY DEF Apply, TypeOK

LEMMA LostTypes ==
    ASSUME TypeOK, NEW r \in Reports, Lost(r)
    PROVE  remote' \in [Reports -> Payload] /\ late' \in [Reports -> SUBSET Payload]
  BY Parts, Applied DEF Lost, TypeOK

LEMMA AckedRowTypes ==
    ASSUME NEW row \in Stored, NEW shown \in Payload
    PROVE  /\ AckedRow(row, shown) \in Stored
           /\ AckedRow(row, shown).picture = row.picture
           /\ AckedRow(row, shown).revision =
                IF shown.revision >= row.revision THEN shown.revision ELSE row.revision
<1>1. row.picture \in Picture /\ row.revision \in Nat /\ shown.revision \in Nat
  BY DEF Stored, Payload
<1>2. QED
  BY <1>1 DEF AckedRow, Stored

LEMMA StageRowTypes ==
    ASSUME NEW row \in Stored, NEW picture \in Picture, NEW clock \in Clocks
    PROVE  LET revision == RevisionAfter(row.revision, clock)
               new == StageRow(row, picture, revision)
           IN  /\ new \in Stored /\ new.picture = picture /\ new.revision = revision
               /\ revision \in Nat /\ revision > row.revision
<1>1. row.revision \in Nat /\ clock \in Nat /\ NoPicture \in Picture
  BY PushAssumption, NothingTypes DEF Stored
<1>2. RevisionAfter(row.revision, clock) \in Nat /\ RevisionAfter(row.revision, clock) > row.revision
  BY <1>1 DEF RevisionAfter, Max2
<1>3. QED
  BY <1>1, <1>2 DEF StageRow, Stored

-----------------------------------------------------------------------------
(* Steps. *)

\* What a step leaves of a report, but for the wire
Kept(r) ==
    /\ sent'[r] = sent[r]
    /\ stored'[r].revision = stored[r].revision /\ stored'[r].picture = stored[r].picture
    /\ r \in push'.cur => r \in push.cur
    /\ r \in push'.todo => r \in push.todo /\ push'.seen[r] = push.seen[r]
    /\ push'.seen[r].stamp = push.seen[r].stamp \/ push'.seen[r].stamp = 0
    /\ report'[r].stamp = report[r].stamp /\ now' = now

LEMMA KeptInv ==
    ASSUME TypeOK, NEW r \in Reports, ReportInv(r), Kept(r),
           remote'[r] \in sent[r] \cup {NoPayload}, late'[r] \subseteq sent[r]
    PROVE  ReportInv(r)'
<1>1. SentInv(r)'
  BY DEF Kept, ReportInv, SentInv
<1>2. WireInv(r)'
  BY DEF Kept, ReportInv, WireInv, InFlight
<1>3. report[r].stamp \in Nat /\ now \in Nat
  BY DEF TypeOK
<1>4. StampInv(r)'
  BY <1>3 DEF Kept, ReportInv, StampInv
<1>5. QED
  BY <1>1, <1>2, <1>4 DEF ReportInv

\* Nothing but the wire of one report
LEMMA LostWire ==
    ASSUME Inv, NEW r \in Reports, r \in push.cur, Lost(r)
    PROVE  /\ \A q \in Reports : /\ remote'[q] \in sent[q] \cup {NoPayload}
                                 /\ late'[q] \subseteq sent[q]
           /\ remote' \in [Reports -> Payload] /\ late' \in [Reports -> SUBSET Payload]
<1>1. \A q \in Reports : WireInv(q)
  BY DEF Inv, ReportInv
<1>2. InFlight(r) \in sent[r] /\ InFlight(r) \in Payload
  BY <1>1, Parts DEF Inv, WireInv
<1>3. CASE Apply(r, InFlight(r)) /\ UNCHANGED late
  BY <1>1, <1>2, <1>3, Applied, LostTypes DEF Inv, WireInv
<1>4. CASE late' = [late EXCEPT ![r] = @ \cup {InFlight(r)}] /\ UNCHANGED remote
  BY <1>1, <1>2, <1>4, LostTypes DEF Inv, TypeOK, WireInv
<1>5. CASE UNCHANGED <<remote, late>>
  BY <1>1, <1>5, LostTypes DEF Inv, WireInv
<1>6. QED
  BY <1>3, <1>4, <1>5 DEF Lost

LEMMA PutLostInv == ASSUME Inv, NEW r \in Reports, PutLost(r) PROVE Inv'
<1>1. UNCHANGED <<head, report, stored, now, heads, crashes, sent>> /\ push' = NoPush
      /\ r \in push.cur /\ Lost(r) /\ errors' = errors + 1
  BY DEF PutLost
<1>2. \A q \in Reports : Kept(q)
  BY <1>1 DEF Kept, NoPush, NoPicture
<1>3. TypeOK'
  BY <1>1, LostWire, NothingTypes DEF Inv, TypeOK, Push
<1>4. QED
  BY <1>1, <1>2, <1>3, LostWire, KeptInv DEF Inv

LEMMA CrashInv == ASSUME Inv, CrashRestart PROVE Inv'
<1>1. UNCHANGED <<head, report, stored, now, heads, errors, sent>> /\ push' = NoPush
      /\ crashes' = crashes + 1
  BY DEF CrashRestart
<1>2. \A q \in Reports : Kept(q)
  BY <1>1 DEF Kept, NoPush, NoPicture
<1>3. /\ \A q \in Reports : /\ remote'[q] \in sent[q] \cup {NoPayload}
                            /\ late'[q] \subseteq sent[q]
      /\ remote' \in [Reports -> Payload] /\ late' \in [Reports -> SUBSET Payload]
  <2>1. CASE push.cur = {}
    BY <2>1 DEF CrashRestart, Inv, TypeOK, ReportInv, WireInv
  <2>2. CASE push.cur # {}
    <3>1. push.cur \subseteq Reports
      BY DEF Inv, TypeOK
    <3>2. PICK r \in push.cur : Lost(r)
      BY <2>2 DEF CrashRestart
    <3>3. QED
      BY <3>1, <3>2, LostWire
  <2>3. QED
    BY <2>1, <2>2
<1>4. TypeOK'
  BY <1>1, <1>3, NothingTypes DEF Inv, TypeOK, Push
<1>5. QED
  BY <1>1, <1>2, <1>3, <1>4, KeptInv DEF Inv

LEMMA ArrivesInv == ASSUME Inv, NEW r \in Reports, LatePutArrives(r) PROVE Inv'
<1>1. PICK payload \in late[r] :
        /\ Apply(r, payload)
        /\ late' = [late EXCEPT ![r] = @ \ {payload}]
        /\ UNCHANGED <<head, report, stored, push, now, heads, errors, crashes, sent>>
  BY DEF LatePutArrives
<1>2. \A q \in Reports : WireInv(q) /\ Kept(q)
  BY <1>1 DEF Inv, ReportInv, Kept
<1>3. payload \in sent[r] /\ payload \in Payload
  BY <1>1, <1>2, Parts DEF Inv, WireInv
<1>4. /\ remote' \in [Reports -> Payload] /\ late' \in [Reports -> SUBSET Payload]
      /\ \A q \in Reports : remote'[q] \in sent[q] \cup {NoPayload} /\ late'[q] \subseteq sent[q]
  BY <1>1, <1>2, <1>3, Applied DEF Inv, TypeOK, WireInv
<1>5. TypeOK'
  BY <1>1, <1>4 DEF Inv, TypeOK
<1>6. QED
  BY <1>2, <1>4, <1>5, KeptInv DEF Inv

LEMMA RefusedInv == ASSUME Inv, NEW r \in Reports, PutRefused(r) PROVE Inv'
<1>1. /\ UNCHANGED <<head, report, remote, late, now, heads, crashes, sent>>
      /\ push' = [push EXCEPT !.cur = {}] /\ errors' = errors + 1
      /\ \/ stored' = [stored EXCEPT ![r].failed = stored[r].picture]
         \/ stored' = stored
  BY DEF PutRefused, Answered
<1>2. push \in Push /\ push' \in Push /\ push'.cur = {} /\ push'.todo = push.todo
      /\ push'.seen = push.seen /\ Cardinality(push'.cur) <= 1
  <2>1. push \in Push
    BY DEF Inv, TypeOK, Push
  <2>2. push' \in Push /\ push'.cur = {} /\ push'.todo = push.todo /\ push'.seen = push.seen
    BY <1>1, <2>1 DEF Push
  <2>3. QED
    BY <2>1, <2>2, FS_EmptySet
<1>3. stored' \in [Reports -> Stored]
      /\ \A q \in Reports : stored'[q].revision = stored[q].revision
                            /\ stored'[q].picture = stored[q].picture
  <2> DEFINE row == [stored[r] EXCEPT !.failed = stored[r].picture]
  <2>1. stored \in [Reports -> Stored] /\ stored[r] \in Stored
    BY DEF Inv, TypeOK
  <2>2. row \in Stored /\ row.revision = stored[r].revision /\ row.picture = stored[r].picture
    BY <2>1 DEF Stored
  <2>3. stored' = [stored EXCEPT ![r] = row] \/ stored' = stored
    BY <1>1
  <2> HIDE DEF row
  <2>4. QED
    BY <2>1, <2>2, <2>3
<1>4. \A q \in Reports : Kept(q) /\ WireInv(q)
  BY <1>1, <1>2, <1>3 DEF Kept, Inv, ReportInv
<1>5. TypeOK'
  <2>1. errors' \in Nat
    BY <1>1 DEF Inv, TypeOK
  <2>2. QED
    BY <1>1, <1>2, <1>3, <2>1 DEF Inv, TypeOK, Push
<1>6. QED
  BY <1>1, <1>4, <1>5, KeptInv DEF Inv, WireInv

LEMMA AnsweredInv == ASSUME Inv, NEW r \in Reports, PutAnswered(r) PROVE Inv'
<1>1. /\ UNCHANGED <<head, report, late, now, heads, errors, crashes, sent>>
      /\ push' = [push EXCEPT !.cur = {}] /\ r \in push.cur /\ Apply(r, InFlight(r))
      /\ stored' = [stored EXCEPT ![r] = AckedRow(stored[r], remote[r])]
  BY DEF PutAnswered, Answered
<1>2. push \in Push /\ push' \in Push /\ push'.cur = {} /\ push'.todo = push.todo
      /\ push'.seen = push.seen /\ Cardinality(push'.cur) <= 1
  <2>1. push \in Push
    BY DEF Inv, TypeOK, Push
  <2>2. push' \in Push /\ push'.cur = {} /\ push'.todo = push.todo /\ push'.seen = push.seen
    BY <1>1, <2>1 DEF Push
  <2>3. QED
    BY <2>1, <2>2, FS_EmptySet
<1>3. stored[r] \in Stored /\ remote[r] \in Payload /\ InFlight(r) \in Payload
  BY Parts DEF Inv
<1>4. remote[r].revision <= stored[r].revision
  <2>1. remote[r] \in sent[r] \cup {NoPayload} /\ SentInv(r)
    BY DEF Inv, ReportInv, WireInv
  <2>2. NoPayload.revision = 0 /\ stored[r].revision \in Nat
    BY <1>3 DEF NoPayload, Stored
  <2>3. QED
    BY <2>1, <2>2 DEF SentInv
<1>5. /\ AckedRow(stored[r], remote[r]) \in Stored
      /\ AckedRow(stored[r], remote[r]).picture = stored[r].picture
      /\ AckedRow(stored[r], remote[r]).revision = stored[r].revision
  BY <1>3, <1>4, AckedRowTypes DEF Stored, Payload
<1>6. stored' \in [Reports -> Stored]
      /\ \A q \in Reports : stored'[q].revision = stored[q].revision
                            /\ stored'[q].picture = stored[q].picture
  BY <1>1, <1>5 DEF Inv, TypeOK
<1>7. \A q \in Reports : Kept(q) /\ WireInv(q)
  BY <1>1, <1>2, <1>6 DEF Kept, Inv, ReportInv
<1>8. /\ remote' \in [Reports -> Payload]
      /\ \A q \in Reports : remote'[q] \in sent[q] \cup {NoPayload}
  BY <1>1, <1>3, <1>7, Applied DEF Inv, WireInv
<1>9. TypeOK'
  BY <1>1, <1>2, <1>6, <1>8 DEF Inv, TypeOK, Push
<1>10. QED
  BY <1>1, <1>7, <1>8, <1>9, KeptInv DEF Inv, WireInv

LEMMA StartInv == ASSUME Inv, StartPush PROVE Inv'
<1>1. /\ UNCHANGED <<head, report, stored, remote, late, now, heads, errors, crashes, sent>>
      /\ push.cur = {}
  BY DEF StartPush
<1>2. PICK S \in SUBSET Reports : push' = [todo |-> S, seen |-> [r \in Reports |-> View(r)], cur |-> {}]
  BY DEF StartPush
<1>3. push' \in Push /\ push'.cur = {} /\ \A r \in Reports : push'.seen[r] = View(r)
  BY <1>2, Parts DEF Inv, Push
<1>4. TypeOK'
  BY <1>1, <1>3, FS_EmptySet DEF Inv, TypeOK, Push
<1>5. ASSUME NEW r \in Reports PROVE ReportInv(r)'
  <2>1. SentInv(r)' /\ WireInv(r)'
    BY <1>1, <1>3 DEF Inv, ReportInv, SentInv, WireInv, InFlight
  <2>2. View(r).stamp = report[r].stamp /\ report[r].stamp \in Nat
    BY DEF View, Inv, TypeOK
  <2>3. StampInv(r)'
    BY <1>1, <1>3, <2>2 DEF Inv, ReportInv, StampInv
  <2>4. QED
    BY <2>1, <2>3 DEF ReportInv
<1>6. QED
  BY <1>4, <1>5 DEF Inv

\* Sending what is staged: its revision is new, or it is the same payload.
LEMMA SentAdds ==
    ASSUME TypeOK, NEW r \in Reports, SentInv(r), stored'[r] \in Stored,
           sent'[r] = sent[r] \cup {InFlight(r)'},
           stored'[r].revision >= stored[r].revision,
           stored'[r].revision = stored[r].revision => stored'[r].picture = stored[r].picture,
           stored'[r].picture.stamp >= stored[r].picture.stamp
    PROVE  SentInv(r)'
<1> DEFINE new == InFlight(r)'
<1>1. /\ stored[r].revision \in Nat /\ stored'[r].revision \in Nat
      /\ stored[r].picture.stamp \in Nat /\ stored'[r].picture.stamp \in Nat
      /\ stored'[r].picture \in Picture
  BY Parts DEF Stored, Picture
<1>2. /\ new \in Payload /\ new.revision = stored'[r].revision
      /\ new.picture = stored'[r].picture
  BY <1>1 DEF InFlight, Payload
<1>3. \A p \in sent[r] : p \in Payload /\ p.revision \in Nat /\ p.picture.stamp \in Nat
  BY Parts DEF Payload, Picture
<1> HIDE DEF new
<1>4. \A p \in sent[r] : /\ p.revision <= new.revision /\ p.picture.stamp <= new.picture.stamp
                         /\ p.revision = new.revision => p.picture = new.picture
  BY <1>1, <1>2, <1>3 DEF SentInv
<1>5. \A p \in sent[r] : p.revision = new.revision => p = new
  BY <1>2, <1>3, <1>4 DEF Payload
<1>6. \A p \in sent[r] : new.revision <= p.revision => new.picture.stamp <= p.picture.stamp
  BY <1>1, <1>2, <1>3, <1>4
<1>7. sent'[r] = sent[r] \cup {new}
  BY DEF new
<1>8. \A p \in sent'[r] : /\ p.revision <= stored'[r].revision
                          /\ p.revision = stored'[r].revision => p.picture = stored'[r].picture
                          /\ p.picture.stamp <= stored'[r].picture.stamp
  BY <1>1, <1>2, <1>4, <1>7
<1>9. \A p, q \in sent'[r] : p.revision <= q.revision => p.picture.stamp <= q.picture.stamp
  BY <1>1, <1>2, <1>4, <1>6, <1>7 DEF SentInv
<1>10. \A p, q \in sent'[r] : p.revision = q.revision => p = q
  BY <1>5, <1>7 DEF SentInv
<1>11. QED
  BY <1>8, <1>9, <1>10 DEF SentInv

LEMMA SendInv == ASSUME Inv, NEW r \in Reports, Send(r) PROVE Inv'
<1>1. /\ UNCHANGED <<head, report, remote, late, now, heads, errors, crashes>>
      /\ push.cur = {} /\ r \in push.todo /\ push' = [push EXCEPT !.todo = push.todo \ {r}, !.cur = {r}]
      /\ sent' = [sent EXCEPT ![r] = sent[r] \cup {InFlight(r)'}]
  BY DEF Send, InFlight
<1>2. push \in Push /\ push.seen[r] \in Picture /\ stored[r] \in Stored
  BY Parts DEF Inv
<1>3. push' \in Push /\ push'.cur = {r} /\ push'.todo = push.todo \ {r} /\ push'.seen = push.seen
  BY <1>1, <1>2 DEF Push
<1>4. Cardinality(push'.cur) <= 1
  <2>1. Cardinality({r}) = 1
    BY FS_Singleton
  <2>2. QED
    BY <1>3, <2>1
<1>5. /\ stored' \in [Reports -> Stored]
      /\ \A q \in Reports \ {r} : stored'[q] = stored[q]
      /\ \/ stored'[r] = stored[r]
         \/ stored'[r].revision > stored[r].revision /\ stored'[r].picture = push.seen[r]
  <2>1. CASE stored' = stored
    BY <2>1 DEF Inv, TypeOK
  <2>2. CASE \E clock \in Clocks : stored' = [stored EXCEPT ![r] =
                  StageRow(stored[r], push.seen[r], RevisionAfter(stored[r].revision, clock))]
    BY <1>2, <2>2, StageRowTypes DEF Inv, TypeOK
  <2>3. QED
    BY <2>1, <2>2 DEF Send
<1>6. SentInv(r) /\ WireInv(r) /\ StampInv(r)
  BY DEF Inv, ReportInv
<1>7. /\ stored[r].revision \in Nat /\ stored'[r].revision \in Nat /\ stored'[r] \in Stored
      /\ stored[r].picture.stamp \in Nat /\ push.seen[r].stamp \in Nat
      /\ InFlight(r)' \in Payload /\ sent \in [Reports -> SUBSET Payload]
  BY <1>2, <1>5 DEF Stored, Picture, InFlight, Payload, Inv, TypeOK
<1>8. /\ sent'[r] = sent[r] \cup {InFlight(r)'} /\ \A q \in Reports \ {r} : sent'[q] = sent[q]
      /\ sent' \in [Reports -> SUBSET Payload]
  BY <1>1, <1>7
<1>9. TypeOK'
  <2>1. push' \in [todo: SUBSET Reports, seen: [Reports -> Picture], cur: SUBSET Reports]
    BY <1>3 DEF Push
  <2>2. UNCHANGED <<head, report, remote, late, now, heads, errors, crashes>>
    BY <1>1
  <2>3. stored' \in [Reports -> Stored] /\ sent' \in [Reports -> SUBSET Payload]
    BY <1>5, <1>8
  <2>4. QED
    BY <1>4, <2>1, <2>2, <2>3 DEF Inv, TypeOK
<1>10. ReportInv(r)'
  <2>1. /\ stored'[r].picture.stamp >= stored[r].picture.stamp
        /\ stored'[r].picture.stamp <= report[r].stamp
        /\ stored'[r].revision >= stored[r].revision
        /\ stored'[r].revision = stored[r].revision => stored'[r].picture = stored[r].picture
    BY <1>1, <1>5, <1>6, <1>7 DEF StampInv
  <2>2. SentInv(r)'
    BY <1>6, <1>7, <1>8, <2>1, SentAdds DEF Inv
  <2>3. WireInv(r)'
    BY <1>1, <1>6, <1>8 DEF WireInv
  <2>4. StampInv(r)'
    BY <1>1, <1>3, <1>6, <2>1 DEF StampInv
  <2>5. QED
    BY <2>2, <2>3, <2>4 DEF ReportInv
<1>11. ASSUME NEW q \in Reports \ {r} PROVE ReportInv(q)'
  <2>1. Kept(q)
    BY <1>1, <1>3, <1>5, <1>8 DEF Kept
  <2>2. QED
    BY <1>1, <2>1, KeptInv DEF Inv, ReportInv, WireInv
<1>12. QED
  BY <1>9, <1>10, <1>11 DEF Inv

\* The report and the repository move on
LEMMA ChangesInv == ASSUME Inv, NEW r \in Reports, ReportChanges(r) PROVE Inv'
<1>1. /\ UNCHANGED <<head, stored, remote, late, push, heads, errors, crashes, sent>>
      /\ now' = now + 1 /\ now \in Nat /\ head \in Nat
  BY DEF ReportChanges, Inv, TypeOK
<1>2. PICK loc \in {report[r].loc, head} : report' = [report EXCEPT ![r] = [stamp |-> now + 1, loc |-> loc]]
  BY DEF ReportChanges
<1>3. report \in [Reports -> [stamp: Nat, loc: Nat]] /\ report' \in [Reports -> [stamp: Nat, loc: Nat]]
  BY <1>1, <1>2 DEF Inv, TypeOK
<1>4. TypeOK'
  BY <1>1, <1>3 DEF Inv, TypeOK
<1>5. ASSUME NEW q \in Reports PROVE ReportInv(q)'
  <2>1. SentInv(q)' /\ WireInv(q)'
    BY <1>1 DEF Inv, ReportInv, SentInv, WireInv, InFlight
  <2>2. /\ report[q].stamp \in Nat /\ stored[q].picture.stamp \in Nat /\ push.seen[q].stamp \in Nat
        /\ report'[q].stamp = IF q = r THEN now + 1 ELSE report[q].stamp
    BY <1>2, <1>3, Parts DEF Inv, Stored, Picture
  <2>3. StampInv(q)'
    BY <1>1, <2>2 DEF Inv, ReportInv, StampInv
  <2>4. QED
    BY <2>1, <2>3 DEF ReportInv
<1>6. QED
  BY <1>4, <1>5 DEF Inv

LEMMA HeadInv == ASSUME Inv, HeadMoves PROVE Inv'
<1>1. UNCHANGED <<report, stored, remote, late, push, now, errors, crashes, sent>>
      /\ heads \in Nat /\ heads' = heads + 1
  BY DEF HeadMoves, Inv, TypeOK
<1>2. head' \in Nat
  BY <1>1 DEF HeadMoves
<1>3. TypeOK'
  BY <1>1, <1>2 DEF Inv, TypeOK
<1>4. \A q \in Reports : ReportInv(q)'
  BY <1>1 DEF Inv, ReportInv, SentInv, WireInv, StampInv, InFlight
<1>5. QED
  BY <1>3, <1>4 DEF Inv

-----------------------------------------------------------------------------
(* Theorems. *)

LEMMA InitInv == Init => Inv
<1> SUFFICES ASSUME Init PROVE Inv
  OBVIOUS
<1>1. TypeOK
  BY NothingTypes DEF Init, TypeOK, Push
<1>2. ASSUME NEW r \in Reports PROVE ReportInv(r)
  <2>1. stored[r] = NoStored /\ remote[r] = NoPayload /\ late[r] = {} /\ sent[r] = {}
        /\ report[r].stamp = 1 /\ now = 1 /\ push = NoPush
    BY DEF Init
  <2>2. NoStored.picture.stamp = 0 /\ NoPush.seen[r].stamp = 0 /\ NoPush.cur = {} /\ NoPush.todo = {}
    BY DEF NoStored, NoPush, NoPicture
  <2>3. QED
    BY <2>1, <2>2 DEF ReportInv, SentInv, WireInv, StampInv
<1>3. QED
  BY <1>1, <1>2 DEF Inv

LEMMA NextInv == ASSUME Inv, [Next]_vars PROVE Inv'
<1>1. CASE PushStep
  BY <1>1, StartInv, SendInv, AnsweredInv DEF PushStep
<1>2. ASSUME NEW r \in Reports,
             PutRefused(r) \/ PutLost(r) \/ LatePutArrives(r) \/ ReportChanges(r)
      PROVE Inv'
  BY <1>2, RefusedInv, PutLostInv, ArrivesInv, ChangesInv
<1>3. CASE CrashRestart \/ HeadMoves
  BY <1>3, CrashInv, HeadInv
<1>4. CASE UNCHANGED vars
  BY <1>4 DEF vars, Inv, TypeOK, ReportInv, SentInv, WireInv, StampInv, InFlight
<1>5. QED
  BY <1>1, <1>2, <1>3, <1>4 DEF Next

LEMMA Invariant == Spec => []Inv
<1>1. Init => Inv
  BY InitInv
<1>2. Inv /\ [Next]_vars => Inv'
  BY NextInv
<1>3. QED
  BY <1>1, <1>2, PTL DEF Spec

\* Types, with one PUT in flight at a time.
THEOREM TypeCorrect == Spec => []TypeOK
<1>1. Inv => TypeOK
  BY DEF Inv
<1>2. QED
  BY <1>1, Invariant, PTL

\* A revision is one payload, whatever the clock does.
THEOREM RevisionIsPayload == Spec => []OneRevisionOnePayload
<1>1. Inv => OneRevisionOnePayload
  BY DEF Inv, ReportInv, SentInv, OneRevisionOnePayload
<1>2. QED
  BY <1>1, Invariant, PTL

\* Only a PUT that takes effect changes what is shown, to a later picture.
LEMMA ShownMoves ==
    ASSUME Inv, Inv', [Next]_vars, NEW r \in Reports
    PROVE  \/ remote'[r] = remote[r]
           \/ remote'[r].revision > remote[r].revision /\ sent'[r] = sent[r]
<1>1. ASSUME NEW q \in Reports, NEW payload \in Payload, Apply(q, payload)
      PROVE  remote'[r] = remote[r] \/ remote'[r].revision > remote[r].revision
  BY <1>1, Applied DEF Inv
<1>2. ASSUME NEW q \in Reports, Lost(q)
      PROVE  remote'[r] = remote[r] \/ remote'[r].revision > remote[r].revision
  BY <1>1, <1>2, Parts DEF Lost, Inv
<1>3. CASE StartPush \/ HeadMoves \/ UNCHANGED vars
           \/ \E q \in Reports : Send(q) \/ PutRefused(q) \/ ReportChanges(q)
  BY <1>3 DEF StartPush, HeadMoves, vars, Send, PutRefused, ReportChanges
<1>4. ASSUME NEW q \in Reports, PutAnswered(q) \/ PutLost(q)
      PROVE  \/ remote'[r] = remote[r]
             \/ remote'[r].revision > remote[r].revision /\ sent'[r] = sent[r]
  BY <1>1, <1>2, <1>4, Parts DEF PutAnswered, PutLost, Inv
<1>5. ASSUME NEW q \in Reports, LatePutArrives(q)
      PROVE  \/ remote'[r] = remote[r]
             \/ remote'[r].revision > remote[r].revision /\ sent'[r] = sent[r]
  <2>1. PICK payload \in late[q] : Apply(q, payload) /\ sent' = sent
    BY <1>5 DEF LatePutArrives
  <2>2. payload \in Payload
    BY <2>1, Parts DEF Inv
  <2>3. QED
    BY <1>1, <2>1, <2>2
<1>6. CASE CrashRestart
  <2>1. sent' = sent /\ push.cur \subseteq Reports
    BY <1>6 DEF CrashRestart, Inv, TypeOK
  <2>2. remote' = remote \/ \E q \in push.cur : Lost(q)
    BY <1>6 DEF CrashRestart
  <2>3. QED
    BY <1>2, <2>1, <2>2
<1>7. QED
  BY <1>3, <1>4, <1>5, <1>6 DEF Next, PushStep

\* What sonicgrid shows of a report never goes back, also when a lost PUT
\* arrives after a later one.
THEOREM NeverGoesBack == Spec => ShownNeverGoesBack
<1>1. ASSUME Inv, Inv', [Next]_vars, NEW r \in Reports
      PROVE  remote'[r].picture.stamp >= remote[r].picture.stamp
  <2>1. /\ remote[r] \in sent[r] \cup {NoPayload} /\ remote'[r] \in sent'[r] \cup {NoPayload}
        /\ SentInv(r)
    BY <1>1 DEF Inv, ReportInv, WireInv
  <2>2. remote[r] \in Payload /\ remote'[r] \in Payload
    BY <1>1 DEF Inv, TypeOK
  <2>3. /\ remote[r].revision \in Nat /\ remote'[r].revision \in Nat
        /\ remote[r].picture.stamp \in Nat /\ remote'[r].picture.stamp \in Nat
    BY <2>2 DEF Payload, Picture
  <2>4. NoPayload.revision = 0 /\ NoPayload.picture.stamp = 0
    BY DEF NoPayload, NoPicture
  <2>5. CASE remote'[r] = remote[r]
    BY <2>3, <2>5
  <2>6. CASE remote'[r].revision > remote[r].revision /\ sent'[r] = sent[r]
    <3>1. remote'[r] \in sent[r]
      BY <2>1, <2>3, <2>4, <2>6
    <3>2. CASE remote[r] = NoPayload
      BY <2>3, <2>4, <3>2
    <3>3. CASE remote[r] \in sent[r]
      BY <2>1, <2>3, <2>6, <3>1, <3>3 DEF SentInv
    <3>4. QED
      BY <2>1, <3>2, <3>3
  <2>7. QED
    BY <1>1, <2>5, <2>6, ShownMoves
<1>2. Inv /\ Inv' /\ [Next]_vars =>
        [\A r \in Reports : remote'[r].picture.stamp >= remote[r].picture.stamp]_vars
  BY <1>1
<1>3. QED
  BY <1>2, Invariant, PTL DEF Spec, ShownNeverGoesBack

-----------------------------------------------------------------------------
(* Acknowledgements, while the head does not return to an earlier commit. *)

\* The order in which a report shows its pictures: by stamp, and for one stamp
\* first localized at the head, then stale.
Rank(picture) == 2 * picture.stamp + (IF picture.localized THEN 0 ELSE 1)

\* The picture acknowledged, the one staged, the one a push has seen and the
\* present one follow each other in that order; an acknowledged picture is what
\* sonicgrid shows, and what is about to be sent is not acknowledged.
AckInv(r) ==
    /\ stored[r].acked = stored[r].picture => remote[r] = InFlight(r)
    /\ stored[r].revision = 0 => stored[r].acked = stored[r].picture
    /\ r \in push.cur => r \notin push.todo /\ stored[r].acked # stored[r].picture
    /\ r \in push.todo /\ stored[r].picture = push.seen[r] => stored[r].acked # stored[r].picture
    /\ Rank(stored[r].acked) <= Rank(stored[r].picture)
    /\ Rank(stored[r].picture) <= Rank(View(r))
    /\ Rank(push.seen[r]) <= Rank(View(r))
    /\ r \in push.todo => Rank(stored[r].picture) <= Rank(push.seen[r])

\* The head is the newest commit, and no localization is at a later one.
HeadNewest == head = heads + 1 /\ \A r \in Reports : report[r].loc <= head /\ report[r].stamp >= 1

Acks == Inv /\ HeadNewest /\ \A r \in Reports : AckInv(r)

LEMMA RankType ==
    ASSUME NEW p \in Picture
    PROVE  Rank(p) \in Nat
  BY DEF Rank, Picture

\* The rank tells pictures apart.
LEMMA RankInjective ==
    ASSUME NEW p \in Picture, NEW q \in Picture, Rank(p) = Rank(q)
    PROVE  p = q
<1>1. p.stamp \in Nat /\ q.stamp \in Nat /\ p.localized \in BOOLEAN /\ q.localized \in BOOLEAN
  BY DEF Picture
<1>2. p.stamp = q.stamp /\ (p.localized <=> q.localized)
  BY <1>1 DEF Rank
<1>3. p.localized = q.localized
  BY <1>1, <1>2
<1>4. QED
  BY <1>2, <1>3 DEF Picture

\* Any picture of the report comes after having none.
LEMMA NothingFirst ==
    ASSUME NEW p \in Picture, p.stamp >= 1
    PROVE  Rank(NoPicture) <= Rank(p)
<1>1. NoPicture.stamp = 0 /\ ~NoPicture.localized /\ p.stamp \in Nat
  BY DEF NoPicture, Picture
<1>2. QED
  BY <1>1 DEF Rank

LEMMA PictureParts ==
    ASSUME TypeOK, NEW r \in Reports
    PROVE  /\ {stored[r].acked, stored[r].picture, View(r), push.seen[r]} \subseteq Picture
           /\ Rank(stored[r].acked) \in Nat /\ Rank(stored[r].picture) \in Nat
           /\ Rank(View(r)) \in Nat /\ Rank(push.seen[r]) \in Nat
<1>1. stored[r] \in Stored /\ View(r) \in Picture /\ push.seen[r] \in Picture
  BY Parts
<1>2. stored[r].acked \in Picture /\ stored[r].picture \in Picture
  BY <1>1 DEF Stored
<1>3. QED
  BY <1>1, <1>2, RankType

\* A report whose staged row stays, whose wire moves only while it is not
\* acknowledged, and which no push newly takes up.
LEMMA AckKept ==
    ASSUME Inv, Inv', HeadNewest', NEW r \in Reports, AckInv(r),
           stored'[r].acked = stored[r].acked, stored'[r].picture = stored[r].picture,
           stored'[r].revision = stored[r].revision,
           remote'[r] = remote[r] \/ stored[r].acked # stored[r].picture,
           r \in push'.cur => r \in push.cur,
           r \in push'.todo => r \in push.todo /\ push'.seen[r] = push.seen[r],
           push'.seen[r] \in {push.seen[r], NoPicture},
           Rank(View(r)) <= Rank(View(r)')
    PROVE  AckInv(r)'
<1>1. stored'[r].acked = stored'[r].picture => remote'[r] = InFlight(r)'
  BY DEF AckInv, InFlight
<1>2. View(r)' \in Picture /\ (View(r)').stamp >= 1
  <2>1. report'[r].stamp \in Nat /\ report'[r].stamp >= 1
    BY DEF Inv, TypeOK, HeadNewest
  <2>2. QED
    BY <2>1 DEF View, Picture
<1>3. /\ Rank(View(r)) \in Nat /\ Rank(stored[r].picture) \in Nat /\ Rank(push.seen[r]) \in Nat
      /\ Rank(View(r)') \in Nat /\ Rank(NoPicture) \in Nat
  BY <1>2, PictureParts, RankType, NothingTypes DEF Inv
<1>4. Rank(stored'[r].picture) <= Rank(View(r)')
  BY <1>3 DEF AckInv
<1>5. Rank(push'.seen[r]) <= Rank(View(r)')
  <2>1. Rank(NoPicture) <= Rank(View(r)')
    BY <1>2, NothingFirst
  <2>2. QED
    BY <1>3, <2>1 DEF AckInv
<1>6. QED
  BY <1>1, <1>4, <1>5 DEF AckInv

LEMMA AckStart == ASSUME Acks, Inv', StartPush PROVE Acks'
<1>1. UNCHANGED <<head, report, stored, remote, heads>>
  BY DEF StartPush
<1>2. PICK S \in SUBSET Pending :
        push' = [todo |-> S, seen |-> [r \in Reports |-> View(r)], cur |-> {}]
  BY DEF StartPush, OldestFirst
<1>3. push'.todo = S /\ push'.cur = {} /\ \A r \in Reports : push'.seen[r] = View(r)
  BY <1>2
<1>4. ASSUME NEW r \in Reports PROVE AckInv(r)'
  <2>1. AckInv(r) /\ View(r)' = View(r) /\ InFlight(r)' = InFlight(r)
    BY <1>1 DEF Acks, View, InFlight
  <2>2. r \in S /\ stored[r].picture = View(r) => stored[r].acked # stored[r].picture
    BY DEF Pending, ToldOf
  <2>3. Rank(View(r)) \in Nat
    BY PictureParts DEF Acks, Inv
  <2>4. QED
    BY <1>1, <1>3, <2>1, <2>2, <2>3 DEF AckInv
<1>5. QED
  BY <1>1, <1>4 DEF Acks, HeadNewest

\* A picture that is staged anew has not been acknowledged: it comes after the
\* one that was.
LEMMA AckSend == ASSUME Acks, Inv', NEW r \in Reports, Send(r) PROVE Acks'
<1>1. /\ UNCHANGED <<head, report, remote, heads>> /\ push.cur = {} /\ r \in push.todo
      /\ push' = [push EXCEPT !.todo = push.todo \ {r}, !.cur = {r}]
  BY DEF Send
<1>2. push \in Push /\ stored \in [Reports -> Stored] /\ stored[r] \in Stored
  BY DEF Acks, Inv, TypeOK, Push
<1>3. push'.cur = {r} /\ push'.todo = push.todo \ {r} /\ push'.seen = push.seen
  BY <1>1, <1>2 DEF Push
<1>4. /\ \A q \in Reports \ {r} : stored'[q] = stored[q]
      /\ \/ stored'[r] = stored[r] /\ stored[r].picture = push.seen[r]
         \/ /\ stored[r].picture # push.seen[r]
            /\ stored'[r].picture = push.seen[r] /\ stored'[r].acked = stored[r].acked
            /\ stored'[r].revision # 0
  <2>1. CASE stored[r].picture = push.seen[r]
    BY <2>1 DEF Send
  <2>2. CASE stored[r].picture # push.seen[r]
    <3>1. PICK clock \in Clocks : stored' = [stored EXCEPT ![r] =
              StageRow(stored[r], push.seen[r], RevisionAfter(stored[r].revision, clock))]
      BY <2>2 DEF Send
    <3>2. PICK revision \in Nat \ {0} :
              stored' = [stored EXCEPT ![r] = StageRow(stored[r], push.seen[r], revision)]
      <4>1. stored[r].revision \in Nat /\ push.seen[r] \in Picture
        BY <1>2, Parts DEF Stored, Acks, Inv
      <4>2. RevisionAfter(stored[r].revision, clock) \in Nat \ {0}
        BY <1>2, <4>1, StageRowTypes
      <4>3. QED
        BY <3>1, <4>2
    <3>3. /\ StageRow(stored[r], push.seen[r], revision).picture = push.seen[r]
          /\ StageRow(stored[r], push.seen[r], revision).acked = stored[r].acked
          /\ StageRow(stored[r], push.seen[r], revision).revision = revision
      BY <1>2 DEF StageRow, Stored
    <3>4. QED
      BY <1>2, <2>2, <3>2, <3>3
  <2>3. QED
    BY <2>1, <2>2
<1>5. AckInv(r)'
  <2>1. AckInv(r) /\ View(r)' = View(r)
    BY <1>1 DEF Acks, View
  <2>2. /\ {stored[r].acked, stored[r].picture, push.seen[r]} \subseteq Picture
        /\ Rank(stored[r].acked) \in Nat /\ Rank(stored[r].picture) \in Nat
        /\ Rank(View(r)) \in Nat /\ Rank(push.seen[r]) \in Nat
    BY PictureParts DEF Acks, Inv
  <2>3. /\ stored'[r].acked # stored'[r].picture /\ stored'[r].picture = push.seen[r]
        /\ stored'[r].acked = stored[r].acked /\ stored'[r].revision # 0
    <3>1. CASE stored'[r] = stored[r] /\ stored[r].picture = push.seen[r]
      BY <1>1, <2>1, <3>1 DEF AckInv
    <3>2. CASE /\ stored[r].picture # push.seen[r]
               /\ stored'[r].picture = push.seen[r] /\ stored'[r].acked = stored[r].acked
               /\ stored'[r].revision # 0
      <4>1. Rank(stored[r].picture) # Rank(push.seen[r])
        BY <2>2, <3>2, RankInjective
      <4>2. Rank(stored[r].acked) # Rank(push.seen[r])
        BY <1>1, <2>1, <2>2, <4>1 DEF AckInv
      <4>3. QED
        BY <3>2, <4>2
    <3>3. QED
      BY <1>4, <3>1, <3>2
  <2>4. Rank(stored[r].acked) <= Rank(push.seen[r])
    BY <1>1, <2>1, <2>2 DEF AckInv
  <2>5. QED
    BY <1>1, <1>3, <2>1, <2>2, <2>3, <2>4 DEF AckInv
<1>6. HeadNewest'
  BY <1>1 DEF Acks, HeadNewest
<1>7. ASSUME NEW q \in Reports \ {r} PROVE AckInv(q)'
  <2>1. View(q)' = View(q) /\ Rank(View(q)) \in Nat
    BY <1>1, PictureParts DEF View, Acks, Inv
  <2>2. QED
    BY <1>1, <1>3, <1>4, <1>6, <2>1, AckKept DEF Acks
<1>8. QED
  BY <1>5, <1>6, <1>7 DEF Acks

\* A PUT that is answered leaves sonicgrid at the staged revision, hence at the
\* staged picture.
LEMMA AckAnswered == ASSUME Acks, Inv', NEW r \in Reports, PutAnswered(r) PROVE Acks'
<1>1. /\ UNCHANGED <<head, report, heads, sent>> /\ r \in push.cur
      /\ push' = [push EXCEPT !.cur = {}] /\ Apply(r, InFlight(r))
      /\ stored' = [stored EXCEPT ![r] = AckedRow(stored[r], remote[r])]
  BY DEF PutAnswered, Answered
<1>2. /\ push \in Push /\ stored \in [Reports -> Stored] /\ stored[r] \in Stored
      /\ remote[r] \in Payload /\ InFlight(r) \in Payload
      /\ stored[r].revision \in Nat /\ remote[r].revision \in Nat
  BY Parts DEF Acks, Inv, TypeOK, Push, Stored, Payload
<1>3. push'.cur = {} /\ push'.todo = push.todo /\ push'.seen = push.seen
  BY <1>1, <1>2 DEF Push
<1>4. /\ SentInv(r) /\ remote[r] \in sent[r] \cup {NoPayload} /\ InFlight(r) \in sent[r]
  BY <1>1 DEF Acks, Inv, ReportInv, WireInv
<1>5. remote[r].revision <= stored[r].revision
  <2>1. NoPayload.revision = 0
    BY DEF NoPayload
  <2>2. QED
    BY <1>2, <1>4, <2>1 DEF SentInv
<1>6. /\ stored'[r].acked = stored[r].picture /\ stored'[r].picture = stored[r].picture
      /\ stored'[r].revision = stored[r].revision
      /\ \A q \in Reports \ {r} : stored'[q] = stored[q]
  <2> DEFINE row == AckedRow(stored[r], remote[r])
  <2>1. row.acked = stored[r].picture
    BY <1>2 DEF AckedRow, Stored
  <2>2. row.picture = stored[r].picture /\ row.revision = stored[r].revision
    BY <1>2, <1>5, AckedRowTypes
  <2> HIDE DEF row
  <2>3. stored'[r] = row /\ \A q \in Reports \ {r} : stored'[q] = stored[q]
    BY <1>1, <1>2 DEF row
  <2>4. QED
    BY <2>1, <2>2, <2>3
<1>7. InFlight(r)' = InFlight(r) /\ InFlight(r).revision = stored[r].revision
  BY <1>6 DEF InFlight
<1>8. remote'[r] = InFlight(r) /\ \A q \in Reports \ {r} : remote'[q] = remote[q]
  <2>1. /\ remote'[r] = IF InFlight(r).revision > remote[r].revision THEN InFlight(r) ELSE remote[r]
        /\ \A q \in Reports \ {r} : remote'[q] = remote[q]
    BY <1>1, <1>2, Applied DEF Acks, Inv
  <2>2. CASE InFlight(r).revision > remote[r].revision
    BY <2>1, <2>2
  <2>3. CASE ~ (InFlight(r).revision > remote[r].revision)
    <3>1. remote[r].revision = InFlight(r).revision
      BY <1>2, <1>5, <1>7, <2>3
    <3>2. remote[r] = InFlight(r)
      <4>1. CASE remote[r] \in sent[r]
        BY <1>4, <3>1, <4>1 DEF SentInv
      <4>2. CASE remote[r] = NoPayload
        <5>1. stored[r].revision # 0
          BY <1>1 DEF Acks, AckInv
        <5>2. NoPayload.revision = 0
          BY DEF NoPayload
        <5>3. QED
          BY <1>7, <3>1, <4>2, <5>1, <5>2
      <4>3. QED
        BY <1>4, <4>1, <4>2
    <3>3. QED
      BY <2>1, <2>3, <3>2
  <2>4. QED
    BY <2>1, <2>2, <2>3
<1>9. HeadNewest'
  BY <1>1 DEF Acks, HeadNewest
<1>10. AckInv(r)'
  <2>1. AckInv(r) /\ View(r)' = View(r)
    BY <1>1 DEF Acks, View
  <2>2. Rank(stored[r].picture) \in Nat
    BY PictureParts DEF Acks, Inv
  <2>3. QED
    BY <1>1, <1>3, <1>6, <1>7, <1>8, <2>1, <2>2 DEF AckInv
<1>11. ASSUME NEW q \in Reports \ {r} PROVE AckInv(q)'
  <2>1. View(q)' = View(q) /\ Rank(View(q)) \in Nat
    BY <1>1, PictureParts DEF View, Acks, Inv
  <2>2. QED
    BY <1>1, <1>3, <1>6, <1>8, <1>9, <2>1, AckKept DEF Acks
<1>12. QED
  BY <1>9, <1>10, <1>11 DEF Acks

LEMMA AckRefused == ASSUME Acks, Inv', NEW r \in Reports, PutRefused(r) PROVE Acks'
<1>1. /\ UNCHANGED <<head, report, remote, heads>> /\ push' = [push EXCEPT !.cur = {}]
      /\ \/ stored' = [stored EXCEPT ![r].failed = stored[r].picture]
         \/ stored' = stored
  BY DEF PutRefused, Answered
<1>2. push \in Push /\ stored \in [Reports -> Stored]
  BY DEF Acks, Inv, TypeOK, Push
<1>3. push'.cur = {} /\ push'.todo = push.todo /\ push'.seen = push.seen
  BY <1>1, <1>2 DEF Push
<1>4. HeadNewest'
  BY <1>1 DEF Acks, HeadNewest
<1>5. ASSUME NEW q \in Reports PROVE AckInv(q)'
  <2>1. View(q)' = View(q) /\ Rank(View(q)) \in Nat
    BY <1>1, PictureParts DEF View, Acks, Inv
  <2>2. /\ stored'[q].acked = stored[q].acked /\ stored'[q].picture = stored[q].picture
        /\ stored'[q].revision = stored[q].revision
    BY <1>1, <1>2 DEF Stored
  <2>3. QED
    BY <1>1, <1>3, <1>4, <2>1, <2>2, AckKept DEF Acks
<1>6. QED
  BY <1>4, <1>5 DEF Acks

\* A PUT whose answer is lost is one that is not acknowledged.
LEMMA AckLost ==
    ASSUME Acks, Inv', UNCHANGED <<head, report, stored, heads>>, push' = NoPush,
           remote' = remote \/ \E r \in push.cur : Lost(r)
    PROVE  Acks'
<1>1. push'.cur = {} /\ push'.todo = {} /\ \A q \in Reports : push'.seen[q] = NoPicture
  BY DEF NoPush
<1>2. HeadNewest'
  BY DEF Acks, HeadNewest
<1>3. ASSUME NEW q \in Reports PROVE AckInv(q)'
  <2>1. View(q)' = View(q) /\ Rank(View(q)) \in Nat
    BY PictureParts DEF View, Acks, Inv
  <2>2. remote'[q] = remote[q] \/ stored[q].acked # stored[q].picture
    <3>1. CASE remote' = remote
      BY <3>1
    <3>2. ASSUME NEW r \in push.cur, Lost(r)
          PROVE  remote'[q] = remote[q] \/ stored[q].acked # stored[q].picture
      <4>1. r \in Reports /\ stored[r].acked # stored[r].picture
        BY <3>2 DEF Acks, Inv, TypeOK, AckInv
      <4>2. q # r => remote'[q] = remote[q]
        <5>1. CASE Apply(r, InFlight(r))
          BY <4>1, <5>1, Applied, Parts DEF Acks, Inv
        <5>2. CASE remote' = remote
          BY <5>2
        <5>3. QED
          BY <3>2, <5>1, <5>2 DEF Lost
      <4>3. QED
        BY <4>1, <4>2
    <3>3. QED
      BY <3>1, <3>2
  <2>3. QED
    BY <1>1, <1>2, <2>1, <2>2, AckKept DEF Acks
<1>4. QED
  BY <1>2, <1>3 DEF Acks

\* A PUT that arrives late is older than an acknowledged one.
LEMMA AckArrives == ASSUME Acks, Inv', NEW r \in Reports, LatePutArrives(r) PROVE Acks'
<1>1. UNCHANGED <<head, report, stored, push, heads>>
  BY DEF LatePutArrives
<1>2. PICK payload \in late[r] : Apply(r, payload)
  BY DEF LatePutArrives
<1>3. /\ payload \in sent[r] /\ payload \in Payload /\ SentInv(r)
      /\ stored[r].revision \in Nat
  BY Parts DEF Acks, Inv, ReportInv, WireInv, Stored
<1>4. payload.revision <= stored[r].revision /\ payload.revision \in Nat
  BY <1>3 DEF SentInv, Payload
<1>5. /\ remote'[r] = IF payload.revision > remote[r].revision THEN payload ELSE remote[r]
      /\ \A q \in Reports \ {r} : remote'[q] = remote[q]
  BY <1>2, <1>3, Applied DEF Acks, Inv
<1>6. remote'[r] = remote[r] \/ stored[r].acked # stored[r].picture
  <2>1. ASSUME stored[r].acked = stored[r].picture
        PROVE  remote[r].revision = stored[r].revision
    <3>1. remote[r] = InFlight(r)
      BY <2>1 DEF Acks, AckInv
    <3>2. InFlight(r).revision = stored[r].revision
      BY DEF InFlight
    <3>3. QED
      BY <3>1, <3>2
  <2>2. QED
    BY <1>3, <1>4, <1>5, <2>1
<1>7. HeadNewest'
  BY <1>1 DEF Acks, HeadNewest
<1>8. ASSUME NEW q \in Reports PROVE AckInv(q)'
  <2>1. View(q)' = View(q) /\ Rank(View(q)) \in Nat
    BY <1>1, PictureParts DEF View, Acks, Inv
  <2>2. QED
    BY <1>1, <1>5, <1>6, <1>7, <2>1, AckKept DEF Acks
<1>9. QED
  BY <1>7, <1>8 DEF Acks

\* A new row gives a report a later picture, and so does a new head: what was
\* localized at the old head becomes stale, and nothing is localized at the new.
LEMMA AckMoves ==
    ASSUME HeadReturns = FALSE, Acks, Inv', HeadMoves \/ \E r \in Reports : ReportChanges(r)
    PROVE  Acks'
<1>1. UNCHANGED <<stored, remote, push>>
  BY DEF HeadMoves, ReportChanges
<1>2. /\ report \in [Reports -> [stamp: Nat, loc: Nat]] /\ head \in Nat /\ now \in Nat
      /\ heads \in Nat /\ head = heads + 1
      /\ \A q \in Reports : report[q].loc <= head /\ report[q].stamp >= 1 /\ report[q].stamp <= now
  BY DEF Acks, Inv, TypeOK, HeadNewest, ReportInv, StampInv
<1>3. HeadNewest' /\ \A q \in Reports : Rank(View(q)) <= Rank(View(q)')
  <2>1. CASE HeadMoves
    <3>1. head' = heads + 2 /\ heads' = heads + 1 /\ report' = report
      BY <2>1 DEF HeadMoves
    <3>2. HeadNewest'
      BY <1>2, <3>1 DEF HeadNewest
    <3>3. ASSUME NEW q \in Reports PROVE Rank(View(q)) <= Rank(View(q)')
      <4>1. report[q].stamp \in Nat /\ report[q].loc # head'
        BY <1>2, <3>1
      <4>2. Rank(View(q)') = 2 * report[q].stamp + 1
        BY <3>1, <4>1 DEF Rank, View
      <4>3. Rank(View(q)) \in {2 * report[q].stamp, 2 * report[q].stamp + 1}
        BY <4>1 DEF Rank, View
      <4>4. QED
        BY <4>1, <4>2, <4>3
    <3>4. QED
      BY <3>2, <3>3
  <2>2. ASSUME NEW r \in Reports, ReportChanges(r)
        PROVE  HeadNewest' /\ \A q \in Reports : Rank(View(q)) <= Rank(View(q)')
    <3>1. PICK loc \in {report[r].loc, head} :
            report' = [report EXCEPT ![r] = [stamp |-> now + 1, loc |-> loc]]
      BY <2>2 DEF ReportChanges
    <3>2. head' = head /\ heads' = heads
      BY <2>2 DEF ReportChanges
    <3>3. /\ report'[r].stamp = now + 1 /\ report'[r].loc = loc
          /\ \A q \in Reports \ {r} : report'[q] = report[q]
      BY <1>2, <3>1
    <3>4. HeadNewest'
      BY <1>2, <3>2, <3>3 DEF HeadNewest
    <3>5. ASSUME NEW q \in Reports PROVE Rank(View(q)) <= Rank(View(q)')
      <4>1. CASE q # r
        <5>1. View(q)' = View(q) /\ Rank(View(q)) \in Nat
          BY <3>2, <3>3, <4>1, PictureParts DEF View, Acks, Inv
        <5>2. QED
          BY <5>1
      <4>2. CASE q = r
        <5>1. Rank(View(q)) \in {2 * report[q].stamp, 2 * report[q].stamp + 1}
          BY <1>2 DEF Rank, View
        <5>2. Rank(View(q)') \in {2 * (now + 1), 2 * (now + 1) + 1}
          BY <1>2, <3>3, <4>2 DEF Rank, View
        <5>3. report[q].stamp \in Nat /\ report[q].stamp <= now
          BY <1>2
        <5>4. QED
          BY <1>2, <5>1, <5>2, <5>3
      <4>3. QED
        BY <4>1, <4>2
    <3>6. QED
      BY <3>4, <3>5
  <2>3. QED
    BY <2>1, <2>2
<1>4. \A q \in Reports : AckInv(q)'
  BY <1>1, <1>3, AckKept DEF Acks
<1>5. QED
  BY <1>3, <1>4 DEF Acks

LEMMA AckInit == Init => Acks
<1> SUFFICES ASSUME Init PROVE Acks
  OBVIOUS
<1>1. HeadNewest
  BY DEF Init, HeadNewest
<1>2. ASSUME NEW r \in Reports PROVE AckInv(r)
  <2>1. stored[r] = NoStored /\ remote[r] = NoPayload /\ push = NoPush /\ report[r].stamp = 1
    BY DEF Init
  <2>2. /\ NoStored.picture = NoPicture /\ NoStored.acked = NoPicture /\ NoStored.revision = 0
        /\ NoPush.seen[r] = NoPicture /\ NoPush.cur = {} /\ NoPush.todo = {}
    BY DEF NoStored, NoPush
  <2>3. NoPayload = InFlight(r)
    BY <2>1, <2>2 DEF NoPayload, InFlight
  <2>4. Rank(NoPicture) <= Rank(View(r)) /\ Rank(NoPicture) \in Nat
    <3>1. View(r) \in Picture /\ View(r).stamp >= 1
      BY InitInv, Parts, <2>1 DEF Inv, View
    <3>2. QED
      BY <3>1, NothingFirst, NothingTypes, RankType
  <2>5. QED
    BY <2>1, <2>2, <2>3, <2>4 DEF AckInv
<1>3. QED
  BY <1>1, <1>2, InitInv DEF Acks

LEMMA AckNext == ASSUME HeadReturns = FALSE, Acks, [Next]_vars PROVE Acks'
<1>1. Inv'
  BY NextInv DEF Acks
<1>2. CASE PushStep
  BY <1>1, <1>2, AckStart, AckSend, AckAnswered DEF PushStep
<1>3. ASSUME NEW r \in Reports, PutRefused(r) \/ PutLost(r) \/ LatePutArrives(r)
      PROVE  Acks'
  BY <1>1, <1>3, AckRefused, AckLost, AckArrives DEF PutLost
<1>4. CASE CrashRestart
  BY <1>1, <1>4, AckLost DEF CrashRestart
<1>5. CASE HeadMoves \/ \E r \in Reports : ReportChanges(r)
  BY <1>1, <1>5, AckMoves
<1>6. CASE UNCHANGED vars
  BY <1>1, <1>6 DEF vars, Acks, HeadNewest, AckInv, InFlight, View
<1>7. QED
  BY <1>2, <1>3, <1>4, <1>5, <1>6 DEF Next

\* If the project's head never returns to an earlier commit, a picture that counts
\* as acknowledged is the one sonicgrid shows, whatever was lost, late or refused
\* and wherever the process died: nothing staged is taken for told.
THEOREM AcknowledgedIsShown ==
    ASSUME HeadReturns = FALSE
    PROVE  Spec => []AckedIsShown
<1>1. Acks /\ [Next]_vars => Acks'
  BY AckNext
<1>2. Acks => AckedIsShown
  <2>1. \A r \in Reports : InFlight(r).picture = stored[r].picture
    BY DEF InFlight
  <2>2. QED
    BY <2>1 DEF Acks, AckInv, AckedIsShown
<1>3. QED
  BY AckInit, <1>1, <1>2, PTL DEF Spec

=============================================================================
