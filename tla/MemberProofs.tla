------------------------------- MODULE MemberProofs -------------------------------
(***************************************************************************)
(* Theorems about Community for every set of workloads, continued: the     *)
(* families, whose rows and documents part while calls are under way, and  *)
(* the accounts.                                                           *)
(***************************************************************************)
EXTENDS CommunityProofs

------------------------------------------------------------------------------
\* Families: where the rows and the document of a family part while a call is under way.

\* The family a request is about.
Target(r) == IF call(r).op = "found" THEN r ELSE call(r).family

FamilyPaid(f) == call(f).free \/ familyKey(f) \in ledger

\* Who founds a family has paid.
FeeInv ==
    /\ stops \in Nat
    /\ \A f \in DOMAIN families \ {0} :
          /\ f \in Requests /\ call(f).op = "found" /\ FamilyPaid(f)
          /\ pc[f] \notin {"idle", "foundDebit", "foundInsert"}
    /\ \A r \in Requests :
          /\ pc[r] \in {"foundDebit", "foundInsert"} => call(r).op = "found"
          /\ pc[r] = "foundInsert" => FamilyPaid(r)

DocFields == {"status", "mode", "leader", "co", "count", "solo", "version"}

RowFields == {"id", "family", "role", "status"}

\* Requests here have read the document as it is, and these also the row of their user.
HaveDoc ==
    {"joinInsert", "familyCountUp", "approveFind", "approveSave", "rejectDelete", "leaveFind",
     "kickFind", "familyDelete", "familyCountDown", "rankFind", "rankSave", "rankDocument",
     "transferFind", "transferDocument", "settingsSave", "disbandRows", "statusSave",
     "sweepRows", "sweepSave"}

HaveRow == {"approveSave", "familyDelete", "rankSave", "transferDocument", "transferNew"}

\* Half way: one of the two is written, or the rows are gone.
Half(r) ==
    \/ pc[r] \in {"foundLeader", "familyCountUp", "familyCountDown", "rankDocument",
                  "transferNew", "transferOld", "sweepSave"}
    \/ pc[r] = "statusSave" /\ call(r).status = "disbanded"

Kept(f) == families[f].status # "disbanded" /\ Spared(f)

\* The rows of f say that l leads it, with the co-leaders co, and that it has n members.
Fits(f, l, co, n) ==
    /\ {u \in membersOf(f) : roster[u].role = "leader"} = {l}
    /\ co = coLeadersOf(f)
    /\ n = Cardinality(membersOf(f))

SoloOk(d) == d.solo # 0 => d.count = 1

\* What a request under way knows.
Knows(r) ==
    LET f == call(r).family
        u == call(r).user
        k == job[r]
        p == pc[r]
    IN  /\ p \in HaveDoc => f \in DOMAIN families /\ "doc" \in DOMAIN k /\ k.doc = families[f]
        /\ p \in HaveRow => /\ "row" \in DOMAIN k /\ u \in DOMAIN roster /\ k.row = roster[u]
                            /\ k.row.family = f
                            /\ k.row.status = IF p = "approveSave" THEN "pending" ELSE "active"
        /\ p \in {"foundDebit", "foundInsert", "foundLeader", "joinInsert"} =>
              u \notin DOMAIN roster
        /\ p \in {"foundDebit", "foundInsert"} => r \notin DOMAIN families
        /\ p = "foundLeader" =>
              /\ r \in DOMAIN families /\ families[r] = Document(u, {}, 1, call(r).mode)
              /\ \A v \in DOMAIN roster : roster[v].family # r
        /\ p \in {"leaveFind", "kickFind", "familyDelete", "familyCountDown", "transferFind",
                  "transferDocument", "transferNew", "transferOld"} =>
              "doc" \in DOMAIN k /\ k.doc.leader # u
        /\ p = "disbandRows" => call(r).status = "disbanded"
        /\ p \in {"foundDebit", "foundInsert", "foundLeader"} => call(r).op = "found"
        /\ p \in HaveDoc \cup {"transferNew", "transferOld"} => call(r).op # "found"
        /\ p \in {"rankFind", "rankSave", "rankDocument"} => call(r).op \in {"promote", "demote"}
        /\ p \in {"disbandRows", "statusSave"} => call(r).op = "familyStatus"
        /\ p \in {"transferNew", "transferOld"} => f \in DOMAIN families
        /\ p = "transferFind" => "oldRow" \notin DOMAIN k
        /\ p = "transferOld" => "oldRow" \in DOMAIN k
        /\ p \in {"transferDocument", "transferNew", "transferOld"} /\ "oldRow" \in DOMAIN k =>
              /\ k.doc.leader \in DOMAIN roster /\ k.oldRow = roster[k.doc.leader]
              /\ k.oldRow.family = f

\* The document that r read says what the rows will say, but for what r still has to write.
CountedUp(r) ==
    Fits(call(r).family, doc(r).leader, doc(r).co, doc(r).count + 1)

CountedDown(r) ==
    /\ "row" \in DOMAIN job[r]
    /\ Fits(call(r).family, doc(r).leader,
            IF job[r].row.role = "co" THEN doc(r).co \ {call(r).user} ELSE doc(r).co,
            doc(r).count - 1)

Ranked(r) ==
    /\ Fits(call(r).family, doc(r).leader,
            IF call(r).op = "promote" THEN doc(r).co \cup {call(r).user}
            ELSE doc(r).co \ {call(r).user},
            doc(r).count)
    /\ SoloOk(doc(r))

\* The document has a new leader.
HandedOver(r) ==
    LET d == families[call(r).family] IN
    /\ d.leader = call(r).user /\ d.co = doc(r).co \ {call(r).user}
    /\ d.count = doc(r).count /\ SoloOk(d)
    /\ "oldRow" \in DOMAIN job[r]

\* Both have the role.
BothLead(r) ==
    LET f == call(r).family IN
    /\ {u \in membersOf(f) : roster[u].role = "leader"} = {doc(r).leader, call(r).user}
    /\ doc(r).co \ {call(r).user} = coLeadersOf(f)
    /\ doc(r).count = Cardinality(membersOf(f))

Halfway(r) ==
    LET f == call(r).family IN
    /\ pc[r] = "transferDocument" /\ Kept(f) => "oldRow" \in DOMAIN job[r]
    /\ pc[r] = "familyCountUp" /\ Kept(f) => CountedUp(r)
    /\ pc[r] = "familyCountDown" /\ Kept(f) => CountedDown(r)
    /\ pc[r] = "rankDocument" /\ Kept(f) => Ranked(r)
    /\ pc[r] = "transferNew" /\ Kept(f) => Matches(f, doc(r)) /\ HandedOver(r)
    /\ pc[r] = "transferOld" /\ Kept(f) => BothLead(r) /\ HandedOver(r)

\* The rows and the documents.
RosterOk ==
    /\ IsFiniteSet(DOMAIN roster)
    /\ \A u \in DOMAIN roster :
          /\ DOMAIN roster[u] = RowFields /\ roster[u].family \in DOMAIN families
          /\ roster[u].status = "pending" => roster[u].role = "member"

LeadOne ==
    \A f, g \in DOMAIN families :
        /\ families[f].status # "disbanded" /\ families[g].status # "disbanded"
        /\ families[f].leader = families[g].leader
        => f = g

DocsOk == LeadOne /\ \A f \in DOMAIN families : DOMAIN families[f] = DocFields

SoloInv ==
    /\ RosterOk /\ DocsOk
    /\ \A r \in Requests : Knows(r) /\ Halfway(r)
    /\ \A f \in DOMAIN families :
          Kept(f) /\ (\A r \in Requests : Half(r) => Target(r) # f) => Matches(f, families[f])

FamilyInv == FeeInv /\ (load.patient /\ stops = 0 => SoloInv)

\* A request keeps the document that it read.
DocStays(r) ==
    "doc" \in DOMAIN job[r] => "doc" \in DOMAIN job'[r] /\ job'[r].doc = job[r].doc

\* The rows of f stay as they are.
SameRows(f) ==
    \A u : /\ u \in DOMAIN roster' /\ roster'[u].family = f
              <=> u \in DOMAIN roster /\ roster[u].family = f
           /\ u \in DOMAIN roster /\ roster[u].family = f => roster'[u] = roster[u]

\* The save of the document of a family that nobody has saved since it was read.
DocFails(r, f, new) ==
    /\ families' = families /\ Passes(r, "failed")
    /\ new.status # "disbanded" /\ LeadsAnother(new.leader, f)

DocSaves(r, f, new, to) ==
    /\ Passes(r, to) /\ DOMAIN families' = DOMAIN families
    /\ \A g \in DOMAIN families : g # f => families'[g] = families[g]
    /\ DOMAIN families'[f] = DocFields
    /\ families'[f].status = new.status /\ families'[f].mode = new.mode
    /\ families'[f].leader = new.leader /\ families'[f].co = new.co
    /\ families'[f].count = new.count /\ families'[f].solo = new.solo
    /\ new.status = "disbanded" \/ ~LeadsAnother(new.leader, f)

\* The row of u in f is the only one that is new or changed.
OnlyRow(u, f) ==
    /\ DOMAIN roster' = DOMAIN roster \cup {u}
    /\ u \in DOMAIN roster => roster[u].family = f
    /\ DOMAIN roster'[u] = RowFields /\ roster'[u].family = f
    /\ roster'[u].status = "pending" => roster'[u].role = "member"
    /\ \A v \in DOMAIN roster : v # u => roster'[v] = roster[v]

\* The rows that go are of f.
OnlyRowsGo(f) ==
    /\ DOMAIN roster' \subseteq DOMAIN roster
    /\ \A v \in DOMAIN roster' : roster'[v] = roster[v]
    /\ \A v \in DOMAIN roster \ DOMAIN roster' : roster[v].family = f

\* Among patient users nobody else is at a place of a family's call.
LEMMA FamilyAlone ==
    ASSUME Patience, load.patient, NEW r \in Requests, Serves(r, "families"),
           NEW q \in Requests, q # r
    PROVE  pc[q] \notin Places["families"] /\ pc'[q] \notin Places["families"]
    <1>1. ~UnderWay(q) /\ pc'[q] = pc[q]
        BY TakesAlone DEF Serves
    <1>2. pc[q] \in {"idle", "done", "failed", "stopped"}
        BY <1>1 DEF UnderWay, Over
    <1> QED  BY <1>1, <1>2, EndsApart DEF Services

LEMMA RestKnows ==
    ASSUME NEW q
    PROVE  /\ pc[q] \notin Places["families"] => ~Half(q) /\ Knows(q) /\ Halfway(q)
           /\ pc'[q] \notin Places["families"] => ~Half(q)' /\ Knows(q)' /\ Halfway(q)'
    <1>1. pc[q] \notin Places["families"] => ~Half(q) /\ Knows(q) /\ Halfway(q)
        BY DEF Half, Knows, Halfway, HaveDoc, HaveRow, Places
    <1>2. pc'[q] \notin Places["families"] => ~Half(q)' /\ Knows(q)' /\ Halfway(q)'
        BY DEF Half, Knows, Halfway, HaveDoc, HaveRow, Places
    <1> QED  BY <1>1, <1>2

LEMMA StepKeepsDoc ==
    ASSUME Routes, NEW r \in Requests, FamiliesStep(r)
    PROVE  DocStays(r)
    <1>1. CASE \E op : Begins(r, op)
        BY <1>1 DEF Begins, DocStays, Routes
    <1>2. CASE job' = job
        BY <1>2 DEF DocStays
    <1>3. ASSUME NEW g, Learns(r, g), "doc" \notin DOMAIN g  PROVE DocStays(r)
        BY <1>3, LearnedOne DEF DocStays
    <1>4. CASE FoundFind(r) \/ JoinFamily(r) \/ Approve(r) \/ Reject(r) \/ Leave(r) \/ Kick(r)
               \/ Rank(r) \/ Transfer(r) \/ Settings(r) \/ SetStatus(r) \/ Sweep(r)
        BY <1>1, <1>4
        DEF FoundFind, JoinFamily, Approve, Reject, Leave, Kick, Rank, Transfer, Settings,
            SetStatus, Sweep, ReadsFamily
    <1>5. CASE FoundDebit(r) \/ FoundInsert(r) \/ FoundLeader(r) \/ JoinInsert(r) \/ CountUp(r)
               \/ ApproveSave(r) \/ RejectDelete(r) \/ DeleteRow(r) \/ CountDown(r)
        BY <1>2, <1>5
        DEF FoundDebit, FoundInsert, FoundLeader, JoinInsert, CountUp, ApproveSave, RejectDelete,
            DeleteRow, CountDown, InsertRow, SaveFamily, SavesRow, Passes
    <1>6. CASE RankSave(r) \/ RankDocument(r) \/ TransferDocument(r) \/ TransferNew(r)
               \/ TransferOld(r) \/ SettingsSave(r) \/ DisbandRows(r) \/ StatusSave(r)
               \/ SweepRows(r) \/ SweepSave(r)
        BY <1>2, <1>6
        DEF RankSave, RankDocument, TransferDocument, TransferNew, TransferOld, SettingsSave,
            DisbandRows, StatusSave, SweepRows, SweepSave, SaveFamily, SavesRow, Passes
    <1>7. CASE ApproveFind(r) \/ LeaveFind(r) \/ KickFind(r) \/ RankFind(r)
        <2>1. job' = job \/ Learns(r, [row |-> roster[call(r).user]])
            BY <1>7 DEF ApproveFind, LeaveFind, KickFind, RankFind, FindsRow, Passes
        <2> QED  BY <1>2, <1>3, <2>1
    <1>8. CASE TransferFind(r)
        <2>1. \/ job' = job
              \/ Learns(r, [row |-> roster[call(r).user], oldRow |-> roster[doc(r).leader]])
              \/ Learns(r, [row |-> roster[call(r).user]])
            BY <1>8 DEF TransferFind, Passes
        <2> QED  BY <1>2, <1>3, <2>1
    <1> QED  BY <1>4, <1>5, <1>6, <1>7, <1>8 DEF FamiliesStep

\* Who has parted the roles of a family has done so for good.
LEMMA SparedStays ==
    ASSUME load' = load, NEW f, \A q \in Requests : DocStays(q), Spared(f)'
    PROVE  Spared(f)
    <1>1. Requests' = Requests /\ \A q : call(q)' = call(q)
        BY DEF Requests, call
    <1>2. ASSUME NEW q \in Requests, RanksLeader(q) \/ Revives(q)
          PROVE  RanksLeader(q)' \/ Revives(q)'
        BY <1>1, <1>2 DEF RanksLeader, Revives, DocStays, doc
    <1> QED  BY <1>1, <1>2 DEF Spared

LEMMA SameMembers ==
    ASSUME NEW f, SameRows(f)
    PROVE  /\ membersOf(f)' = membersOf(f) /\ coLeadersOf(f)' = coLeadersOf(f)
           /\ {u \in membersOf(f) : roster[u].role = "leader"}'
              = {u \in membersOf(f) : roster[u].role = "leader"}
    <1>1. membersOf(f)' = membersOf(f)
        BY DEF SameRows, membersOf
    <1>2. \A u \in membersOf(f) : roster'[u] = roster[u]
        BY DEF SameRows, membersOf
    <1> QED  BY <1>1, <1>2 DEF coLeadersOf

LEMMA SameMatches ==
    ASSUME NEW f, SameRows(f), NEW d
    PROVE  Matches(f, d)' <=> Matches(f, d)
    BY SameMembers DEF Matches

LEMMA RowsStay == roster' = roster => \A f : SameRows(f)
    BY DEF SameRows

\* A step for one family.
LEMMA FamilyKeeps ==
    ASSUME Routes, Patience, load.patient, SoloInv, NEW r \in Requests, Serves(r, "families"),
           FamiliesStep(r), NEW f, f = Target(r), RosterOk', DocsOk',
           \A g \in DOMAIN families' : g # f =>
               g \in DOMAIN families /\ families'[g] = families[g] /\ SameRows(g),
           Knows(r)', Halfway(r)',
           f \in DOMAIN families' /\ Kept(f)' /\ ~Half(r)' => Matches(f, families[f])'
    PROVE  SoloInv'
    <1>1. /\ load' = load /\ Requests' = Requests /\ \A q : call(q)' = call(q)
          /\ \A q \in Requests : q # r => pc'[q] = pc[q] /\ job'[q] = job[q]
        BY DEF Serves, Requests, call
    <1>2. \A q \in Requests : DocStays(q)
        BY <1>1, StepKeepsDoc DEF DocStays
    <1>3. \A q \in Requests : q # r => ~Half(q) /\ ~Half(q)' /\ Knows(q)' /\ Halfway(q)'
        BY FamilyAlone, RestKnows
    <1>4. \A q : Target(q)' = Target(q)
        BY <1>1 DEF Target
    <1>5. ASSUME NEW g \in DOMAIN families', Kept(g)', \A q \in Requests : Half(q)' => Target(q)' # g
          PROVE  Matches(g, families[g])'
        <2>1. CASE g = f
            BY <1>4, <1>5, <2>1
        <2>2. CASE g # f
            <3>1. g \in DOMAIN families /\ families'[g] = families[g] /\ SameRows(g)
                BY <2>2
            <3>2. Kept(g)
                BY <1>1, <1>2, <1>5, <3>1, SparedStays DEF Kept
            <3>3. \A q \in Requests : Half(q) => Target(q) # g
                BY <1>3, <2>2
            <3>4. Matches(g, families[g])
                BY <3>1, <3>2, <3>3 DEF SoloInv
            <3>5. ASSUME NEW d, d = families[g]  PROVE Matches(g, d)'
                BY <3>1, <3>4, <3>5, SameMatches
            <3> QED  BY <3>1, <3>5 DEF Matches
        <2> QED  BY <2>1, <2>2
    <1> QED  BY <1>1, <1>3, <1>5 DEF SoloInv

\* A step that only reads.
LEMMA FamilyLooks ==
    ASSUME Routes, Patience, load.patient, SoloInv, NEW r \in Requests, Serves(r, "families"),
           FamiliesStep(r), ~Half(r), families' = families, roster' = roster,
           Knows(r)', Halfway(r)'
    PROVE  SoloInv'
    <1> SUFFICES ASSUME NEW f, f = Target(r)  PROVE SoloInv'
        OBVIOUS
    <1>1. /\ load' = load /\ Requests' = Requests /\ \A q : call(q)' = call(q)
          /\ \A q \in Requests : q # r => job'[q] = job[q]
        BY DEF Serves, Requests, call
    <1>2. \A q \in Requests : DocStays(q)
        BY <1>1, StepKeepsDoc DEF DocStays
    <1>3. RosterOk' /\ DocsOk'
        BY DEF SoloInv, RosterOk, DocsOk, LeadOne
    <1>5. \A q \in Requests : ~Half(q)
        BY FamilyAlone, RestKnows
    <1>6. ASSUME f \in DOMAIN families', Kept(f)'  PROVE Matches(f, families[f])'
        <2>1. Kept(f)
            BY <1>1, <1>2, <1>6, SparedStays DEF Kept
        <2>2. Matches(f, families[f])
            BY <1>5, <1>6, <2>1 DEF SoloInv
        <2>3. ASSUME NEW d, d = families[f]  PROVE Matches(f, d)'
            BY <2>2, <2>3, RowsStay, SameMatches
        <2> QED  BY <2>3 DEF Matches
    <1> QED  BY <1>3, <1>6, RowsStay, FamilyKeeps

\* A call begins with a read of its family.
LEMMA ReadKeeps ==
    ASSUME Routes, Patience, load.patient, SoloInv, NEW r \in Requests, Serves(r, "families"),
           FamiliesStep(r), pc[r] = "idle", families' = families, roster' = roster,
           call(r).family \in DOMAIN families, call(r).op # "found",
           NEW to \in {"joinInsert", "approveFind", "rejectDelete", "leaveFind", "kickFind",
                       "rankFind", "transferFind", "settingsSave", "sweepRows", "disbandRows",
                       "statusSave"},
           \/ pc'[r] = "failed"
           \/ /\ pc'[r] = to /\ Learns(r, [doc |-> families[call(r).family]])
              /\ to = "joinInsert" => call(r).user \notin DOMAIN roster
              /\ to \in {"leaveFind", "kickFind", "transferFind"} =>
                    families[call(r).family].leader # call(r).user
              /\ to = "disbandRows" => call(r).status = "disbanded"
              /\ to = "rankFind" => call(r).op \in {"promote", "demote"}
              /\ to \in {"disbandRows", "statusSave"} => call(r).op = "familyStatus"
    PROVE  SoloInv'
    <1>1. call(r)' = call(r)
        BY DEF Serves, call
    <1>2. ~Half(r)
        BY DEF Half
    <1>3. CASE pc'[r] = "failed"
        <2>1. Knows(r)' /\ Halfway(r)'
            BY <1>3, RestKnows, EndsApart DEF Services
        <2> QED  BY <1>2, <2>1, FamilyLooks
    <1>4. CASE pc'[r] = to /\ Learns(r, [doc |-> families[call(r).family]])
        <2> DEFINE g == [doc |-> families[call(r).family]]
        <2>1. DOMAIN g = {"doc"} /\ g["doc"] = families[call(r).family] /\ Learns(r, g)
            BY <1>4
        <2> HIDE DEF g
        <2>2. DOMAIN job'[r] = {"doc"} /\ job'[r].doc = families[call(r).family]
            BY <2>1, LearnedOne DEF Routes
        <2>3. Knows(r)'
            BY <1>1, <1>4, <2>2 DEF Knows, HaveDoc, HaveRow
        <2>4. Halfway(r)'
            BY <1>4 DEF Halfway
        <2> QED  BY <1>2, <2>3, <2>4, FamilyLooks
    <1> QED  BY <1>3, <1>4

LEMMA ReadsKeepFamily ==
    ASSUME Routes, Patience, load.patient, SoloInv, NEW r \in Requests, Serves(r, "families"),
           FamiliesStep(r),
           \/ JoinFamily(r) \/ Approve(r) \/ Reject(r) \/ Leave(r) \/ Kick(r) \/ Rank(r)
           \/ Transfer(r) \/ Settings(r) \/ SetStatus(r) \/ Sweep(r)
    PROVE  SoloInv'
    <1> USE DEF ReadsFamily, Begins, Goes, familyVars, Routes
    <1>1. CASE JoinFamily(r)
        BY <1>1, ReadKeeps DEF JoinFamily
    <1>2. CASE Approve(r)
        BY <1>2, ReadKeeps DEF Approve
    <1>3. CASE Reject(r)
        BY <1>3, ReadKeeps DEF Reject
    <1>4. CASE Leave(r)
        BY <1>4, ReadKeeps DEF Leave
    <1>5. CASE Kick(r)
        BY <1>5, ReadKeeps DEF Kick
    <1>6. CASE Rank(r)
        BY <1>6, ReadKeeps DEF Rank
    <1>7. CASE Transfer(r)
        BY <1>7, ReadKeeps DEF Transfer
    <1>8. CASE Settings(r)
        BY <1>8, ReadKeeps DEF Settings
    <1>9. CASE SetStatus(r)
        BY <1>9, ReadKeeps DEF SetStatus
    <1>10. CASE Sweep(r)
        BY <1>10, ReadKeeps DEF Sweep
    <1> QED  BY <1>1, <1>2, <1>3, <1>4, <1>5, <1>6, <1>7, <1>8, <1>9, <1>10

\* Then it finds the row of its user.
LEMMA RowKeeps ==
    ASSUME Routes, Patience, load.patient, SoloInv, NEW r \in Requests, Serves(r, "families"),
           FamiliesStep(r), families' = families, roster' = roster,
           pc[r] \in {"approveFind", "leaveFind", "kickFind", "rankFind", "transferFind"},
           NEW to \in {"approveSave", "familyDelete", "rankSave", "transferDocument"},
           \/ pc'[r] = "failed"
           \/ /\ pc'[r] = to /\ "row" \in DOMAIN job'[r] /\ job'[r].row = roster[call(r).user]
              /\ HasRow(call(r).user, call(r).family,
                        IF to = "approveSave" THEN "pending" ELSE "active")
              /\ to \in {"familyDelete", "transferDocument"} =>
                    pc[r] \in {"leaveFind", "kickFind", "transferFind"}
              /\ to = "rankSave" => pc[r] = "rankFind"
              /\ to = "transferDocument" => Halfway(r)'
              /\ to = "transferDocument" /\ "oldRow" \in DOMAIN job'[r] =>
                    /\ job[r].doc.leader \in DOMAIN roster
                    /\ roster[job[r].doc.leader].family = call(r).family
                    /\ job'[r].oldRow = roster[job[r].doc.leader]
    PROVE  SoloInv'
    <1>1. call(r)' = call(r)
        BY DEF Serves, call
    <1>2. ~Half(r)
        BY DEF Half
    <1>3. CASE pc'[r] = "failed"
        <2>1. Knows(r)' /\ Halfway(r)'
            BY <1>3, RestKnows, EndsApart DEF Services
        <2> QED  BY <1>2, <2>1, FamilyLooks
    <1>4. CASE pc'[r] # "failed"
        <2>1. Knows(r) /\ DocStays(r)
            BY StepKeepsDoc DEF SoloInv
        <2>2. /\ call(r).family \in DOMAIN families /\ "doc" \in DOMAIN job'[r]
              /\ job'[r].doc = families[call(r).family] /\ job'[r].doc = job[r].doc
            BY <2>1 DEF Knows, HaveDoc, DocStays
        <2>3. Knows(r)'
            BY <1>1, <1>4, <2>1, <2>2 DEF Knows, HaveDoc, HaveRow, HasRow
        <2>4. Halfway(r)'
            BY <1>4 DEF Halfway
        <2> QED  BY <1>2, <2>3, <2>4, FamilyLooks
    <1> QED  BY <1>3, <1>4

\* The row that a call finds.
LEMMA FoundRow ==
    ASSUME Routes, NEW r \in Requests, NEW st, NEW to,
           \/ /\ HasRow(call(r).user, call(r).family, st)
              /\ Learns(r, [row |-> roster[call(r).user]]) /\ Goes(r, to)
           \/ Passes(r, "failed")
    PROVE  \/ pc'[r] = "failed"
           \/ /\ pc'[r] = to /\ "row" \in DOMAIN job'[r] /\ job'[r].row = roster[call(r).user]
              /\ HasRow(call(r).user, call(r).family, st)
    <1>1. CASE Passes(r, "failed")
        BY <1>1 DEF Passes, Goes, Routes
    <1>2. CASE /\ HasRow(call(r).user, call(r).family, st)
               /\ Learns(r, [row |-> roster[call(r).user]]) /\ Goes(r, to)
        <2> DEFINE g == [row |-> roster[call(r).user]]
        <2>1. DOMAIN g = {"row"} /\ g["row"] = roster[call(r).user] /\ Learns(r, g)
            BY <1>2
        <2> HIDE DEF g
        <2>2. "row" \in DOMAIN job'[r] /\ job'[r].row = roster[call(r).user]
            BY <2>1, LearnedOne
        <2> QED  BY <1>2, <2>2 DEF Goes, Routes
    <1> QED  BY <1>1, <1>2

LEMMA RowsKeepFamily ==
    ASSUME Routes, Patience, load.patient, SoloInv, NEW r \in Requests, Serves(r, "families"),
           FamiliesStep(r),
           ApproveFind(r) \/ LeaveFind(r) \/ KickFind(r) \/ RankFind(r)
    PROVE  SoloInv'
    <1> USE DEF FindsRow, familyVars
    <1>1. CASE ApproveFind(r)
        <2>1. \/ pc'[r] = "failed"
              \/ /\ pc'[r] = "approveSave" /\ "row" \in DOMAIN job'[r]
                 /\ job'[r].row = roster[call(r).user]
                 /\ HasRow(call(r).user, call(r).family, "pending")
            BY <1>1, FoundRow DEF ApproveFind
        <2> QED  BY <1>1, <2>1, RowKeeps DEF ApproveFind
    <1>2. CASE LeaveFind(r) \/ KickFind(r)
        <2>1. \/ pc'[r] = "failed"
              \/ /\ pc'[r] = "familyDelete" /\ "row" \in DOMAIN job'[r]
                 /\ job'[r].row = roster[call(r).user]
                 /\ HasRow(call(r).user, call(r).family, "active")
            BY <1>2, FoundRow DEF LeaveFind, KickFind
        <2> QED  BY <1>2, <2>1, RowKeeps DEF LeaveFind, KickFind
    <1>3. CASE RankFind(r)
        <2>1. \/ pc'[r] = "failed"
              \/ /\ pc'[r] = "rankSave" /\ "row" \in DOMAIN job'[r]
                 /\ job'[r].row = roster[call(r).user]
                 /\ HasRow(call(r).user, call(r).family, "active")
            BY <1>3, FoundRow DEF RankFind
        <2> QED  BY <1>3, <2>1, RowKeeps DEF RankFind
    <1> QED  BY <1>1, <1>2, <1>3

\* No call is half way with a family that the step does not begin with.
LEMMA CalmMatches ==
    ASSUME Routes, Patience, load.patient, SoloInv, NEW r \in Requests, Serves(r, "families"),
           FamiliesStep(r), NEW f, Spared(f)'
    PROVE  /\ Spared(f)
           /\ f \in DOMAIN families /\ families[f].status # "disbanded" /\ ~Half(r) =>
                 Matches(f, families[f])
    <1>1. load' = load /\ \A q \in Requests : q # r => job'[q] = job[q]
        BY DEF Serves
    <1>2. \A q \in Requests : DocStays(q)
        BY <1>1, StepKeepsDoc DEF DocStays
    <1>3. Spared(f)
        BY <1>1, <1>2, SparedStays
    <1>4. ~Half(r) => \A q \in Requests : ~Half(q)
        BY FamilyAlone, RestKnows
    <1> QED  BY <1>3, <1>4 DEF SoloInv, Kept

LEMMA MembersFinite ==
    ASSUME RosterOk, NEW f
    PROVE  IsFiniteSet(membersOf(f)) /\ Cardinality(membersOf(f)) \in Nat
    <1>1. membersOf(f) \subseteq DOMAIN roster
        BY DEF membersOf
    <1> QED  BY <1>1, FS_Subset, FS_CardinalityType DEF RosterOk

\* A member comes, goes, or gets another rank.
LEMMA MemberComes ==
    ASSUME RosterOk, NEW f, NEW d, Matches(f, d), NEW u, u \notin membersOf(f),
           membersOf(f)' = membersOf(f) \cup {u}, roster'[u].role = "member",
           \A v \in membersOf(f) : roster'[v] = roster[v]
    PROVE  Fits(f, d.leader, d.co, d.count + 1)'
    <1>1. Cardinality(membersOf(f) \cup {u}) = Cardinality(membersOf(f)) + 1
        BY MembersFinite, FS_AddElement
    <1>2. {v \in membersOf(f) : roster[v].role = "leader"}'
          = {v \in membersOf(f) : roster[v].role = "leader"}
        OBVIOUS
    <1>3. coLeadersOf(f)' = coLeadersOf(f)
        BY DEF coLeadersOf
    <1> QED  BY <1>1, <1>2, <1>3 DEF Fits, Matches

LEMMA MemberGoes ==
    ASSUME RosterOk, NEW f, NEW d, Matches(f, d), NEW u \in membersOf(f), u # d.leader,
           NEW row, row = roster[u], membersOf(f)' = membersOf(f) \ {u},
           \A v \in membersOf(f) : v # u => roster'[v] = roster[v]
    PROVE  Fits(f, d.leader, IF row.role = "co" THEN d.co \ {u} ELSE d.co, d.count - 1)'
    <1>1. Cardinality(membersOf(f) \ {u}) = Cardinality(membersOf(f)) - 1
        BY MembersFinite, FS_RemoveElement
    <1>2. {v \in membersOf(f) : roster[v].role = "leader"}' = {d.leader}
        <2>1. {v \in membersOf(f) : roster[v].role = "leader"} = {d.leader}
            BY DEF Matches
        <2>2. {v \in membersOf(f) : roster[v].role = "leader"}'
              = {v \in membersOf(f) : roster[v].role = "leader"} \ {u}
            OBVIOUS
        <2> QED  BY <2>1, <2>2
    <1>3. coLeadersOf(f)' = coLeadersOf(f) \ {u}
        BY DEF coLeadersOf
    <1>4. coLeadersOf(f) = d.co
        BY DEF Matches
    <1>5. row.role # "co" => u \notin coLeadersOf(f)
        BY DEF coLeadersOf
    <1> USE DEF Fits
    <1>6. CASE row.role = "co"
        BY <1>1, <1>2, <1>3, <1>4, <1>6 DEF Matches
    <1>7. CASE row.role # "co"
        BY <1>1, <1>2, <1>3, <1>4, <1>5, <1>7 DEF Matches
    <1> QED  BY <1>6, <1>7

LEMMA MemberRises ==
    ASSUME NEW f, NEW d, Matches(f, d), NEW u \in membersOf(f), u # d.leader,
           membersOf(f)' = membersOf(f), NEW role \in {"co", "member"}, roster'[u].role = role,
           \A v \in membersOf(f) : v # u => roster'[v] = roster[v]
    PROVE  Fits(f, d.leader, IF role = "co" THEN d.co \cup {u} ELSE d.co \ {u}, d.count)'
    <1>1. {v \in membersOf(f) : roster[v].role = "leader"}
          = {d.leader} /\ coLeadersOf(f) = d.co /\ d.count = Cardinality(membersOf(f))
        BY DEF Matches
    <1>2. {v \in membersOf(f) : roster[v].role = "leader"}' = {d.leader}
        <2>1. roster[u].role # "leader"
            BY <1>1
        <2>2. {v \in membersOf(f) : roster[v].role = "leader"}'
              = {v \in membersOf(f) : roster[v].role = "leader"}
            BY <2>1
        <2> QED  BY <1>1, <2>2
    <1>3. CASE role = "co"
        <2>1. coLeadersOf(f)' = coLeadersOf(f) \cup {u}
            BY <1>3 DEF coLeadersOf
        <2> QED  BY <1>1, <1>2, <1>3, <2>1 DEF Fits
    <1>4. CASE role = "member"
        <2>1. coLeadersOf(f)' = coLeadersOf(f) \ {u}
            BY <1>4 DEF coLeadersOf
        <2> QED  BY <1>1, <1>2, <1>4, <2>1 DEF Fits
    <1> QED  BY <1>3, <1>4

\* One row comes, or changes in one field.
LEMMA RowComes ==
    ASSUME NEW r, call(r).user \notin DOMAIN roster, NEW row, NEW to, InsertRow(r, row, to)
    PROVE  /\ DOMAIN roster' = DOMAIN roster \cup {call(r).user} /\ roster'[call(r).user] = row
           /\ \A v \in DOMAIN roster : roster'[v] = roster[v]
           /\ Passes(r, to)
    BY DEF InsertRow, Put

LEMMA RowSaved ==
    ASSUME RosterOk, NEW r, NEW u \in DOMAIN roster, NEW row, roster[u] = row,
           NEW field \in {"role", "status"}, NEW value, NEW to,
           SavesRow(r, u, row, field, value, to)
    PROVE  /\ DOMAIN roster' = DOMAIN roster /\ DOMAIN roster'[u] = RowFields
           /\ \A x \in RowFields : roster'[u][x] = IF x = field THEN value ELSE roster[u][x]
           /\ \A v \in DOMAIN roster : v # u => roster'[v] = roster[v]
           /\ Passes(r, to)
    <1>1. DOMAIN roster[u] = RowFields
        BY DEF RosterOk
    <1>2. CASE row[field] = value
        BY <1>1, <1>2 DEF SavesRow
    <1>3. CASE row[field] # value
        <2>1. SameRow(u, row)
            BY DEF SameRow
        <2>2. roster' = [roster EXCEPT ![u][field] = value] /\ Passes(r, to)
            BY <1>3, <2>1 DEF SavesRow
        <2> QED  BY <1>1, <2>2 DEF RowFields
    <1> QED  BY <1>2, <1>3

LEMMA DocSaved ==
    ASSUME DocsOk, NEW r, NEW f, f = call(r).family, f \in DOMAIN families,
           doc(r) = families[f],
           NEW new, DOMAIN new = DocFields, NEW to, SaveFamily(r, new, to)
    PROVE  DocFails(r, f, new) \/ DocSaves(r, f, new, to)
    <1> USE DEF DocFails, DocSaves
    <1> DEFINE same == new.co = doc(r).co
               pushed == doc(r).co \subseteq new.co /\ ~same
               kept == Saves(families[f], doc(r), new)
               saved == IF same THEN kept
                        ELSE [kept EXCEPT !.version = @ + 1,
                                   !.co = IF pushed THEN families[f].co \cup new.co ELSE @]
    <1>1. DOMAIN families[f] = DocFields
        BY DEF DocsOk
    <1>2. DOMAIN kept = DocFields /\ \A x \in DocFields : kept[x] = new[x]
        BY <1>1 DEF Saves
    <1>3. pushed => families[f].co \cup new.co = new.co
        OBVIOUS
    <1> HIDE DEF kept
    <1>4. /\ DOMAIN saved = DocFields
          /\ saved.status = new.status /\ saved.mode = new.mode /\ saved.leader = new.leader
          /\ saved.co = new.co /\ saved.count = new.count /\ saved.solo = new.solo
        <2>1. CASE same
            BY <1>2, <2>1 DEF DocFields
        <2>2. CASE ~same
            BY <1>2, <1>3, <2>2 DEF DocFields
        <2> QED  BY <2>1, <2>2
    <1>5. IF saved.status # "disbanded" /\ LeadsAnother(saved.leader, f)
          THEN UNCHANGED families /\ Passes(r, "failed")
          ELSE families' = [families EXCEPT ![f] = saved] /\ Passes(r, to)
        BY DEF SaveFamily, kept
    <1> HIDE DEF saved
    <1> QED  BY <1>4, <1>5

\* A step that changes rows of one family, and no document.
LEMMA FamilyRows ==
    ASSUME Routes, Patience, load.patient, SoloInv, NEW r \in Requests, Serves(r, "families"),
           FamiliesStep(r), families' = families, NEW f, f = Target(r), RosterOk',
           \A g : g # f => SameRows(g), Knows(r)', Halfway(r)',
           f \in DOMAIN families /\ Kept(f)' /\ ~Half(r)' => Matches(f, families[f])'
    PROVE  SoloInv'
    <1>1. DocsOk'
        BY DEF SoloInv, DocsOk, LeadOne
    <1> QED  BY <1>1, FamilyKeeps

LEMMA OnlyRowOk ==
    ASSUME RosterOk, NEW u, NEW f, OnlyRow(u, f), f \in DOMAIN families',
           DOMAIN families \subseteq DOMAIN families'
    PROVE  /\ RosterOk' /\ \A g : g # f => SameRows(g)
           /\ membersOf(f)' = IF roster'[u].status = "active" THEN membersOf(f) \cup {u}
                              ELSE membersOf(f) \ {u}
           /\ \A v \in membersOf(f) : v # u => roster'[v] = roster[v]
    <1>1. IsFiniteSet(DOMAIN roster')
        BY FS_AddElement DEF OnlyRow, RosterOk
    <1>2. RosterOk'
        BY <1>1 DEF OnlyRow, RosterOk
    <1>3. \A g : g # f => SameRows(g)
        BY DEF OnlyRow, SameRows
    <1>4. /\ membersOf(f)' = IF roster'[u].status = "active" THEN membersOf(f) \cup {u}
                              ELSE membersOf(f) \ {u}
          /\ \A v \in membersOf(f) : v # u => roster'[v] = roster[v]
        BY DEF OnlyRow, membersOf
    <1> QED  BY <1>2, <1>3, <1>4

\* Whoever has joined or was approved is not counted yet.
LEMMA JoinedKeeps ==
    ASSUME Routes, Patience, load.patient, SoloInv, NEW r \in Requests, Serves(r, "families"),
           FamiliesStep(r), families' = families, job' = job, pc[r] \in {"joinInsert", "approveSave"},
           OnlyRow(call(r).user, call(r).family), call(r).user \notin membersOf(call(r).family),
           roster'[call(r).user].role = "member",
           IF roster'[call(r).user].status = "active" THEN pc'[r] = "familyCountUp"
           ELSE pc'[r] = "done"
    PROVE  SoloInv'
    <1> SUFFICES ASSUME NEW f, f = call(r).family, NEW u, u = call(r).user,
                        NEW d, d = doc(r)
                 PROVE  SoloInv'
        OBVIOUS
    <1>1. /\ Knows(r) /\ RosterOk /\ call(r)' = call(r) /\ ~Half(r)
          /\ doc(r)' = d
        BY DEF SoloInv, Serves, call, Half, doc
    <1>2. /\ f \in DOMAIN families /\ d = families[f] /\ "doc" \in DOMAIN job[r]
          /\ f = Target(r) /\ call(r).op # "found"
        BY <1>1 DEF Knows, HaveDoc, doc, Target
    <1>3. /\ RosterOk' /\ \A g : g # f => SameRows(g)
          /\ membersOf(f)' = IF roster'[u].status = "active" THEN membersOf(f) \cup {u}
                              ELSE membersOf(f)
          /\ \A v \in membersOf(f) : roster'[v] = roster[v]
        BY <1>1, <1>2, OnlyRowOk
    <1>4. Kept(f)' => Matches(f, d)
        BY <1>1, <1>2, CalmMatches DEF Kept
    <1>5. CASE roster'[u].status = "active"
        <2>1. Knows(r)'
            BY <1>1, <1>2, <1>5 DEF Knows, HaveDoc, HaveRow, doc
        <2>2. Kept(f)' => Fits(f, d.leader, d.co, d.count + 1)'
            BY <1>1, <1>3, <1>4, <1>5, MemberComes
        <2>3. Kept(f)' => CountedUp(r)'
            BY <1>1, <2>2 DEF CountedUp, Fits
        <2>4. Halfway(r)' /\ Half(r)'
            BY <1>1, <1>5, <2>3 DEF Halfway, Half
        <2> QED  BY <1>2, <1>3, <2>1, <2>4, FamilyRows
    <1>6. CASE roster'[u].status # "active"
        <2>1. Knows(r)' /\ Halfway(r)'
            BY <1>6, RestKnows, EndsApart DEF Services
        <2>2. Kept(f)' => Matches(f, families[f])'
            <3>1. /\ {v \in membersOf(f) : roster[v].role = "leader"}'
                     = {v \in membersOf(f) : roster[v].role = "leader"}
                  /\ coLeadersOf(f)' = coLeadersOf(f)
                BY <1>3, <1>6 DEF coLeadersOf
            <3> QED  BY <1>2, <1>3, <1>4, <1>6, <3>1 DEF Matches
        <2> QED  BY <1>2, <1>3, <2>1, <2>2, FamilyRows
    <1> QED  BY <1>5, <1>6

LEMMA JoinsKeepFamily ==
    ASSUME Routes, Patience, load.patient, SoloInv, NEW r \in Requests, Serves(r, "families"),
           FamiliesStep(r), JoinInsert(r) \/ ApproveSave(r)
    PROVE  SoloInv'
    <1> SUFFICES ASSUME NEW f, f = call(r).family, NEW u, u = call(r).user  PROVE SoloInv'
        OBVIOUS
    <1>1. Knows(r) /\ RosterOk
        BY DEF SoloInv
    <1>2. CASE JoinInsert(r)
        <2> DEFINE open == doc(r).mode = "open"
                   row == RosterRow(r, f, "member", IF open THEN "active" ELSE "pending")
                   to == IF open THEN "familyCountUp" ELSE "done"
        <2>1. pc[r] = "joinInsert" /\ InsertRow(r, row, to) /\ families' = families
            BY <1>2 DEF JoinInsert
        <2>2. u \notin DOMAIN roster
            BY <1>1, <2>1 DEF Knows
        <2>3. /\ DOMAIN row = RowFields /\ row.family = f /\ row.role = "member"
              /\ row.status = IF open THEN "active" ELSE "pending"
            BY DEF RosterRow, RowFields
        <2> HIDE DEF row
        <2>4. OnlyRow(u, f) /\ Passes(r, to) /\ roster'[u] = row
            BY <2>1, <2>2, <2>3, RowComes DEF OnlyRow
        <2>5. u \notin membersOf(f)
            BY <2>2 DEF membersOf
        <2>6. job' = job /\ pc'[r] = to
            BY <2>4 DEF Passes, Goes, Routes
        <2> QED  BY <2>1, <2>3, <2>4, <2>5, <2>6, JoinedKeeps
    <1>3. CASE ApproveSave(r)
        <2>1. /\ pc[r] = "approveSave" /\ families' = families
              /\ SavesRow(r, u, job[r].row, "status", "active", "familyCountUp")
            BY <1>3 DEF ApproveSave
        <2>2. /\ u \in DOMAIN roster /\ job[r].row = roster[u] /\ roster[u].family = f
              /\ roster[u].status = "pending" /\ roster[u].role = "member"
            BY <1>1, <2>1 DEF Knows, HaveRow, RosterOk
        <2>3. /\ DOMAIN roster' = DOMAIN roster /\ DOMAIN roster'[u] = RowFields
              /\ \A x \in RowFields : roster'[u][x] = IF x = "status" THEN "active" ELSE roster[u][x]
              /\ \A v \in DOMAIN roster : v # u => roster'[v] = roster[v]
              /\ Passes(r, "familyCountUp")
            BY <1>1, <2>1, <2>2, RowSaved
        <2>4. roster'[u].family = f /\ roster'[u].role = "member" /\ roster'[u].status = "active"
            BY <2>2, <2>3 DEF RowFields
        <2>5. OnlyRow(u, f)
            BY <2>2, <2>3, <2>4 DEF OnlyRow
        <2>6. u \notin membersOf(f)
            BY <2>2 DEF membersOf
        <2>7. job' = job /\ pc'[r] = "familyCountUp"
            BY <2>3 DEF Passes, Goes, Routes
        <2> QED  BY <2>1, <2>4, <2>5, <2>6, <2>7, JoinedKeeps
    <1> QED  BY <1>2, <1>3

LEMMA RowsGone ==
    ASSUME RosterOk, families' = families, NEW f, OnlyRowsGo(f)
    PROVE  RosterOk' /\ \A g : g # f => SameRows(g)
    <1>1. IsFiniteSet(DOMAIN roster')
        BY FS_Subset DEF OnlyRowsGo, RosterOk
    <1>2. RosterOk'
        BY <1>1 DEF OnlyRowsGo, RosterOk
    <1>3. \A g : g # f => SameRows(g)
        BY DEF OnlyRowsGo, SameRows
    <1> QED  BY <1>2, <1>3

LEMMA WithoutRows ==
    ASSUME NEW rows, RosterWithout(rows)
    PROVE  /\ DOMAIN roster' = DOMAIN roster \ rows
           /\ \A v \in DOMAIN roster' : roster'[v] = roster[v]
    BY DEF RosterWithout, Restrict

\* Departures: the row is deleted, the counter not yet.
LEMMA DeleteKeepsFamily ==
    ASSUME Routes, Patience, load.patient, SoloInv, NEW r \in Requests, Serves(r, "families"),
           FamiliesStep(r), DeleteRow(r)
    PROVE  SoloInv'
    <1> SUFFICES ASSUME NEW f, f = call(r).family, NEW u, u = call(r).user,
                        NEW d, d = doc(r), NEW row, row = job[r].row
                 PROVE  SoloInv'
        OBVIOUS
    <1>1. /\ pc[r] = "familyDelete" /\ families' = families /\ job' = job
          /\ pc'[r] = "familyCountDown"
          /\ RosterWithout({v \in {u} : SameRow(v, row)})
        BY DEF DeleteRow, Passes, Goes, Routes
    <1>2. Knows(r) /\ RosterOk /\ call(r)' = call(r) /\ doc(r)' = d /\ ~Half(r)
        BY <1>1 DEF SoloInv, Serves, call, Half, doc
    <1>3. /\ f \in DOMAIN families /\ d = families[f] /\ "doc" \in DOMAIN job[r]
          /\ f = Target(r) /\ call(r).op # "found" /\ d.leader # u
          /\ "row" \in DOMAIN job[r] /\ u \in DOMAIN roster /\ row = roster[u]
          /\ row.family = f /\ row.status = "active"
        BY <1>1, <1>2 DEF Knows, HaveDoc, HaveRow, doc, Target
    <1>4. /\ DOMAIN roster' = DOMAIN roster \ {u}
          /\ \A v \in DOMAIN roster' : roster'[v] = roster[v]
        <2>1. {v \in {u} : SameRow(v, row)} = {u}
            BY <1>3 DEF SameRow
        <2> QED  BY <1>1, <2>1, WithoutRows
    <1>5. RosterOk' /\ \A g : g # f => SameRows(g)
        BY <1>1, <1>2, <1>3, <1>4, RowsGone DEF OnlyRowsGo
    <1>6. /\ u \in membersOf(f) /\ membersOf(f)' = membersOf(f) \ {u}
          /\ \A v \in membersOf(f) : v # u => roster'[v] = roster[v]
        BY <1>3, <1>4 DEF membersOf
    <1>7. Kept(f)' => Matches(f, d)
        BY <1>1, <1>2, <1>3, CalmMatches DEF Kept
    <1>8. Kept(f)' =>
            Fits(f, d.leader, IF row.role = "co" THEN d.co \ {u} ELSE d.co, d.count - 1)'
        BY <1>2, <1>3, <1>6, <1>7, MemberGoes
    <1>9. job'[r].row = row /\ "row" \in DOMAIN job'[r]
        BY <1>1, <1>3
    <1>10. Kept(f)' => CountedDown(r)'
        BY <1>2, <1>8, <1>9 DEF CountedDown, Fits
    <1>11. Knows(r)'
        BY <1>1, <1>2, <1>3 DEF Knows, HaveDoc, HaveRow, doc
    <1>12. Halfway(r)' /\ Half(r)'
        BY <1>1, <1>2, <1>10 DEF Halfway, Half
    <1> QED  BY <1>1, <1>3, <1>5, <1>11, <1>12, FamilyRows

\* A pending row goes, or all rows go before the family is disbanded.
LEMMA DropsKeepFamily ==
    ASSUME Routes, Patience, load.patient, SoloInv, NEW r \in Requests, Serves(r, "families"),
           FamiliesStep(r), RejectDelete(r) \/ DisbandRows(r) \/ SweepRows(r)
    PROVE  SoloInv'
    <1> SUFFICES ASSUME NEW f, f = call(r).family, NEW u, u = call(r).user,
                        NEW d, d = doc(r)
                 PROVE  SoloInv'
        OBVIOUS
    <1>1. /\ pc[r] \in {"rejectDelete", "disbandRows", "sweepRows"} /\ families' = families
          /\ job' = job
          /\ pc'[r] = IF pc[r] = "rejectDelete" THEN "done"
                      ELSE IF pc[r] = "disbandRows" THEN "statusSave" ELSE "sweepSave"
        BY DEF RejectDelete, DisbandRows, SweepRows, Passes, Goes, Routes
    <1>2. Knows(r) /\ RosterOk /\ call(r)' = call(r) /\ doc(r)' = d /\ ~Half(r)
        BY <1>1 DEF SoloInv, Serves, call, Half, doc
    <1>3. /\ f \in DOMAIN families /\ d = families[f] /\ "doc" \in DOMAIN job[r]
          /\ f = Target(r) /\ call(r).op # "found"
        BY <1>1, <1>2 DEF Knows, HaveDoc, doc, Target
    <1>4. CASE RejectDelete(r)
        <2>1. /\ DOMAIN roster' = DOMAIN roster \ {v \in {u} : HasRow(v, f, "pending")}
              /\ \A v \in DOMAIN roster' : roster'[v] = roster[v]
            BY <1>4, WithoutRows DEF RejectDelete
        <2>2. OnlyRowsGo(f)
            BY <2>1 DEF OnlyRowsGo, HasRow
        <2>3. /\ membersOf(f)' = membersOf(f) /\ coLeadersOf(f)' = coLeadersOf(f)
              /\ {v \in membersOf(f) : roster[v].role = "leader"}'
                 = {v \in membersOf(f) : roster[v].role = "leader"}
            <3>1. membersOf(f)' = membersOf(f)
                BY <2>1 DEF membersOf, HasRow
            <3>2. \A v \in membersOf(f) : roster'[v] = roster[v]
                BY <2>1, <3>1 DEF membersOf
            <3> QED  BY <3>1, <3>2 DEF coLeadersOf
        <2>4. pc'[r] = "done"
            BY <1>1, <1>4 DEF RejectDelete
        <2>5. Knows(r)' /\ Halfway(r)'
            BY <2>4, RestKnows, EndsApart DEF Services
        <2>6. Kept(f)' => Matches(f, d)
            BY <1>1, <1>2, <1>3, CalmMatches DEF Kept
        <2>7. Kept(f)' => Matches(f, families[f])'
            BY <1>1, <1>3, <2>3, <2>6 DEF Matches
        <2> QED  BY <1>1, <1>2, <1>3, <2>2, <2>5, <2>7, RowsGone, FamilyRows
    <1>5. CASE DisbandRows(r) \/ SweepRows(r)
        <2>1. RosterWithout({v \in DOMAIN roster : roster[v].family = f})
            BY <1>5 DEF DisbandRows, SweepRows
        <2> DEFINE rows == {v \in DOMAIN roster : roster[v].family = f}
        <2>7. /\ DOMAIN roster' = DOMAIN roster \ rows
              /\ \A v \in DOMAIN roster' : roster'[v] = roster[v]
            BY <2>1, WithoutRows
        <2>2. OnlyRowsGo(f)
            BY <2>7 DEF OnlyRowsGo
        <2>3. pc[r] # "rejectDelete"
            BY <1>5 DEF DisbandRows, SweepRows
        <2>4. Knows(r)'
            BY <1>1, <1>2, <1>3, <2>3 DEF Knows, HaveDoc, HaveRow, doc
        <2>5. pc[r] = "disbandRows" => call(r).status = "disbanded"
            BY <1>2 DEF Knows
        <2>6. Halfway(r)' /\ Half(r)'
            BY <1>1, <1>2, <2>3, <2>5 DEF Halfway, Half
        <2> QED  BY <1>1, <1>2, <1>3, <2>2, <2>4, <2>6, RowsGone, FamilyRows
    <1> QED  BY <1>4, <1>5

\* A rank is on the row, not yet in the document.
LEMMA RankKeepsFamily ==
    ASSUME Routes, Patience, load.patient, SoloInv, NEW r \in Requests, Serves(r, "families"),
           FamiliesStep(r), RankSave(r)
    PROVE  SoloInv'
    <1> SUFFICES ASSUME NEW f, f = call(r).family, NEW u, u = call(r).user,
                        NEW d, d = doc(r),
                        NEW role, role = IF call(r).op = "promote" THEN "co" ELSE "member"
                 PROVE  SoloInv'
        OBVIOUS
    <1>1. /\ pc[r] = "rankSave" /\ families' = families
          /\ SavesRow(r, u, job[r].row, "role", role, "rankDocument")
        BY DEF RankSave
    <1>2. Knows(r) /\ RosterOk /\ call(r)' = call(r) /\ ~Half(r)
        BY <1>1 DEF SoloInv, Serves, call, Half
    <1>3. /\ f \in DOMAIN families /\ d = families[f] /\ "doc" \in DOMAIN job[r]
          /\ f = Target(r) /\ call(r).op # "found"
          /\ u \in DOMAIN roster /\ job[r].row = roster[u]
          /\ roster[u].family = f /\ roster[u].status = "active"
          /\ call(r).op \in {"promote", "demote"}
        BY <1>1, <1>2 DEF Knows, HaveDoc, HaveRow, doc, Target
    <1>4. /\ DOMAIN roster' = DOMAIN roster /\ DOMAIN roster'[u] = RowFields
          /\ \A x \in RowFields : roster'[u][x] = IF x = "role" THEN role ELSE roster[u][x]
          /\ \A v \in DOMAIN roster : v # u => roster'[v] = roster[v]
          /\ Passes(r, "rankDocument")
        BY <1>1, <1>2, <1>3, RowSaved
    <1>5. roster'[u].family = f /\ roster'[u].role = role /\ roster'[u].status = "active"
        BY <1>3, <1>4 DEF RowFields
    <1>6. job' = job /\ pc'[r] = "rankDocument" /\ doc(r)' = d
        BY <1>4 DEF Passes, Goes, Routes, doc
    <1>7. OnlyRow(u, f) /\ u \in membersOf(f)
        BY <1>3, <1>4, <1>5 DEF OnlyRow, membersOf
    <1>8. /\ RosterOk' /\ \A g : g # f => SameRows(g)
          /\ membersOf(f)' = membersOf(f)
          /\ \A v \in membersOf(f) : v # u => roster'[v] = roster[v]
        BY <1>1, <1>2, <1>3, <1>5, <1>7, OnlyRowOk
    <1>9. ASSUME Kept(f)'  PROVE Ranked(r)'
        <2>1. Spared(f) /\ Matches(f, d)
            BY <1>1, <1>2, <1>3, <1>9, CalmMatches DEF Kept
        <2>2. u # d.leader
            BY <1>3, <2>1 DEF Spared, RanksLeader
        <2>3. Fits(f, d.leader, IF role = "co" THEN d.co \cup {u} ELSE d.co \ {u}, d.count)'
            <3>1. role \in {"co", "member"}
                OBVIOUS
            <3> QED  BY <1>5, <1>7, <1>8, <2>1, <2>2, <3>1, MemberRises
        <2>4. SoloOk(d)
            BY <2>1 DEF Matches, SoloOk
        <2> QED  BY <1>2, <1>6, <2>3, <2>4 DEF Ranked, Fits, SoloOk
    <1>10. Knows(r)'
        BY <1>1, <1>2, <1>3, <1>6 DEF Knows, HaveDoc, HaveRow, doc
    <1>11. Halfway(r)' /\ Half(r)'
        BY <1>2, <1>6, <1>9 DEF Halfway, Half
    <1> QED  BY <1>1, <1>3, <1>8, <1>10, <1>11, FamilyRows

\* Between calls the rows and the documents agree.
LEMMA CalmNow ==
    ASSUME Patience, load.patient, SoloInv, NEW r \in Requests, Serves(r, "families"),
           ~Half(r), NEW f \in DOMAIN families, Kept(f)
    PROVE  Matches(f, families[f])
    BY FamilyAlone, RestKnows DEF SoloInv

LEMMA FitsSome ==
    ASSUME RosterOk, NEW f, NEW l, NEW co, NEW n, Fits(f, l, co, n)
    PROVE  n \in Nat \ {0}
    <1>1. Cardinality(membersOf(f)) \in Nat /\ l \in membersOf(f) /\ IsFiniteSet(membersOf(f))
        BY MembersFinite DEF Fits
    <1>2. Cardinality(membersOf(f)) # 0
        BY <1>1, FS_EmptySet
    <1> QED  BY <1>1, <1>2 DEF Fits

\* A document that is saved alone.
LEMMA DocKeeps ==
    ASSUME Routes, Patience, load.patient, SoloInv, NEW r \in Requests, Serves(r, "families"),
           FamiliesStep(r), pc[r] \in HaveDoc, roster' = roster,
           NEW new, DOMAIN new = DocFields, SaveFamily(r, new, "done"),
           Half(r) => \/ new.status = "disbanded"
                      \/ new.leader = doc(r).leader /\ new.status = doc(r).status,
           new.status # "disbanded" /\ Spared(call(r).family) => Matches(call(r).family, new)
    PROVE  SoloInv'
    <1> SUFFICES ASSUME NEW f, f = call(r).family  PROVE SoloInv'
        OBVIOUS
    <1>1. Knows(r) /\ RosterOk /\ DocsOk
        BY DEF SoloInv
    <1>2. f \in DOMAIN families /\ doc(r) = families[f] /\ f = Target(r)
        BY <1>1 DEF Knows, doc, Target
    <1> USE DEF DocFails, DocSaves
    <1>3. CASE DocFails(r, f, new)
        <2>1. ~Half(r)
            BY <1>1, <1>2, <1>3 DEF DocsOk, LeadOne, LeadsAnother
        <2>2. pc'[r] = "failed"
            BY <1>3 DEF Passes, Goes, Routes
        <2>3. Knows(r)' /\ Halfway(r)'
            BY <2>2, RestKnows, EndsApart DEF Services
        <2> QED  BY <1>3, <2>1, <2>3, FamilyLooks
    <1>4. CASE DocSaves(r, f, new, "done")
        <2>2. pc'[r] = "done"
            BY <1>4 DEF Passes, Goes, Routes
        <2>3. Knows(r)' /\ Halfway(r)'
            BY <2>2, RestKnows, EndsApart DEF Services
        <2>4. RosterOk'
            BY <1>1, <1>4 DEF RosterOk
        <2>5. DocsOk'
            BY <1>1, <1>4 DEF DocsOk, LeadOne, LeadsAnother
        <2>6. ASSUME Kept(f)'  PROVE Matches(f, families[f])'
            <3>1. Matches(f, new)
                BY <1>2, <1>4, <2>6, CalmMatches DEF Kept
            <3>2. Matches(f, new)'
                BY <3>1, RowsStay, SameMatches
            <3> QED  BY <1>4, <3>2 DEF Matches
        <2> QED  BY <1>2, <1>4, <2>3, <2>4, <2>5, <2>6, RowsStay, FamilyKeeps
    <1> HIDE DEF DocFails, DocSaves
    <1>5. DocFails(r, f, new) \/ DocSaves(r, f, new, "done")
        BY <1>1, <1>2, DocSaved
    <1> QED  BY <1>3, <1>4, <1>5

\* bumpMemberCount.
LEMMA BumpedIs ==
    ASSUME NEW d, DOMAIN d = DocFields, NEW delta
    PROVE  /\ DOMAIN Bumped(d, delta) = DocFields
           /\ Bumped(d, delta).status = d.status /\ Bumped(d, delta).leader = d.leader
           /\ Bumped(d, delta).co = d.co /\ Bumped(d, delta).count = d.count + delta
           /\ d.count + delta > 1 => Bumped(d, delta).solo = 0
    BY DEF Bumped, DocFields

LEMMA CountsKeepFamily ==
    ASSUME Routes, Patience, load.patient, SoloInv, NEW r \in Requests, Serves(r, "families"),
           FamiliesStep(r), CountUp(r) \/ CountDown(r)
    PROVE  SoloInv'
    <1> SUFFICES ASSUME NEW f, f = call(r).family, NEW u, u = call(r).user,
                        NEW d, d = doc(r)
                 PROVE  SoloInv'
        OBVIOUS
    <1>1. /\ pc[r] \in {"familyCountUp", "familyCountDown"} /\ roster' = roster
          /\ Knows(r) /\ Halfway(r) /\ RosterOk /\ DocsOk
        BY DEF CountUp, CountDown, SoloInv
    <1>2. /\ pc[r] \in HaveDoc /\ f \in DOMAIN families /\ d = families[f]
          /\ DOMAIN d = DocFields
        BY <1>1 DEF HaveDoc, Knows, doc, DocsOk
    <1>3. Spared(f) /\ d.status # "disbanded" => Kept(f)
        BY <1>2 DEF Kept
    <1>4. CASE CountUp(r)
        <2>1. pc[r] = "familyCountUp" /\ SaveFamily(r, Bumped(d, 1), "done")
            BY <1>4 DEF CountUp
        <2>2. ASSUME NEW new, new = Bumped(d, 1)  PROVE SoloInv'
            <3>1. /\ DOMAIN new = DocFields /\ new.status = d.status /\ new.leader = d.leader
                  /\ new.co = d.co /\ new.count = d.count + 1 /\ (d.count + 1 > 1 => new.solo = 0)
                BY <1>2, <2>2, BumpedIs
            <3>2. ASSUME Kept(f)  PROVE Matches(f, new)
                <4>1. Fits(f, d.leader, d.co, d.count + 1)
                    BY <1>1, <2>1, <3>2 DEF Halfway, CountedUp
                <4>2. d.count + 1 \in Nat \ {0}
                    BY <1>1, <4>1, FitsSome
                <4> QED  BY <3>1, <4>1, <4>2 DEF Fits, Matches
            <3> QED  BY <1>1, <1>2, <1>3, <2>1, <2>2, <3>1, <3>2, DocKeeps
        <2> QED  BY <2>2
    <1>5. CASE CountDown(r)
        <2> DEFINE b == Bumped(d, -1)
                   new == IF job[r].row.role = "co" THEN [b EXCEPT !.co = @ \ {u}] ELSE b
        <2>1. pc[r] = "familyCountDown" /\ SaveFamily(r, new, "done")
            BY <1>5 DEF CountDown
        <2>2. /\ DOMAIN b = DocFields /\ b.status = d.status /\ b.leader = d.leader
              /\ b.co = d.co /\ b.count = d.count + (-1) /\ (d.count + (-1) > 1 => b.solo = 0)
            BY <1>2, BumpedIs
        <2> HIDE DEF b
        <2>3. /\ DOMAIN new = DocFields /\ new.status = d.status /\ new.leader = d.leader
              /\ new.co = IF job[r].row.role = "co" THEN d.co \ {u} ELSE d.co
              /\ new.count = d.count + (-1) /\ (d.count + (-1) > 1 => new.solo = 0)
            BY <2>2 DEF DocFields
        <2> HIDE DEF new
        <2>4. ASSUME Kept(f)  PROVE Matches(f, new)
            <3>1. Fits(f, d.leader, IF job[r].row.role = "co" THEN d.co \ {u} ELSE d.co, d.count - 1)
                BY <1>1, <2>1, <2>4 DEF Halfway, CountedDown
            <3>2. d.count - 1 \in Nat \ {0}
                BY <1>1, <3>1, FitsSome
            <3> DEFINE n == d.count - 1
            <3>7. n \in Nat \ {0}
                BY <3>2
            <3>3. new.count = n /\ (n > 1 => new.solo = 0)
                BY <2>3
            <3> HIDE DEF n
            <3>4. /\ {v \in membersOf(f) : roster[v].role = "leader"} = {new.leader}
                  /\ new.co = coLeadersOf(f)
                BY <2>3, <3>1 DEF Fits
            <3>5. new.solo # 0 => new.count = 1
                BY <3>3, <3>7
            <3>6. new.count = Cardinality(membersOf(f))
                BY <3>1, <3>3 DEF Fits, n
            <3> QED  BY <3>4, <3>5, <3>6 DEF Matches
        <2> QED  BY <1>1, <1>2, <1>3, <2>1, <2>3, <2>4, DocKeeps
    <1> QED  BY <1>4, <1>5

\* The saves of one round trip: ranks, settings, a status, the sweep.
LEMMA SavesKeepFamily ==
    ASSUME Routes, Patience, load.patient, SoloInv, NEW r \in Requests, Serves(r, "families"),
           FamiliesStep(r),
           RankDocument(r) \/ SettingsSave(r) \/ StatusSave(r) \/ SweepSave(r)
    PROVE  SoloInv'
    <1> SUFFICES ASSUME NEW f, f = call(r).family, NEW u, u = call(r).user,
                        NEW d, d = doc(r)
                 PROVE  SoloInv'
        OBVIOUS
    <1>1. /\ pc[r] \in {"rankDocument", "settingsSave", "statusSave", "sweepSave"}
          /\ roster' = roster /\ Knows(r) /\ Halfway(r) /\ RosterOk /\ DocsOk
        BY DEF RankDocument, SettingsSave, StatusSave, SweepSave, SoloInv
    <1>2. /\ pc[r] \in HaveDoc /\ f \in DOMAIN families /\ d = families[f]
          /\ DOMAIN d = DocFields /\ "doc" \in DOMAIN job[r]
        BY <1>1 DEF HaveDoc, Knows, doc, DocsOk
    <1>3. CASE RankDocument(r)
        <2> DEFINE co == IF call(r).op = "promote" THEN d.co \cup {u} ELSE d.co \ {u}
        <2>1. /\ pc[r] = "rankDocument"
              /\ SaveFamily(r, [d EXCEPT !.co = co], "done")
            BY <1>3 DEF RankDocument
        <2>2. ASSUME NEW new, new = [d EXCEPT !.co = co]  PROVE SoloInv'
            <3>1. /\ DOMAIN new = DocFields /\ new.status = d.status /\ new.leader = d.leader
                  /\ new.co = co /\ new.count = d.count /\ new.solo = d.solo
                BY <1>2, <2>2 DEF DocFields
            <3>2. ASSUME Kept(f)  PROVE Matches(f, new)
                <4>1. Fits(f, d.leader, co, d.count) /\ SoloOk(d)
                    BY <1>1, <2>1, <3>2 DEF Halfway, Ranked
                <4> HIDE DEF co
                <4> QED  BY <3>1, <4>1 DEF Fits, Matches, SoloOk
            <3>3. new.status # "disbanded" /\ Spared(f) => Matches(f, new)
                BY <1>2, <3>1, <3>2 DEF Kept
            <3> HIDE DEF co
            <3> QED  BY <1>1, <1>2, <2>1, <2>2, <3>1, <3>3, DocKeeps
        <2> QED  BY <2>2
    <1>4. CASE SettingsSave(r)
        <2>1. /\ pc[r] = "settingsSave"
              /\ SaveFamily(r, [d EXCEPT !.mode = call(r).mode], "done")
            BY <1>4 DEF SettingsSave
        <2>2. ASSUME NEW new, new = [d EXCEPT !.mode = call(r).mode]  PROVE SoloInv'
            <3>1. /\ DOMAIN new = DocFields /\ new.status = d.status /\ new.leader = d.leader
                  /\ new.co = d.co /\ new.count = d.count /\ new.solo = d.solo
                BY <1>2, <2>2 DEF DocFields
            <3>2. ASSUME Kept(f)  PROVE Matches(f, new)
                <4>1. ~Half(r)
                    BY <2>1 DEF Half
                <4>2. Matches(f, families[f])
                    BY <1>2, <3>2, <4>1, CalmNow
                <4> QED  BY <1>2, <3>1, <4>2 DEF Matches
            <3>3. new.status # "disbanded" /\ Spared(f) => Matches(f, new)
                BY <1>2, <3>1, <3>2 DEF Kept
            <3> QED  BY <1>1, <1>2, <2>1, <2>2, <3>1, <3>3, DocKeeps
        <2> QED  BY <2>2
    <1>5. CASE StatusSave(r)
        <2> DEFINE st == call(r).status
        <2>1. ASSUME NEW new,
                     new = IF st = "disbanded" /\ d.status # "disbanded"
                           THEN [d EXCEPT !.status = "disbanded", !.count = 0, !.solo = 0]
                           ELSE [d EXCEPT !.status = st],
                     SaveFamily(r, new, "done")
              PROVE  SoloInv'
            <3>1. /\ DOMAIN new = DocFields /\ new.status = st
                  /\ st # "disbanded" => /\ new.leader = d.leader /\ new.co = d.co
                                         /\ new.count = d.count /\ new.solo = d.solo
                BY <1>2, <2>1 DEF DocFields
            <3>2. pc[r] = "statusSave" /\ call(r).op = "familyStatus"
                BY <1>1, <1>5 DEF StatusSave, Knows
            <3>3. Half(r) => new.status = "disbanded"
                BY <3>1, <3>2 DEF Half
            <3>4. ASSUME new.status # "disbanded", Spared(f)  PROVE Matches(f, new)
                <4>1. ~Half(r) /\ st # "disbanded"
                    BY <3>1, <3>3, <3>4
                <4>2. d.status # "disbanded"
                    BY <1>2, <3>2, <3>4, <4>1 DEF Spared, Revives
                <4>3. Matches(f, families[f])
                    BY <1>2, <3>4, <4>1, <4>2, CalmNow DEF Kept
                <4> QED  BY <1>2, <3>1, <4>1, <4>3 DEF Matches
            <3> QED  BY <1>1, <1>2, <2>1, <3>1, <3>3, <3>4, DocKeeps
        <2> QED  BY <1>5, <2>1 DEF StatusSave
    <1>6. CASE SweepSave(r)
        <2>1. ASSUME NEW new, new = [d EXCEPT !.status = "disbanded", !.count = 0, !.solo = 0],
                     SaveFamily(r, new, "done")
              PROVE  SoloInv'
            <3>1. DOMAIN new = DocFields /\ new.status = "disbanded"
                BY <1>2, <2>1 DEF DocFields
            <3> QED  BY <1>1, <1>2, <2>1, <3>1, DocKeeps
        <2> QED  BY <1>6, <2>1 DEF SweepSave
    <1> QED  BY <1>3, <1>4, <1>5, <1>6

\* The leadership passes on: first the document, then the row of the new leader, then
\* that of the old one.
LEMMA TransferFindKeeps ==
    ASSUME Routes, Patience, load.patient, SoloInv, NEW r \in Requests, Serves(r, "families"),
           FamiliesStep(r), TransferFind(r)
    PROVE  SoloInv'
    <1> SUFFICES ASSUME NEW f, f = call(r).family, NEW u, u = call(r).user,
                        NEW l, l = doc(r).leader
                 PROVE  SoloInv'
        OBVIOUS
    <1>1. /\ pc[r] = "transferFind" /\ families' = families /\ roster' = roster
          /\ Knows(r) /\ ~Half(r) /\ call(r)' = call(r)
        BY DEF TransferFind, SoloInv, familyVars, Half, Serves, call
    <1>2. /\ f \in DOMAIN families /\ "doc" \in DOMAIN job[r] /\ job[r].doc = families[f]
          /\ l = families[f].leader /\ "oldRow" \notin DOMAIN job[r]
        BY <1>1 DEF Knows, HaveDoc, doc
    <1> DEFINE g == [row |-> roster[u], oldRow |-> roster[l]]
               h == [row |-> roster[u]]
    <1>3. /\ DOMAIN g = {"row", "oldRow"} /\ g["row"] = roster[u] /\ g["oldRow"] = roster[l]
          /\ DOMAIN h = {"row"} /\ h["row"] = roster[u]
        OBVIOUS
    <1>4. \/ Passes(r, "failed")
          \/ /\ HasRow(u, f, "active") /\ Goes(r, "transferDocument")
             /\ \/ l \in DOMAIN roster /\ roster[l].family = f /\ Learns(r, g)
                \/ ~(l \in DOMAIN roster /\ roster[l].family = f) /\ Learns(r, h)
        BY DEF TransferFind
    <1> HIDE DEF g, h
    <1>5. CASE Passes(r, "failed")
        <2>1. pc'[r] = "failed"
            BY <1>5 DEF Passes, Goes, Routes
        <2> QED  BY <1>1, <2>1, RowKeeps
    <1>6. CASE /\ HasRow(u, f, "active") /\ Goes(r, "transferDocument")
               /\ l \in DOMAIN roster /\ roster[l].family = f /\ Learns(r, g)
        <2>1. /\ "row" \in DOMAIN job'[r] /\ job'[r].row = roster[u]
              /\ "oldRow" \in DOMAIN job'[r] /\ job'[r].oldRow = roster[l]
            BY <1>3, <1>6, LearnedOne
        <2>2. pc'[r] = "transferDocument"
            BY <1>6 DEF Goes, Routes
        <2>3. Halfway(r)'
            BY <2>1, <2>2 DEF Halfway
        <2> QED  BY <1>1, <1>2, <1>6, <2>1, <2>2, <2>3, RowKeeps
    <1>7. CASE /\ HasRow(u, f, "active") /\ Goes(r, "transferDocument")
               /\ ~(l \in DOMAIN roster /\ roster[l].family = f) /\ Learns(r, h)
        <2>1. /\ "row" \in DOMAIN job'[r] /\ job'[r].row = roster[u]
              /\ "oldRow" \notin DOMAIN job'[r]
            BY <1>2, <1>3, <1>7, LearnedOne
        <2>2. pc'[r] = "transferDocument"
            BY <1>7 DEF Goes, Routes
        <2>3. ~Kept(f)'
            <3>1. Kept(f)' => Matches(f, families[f])
                BY <1>1, <1>2, CalmMatches DEF Kept
            <3> QED  BY <1>2, <1>7, <3>1 DEF Matches, membersOf
        <2>4. Halfway(r)'
            BY <1>1, <2>2, <2>3 DEF Halfway
        <2> QED  BY <1>1, <1>2, <1>7, <2>1, <2>2, <2>4, RowKeeps
    <1> QED  BY <1>4, <1>5, <1>6, <1>7

LEMMA TransferDocumentKeeps ==
    ASSUME Routes, Patience, load.patient, SoloInv, NEW r \in Requests, Serves(r, "families"),
           FamiliesStep(r), TransferDocument(r)
    PROVE  SoloInv'
    <1> SUFFICES ASSUME NEW f, f = call(r).family, NEW u, u = call(r).user,
                        NEW d, d = doc(r)
                 PROVE  SoloInv'
        OBVIOUS
    <1>1. /\ pc[r] = "transferDocument" /\ roster' = roster
          /\ Knows(r) /\ Halfway(r) /\ ~Half(r) /\ RosterOk /\ DocsOk /\ call(r)' = call(r)
          /\ SaveFamily(r, [d EXCEPT !.leader = u, !.co = @ \ {u}], "transferNew")
        BY DEF TransferDocument, SoloInv, Half, Serves, call
    <1>2. /\ f \in DOMAIN families /\ d = families[f] /\ f = Target(r)
          /\ DOMAIN d = DocFields /\ "doc" \in DOMAIN job[r] /\ call(r).op # "found"
        BY <1>1 DEF HaveDoc, Knows, doc, DocsOk, Target
    <1> DEFINE new == [d EXCEPT !.leader = u, !.co = @ \ {u}]
    <1>3. /\ DOMAIN new = DocFields /\ new.status = d.status /\ new.leader = u
          /\ new.co = d.co \ {u} /\ new.count = d.count /\ new.solo = d.solo
        BY <1>2 DEF DocFields
    <1>4. SaveFamily(r, new, "transferNew")
        BY <1>1
    <1> HIDE DEF new
    <1>5. DocFails(r, f, new) \/ DocSaves(r, f, new, "transferNew")
        BY <1>1, <1>2, <1>3, <1>4, DocSaved
    <1>6. CASE DocFails(r, f, new)
        <2>1. pc'[r] = "failed"
            BY <1>6 DEF DocFails, Passes, Goes, Routes
        <2>2. Knows(r)' /\ Halfway(r)'
            BY <2>1, RestKnows, EndsApart DEF Services
        <2> QED  BY <1>1, <1>6, <2>2, FamilyLooks DEF DocFails
    <1>7. CASE DocSaves(r, f, new, "transferNew")
        <2> USE DEF DocSaves
        <2>1. pc'[r] = "transferNew" /\ job' = job /\ doc(r)' = d
            BY <1>7 DEF Passes, Goes, Routes, doc
        <2>2. RosterOk'
            BY <1>1, <1>7 DEF RosterOk
        <2>3. DocsOk'
            BY <1>1, <1>7 DEF DocsOk, LeadOne, LeadsAnother
        <2>4. Knows(r)'
            BY <1>1, <1>2, <1>7, <2>1 DEF Knows, HaveDoc, HaveRow
        <2>5. ASSUME Kept(f)'  PROVE Matches(f, d)' /\ HandedOver(r)'
            <3>1. Kept(f) /\ Matches(f, d)
                <4>1. families[f].status # "disbanded" /\ Spared(f)'
                    BY <1>2, <1>3, <1>7, <2>5 DEF Kept
                <4> QED  BY <1>1, <1>2, <4>1, CalmMatches DEF Kept
            <3>2. Matches(f, d)'
                BY <1>1, <3>1, RowsStay, SameMatches
            <3>3. "oldRow" \in DOMAIN job[r]
                BY <1>1, <3>1 DEF Halfway
            <3>4. SoloOk(d)
                BY <3>1 DEF Matches, SoloOk
            <3>5. HandedOver(r)'
                BY <1>1, <1>3, <1>7, <2>1, <3>3, <3>4 DEF HandedOver, SoloOk
            <3> QED  BY <3>2, <3>5
        <2>6. Halfway(r)' /\ Half(r)'
            <3>1. Kept(f)' => Matches(f, doc(r))'
                BY <2>1, <2>5 DEF Matches
            <3> QED  BY <1>1, <2>1, <2>5, <3>1 DEF Halfway, Half
        <2> QED  BY <1>1, <1>2, <1>7, <2>2, <2>3, <2>4, <2>6, RowsStay, FamilyKeeps
    <1> QED  BY <1>5, <1>6, <1>7

LEMMA TransferNewKeeps ==
    ASSUME Routes, Patience, load.patient, SoloInv, NEW r \in Requests, Serves(r, "families"),
           FamiliesStep(r), TransferNew(r)
    PROVE  SoloInv'
    <1> SUFFICES ASSUME NEW f, f = call(r).family, NEW u, u = call(r).user,
                        NEW d, d = doc(r),
                        NEW to, to = IF "oldRow" \in DOMAIN job[r] THEN "transferOld" ELSE "done"
                 PROVE  SoloInv'
        OBVIOUS
    <1>1. /\ pc[r] = "transferNew" /\ families' = families
          /\ Knows(r) /\ Halfway(r) /\ RosterOk /\ call(r)' = call(r)
          /\ SavesRow(r, u, job[r].row, "role", "leader", to)
        BY DEF TransferNew, SoloInv, Serves, call
    <1>2. /\ f \in DOMAIN families /\ f = Target(r) /\ call(r).op # "found"
          /\ u \in DOMAIN roster /\ job[r].row = roster[u] /\ "doc" \in DOMAIN job[r]
          /\ roster[u].family = f /\ roster[u].status = "active" /\ d.leader # u
        BY <1>1 DEF Knows, HaveRow, doc, Target
    <1>3. /\ DOMAIN roster' = DOMAIN roster /\ DOMAIN roster'[u] = RowFields
          /\ \A x \in RowFields : roster'[u][x] = IF x = "role" THEN "leader" ELSE roster[u][x]
          /\ \A v \in DOMAIN roster : v # u => roster'[v] = roster[v]
          /\ Passes(r, to)
        <2>1. /\ RosterOk /\ u \in DOMAIN roster /\ roster[u] = job[r].row
              /\ SavesRow(r, u, job[r].row, "role", "leader", to)
            BY <1>1, <1>2
        <2> QED  BY ONLY <2>1, RowSaved
    <1>4. roster'[u].family = f /\ roster'[u].role = "leader" /\ roster'[u].status = "active"
        BY <1>2, <1>3 DEF RowFields
    <1>5. job' = job /\ pc'[r] = to /\ doc(r)' = d
        BY <1>3 DEF Passes, Goes, Routes, doc
    <1>6. OnlyRow(u, f) /\ u \in membersOf(f)
        BY <1>2, <1>3, <1>4 DEF OnlyRow, membersOf
    <1>7. /\ RosterOk' /\ \A g : g # f => SameRows(g)
          /\ membersOf(f)' = membersOf(f)
          /\ \A v \in membersOf(f) : v # u => roster'[v] = roster[v]
        BY <1>1, <1>2, <1>4, <1>6, OnlyRowOk
    <1>8. ASSUME Kept(f)'
          PROVE  Kept(f) /\ Matches(f, d) /\ HandedOver(r) /\ "oldRow" \in DOMAIN job[r]
        <2>1. Kept(f)
            BY <1>1, <1>8, CalmMatches DEF Kept
        <2> QED  BY <1>1, <2>1 DEF Halfway, HandedOver
    <1>9. CASE "oldRow" \in DOMAIN job[r]
        <2>1. pc'[r] = "transferOld"
            BY <1>5, <1>9
        <2>2. Knows(r)'
            BY <1>1, <1>2, <1>3, <1>5, <1>9, <2>1 DEF Knows, HaveDoc, HaveRow, doc
        <2>3. ASSUME Kept(f)'  PROVE BothLead(r)' /\ HandedOver(r)'
            <3>1. Matches(f, d) /\ HandedOver(r)
                BY <1>8, <2>3
            <3>2. {v \in membersOf(f) : roster[v].role = "leader"}' = {d.leader, u}
                BY <1>4, <1>6, <1>7, <3>1 DEF Matches
            <3>3. coLeadersOf(f)' = coLeadersOf(f) \ {u}
                BY <1>4, <1>7 DEF coLeadersOf
            <3>4. BothLead(r)'
                BY <1>1, <1>5, <1>7, <3>1, <3>2, <3>3 DEF BothLead, Matches
            <3>5. HandedOver(r)'
                BY <1>1, <1>5, <3>1 DEF HandedOver, SoloOk
            <3> QED  BY <3>4, <3>5
        <2>4. Halfway(r)' /\ Half(r)'
            BY <1>1, <2>1, <2>3 DEF Halfway, Half
        <2> QED  BY <1>1, <1>2, <1>7, <2>2, <2>4, FamilyRows
    <1>10. CASE "oldRow" \notin DOMAIN job[r]
        <2>1. pc'[r] = "done"
            BY <1>5, <1>10
        <2>2. Knows(r)' /\ Halfway(r)'
            BY <2>1, RestKnows, EndsApart DEF Services
        <2>3. ~Kept(f)'
            BY <1>8, <1>10
        <2> QED  BY <1>1, <1>2, <1>7, <2>2, <2>3, FamilyRows
    <1> QED  BY <1>9, <1>10

LEMMA TransferOldKeeps ==
    ASSUME Routes, Patience, load.patient, SoloInv, NEW r \in Requests, Serves(r, "families"),
           FamiliesStep(r), TransferOld(r)
    PROVE  SoloInv'
    <1> SUFFICES ASSUME NEW f, f = call(r).family, NEW u, u = call(r).user,
                        NEW d, d = doc(r), NEW l, l = d.leader
                 PROVE  SoloInv'
        OBVIOUS
    <1>1. /\ pc[r] = "transferOld" /\ families' = families
          /\ Knows(r) /\ Halfway(r) /\ RosterOk /\ call(r)' = call(r)
          /\ SavesRow(r, l, job[r].oldRow, "role", "member", "done")
        BY DEF TransferOld, SoloInv, Serves, call
    <1>2. /\ f \in DOMAIN families /\ f = Target(r) /\ call(r).op # "found"
          /\ l \in DOMAIN roster /\ job[r].oldRow = roster[l]
          /\ roster[l].family = f /\ l # u
        BY <1>1 DEF Knows, doc, Target
    <1>3. /\ DOMAIN roster' = DOMAIN roster /\ DOMAIN roster'[l] = RowFields
          /\ \A x \in RowFields : roster'[l][x] = IF x = "role" THEN "member" ELSE roster[l][x]
          /\ \A v \in DOMAIN roster : v # l => roster'[v] = roster[v]
          /\ Passes(r, "done")
        BY <1>1, <1>2, RowSaved
    <1>4. /\ roster'[l].family = f /\ roster'[l].role = "member"
          /\ roster'[l].status = roster[l].status
        BY <1>2, <1>3 DEF RowFields
    <1>5. pc'[r] = "done"
        BY <1>3 DEF Passes, Goes, Routes
    <1>6. OnlyRow(l, f)
        BY <1>2, <1>3, <1>4 DEF OnlyRow
    <1>7. /\ RosterOk' /\ \A g : g # f => SameRows(g)
          /\ membersOf(f)' = IF roster'[l].status = "active" THEN membersOf(f) \cup {l}
                              ELSE membersOf(f) \ {l}
          /\ \A v \in membersOf(f) : v # l => roster'[v] = roster[v]
        BY <1>1, <1>2, <1>6, OnlyRowOk
    <1>8. Knows(r)' /\ Halfway(r)'
        BY <1>5, RestKnows, EndsApart DEF Services
    <1>9. ASSUME Kept(f)'  PROVE Matches(f, families[f])'
        <2>1. Kept(f)
            BY <1>1, <1>9, CalmMatches DEF Kept
        <2>2. BothLead(r) /\ HandedOver(r)
            BY <1>1, <2>1 DEF Halfway
        <2>3. l \in membersOf(f) /\ roster[l].role = "leader" /\ roster[l].status = "active"
            BY <2>2 DEF BothLead, membersOf
        <2>4. membersOf(f)' = membersOf(f)
            BY <1>4, <1>7, <2>3
        <2>5. coLeadersOf(f)' = coLeadersOf(f)
            BY <1>4, <1>7, <2>3, <2>4 DEF coLeadersOf
        <2>6. {v \in membersOf(f) : roster[v].role = "leader"}' = {u}
            <3>1. {v \in membersOf(f) : roster[v].role = "leader"} = {l, u}
                BY <2>2 DEF BothLead
            <3> QED  BY <1>2, <1>4, <1>7, <2>4, <3>1
        <2>7. Matches(f, families[f])'
            BY <1>1, <2>2, <2>4, <2>5, <2>6 DEF BothLead, HandedOver, Matches, SoloOk
        <2> QED  BY <2>7
    <1> QED  BY <1>1, <1>2, <1>7, <1>8, <1>9, FamilyRows

\* A family is founded: the fee, then the document, then the row of its leader.
LEMMA FoundKeepsFamily ==
    ASSUME Routes, Patience, load.patient, FeeInv, SoloInv, NEW r \in Requests,
           Serves(r, "families"), FamiliesStep(r),
           FoundFind(r) \/ FoundDebit(r) \/ FoundInsert(r) \/ FoundLeader(r)
    PROVE  SoloInv'
    <1> SUFFICES ASSUME NEW u, u = call(r).user, NEW n, n = Document(u, {}, 1, call(r).mode)
                 PROVE  SoloInv'
        OBVIOUS
    <1>1. Knows(r) /\ RosterOk /\ DocsOk /\ call(r)' = call(r)
        BY DEF SoloInv, Serves, call
    <1>2. /\ DOMAIN n = DocFields /\ n.status = "active" /\ n.leader = u /\ n.co = {}
          /\ n.count = 1 /\ n.solo = 0
        BY DEF Document, DocFields
    <1>3. r # 0
        BY FamilyAssumption DEF Routes, Requests
    <1>4. CASE FoundFind(r)
        <2>1. /\ pc[r] = "idle" /\ call(r).op = "found" /\ families' = families
              /\ roster' = roster /\ job' = job
              /\ pc'[r] \in {"failed", "foundInsert", "foundDebit"}
              /\ pc'[r] # "failed" => u \notin DOMAIN roster
            BY <1>4 DEF FoundFind, Begins, Passes, Goes, familyVars, Routes
        <2>2. r \notin DOMAIN families
            BY <1>3, <2>1 DEF FeeInv
        <2>3. Knows(r)'
            BY <1>1, <2>1, <2>2 DEF Knows, HaveDoc, HaveRow
        <2>4. Halfway(r)' /\ ~Half(r)
            BY <2>1 DEF Halfway, Half
        <2> QED  BY <2>1, <2>3, <2>4, FamilyLooks
    <1>5. CASE FoundDebit(r)
        <2>1. /\ pc[r] = "foundDebit" /\ families' = families
              /\ roster' = roster /\ job' = job /\ pc'[r] \in {"failed", "foundInsert"}
            BY <1>5 DEF FoundDebit, Passes, Goes, familyVars, Routes
        <2>3. Knows(r)'
            BY <1>1, <2>1 DEF Knows, HaveDoc, HaveRow
        <2>4. Halfway(r)' /\ ~Half(r)
            BY <2>1 DEF Halfway, Half
        <2> QED  BY <2>1, <2>3, <2>4, FamilyLooks
    <1>6. CASE FoundInsert(r)
        <2>1. /\ pc[r] = "foundInsert" /\ roster' = roster /\ job' = job
              /\ u \notin DOMAIN roster /\ r \notin DOMAIN families /\ call(r).op = "found"
              /\ Target(r) = r
            BY <1>1, <1>6 DEF FoundInsert, Passes, Goes, Knows, Target
        <2>2. CASE LeadsAnother(u, r)
            <3>1. families' = families /\ pc'[r] = "failed"
                BY <1>6, <2>2 DEF FoundInsert, Passes, Goes, Routes
            <3>2. Knows(r)' /\ Halfway(r)'
                BY <3>1, RestKnows, EndsApart DEF Services
            <3>3. ~Half(r)
                BY <2>1 DEF Half
            <3> QED  BY <2>1, <3>1, <3>2, <3>3, FamilyLooks
        <2>3. CASE ~LeadsAnother(u, r)
            <3>1. families' = Put(families, r, n) /\ pc'[r] = "foundLeader"
                BY <1>6, <2>3 DEF FoundInsert, Passes, Goes, Routes
            <3>2. /\ DOMAIN families' = DOMAIN families \cup {r} /\ families'[r] = n
                  /\ \A g \in DOMAIN families : families'[g] = families[g]
                BY <2>1, <3>1 DEF Put
            <3>3. RosterOk'
                BY <1>1, <2>1, <3>2 DEF RosterOk
            <3>4. DocsOk'
                BY <1>1, <1>2, <2>1, <2>3, <3>2 DEF DocsOk, LeadOne, LeadsAnother
            <3>5. \A v \in DOMAIN roster : roster[v].family # r
                BY <1>1, <2>1 DEF RosterOk
            <3>6. Knows(r)'
                BY <1>1, <2>1, <3>1, <3>2, <3>5 DEF Knows, HaveDoc, HaveRow
            <3>7. Halfway(r)' /\ Half(r)'
                BY <3>1 DEF Halfway, Half
            <3> QED  BY <2>1, <3>2, <3>3, <3>4, <3>6, <3>7, RowsStay, FamilyKeeps
        <2> QED  BY <2>2, <2>3
    <1>7. CASE FoundLeader(r)
        <2> DEFINE row == RosterRow(r, r, "leader", "active")
        <2>1. /\ pc[r] = "foundLeader" /\ families' = families
              /\ InsertRow(r, row, "done")
              /\ u \notin DOMAIN roster /\ r \in DOMAIN families /\ call(r).op = "found"
              /\ Target(r) = r /\ families[r] = n
              /\ \A v \in DOMAIN roster : roster[v].family # r
            BY <1>1, <1>7 DEF FoundLeader, Knows, Target
        <2>2. /\ DOMAIN row = RowFields /\ row.family = r /\ row.role = "leader"
              /\ row.status = "active"
            BY DEF RosterRow, RowFields
        <2> HIDE DEF row
        <2>3. /\ DOMAIN roster' = DOMAIN roster \cup {u} /\ roster'[u] = row
              /\ \A v \in DOMAIN roster : roster'[v] = roster[v]
              /\ Passes(r, "done")
            BY <2>1, RowComes
        <2>4. OnlyRow(u, r)
            BY <2>1, <2>2, <2>3 DEF OnlyRow
        <2>5. RosterOk' /\ (\A g : g # r => SameRows(g)) /\ membersOf(r)' = membersOf(r) \cup {u}
            BY <1>1, <2>1, <2>2, <2>3, <2>4, OnlyRowOk
        <2>6. membersOf(r) = {}
            BY <2>1 DEF membersOf
        <2>7. membersOf(r)' = {u}
            BY <2>5, <2>6
        <2>8. Matches(r, n)'
            <3>1. {v \in membersOf(r) : roster[v].role = "leader"}' = {u}
                BY <2>2, <2>3, <2>7
            <3>2. coLeadersOf(r)' = {}
                BY <2>2, <2>3, <2>7 DEF coLeadersOf
            <3>3. Cardinality(membersOf(r)') = 1
                BY <2>7, FS_Singleton
            <3> QED  BY <1>2, <3>1, <3>2, <3>3 DEF Matches
        <2>9. Matches(r, families[r])'
            BY <2>1, <2>8 DEF Matches
        <2>10. pc'[r] = "done"
            BY <2>3 DEF Passes, Goes, Routes
        <2>11. Knows(r)' /\ Halfway(r)'
            BY <2>10, RestKnows, EndsApart DEF Services
        <2> QED  BY <2>1, <2>5, <2>9, <2>11, FamilyRows
    <1> QED  BY <1>4, <1>5, <1>6, <1>7

LEMMA FamilyGrows ==
    ASSUME Routes, NEW r \in Requests, Serves(r, "families"), FamiliesStep(r)
    PROVE  /\ \/ DOMAIN families' = DOMAIN families
              \/ FoundInsert(r) /\ DOMAIN families' = DOMAIN families \cup {r}
           /\ pc'[r] \in {"foundDebit", "foundInsert"} => FoundFind(r) \/ FoundDebit(r)
    <1> USE DEF Passes, Goes, Routes, familyVars
    <1>1. ASSUME NEW new, NEW to, SaveFamily(r, new, to)
          PROVE  DOMAIN families' = DOMAIN families /\ pc'[r] \in {to, "failed"}
        BY <1>1 DEF SaveFamily
    <1>2. ASSUME NEW u, NEW row, NEW field, NEW value, NEW to, SavesRow(r, u, row, field, value, to)
          PROVE  pc'[r] \in {to, "failed"}
        BY <1>2 DEF SavesRow
    <1>3. CASE FoundFind(r) \/ FoundDebit(r)
        BY <1>3 DEF FoundFind, FoundDebit
    <1>4. CASE FoundInsert(r)
        BY <1>4 DEF FoundInsert, Put
    <1>5. CASE FoundLeader(r) \/ JoinInsert(r)
        BY <1>5 DEF FoundLeader, JoinInsert, InsertRow
    <1>6. CASE \/ JoinFamily(r) \/ Approve(r) \/ Reject(r) \/ Leave(r) \/ Kick(r) \/ Rank(r)
               \/ Transfer(r) \/ Settings(r) \/ SetStatus(r) \/ Sweep(r)
        BY <1>6 DEF JoinFamily, Approve, Reject, Leave, Kick, Rank, Transfer, Settings, SetStatus,
                    Sweep, ReadsFamily
    <1>7. CASE ApproveFind(r) \/ LeaveFind(r) \/ KickFind(r) \/ RankFind(r) \/ TransferFind(r)
        BY <1>7 DEF ApproveFind, LeaveFind, KickFind, RankFind, TransferFind, FindsRow
    <1>8. CASE CountUp(r) \/ CountDown(r)
        BY <1>1, <1>8 DEF CountUp, CountDown
    <1>9. CASE RankDocument(r) \/ TransferDocument(r) \/ SettingsSave(r) \/ StatusSave(r)
                \/ SweepSave(r)
        BY <1>1, <1>9 DEF RankDocument, TransferDocument, SettingsSave, StatusSave, SweepSave
    <1>10. CASE ApproveSave(r) \/ RankSave(r) \/ TransferNew(r) \/ TransferOld(r)
        BY <1>2, <1>10 DEF ApproveSave, RankSave, TransferNew, TransferOld
    <1>11. CASE RejectDelete(r) \/ DeleteRow(r) \/ DisbandRows(r) \/ SweepRows(r)
        BY <1>11 DEF RejectDelete, DeleteRow, DisbandRows, SweepRows
    <1> QED  BY <1>3, <1>4, <1>5, <1>6, <1>7, <1>8, <1>9, <1>10, <1>11 DEF FamiliesStep

LEMMA FeeKeeps ==
    ASSUME Routes, FeeInv, NEW r \in Requests, Serves(r, "families"), FamiliesStep(r)
    PROVE  FeeInv'
    <1>1. /\ load' = load /\ Requests' = Requests /\ (\A q : call(q)' = call(q)) /\ stops' = stops
          /\ ledger \subseteq ledger'
          /\ \A q \in Requests : q # r => pc'[q] = pc[q]
          /\ pc'[r] # "idle"
        BY EndsApart DEF Serves, Requests, call, Services
    <1>2. \A f : FamilyPaid(f) => FamilyPaid(f)'
        BY <1>1 DEF FamilyPaid, familyKey
    <1>3. /\ \/ DOMAIN families' = DOMAIN families
             \/ FoundInsert(r) /\ DOMAIN families' = DOMAIN families \cup {r}
          /\ pc'[r] \in {"foundDebit", "foundInsert"} => FoundFind(r) \/ FoundDebit(r)
        BY FamilyGrows
    <1>4. FoundFind(r) => /\ pc[r] = "idle" /\ call(r).op = "found"
                          /\ pc'[r] = "foundInsert" => call(r).free
        BY DEF FoundFind, Begins, Passes, Goes, Routes
    <1>5. FoundDebit(r) => /\ pc[r] = "foundDebit"
                           /\ pc'[r] = "foundInsert" => familyKey(r) \in ledger'
        BY DEF FoundDebit, Posts, Passes, Goes, Routes
    <1>6. /\ pc'[r] \in {"foundDebit", "foundInsert"} => call(r)'.op = "found"
          /\ pc'[r] = "foundInsert" => FamilyPaid(r)'
        BY <1>1, <1>3, <1>4, <1>5 DEF FeeInv, FamilyPaid, familyKey
    <1>7. ASSUME NEW f \in DOMAIN families' \ {0}
          PROVE  /\ f \in Requests /\ call(f)'.op = "found" /\ FamilyPaid(f)'
                 /\ pc'[f] \notin {"idle", "foundDebit", "foundInsert"}
        <2>1. CASE f \in DOMAIN families
            BY <1>1, <1>2, <1>3, <1>4, <1>5, <2>1 DEF FeeInv
        <2>2. CASE f \notin DOMAIN families
            <3>1. f = r /\ FoundInsert(r)
                BY <1>3, <2>2
            <3>2. pc[r] = "foundInsert" /\ ~FoundFind(r) /\ ~FoundDebit(r)
                BY <3>1 DEF FoundInsert, FoundFind, FoundDebit, Begins
            <3> QED  BY <1>1, <1>2, <1>3, <3>1, <3>2 DEF FeeInv
        <2> QED  BY <2>1, <2>2
    <1>8. \A q \in Requests : /\ pc'[q] \in {"foundDebit", "foundInsert"} => call(q)'.op = "found"
                              /\ pc'[q] = "foundInsert" => FamilyPaid(q)'
        BY <1>1, <1>2, <1>6 DEF FeeInv
    <1> QED  BY <1>1, <1>7, <1>8 DEF FeeInv

LEMMA FamilyStepKeeps ==
    ASSUME Routes, Patience, FamilyInv, NEW r \in Requests, Serves(r, "families"), FamiliesStep(r)
    PROVE  FamilyInv'
    <1>1. FeeInv'
        BY FeeKeeps DEF FamilyInv
    <1>2. ASSUME load.patient, SoloInv  PROVE SoloInv'
        <2>1. CASE FoundFind(r) \/ FoundDebit(r) \/ FoundInsert(r) \/ FoundLeader(r)
            BY <1>2, <2>1, FoundKeepsFamily DEF FamilyInv
        <2>2. CASE \/ JoinFamily(r) \/ Approve(r) \/ Reject(r) \/ Leave(r) \/ Kick(r) \/ Rank(r)
                   \/ Transfer(r) \/ Settings(r) \/ SetStatus(r) \/ Sweep(r)
            BY <1>2, <2>2, ReadsKeepFamily
        <2>3. CASE ApproveFind(r) \/ LeaveFind(r) \/ KickFind(r) \/ RankFind(r)
            BY <1>2, <2>3, RowsKeepFamily
        <2>4. CASE JoinInsert(r) \/ ApproveSave(r)
            BY <1>2, <2>4, JoinsKeepFamily
        <2>5. CASE CountUp(r) \/ CountDown(r)
            BY <1>2, <2>5, CountsKeepFamily
        <2>6. CASE DeleteRow(r)
            BY <1>2, <2>6, DeleteKeepsFamily
        <2>7. CASE RejectDelete(r) \/ DisbandRows(r) \/ SweepRows(r)
            BY <1>2, <2>7, DropsKeepFamily
        <2>8. CASE RankSave(r)
            BY <1>2, <2>8, RankKeepsFamily
        <2>9. CASE RankDocument(r) \/ SettingsSave(r) \/ StatusSave(r) \/ SweepSave(r)
            BY <1>2, <2>9, SavesKeepFamily
        <2>10. CASE TransferFind(r)
            BY <1>2, <2>10, TransferFindKeeps
        <2>11. CASE TransferDocument(r)
            BY <1>2, <2>11, TransferDocumentKeeps
        <2>12. CASE TransferNew(r)
            BY <1>2, <2>12, TransferNewKeeps
        <2>13. CASE TransferOld(r)
            BY <1>2, <2>13, TransferOldKeeps
        <2> QED  BY <2>1, <2>2, <2>3, <2>4, <2>5, <2>6, <2>7, <2>8, <2>9, <2>10, <2>11, <2>12,
                    <2>13 DEF FamiliesStep
    <1>3. load' = load /\ stops' = stops
        BY DEF Serves
    <1> QED  BY <1>1, <1>2, <1>3 DEF FamilyInv

\* A step of another service, and a request that stops.
LEMMA FamilyIdles ==
    ASSUME Routes, Routes', FamilyInv, families' = families, roster' = roster, Quiet("families")
    PROVE  FamilyInv'
    <1>1. /\ load' = load /\ stops' = stops /\ Requests' = Requests /\ \A q : call(q)' = call(q)
          /\ ledger \subseteq ledger'
          /\ \A q \in Requests : call(q).op \in Ops["families"] => pc'[q] = pc[q] /\ job'[q] = job[q]
        BY DEF Quiet, Requests, call
    <1>2. ASSUME NEW q \in Requests, pc'[q] \in Places["families"]
          PROVE  call(q).op \in Ops["families"]
        BY <1>1, <1>2 DEF Routes, Routed, Services
    <1>3. FeeInv'
        <2>1. "found" \in Ops["families"]
            BY DEF Ops
        <2>2. {"foundDebit", "foundInsert"} \subseteq Places["families"]
            BY DEF Places
        <2>3. \A f : FamilyPaid(f) => FamilyPaid(f)'
            BY <1>1 DEF FamilyPaid, familyKey
        <2> QED  BY <1>1, <1>2, <2>1, <2>2, <2>3 DEF FamilyInv, FeeInv
    <1>4. ASSUME SoloInv  PROVE SoloInv'
        <2>1. RosterOk' /\ DocsOk'
            BY <1>4 DEF SoloInv, RosterOk, DocsOk, LeadOne
        <2>2. ASSUME NEW q \in Requests
              PROVE  Knows(q)' /\ (Half(q) => Half(q)') /\ (RanksLeader(q) => RanksLeader(q)')
                     /\ (Revives(q) => Revives(q)')
            <3>1. CASE call(q).op \in Ops["families"]
                BY <1>1, <1>4, <3>1
                DEF SoloInv, Knows, Half, RanksLeader, Revives, doc
            <3>2. CASE call(q).op \notin Ops["families"]
                <4>1. pc[q] \notin Places["families"] /\ pc'[q] \notin Places["families"]
                    BY <1>2, <3>2 DEF Routes, Routed, Services
                <4>2. ~RanksLeader(q) /\ ~Revives(q)
                    BY <3>2 DEF RanksLeader, Revives, Ops
                <4> QED  BY <4>1, <4>2, RestKnows
            <3> QED  BY <3>1, <3>2
        <2>3. ASSUME NEW f, Kept(f)'  PROVE Kept(f)
            BY <1>1, <2>2, <2>3 DEF Kept, Spared
        <2>4. ASSUME NEW f  PROVE SameRows(f)
            BY RowsStay
        <2>5. ASSUME NEW q \in Requests  PROVE Halfway(q)'
            <3>1. CASE call(q).op \in Ops["families"]
                <4> SUFFICES ASSUME NEW f, f = call(q).family  PROVE Halfway(q)'
                    OBVIOUS
                <4>1. Kept(f)' => Kept(f)
                    BY <2>3
                <4>2. Halfway(q) /\ doc(q)' = doc(q)
                    BY <1>1, <1>4, <3>1 DEF SoloInv, doc
                <4>3. /\ membersOf(f)' = membersOf(f) /\ coLeadersOf(f)' = coLeadersOf(f)
                      /\ {v \in membersOf(f) : roster[v].role = "leader"}'
                         = {v \in membersOf(f) : roster[v].role = "leader"}
                    BY <2>4, SameMembers
                <4> QED  BY <1>1, <3>1, <4>1, <4>2, <4>3
                         DEF Halfway, CountedUp, CountedDown, Ranked, HandedOver, BothLead, Fits,
                             Matches, SoloOk
            <3>2. CASE call(q).op \notin Ops["families"]
                BY <1>2, <3>2, RestKnows
            <3> QED  BY <3>1, <3>2
        <2>6. ASSUME NEW f \in DOMAIN families, Kept(f)', \A q \in Requests : Half(q)' => Target(q)' # f
              PROVE  Matches(f, families[f])'
            <3>1. \A q \in Requests : Half(q) => Target(q) # f
                BY <1>1, <2>2, <2>6 DEF Target
            <3>2. Matches(f, families[f])
                BY <1>4, <2>3, <2>6, <3>1 DEF SoloInv
            <3>3. ASSUME NEW d, d = families[f]  PROVE Matches(f, d)'
                BY <2>4, <3>2, <3>3, SameMatches
            <3> QED  BY <3>3 DEF Matches
        <2> QED  BY <1>1, <2>1, <2>2, <2>5, <2>6 DEF SoloInv
    <1> QED  BY <1>1, <1>3, <1>4 DEF FamilyInv

LEMMA FamilyHalts ==
    ASSUME Routes, FamilyInv, families' = families, roster' = roster, NEW r \in Requests, Halts(r)
    PROVE  FamilyInv'
    <1>1. /\ load' = load /\ ledger' = ledger /\ stops' = stops + 1 /\ Requests' = Requests
          /\ pc'[r] = "stopped" /\ \A q \in Requests : q # r => pc'[q] = pc[q]
          /\ \A q : call(q)' = call(q)
        BY DEF Halts, Requests, call
    <1>2. stops \in Nat
        BY DEF FamilyInv, FeeInv
    <1>3. stops' # 0 /\ stops' \in Nat
        BY <1>1, <1>2
    <1>4. FeeInv'
        <2>1. \A f : FamilyPaid(f) => FamilyPaid(f)'
            BY <1>1 DEF FamilyPaid, familyKey
        <2> QED  BY <1>1, <1>3, <2>1 DEF FamilyInv, FeeInv
    <1> QED  BY <1>3, <1>4 DEF FamilyInv

LEMMA FamilyNext ==
    ASSUME Routes, Patience, FamilyInv, [Next]_vars
    PROVE  FamilyInv'
    <1>1. Routes' /\ "families" \in Services
        BY RoutesStep DEF Services
    <1>2. ASSUME NEW r \in Requests, Steps("families", r), Serves(r, "families")  PROVE FamilyInv'
        BY <1>2, FamilyStepKeeps DEF Steps
    <1>3. Untouched("families") => families' = families /\ roster' = roster
        BY DEF Untouched, familyVars
    <1>4. ASSUME NEW r \in Requests, Halts(r), Untouched("families")  PROVE FamilyInv'
        BY <1>3, <1>4, FamilyHalts
    <1>5. ASSUME Quiet("families"), Untouched("families")  PROVE FamilyInv'
        BY <1>1, <1>3, <1>5, FamilyIdles
    <1> QED  BY <1>1, <1>2, <1>4, <1>5, StepsTo

LEMMA FamilyStarts == Init => FamilyInv
    <1> SUFFICES ASSUME Init  PROVE FamilyInv
        OBVIOUS
    <1> DEFINE F == FirstFamily
               all == {F.leader} \cup F.co \cup F.members
    <1>1. /\ stops = 0 /\ \A r \in Requests : pc[r] = "idle"
        BY DEF Init, ServiceInit, Requests
    <1>2. /\ families = [f \in {0} |-> Document(F.leader, F.co, Cardinality(all), F.mode)]
          /\ roster = [u \in all |-> RosterRow(0, 0,
                IF u = F.leader THEN "leader" ELSE IF u \in F.co THEN "co" ELSE "member",
                "active")]
        BY DEF Init, FamiliesInit
    <1>3. FeeInv
        BY <1>1, <1>2 DEF FeeInv
    <1>4. /\ DOMAIN families = {0} /\ families[0].leader = F.leader /\ families[0].co = F.co
          /\ families[0].count = Cardinality(all) /\ families[0].solo = 0
          /\ DOMAIN families[0] = DocFields
        BY <1>2 DEF Document, DocFields
    <1>5. /\ DOMAIN roster = all
          /\ \A u \in all :
                /\ DOMAIN roster[u] = RowFields /\ roster[u].family = 0
                /\ roster[u].status = "active"
                /\ roster[u].role = IF u = F.leader THEN "leader"
                                    ELSE IF u \in F.co THEN "co" ELSE "member"
        BY <1>2 DEF RosterRow, RowFields
    <1>6. IsFiniteSet(all)
        BY FamilyAssumption, FS_Singleton, FS_Union
    <1> HIDE DEF all
    <1>7. RosterOk /\ DocsOk
        BY <1>4, <1>5, <1>6 DEF RosterOk, DocsOk, LeadOne
    <1>8. \A r \in Requests : Knows(r) /\ Halfway(r)
        BY <1>1, RestKnows, EndsApart DEF Services
    <1>9. Matches(0, families[0])
        <2>1. membersOf(0) = all
            BY <1>5 DEF membersOf
        <2>2. {u \in membersOf(0) : roster[u].role = "leader"} = {F.leader}
            BY <1>5, <2>1 DEF all
        <2>3. coLeadersOf(0) = F.co
            BY <1>5, <2>1, FamilyAssumption DEF coLeadersOf, all
        <2> QED  BY <1>4, <2>1, <2>2, <2>3 DEF Matches
    <1> QED  BY <1>3, <1>4, <1>7, <1>8, <1>9 DEF SoloInv, FamilyInv

\* families.service.ts: a family that was founded was paid for, unless its founder need not
\* pay; and after any sequence of joins, departures, promotions and transfers by users who
\* wait for each other, the roles, the list of co-leaders, the counter and the clock of the
\* sweep in a family's document are those of its rows.
THEOREM FamiliesAlwaysHold == Spec => []FamiliesHold
    <1> DEFINE I == Routes /\ Patience /\ FamilyInv
    <1>1. Init => I
        BY RoutesInit, PatienceInit, FamilyStarts
    <1>2. I /\ [Next]_vars => I'
        BY RoutesStep, PatienceStep, FamilyNext
    <1>3. FamilyInv => FamiliesHold
        <2> SUFFICES ASSUME FamilyInv  PROVE FamiliesHold
            OBVIOUS
        <2>1. \A f \in DOMAIN families \ {0} : call(f).free \/ familyKey(f) \in ledger
            BY DEF FamilyInv, FeeInv, FamilyPaid
        <2>2. ASSUME load.patient, stops = 0,
                     \A r \in Requests : pc[r] \in {"idle", "done", "failed"},
                     NEW f \in DOMAIN families, families[f].status # "disbanded", Spared(f)
              PROVE  Matches(f, families[f])
            <3>1. \A r \in Requests : ~Half(r)
                BY <2>2 DEF Half
            <3> QED  BY <2>2, <3>1 DEF FamilyInv, SoloInv, Kept
        <2> QED  BY <2>1, <2>2 DEF FamiliesHold
    <1> QED  BY <1>1, <1>2, <1>3, PTL DEF Spec

------------------------------------------------------------------------------
\* Accounts.  An address and a phone have one account each, and whoever has signed in holds
\* the account of his; of the numbers drawn for an account, all but the last were sold.

\* Which calls lead to a place.
Enrolling == {"registerEmail", "loginGoogle", "loginPhone"}
Leads ==
    [registerName |-> {"registerEmail"}, linkGoogle |-> {"loginGoogle"},
     rereadUser |-> {"loginGoogle"}, codeUse |-> {"loginPhone"}, phoneFind |-> {"loginPhone"},
     phoneName |-> {"loginPhone"},
     nextId |-> Enrolling, createUser |-> Enrolling, issue |-> Enrolling \cup {"loginEmail"},
     refreshIssue |-> {"refresh"}, refreshSave |-> {"refresh"},
     profileName |-> {"updateProfile"}, profileSave |-> {"updateProfile"},
     deleteWipe |-> {"deleteAccount"}]

AccountCalls == {r \in Requests : call(r).op \in Ops["accounts"]}
Led == \A r \in AccountCalls : pc[r] \in DOMAIN Leads => call(r).op \in Leads[pc[r]]

IdFields == Unique \cup {"google"}
IsUser(d) == DOMAIN d = {"number", "ids", "password", "status"} /\ DOMAIN d.ids = IdFields

\* The identities that two accounts never share.
Lasting == {"email", "phone"}
OneHolder ==
    \A u, v \in DOMAIN users : \A f \in Lasting :
        users[u].ids[f] = users[v].ids[f] /\ users[u].ids[f] # Absent => u = v

\* A Google id of an account was vouched for together with its address.
Vouched ==
    \A u \in DOMAIN users :
        users[u].ids.google # Absent =>
            \E s \in Asks("loginGoogle") :
                call(s).google = users[u].ids.google /\ call(s).email = users[u].ids.email

\* Account u is that of whoever calls r.
Owns(r, u) ==
    /\ u \in DOMAIN users
    /\ call(r).op = "loginGoogle" /\ OneAddress(call(r).google) =>
          users[u].ids.email = call(r).email
    /\ call(r).op = "loginPhone" => users[u].ids.phone = call(r).phone

Credentials(r) ==
    /\ {"ids", "password", "tries"} \subseteq DOMAIN job[r] /\ DOMAIN job[r].ids = IdFields
    /\ call(r).op = "loginGoogle" =>
          job[r].ids.google = call(r).google /\ job[r].ids.email = call(r).email
    /\ call(r).op = "loginPhone" => job[r].ids.phone = call(r).phone
    /\ call(r).op # "loginGoogle" => job[r].ids.google = Absent

Identified(r) ==
    /\ pc[r] \in {"nextId", "createUser"} => Credentials(r)
    /\ pc[r] = "linkGoogle" =>
          /\ "account" \in DOMAIN job[r] /\ Account(r) \in DOMAIN users
          /\ users[Account(r)].ids.email = call(r).email
    /\ pc[r] \in {"rereadUser", "issue"} => "account" \in DOMAIN job[r] /\ Owns(r, Account(r))

IdentityJob(r) ==
    /\ Identified(r)
    /\ r \in DOMAIN sessions /\ call(r).op \in Enrolling => Owns(r, sessions[r].account)

IdentityInv ==
    /\ \A u \in DOMAIN users : IsUser(users[u])
    /\ \A u \in DOMAIN users \cap AccountCalls : pc[u] \in {"issue"} \cup Over
    /\ OneHolder /\ Vouched
    /\ \A r \in AccountCalls : IdentityJob(r)

\* How many numbers up to n were sold.
SoldTo(n) == Cardinality({v \in VanityIds : v <= n})

NumberJob(r) ==
    /\ "tries" \in DOMAIN job[r] =>
          /\ pc[r] \in {"nextId", "createUser", "issue"} \cup Over
          /\ pc[r] = "issue" => job[r].doc.status = "active"
          /\ pc[r] = "failed" => Clashes(job[r].ids)
    /\ pc[r] = "nextId" => "tries" \in DOMAIN job[r] /\ job[r].tries \in 0 .. SoldTo(seq)
    /\ pc[r] = "createUser" =>
          /\ {"tries", "number"} \subseteq DOMAIN job[r] /\ job[r].number \in 1 .. seq
          /\ job[r].tries \in 1 .. SoldTo(job[r].number - 1) + 1
          /\ NumberTaken(job[r].number) => job[r].number \in VanityIds

NumberInv ==
    /\ seq \in Nat
    /\ \A u \in DOMAIN users : users[u].number \in VanityIds \cup 1 .. seq
    /\ \A r, s \in AccountCalls :
          pc[r] = "createUser" /\ pc[s] = "createUser" /\ job[r].number = job[s].number => r = s
    /\ \A r \in AccountCalls : NumberJob(r)

\* One live token for each sign-in, but those of X.
OneLive(X) ==
    \A t, s \in DOMAIN sessions \ X :
        Live(t) /\ Live(s) /\ sessions[t].from = sessions[s].from => t = s

SessionInv ==
    /\ \A t \in DOMAIN sessions :
          /\ t \in AccountCalls /\ pc[t] \in {"refreshSave"} \cup Over
          /\ DOMAIN sessions[t] = {"account", "revoked", "from"}
          /\ sessions[t].from \in DOMAIN sessions
    /\ \A r \in AccountCalls : pc[r] = "refreshIssue" => token(r) \in DOMAIN sessions
    /\ load.patient /\ stops = 0 =>
          /\ \A r \in AccountCalls : pc[r] = "refreshIssue" => Live(token(r))
          /\ \A r \in AccountCalls : pc[r] = "refreshSave" => OneLive({token(r)})
          /\ (\A r \in AccountCalls : pc[r] # "refreshSave") => OneLive({})

NoDeletion == Asks("deleteAccount") = {}
FewSold == Asks("updateProfile") = {} /\ Cardinality(VanityIds) < MaxRetry

AccountInv ==
    /\ Led /\ SessionInv
    /\ NoDeletion => IdentityInv /\ (FewSold => NumberInv)

\* How a request for an account goes on.
Turning == {"nextId", "createUser", "linkGoogle", "rereadUser", "issue", "refreshSave"}
\* It reads, or writes what the identities do not depend on.
Plain(r) ==
    /\ UNCHANGED <<users, seq, sessions>>
    /\ pc'[r] \notin Turning /\ pc[r] \notin {"nextId", "createUser", "refreshSave"}
    /\ pc'[r] \in DOMAIN Leads => call(r).op \in Leads[pc'[r]]
    /\ pc[r] = "issue" => job[r].doc.status # "active"
    /\ "tries" \in DOMAIN job'[r] => "tries" \in DOMAIN job[r]
    /\ pc'[r] = "refreshIssue" => Live(token(r))

\* It has found account u: by the name of a mail login, once more, or by its identity.
Meets1(r, u) ==
    /\ UNCHANGED <<users, seq, sessions>>
    /\ pc'[r] \in {"issue", "linkGoogle"} /\ job'[r].account = u
    /\ DOMAIN job'[r] = DOMAIN job[r] \cup {"account", "doc"}
    /\ \/ pc[r] = "rereadUser" /\ u = Account(r) /\ pc'[r] = "issue"
       \/ /\ pc[r] \in {"idle", "phoneFind"} /\ u \in DOMAIN users
          /\ \/ call(r).op = "loginEmail" /\ pc'[r] = "issue"
             \/ /\ call(r).op = "loginPhone" /\ pc'[r] = "issue"
                /\ users[u].ids.phone = call(r).phone
             \/ /\ call(r).op = "loginGoogle"
                /\ \/ users[u].ids.email = call(r).email
                   \/ users[u].ids.google = call(r).google /\ call(r).google # Absent
                /\ pc'[r] = "linkGoogle" => users[u].ids.google = Absent

Registers(r) ==
    /\ UNCHANGED <<users, seq, sessions>>
    /\ pc[r] \in {"idle", "registerName", "phoneFind", "phoneName"} /\ pc'[r] = "nextId"
    /\ call(r).op \in Enrolling /\ job'[r].tries = 0 /\ Credentials(r)'

\* It writes the document of an account, or its own.
Amends(r) ==
    /\ PasswordSave(r) \/ ProfileSave(r) \/ BanSave(r) \/ DeleteWipe(r)
    /\ pc'[r] \in {"done", "deleteDevices"} /\ job' = job /\ UNCHANGED <<seq, sessions>>

\* The steps whose effect is not one of those.
Others(r) ==
    \/ NextId(r) \/ CreateUser(r) \/ LinkGoogle(r)
    \/ Issue(r) /\ job[r].doc.status = "active"
    \/ RefreshIssue(r) \/ RefreshSave(r) \/ Logout(r)

\* Whatever another service does, and wherever a request stops, the calls stay as they are.
AccountsRest ==
    /\ load' = load /\ UNCHANGED accountVars /\ stops' >= stops
    /\ \A r \in AccountCalls : \/ pc'[r] = pc[r] /\ job'[r] = job[r]
                               \/ pc'[r] = "stopped" /\ stops' > 0

\* What a step of r may do to the accounts.
Keeps(r) ==
    /\ DOMAIN users \subseteq DOMAIN users'
    /\ \A u \in DOMAIN users :
          /\ IsUser(users'[u]) /\ users'[u].number = users[u].number
          /\ \A f \in Lasting : users'[u].ids[f] = users[u].ids[f]
          /\ \/ users'[u].ids.google = users[u].ids.google
             \/ pc[r] = "linkGoogle" /\ u = Account(r) /\ users'[u].ids.google = call(r).google
          /\ call(r).op # "updateProfile" => users'[u].ids.name = users[u].ids.name
    /\ \A u \in DOMAIN users' \ DOMAIN users :
          /\ u = r /\ pc[r] = "createUser" /\ pc'[r] = "issue"
          /\ ~NumberTaken(job[r].number) /\ ~Clashes(job[r].ids)
          /\ users'[r] = User(job[r].number, job[r].ids, job[r].password)

\* What a step of r may do to the refresh tokens.
Session(a, f) == [account |-> a, revoked |-> FALSE, from |-> f]
Revoking(r) ==
    /\ pc'[r] = "done" /\ DOMAIN sessions' = DOMAIN sessions
    /\ \A t \in DOMAIN sessions :
          sessions'[t] = IF t = token(r) THEN [sessions[t] EXCEPT !.revoked = TRUE] ELSE sessions[t]

SessionsMove(r) ==
    \/ sessions' = sessions /\ pc[r] # "refreshSave" /\ pc'[r] # "refreshSave"
       /\ (pc'[r] = "refreshIssue" => Live(token(r)))
    \/ pc[r] = "issue" /\ pc'[r] = "done" /\ sessions' = Put(sessions, r, Session(Account(r), r))
    \/ /\ pc[r] = "refreshIssue" /\ pc'[r] = "refreshSave"
       /\ sessions' = Put(sessions, r, Session(sessions[token(r)].account, sessions[token(r)].from))
    \/ Revoking(r) /\ (pc[r] = "refreshSave" \/ pc[r] = "idle")

LEMMA SeesIs ==
    ASSUME Routes, NEW r \in Requests, NEW ok, NEW to, Sees(r, ok, to)
    PROVE  /\ pc'[r] = (IF ok THEN to ELSE "failed") /\ job' = job
           /\ UNCHANGED <<users, seq, sessions>>
    BY DEF Sees, Passes, Goes, Routes, accountVars

LEMMA FindsIs ==
    ASSUME Routes, NEW r \in Requests, NEW u, NEW to, Finds(r, u, to)
    PROVE  /\ pc'[r] = to /\ UNCHANGED <<users, seq, sessions>>
           /\ job'[r].account = u /\ job'[r].doc = users[u]
           /\ DOMAIN job'[r] = DOMAIN job[r] \cup {"account", "doc"}
    BY LearnedOne DEF Finds, Goes, Routes, accountVars

LEMMA EnrolsIs ==
    ASSUME Routes, NEW r \in Requests, NEW ids, NEW p, Enrols(r, ids, p)
    PROVE  /\ pc'[r] = "nextId" /\ UNCHANGED <<users, seq, sessions>>
           /\ {"ids", "password", "tries"} \subseteq DOMAIN job'[r]
           /\ job'[r].ids = ids /\ job'[r].tries = 0
    BY LearnedOne DEF Enrols, Goes, Routes, accountVars

LEMMA PlainReads ==
    ASSUME Routes, Led, NEW r \in Requests, r \in AccountCalls,
           \/ RegisterEmail(r) \/ SendCode(r) \/ Refresh(r) \/ LoginPhone(r) \/ ProfileName(r)
           \/ SetPassword(r) \/ UpdateProfile(r) \/ Ban(r) \/ DeleteAccount(r)
    PROVE  Plain(r)
    <1> USE DEF Turning, Plain, Leads
    <1>1. CASE RegisterEmail(r) \/ SendCode(r) \/ Refresh(r)
        BY <1>1, SeesIs DEF RegisterEmail, SendCode, Refresh, Begins
    <1>2. CASE ProfileName(r)
        <2>1. call(r).op = "updateProfile"
            BY <1>2 DEF ProfileName, Led
        <2> QED  BY <1>2, <2>1, SeesIs DEF ProfileName
    <1>3. CASE LoginPhone(r)
        <2>1. CASE Sees(r, FALSE, "failed")
            BY <1>3, <2>1, SeesIs DEF LoginPhone, Begins
        <2>2. ASSUME NEW sent, NEW to \in {"codeDrop", "codeUse", "codeWrong"},
                     Learns(r, [sent |-> sent]), Goes(r, to), UNCHANGED accountVars
              PROVE  Plain(r)
            BY <1>3, <2>2, LearnedOne DEF LoginPhone, Begins, Goes, Routes, accountVars
        <2> QED  BY <1>3, <2>1, <2>2 DEF LoginPhone
    <1>4. ASSUME NEW to \in {"passwordSave", "profileName", "banSave", "deleteWipe"},
                 pc[r] = "idle", to \in DOMAIN Leads => call(r).op \in Leads[to],
                 (\E u : Finds(r, u, to)) \/ Sees(r, FALSE, to)
          PROVE  Plain(r)
        <2>1. CASE Sees(r, FALSE, to)
            BY <1>4, <2>1, SeesIs
        <2>2. CASE \E u : Finds(r, u, to)
            BY <1>4, <2>2, FindsIs
        <2> QED  BY <1>4, <2>1, <2>2
    <1>5. CASE SetPassword(r) \/ UpdateProfile(r) \/ Ban(r) \/ DeleteAccount(r)
        BY <1>4, <1>5 DEF SetPassword, UpdateProfile, Ban, DeleteAccount, Loads, Begins
    <1> QED  BY <1>1, <1>2, <1>3, <1>4, <1>5

LEMMA SeenPlain ==
    ASSUME Routes, NEW r \in Requests, NEW ok, NEW to, Sees(r, ok, to),
           to \notin Turning \cup DOMAIN Leads,
           pc[r] \notin {"nextId", "createUser", "issue", "refreshSave"}
    PROVE  Plain(r)
    <1>1. pc'[r] \in {to, "failed"} /\ job' = job /\ UNCHANGED <<users, seq, sessions>>
        BY SeesIs
    <1> QED  BY <1>1 DEF Plain, Turning, Leads

LEMMA AmendsIs ==
    ASSUME Routes, NEW r \in Requests,
           PasswordSave(r) \/ ProfileSave(r) \/ BanSave(r) \/ DeleteWipe(r)
    PROVE  Amends(r) \/ (Plain(r) /\ ProfileSave(r))
    <1> USE DEF Amends, Plain, Turning, Leads, Passes, Goes, Routes
    <1>1. CASE ProfileSave(r)
        <2>0. pc[r] = "profileSave"
            BY <1>1 DEF ProfileSave
        <2>1. CASE Sees(r, TRUE, "done")
            BY <1>1, <2>0, <2>1, SeenPlain
        <2>2. CASE Sees(r, FALSE, "failed")
            BY <1>1, <2>0, <2>2, SeenPlain
        <2>3. CASE Passes(r, "done") /\ UNCHANGED <<seq, codes, cooling, sessions>>
            BY <1>1, <2>3
        <2> QED  BY <1>1, <2>1, <2>2, <2>3 DEF ProfileSave
    <1>2. CASE PasswordSave(r) \/ BanSave(r) \/ DeleteWipe(r)
        BY <1>2 DEF PasswordSave, BanSave, DeleteWipe
    <1> QED  BY <1>1, <1>2

LEMMA PlainWrites ==
    ASSUME Routes, Led, NEW r \in Requests, r \in AccountCalls,
           SendCodeSet(r) \/ SendCodeCool(r) \/ CodeWrong(r) \/ DeleteDevices(r) \/ CodeDelete(r)
    PROVE  Plain(r)
    BY DEF SendCodeSet, SendCodeCool, CodeWrong, DeleteDevices, CodeDelete, Plain, Turning, Led, Leads,
       Passes, Goes, Routes, accountVars

LEMMA FindersMeet ==
    ASSUME Routes, Led, NEW r \in Requests, r \in AccountCalls, call(r)' = call(r),
           \/ LoginEmail(r) \/ LoginGoogle(r) \/ RereadUser(r) \/ PhoneFind(r) \/ PhoneName(r)
           \/ RegisterName(r)
    PROVE  Plain(r) \/ Registers(r) \/ \E u : Meets1(r, u)
    <1>0. ASSUME NEW u, NEW to \in {"issue", "linkGoogle"}, Finds(r, u, to),
                 \/ pc[r] = "rereadUser" /\ u = Account(r) /\ to = "issue"
                 \/ /\ pc[r] \in {"idle", "phoneFind"} /\ u \in DOMAIN users
                    /\ \/ call(r).op = "loginEmail" /\ to = "issue"
                       \/ /\ call(r).op = "loginPhone" /\ to = "issue"
                          /\ users[u].ids.phone = call(r).phone
                       \/ /\ call(r).op = "loginGoogle"
                          /\ \/ users[u].ids.email = call(r).email
                             \/ users[u].ids.google = call(r).google /\ call(r).google # Absent
                          /\ to = "linkGoogle" => users[u].ids.google = Absent
          PROVE  \E v : Meets1(r, v)
        BY <1>0, FindsIs DEF Meets1
    <1>1. ASSUME pc[r] \in {"idle", "registerName", "phoneFind", "phoneName"},
                 Sees(r, FALSE, "failed")
          PROVE  Plain(r)
        BY <1>1, SeenPlain DEF Turning, Leads
    <1>2. ASSUME pc[r] \in {"idle", "registerName", "phoneFind", "phoneName"},
                 NEW ids, NEW p, Enrols(r, ids, p), DOMAIN ids = IdFields,
                 /\ call(r).op \in Enrolling
                 /\ call(r).op = "loginGoogle" =>
                       ids.google = call(r).google /\ ids.email = call(r).email
                 /\ call(r).op = "loginPhone" => ids.phone = call(r).phone
                 /\ call(r).op # "loginGoogle" => ids.google = Absent
          PROVE  Registers(r)
        BY <1>2, EnrolsIs DEF Registers, Credentials
    <1>3. \A e, g, n, p : /\ DOMAIN [Blank EXCEPT !.email = e, !.name = n] = IdFields
                          /\ DOMAIN [Blank EXCEPT !.google = g, !.email = e] = IdFields
                          /\ DOMAIN [Blank EXCEPT !.phone = p, !.name = n] = IdFields
                          /\ [Blank EXCEPT !.email = e, !.name = n].google = Absent
                          /\ [Blank EXCEPT !.google = g, !.email = e].google = g
                          /\ [Blank EXCEPT !.google = g, !.email = e].email = e
                          /\ [Blank EXCEPT !.phone = p, !.name = n].phone = p
                          /\ [Blank EXCEPT !.phone = p, !.name = n].google = Absent
        BY DEF Blank, IdFields, Unique
    <1>4. CASE LoginEmail(r)
        <2>1. \A u : u \in Holders("email", call(r).email) => u \in DOMAIN users
            BY DEF Holders
        <2>2. pc[r] = "idle" /\ call(r).op = "loginEmail"
            BY <1>4 DEF LoginEmail, Begins
        <2> QED  BY <1>0, <1>1, <1>4, <2>1, <2>2 DEF LoginEmail
    <1>5. CASE LoginGoogle(r)
        <2>1. call(r).op = "loginGoogle" /\ pc[r] = "idle"
            BY <1>5 DEF LoginGoogle, Begins
        <2>2. ASSUME NEW u \in Holders("google", call(r).google) \cup Holders("email", call(r).email),
                     Finds(r, u, IF users[u].ids.google = Absent THEN "linkGoogle" ELSE "issue")
              PROVE  \E v : Meets1(r, v)
            <3>1. \/ u \in DOMAIN users /\ users[u].ids.email = call(r).email
                  \/ /\ u \in DOMAIN users /\ users[u].ids.google = call(r).google
                     /\ call(r).google # Absent
                BY <2>2 DEF Holders
            <3> QED  BY <1>0, <2>1, <2>2, <3>1
        <2> DEFINE ids == [Blank EXCEPT !.google = call(r).google, !.email = call(r).email]
        <2>3. ASSUME Enrols(r, ids, FALSE)  PROVE Registers(r)
            <3>1. DOMAIN ids = IdFields /\ ids.google = call(r).google /\ ids.email = call(r).email
                BY <1>3
            <3> HIDE DEF ids
            <3> QED  BY <1>2, <2>1, <2>3, <3>1 DEF Enrolling
        <2> QED  BY <1>5, <2>2, <2>3 DEF LoginGoogle
    <1>6. CASE RereadUser(r)
        BY <1>0, <1>6 DEF RereadUser
    <1>7. CASE PhoneFind(r) \/ PhoneName(r)
        <2>0. pc[r] \in {"phoneFind", "phoneName"}
            BY <1>7 DEF PhoneFind, PhoneName
        <2>1. call(r).op = "loginPhone" /\ pc[r] \in {"phoneFind", "phoneName"}
            BY <2>0 DEF Led, Leads
        <2>2. ASSUME PhoneFind(r), NEW u \in Holders("phone", call(r).phone), Finds(r, u, "issue")
              PROVE  \E v : Meets1(r, v)
            BY <1>0, <2>1, <2>2 DEF Holders, PhoneFind
        <2> DEFINE ids == [Blank EXCEPT !.phone = call(r).phone, !.name = call(r).name]
        <2>3. ASSUME Enrols(r, ids, FALSE)  PROVE Registers(r)
            <3>1. DOMAIN ids = IdFields /\ ids.phone = call(r).phone /\ ids.google = Absent
                BY <1>3
            <3> HIDE DEF ids
            <3> QED  BY <1>2, <2>1, <2>3, <3>1 DEF Enrolling
        <2>4. ASSUME Sees(r, TRUE, "phoneName")  PROVE Plain(r)
            <3>1. pc'[r] = "phoneName" /\ job' = job /\ UNCHANGED <<users, seq, sessions>>
                BY <2>4 DEF Sees, Passes, Goes, Routes, accountVars
            <3> QED  BY <2>1, <3>1 DEF Plain, Turning, Leads
        <2>5. ASSUME Sees(r, FALSE, "failed")  PROVE Plain(r)
            BY <1>1, <2>1, <2>5
        <2>6. CASE PhoneFind(r)
            BY <2>2, <2>3, <2>4, <2>6 DEF PhoneFind, PhoneEnrols
        <2>7. CASE PhoneName(r)
            BY <2>3, <2>5, <2>7 DEF PhoneName, PhoneEnrols
        <2> QED  BY <1>7, <2>6, <2>7
    <1>8. CASE RegisterName(r)
        <2>1. call(r).op = "registerEmail" /\ pc[r] = "registerName"
            BY <1>8 DEF RegisterName, Led, Leads
        <2> DEFINE ids == [Blank EXCEPT !.email = call(r).email, !.name = call(r).name]
        <2>2. ASSUME Enrols(r, ids, TRUE)  PROVE Registers(r)
            <3>1. DOMAIN ids = IdFields /\ ids.google = Absent
                BY <1>3
            <3> HIDE DEF ids
            <3> QED  BY <1>2, <2>1, <2>2, <3>1 DEF Enrolling
        <2> QED  BY <1>1, <1>8, <2>1, <2>2 DEF RegisterName
    <1> QED  BY <1>4, <1>5, <1>6, <1>7, <1>8

LEMMA AccountKinds ==
    ASSUME Routes, Led, NEW r \in Requests, AccountsStep(r)
    PROVE  /\ Serves(r, "accounts") /\ r \in AccountCalls
           /\ Plain(r) \/ Amends(r) \/ Registers(r) \/ Others(r) \/ \E u : Meets1(r, u)
    <1>1. Serves(r, "accounts") /\ r \in AccountCalls /\ call(r)' = call(r)
        BY AccountsServe DEF Serves, AccountCalls, call
    <1>2. CASE Issue(r) /\ job[r].doc.status # "active"
        <2>1. pc[r] = "issue" /\ Sees(r, FALSE, "failed")
            BY <1>2 DEF Issue
        <2>2. pc'[r] = "failed" /\ job' = job /\ UNCHANGED <<users, seq, sessions>>
            BY <2>1, SeesIs
        <2> QED  BY <1>1, <1>2, <2>1, <2>2 DEF Plain, Turning, Leads
    <1>3. CASE \/ NextId(r) \/ CreateUser(r) \/ LinkGoogle(r)
               \/ Issue(r) /\ job[r].doc.status = "active"
               \/ RefreshIssue(r) \/ RefreshSave(r) \/ Logout(r)
        BY <1>1, <1>3 DEF Others
    <1>4. CASE \/ LoginEmail(r) \/ LoginGoogle(r) \/ RereadUser(r) \/ PhoneFind(r) \/ PhoneName(r)
               \/ RegisterName(r)
        BY <1>1, <1>4, FindersMeet
    <1>5. CASE PasswordSave(r) \/ ProfileSave(r) \/ BanSave(r) \/ DeleteWipe(r)
        BY <1>1, <1>5, AmendsIs
    <1>6. CASE \/ SendCodeSet(r) \/ SendCodeCool(r) \/ CodeWrong(r) \/ CodeDelete(r)
               \/ DeleteDevices(r)
        BY <1>1, <1>6, PlainWrites
    <1>7. CASE \/ RegisterEmail(r) \/ SendCode(r) \/ Refresh(r) \/ LoginPhone(r)
               \/ ProfileName(r) \/ SetPassword(r) \/ UpdateProfile(r) \/ Ban(r)
               \/ DeleteAccount(r)
        BY <1>1, <1>7, PlainReads
    <1> QED  BY <1>1, <1>2, <1>3, <1>4, <1>5, <1>6, <1>7 DEF AccountsStep

LEMMA LedHere ==
    ASSUME Led, NEW r \in AccountCalls
    PROVE  /\ pc[r] \in {"linkGoogle", "rereadUser"} => call(r).op = "loginGoogle"
           /\ pc[r] \in {"codeUse", "phoneFind", "phoneName"} => call(r).op = "loginPhone"
           /\ pc[r] \in {"profileName", "profileSave"} => call(r).op = "updateProfile"
           /\ pc[r] \in {"refreshIssue", "refreshSave"} => call(r).op = "refresh"
           /\ pc[r] \in {"nextId", "createUser"} => call(r).op \in Enrolling
           /\ pc[r] = "deleteWipe" => call(r).op = "deleteAccount"
    BY DEF Led, Leads

LEMMA AccountSteps ==
    ASSUME Routes, [Next]_vars, Led, stops \in Nat
    PROVE  /\ load' = load /\ AccountCalls' = AccountCalls
           /\ \A q : call(q)' = call(q)
           /\ AccountsRest \/ \E r \in AccountCalls : AccountsStep(r) /\ Serves(r, "accounts")
    <1>1. "accounts" \in Services
        BY DEF Services
    <1>2. ASSUME NEW r \in Requests, AccountsStep(r)
          PROVE  r \in AccountCalls /\ Serves(r, "accounts")
        BY <1>2, AccountsServe DEF Serves, AccountCalls
    <1>3. ASSUME NEW r \in Requests, Halts(r), Untouched("accounts")  PROVE AccountsRest
        BY <1>3 DEF Halts, Untouched, AccountsRest, AccountCalls
    <1>4. ASSUME Quiet("accounts"), Untouched("accounts")  PROVE AccountsRest
        BY <1>4 DEF Quiet, Untouched, AccountsRest, AccountCalls
    <1>5. AccountsRest \/ \E r \in AccountCalls : AccountsStep(r) /\ Serves(r, "accounts")
        BY <1>1, <1>2, <1>3, <1>4, StepsTo DEF Steps
    <1>6. load' = load
        BY <1>5 DEF AccountsRest, Serves
    <1> QED  BY <1>5, <1>6 DEF AccountCalls, Requests, call

LEMMA LedKeeps ==
    ASSUME Routes, Led, NEW r \in Requests, AccountsStep(r)
    PROVE  Led'
    <1>1. Serves(r, "accounts") /\ r \in AccountCalls
        BY AccountKinds
    <1>2. AccountCalls' = AccountCalls /\ \A q : call(q)' = call(q)
        BY <1>1 DEF Serves, AccountCalls, Requests, call
    <1>3. pc'[r] \in DOMAIN Leads => call(r).op \in Leads[pc'[r]]
        <2>1. CASE Plain(r)
            BY <2>1 DEF Plain
        <2>2. CASE Amends(r) \/ Registers(r)
            BY <2>2 DEF Amends, Registers, Leads
        <2>3. CASE \E u : Meets1(r, u)
            <3>1. PICK u : Meets1(r, u)
                BY <2>3
            <3>2. pc[r] = "rereadUser" => call(r).op = "loginGoogle"
                BY <1>1 DEF Led, Leads
            <3>3. pc'[r] \in {"issue", "linkGoogle"}
                BY <3>1 DEF Meets1
            <3>4. /\ call(r).op \in {"loginEmail", "loginPhone", "loginGoogle"}
                  /\ pc'[r] = "linkGoogle" => call(r).op = "loginGoogle"
                BY <3>1, <3>2 DEF Meets1
            <3> QED  BY <3>3, <3>4 DEF Leads, Enrolling
        <2>4. CASE Others(r)
            <3> USE DEF Passes, Goes, Routes
            <3>1. CASE NextId(r) \/ LinkGoogle(r) \/ RefreshIssue(r)
                <4>1. \/ pc[r] = "nextId" /\ pc'[r] = "createUser"
                      \/ pc[r] = "linkGoogle" /\ pc'[r] = "rereadUser"
                      \/ pc[r] = "refreshIssue" /\ pc'[r] = "refreshSave"
                    BY <3>1 DEF NextId, LinkGoogle, RefreshIssue, Starts
                <4> QED  BY <1>1, <4>1 DEF Led, Leads
            <3>2. CASE (Issue(r) /\ job[r].doc.status = "active") \/ RefreshSave(r) \/ Logout(r)
                BY <3>2 DEF Issue, RefreshSave, Logout, Revokes, Starts, Leads
            <3>3. CASE CreateUser(r)
                <4>1. pc[r] = "createUser" /\ pc'[r] \in {"nextId", "failed", "issue"}
                    BY <3>3 DEF CreateUser, Sees
                <4> QED  BY <1>1, <4>1 DEF Led, Leads
            <3> QED  BY <2>4, <3>1, <3>2, <3>3 DEF Others
        <2> QED  BY <2>1, <2>2, <2>3, <2>4, AccountKinds
    <1> QED  BY <1>1, <1>2, <1>3 DEF Led, Serves, AccountCalls

LEMMA UsersKeep ==
    ASSUME Routes, Led, NoDeletion, NEW r \in AccountCalls, AccountsStep(r), r \in Requests,
           \A u \in DOMAIN users : IsUser(users[u]),
           r \in DOMAIN users => pc[r] \in {"issue"} \cup Over
    PROVE  Keeps(r)
    <1>1. ASSUME users' = users  PROVE Keeps(r)
        BY <1>1 DEF Keeps
    <1> DEFINE Changed(a, d) ==
                  /\ users' = [users EXCEPT ![a] = d]
                  /\ a \in DOMAIN users => IsUser(d) /\ d.number = users[a].number
                  /\ \A f \in Lasting : d.ids[f] = users[a].ids[f]
                  /\ \/ d.ids.google = users[a].ids.google
                     \/ pc[r] = "linkGoogle" /\ a = Account(r) /\ d.ids.google = call(r).google
                  /\ call(r).op # "updateProfile" => d.ids.name = users[a].ids.name
    <1>2. ASSUME NEW a, NEW d, Changed(a, d)  PROVE Keeps(r)
        <2>1. DOMAIN users' = DOMAIN users
            BY <1>2
        <2>2. \A u \in DOMAIN users : users'[u] = IF u = a THEN d ELSE users[u]
            BY <1>2
        <2> QED  BY <1>2, <2>1, <2>2 DEF Keeps
    <1> HIDE DEF Changed
    <1>3. CASE LinkGoogle(r)
        <2> DEFINE a == Account(r)
                   ids == users[a].ids
                   g == IF ids.google \in {Absent, call(r).google} THEN call(r).google ELSE ids.google
                   d == [users[a] EXCEPT !.ids = [ids EXCEPT !.google = g]]
        <2>1. users' = [users EXCEPT ![a] = d] /\ pc[r] = "linkGoogle"
            BY <1>3 DEF LinkGoogle
        <2>2. CASE a \in DOMAIN users
            <3>1. /\ IsUser(d) /\ d.number = users[a].number /\ d.ids.google = g
                  /\ \A f \in Lasting : d.ids[f] = users[a].ids[f]
                  /\ d.ids.name = users[a].ids.name
                BY <2>2 DEF IsUser, IdFields, Unique, Lasting
            <3>2. g \in {users[a].ids.google, call(r).google}
                OBVIOUS
            <3>3. d.ids.google = users[a].ids.google \/ d.ids.google = call(r).google
                BY <3>1, <3>2
            <3> HIDE DEF d, g, ids
            <3>4. Changed(a, d)
                BY <2>1, <3>1, <3>3 DEF Changed
            <3> QED  BY <1>2, <3>4
        <2>3. CASE a \notin DOMAIN users
            BY <2>1, <2>3 DEF Keeps
        <2> QED  BY <2>2, <2>3
    <1>4. CASE Amends(r) /\ users' # users
        <2>1. pc[r] = "profileSave" => call(r).op = "updateProfile"
            BY DEF Led, Leads
        <2>2. pc[r] # "deleteWipe"
            BY DEF Led, Leads, NoDeletion, Asks
        <2> DEFINE a == Account(r)
        <2>3. PICK d : /\ users' = [users EXCEPT ![a] = d]
                       /\ \/ d = [users[a] EXCEPT !.password = TRUE]
                          \/ \E s : d = [users[a] EXCEPT !.status = s]
                          \/ d = [users[a] EXCEPT !.ids = [@ EXCEPT !.name = call(r).name]]
                             /\ call(r).op = "updateProfile"
            <3>1. CASE PasswordSave(r) \/ BanSave(r)
                BY <3>1 DEF PasswordSave, BanSave
            <3>2. CASE ProfileSave(r) /\ users' # users
                <4>1. ASSUME NEW ok, NEW to, Sees(r, ok, to)  PROVE FALSE
                    BY <3>2, <4>1, SeesIs
                <4> QED  BY <2>1, <3>2, <4>1 DEF ProfileSave
            <3> QED  BY <1>4, <2>2, <3>1, <3>2 DEF Amends, DeleteWipe
        <2>4. CASE a \in DOMAIN users
            <3>1. IsUser(users[a])
                BY <2>4
            <3>2. /\ IsUser(d) /\ d.number = users[a].number
                  /\ \A f \in Lasting : d.ids[f] = users[a].ids[f]
                  /\ d.ids.google = users[a].ids.google
                  /\ call(r).op # "updateProfile" => d.ids.name = users[a].ids.name
                BY <2>3, <3>1 DEF IsUser, IdFields, Unique, Lasting
            <3>3. Changed(a, d)
                BY <2>3, <3>2 DEF Changed
            <3> QED  BY <1>2, <3>3
        <2>5. CASE a \notin DOMAIN users
            BY <2>3, <2>5 DEF Keeps
        <2> QED  BY <2>4, <2>5
    <1>5. CASE CreateUser(r) /\ users' # users
        <2>1. /\ pc[r] = "createUser" /\ ~NumberTaken(job[r].number) /\ ~Clashes(job[r].ids)
              /\ users' = Put(users, r, User(job[r].number, job[r].ids, job[r].password))
              /\ pc'[r] = "issue"
            BY <1>5, SeesIs DEF CreateUser, User, Goes, Routes
        <2>2. r \notin DOMAIN users
            BY <2>1 DEF Over
        <2> QED  BY <2>1, <2>2 DEF Keeps, Put
    <1>6. CASE \/ NextId(r) \/ (Issue(r) /\ job[r].doc.status = "active") \/ RefreshIssue(r)
               \/ RefreshSave(r) \/ Logout(r)
        BY <1>1, <1>6 DEF NextId, Issue, RefreshIssue, RefreshSave, Logout, Starts, Revokes
    <1>7. CASE Plain(r) \/ Registers(r) \/ \E u : Meets1(r, u)
        BY <1>1, <1>7 DEF Plain, Registers, Meets1
    <1> QED  BY <1>1, <1>3, <1>4, <1>5, <1>6, <1>7, AccountKinds DEF Others

LEMMA SessionsStep ==
    ASSUME Routes, Led, NEW r \in AccountCalls, r \in Requests, AccountsStep(r)
    PROVE  SessionsMove(r)
    <1> USE DEF SessionsMove
    <1>1. CASE Plain(r) \/ Registers(r) \/ \E u : Meets1(r, u)
        BY <1>1 DEF Plain, Turning, Registers, Meets1
    <1>2. CASE Amends(r)
        BY <1>2 DEF Amends, PasswordSave, ProfileSave, BanSave, DeleteWipe
    <1>3. CASE NextId(r) \/ CreateUser(r) \/ LinkGoogle(r)
        BY <1>3 DEF NextId, CreateUser, LinkGoogle, Sees, Passes, Goes, Routes, accountVars
    <1>4. CASE (Issue(r) /\ job[r].doc.status = "active") \/ RefreshIssue(r)
        BY <1>4 DEF Issue, RefreshIssue, Starts, Session, Passes, Goes, Routes
    <1>5. CASE RefreshSave(r) \/ Logout(r)
        <2>1. Revokes(r) /\ (pc[r] = "refreshSave" \/ pc[r] = "idle")
            BY <1>5 DEF RefreshSave, Logout, Begins
        <2>2. pc'[r] = "done"
            BY <2>1 DEF Revokes, Passes, Goes, Routes
        <2> QED  BY <2>1, <2>2 DEF Revokes, Revoking
    <1> QED  BY <1>1, <1>2, <1>3, <1>4, <1>5, AccountKinds DEF Others

LEMMA IdentityJobs ==
    ASSUME Routes, Led, IdentityInv, NEW r \in AccountCalls, r \in Requests, AccountsStep(r),
           Keeps(r), \A q : call(q)' = call(q), load' = load
    PROVE  Identified(r)'
    <1>1. Identified(r) /\ Requests' = Requests
        BY DEF IdentityInv, IdentityJob, Requests
    <1> USE DEF Identified
    <1>2. \A g : OneAddress(g)' <=> OneAddress(g)
        BY <1>1 DEF OneAddress, Asks
    <1>3. CASE Plain(r) \/ Amends(r)
        BY <1>3 DEF Plain, Amends, Turning
    <1>4. CASE Registers(r)
        BY <1>4 DEF Registers
    <1>5. ASSUME NEW u, Meets1(r, u)
          PROVE  /\ pc'[r] \in {"linkGoogle", "issue"} /\ "account" \in DOMAIN job'[r]
                 /\ job'[r].account = u /\ users' = users /\ Owns(r, u)
                 /\ pc'[r] = "linkGoogle" => users[u].ids.email = call(r).email
        <2>1. CASE pc[r] = "rereadUser"
            BY <1>1, <1>5, <2>1 DEF Meets1
        <2>2. CASE call(r).op = "loginGoogle" /\ u \in DOMAIN users
            <3>1. CASE users[u].ids.email = call(r).email
                BY <1>5, <2>2, <3>1 DEF Meets1, Owns
            <3>2. CASE users[u].ids.google = call(r).google /\ call(r).google # Absent
                <4>1. PICK s \in Asks("loginGoogle") :
                         call(s).google = call(r).google /\ call(s).email = users[u].ids.email
                    BY <2>2, <3>2 DEF IdentityInv, Vouched
                <4>2. OneAddress(call(r).google) => users[u].ids.email = call(r).email
                    BY <2>2, <4>1 DEF OneAddress, Asks
                <4> QED  BY <1>5, <2>2, <3>2, <4>2 DEF Meets1, Owns
            <3> QED  BY <1>5, <2>1, <2>2, <3>1, <3>2 DEF Meets1
        <2> QED  BY <1>5, <2>1, <2>2 DEF Meets1, Owns
    <1>6. CASE \E u : Meets1(r, u)
        <2>1. PICK u : Meets1(r, u)
            BY <1>6
        <2>2. Owns(r, u)' /\ job'[r].account = u
            BY <1>2, <1>5, <2>1 DEF Owns
        <2>3. pc'[r] \in {"linkGoogle", "issue"} /\ "account" \in DOMAIN job'[r]
            BY <1>5, <2>1
        <2>4. pc'[r] = "linkGoogle" => users'[u].ids.email = call(r).email /\ u \in DOMAIN users'
            BY <1>5, <2>1 DEF Owns
        <2> QED  BY <2>2, <2>3, <2>4 DEF Account
    <1>7. CASE NextId(r)
        <2>1. Credentials(r)
            BY <1>1, <1>7 DEF IdentityJob, NextId
        <2>2. pc'[r] = "createUser"
            BY <1>7 DEF NextId, Goes, Routes
        <2>3. Credentials(r)'
            <3>1. /\ DOMAIN job'[r] = DOMAIN job[r] \cup {"number", "tries"}
                  /\ job'[r].ids = job[r].ids
                <4> DEFINE f == [number |-> seq + 1, tries |-> job[r].tries + 1]
                <4>1. Learns(r, f) /\ DOMAIN f = {"number", "tries"}
                    BY <1>7 DEF NextId
                <4>2. "ids" \in DOMAIN job[r]
                    BY <2>1 DEF Credentials
                <4> HIDE DEF f
                <4> QED  BY <4>1, <4>2, LearnedOne
            <3> QED  BY <2>1, <3>1 DEF Credentials
        <2> QED  BY <2>2, <2>3
    <1>8. CASE CreateUser(r)
        <2>1. Credentials(r) /\ pc[r] = "createUser"
            BY <1>1, <1>8 DEF CreateUser
        <2>2. ASSUME NEW ok, NEW to \in {"nextId", "failed"}, Sees(r, ok, to)
              PROVE  pc'[r] \in {"nextId", "failed"} /\ Credentials(r)'
            BY <2>1, <2>2, SeesIs DEF Credentials
        <2>3. CASE /\ users' = Put(users, r, User(job[r].number, job[r].ids, job[r].password))
                   /\ Goes(r, "issue")
                   /\ Learns(r, [account |-> r, doc |-> User(job[r].number, job[r].ids, job[r].password)])
            <3>1. pc'[r] = "issue" /\ "account" \in DOMAIN job'[r] /\ job'[r].account = r
                BY <2>3, LearnedOne DEF Goes, Routes
            <3>2. r \in DOMAIN users' /\ users'[r].ids = job[r].ids
                BY <2>3 DEF Put, User
            <3>3. Owns(r, r)'
                BY <2>1, <3>2 DEF Credentials, Owns
            <3> QED  BY <3>1, <3>3 DEF Account
        <2> QED  BY <1>8, <2>2, <2>3 DEF CreateUser
    <1>9. CASE LinkGoogle(r)
        <2>1. /\ "account" \in DOMAIN job[r] /\ Account(r) \in DOMAIN users
              /\ users[Account(r)].ids.email = call(r).email
            BY <1>1, <1>9 DEF LinkGoogle
        <2>0. call(r).op = "loginGoogle"
            BY <1>9, LedHere DEF LinkGoogle
        <2>2. job' = job /\ pc'[r] = "rereadUser"
            BY <1>9 DEF LinkGoogle, Passes, Goes, Routes
        <2>3. Account(r) \in DOMAIN users' /\ users'[Account(r)].ids.email = call(r).email
            BY <2>1 DEF Keeps, Lasting
        <2> QED  BY <2>0, <2>1, <2>2, <2>3 DEF Owns, Account
    <1>10. CASE \/ (Issue(r) /\ job[r].doc.status = "active") \/ RefreshIssue(r)
                \/ RefreshSave(r) \/ Logout(r)
        BY <1>10 DEF Issue, RefreshIssue, RefreshSave, Logout, Starts, Revokes, Passes, Goes, Routes
    <1> QED  BY <1>3, <1>4, <1>6, <1>7, <1>8, <1>9, <1>10, AccountKinds DEF Others

LEMMA AccountsIssue ==
    ASSUME Routes, Led, NEW r \in AccountCalls, r \in Requests, AccountsStep(r), pc[r] = "issue"
    PROVE  pc'[r] \in {"done", "failed"}
    <1>1. Issue(r)
        BY DEF AccountsStep, NextId, CreateUser, RegisterEmail, RegisterName, LoginEmail, LoginGoogle,
            LinkGoogle, RereadUser, SendCode, SendCodeSet, SendCodeCool, LoginPhone, CodeWrong, CodeDelete,
            PhoneFind, PhoneName, Issue, Refresh, RefreshIssue, RefreshSave, Logout, SetPassword, PasswordSave,
            UpdateProfile, ProfileName, ProfileSave, Ban, BanSave, DeleteAccount, DeleteWipe, DeleteDevices,
            Loads, Begins
    <1> QED  BY <1>1 DEF Issue, Sees, Starts, Passes, Goes, Routes

\* A token is its account's, and of its sign-in, for good.
LEMMA SessionsSame ==
    ASSUME SessionInv, NEW r \in AccountCalls, SessionsMove(r), NEW t \in DOMAIN sessions'
    PROVE  \/ /\ t \in DOMAIN sessions /\ sessions'[t].account = sessions[t].account
              /\ sessions'[t].from = sessions[t].from /\ DOMAIN sessions'[t] = DOMAIN sessions[t]
              /\ sessions[t].revoked => sessions'[t].revoked
           \/ t = r /\ pc[r] = "issue" /\ sessions'[r] = Session(Account(r), r)
           \/ /\ t = r /\ pc[r] = "refreshIssue"
              /\ sessions'[r] = Session(sessions[token(r)].account, sessions[token(r)].from)
    <1>1. CASE sessions' = sessions
        BY <1>1
    <1>2. ASSUME NEW s, sessions' = Put(sessions, r, s)
          PROVE  \/ t \in DOMAIN sessions /\ sessions'[t] = sessions[t]
                 \/ t = r /\ sessions'[r] = s
        BY <1>2 DEF Put
    <1>3. CASE Revoking(r)
        <2>1. t \in DOMAIN sessions /\ DOMAIN sessions[t] = {"account", "revoked", "from"}
            BY <1>3 DEF Revoking, SessionInv
        <2>2. sessions'[t] = sessions[t] \/ sessions'[t] = [sessions[t] EXCEPT !.revoked = TRUE]
            BY <1>3, <2>1 DEF Revoking
        <2> QED  BY <2>1, <2>2
    <1> QED  BY <1>1, <1>2, <1>3 DEF SessionsMove

LEMMA IdentitySteps ==
    ASSUME Routes, Led, NoDeletion, IdentityInv, SessionInv, NEW r \in AccountCalls, r \in Requests,
           AccountsStep(r), Serves(r, "accounts")
    PROVE  IdentityInv'
    <1>1. /\ load' = load /\ AccountCalls' = AccountCalls /\ Requests' = Requests
          /\ \A q : call(q)' = call(q)
          /\ \A q \in Requests : q # r => pc'[q] = pc[q] /\ job'[q] = job[q]
        BY DEF Serves, AccountCalls, Requests, call
    <1>2. /\ \A op : Asks(op)' = Asks(op)
          /\ \A g : OneAddress(g)' <=> OneAddress(g)
        BY <1>1 DEF Asks, OneAddress
    <1>3. /\ \A u \in DOMAIN users : IsUser(users[u])
          /\ \A u \in DOMAIN users \cap AccountCalls : pc[u] \in {"issue"} \cup Over
          /\ OneHolder /\ Vouched
          /\ \A q \in AccountCalls : IdentityJob(q)
        BY DEF IdentityInv
    <1>4. Keeps(r)
        BY <1>3, UsersKeep
    <1>5. ASSUME NEW u \in DOMAIN users' \ DOMAIN users
          PROVE  /\ u = r /\ pc'[r] = "issue" /\ ~Clashes(job[r].ids) /\ Credentials(r)
                 /\ users'[u].ids = job[r].ids /\ IsUser(users'[u])
        <2>1. /\ u = r /\ pc'[r] = "issue" /\ ~Clashes(job[r].ids) /\ pc[r] = "createUser"
              /\ users'[u] = User(job[r].number, job[r].ids, job[r].password)
            BY <1>4, <1>5 DEF Keeps
        <2>2. Credentials(r)
            BY <1>3, <2>1 DEF IdentityJob, Identified
        <2>3. \A n, i, p : DOMAIN User(n, i, p) = {"number", "ids", "password", "status"}
                           /\ User(n, i, p).ids = i
            BY DEF User
        <2> DEFINE d == User(job[r].number, job[r].ids, job[r].password)
        <2>4. users'[u] = d /\ d.ids = job[r].ids /\ DOMAIN d = {"number", "ids", "password", "status"}
            BY <2>1, <2>3
        <2> HIDE DEF d
        <2>5. DOMAIN job[r].ids = IdFields
            BY <2>2 DEF Credentials
        <2>6. IsUser(d)
            BY <2>4, <2>5 DEF IsUser
        <2> QED  BY <2>1, <2>2, <2>4, <2>6
    <1>6. \A u \in DOMAIN users' : IsUser(users'[u])
        BY <1>4, <1>5 DEF Keeps
    <1>7. \A u \in DOMAIN users' \cap AccountCalls : pc'[u] \in {"issue"} \cup Over
        <2> SUFFICES ASSUME NEW u \in DOMAIN users' \cap AccountCalls
                     PROVE  pc'[u] \in {"issue"} \cup Over
            OBVIOUS
        <2>1. CASE u \notin DOMAIN users
            BY <1>5, <2>1
        <2>2. CASE u \in DOMAIN users /\ u # r
            BY <1>1, <1>3, <2>2 DEF AccountCalls
        <2>3. CASE u \in DOMAIN users /\ u = r
            <3>1. pc[r] = "issue"
                BY <1>3, <2>3 DEF Serves, Takes, UnderWay, Begins, Over
            <3>3. pc'[r] \in Over
                BY <3>1, AccountsIssue DEF Over
            <3> QED  BY <2>3, <3>3
        <2> QED  BY <2>1, <2>2, <2>3
    <1>8. OneHolder'
        <2> SUFFICES ASSUME NEW u \in DOMAIN users', NEW v \in DOMAIN users', NEW f \in Lasting,
                            users'[u].ids[f] = users'[v].ids[f], users'[u].ids[f] # Absent
                     PROVE  u = v
            BY DEF OneHolder
        <2>1. ASSUME NEW w \in DOMAIN users, NEW n \in DOMAIN users' \ DOMAIN users,
                     users'[w].ids[f] = users'[n].ids[f], users'[n].ids[f] # Absent
              PROVE  FALSE
            <3>1. users[w].ids[f] = job[r].ids[f] /\ job[r].ids[f] # Absent
                BY <1>4, <1>5, <2>1 DEF Keeps
            <3> QED  BY <1>5, <2>1, <3>1 DEF Clashes, Holders, Unique, Lasting
        <2>2. CASE u \in DOMAIN users /\ v \in DOMAIN users
            <3>1. users'[u].ids[f] = users[u].ids[f] /\ users'[v].ids[f] = users[v].ids[f]
                BY <1>4, <2>2 DEF Keeps
            <3>2. users[u].ids[f] = users[v].ids[f] /\ users[u].ids[f] # Absent
                BY <3>1
            <3> QED  BY <1>3, <2>2, <3>2 DEF OneHolder
        <2>3. CASE u \notin DOMAIN users /\ v \notin DOMAIN users
            <3>1. \A w \in DOMAIN users' \ DOMAIN users : w = r
                BY <1>4 DEF Keeps
            <3> QED  BY <2>3, <3>1
        <2> QED  BY <2>1, <2>2, <2>3
    <1>9. Vouched'
        <2> SUFFICES ASSUME NEW u \in DOMAIN users', users'[u].ids.google # Absent
                     PROVE  \E s \in Asks("loginGoogle") :
                               /\ call(s).google = users'[u].ids.google
                               /\ call(s).email = users'[u].ids.email
            BY <1>1, <1>2 DEF Vouched
        <2>1. CASE u \in DOMAIN users /\ users'[u].ids.google = users[u].ids.google
            BY <1>3, <1>4, <2>1 DEF Vouched, Keeps, Lasting
        <2>2. CASE u \in DOMAIN users /\ users'[u].ids.google # users[u].ids.google
            <3>1. pc[r] = "linkGoogle" /\ u = Account(r) /\ users'[u].ids.google = call(r).google
                BY <1>4, <2>2 DEF Keeps
            <3>2. users'[u].ids.email = call(r).email
                BY <1>3, <1>4, <2>2, <3>1 DEF IdentityJob, Identified, Keeps, Lasting
            <3> QED  BY <3>1, <3>2, LedHere DEF Asks
        <2>3. CASE u \notin DOMAIN users
            BY <1>5, <2>3 DEF Credentials, Asks
        <2> QED  BY <2>1, <2>2, <2>3
    <1>10. ASSUME NEW q \in AccountCalls, NEW u, Owns(q, u)  PROVE Owns(q, u)'
        BY <1>1, <1>2, <1>4, <1>10 DEF Owns, Keeps, Lasting
    <1>11. ASSUME NEW q \in AccountCalls  PROVE Identified(q)'
        <2>1. CASE q = r
            BY <1>1, <1>4, <2>1, IdentityJobs
        <2>2. CASE q # r
            <3>1. pc'[q] = pc[q] /\ job'[q] = job[q] /\ Identified(q)
                BY <1>1, <1>3, <2>2 DEF AccountCalls, IdentityJob
            <3>2. pc[q] \in {"rereadUser", "issue"} => Owns(q, Account(q))'
                BY <1>10, <3>1 DEF Identified, Account, Owns
            <3>3. pc[q] = "linkGoogle" =>
                     Account(q) \in DOMAIN users' /\ users'[Account(q)].ids.email = call(q).email
                BY <1>4, <3>1 DEF Identified, Keeps, Lasting
            <3>4. Credentials(q) => Credentials(q)'
                BY <1>1, <3>1 DEF Credentials
            <3> QED  BY <1>1, <3>1, <3>2, <3>3, <3>4 DEF Identified, Account
        <2> QED  BY <2>1, <2>2
    <1>12. ASSUME NEW q \in AccountCalls, q \in DOMAIN sessions', call(q).op \in Enrolling
           PROVE  \E u : u = sessions'[q].account /\ Owns(q, u)'
        <2>0. SessionsMove(r)
            BY SessionsStep
        <2>4. pc[r] = "issue" => Owns(r, Account(r)) /\ Session(Account(r), r).account = Account(r)
            BY <1>3 DEF IdentityJob, Identified, Session
        <2>1. CASE q \in DOMAIN sessions /\ sessions'[q].account = sessions[q].account
            BY <1>3, <1>10, <1>12, <2>1 DEF IdentityJob
        <2>2. CASE q = r /\ pc[r] = "issue" /\ sessions'[r] = Session(Account(r), r)
            BY <1>10, <2>2, <2>4
        <2>3. CASE q = r /\ pc[r] = "refreshIssue"
            BY <1>12, <2>3, LedHere DEF Enrolling
        <2> QED  BY <1>12, <2>0, <2>1, <2>2, <2>3, SessionsSame
    <1> QED  BY <1>1, <1>6, <1>7, <1>8, <1>9, <1>11, <1>12 DEF IdentityInv, IdentityJob

LEMMA SessionSteps ==
    ASSUME Routes, Patience, Led, SessionInv, NEW r \in AccountCalls, r \in Requests,
           SessionsMove(r), Serves(r, "accounts")
    PROVE  SessionInv'
    <1>1. /\ load' = load /\ stops' = stops /\ AccountCalls' = AccountCalls
          /\ \A q : token(q)' = token(q)
          /\ \A q \in AccountCalls : q \in Requests /\ (q # r => pc'[q] = pc[q])
        BY DEF Serves, AccountCalls, Requests, call, token
    <1>2. pc[r] \notin Over
        BY DEF Serves, Takes, UnderWay, Begins, Over
    <1>3. ASSUME NEW t \in DOMAIN sessions
          PROVE  /\ t \in AccountCalls /\ pc[t] \in {"refreshSave"} \cup Over
                 /\ DOMAIN sessions[t] = {"account", "revoked", "from"}
                 /\ sessions[t].from \in DOMAIN sessions
        BY DEF SessionInv
    <1>4. pc[r] = "refreshIssue" => token(r) \in DOMAIN sessions
        BY DEF SessionInv
    <1>5. \A t \in DOMAIN sessions : t \in DOMAIN sessions'
        BY DEF SessionsMove, Revoking, Put
    <1>6. ASSUME NEW t \in DOMAIN sessions'
          PROVE  /\ t \in AccountCalls /\ pc'[t] \in {"refreshSave"} \cup Over
                 /\ DOMAIN sessions'[t] = {"account", "revoked", "from"}
                 /\ sessions'[t].from \in DOMAIN sessions'
        <2>1. CASE /\ t \in DOMAIN sessions /\ sessions'[t].from = sessions[t].from
                   /\ DOMAIN sessions'[t] = DOMAIN sessions[t]
            <3>1. t = r => pc'[r] \in Over
                BY <1>2, <1>3, <2>1 DEF SessionsMove, Revoking, Over
            <3> QED  BY <1>1, <1>3, <1>5, <2>1, <3>1
        <2>2. ASSUME NEW a, NEW f, t = r, sessions'[r] = Session(a, f), f = r \/ f \in DOMAIN sessions,
                     pc[r] \in {"issue", "refreshIssue"}
              PROVE  /\ t \in AccountCalls /\ pc'[t] \in {"refreshSave"} \cup Over
                     /\ DOMAIN sessions'[t] = {"account", "revoked", "from"}
                     /\ sessions'[t].from \in DOMAIN sessions'
            <3>1. DOMAIN Session(a, f) = {"account", "revoked", "from"} /\ Session(a, f).from = f
                BY DEF Session
            <3>2. r \notin DOMAIN sessions
                BY <1>3, <2>2 DEF Over
            <3>3. pc'[r] \in {"done", "refreshSave"}
                BY <1>6, <2>2, <3>2 DEF SessionsMove
            <3> QED  BY <1>5, <1>6, <2>2, <3>1, <3>3 DEF Over
        <2> QED  BY <1>3, <1>4, <2>1, <2>2, SessionsSame
    <1>7. ASSUME NEW q \in AccountCalls, pc'[q] = "refreshIssue"
          PROVE  token(q) \in DOMAIN sessions' /\ (q = r => sessions' = sessions /\ Live(token(q)))
        <2>1. CASE q = r
            BY <1>7, <2>1 DEF SessionsMove, Revoking, Live
        <2>2. CASE q # r
            BY <1>1, <1>5, <1>7, <2>2 DEF SessionInv
        <2> QED  BY <2>1, <2>2
    <1>8. ASSUME load.patient, stops = 0
          PROVE  /\ \A q \in AccountCalls : pc'[q] = "refreshIssue" => Live(token(q))'
                 /\ \A q \in AccountCalls : pc'[q] = "refreshSave" => OneLive({token(q)})'
                 /\ (\A q \in AccountCalls : pc'[q] # "refreshSave") => OneLive({})'
        <2>1. \A q \in AccountCalls : q # r => pc[q] \in Over \cup {"idle"} /\ pc'[q] = pc[q]
            BY <1>1, <1>8, TakesAlone DEF Serves, UnderWay
        <2>2. \A q \in AccountCalls : pc'[q] = "refreshIssue" => Live(token(q))'
            <3>1. \A q \in AccountCalls : pc'[q] = "refreshIssue" => q = r
                BY <2>1 DEF Over
            <3> QED  BY <1>1, <1>7, <3>1 DEF Live
        <2>3. /\ \A q \in AccountCalls : pc'[q] = "refreshSave" => q = r
              /\ pc[r] # "refreshSave" => \A q \in AccountCalls : pc[q] # "refreshSave"
            BY <2>1 DEF Over
        <2>4. /\ pc[r] = "refreshIssue" => Live(token(r))
              /\ pc[r] = "refreshSave" => OneLive({token(r)})
              /\ pc[r] # "refreshSave" => OneLive({})
            BY <1>8, <2>3 DEF SessionInv
        <2> SUFFICES /\ pc'[r] = "refreshSave" => OneLive({token(r)})'
                     /\ pc'[r] # "refreshSave" => OneLive({})'
            BY <1>1, <2>2, <2>3
        <2>5. CASE sessions' = sessions /\ pc[r] # "refreshSave" /\ pc'[r] # "refreshSave"
            BY <2>4, <2>5 DEF OneLive, Live
        <2>6. CASE /\ pc[r] = "issue" /\ pc'[r] = "done"
                   /\ sessions' = Put(sessions, r, Session(Account(r), r))
            <3>1. r \notin DOMAIN sessions /\ OneLive({})
                BY <1>3, <2>4, <2>6 DEF Over
            <3>2. \A t \in DOMAIN sessions : sessions[t].from # r
                BY <1>3, <3>1
            <3>3. /\ DOMAIN sessions' = DOMAIN sessions \cup {r} /\ sessions'[r].from = r
                  /\ \A t \in DOMAIN sessions : sessions'[t] = sessions[t]
                BY <2>6, <3>1 DEF Put, Session
            <3> QED  BY <2>6, <3>1, <3>2, <3>3 DEF OneLive, Live
        <2>7. CASE /\ pc[r] = "refreshIssue" /\ pc'[r] = "refreshSave"
                   /\ sessions' = Put(sessions, r, Session(sessions[token(r)].account,
                                                           sessions[token(r)].from))
            <3>1. r \notin DOMAIN sessions /\ OneLive({}) /\ Live(token(r))
                BY <1>3, <2>4, <2>7 DEF Over
            <3>2. /\ DOMAIN sessions' = DOMAIN sessions \cup {r}
                  /\ sessions'[r].from = sessions[token(r)].from
                  /\ \A t \in DOMAIN sessions : sessions'[t] = sessions[t]
                BY <2>7, <3>1 DEF Put, Session
            <3> QED  BY <1>1, <2>7, <3>1, <3>2 DEF OneLive, Live
        <2>8. CASE Revoking(r) /\ (pc[r] = "refreshSave" \/ pc[r] = "idle")
            <3>1. ASSUME NEW t \in DOMAIN sessions', Live(t)'
                  PROVE  t # token(r) /\ t \in DOMAIN sessions /\ Live(t) /\ sessions'[t] = sessions[t]
                <4>1. t \in DOMAIN sessions
                    BY <2>8, <3>1 DEF Revoking
                <4>2. t # token(r)
                    BY <1>3, <2>8, <3>1, <4>1 DEF Revoking, Live
                <4> QED  BY <2>8, <3>1, <4>1, <4>2 DEF Revoking, Live
            <3> QED  BY <2>4, <2>8, <3>1 DEF OneLive, Revoking
        <2> QED  BY <2>5, <2>6, <2>7, <2>8 DEF SessionsMove
    <1> QED  BY <1>1, <1>6, <1>7, <1>8 DEF SessionInv

LEMMA IdentityRest ==
    ASSUME NoDeletion, IdentityInv, AccountsRest, AccountCalls' = AccountCalls,
           \A q : call(q)' = call(q)
    PROVE  IdentityInv'
    <1>1. /\ load' = load /\ users' = users /\ sessions' = sessions /\ Requests' = Requests
          /\ \A q \in AccountCalls : (pc'[q] = pc[q] /\ job'[q] = job[q]) \/ pc'[q] = "stopped"
        BY DEF AccountsRest, accountVars, Requests
    <1>2. /\ \A op : Asks(op)' = Asks(op)
          /\ \A g : OneAddress(g)' <=> OneAddress(g)
        BY <1>1 DEF Asks, OneAddress
    <1>3. OneHolder' /\ Vouched' /\ \A u \in DOMAIN users' : IsUser(users'[u])
        <2>1. OneHolder' /\ \A u \in DOMAIN users' : IsUser(users'[u])
            BY <1>1 DEF IdentityInv, OneHolder
        <2>2. Vouched /\ Asks("loginGoogle")' = Asks("loginGoogle")
            BY <1>2 DEF IdentityInv
        <2>3. Vouched'
            BY <1>1, <2>2 DEF Vouched
        <2> QED  BY <2>1, <2>3
    <1>4. \A u \in DOMAIN users' \cap AccountCalls : pc'[u] \in {"issue"} \cup Over
        BY <1>1 DEF IdentityInv, Over
    <1>5. ASSUME NEW q \in AccountCalls  PROVE IdentityJob(q)'
        <2>1. IdentityJob(q)
            BY DEF IdentityInv
        <2>2. \A u : Owns(q, u)' <=> Owns(q, u)
            BY <1>1, <1>2 DEF Owns
        <2>3. CASE pc'[q] = pc[q] /\ job'[q] = job[q]
            <3>1. Credentials(q)' <=> Credentials(q)
                BY <2>3 DEF Credentials
            <3> QED  BY <1>1, <2>1, <2>2, <2>3, <3>1 DEF IdentityJob, Identified, Account
        <2>4. CASE pc'[q] = "stopped"
            BY <1>1, <2>1, <2>2, <2>4 DEF IdentityJob, Identified
        <2> QED  BY <1>1, <2>3, <2>4
    <1> QED  BY <1>1, <1>3, <1>4, <1>5 DEF IdentityInv

LEMMA SessionsRest ==
    ASSUME SessionInv, AccountsRest, AccountCalls' = AccountCalls, \A q : call(q)' = call(q),
           stops \in Nat
    PROVE  SessionInv'
    <1>1. /\ load' = load /\ sessions' = sessions /\ \A q : token(q)' = token(q)
          /\ \A q \in AccountCalls : pc'[q] = pc[q] \/ (pc'[q] = "stopped" /\ stops' > 0)
          /\ stops' = 0 => stops = 0
        BY DEF AccountsRest, accountVars, token
    <1>2. /\ \A t : Live(t)' <=> Live(t)
          /\ \A X : OneLive(X)' <=> OneLive(X)
        BY <1>1 DEF Live, OneLive
    <1>3. stops' = 0 => \A q \in AccountCalls : pc'[q] = pc[q]
        BY <1>1
    <1>4. ASSUME load'.patient, stops' = 0
          PROVE  /\ \A q \in AccountCalls : pc'[q] = "refreshIssue" => Live(token(q))'
                 /\ \A q \in AccountCalls : pc'[q] = "refreshSave" => OneLive({token(q)})'
                 /\ (\A q \in AccountCalls : pc'[q] # "refreshSave") => OneLive({})'
        BY <1>1, <1>2, <1>3, <1>4 DEF SessionInv
    <1>5. \A t \in DOMAIN sessions' :
             /\ t \in AccountCalls /\ pc'[t] \in {"refreshSave"} \cup Over
             /\ DOMAIN sessions'[t] = {"account", "revoked", "from"}
             /\ sessions'[t].from \in DOMAIN sessions'
        BY <1>1 DEF SessionInv, Over
    <1>6. \A q \in AccountCalls : pc'[q] = "refreshIssue" => token(q) \in DOMAIN sessions'
        BY <1>1 DEF SessionInv
    <1> QED  BY <1>1, <1>4, <1>5, <1>6 DEF SessionInv

LEMMA SoldIs ==
    ASSUME NEW m \in Int, NEW n \in Int, m <= n
    PROVE  /\ SoldTo(n) \in Nat /\ SoldTo(m) <= SoldTo(n) /\ SoldTo(n) <= Cardinality(VanityIds)
           /\ n \in VanityIds => SoldTo(n) = SoldTo(n - 1) + 1
    <1> DEFINE Upto(k) == {v \in VanityIds : v <= k}
    <1>1. VanityIds \subseteq Nat /\ IsFiniteSet(VanityIds)
        BY IdentityAssumption
    <1>2. \A k : Upto(k) \subseteq VanityIds
        OBVIOUS
    <1>3. \A k : IsFiniteSet(Upto(k)) /\ Cardinality(Upto(k)) \in Nat
        BY <1>1, <1>2, FS_Subset, FS_CardinalityType
    <1>4. Cardinality(Upto(n)) <= Cardinality(VanityIds)
        BY <1>1, <1>2, FS_Subset
    <1>5. Upto(m) \subseteq Upto(n)
        <2> SUFFICES ASSUME NEW v \in VanityIds, v <= m  PROVE v <= n
            OBVIOUS
        <2> QED  BY <1>1
    <1>6. Cardinality(Upto(m)) <= Cardinality(Upto(n))
        BY <1>3, <1>5, FS_Subset
    <1>7. ASSUME n \in VanityIds  PROVE Cardinality(Upto(n)) = Cardinality(Upto(n - 1)) + 1
        <2>0. ASSUME NEW v \in VanityIds  PROVE v <= n <=> (v <= n - 1 \/ v = n)
            BY <1>1
        <2>1. Upto(n) = Upto(n - 1) \cup {n} /\ n \notin Upto(n - 1)
            <3>1. ~(n <= n - 1)
                OBVIOUS
            <3> QED  BY <1>7, <2>0, <3>1, ZenonT(20)
        <2> HIDE DEF Upto
        <2> QED  BY <1>3, <2>1, FS_AddElement
    <1> QED  BY <1>3, <1>4, <1>6, <1>7 DEF SoldTo

LEMMA NumberRest ==
    ASSUME NumberInv, AccountsRest, AccountCalls' = AccountCalls
    PROVE  NumberInv'
    <1>1. /\ users' = users /\ seq' = seq
          /\ \A q \in AccountCalls : (pc'[q] = pc[q] /\ job'[q] = job[q]) \/ pc'[q] = "stopped"
        BY DEF AccountsRest, accountVars
    <1>2. /\ \A ids : Clashes(ids)' <=> Clashes(ids)
          /\ \A n : NumberTaken(n)' <=> NumberTaken(n)
        BY <1>1 DEF Clashes, Holders, NumberTaken
    <1>3. ASSUME NEW q \in AccountCalls  PROVE NumberJob(q)'
        <2>1. NumberJob(q)
            BY DEF NumberInv
        <2>2. CASE pc'[q] = pc[q] /\ job'[q] = job[q]
            BY <1>1, <1>2, <2>1, <2>2 DEF NumberJob
        <2>3. CASE pc'[q] = "stopped"
            BY <2>3 DEF NumberJob, Over
        <2> QED  BY <1>1, <2>2, <2>3
    <1>4. \A q, s \in AccountCalls :
             pc'[q] = "createUser" /\ pc'[s] = "createUser" /\ job'[q].number = job'[s].number => q = s
        BY <1>1 DEF NumberInv
    <1> QED  BY <1>1, <1>3, <1>4 DEF NumberInv

\* What every step does to the numbers but NextId.
LEMMA NumberJobs ==
    ASSUME Routes, Led, FewSold, NumberInv, NEW r \in AccountCalls, r \in Requests,
           AccountsStep(r), pc[r] \notin Over, ~NextId(r)
    PROVE  seq' = seq /\ pc'[r] # "createUser" /\ NumberJob(r)'
    <1>1. seq \in Nat /\ NumberJob(r)
        BY DEF NumberInv
    <1>2. "tries" \in DOMAIN job[r] => pc[r] \in {"nextId", "createUser", "issue"}
        BY <1>1 DEF NumberJob
    <1>3. ASSUME seq' = seq, pc'[r] \notin {"nextId", "createUser"}, "tries" \notin DOMAIN job'[r]
          PROVE  seq' = seq /\ pc'[r] # "createUser" /\ NumberJob(r)'
        BY <1>3 DEF NumberJob
    <1>4. CASE Plain(r)
        <2>1. "tries" \notin DOMAIN job'[r]
            BY <1>1, <1>2, <1>4 DEF Plain, NumberJob
        <2> QED  BY <1>3, <1>4, <2>1 DEF Plain, Turning
    <1>5. CASE Amends(r)
        BY <1>2, <1>3, <1>5 DEF Amends, PasswordSave, ProfileSave, BanSave, DeleteWipe
    <1>6. CASE \E u : Meets1(r, u)
        BY <1>2, <1>3, <1>6 DEF Meets1
    <1>7. CASE Registers(r)
        <2>1. seq' = seq /\ pc'[r] = "nextId" /\ job'[r].tries = 0 /\ "tries" \in DOMAIN job'[r]
            BY <1>7 DEF Registers, Credentials
        <2>2. 0 \in 0 .. SoldTo(seq)
            BY <1>1, SoldIs
        <2> QED  BY <2>1, <2>2 DEF NumberJob
    <1>8. CASE CreateUser(r)
        <2>1. /\ pc[r] = "createUser" /\ "tries" \in DOMAIN job[r] /\ job[r].number \in 1 .. seq
              /\ job[r].tries \in 1 .. SoldTo(job[r].number - 1) + 1
              /\ NumberTaken(job[r].number) => job[r].number \in VanityIds
            BY <1>1, <1>8 DEF CreateUser, NumberJob
        <2>2. CASE NumberTaken(job[r].number)
            <3>1. /\ SoldTo(job[r].number) = SoldTo(job[r].number - 1) + 1
                  /\ SoldTo(job[r].number) <= SoldTo(seq) /\ SoldTo(job[r].number) \in Nat
                  /\ SoldTo(seq) <= Cardinality(VanityIds) /\ SoldTo(seq) \in Nat
                BY <1>1, <2>1, <2>2, SoldIs
            <3>2. Cardinality(VanityIds) \in Nat /\ Cardinality(VanityIds) < MaxRetry /\ MaxRetry \in Nat
                BY IdentityAssumption, RetryAssumption, FS_CardinalityType DEF FewSold
            <3>3. job[r].tries < MaxRetry /\ job[r].tries \in 0 .. SoldTo(seq)
                BY <2>1, <3>1, <3>2
            <3>4. pc'[r] = "nextId" /\ job' = job /\ seq' = seq
                <4>1. Sees(r, job[r].tries < MaxRetry, "nextId")
                    BY <1>8, <2>2 DEF CreateUser, User
                <4> QED  BY <3>3, <4>1, SeesIs
            <3> QED  BY <2>1, <3>3, <3>4 DEF NumberJob
        <2>3. CASE ~NumberTaken(job[r].number) /\ Clashes(job[r].ids)
            <3>1. Sees(r, FALSE, "failed")
                BY <1>8, <2>3 DEF CreateUser, User
            <3>2. pc'[r] = "failed" /\ job' = job /\ seq' = seq /\ users' = users
                BY <3>1, SeesIs
            <3>3. Clashes(job[r].ids)'
                BY <2>3, <3>2 DEF Clashes, Holders
            <3> QED  BY <3>2, <3>3 DEF NumberJob, Over
        <2>4. CASE ~NumberTaken(job[r].number) /\ ~Clashes(job[r].ids)
            <3> DEFINE d == User(job[r].number, job[r].ids, job[r].password)
                       f == [account |-> r, doc |-> d]
            <3>1. Goes(r, "issue") /\ Learns(r, f) /\ seq' = seq
                BY <1>8, <2>4 DEF CreateUser, User
            <3>2. DOMAIN f = {"account", "doc"} /\ f.doc.status = "active"
                BY DEF User
            <3> HIDE DEF f
            <3>3. job'[r].doc.status = "active"
                BY <3>1, <3>2, LearnedOne
            <3> QED  BY <3>1, <3>3 DEF NumberJob, Goes, Routes
        <2> QED  BY <2>2, <2>3, <2>4
    <1>9. CASE LinkGoogle(r) \/ RefreshIssue(r) \/ RefreshSave(r) \/ Logout(r)
        <2>1. /\ pc[r] \in {"linkGoogle", "refreshIssue", "refreshSave", "idle"} /\ job' = job
              /\ seq' = seq /\ pc'[r] \in {"rereadUser", "refreshSave", "done"}
            BY <1>9 DEF LinkGoogle, RefreshIssue, RefreshSave, Logout, Starts, Revokes, Begins,
                Passes, Goes, Routes
        <2> QED  BY <1>2, <1>3, <2>1
    <1>10. CASE Issue(r) /\ job[r].doc.status = "active"
        <2>1. job' = job /\ seq' = seq /\ pc'[r] = "done"
            BY <1>10 DEF Issue, Starts, Passes, Goes, Routes
        <2> QED  BY <2>1 DEF NumberJob, Over
    <1> QED  BY <1>4, <1>5, <1>6, <1>7, <1>8, <1>9, <1>10, AccountKinds DEF Others

LEMMA NumberSteps ==
    ASSUME Routes, Led, FewSold, NumberInv, NEW r \in AccountCalls, r \in Requests,
           AccountsStep(r), Serves(r, "accounts"), Keeps(r)
    PROVE  NumberInv'
    <1>1. /\ AccountCalls' = AccountCalls /\ call(r).op # "updateProfile" /\ pc[r] \notin Over
          /\ \A q \in AccountCalls : q \in Requests /\ (q # r => pc'[q] = pc[q] /\ job'[q] = job[q])
        BY DEF Serves, AccountCalls, Requests, call, FewSold, Asks, Takes, UnderWay, Begins, Over
    <1>2. /\ seq \in Nat /\ \A u \in DOMAIN users : users[u].number \in VanityIds \cup 1 .. seq
          /\ \A q \in AccountCalls : NumberJob(q)
        BY DEF NumberInv
    <1>3. \A ids : Clashes(ids) => Clashes(ids)'
        <2> SUFFICES ASSUME NEW ids, NEW f \in Unique, NEW u \in Holders(f, ids[f])
                     PROVE  u \in Holders(f, ids[f])'
            BY DEF Clashes
        <2>1. f \in Lasting \/ f = "name"
            BY DEF Lasting, Unique
        <2> QED  BY <1>1, <2>1 DEF Keeps, Holders
    <1>4. ASSUME NEW n, NumberTaken(n)'
          PROVE  NumberTaken(n) \/ (n = job[r].number /\ pc[r] = "createUser")
        BY <1>4 DEF NumberTaken, Keeps, User
    <1>5. /\ seq' \in Nat /\ seq <= seq' /\ NumberJob(r)'
          /\ pc'[r] = "createUser" => job'[r].number \notin 1 .. seq
        <2>1. CASE ~NextId(r)
            BY <1>1, <1>2, <2>1, NumberJobs
        <2>2. CASE NextId(r)
            <3> DEFINE f == [number |-> seq + 1, tries |-> job[r].tries + 1]
            <3>1. /\ "tries" \in DOMAIN job[r] /\ job[r].tries \in 0 .. SoldTo(seq)
                  /\ seq' = seq + 1 /\ users' = users /\ pc'[r] = "createUser"
                BY <1>2, <2>2 DEF NextId, NumberJob, Goes, Routes
            <3>2. Learns(r, f) /\ DOMAIN f = {"number", "tries"} /\ f.number = seq + 1
                  /\ f.tries = job[r].tries + 1
                BY <2>2 DEF NextId
            <3> HIDE DEF f
            <3>3. /\ {"tries", "number"} \subseteq DOMAIN job'[r]
                  /\ job'[r].number = seq + 1 /\ job'[r].tries = job[r].tries + 1
                BY <3>2, LearnedOne
            <3>4. SoldTo(seq) \in Nat
                BY <1>2, SoldIs
            <3>5. job'[r].number - 1 = seq /\ job'[r].tries \in 1 .. SoldTo(seq) + 1
                BY <1>2, <3>1, <3>3, <3>4
            <3>6. \A n : n = seq + 1 /\ NumberTaken(n)' => n \in VanityIds
                BY <1>2, <3>1 DEF NumberTaken
            <3>7. job'[r].number \in 1 .. seq'
                BY <1>2, <3>1, <3>3
            <3>8. NumberTaken(job[r].number)' => job'[r].number \in VanityIds
                BY <3>3, <3>6 DEF NumberTaken
            <3>9. NumberJob(r)'
                BY <3>1, <3>3, <3>5, <3>7, <3>8 DEF NumberJob
            <3> QED  BY <1>2, <3>1, <3>3, <3>9
        <2> QED  BY <2>1, <2>2
    <1>6. \A u \in DOMAIN users' : users'[u].number \in VanityIds \cup 1 .. seq'
        <2> SUFFICES ASSUME NEW u \in DOMAIN users'
                     PROVE  users'[u].number \in VanityIds \cup 1 .. seq'
            OBVIOUS
        <2>1. CASE u \in DOMAIN users
            BY <1>2, <1>5, <2>1 DEF Keeps
        <2>2. CASE u \notin DOMAIN users
            <3>1. users'[u].number = job[r].number /\ pc[r] = "createUser"
                BY <2>2 DEF Keeps, User
            <3>2. job[r].number \in 1 .. seq
                BY <1>2, <3>1 DEF NumberJob
            <3> QED  BY <1>2, <1>5, <3>1, <3>2
        <2> QED  BY <2>1, <2>2
    <1>7. \A q, s \in AccountCalls :
             pc'[q] = "createUser" /\ pc'[s] = "createUser" /\ job'[q].number = job'[s].number => q = s
        <2>1. ASSUME NEW q \in AccountCalls, q # r, pc'[q] = "createUser"  PROVE job'[q].number \in 1 .. seq
            BY <1>1, <1>2, <2>1 DEF NumberJob
        <2>2. ASSUME NEW q \in AccountCalls, NEW s \in AccountCalls, q # r, s # r,
                     pc'[q] = "createUser", pc'[s] = "createUser", job'[q].number = job'[s].number
              PROVE  q = s
            BY <1>1, <2>2 DEF NumberInv
        <2> QED  BY <1>5, <2>1, <2>2
    <1>8. ASSUME NEW q \in AccountCalls, q # r  PROVE NumberJob(q)'
        <2>1. NumberJob(q) /\ pc'[q] = pc[q] /\ job'[q] = job[q]
            BY <1>1, <1>2, <1>8
        <2>2. SoldTo(seq) <= SoldTo(seq') /\ SoldTo(seq) \in Nat /\ SoldTo(seq') \in Nat
            BY <1>2, <1>5, SoldIs
        <2>3. \A n : pc[q] = "createUser" /\ n = job[q].number /\ NumberTaken(n)' => NumberTaken(n)
            BY <1>4, <1>8 DEF NumberInv
        <2>4. pc[q] = "createUser" /\ NumberTaken(job[q].number)' => NumberTaken(job[q].number)
            BY <2>1, <2>3 DEF NumberTaken
        <2> QED  BY <1>2, <1>3, <1>5, <2>1, <2>2, <2>4 DEF NumberJob
    <1> QED  BY <1>1, <1>5, <1>6, <1>7, <1>8 DEF NumberInv

LEMMA AccountInit == Init => AccountInv
    <1> SUFFICES ASSUME Init  PROVE AccountInv
        OBVIOUS
    <1>1. /\ load \in Workloads /\ users = [v \in {0 - n : n \in VanityIds} |-> User(0 - v, Blank, FALSE)]
          /\ seq = 0 /\ sessions = <<>> /\ \A r \in Requests : pc[r] = "idle" /\ job[r] = <<>>
        BY DEF Init, ServiceInit, AccountsInit, Requests
    <1>2. DOMAIN sessions = {} /\ \A r \in Requests : DOMAIN job[r] = {}
        BY <1>1
    <1>3. \A r \in AccountCalls : r \in Requests
        BY DEF AccountCalls
    <1>4. Led
        BY <1>1, <1>3 DEF Led, Leads
    <1>5. SessionInv
        BY <1>1, <1>2, <1>3 DEF SessionInv, OneLive
    <1>6. ASSUME NEW u \in DOMAIN users
          PROVE  /\ \E n \in VanityIds : u = 0 - n /\ users[u] = User(0 - u, Blank, FALSE)
                 /\ users[u].ids = Blank /\ users[u].number \in VanityIds /\ IsUser(users[u])
        <2>1. PICK n \in VanityIds : u = 0 - n
            BY <1>1
        <2>2. users[u] = User(0 - u, Blank, FALSE)
            BY <1>1
        <2>0. n \in Nat
            BY <2>1, IdentityAssumption
        <2>3. 0 - u = n
            BY <2>0, <2>1
        <2>4. /\ User(n, Blank, FALSE).ids = Blank /\ User(n, Blank, FALSE).number = n
              /\ DOMAIN User(n, Blank, FALSE) = {"number", "ids", "password", "status"}
              /\ DOMAIN Blank = IdFields
            BY DEF User, Blank, IdFields
        <2> QED  BY <2>1, <2>2, <2>3, <2>4 DEF IsUser
    <1>7. \A f \in IdFields : Blank[f] = Absent
        BY DEF Blank, IdFields
    <1>8. OneHolder /\ Vouched
        BY <1>6, <1>7 DEF OneHolder, Vouched, Lasting, IdFields, Unique
    <1>9. \A u \in DOMAIN users : u \notin Requests
        BY <1>1, <1>6, IdentityAssumption DEF Requests
    <1>10. \A r \in AccountCalls : IdentityJob(r)
        BY <1>1, <1>2, <1>3 DEF IdentityJob, Identified
    <1>11. IdentityInv
        BY <1>3, <1>6, <1>8, <1>9, <1>10 DEF IdentityInv
    <1>12. NumberInv
        BY <1>1, <1>2, <1>3, <1>6 DEF NumberInv, NumberJob
    <1> QED  BY <1>4, <1>5, <1>11, <1>12 DEF AccountInv

LEMMA AccountStepsInv ==
    ASSUME Routes, Patience, stops \in Nat, AccountInv, [Next]_vars
    PROVE  AccountInv'
    <1>1. Led /\ SessionInv /\ (NoDeletion => IdentityInv /\ (FewSold => NumberInv))
        BY DEF AccountInv
    <1>2. /\ load' = load /\ AccountCalls' = AccountCalls /\ \A q : call(q)' = call(q)
          /\ AccountsRest \/ \E r \in AccountCalls : AccountsStep(r) /\ Serves(r, "accounts")
        BY <1>1, AccountSteps
    <1>3. NoDeletion' = NoDeletion /\ FewSold' = FewSold
        BY <1>2 DEF NoDeletion, FewSold, Asks, Requests
    <1>4. CASE AccountsRest
        <2>1. Led'
            BY <1>1, <1>2, <1>4 DEF AccountsRest, Led, Leads
        <2> QED  BY <1>1, <1>2, <1>3, <1>4, <2>1, SessionsRest, IdentityRest, NumberRest DEF AccountInv
    <1>5. ASSUME NEW r \in AccountCalls, AccountsStep(r), Serves(r, "accounts")
          PROVE  AccountInv'
        <2>1. r \in Requests
            BY DEF AccountCalls
        <2>2. Led'
            BY <1>1, <1>5, <2>1, LedKeeps
        <2>3. SessionInv'
            BY <1>1, <1>5, <2>1, SessionsStep, SessionSteps
        <2>4. CASE NoDeletion
            <3>1. IdentityInv'
                BY <1>1, <1>5, <2>1, <2>4, IdentitySteps
            <3>2. Keeps(r)
                BY <1>1, <1>5, <2>1, <2>4, UsersKeep DEF IdentityInv
            <3>3. FewSold => NumberInv'
                BY <1>1, <1>5, <2>1, <2>4, <3>2, NumberSteps
            <3> QED  BY <1>3, <2>2, <2>3, <3>1, <3>3 DEF AccountInv
        <2>5. CASE ~NoDeletion
            BY <1>3, <2>2, <2>3, <2>5 DEF AccountInv
        <2> QED  BY <2>4, <2>5
    <1> QED  BY <1>2, <1>4, <1>5

LEMMA AccountsFollow ==
    ASSUME Routes, AccountInv
    PROVE  AccountsHold
    <1>1. Led /\ SessionInv /\ (NoDeletion => IdentityInv /\ (FewSold => NumberInv))
        BY DEF AccountInv
    <1>2. \A op \in {"loginGoogle", "loginPhone"} : \A r \in SignsIn(op) :
             r \in AccountCalls /\ call(r).op = op /\ r \in DOMAIN sessions
        BY DEF SignsIn, Asks, AccountCalls, Ops
    <1>3. ASSUME NoDeletion, NEW r \in SignsIn("loginGoogle"), NEW s \in SignsIn("loginGoogle"),
                 call(r).google = call(s).google, OneAddress(call(r).google)
          PROVE  sessions[r].account = sessions[s].account
        <2> DEFINE u == sessions[r].account
                   v == sessions[s].account
        <2>1. Owns(r, u) /\ Owns(s, v)
            BY <1>1, <1>2, <1>3 DEF IdentityInv, IdentityJob, Enrolling
        <2>2. call(r).email = call(s).email /\ call(r).email # Absent
            BY <1>2, <1>3, IdentityAssumption DEF Routes, OneAddress, SignsIn, Asks, call, Requests
        <2>3. OneHolder /\ call(r).op = "loginGoogle" /\ call(s).op = "loginGoogle"
            BY <1>1, <1>2, <1>3 DEF IdentityInv
        <2>4. OneAddress(call(s).google)
            BY <1>3
        <2>5. /\ u \in DOMAIN users /\ v \in DOMAIN users
              /\ users[u].ids.email = call(r).email /\ users[v].ids.email = call(s).email
            BY <1>3, <2>1, <2>3, <2>4 DEF Owns
        <2> QED  BY <2>2, <2>3, <2>5 DEF OneHolder, Lasting
    <1>4. ASSUME NoDeletion, NEW r \in SignsIn("loginPhone"), NEW s \in SignsIn("loginPhone"),
                 call(r).phone = call(s).phone
          PROVE  sessions[r].account = sessions[s].account
        <2>1. Owns(r, sessions[r].account) /\ Owns(s, sessions[s].account)
            BY <1>1, <1>2, <1>4 DEF IdentityInv, IdentityJob, Enrolling
        <2>2. call(r).phone # Absent /\ call(r).op = "loginPhone" /\ call(s).op = "loginPhone"
            BY <1>2, <1>4, IdentityAssumption DEF Routes, SignsIn, Asks, call, Requests
        <2>3. OneHolder
            BY <1>1, <1>4 DEF IdentityInv
        <2> QED  BY <1>4, <2>1, <2>2, <2>3 DEF Owns, OneHolder, Lasting
    <1>5. ASSUME NoDeletion, FewSold, NEW r \in Requests, pc[r] = "failed", "tries" \in DOMAIN job[r]
          PROVE  Clashes(job[r].ids)
        <2>1. PICK s \in Services : call(r).op \in Ops[s] /\ "tries" \in Fields[s]
            BY <1>5 DEF Routes, Read
        <2>2. s = "accounts"
            BY <2>1 DEF Services, Fields
        <2> QED  BY <1>1, <1>5, <2>1, <2>2 DEF NumberInv, NumberJob, AccountCalls
    <1>6. ASSUME load.patient, stops = 0, \A r \in Requests : pc[r] \in Over \cup {"idle"}
          PROVE  OneLive({})
        BY <1>1, <1>6 DEF SessionInv, AccountCalls, Over
    <1>7. load.patient /\ stops = 0 /\ (\A r \in Requests : pc[r] \in Over \cup {"idle"}) =>
             \A t, s \in DOMAIN sessions :
                 Live(t) /\ Live(s) /\ sessions[t].from = sessions[s].from => t = s
        BY <1>6 DEF OneLive
    <1> QED  BY <1>3, <1>4, <1>5, <1>7 DEF AccountsHold, NoDeletion, FewSold

\* auth.service.ts, users.service.ts, numeric-id.service.ts: as long as nobody deletes an
\* account, whoever signs in with a Google id that keeps its address, or with a phone, comes
\* into one account; when fewer numbers are sold than are drawn for one account and nobody
\* renames himself, a sign-up is refused only for its credentials; and when calls wait for
\* each other and none dies, a sign-in has one live refresh token.
THEOREM AccountsAlwaysHold == Spec => []AccountsHold
    <1> DEFINE I == Routes /\ Patience /\ StopsInv /\ AccountInv
    <1>1. Init => I
        BY RoutesInit, PatienceInit, StopsInit, AccountInit
    <1>2. I /\ [Next]_vars => I'
        <2>1. I => stops \in Nat
            <3>1. Routes => IsFiniteSet(Halted)
                BY RequestsFinite, FS_Subset DEF Halted
            <3> QED  BY <3>1, FS_CardinalityType DEF StopsInv
        <2> QED  BY <2>1, RoutesStep, PatienceStep, StopsStep, AccountStepsInv
    <1>3. I => AccountsHold
        BY AccountsFollow
    <1> QED  BY <1>1, <1>2, <1>3, PTL DEF Spec
==============================================================================
